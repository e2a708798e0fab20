SPECIFICATION ComSpec
CONSTANTS
  Existantes = {t1}
  Requetes = {r1, r2, r3}
  Agents = {a1}
  AvecFloat = {a1}
  Types = {"RETRAIT"}
  Montants = {2}
  SoldeInitial = 2
  Aucun = Aucun
  Operations = {"complete", "reverse"}
  MaxPannes = 0
  Commissions = {1}
INVARIANTS ReversalSansGain
CHECK_DEADLOCK FALSE
