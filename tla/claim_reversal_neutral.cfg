SPECIFICATION FloatSpec
CONSTANTS
  Existantes = {t1, t2}
  Requetes = {r1, r2, r3}
  Agents = {a1}
  AvecFloat = {a1}
  Types = {"RETRAIT"}
  Montants = {2}
  SoldeInitial = 2
  Aucun = Aucun
  Operations = {"complete", "reverse"}
  MaxPannes = 0
  SeuilMin = 0
INVARIANTS ReversalNeutre
CHECK_DEADLOCK FALSE
