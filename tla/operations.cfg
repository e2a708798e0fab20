SPECIFICATION OpsEquitable
CONSTANTS
  Existantes = {t1}
  Requetes = {r1, r2}
  Agents = {a1}
  AvecFloat = {a1}
  Types = {"DEPOT", "ANNULATION"}
  Montants = {2}
  SoldeInitial = 1
  SeuilMin = 1
  Commissions = {1}
  Aucun = Aucun
  Operations = {"complete", "cancel", "reverse", "recalculate"}
  MaxPannes = 1
INVARIANTS OpsTypeOK LivresConcordants EffetsDeCompletion
PROPERTIES CompletionTraitee
CHECK_DEADLOCK FALSE
