SPECIFICATION EcouteursSpec
CONSTANTS
  Existantes = {t1}
  Requetes = {r1, r2, r3}
  Agents = {a1, a2}
  AvecFloat = {a1}
  Types = {"RETRAIT", "CASH_IN", "ANNULATION"}
  Montants = {2}
  SoldeInitial = 4
  SeuilMin = 1
  Commissions = {1, 2}
  Aucun = Aucun
  Operations = {"create", "complete", "cancel", "reverse", "recalculate"}
  MaxPannes = 1
INVARIANTS SoldeConserve EffetFidele AlerteSeuil
INVARIANTS GainUnique CommissionGagnee GainConserve AuditFidele AgregatExact LienUnUn
PROPERTIES RespecteContrat
SYMMETRY Symetrie
CHECK_DEADLOCK FALSE
