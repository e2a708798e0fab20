SPECIFICATION Spec
CONSTANTS
  Existantes = {t1}
  Requetes = {r1, r2, r3}
  Agents = {a1}
  AvecFloat = {a1}
  Types = {"RETRAIT"}
  Montants = {2}
  SoldeInitial = 2
  Aucun = Aucun
  Operations = {"complete", "cancel"}
  MaxPannes = 0
PROPERTIES TerminalDefinitif
CHECK_DEADLOCK FALSE
