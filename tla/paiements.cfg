SPECIFICATION Equitable
CONSTANTS
  p1 = p1
  e1 = e1
  e2 = e2
  Paiements = {p1}
  Depots = {d1}
  Fichiers = {f1}
  Revues = {v1, v2}
  Livraisons = {l1, l2}
  Notifications <- Echanges
  Identifiants = {e1, e2}
  Montants = {3}
  Aucun = Aucun
  MaxPannes = 1
INVARIANTS TypeOK EvenementUnique ReussiJustifie ConformeActive
PROPERTIES EvenementTraite
CHECK_DEADLOCK FALSE
