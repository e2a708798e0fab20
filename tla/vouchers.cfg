SPECIFICATION Spec
CONSTANTS
  Codes = {c1, c2, c3}
  Generations = {g1, g2}
  Lots = {l1, l2}
  Requetes = {r1, r2}
  k1 = k1
  k2 = k2
  r1 = r1
  r2 = r2
  Tenants = {k1, k2}
  TenantDe <- Attachements
  Quantites = {2}
  Validites = {1}
  Jamais = Jamais
  Aucun = Aucun
  MaxTentatives = 2
  MaxHeure = 1
  MaxPannes = 1
INVARIANTS TypeOK UsageUnique RefusFonde LotComplet
PROPERTIES RespecteContrat
SYMMETRY Symetrie
CHECK_DEADLOCK FALSE
