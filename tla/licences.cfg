CONSTANTS
  Demandes = {d1, d2}
  Gardes = {g1}
  Durees = {1}
  GraceJours = 1
  ProvisoireMax = 1
  Ttl = 1
  MaxHeure = 3
  MaxDemandes = 3
SYMMETRY Symetrie
SPECIFICATION Spec
INVARIANTS TypeOK AccesBorne EssaiUnique TempsPaye CacheBorne
CHECK_DEADLOCK FALSE
