CONSTANTS
  Demandes = {d1}
  Gardes = {g1}
  Durees = {1}
  GraceJours = 1
  ProvisoireMax = 1
  Ttl = 1
  MaxHeure = 3
  MaxDemandes = 2
SPECIFICATION Spec
PROPERTY RevocationDefinitive
CHECK_DEADLOCK FALSE
