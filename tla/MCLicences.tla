------------------------------ MODULE MCLicences ------------------------------
(* Two requests at once and a guarded one over a clock that passes every    *)
(* threshold: end of trial, of subscription, of grace and of the cache.     *)
EXTENDS Licences, TLC

Symetrie == Permutations(Demandes)
=============================================================================
