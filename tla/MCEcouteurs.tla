---------------------------- MODULE MCEcouteurs ----------------------------
(* Instances of Ecouteurs for TLC: requests and rows are model values.     *)
EXTENDS Ecouteurs, TLC

Symetrie == Permutations(Requetes) \cup Permutations(Existantes)
=============================================================================
