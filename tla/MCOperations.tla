---------------------------- MODULE MCOperations ----------------------------
(* Instances of Operations for TLC: requests and rows are model values.    *)
EXTENDS Operations, TLC

Symetrie == Permutations(Requetes) \cup Permutations(Existantes)
=============================================================================
