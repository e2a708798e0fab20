--------------------------- MODULE MCFloatListener ---------------------------
(* Instances of FloatListener for TLC: requests and rows are model values. *)
EXTENDS FloatListener, TLC

Symetrie == Permutations(Requetes) \cup Permutations(Existantes)
=============================================================================
