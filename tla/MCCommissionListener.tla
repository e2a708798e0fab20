------------------------ MODULE MCCommissionListener ------------------------
(* Instances of CommissionListener for TLC.                                *)
EXTENDS CommissionListener, TLC

Symetrie == Permutations(Requetes) \cup Permutations(Existantes)
=============================================================================
