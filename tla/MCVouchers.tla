----------------------------- MODULE MCVouchers -----------------------------
(* Instances of Vouchers for TLC: two users of two tenants; codes,         *)
(* generations and lots are interchangeable model values.                  *)
EXTENDS Vouchers, TLC

CONSTANTS k1, k2, r1, r2

Attachements == (r1 :> k1) @@ (r2 :> k2)

Symetrie == Permutations(Codes) \cup Permutations(Generations) \cup Permutations(Lots)
=============================================================================
