----------------------------- MODULE MCAnnexes -----------------------------
(* Small instance of the registers kept beside the transactions.           *)
EXTENDS Annexes
=============================================================================
