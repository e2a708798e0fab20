--------------------------- MODULE MCTransactions ---------------------------
(* Instances of Transactions for TLC: requests and rows are model values.  *)
EXTENDS Transactions, TLC

Symetrie == Permutations(Requetes) \cup Permutations(Existantes)
=============================================================================
