------------------------------- MODULE Appels -------------------------------
(***************************************************************************)
(* What the registers kept beside the transactions share: calls in flight  *)
(* (HTTP requests, cron tasks), each a sequence of awaited database calls  *)
(* between which the others run, and a process that may be restarted.      *)
(***************************************************************************)
EXTENDS Integers, FiniteSets

CONSTANTS
  Appels,     \* calls, each also the identity of the row it may insert
  Quantites,  \* amounts and quantities the clients submit
  MaxArrets,  \* bound: how many times a process may be restarted
  Rien        \* "no value"

ASSUME AppelsAssumption ==
  /\ IsFiniteSet(Appels)
  /\ Rien \notin Appels \cup Int
  /\ Quantites \subseteq Nat \ {0}
  /\ MaxArrets \in Nat

VARIABLE arrets  \* restarts so far

(* The progress of a call once the process has been restarted: forgotten   *)
(* unless it had not begun or was over.                                    *)
Interrompu(pc) == IF pc \in {"repos", "fini", "refuse"} THEN pc ELSE "perdu"
=============================================================================
