--------------------------- MODULE CircuitBreaker ---------------------------
(***************************************************************************)
(* The circuit breaker of an operator, and the retries it wraps. execute   *)
(* tests the state once, when the call comes in; the outcome is counted    *)
(* when the last attempt ends, possibly minutes and several changes of     *)
(* state later: calls in flight are never called back.                     *)
(***************************************************************************)
EXTENDS Appels

CONSTANTS
  Seuil,        \* failureThreshold
  SeuilSucces,  \* successThreshold
  MaxReprises,  \* maxRetries
  MaxEchecs     \* bound: failures counted without a success in between

ASSUME BreakerAssumption ==
  /\ Seuil \in Nat \ {0}
  /\ SeuilSucces \in Nat \ {0}
  /\ MaxReprises \in Nat
  /\ MaxEchecs \in Nat

VARIABLES
  etat,      \* CircuitBreaker.state
  echecs,    \* failureCount
  succes,    \* successCount
  ouvertA,   \* openedAt: absent, recent, or as old as recoveryTimeoutMs
  vols,      \* per call, the attempt in flight, Rien when there is none
  enSuite    \* failures counted since the last success, or the last closing

breakerVars == <<etat, echecs, succes, ouvertA, vols, enSuite>>

BreakerTypeOK ==
  /\ etat \in {"CLOSED", "OPEN", "HALF_OPEN"}
  /\ echecs \in Nat /\ succes \in Nat /\ enSuite \in Nat
  /\ ouvertA \in {"absent", "recent", "ancien"}
  /\ vols \in [Appels -> 0..MaxReprises \cup {Rien}]

BreakerInit ==
  /\ etat = "CLOSED"
  /\ echecs = 0 /\ succes = 0 /\ enSuite = 0
  /\ ouvertA = "absent"
  /\ vols = [c \in Appels |-> Rien]

(* The delay of the recovery passes.                                       *)
Refroidir ==
  /\ ouvertA = "recent"
  /\ ouvertA' = "ancien"
  /\ UNCHANGED <<arrets, etat, echecs, succes, vols, enSuite>>

(* execute: refused while OPEN, unless the delay has passed; any number of *)
(* calls then go through.                                                  *)
Executer(c) ==
  /\ vols[c] = Rien
  /\ etat = "OPEN" => ouvertA = "ancien"
  /\ etat' = IF etat = "OPEN" THEN "HALF_OPEN" ELSE etat
  /\ vols' = [vols EXCEPT ![c] = 0]
  /\ UNCHANGED <<arrets, echecs, succes, ouvertA, enSuite>>

(* executeWithRetry: a failed attempt is followed by another.              *)
Reprendre(c) ==
  /\ vols[c] \in 0..(MaxReprises - 1)
  /\ vols' = [vols EXCEPT ![c] = @ + 1]
  /\ UNCHANGED <<arrets, etat, echecs, succes, ouvertA, enSuite>>

Refermer ==
  /\ etat' = "CLOSED"
  /\ echecs' = 0 /\ succes' = 0 /\ enSuite' = 0
  /\ ouvertA' = "absent"

(* Mutation: a success does not reset the failures while CLOSED.           *)
MutSansEssai ==
  /\ enSuite' = 0
  /\ UNCHANGED <<etat, echecs, succes, ouvertA>>

(* onSuccess in another state than HALF_OPEN.                              *)
SansEssai ==
  /\ echecs' = 0 /\ enSuite' = 0
  /\ UNCHANGED <<etat, succes, ouvertA>>

(* onSuccess of a trial call, that does or does not close the circuit.     *)
Essai ==
  IF succes + 1 >= SeuilSucces THEN Refermer
  ELSE /\ succes' = succes + 1
       /\ enSuite' = 0
       /\ UNCHANGED <<etat, echecs, ouvertA>>

Reussir(c) ==
  /\ vols[c] # Rien
  /\ IF etat = "HALF_OPEN" THEN Essai ELSE SansEssai
  /\ vols' = [vols EXCEPT ![c] = Rien]
  /\ UNCHANGED arrets

(* onFailure, once the last attempt has failed.                            *)
Echouer(c) ==
  /\ vols[c] = MaxReprises
  /\ echecs < MaxEchecs /\ enSuite < MaxEchecs
  /\ echecs' = echecs + 1 /\ enSuite' = enSuite + 1
  /\ IF etat = "HALF_OPEN" \/ echecs + 1 >= Seuil
     THEN etat' = "OPEN" /\ ouvertA' = "recent"
     ELSE UNCHANGED <<etat, ouvertA>>
  /\ vols' = [vols EXCEPT ![c] = Rien]
  /\ UNCHANGED <<arrets, succes>>

(* A restart builds a new breaker, CLOSED.                                 *)
BreakerArret ==
  /\ arrets < MaxArrets
  /\ arrets' = arrets + 1
  /\ Refermer
  /\ vols' = [c \in Appels |-> Rien]

BreakerNext ==
  \/ Refroidir \/ BreakerArret
  \/ \E c \in Appels : Executer(c) \/ Reprendre(c) \/ Reussir(c) \/ Echouer(c)

BreakerSpec == BreakerInit /\ arrets = 0 /\ [][BreakerNext]_<<breakerVars, arrets>>

-----------------------------------------------------------------------------
(* Properties *)

(* A closed circuit opens after failureThreshold consecutive failures and  *)
(* no fewer, whatever the order in which calls begun before an opening or  *)
(* during a trial come back: a closed circuit always counts exactly the    *)
(* failures since the last success, and fewer than the threshold; and a    *)
(* circuit that is not closed keeps the date that lets it recover.         *)
OuvertureJustifiee ==
  /\ etat = "CLOSED" => echecs = enSuite /\ echecs < Seuil /\ ouvertA = "absent"
  /\ etat # "CLOSED" => ouvertA # "absent"
=============================================================================
