------------------------ MODULE TransactionContract ------------------------
(***************************************************************************)
(* What the transaction service promises about the life of a transaction,  *)
(* without requests or steps: PENDING becomes COMPLETED or CANCELLED once, *)
(* COMPLETED becomes REVERSED once, and every reversal brings exactly one  *)
(* compensating transaction, already COMPLETED, into existence. A settled  *)
(* transaction may also be overwritten, by requests that overlap; it is    *)
(* then listed in courses for ever, and it never becomes PENDING again.    *)
(***************************************************************************)
CONSTANTS Lignes, Aucun

VARIABLES
  etat,         \* status of each transaction, "ABSENT" before it exists
  compensation, \* the transaction that compensates it, Aucun if none
  courses       \* the transactions that were overwritten

contratVars == <<etat, compensation, courses>>

ContratInit ==
  /\ etat \in [Lignes -> {"ABSENT", "PENDING"}]
  /\ compensation = [t \in Lignes |-> Aucun]
  /\ courses = {}

Passe(t, avant, apres) ==
  /\ etat[t] = avant
  /\ etat' = [etat EXCEPT ![t] = apres]
  /\ UNCHANGED <<compensation, courses>>

(* The reversal of t, compensated by c.                                    *)
Compenser(t, c) ==
  /\ etat[c] = "ABSENT"
  /\ etat' = [etat EXCEPT ![t] = "REVERSED", ![c] = "COMPLETED"]
  /\ compensation' = [compensation EXCEPT ![t] = c]

Extourner(t, c) ==
  /\ etat[t] = "COMPLETED"
  /\ Compenser(t, c)
  /\ UNCHANGED courses

Reglee(t) == etat[t] \in {"COMPLETED", "CANCELLED", "REVERSED"}

Ecraser(t, apres) ==
  /\ Reglee(t)
  /\ etat' = [etat EXCEPT ![t] = apres]
  /\ courses' = courses \cup {t}
  /\ UNCHANGED compensation

EcraserParReversal(t, c) ==
  /\ Reglee(t)
  /\ Compenser(t, c)
  /\ courses' = courses \cup {t}

ContratNext ==
  \E t \in Lignes :
    \/ Passe(t, "ABSENT", "PENDING")
    \/ Passe(t, "PENDING", "COMPLETED")
    \/ Passe(t, "PENDING", "CANCELLED")
    \/ Ecraser(t, "COMPLETED")
    \/ Ecraser(t, "CANCELLED")
    \/ \E c \in Lignes : Extourner(t, c) \/ EcraserParReversal(t, c)

ContratSpec == ContratInit /\ [][ContratNext]_contratVars
=============================================================================
