---------------------------- MODULE Transactions ----------------------------
(***************************************************************************)
(* TransactionsService: create, complete, cancel and reverse. Every method *)
(* is a read that decides (findOne and the status test, or the validation  *)
(* of a creation), then one database transaction that writes without       *)
(* testing again, then the emission of an in-process event. Requests       *)
(* interleave between these steps, and the process may stop between them.  *)
(***************************************************************************)
EXTENDS TransactionStore, Sequences

CONSTANTS
  Operations,  \* the methods that are called: a subset of OpsService
  MaxPannes    \* bound: how many times the process may be restarted

OpsService == {"create", "complete", "cancel", "reverse"}

ASSUME TransactionsAssumption == MaxPannes \in Nat

VARIABLES
  suspendus,  \* agents whose status is SUSPENDED
  agregats,   \* per row, how often it was added to the customer's totals
  audit,      \* per row, the statuses its audit log records, oldest first
  req,        \* progress of each request
  pannes,     \* restarts so far
  courses     \* history: the rows a request wrote although their status had
              \* changed since it read it; no guard depends on it

vars == <<tx, reversals, gains, solde, suspendus, agregats, audit, req, pannes, courses>>

(* A request: the method, the row it is about, the row it will insert when *)
(* it is a creation, the status it read, and how far it is. "lu" follows   *)
(* the read, "commis" the database commit, "emis" the emission of the      *)
(* event, "fini" the end of a method no listener that writes hears of,     *)
(* "perdu" a restart.                                                      *)
Requete == [op: {"aucune", "recalculate"} \cup OpsService,
            cible: Lignes \cup {Aucun}, ligne: Ligne \cup {Vide},
            vu: Statuts \cup {"ABSENT"},
            pc: {"repos", "lu", "commis", "emis", "fini", "perdu"}]

EnCours(r) == req[r].pc \in {"lu", "commis"}

(* The status each method insists on.                                      *)
Attendu == [complete |-> "PENDING", cancel |-> "PENDING", reverse |-> "COMPLETED"]

Init ==
  /\ StoreInit
  /\ suspendus = {}
  /\ agregats = [t \in Lignes |-> 0]
  /\ audit = [t \in Lignes |-> IF t \in Existantes THEN <<"PENDING">> ELSE <<>>]
  /\ req = [r \in Requetes |->
              [op |-> "aucune", cible |-> Aucun, ligne |-> Vide,
               vu |-> "ABSENT", pc |-> "repos"]]
  /\ pannes = 0
  /\ courses = {}

-----------------------------------------------------------------------------
(* Agents: suspension and activation.                                      *)

Suspendre(a) ==
  /\ a \notin suspendus
  /\ suspendus' = suspendus \cup {a}
  /\ UNCHANGED <<tx, reversals, gains, solde, agregats, audit, req, pannes, courses>>

Activer(a) ==
  /\ a \in suspendus
  /\ suspendus' = suspendus \ {a}
  /\ UNCHANGED <<tx, reversals, gains, solde, agregats, audit, req, pannes, courses>>

-----------------------------------------------------------------------------
(* create *)

(* The agent is not suspended and, when the type consumes float and the    *)
(* agent has an account, the balance covers the amount.                    *)
Valide(l) ==
  /\ l.agent \notin suspendus
  /\ l.type \in TypesDebit /\ l.agent \in AvecFloat => solde[l.agent] >= l.montant

LireCreation(r, ty, a, m) ==
  /\ "create" \in Operations
  /\ req[r].pc = "repos"
  /\ Valide(Nouvelle(ty, a, m))
  /\ req' = [req EXCEPT ![r] = [op |-> "create", cible |-> r,
                                ligne |-> Nouvelle(ty, a, m), vu |-> "ABSENT",
                                pc |-> "lu"]]
  /\ UNCHANGED <<tx, reversals, gains, solde, suspendus, agregats, audit, pannes, courses>>

Inserer(r) ==
  /\ req[r].pc = "lu" /\ req[r].op = "create"
  /\ tx' = [tx EXCEPT ![r] = req[r].ligne]
  /\ audit' = [audit EXCEPT ![r] = Append(@, "PENDING")]
  /\ req' = [req EXCEPT ![r].pc = "fini"]
  /\ UNCHANGED <<reversals, gains, solde, suspendus, agregats, pannes, courses>>

-----------------------------------------------------------------------------
(* complete, cancel, reverse: the read that decides *)

(* Mutation: the status test is dropped.                                   *)
MutLire(r, op, t) ==
  /\ op \in Operations
  /\ req[r].pc = "repos"
  /\ tx[t] # Vide
  /\ req' = [req EXCEPT ![r] = [op |-> op, cible |-> t, ligne |-> Vide,
                                vu |-> tx[t].statut, pc |-> "lu"]]
  /\ UNCHANGED <<tx, reversals, gains, solde, suspendus, agregats, audit, pannes, courses>>

Lire(r, op, t) ==
  /\ op \in Operations
  /\ req[r].pc = "repos"
  /\ tx[t].statut = Attendu[op]
  /\ req' = [req EXCEPT ![r] = [op |-> op, cible |-> t, ligne |-> Vide,
                                vu |-> tx[t].statut, pc |-> "lu"]]
  /\ UNCHANGED <<tx, reversals, gains, solde, suspendus, agregats, audit, pannes, courses>>

(* The row the request writes, once it has passed its test.                *)
Ecrit(r, op, t) == req[r].pc = "lu" /\ req[r].op = op /\ req[r].cible = t

(* It writes by the row's identifier alone, whatever became of the status. *)
Noter(r, t) == courses' = IF tx[t].statut = req[r].vu THEN courses ELSE courses \cup {t}

Completer(r, t) ==
  /\ Ecrit(r, "complete", t)
  /\ Noter(r, t)
  /\ tx' = [tx EXCEPT ![t].statut = "COMPLETED"]
  /\ agregats' = [agregats EXCEPT ![t] = @ + 1]
  /\ audit' = [audit EXCEPT ![t] = Append(@, "COMPLETED")]
  /\ req' = [req EXCEPT ![r].pc = "commis"]
  /\ UNCHANGED <<reversals, gains, solde, suspendus, pannes>>

(* Mutation: the audit record is written after the response, and lost.     *)
MutAnnuler(r, t) ==
  /\ Ecrit(r, "cancel", t)
  /\ Noter(r, t)
  /\ tx' = [tx EXCEPT ![t].statut = "CANCELLED"]
  /\ req' = [req EXCEPT ![r].pc = "fini"]
  /\ UNCHANGED <<reversals, gains, solde, suspendus, agregats, audit, pannes>>

Annuler(r, t) ==
  /\ Ecrit(r, "cancel", t)
  /\ Noter(r, t)
  /\ tx' = [tx EXCEPT ![t].statut = "CANCELLED"]
  /\ audit' = [audit EXCEPT ![t] = Append(@, "CANCELLED")]
  /\ req' = [req EXCEPT ![r].pc = "fini"]
  /\ UNCHANGED <<reversals, gains, solde, suspendus, agregats, pannes>>

(* Mutation: the compensating row gets a status outside the enum.          *)
MutCompensation(t) == [tx[t] EXCEPT !.statut = "SUCCESS", !.type = "REVERSAL"]

(* The Reversal row and the compensating transaction both take the         *)
(* request's identifier; the earnings of the original are deleted.         *)
Compensation(t) == [tx[t] EXCEPT !.statut = "COMPLETED", !.type = "REVERSAL",
                                 !.commission = 0, !.reversal = Aucun]

Reverser(r, t) ==
  /\ Ecrit(r, "reverse", t)
  /\ Noter(r, t)
  /\ tx' = [tx EXCEPT ![t].statut = "REVERSED", ![t].reversal = r,
                      ![t].commission = 0, ![r] = Compensation(t)]
  /\ reversals' = reversals \cup {r}
  /\ gains' = {g \in gains : req[g].cible # t}
  /\ audit' = [audit EXCEPT ![t] = Append(@, "REVERSED")]
  /\ req' = [req EXCEPT ![r].pc = "commis"]
  /\ UNCHANGED <<solde, suspendus, agregats, pannes>>

(* The event goes out in the process, after the commit: COMPLETED or       *)
(* REVERSED according to the method.                                       *)
Emettre(r) ==
  /\ req[r].pc = "commis"
  /\ req' = [req EXCEPT ![r].pc = "emis"]
  /\ UNCHANGED <<tx, reversals, gains, solde, suspendus, agregats, audit, pannes, courses>>

(* A restart: what was in flight is forgotten, the tables stay.            *)
PerdreRequetes ==
  /\ pannes < MaxPannes
  /\ pannes' = pannes + 1
  /\ req' = [r \in Requetes |-> IF EnCours(r) THEN [req[r] EXCEPT !.pc = "perdu"]
                                ELSE req[r]]
  /\ UNCHANGED <<tx, reversals, gains, solde, suspendus, agregats, audit, courses>>

Etape(r) ==
  \/ \E ty \in Types, a \in Agents, m \in Montants : LireCreation(r, ty, a, m)
  \/ Inserer(r)
  \/ \E op \in DOMAIN Attendu, t \in Lignes : Lire(r, op, t)
  \/ \E t \in Lignes : Completer(r, t) \/ Annuler(r, t) \/ Reverser(r, t)
  \/ Emettre(r)

Statut == \E a \in Agents : Suspendre(a) \/ Activer(a)

(* Everything but a restart.                                               *)
Service == Statut \/ \E r \in Requetes : Etape(r)

Next == Service \/ PerdreRequetes

Spec == Init /\ [][Next]_vars
-----------------------------------------------------------------------------
(* Properties *)

TypeOK ==
  /\ StoreTypeOK
  /\ suspendus \subseteq Agents
  /\ agregats \in [Lignes -> Nat]
  /\ audit \in [Lignes -> Seq(Statuts)]
  /\ req \in [Requetes -> Requete]
  /\ pannes \in 0..MaxPannes
  /\ courses \subseteq Lignes

(* The audit log of t records its completion.                              *)
Completee(t) == \E i \in DOMAIN audit[t] : audit[t][i] = "COMPLETED"

(* The audit log never lies: whatever the interleaving and the restarts,   *)
(* its last record about a transaction is the status of the transaction,   *)
(* because both are written in one database transaction. Only              *)
(* compensating transactions are born without a record.                    *)
AuditFidele ==
  \A t \in Lignes :
    /\ audit[t] # <<>> => audit[t][Len(audit[t])] = tx[t].statut
    /\ audit[t] = <<>> => tx[t] = Vide \/ t \in reversals

(* The customer's totals count a transaction as often as its audit log     *)
(* records a completion: exactly once when it has been completed, reversed *)
(* since or not, and never otherwise (line 331), unless a request          *)
(* completed it from a status it no longer had.                            *)
AgregatExact ==
  \A t \in Lignes :
    /\ agregats[t] = Cardinality({i \in DOMAIN audit[t] : audit[t][i] = "COMPLETED"})
    /\ t \notin courses =>
         agregats[t] = IF t \notin reversals /\ tx[t].statut \in {"COMPLETED", "REVERSED"}
                       THEN 1 ELSE 0

(* Reversal and Transaction correspond one to one: a REVERSED row has the  *)
(* Reversal of a request that reversed it, no Reversal has two rows, and   *)
(* every Reversal is the one of its REVERSED row, unless an overlapping    *)
(* request overwrote that row.                                             *)
LienUnUn ==
  /\ \A t \in Lignes : tx[t].statut = "REVERSED" =>
       tx[t].reversal \in reversals /\ req[tx[t].reversal].cible = t
  /\ \A q \in reversals :
       LET t == req[q].cible
       IN  t \in courses \/ (tx[t].statut = "REVERSED" /\ tx[t].reversal = q)

(* The service implements the contract: seen through the statuses and the  *)
(* reversal links, its interleaved requests are contract steps, and the    *)
(* rows overlapping requests overwrite are the ones the contract lists.    *)
Contrat == INSTANCE TransactionContract WITH
             etat <- [t \in Lignes |-> tx[t].statut],
             compensation <- [t \in Lignes |-> IF tx[t] = Vide THEN Aucun ELSE tx[t].reversal]

RespecteContrat == Contrat!ContratSpec

(* A cancelled transaction is final, and so is a reversed one: no later    *)
(* step gives them another status.                                         *)
TerminalDefinitif ==
  [][\A t \in Lignes : tx[t].statut \in {"CANCELLED", "REVERSED"}
                          => tx'[t].statut = tx[t].statut]_tx
=============================================================================
