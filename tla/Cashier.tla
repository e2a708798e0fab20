------------------------------ MODULE Cashier ------------------------------
(***************************************************************************)
(* CashierService about the till of one user: opening, entries, closing.   *)
(* The balance of a till is kept nowhere: it is the balanceAfter of its    *)
(* newest entry or, when it has none, its opening balance. Every method    *)
(* reads the till, most read the balance, then they write, without any     *)
(* database transaction.                                                   *)
(***************************************************************************)
EXTENDS Appels, Sequences, SequencesExt

VARIABLES
  caisse,    \* table Cashier: the row of the user
  ecritures, \* table CashMovement, oldest first
  clotures,  \* table AuditLog: what the closings recorded, oldest first
  caisseJob, \* progress of each call
  decales    \* calls that wrote from a balance that was no longer the till's

caisseVars == <<caisse, ecritures, clotures, caisseJob, decales>>

JobCaisse == [op: {"aucune", "ecriture", "ouverture", "fermeture"},
              montant: Int, solde: Int, caisse: [existe: BOOLEAN, ouverte: BOOLEAN, ouverture: Nat],
              pc: {"repos", "caisse", "solde", "ferme", "fini", "refuse", "perdu"}]

CaisseTypeOK ==
  /\ caisse \in [existe: BOOLEAN, ouverte: BOOLEAN, ouverture: Nat]
  /\ ecritures \in Seq([appel: Appels, montant: Int, avant: Int, apres: Int])
  /\ clotures \in Seq([appel: Appels, ecart: Int])
  /\ caisseJob \in [Appels -> JobCaisse]
  /\ decales \subseteq Appels

CaisseInit ==
  /\ caisse = [existe |-> FALSE, ouverte |-> FALSE, ouverture |-> 0]
  /\ ecritures = <<>>
  /\ clotures = <<>>
  /\ caisseJob = [c \in Appels |-> [op |-> "aucune", montant |-> 0, solde |-> 0,
                                    caisse |-> caisse, pc |-> "repos"]]
  /\ decales = {}

(* Mutation: the entries are read in the wrong order.                      *)
MutSoldeCourant(t) == IF ecritures = <<>> THEN t.ouverture ELSE Head(ecritures).apres

(* soldeCourant, for a till row t read earlier.                            *)
SoldeCourant(t) == IF ecritures = <<>> THEN t.ouverture ELSE Last(ecritures).apres

CaissePasse(c, op, avant, apres) ==
  /\ caisseJob[c].pc = avant /\ caisseJob[c].op = op
  /\ caisseJob' = [caisseJob EXCEPT ![c].pc = apres]

(* caisseDe and the test of isOpen: an entry or a closing wants an open    *)
(* till, an opening a closed one or none.                                  *)
LireCaisse(c, op, m) ==
  /\ caisseJob[c].pc = "repos"
  /\ caisse.ouverte <=> op # "ouverture"
  /\ caisseJob' = [caisseJob EXCEPT ![c] = [op |-> op, montant |-> m, solde |-> 0,
                                            caisse |-> caisse, pc |-> "caisse"]]
  /\ UNCHANGED <<arrets, caisse, ecritures, clotures, decales>>

LireSolde(c) ==
  /\ caisseJob[c].op # "ouverture" /\ caisseJob[c].pc = "caisse"
  /\ caisseJob' = [caisseJob EXCEPT ![c].pc = "solde",
                                    ![c].solde = SoldeCourant(caisseJob[c].caisse)]
  /\ UNCHANGED <<arrets, caisse, ecritures, clotures, decales>>

(* The call writes from a balance, or an open till, that is not the        *)
(* current one any more.                                                   *)
Decale(c) == IF caisseJob[c].solde # SoldeCourant(caisse) \/ ~caisse.ouverte
             THEN decales \cup {c} ELSE decales

AjouterEcriture(c) ==
  LET j == caisseJob[c]
  IN  /\ CaissePasse(c, "ecriture", "solde", "fini")
      /\ ecritures' = Append(ecritures, [appel |-> c, montant |-> j.montant,
                                         avant |-> j.solde, apres |-> j.solde + j.montant])
      /\ decales' = Decale(c)
      /\ UNCHANGED <<arrets, caisse, clotures>>

(* Created for a user who has none (userId is unique: a second creation    *)
(* fails), updated otherwise, whatever its state has become.               *)
OuvrirCaisse(c) ==
  /\ caisseJob[c].caisse.existe \/ ~caisse.existe
  /\ CaissePasse(c, "ouverture", "caisse", "fini")
  /\ caisse' = [existe |-> TRUE, ouverte |-> TRUE, ouverture |-> caisseJob[c].montant]
  /\ UNCHANGED <<arrets, ecritures, clotures, decales>>

OuvertureRefusee(c) ==
  /\ ~caisseJob[c].caisse.existe /\ caisse.existe
  /\ CaissePasse(c, "ouverture", "caisse", "refuse")
  /\ UNCHANGED <<arrets, caisse, ecritures, clotures, decales>>

(* The difference is computed from the balance read; only the audit log,   *)
(* written next, keeps it.                                                 *)
FermerCaisse(c) ==
  /\ CaissePasse(c, "fermeture", "solde", "ferme")
  /\ caisse' = [caisse EXCEPT !.ouverte = FALSE]
  /\ decales' = Decale(c)
  /\ UNCHANGED <<arrets, ecritures, clotures>>

Journaliser(c) ==
  /\ CaissePasse(c, "fermeture", "ferme", "fini")
  /\ clotures' = Append(clotures,
                   [appel |-> c, ecart |-> caisseJob[c].montant - caisseJob[c].solde])
  /\ UNCHANGED <<arrets, caisse, ecritures, decales>>

CaisseEtape(c) ==
  \/ \E q \in Quantites : \/ LireCaisse(c, "ecriture", q) \/ LireCaisse(c, "ecriture", 0 - q)
                          \/ LireCaisse(c, "ouverture", q) \/ LireCaisse(c, "fermeture", q)
  \/ LireSolde(c) \/ AjouterEcriture(c) \/ OuvrirCaisse(c) \/ OuvertureRefusee(c)
  \/ FermerCaisse(c) \/ Journaliser(c)

CaisseArret ==
  /\ arrets < MaxArrets
  /\ arrets' = arrets + 1
  /\ caisseJob' = [c \in Appels |-> [caisseJob[c] EXCEPT !.pc = Interrompu(@)]]
  /\ UNCHANGED <<caisse, ecritures, clotures, decales>>

CaisseNext == CaisseArret \/ \E c \in Appels : CaisseEtape(c)

CaisseSpec == CaisseInit /\ arrets = 0 /\ [][CaisseNext]_<<caisseVars, arrets>>

-----------------------------------------------------------------------------
(* Properties *)

(* What the till holds when every entry is counted: the balance it had     *)
(* before the first one plus all of them.                                  *)
Encaisse(es) ==
  (IF es = <<>> THEN caisse.ouverture ELSE es[1].avant)
    + SumFunctionOnSet([i \in DOMAIN es |-> es[i].montant], DOMAIN es)

(* An entry written from the balance it had read chains with the entry     *)
(* before it, whatever was lost earlier; and as long as no call wrote from *)
(* a balance that had changed since its read, the balance of the till is   *)
(* what it held plus every entry, over any number of openings, closings    *)
(* and restarts, an opening of a till that has entries changing nothing.   *)
CaisseExacte ==
  /\ \A i \in 2..Len(ecritures) :
       ecritures[i].appel \in decales \/ ecritures[i].avant = ecritures[i - 1].apres
  /\ decales = {} => SoldeCourant(caisse) = Encaisse(ecritures)
=============================================================================
