------------------------- MODULE AccountingListener -------------------------
(***************************************************************************)
(* AccountingListener and the generateEntryFromTransactionId it calls: it  *)
(* looks for an open fiscal year, reads the transaction again (it must     *)
(* still be COMPLETED), and inserts a DRAFT journal entry whose reference, *)
(* AUTO-<reference of the transaction>, is unique in the database.         *)
(***************************************************************************)
EXTENDS Transactions

VARIABLES
  cptJob,  \* per event: how far its job is, and the commission it read
  journal  \* table JournalEntry: the automatic entry of each transaction

cptVars == <<cptJob, journal>>

PasDEcriture == [type |-> "AUCUN"]

(* What an entry keeps of the transaction: the type as the accounting      *)
(* module reads the stored enum, the amount, the commission at that time.  *)
Ecriture == [type: TypesFR, montant: Montants, commission: Nat]

CptTypeOK ==
  /\ cptJob \in [Requetes -> [pc: {"repos", "exercice", "lu", "fini", "sans_exercice",
                                   "echec", "perdu"},
                              commission: Nat]]
  /\ journal \in [Lignes -> Ecriture \cup {PasDEcriture}]

CptInit ==
  /\ cptJob = [r \in Requetes |-> [pc |-> "repos", commission |-> 0]]
  /\ journal = [t \in Lignes |-> PasDEcriture]

CptDeclenche(r) == req[r].pc = "emis" /\ req[r].op = "complete"

CptActif(r) == CptDeclenche(r) /\ cptJob[r].pc \in {"repos", "exercice", "lu"}

CptPasse(r, avant, apres) ==
  /\ CptDeclenche(r)
  /\ cptJob[r].pc = avant
  /\ cptJob' = [cptJob EXCEPT ![r].pc = apres]

(* Whether an open fiscal year covers the date is up to the accountants.   *)
CptExercice(r) ==
  /\ CptPasse(r, "repos", "exercice") \/ CptPasse(r, "repos", "sans_exercice")
  /\ UNCHANGED <<vars, journal>>

(* Mutation: the amount of the transaction is taken for its commission.    *)
MutCptLire(r) ==
  /\ CptDeclenche(r)
  /\ cptJob[r].pc = "exercice"
  /\ tx[req[r].cible].statut = "COMPLETED"
  /\ cptJob' = [cptJob EXCEPT ![r] = [pc |-> "lu", commission |-> tx[req[r].cible].montant]]
  /\ UNCHANGED <<vars, journal>>

CptLire(r) ==
  /\ CptDeclenche(r)
  /\ cptJob[r].pc = "exercice"
  /\ tx[req[r].cible].statut = "COMPLETED"
  /\ cptJob' = [cptJob EXCEPT ![r] = [pc |-> "lu", commission |-> tx[req[r].cible].commission]]
  /\ UNCHANGED <<vars, journal>>

(* Mutation: a transaction reversed meanwhile is not handled.              *)
MutCptEchouer(r) ==
  /\ CptPasse(r, "exercice", "echec")
  /\ tx[req[r].cible].statut = "CANCELLED"
  /\ UNCHANGED <<vars, journal>>

CptEchouer(r) ==
  /\ CptPasse(r, "exercice", "echec")
  /\ tx[req[r].cible].statut # "COMPLETED"
  /\ UNCHANGED <<vars, journal>>

(* _mapTransactionType over the stored enum: a cash-in is booked as a      *)
(* deposit and a cash-out as a withdrawal; the others pass as they are.    *)
TypeComptable(t) ==
  CASE ToPrisma[t] = "DEPOSIT"    -> "DEPOT"
    [] ToPrisma[t] = "WITHDRAWAL" -> "RETRAIT"
    [] ToPrisma[t] = "PAYMENT"    -> "PAIEMENT_MARCHAND"
    [] ToPrisma[t] = "TRANSFER"   -> "TRANSFERT"
    [] OTHER                      -> ToPrisma[t]

(* The types the generator has lines for.                                  *)
Comptabilises == {"DEPOT", "RETRAIT", "CASH_IN", "CASH_OUT", "PAIEMENT_MARCHAND", "TRANSFERT"}

(* The commission lines of an entry: deposits only.                        *)
CommissionComptable(type, commission) == IF type = "DEPOT" THEN commission ELSE 0

(* The entry is already there, or there are no lines for such a type.      *)
CptPasser(r) ==
  LET t == req[r].cible
  IN  /\ CptPasse(r, "lu", "fini")
      /\ journal[t] # PasDEcriture \/ TypeComptable(tx[t].type) \notin Comptabilises
      /\ UNCHANGED <<vars, journal>>

CptInserer(r) ==
  LET t == req[r].cible
      type == TypeComptable(tx[t].type)
  IN  /\ CptPasse(r, "lu", "fini")
      /\ journal[t] = PasDEcriture /\ type \in Comptabilises
      /\ journal' = [journal EXCEPT ![t] =
                       [type |-> type, montant |-> tx[t].montant,
                        commission |-> CommissionComptable(type, cptJob[r].commission)]]
      /\ UNCHANGED vars

(* The fiscal year was closed meanwhile, an account of the entry is not    *)
(* active, or another job inserted it first: the insertion is refused, the *)
(* error logged, the event spent.                                          *)
CptRefuser(r) ==
  /\ CptPasse(r, "lu", "echec")
  /\ UNCHANGED <<vars, journal>>

CptEtape(r) ==
  \/ CptExercice(r) \/ CptLire(r) \/ CptEchouer(r)
  \/ CptPasser(r) \/ CptInserer(r) \/ CptRefuser(r)

PerdreComptabilite ==
  /\ cptJob' = [r \in Requetes |-> IF CptActif(r) THEN [cptJob[r] EXCEPT !.pc = "perdu"]
                                   ELSE cptJob[r]]
  /\ UNCHANGED journal
=============================================================================
