-------------------------- MODULE TransactionStore --------------------------
(***************************************************************************)
(* The PostgreSQL tables that the transaction service and the listeners of *)
(* its events share: transactions, reversals, commission earnings and      *)
(* float accounts. A row is identified by the request that inserts it, so  *)
(* identifiers are fresh without being counted; Existantes are the PENDING *)
(* rows found in the database when the observation starts.                 *)
(***************************************************************************)
EXTENDS Integers, FiniteSets, TransactionTypes

CONSTANTS
  Existantes,   \* identifiers of the rows already there
  Requetes,     \* HTTP requests, each also the id of the row it may insert
  Agents,       \* agents of the tenant
  AvecFloat,    \* the agents that have a float account on the network
  Types,        \* business types the clients submit
  Montants,     \* amounts they submit
  SoldeInitial, \* opening balance of every float account
  Aucun         \* "no value": a null foreign key

ASSUME StoreAssumption ==
  /\ Existantes \cap Requetes = {}
  /\ Aucun \notin Existantes \cup Requetes
  /\ AvecFloat \subseteq Agents
  /\ Types \subseteq TypesFR
  /\ Montants \subseteq Nat \ {0}
  /\ SoldeInitial \in Nat

Lignes == Existantes \cup Requetes

Statuts == {"PENDING", "COMPLETED", "CANCELLED", "REVERSED"}

(* A row of Transaction: type is metadata.uiType when there is one, else   *)
(* the business reading of the stored enum; reversal is reversalId.        *)
Ligne == [statut: Statuts, type: TypesFR, agent: Agents, montant: Montants,
          commission: Nat, reversal: Requetes \cup {Aucun}]

(* The value of an identifier no row has been inserted under yet.          *)
Vide == [statut |-> "ABSENT"]

(* A row as create inserts it.                                             *)
Nouvelle(type, agent, montant) ==
  [statut |-> "PENDING", type |-> type, agent |-> agent,
   montant |-> montant, commission |-> 0, reversal |-> Aucun]

VARIABLES
  tx,         \* table Transaction
  reversals,  \* table Reversal: the requests that inserted a row
  gains,      \* table CommissionEarning: the requests that inserted a row
  solde       \* FloatAccount.balance

storeVars == <<tx, reversals, gains, solde>>

StoreTypeOK ==
  /\ tx \in [Lignes -> Ligne \cup {Vide}]
  /\ reversals \subseteq Requetes
  /\ gains \subseteq Requetes
  /\ solde \in [AvecFloat -> Int]

StoreInit ==
  /\ tx \in [Lignes -> {Vide} \cup
                {Nouvelle(ty, a, m) : ty \in Types, a \in Agents, m \in Montants}]
  /\ \A t \in Lignes : tx[t] = Vide <=> t \in Requetes
  /\ reversals = {}
  /\ gains = {}
  /\ solde = [a \in AvecFloat |-> SoldeInitial]
=============================================================================
