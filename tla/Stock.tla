------------------------------- MODULE Stock -------------------------------
(***************************************************************************)
(* StockService, which keeps two kinds of stock. The inventory of a        *)
(* product in an agency moves by increments; the stock of an article is    *)
(* written as an absolute quantity computed from a read. Both record the   *)
(* movement in the transaction that writes the quantity, not in the one    *)
(* that read it.                                                           *)
(***************************************************************************)
EXTENDS Appels, Sequences, SequencesExt

VARIABLES
  inventaire,  \* table Inventory: the quantity of the product, Rien if no row
  mouvements,  \* table StockMovement: the signed quantity each call recorded
  article,     \* ArticleStock.quantite
  historique,  \* table MouvementArticle, oldest first
  stockJob,    \* progress of each call
  ecrases      \* calls that wrote an article over a change they had not read

stockVars == <<inventaire, mouvements, article, historique, stockJob, ecrases>>

OpsInventaire == {"stockIn", "stockOut"}
OpsArticle == {"entree", "sortie", "ajustement"}

StockTypeOK ==
  /\ inventaire \in Int \cup {Rien}
  /\ mouvements \in [Appels -> Int]
  /\ article \in Nat
  /\ historique \in Seq([appel: Appels, quantite: Int, avant: Nat, apres: Nat])
  /\ stockJob \in [Appels -> [op: {"aucune"} \cup OpsInventaire \cup OpsArticle,
                              quantite: Nat, avant: Nat,
                              pc: {"repos", "absent", "lu", "fini", "refuse", "perdu"}]]
  /\ ecrases \subseteq Appels

StockInit ==
  /\ inventaire = Rien
  /\ mouvements = [c \in Appels |-> 0]
  /\ article = 0
  /\ historique = <<>>
  /\ stockJob = [c \in Appels |-> [op |-> "aucune", quantite |-> 0, avant |-> 0, pc |-> "repos"]]
  /\ ecrases = {}

StockCommencer(c, op, q, avant, pc) ==
  /\ stockJob[c].pc = "repos"
  /\ stockJob' = [stockJob EXCEPT ![c] = [op |-> op, quantite |-> q, avant |-> avant, pc |-> pc]]

StockPasse(c, ops, avant, apres) ==
  /\ stockJob[c].pc = avant /\ stockJob[c].op \in ops
  /\ stockJob' = [stockJob EXCEPT ![c].pc = apres]

(* getOrCreateInventory: the row is found, or will be created.             *)
LireInventaire(c, op, q) ==
  /\ IF inventaire = Rien THEN StockCommencer(c, op, q, 0, "absent")
     ELSE /\ op = "stockOut" => inventaire >= q
          /\ StockCommencer(c, op, q, 0, "lu")
  /\ UNCHANGED <<arrets, inventaire, mouvements, article, historique, ecrases>>

(* The row is created empty: only an entry goes on with it.                *)
CreerInventaire(c) ==
  /\ inventaire = Rien
  /\ StockPasse(c, OpsInventaire, "absent", IF stockJob[c].op = "stockIn" THEN "lu" ELSE "refuse")
  /\ inventaire' = 0
  /\ UNCHANGED <<arrets, mouvements, article, historique, ecrases>>

(* The row is unique per product and agency: a second creation fails.      *)
CreationRefusee(c) ==
  /\ inventaire # Rien
  /\ StockPasse(c, OpsInventaire, "absent", "refuse")
  /\ UNCHANGED <<arrets, inventaire, mouvements, article, historique, ecrases>>

Signee(c) == IF stockJob[c].op \in {"stockOut", "sortie"} THEN 0 - stockJob[c].quantite
             ELSE stockJob[c].quantite

BougerInventaire(c) ==
  /\ StockPasse(c, OpsInventaire, "lu", "fini")
  /\ inventaire' = inventaire + Signee(c)
  /\ mouvements' = [mouvements EXCEPT ![c] = Signee(c)]
  /\ UNCHANGED <<arrets, article, historique, ecrases>>

(* Mutation: the quantity available is not compared with the one asked.    *)
MutLireArticle(c, op, q) ==
  /\ StockCommencer(c, op, q, article, "lu")
  /\ UNCHANGED <<arrets, inventaire, mouvements, article, historique, ecrases>>

LireArticle(c, op, q) ==
  /\ op = "sortie" => article >= q
  /\ StockCommencer(c, op, q, article, "lu")
  /\ UNCHANGED <<arrets, inventaire, mouvements, article, historique, ecrases>>

(* quantiteApres: an adjustment names the new quantity, the others move    *)
(* the quantity read.                                                      *)
Apres(c) == IF stockJob[c].op = "ajustement" THEN stockJob[c].quantite
            ELSE stockJob[c].avant + Signee(c)

EcrireArticle(c) ==
  LET avant == stockJob[c].avant
  IN  /\ StockPasse(c, OpsArticle, "lu", "fini")
      /\ article' = Apres(c)
      /\ historique' = Append(historique, [appel |-> c, quantite |-> Apres(c) - avant,
                                           avant |-> avant, apres |-> Apres(c)])
      /\ ecrases' = IF article = avant THEN ecrases ELSE ecrases \cup {c}
      /\ UNCHANGED <<arrets, inventaire, mouvements>>

StockEtape(c) ==
  \/ \E q \in Quantites : \/ \E op \in OpsInventaire : LireInventaire(c, op, q)
                          \/ \E op \in OpsArticle : LireArticle(c, op, q)
  \/ LireArticle(c, "ajustement", 0)
  \/ CreerInventaire(c) \/ CreationRefusee(c) \/ BougerInventaire(c) \/ EcrireArticle(c)

StockArret ==
  /\ arrets < MaxArrets
  /\ arrets' = arrets + 1
  /\ stockJob' = [c \in Appels |-> [stockJob[c] EXCEPT !.pc = Interrompu(@)]]
  /\ UNCHANGED <<inventaire, mouvements, article, historique, ecrases>>

StockNext == StockArret \/ \E c \in Appels : StockEtape(c)

StockSpec == StockInit /\ arrets = 0 /\ [][StockNext]_<<stockVars, arrets>>

-----------------------------------------------------------------------------
(* Properties *)

(* The movements of the article, and those of the inventory.               *)
CumulArticle ==
  SumFunctionOnSet([i \in DOMAIN historique |-> historique[i].quantite], DOMAIN historique)

CumulInventaire == SumFunctionOnSet(mouvements, Appels)

(* The stock of an article never goes below zero and is the quantity after *)
(* its newest movement, however the calls overlap; it is the sum of its    *)
(* movements as long as none overwrote a change it had not read. The       *)
(* inventory, which moves by increments, loses nothing even then, but      *)
(* removals that overlap may take more than there is.                      *)
StockExact ==
  /\ article >= 0
  /\ historique # <<>> => article = Last(historique).apres
  /\ ecrases = {} => article = CumulArticle
  /\ inventaire # Rien => inventaire = CumulInventaire
=============================================================================
