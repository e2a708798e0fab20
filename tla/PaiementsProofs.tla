-------------------------- MODULE PaiementsProofs --------------------------
(***************************************************************************)
(* Theorems about payments, for every number of payments, uploads, reviews,*)
(* deliveries and restarts: one delivery at most treats a notification, a  *)
(* payment succeeds for a reason the database keeps, and an event closed   *)
(* without an error has had its effect.                                    *)
(***************************************************************************)
EXTENDS Paiements, TLAPS

Tenue == {"insere", "decide", "ecrit", "fini", "erreur", "perdu"}

PaiementSorte == [statut: Statuts, attendu: Nat]

PreuveSorte == [statut: {"ABSENTE", "EN_ATTENTE", "VALIDEE", "REJETEE"},
                paiement: Paiements \cup {Aucun}, fichier: Fichiers \cup {Aucun}]

DepotStades == {"repos", "lu", "verifie", "cree", "fini", "refus", "perdu"}

DepotSorte == [pc: DepotStades, paiement: Paiements \cup {Aucun}, fichier: Fichiers \cup {Aucun}]

RevueStades == {"repos", "lu", "rejetee", "fini", "perdu"}

RevueSorte == [pc: RevueStades, preuve: Depots \cup {Aucun}, accepte: BOOLEAN]

LivraisonStades == Tenue \cup {"repos", "duplique"}

Verdicts == {"RIEN", "ABSENT", "REUSSI", "ECHOUE"}

LivraisonSorte == [pc: LivraisonStades, notification: Notifications \cup {Aucun},
                   decision: Verdicts]

EvenementSorte == [recu: Notifications \cup {Aucun}, traite: BOOLEAN, erreur: BOOLEAN]

(* The proof of an upload exists from its insertion on; a review past its  *)
(* read is about a proof that exists.                                      *)
Preuves ==
  /\ \A d \in Depots :
       /\ depot[d].pc \in {"repos", "lu", "verifie"} => preuve[d].statut = "ABSENTE"
       /\ depot[d].pc \in {"lu", "verifie", "cree"} => depot[d].paiement \in Paiements
       /\ preuve[d].statut # "ABSENTE" => preuve[d].paiement \in Paiements
  /\ \A v \in Revues :
       revue[v].pc \in {"lu", "rejetee", "fini"} =>
         revue[v].preuve \in Depots /\ preuve[revue[v].preuve].statut # "ABSENTE"

(* The event of a delivery that treats it is the one it inserted.          *)
Enregistrees ==
  \A l \in Livraisons :
    livraison[l].pc \in Tenue =>
      /\ livraison[l].notification \in Notifications
      /\ evenement[Cle(livraison[l].notification)].recu = livraison[l].notification

(* What a delivery has decided is still true when it writes it: the amount *)
(* of a payment does not change, and a payment that succeeded once is      *)
(* remembered.                                                             *)
Decidee(l) ==
  LET n == livraison[l].notification
      p == livraison[l].notification.paiement
      s == livraison[l].decision
  IN  /\ livraison[l].pc \in {"decide", "ecrit"} /\ s = "REUSSI" =>
           paiement[p].statut # "ABSENT" /\ Conforme(n)
      /\ livraison[l].pc \in {"decide", "ecrit"} /\ s = "ECHOUE" =>
           paiement[p].statut # "ABSENT" /\ ~Conforme(n)
      /\ livraison[l].pc \in {"decide", "ecrit"} /\ s = "RIEN" => p \in regles
      /\ livraison[l].pc = "ecrit" => s \in {"REUSSI", "ECHOUE"}
      /\ livraison[l].pc = "ecrit" /\ s = "REUSSI" => p \in regles
      /\ livraison[l].pc \in {"fini", "erreur"} /\ ~evenement[Cle(n)].erreur =>
           \/ p \in regles
           \/ paiement[p].statut # "ABSENT" /\ ~Conforme(n)

Justifie(p) ==
  \/ \E v \in Revues : /\ revue[v].accepte /\ revue[v].pc = "fini"
                       /\ preuve[revue[v].preuve].paiement = p
  \/ \E k \in Cles : LET n == evenement[k].recu
                     IN  IF n = Aucun THEN FALSE ELSE
                           /\ n.paiement = p /\ n.reussi /\ n.devise /\ n.montant # Aucun
                           /\ n.montant \in paiement[p].attendu - 1 .. paiement[p].attendu + 1

Regles ==
  /\ \A p \in regles : Justifie(p) /\ paiement[p].statut # "ABSENT"
  /\ \A p \in Paiements : paiement[p].statut = "REUSSI" => p \in regles

PaiementsInv ==
  /\ TypeOK
  /\ Preuves
  /\ Enregistrees
  /\ EvenementUnique
  /\ \A l \in Livraisons : Decidee(l)
  /\ Regles

LEMMA Sortes ==
  TypeOK <=>
    /\ paiement \in [Paiements -> PaiementSorte]
    /\ preuve \in [Depots -> PreuveSorte]
    /\ evenement \in [Cles -> EvenementSorte]
    /\ depot \in [Depots -> DepotSorte]
    /\ revue \in [Revues -> RevueSorte]
    /\ livraison \in [Livraisons -> LivraisonSorte]
    /\ regles \subseteq Paiements
    /\ pannes \in 0..MaxPannes
<1>1. LivraisonStades = {"repos", "insere", "decide", "ecrit", "fini", "erreur", "duplique", "perdu"}
  BY DEF LivraisonStades, Tenue
<1> QED BY <1>1 DEF TypeOK, PaiementSorte, PreuveSorte, EvenementSorte, DepotSorte, DepotStades,
                    RevueSorte, RevueStades, LivraisonSorte, Verdicts

LEMMA CleType == \A n \in Notifications : Cle(n) \in Cles /\ n.paiement \in Paiements /\ n # Aucun
BY PaiementsAssumption DEF Cle, Cles, Notification

(* A step that keeps the amounts and the memory of successes keeps what    *)
(* the deliveries rest on.                                                 *)
LEMMA Gardees ==
  ASSUME PaiementsInv, livraison' = livraison, evenement' = evenement,
         \A p \in Paiements : paiement[p].statut # "ABSENT" =>
           paiement'[p].statut # "ABSENT" /\ paiement'[p].attendu = paiement[p].attendu,
         regles \subseteq regles'
  PROVE  Enregistrees' /\ EvenementUnique' /\ \A l \in Livraisons : Decidee(l)'
<1>1. Enregistrees' /\ EvenementUnique'
  BY DEF PaiementsInv, Enregistrees, EvenementUnique, Cle
<1>2. ASSUME NEW l \in Livraisons PROVE Decidee(l)'
  <2> DEFINE n == livraison[l].notification
  <2>1. livraison[l].pc \in Tenue => n.paiement \in Paiements
    BY CleType DEF PaiementsInv, Enregistrees
  <2>2. livraison[l].pc \in Tenue /\ paiement[n.paiement].statut # "ABSENT"
          => (Conforme(n)' <=> Conforme(n))
    BY <2>1 DEF Conforme, Ecart
  <2>3. Decidee(l)
    BY DEF PaiementsInv
  <2>4. Cle(n)' = Cle(n)
    BY DEF Cle
  <2> QED BY <2>1, <2>2, <2>3, <2>4 DEF Decidee, Tenue, Cle
<1> QED BY <1>1, <1>2

(* What justifies a success stays.                                         *)
LEMMA Justifications ==
  ASSUME PaiementsInv,
         \A p \in Paiements : paiement[p].statut # "ABSENT" =>
           paiement'[p].statut # "ABSENT" /\ paiement'[p].attendu = paiement[p].attendu,
         \A k \in Cles : evenement[k].recu # Aucun => evenement'[k].recu = evenement[k].recu,
         \A v \in Revues : revue[v].pc = "fini" => revue'[v] = revue[v],
         \A d \in Depots : preuve[d].statut # "ABSENTE" =>
           preuve'[d].paiement = preuve[d].paiement
  PROVE  \A p \in regles : Justifie(p)' /\ paiement'[p].statut # "ABSENT"
<1> SUFFICES ASSUME NEW p \in regles PROVE Justifie(p)' /\ paiement'[p].statut # "ABSENT"
  OBVIOUS
<1>1. /\ paiement'[p].statut # "ABSENT" /\ paiement'[p].attendu = paiement[p].attendu
  BY Sortes DEF PaiementsInv, Regles
<1>2. Justifie(p)
  BY DEF PaiementsInv, Regles
<1>3. CASE \E v \in Revues : /\ revue[v].accepte /\ revue[v].pc = "fini"
                             /\ preuve[revue[v].preuve].paiement = p
  <2>1. PICK v \in Revues : /\ revue[v].accepte /\ revue[v].pc = "fini"
                            /\ preuve[revue[v].preuve].paiement = p
    BY <1>3
  <2>2. revue'[v] = revue[v] /\ preuve'[revue[v].preuve].paiement = p
    BY <2>1 DEF PaiementsInv, Preuves
  <2> QED BY <1>1, <2>1, <2>2 DEF Justifie
<1>4. CASE \E k \in Cles : LET n == evenement[k].recu
                     IN  IF n = Aucun THEN FALSE ELSE
                           /\ n.paiement = p /\ n.reussi /\ n.devise /\ n.montant # Aucun
                           /\ n.montant \in paiement[p].attendu - 1 .. paiement[p].attendu + 1
  <2>1. PICK k \in Cles : LET n == evenement[k].recu
                     IN  IF n = Aucun THEN FALSE ELSE
                           /\ n.paiement = p /\ n.reussi /\ n.devise /\ n.montant # Aucun
                           /\ n.montant \in paiement[p].attendu - 1 .. paiement[p].attendu + 1
    BY <1>4
  <2>2. evenement'[k].recu = evenement[k].recu
    BY <2>1
  <2> QED BY <1>1, <2>1, <2>2 DEF Justifie
<1> QED BY <1>1, <1>2, <1>3, <1>4 DEF Justifie

(* A step of a customer, an administrator or the task.                     *)
LEMMA HorsLivraison ==
  ASSUME PaiementsInv, TypeOK', Preuves', livraison' = livraison, evenement' = evenement,
         \A p \in Paiements : paiement[p].statut # "ABSENT" =>
           paiement'[p].statut # "ABSENT" /\ paiement'[p].attendu = paiement[p].attendu,
         regles \subseteq regles',
         \A v \in Revues : revue[v].pc = "fini" => revue'[v] = revue[v],
         \A d \in Depots : preuve[d].statut # "ABSENTE" =>
           preuve'[d].paiement = preuve[d].paiement,
         \A p \in regles' \ regles : Justifie(p)' /\ paiement'[p].statut # "ABSENT",
         \A p \in Paiements : paiement'[p].statut = "REUSSI" => p \in regles'
  PROVE  PaiementsInv'
<1>1. Enregistrees' /\ EvenementUnique' /\ \A l \in Livraisons : Decidee(l)'
  BY Gardees
<1>2. \A p \in regles : Justifie(p)' /\ paiement'[p].statut # "ABSENT"
  BY Justifications
<1>3. \A p \in regles' : Justifie(p)' /\ paiement'[p].statut # "ABSENT"
  BY <1>2
<1>4. Regles'
  BY <1>3 DEF Regles
<1> QED BY <1>1, <1>4 DEF PaiementsInv

(* The status of one payment written.                                      *)
LEMMA StatutEcrit ==
  ASSUME TypeOK, NEW p \in Paiements, NEW s \in Statuts \ {"ABSENT"},
         paiement' = [paiement EXCEPT ![p].statut = s]
  PROVE  /\ paiement' \in [Paiements -> PaiementSorte]
         /\ paiement'[p].statut = s
         /\ \A q \in Paiements : paiement'[q].attendu = paiement[q].attendu
         /\ \A q \in Paiements \ {p} : paiement'[q] = paiement[q]
<1>1. paiement \in [Paiements -> PaiementSorte]
  BY Sortes
<1> QED BY <1>1 DEF PaiementSorte

LEMMA DepotPasse ==
  ASSUME TypeOK, NEW d \in Depots, NEW b \in DepotStades,
         depot' = [depot EXCEPT ![d].pc = b]
  PROVE  /\ depot' \in [Depots -> DepotSorte]
         /\ depot'[d].pc = b /\ depot'[d].paiement = depot[d].paiement
         /\ \A e \in Depots \ {d} : depot'[e] = depot[e]
<1>1. depot \in [Depots -> DepotSorte]
  BY Sortes
<1> QED BY <1>1 DEF DepotSorte

LEMMA RevuePasse ==
  ASSUME TypeOK, NEW v \in Revues, NEW b \in RevueStades,
         revue' = [revue EXCEPT ![v].pc = b]
  PROVE  /\ revue' \in [Revues -> RevueSorte]
         /\ revue'[v].pc = b /\ revue'[v].preuve = revue[v].preuve
         /\ revue'[v].accepte = revue[v].accepte
         /\ \A w \in Revues \ {v} : revue'[w] = revue[w]
<1>1. revue \in [Revues -> RevueSorte]
  BY Sortes
<1> QED BY <1>1 DEF RevueSorte

LEMMA PreuveEcrite ==
  ASSUME TypeOK, NEW d \in Depots, NEW s \in {"VALIDEE", "REJETEE"},
         preuve' = [preuve EXCEPT ![d].statut = s]
  PROVE  /\ preuve' \in [Depots -> PreuveSorte]
         /\ preuve'[d].statut = s
         /\ \A e \in Depots : preuve'[e].paiement = preuve[e].paiement
         /\ \A e \in Depots \ {d} : preuve'[e] = preuve[e]
<1>1. preuve \in [Depots -> PreuveSorte]
  BY Sortes
<1> QED BY <1>1 DEF PreuveSorte

LEMMA PaiementCree ==
  ASSUME PaiementsInv, NEW p \in Paiements, NEW m \in Montants, Creer(p, m)
  PROVE  PaiementsInv'
<1> TypeOK /\ Preuves
  BY DEF PaiementsInv
<1>1. /\ preuve' = preuve /\ evenement' = evenement /\ regles' = regles /\ depot' = depot
      /\ revue' = revue /\ livraison' = livraison /\ pannes' = pannes
  BY DEF Creer
<1>2. /\ paiement' \in [Paiements -> PaiementSorte]
      /\ paiement[p].statut = "ABSENT" /\ paiement'[p].statut = "EN_ATTENTE"
      /\ \A q \in Paiements \ {p} : paiement'[q] = paiement[q]
  BY Sortes, PaiementsAssumption DEF Creer, PaiementSorte, Statuts
<1>3. TypeOK'
  BY <1>1, <1>2, Sortes DEF TypeOK, PaiementSorte
<1>4. Preuves'
  BY <1>1 DEF Preuves
<1>5. \A q \in Paiements : paiement'[q].statut = "REUSSI" => q \in regles'
  BY <1>1, <1>2 DEF PaiementsInv, Regles
<1> QED BY <1>1, <1>2, <1>3, <1>4, <1>5, HorsLivraison

LEMMA PaiementsExpires ==
  ASSUME PaiementsInv, NEW P \in SUBSET Paiements, Expirer(P)
  PROVE  PaiementsInv'
<1> TypeOK /\ Preuves
  BY DEF PaiementsInv
<1>1. /\ preuve' = preuve /\ evenement' = evenement /\ regles' = regles /\ depot' = depot
      /\ revue' = revue /\ livraison' = livraison /\ pannes' = pannes
  BY DEF Expirer
<1>2. /\ paiement' \in [Paiements -> PaiementSorte]
      /\ \A q \in P : paiement'[q].statut = "EXPIRE" /\ paiement'[q].attendu = paiement[q].attendu
      /\ \A q \in Paiements \ P : paiement'[q] = paiement[q]
  <2>1. paiement \in [Paiements -> PaiementSorte]
    BY Sortes
  <2> QED BY <2>1 DEF Expirer, PaiementSorte, Statuts
<1>3. TypeOK'
  BY <1>1, <1>2, Sortes DEF TypeOK, PaiementSorte
<1>4. Preuves'
  BY <1>1 DEF Preuves
<1>5. \A q \in Paiements : paiement'[q].statut = "REUSSI" => q \in regles'
  BY <1>1, <1>2 DEF PaiementsInv, Regles
<1>6. \A q \in Paiements : paiement[q].statut # "ABSENT" =>
        paiement'[q].statut # "ABSENT" /\ paiement'[q].attendu = paiement[q].attendu
  BY <1>2
<1> QED BY <1>1, <1>3, <1>4, <1>5, <1>6, HorsLivraison

LEMMA PaiementsDepot ==
  ASSUME PaiementsInv, NEW d \in Depots, EtapeDepot(d)
  PROVE  PaiementsInv'
<1> TypeOK /\ Preuves
  BY DEF PaiementsInv
<1>1. /\ evenement' = evenement /\ regles' = regles
      /\ revue' = revue /\ livraison' = livraison /\ pannes' = pannes
  BY DEF EtapeDepot, LirePaiement, ChercherDoublon, CreerPreuve, MettreEnCours, tables
<1>2. ASSUME NEW p \in Paiements, NEW f \in Fichiers, LirePaiement(d, p, f)
      PROVE  PaiementsInv'
  <2>1. paiement' = paiement /\ preuve' = preuve
    BY <1>2 DEF LirePaiement, tables
  <2>2. depot' \in [Depots -> DepotSorte]
    <3>1. depot \in [Depots -> DepotSorte]
      BY Sortes
    <3> QED BY <1>2, <3>1 DEF LirePaiement, DepotSorte, DepotStades
  <2>3. /\ depot[d].pc = "repos" /\ depot'[d].pc = "lu" /\ depot'[d].paiement = p
        /\ \A e \in Depots \ {d} : depot'[e] = depot[e]
    BY <1>2 DEF LirePaiement, TypeOK
  <2>4. TypeOK'
    BY <1>1, <2>1, <2>2 DEF TypeOK, DepotSorte, DepotStades
  <2>5. Preuves'
    BY <1>1, <2>1, <2>3 DEF Preuves
  <2> QED BY <1>1, <2>1, <2>4, <2>5, HorsLivraison DEF PaiementsInv, Regles
<1>3. CASE ChercherDoublon(d)
  <2>1. paiement' = paiement /\ preuve' = preuve
    BY <1>3 DEF ChercherDoublon, tables
  <2>2. PICK b \in {"refus", "verifie"} :
          depot[d].pc = "lu" /\ depot' = [depot EXCEPT ![d].pc = b]
    BY <1>3 DEF ChercherDoublon
  <2>3. /\ depot' \in [Depots -> DepotSorte]
        /\ depot'[d].pc = b /\ depot'[d].paiement = depot[d].paiement
        /\ \A e \in Depots \ {d} : depot'[e] = depot[e]
    BY <2>2, DepotPasse DEF DepotStades
  <2>4. TypeOK'
    BY <1>1, <2>1, <2>3 DEF TypeOK, DepotSorte, DepotStades
  <2>5. Preuves'
    BY <1>1, <2>1, <2>2, <2>3 DEF Preuves
  <2> QED BY <1>1, <2>1, <2>4, <2>5, HorsLivraison DEF PaiementsInv, Regles
<1>4. CASE CreerPreuve(d)
  <2>1. /\ paiement' = paiement /\ depot[d].pc = "verifie"
        /\ depot' = [depot EXCEPT ![d].pc = "cree"]
    BY <1>4 DEF CreerPreuve
  <2>2. /\ depot' \in [Depots -> DepotSorte]
        /\ depot'[d].pc = "cree" /\ depot'[d].paiement = depot[d].paiement
        /\ \A e \in Depots \ {d} : depot'[e] = depot[e]
    BY <2>1, DepotPasse DEF DepotStades
  <2>3. /\ preuve' \in [Depots -> PreuveSorte]
        /\ preuve'[d].statut = "EN_ATTENTE" /\ preuve'[d].paiement = depot[d].paiement
        /\ \A e \in Depots \ {d} : preuve'[e] = preuve[e]
    <3>1. preuve \in [Depots -> PreuveSorte] /\ depot[d] \in DepotSorte
      BY Sortes
    <3> QED BY <1>4, <3>1 DEF CreerPreuve, PreuveSorte, DepotSorte
  <2>4. TypeOK'
    BY <1>1, <2>1, <2>2, <2>3 DEF TypeOK, DepotSorte, DepotStades, PreuveSorte
  <2>5. preuve[d].statut = "ABSENTE" /\ depot[d].paiement \in Paiements
    BY <2>1 DEF Preuves
  <2>6. Preuves'
    BY <1>1, <2>1, <2>2, <2>3, <2>5 DEF Preuves
  <2>7. \A e \in Depots : preuve[e].statut # "ABSENTE" =>
           preuve'[e].paiement = preuve[e].paiement
    BY <2>3, <2>5
  <2> QED BY <1>1, <2>1, <2>4, <2>6, <2>7, HorsLivraison DEF PaiementsInv, Regles
<1>5. CASE MettreEnCours(d)
  <2>1. /\ preuve' = preuve /\ depot[d].pc = "cree"
        /\ depot' = [depot EXCEPT ![d].pc = "fini"]
        /\ paiement' = [paiement EXCEPT ![depot[d].paiement].statut = "EN_COURS"]
    BY <1>5 DEF MettreEnCours
  <2>2. /\ depot' \in [Depots -> DepotSorte]
        /\ depot'[d].pc = "fini" /\ depot'[d].paiement = depot[d].paiement
        /\ \A e \in Depots \ {d} : depot'[e] = depot[e]
    BY <2>1, DepotPasse DEF DepotStades
  <2>3. PICK p \in Paiements : /\ p = depot[d].paiement
                              /\ paiement' = [paiement EXCEPT ![p].statut = "EN_COURS"]
    BY <2>1 DEF Preuves
  <2>4. /\ paiement' \in [Paiements -> PaiementSorte]
        /\ paiement'[p].statut = "EN_COURS"
        /\ \A q \in Paiements : paiement'[q].attendu = paiement[q].attendu
        /\ \A q \in Paiements \ {p} : paiement'[q] = paiement[q]
    <3>1. "EN_COURS" \in Statuts \ {"ABSENT"}
      BY DEF Statuts
    <3> QED BY <2>3, <3>1, StatutEcrit
  <2>5. TypeOK'
    BY <1>1, <2>1, <2>2, <2>4 DEF TypeOK, DepotSorte, DepotStades, PaiementSorte
  <2>6. Preuves'
    BY <1>1, <2>1, <2>2 DEF Preuves
  <2>7. \A q \in Paiements : paiement'[q].statut = "REUSSI" => q \in regles'
    BY <1>1, <2>4 DEF PaiementsInv, Regles
  <2>8. \A q \in Paiements : paiement[q].statut # "ABSENT" =>
          paiement'[q].statut # "ABSENT" /\ paiement'[q].attendu = paiement[q].attendu
    BY <2>4
  <2> QED BY <1>1, <2>1, <2>5, <2>6, <2>7, <2>8, HorsLivraison
<1> QED BY <1>2, <1>3, <1>4, <1>5 DEF EtapeDepot

LEMMA PaiementsRevue ==
  ASSUME PaiementsInv, NEW v \in Revues, EtapeRevue(v)
  PROVE  PaiementsInv'
<1> TypeOK /\ Preuves
  BY DEF PaiementsInv
<1>1. evenement' = evenement /\ depot' = depot /\ livraison' = livraison /\ pannes' = pannes
  BY DEF EtapeRevue, LirePreuve, Valider, RejeterPreuve, RemettreEnAttente, tables
<1>2. ASSUME NEW d \in Depots, NEW a \in BOOLEAN, LirePreuve(v, d, a)
      PROVE  PaiementsInv'
  <2>1. paiement' = paiement /\ preuve' = preuve /\ regles' = regles
    BY <1>2 DEF LirePreuve, tables
  <2>2. revue' \in [Revues -> RevueSorte]
    <3>1. revue \in [Revues -> RevueSorte] /\ [pc |-> "lu", preuve |-> d, accepte |-> a] \in RevueSorte
      BY Sortes DEF RevueSorte, RevueStades
    <3> QED BY <1>2, <3>1 DEF LirePreuve
  <2>3. /\ revue[v].pc = "repos" /\ revue'[v].pc = "lu" /\ revue'[v].preuve = d
        /\ \A w \in Revues \ {v} : revue'[w] = revue[w]
        /\ preuve[d].statut = "EN_ATTENTE"
    BY <1>2 DEF LirePreuve, TypeOK
  <2>4. TypeOK'
    BY <1>1, <2>1, <2>2 DEF TypeOK, RevueSorte, RevueStades
  <2>5. Preuves'
    BY <1>1, <2>1, <2>3 DEF Preuves
  <2>6. \A w \in Revues : revue[w].pc = "fini" => revue'[w] = revue[w]
    BY <2>3
  <2> QED BY <1>1, <2>1, <2>4, <2>5, <2>6, HorsLivraison DEF PaiementsInv, Regles
<1>3. CASE Valider(v)
  <2>1. PICK d \in Depots, p \in Paiements :
          /\ d = revue[v].preuve /\ p = preuve[d].paiement
          /\ revue[v].pc = "lu" /\ revue[v].accepte
          /\ preuve' = [preuve EXCEPT ![d].statut = "VALIDEE"]
          /\ paiement' = [paiement EXCEPT ![p].statut = "REUSSI"]
          /\ regles' = regles \cup {p}
          /\ revue' = [revue EXCEPT ![v].pc = "fini"]
    BY <1>3 DEF Valider, Preuves
  <2>2. /\ paiement' \in [Paiements -> PaiementSorte]
        /\ paiement'[p].statut = "REUSSI"
        /\ \A q \in Paiements : paiement'[q].attendu = paiement[q].attendu
        /\ \A q \in Paiements \ {p} : paiement'[q] = paiement[q]
    <3>1. "REUSSI" \in Statuts \ {"ABSENT"}
      BY DEF Statuts
    <3> QED BY <2>1, <3>1, StatutEcrit
  <2>3. /\ preuve' \in [Depots -> PreuveSorte]
        /\ preuve'[d].statut = "VALIDEE"
        /\ \A e \in Depots : preuve'[e].paiement = preuve[e].paiement
        /\ \A e \in Depots \ {d} : preuve'[e] = preuve[e]
    BY <2>1, PreuveEcrite
  <2>4. /\ revue' \in [Revues -> RevueSorte]
        /\ revue'[v].pc = "fini" /\ revue'[v].preuve = revue[v].preuve
        /\ revue'[v].accepte = revue[v].accepte
        /\ \A w \in Revues \ {v} : revue'[w] = revue[w]
    BY <2>1, RevuePasse DEF RevueStades
  <2>5. TypeOK'
    BY <1>1, <2>1, <2>2, <2>3, <2>4 DEF TypeOK, RevueSorte, RevueStades, PreuveSorte, PaiementSorte
  <2>6. preuve[d].statut # "ABSENTE"
    BY <2>1 DEF Preuves
  <2>7. Preuves'
    BY <1>1, <2>1, <2>3, <2>4, <2>6 DEF Preuves
  <2>8. Justifie(p)'
    <3>1. revue'[v].accepte /\ revue'[v].pc = "fini" /\ preuve'[revue'[v].preuve].paiement = p
      BY <2>1, <2>3, <2>4
    <3> QED BY <3>1 DEF Justifie
  <2>9. \A q \in regles' \ regles : Justifie(q)' /\ paiement'[q].statut # "ABSENT"
    BY <2>1, <2>2, <2>8
  <2>10. \A q \in Paiements : paiement'[q].statut = "REUSSI" => q \in regles'
    BY <2>1, <2>2 DEF PaiementsInv, Regles
  <2>11. \A q \in Paiements : paiement[q].statut # "ABSENT" =>
           paiement'[q].statut # "ABSENT" /\ paiement'[q].attendu = paiement[q].attendu
    BY <2>2
  <2>12. \A w \in Revues : revue[w].pc = "fini" => revue'[w] = revue[w]
    BY <2>1, <2>4
  <2> QED BY <1>1, <2>1, <2>3, <2>5, <2>7, <2>9, <2>10, <2>11, <2>12, HorsLivraison
<1>4. CASE RejeterPreuve(v)
  <2>1. PICK d \in Depots :
          /\ d = revue[v].preuve /\ revue[v].pc = "lu"
          /\ preuve' = [preuve EXCEPT ![d].statut = "REJETEE"]
          /\ revue' = [revue EXCEPT ![v].pc = "rejetee"]
    BY <1>4 DEF RejeterPreuve, Preuves
  <2>2. paiement' = paiement /\ regles' = regles
    BY <1>4 DEF RejeterPreuve
  <2>3. /\ preuve' \in [Depots -> PreuveSorte]
        /\ preuve'[d].statut = "REJETEE"
        /\ \A e \in Depots : preuve'[e].paiement = preuve[e].paiement
        /\ \A e \in Depots \ {d} : preuve'[e] = preuve[e]
    BY <2>1, PreuveEcrite
  <2>4. /\ revue' \in [Revues -> RevueSorte]
        /\ revue'[v].pc = "rejetee" /\ revue'[v].preuve = revue[v].preuve
        /\ \A w \in Revues \ {v} : revue'[w] = revue[w]
    BY <2>1, RevuePasse DEF RevueStades
  <2>5. TypeOK'
    BY <1>1, <2>2, <2>3, <2>4 DEF TypeOK, RevueSorte, RevueStades, PreuveSorte
  <2>6. preuve[d].statut # "ABSENTE"
    BY <2>1 DEF Preuves
  <2>7. Preuves'
    BY <1>1, <2>1, <2>3, <2>4, <2>6 DEF Preuves
  <2>8. \A w \in Revues : revue[w].pc = "fini" => revue'[w] = revue[w]
    BY <2>1, <2>4
  <2> QED BY <1>1, <2>2, <2>3, <2>5, <2>7, <2>8, HorsLivraison DEF PaiementsInv, Regles
<1>5. CASE RemettreEnAttente(v)
  <2>1. PICK p \in Paiements :
          /\ p = preuve[revue[v].preuve].paiement /\ revue[v].pc = "rejetee"
          /\ paiement' = [paiement EXCEPT ![p].statut = "EN_ATTENTE"]
          /\ revue' = [revue EXCEPT ![v].pc = "fini"]
    BY <1>5 DEF RemettreEnAttente, Preuves
  <2>2. preuve' = preuve /\ regles' = regles
    BY <1>5 DEF RemettreEnAttente
  <2>3. /\ paiement' \in [Paiements -> PaiementSorte]
        /\ paiement'[p].statut = "EN_ATTENTE"
        /\ \A q \in Paiements : paiement'[q].attendu = paiement[q].attendu
        /\ \A q \in Paiements \ {p} : paiement'[q] = paiement[q]
    <3>1. "EN_ATTENTE" \in Statuts \ {"ABSENT"}
      BY DEF Statuts
    <3> QED BY <2>1, <3>1, StatutEcrit
  <2>4. /\ revue' \in [Revues -> RevueSorte]
        /\ revue'[v].pc = "fini" /\ revue'[v].preuve = revue[v].preuve
        /\ \A w \in Revues \ {v} : revue'[w] = revue[w]
    BY <2>1, RevuePasse DEF RevueStades
  <2>5. TypeOK'
    BY <1>1, <2>2, <2>3, <2>4 DEF TypeOK, RevueSorte, RevueStades, PaiementSorte
  <2>6. Preuves'
    BY <1>1, <2>1, <2>2, <2>4 DEF Preuves
  <2>7. \A q \in Paiements : paiement'[q].statut = "REUSSI" => q \in regles'
    BY <2>2, <2>3 DEF PaiementsInv, Regles
  <2>8. \A q \in Paiements : paiement[q].statut # "ABSENT" =>
          paiement'[q].statut # "ABSENT" /\ paiement'[q].attendu = paiement[q].attendu
    BY <2>3
  <2>9. \A w \in Revues : revue[w].pc = "fini" => revue'[w] = revue[w]
    BY <2>1, <2>4
  <2> QED BY <1>1, <2>2, <2>5, <2>6, <2>7, <2>8, <2>9, HorsLivraison
<1> QED BY <1>2, <1>3, <1>4, <1>5 DEF EtapeRevue

(* A step of one delivery.                                                 *)
LEMMA EnLivraison ==
  ASSUME PaiementsInv, TypeOK', NEW l \in Livraisons,
         preuve' = preuve, depot' = depot, revue' = revue,
         \A p \in Paiements : paiement[p].statut # "ABSENT" =>
           paiement'[p].statut # "ABSENT" /\ paiement'[p].attendu = paiement[p].attendu,
         regles \subseteq regles',
         \A k \in Cles : evenement[k].recu # Aucun => evenement'[k].recu = evenement[k].recu,
         \A m \in Livraisons \ {l} : livraison'[m] = livraison[m],
         \A m \in Livraisons \ {l} : livraison[m].pc \in Tenue =>
           evenement'[Cle(livraison[m].notification)].erreur
             = evenement[Cle(livraison[m].notification)].erreur,
         livraison'[l].pc \in Tenue =>
           /\ livraison'[l].notification \in Notifications
           /\ evenement'[Cle(livraison'[l].notification)].recu = livraison'[l].notification
           /\ \/ livraison[l].pc \in Tenue /\ livraison'[l].notification = livraison[l].notification
              \/ evenement[Cle(livraison'[l].notification)].recu = Aucun,
         Decidee(l)',
         \A p \in regles' \ regles : Justifie(p)' /\ paiement'[p].statut # "ABSENT",
         \A p \in Paiements : paiement'[p].statut = "REUSSI" => p \in regles'
  PROVE  PaiementsInv'
<1>1. Enregistrees'
  <2> SUFFICES ASSUME NEW m \in Livraisons, livraison'[m].pc \in Tenue
               PROVE  /\ livraison'[m].notification \in Notifications
                      /\ evenement'[Cle(livraison'[m].notification)].recu
                           = livraison'[m].notification
    BY DEF Enregistrees, Cle
  <2>1. CASE m = l
    BY <2>1
  <2>2. CASE m # l
    <3>1. livraison'[m] = livraison[m]
      BY <2>2
    <3>2. /\ livraison[m].notification \in Notifications
          /\ evenement[Cle(livraison[m].notification)].recu = livraison[m].notification
      BY <3>1 DEF PaiementsInv, Enregistrees
    <3> QED BY <3>1, <3>2, CleType
  <2> QED BY <2>1, <2>2
<1>2. EvenementUnique'
  <2>1. ASSUME NEW m \in Livraisons \ {l}, livraison'[m].pc \in Tenue, livraison'[l].pc \in Tenue
        PROVE  Cle(livraison'[m].notification) # Cle(livraison'[l].notification)
    <3>1. /\ livraison'[m] = livraison[m]
          /\ evenement[Cle(livraison[m].notification)].recu = livraison[m].notification
          /\ livraison[m].notification # Aucun
      BY <2>1, CleType DEF PaiementsInv, Enregistrees
    <3>2. livraison[l].pc \in Tenue =>
            Cle(livraison[m].notification) # Cle(livraison[l].notification)
      BY <2>1, <3>1 DEF PaiementsInv, EvenementUnique, Tenue
    <3> QED BY <2>1, <3>1, <3>2
  <2>2. ASSUME NEW m \in Livraisons \ {l}, NEW k \in Livraisons \ {l}, m # k,
               livraison'[m].pc \in Tenue, livraison'[k].pc \in Tenue
        PROVE  Cle(livraison'[m].notification) # Cle(livraison'[k].notification)
    BY <2>2 DEF PaiementsInv, EvenementUnique, Tenue
  <2>3. \A m, k \in Livraisons :
          m # k /\ livraison'[m].pc \in Tenue /\ livraison'[k].pc \in Tenue
            => Cle(livraison'[m].notification) # Cle(livraison'[k].notification)
    BY <2>1, <2>2
  <2> QED BY <2>3 DEF EvenementUnique, Tenue, Cle
<1>3. ASSUME NEW m \in Livraisons \ {l} PROVE Decidee(m)'
  <2> DEFINE n == livraison[m].notification
  <2>1. livraison[m].pc \in Tenue => n.paiement \in Paiements
    BY CleType DEF PaiementsInv, Enregistrees
  <2>2. livraison[m].pc \in Tenue /\ paiement[n.paiement].statut # "ABSENT"
          => (Conforme(n)' <=> Conforme(n))
    BY <2>1 DEF Conforme, Ecart
  <2>3. Decidee(m)
    BY DEF PaiementsInv
  <2>4. livraison'[m] = livraison[m]
    OBVIOUS
  <2>5. livraison[m].pc \in Tenue => evenement'[Cle(n)].erreur = evenement[Cle(n)].erreur
    OBVIOUS
  <2> QED BY <2>1, <2>2, <2>3, <2>4, <2>5 DEF Decidee, Tenue, Cle
<1>4. \A m \in Livraisons : Decidee(m)'
  BY <1>3
<1>5. Preuves'
  BY DEF PaiementsInv, Preuves
<1>6. Regles'
  <2>1. \A p \in regles : Justifie(p)' /\ paiement'[p].statut # "ABSENT"
    BY Justifications
  <2> QED BY <2>1 DEF Regles
<1> QED BY <1>1, <1>2, <1>4, <1>5, <1>6 DEF PaiementsInv

LEMMA LivraisonPasse ==
  ASSUME TypeOK, NEW l \in Livraisons, NEW b \in LivraisonStades,
         livraison' = [livraison EXCEPT ![l].pc = b]
  PROVE  /\ livraison' \in [Livraisons -> LivraisonSorte]
         /\ livraison'[l].pc = b /\ livraison'[l].notification = livraison[l].notification
         /\ livraison'[l].decision = livraison[l].decision
         /\ \A m \in Livraisons \ {l} : livraison'[m] = livraison[m]
<1>1. livraison \in [Livraisons -> LivraisonSorte]
  BY Sortes
<1> QED BY <1>1 DEF LivraisonSorte

LEMMA LivraisonPrise ==
  ASSUME TypeOK, NEW l \in Livraisons, NEW b \in LivraisonStades, NEW n \in Notifications,
         livraison' = [livraison EXCEPT ![l].pc = b, ![l].notification = n]
  PROVE  /\ livraison' \in [Livraisons -> LivraisonSorte]
         /\ livraison'[l].pc = b /\ livraison'[l].notification = n
         /\ \A m \in Livraisons \ {l} : livraison'[m] = livraison[m]
<1>1. livraison \in [Livraisons -> LivraisonSorte]
  BY Sortes
<1> QED BY <1>1 DEF LivraisonSorte

LEMMA LivraisonDecide ==
  ASSUME TypeOK, NEW l \in Livraisons, NEW s \in Verdicts,
         livraison' = [livraison EXCEPT ![l].pc = "decide", ![l].decision = s]
  PROVE  /\ livraison' \in [Livraisons -> LivraisonSorte]
         /\ livraison'[l].pc = "decide" /\ livraison'[l].notification = livraison[l].notification
         /\ livraison'[l].decision = s
         /\ \A m \in Livraisons \ {l} : livraison'[m] = livraison[m]
<1>1. livraison \in [Livraisons -> LivraisonSorte] /\ "decide" \in LivraisonStades
  BY Sortes DEF LivraisonStades, Tenue
<1> QED BY <1>1 DEF LivraisonSorte

LEMMA EvenementClos ==
  ASSUME TypeOK, NEW k \in Cles, NEW b \in BOOLEAN,
         evenement' = [evenement EXCEPT ![k].traite = TRUE, ![k].erreur = b]
  PROVE  /\ evenement' \in [Cles -> EvenementSorte]
         /\ \A j \in Cles : evenement'[j].recu = evenement[j].recu
         /\ evenement'[k].erreur = b
         /\ \A j \in Cles \ {k} : evenement'[j] = evenement[j]
<1>1. evenement \in [Cles -> EvenementSorte]
  BY Sortes
<1> DEFINE r == [evenement[k] EXCEPT !.traite = TRUE, !.erreur = b]
<1>2. evenement' = [j \in Cles |-> IF j = k THEN r ELSE evenement[j]]
  BY <1>1
<1>3. evenement[k] \in EvenementSorte
  BY <1>1
<1>4. r \in EvenementSorte
  BY <1>3 DEF EvenementSorte
<1>5. r.recu = evenement[k].recu
  BY <1>3 DEF EvenementSorte
<1>6. r.erreur = b
  BY <1>3 DEF EvenementSorte
<1> HIDE DEF r
<1> QED BY <1>1, <1>2, <1>4, <1>5, <1>6

LEMMA EvenementInsere ==
  ASSUME TypeOK, NEW k \in Cles, NEW n \in Notifications,
         evenement' = [evenement EXCEPT ![k].recu = n]
  PROVE  /\ evenement' \in [Cles -> EvenementSorte]
         /\ evenement'[k].recu = n
         /\ \A j \in Cles \ {k} : evenement'[j] = evenement[j]
<1>1. evenement \in [Cles -> EvenementSorte]
  BY Sortes
<1> QED BY <1>1 DEF EvenementSorte

(* A notification that conforms is a reason of its payment to succeed.     *)
LEMMA ConformeJustifie ==
  ASSUME TypeOK, NEW n \in Notifications, Conforme(n), evenement[Cle(n)].recu = n
  PROVE  Justifie(n.paiement)
<1>1. /\ n.montant \in Nat /\ n.reussi /\ n.devise /\ n.montant # Aucun
      /\ n.paiement \in Paiements /\ Cle(n) \in Cles /\ n # Aucun
      /\ paiement[n.paiement].attendu \in Nat
  BY CleType, PaiementsAssumption, Sortes DEF Conforme, Notification, PaiementSorte
<1>2. Ecart(n, n.paiement) <= 1
  BY DEF Conforme
<1>3. n.montant \in paiement[n.paiement].attendu - 1 .. paiement[n.paiement].attendu + 1
  BY <1>1, <1>2 DEF Ecart
<1> QED BY <1>1, <1>3 DEF Justifie

LEMMA LivraisonInseree ==
  ASSUME PaiementsInv, NEW l \in Livraisons, NEW n \in Notifications, Inserer(l, n)
  PROVE  PaiementsInv'
<1> TypeOK
  BY DEF PaiementsInv
<1>1. /\ paiement' = paiement /\ preuve' = preuve /\ regles' = regles /\ depot' = depot
      /\ revue' = revue /\ pannes' = pannes
      /\ evenement[Cle(n)].recu = Aucun /\ livraison[l].pc = "repos"
  BY DEF Inserer, Nouveau
<1>2. /\ livraison' \in [Livraisons -> LivraisonSorte]
      /\ livraison'[l].pc = "insere" /\ livraison'[l].notification = n
      /\ \A m \in Livraisons \ {l} : livraison'[m] = livraison[m]
  <2>1. "insere" \in LivraisonStades
    BY DEF LivraisonStades, Tenue
  <2> QED BY <2>1, LivraisonPrise DEF Inserer
<1>3. /\ evenement' \in [Cles -> EvenementSorte]
      /\ evenement'[Cle(n)].recu = n
      /\ \A j \in Cles \ {Cle(n)} : evenement'[j] = evenement[j]
  <2>1. PICK k \in Cles : k = Cle(n) /\ evenement' = [evenement EXCEPT ![k].recu = n]
    BY CleType DEF Inserer
  <2>2. /\ evenement' \in [Cles -> EvenementSorte]
        /\ evenement'[k].recu = n
        /\ \A j \in Cles \ {k} : evenement'[j] = evenement[j]
    BY <2>1, EvenementInsere
  <2> QED BY <2>1, <2>2
<1>4. TypeOK'
  BY <1>1, <1>2, <1>3, Sortes DEF TypeOK, LivraisonSorte, EvenementSorte, LivraisonStades, Tenue, Verdicts
<1>5. \A m \in Livraisons \ {l} : livraison[m].pc \in Tenue =>
           evenement'[Cle(livraison[m].notification)].erreur
             = evenement[Cle(livraison[m].notification)].erreur
  BY <1>1, <1>3, CleType DEF PaiementsInv, Enregistrees
<1>6. Decidee(l)'
  BY <1>2 DEF Decidee
<1>7. \A k \in Cles : evenement[k].recu # Aucun => evenement'[k].recu = evenement[k].recu
  BY <1>1, <1>3
<1> QED BY <1>1, <1>2, <1>3, <1>4, <1>5, <1>6, <1>7, EnLivraison DEF PaiementsInv, Regles

LEMMA LivraisonIgnoree ==
  ASSUME PaiementsInv, NEW l \in Livraisons, NEW n \in Notifications, Ignorer(l, n)
  PROVE  PaiementsInv'
<1> TypeOK
  BY DEF PaiementsInv
<1>1. /\ paiement' = paiement /\ preuve' = preuve /\ regles' = regles /\ depot' = depot
      /\ revue' = revue /\ pannes' = pannes /\ evenement' = evenement
  BY DEF Ignorer, tables
<1>2. /\ livraison' \in [Livraisons -> LivraisonSorte]
      /\ livraison'[l].pc = "duplique"
      /\ \A m \in Livraisons \ {l} : livraison'[m] = livraison[m]
  <2>1. "duplique" \in LivraisonStades
    BY DEF LivraisonStades, Tenue
  <2> QED BY <2>1, LivraisonPrise DEF Ignorer
<1>3. TypeOK'
  BY <1>1, <1>2, Sortes DEF TypeOK, LivraisonSorte, LivraisonStades, Tenue, Verdicts
<1>4. Decidee(l)'
  BY <1>2 DEF Decidee
<1>5. livraison'[l].pc \notin Tenue
  BY <1>2 DEF Tenue
<1> QED BY <1>1, <1>2, <1>3, <1>4, <1>5, EnLivraison DEF PaiementsInv, Regles

LEMMA LivraisonDecidee ==
  ASSUME PaiementsInv, NEW l \in Livraisons, Decider(l)
  PROVE  PaiementsInv'
<1> TypeOK /\ Enregistrees
  BY DEF PaiementsInv
<1>1. /\ paiement' = paiement /\ preuve' = preuve /\ regles' = regles /\ depot' = depot
      /\ revue' = revue /\ pannes' = pannes /\ evenement' = evenement
      /\ livraison[l].pc = "insere"
  BY DEF Decider, tables
<1>2. PICK n \in Notifications :
        /\ n = livraison[l].notification /\ evenement[Cle(n)].recu = n
        /\ n.paiement \in Paiements
  BY <1>1, CleType DEF Enregistrees, Tenue
<1>3. PICK s \in Verdicts :
        /\ s = Decision(n)
        /\ livraison' = [livraison EXCEPT ![l].pc = "decide", ![l].decision = s]
  BY <1>2 DEF Decider, Decision, Verdicts
<1>4. /\ livraison' \in [Livraisons -> LivraisonSorte]
      /\ livraison'[l].pc = "decide" /\ livraison'[l].notification = n
      /\ livraison'[l].decision = s
      /\ \A m \in Livraisons \ {l} : livraison'[m] = livraison[m]
  BY <1>2, <1>3, LivraisonDecide
<1>5. TypeOK'
  BY <1>1, <1>4, Sortes DEF TypeOK, LivraisonSorte, LivraisonStades, Tenue, Verdicts
<1>6. Conforme(n)' <=> Conforme(n)
  BY <1>1 DEF Conforme, Ecart
<1>7. Decidee(l)'
  <2>1. /\ s = "REUSSI" => paiement[n.paiement].statut # "ABSENT" /\ Conforme(n)
        /\ s = "ECHOUE" => paiement[n.paiement].statut # "ABSENT" /\ ~Conforme(n)
        /\ s = "RIEN" => paiement[n.paiement].statut = "REUSSI"
    BY <1>3, Zenon DEF Decision
  <2>2. s = "RIEN" => n.paiement \in regles
    BY <1>2, <2>1 DEF PaiementsInv, Regles
  <2> QED BY <1>1, <1>4, <1>6, <2>1, <2>2 DEF Decidee
<1>8. livraison[l].pc \in Tenue
  BY <1>1 DEF Tenue
<1> QED BY <1>1, <1>2, <1>4, <1>5, <1>7, <1>8, EnLivraison DEF PaiementsInv, Regles

LEMMA LivraisonMarquee ==
  ASSUME PaiementsInv, NEW l \in Livraisons, Marquer(l)
  PROVE  PaiementsInv'
<1> TypeOK /\ Enregistrees /\ Decidee(l)
  BY DEF PaiementsInv
<1>1. /\ preuve' = preuve /\ depot' = depot /\ revue' = revue /\ pannes' = pannes
      /\ evenement' = evenement /\ livraison[l].pc = "decide"
  BY DEF Marquer
<1>2. PICK n \in Notifications, p \in Paiements :
        /\ n = livraison[l].notification /\ evenement[Cle(n)].recu = n
        /\ p = n.paiement /\ Cle(n) \in Cles
  BY <1>1, CleType DEF Enregistrees, Tenue
<1>3. PICK s \in {"REUSSI", "ECHOUE"} :
        /\ s = livraison[l].decision
        /\ paiement' = [paiement EXCEPT ![p].statut = s]
        /\ regles' = IF s = "REUSSI" THEN regles \cup {p} ELSE regles
        /\ livraison' = [livraison EXCEPT ![l].pc = "ecrit"]
  BY <1>2 DEF Marquer
<1>4. /\ paiement' \in [Paiements -> PaiementSorte]
      /\ paiement'[p].statut = s
      /\ \A q \in Paiements : paiement'[q].attendu = paiement[q].attendu
      /\ \A q \in Paiements \ {p} : paiement'[q] = paiement[q]
  <2>1. s \in Statuts \ {"ABSENT"}
    BY DEF Statuts
  <2> QED BY <1>3, <2>1, StatutEcrit
<1>5. /\ livraison' \in [Livraisons -> LivraisonSorte]
      /\ livraison'[l].pc = "ecrit" /\ livraison'[l].notification = n
      /\ livraison'[l].decision = s
      /\ \A m \in Livraisons \ {l} : livraison'[m] = livraison[m]
  <2>1. "ecrit" \in LivraisonStades
    BY DEF LivraisonStades, Tenue
  <2> QED BY <1>2, <1>3, <2>1, LivraisonPasse
<1>6. regles \subseteq regles' /\ regles' \subseteq Paiements
  BY <1>3, Sortes
<1>7. TypeOK'
  BY <1>1, <1>4, <1>5, <1>6, Sortes
     DEF TypeOK, LivraisonSorte, LivraisonStades, Tenue, Verdicts, PaiementSorte
<1>8. /\ paiement[p].statut # "ABSENT"
      /\ s = "REUSSI" => Conforme(n)
      /\ s = "ECHOUE" => ~Conforme(n)
  BY <1>1, <1>2, <1>3 DEF Decidee
<1>9. Conforme(n)' <=> Conforme(n)
  BY <1>2, <1>4 DEF Conforme, Ecart
<1>10. Decidee(l)'
  BY <1>2, <1>3, <1>4, <1>5, <1>8, <1>9 DEF Decidee
<1>11. s = "REUSSI" => Justifie(p)'
  <2>1. s = "REUSSI" => Justifie(p)
    BY <1>2, <1>8, ConformeJustifie
  <2> QED BY <1>1, <1>4, <2>1 DEF Justifie
<1>12. \A q \in regles' \ regles : Justifie(q)' /\ paiement'[q].statut # "ABSENT"
  BY <1>3, <1>4, <1>11
<1>13. \A q \in Paiements : paiement'[q].statut = "REUSSI" => q \in regles'
  BY <1>3, <1>4 DEF PaiementsInv, Regles
<1>14. \A q \in Paiements : paiement[q].statut # "ABSENT" =>
         paiement'[q].statut # "ABSENT" /\ paiement'[q].attendu = paiement[q].attendu
  BY <1>4
<1>15. livraison[l].pc \in Tenue
  BY <1>1 DEF Tenue
<1> QED BY <1>1, <1>2, <1>5, <1>6, <1>7, <1>10, <1>12, <1>13, <1>14, <1>15, EnLivraison

(* An event closed, with or without an error.                              *)
LEMMA Cloture ==
  ASSUME PaiementsInv, NEW l \in Livraisons, NEW n \in Notifications, NEW b \in BOOLEAN,
         NEW c \in {"fini", "erreur"},
         livraison[l].pc \in {"insere", "decide", "ecrit"}, n = livraison[l].notification,
         evenement' = [evenement EXCEPT ![Cle(n)].traite = TRUE, ![Cle(n)].erreur = b],
         livraison' = [livraison EXCEPT ![l].pc = c],
         UNCHANGED <<paiement, preuve, regles, depot, revue, pannes>>,
         ~b => n.paiement \in regles \/ (paiement[n.paiement].statut # "ABSENT" /\ ~Conforme(n))
  PROVE  PaiementsInv'
<1> TypeOK /\ Enregistrees
  BY DEF PaiementsInv
<1>1. /\ livraison' \in [Livraisons -> LivraisonSorte]
      /\ livraison'[l].pc = c /\ livraison'[l].notification = n
      /\ \A m \in Livraisons \ {l} : livraison'[m] = livraison[m]
  <2>1. c \in LivraisonStades
    BY DEF LivraisonStades, Tenue
  <2> QED BY <2>1, LivraisonPasse
<1>2. /\ evenement' \in [Cles -> EvenementSorte]
      /\ \A j \in Cles : evenement'[j].recu = evenement[j].recu
      /\ evenement'[Cle(n)].erreur = b
      /\ \A j \in Cles \ {Cle(n)} : evenement'[j] = evenement[j]
  <2>1. PICK k \in Cles : k = Cle(n)
    BY CleType
  <2>2. /\ evenement' \in [Cles -> EvenementSorte]
        /\ \A j \in Cles : evenement'[j].recu = evenement[j].recu
        /\ evenement'[k].erreur = b
        /\ \A j \in Cles \ {k} : evenement'[j] = evenement[j]
    BY <2>1, EvenementClos
  <2> QED BY <2>1, <2>2
<1>3. TypeOK'
  BY <1>1, <1>2, Sortes DEF TypeOK, LivraisonSorte, LivraisonStades, Tenue, Verdicts, EvenementSorte
<1>4. livraison[l].pc \in Tenue /\ evenement[Cle(n)].recu = n
  BY DEF Enregistrees, Tenue
<1>5. \A m \in Livraisons \ {l} : livraison[m].pc \in Tenue =>
           evenement'[Cle(livraison[m].notification)].erreur
             = evenement[Cle(livraison[m].notification)].erreur
  <2> SUFFICES ASSUME NEW m \in Livraisons \ {l}, livraison[m].pc \in Tenue
               PROVE  evenement'[Cle(livraison[m].notification)].erreur
                        = evenement[Cle(livraison[m].notification)].erreur
    OBVIOUS
  <2>1. Cle(livraison[m].notification) # Cle(n)
    BY <1>4 DEF PaiementsInv, EvenementUnique, Tenue
  <2>2. Cle(livraison[m].notification) \in Cles
    BY CleType DEF Enregistrees
  <2> QED BY <1>2, <2>1, <2>2
<1>6. Conforme(n)' <=> Conforme(n)
  BY DEF Conforme, Ecart
<1>7. Decidee(l)'
  <2>1. livraison'[l].pc \notin {"decide", "ecrit"} /\ livraison'[l].notification = n
    BY <1>1
  <2>2. ~ evenement'[Cle(n)].erreur =>
          n.paiement \in regles \/ (paiement[n.paiement].statut # "ABSENT" /\ ~Conforme(n))
    BY <1>2
  <2> QED BY <2>1, <2>2 DEF Decidee, Conforme, Ecart
<1>8. evenement'[Cle(n)].recu = n
  BY <1>2, <1>4, CleType
<1> QED BY <1>1, <1>2, <1>3, <1>4, <1>5, <1>7, <1>8, EnLivraison DEF PaiementsInv, Regles

LEMMA LivraisonCloturee ==
  ASSUME PaiementsInv, NEW l \in Livraisons, Cloturer(l)
  PROVE  PaiementsInv'
<1> Enregistrees /\ Decidee(l)
  BY DEF PaiementsInv
<1>1. \/ livraison[l].pc = "ecrit"
      \/ livraison[l].pc = "decide" /\ livraison[l].decision \in {"RIEN", "ABSENT"}
  BY DEF Cloturer, ACloturer
<1>2. PICK n \in Notifications : n = livraison[l].notification
  BY <1>1 DEF Enregistrees, Tenue
<1>3. PICK b \in BOOLEAN : b <=> Anomalie(l)
  BY Zenon
<1>4. evenement' = [evenement EXCEPT ![Cle(n)].traite = TRUE, ![Cle(n)].erreur = b]
  <2>1. Anomalie(l) \in BOOLEAN
    BY DEF Anomalie
  <2>2. b = Anomalie(l)
    BY <1>3, <2>1
  <2> QED BY <1>2, <2>2 DEF Cloturer
<1>5. ~b => n.paiement \in regles \/ (paiement[n.paiement].statut # "ABSENT" /\ ~Conforme(n))
  <2>1. ~b => livraison[l].decision # "ABSENT" /\ ~(livraison[l].decision = "ECHOUE" /\ n.reussi)
    BY <1>2, <1>3 DEF Anomalie
  <2>2. livraison[l].decision \in Verdicts
    BY Sortes DEF PaiementsInv, LivraisonSorte
  <2> QED BY <1>1, <1>2, <2>1, <2>2 DEF Decidee, Verdicts
<1>6. livraison' = [livraison EXCEPT ![l].pc = "fini"]
  BY DEF Cloturer
<1>7. UNCHANGED <<paiement, preuve, regles, depot, revue, pannes>>
  BY DEF Cloturer
<1> QED BY <1>1, <1>2, <1>4, <1>5, <1>6, <1>7, Cloture

LEMMA LivraisonEchouee ==
  ASSUME PaiementsInv, NEW l \in Livraisons, Echouer(l)
  PROVE  PaiementsInv'
<1>1. livraison[l].pc \in {"insere", "decide", "ecrit"}
  BY DEF Echouer
<1>2. PICK n \in Notifications : n = livraison[l].notification
  BY <1>1 DEF PaiementsInv, Enregistrees, Tenue
<1>3. evenement' = [evenement EXCEPT ![Cle(n)].traite = TRUE, ![Cle(n)].erreur = TRUE]
  BY <1>2 DEF Echouer
<1>4. livraison' = [livraison EXCEPT ![l].pc = "erreur"]
  BY DEF Echouer
<1>5. UNCHANGED <<paiement, preuve, regles, depot, revue, pannes>>
  BY DEF Echouer
<1> QED BY <1>1, <1>2, <1>3, <1>4, <1>5, Cloture

(* A restart turns handlers in progress into lost ones, and nothing else.  *)
LEMMA PaiementsPanne ==
  ASSUME PaiementsInv, Panne
  PROVE  PaiementsInv'
<1> TypeOK /\ Preuves /\ Enregistrees
  BY DEF PaiementsInv
<1>1. UNCHANGED <<paiement, preuve, evenement, regles>>
  BY DEF Panne, tables
<1>2. /\ depot' \in [Depots -> DepotSorte]
      /\ \A d \in Depots :
           \/ depot'[d].pc = "perdu"
           \/ depot'[d] = depot[d]
  <2>1. depot \in [Depots -> DepotSorte]
    BY Sortes
  <2> QED BY <2>1 DEF Panne, DepotSorte, DepotStades
<1>3. /\ revue' \in [Revues -> RevueSorte]
      /\ \A v \in Revues :
           \/ revue'[v].pc = "perdu" /\ revue[v].pc \in {"lu", "rejetee"}
           \/ revue'[v] = revue[v]
  <2>1. revue \in [Revues -> RevueSorte]
    BY Sortes
  <2> QED BY <2>1 DEF Panne, RevueSorte, RevueStades
<1>4. /\ livraison' \in [Livraisons -> LivraisonSorte]
      /\ \A l \in Livraisons :
           \/ /\ livraison'[l].pc = "perdu" /\ livraison[l].pc \in Tenue
              /\ livraison'[l].notification = livraison[l].notification
           \/ livraison'[l] = livraison[l]
  <2>1. livraison \in [Livraisons -> LivraisonSorte]
    BY Sortes
  <2> QED BY <2>1 DEF Panne, LivraisonSorte, LivraisonStades, Tenue
<1>5. pannes' \in 0..MaxPannes
  <2>1. pannes \in 0..MaxPannes /\ MaxPannes \in Nat
    BY Sortes, PaiementsAssumption
  <2> QED BY <2>1 DEF Panne
<1>6. TypeOK'
  <2>1. /\ paiement' \in [Paiements -> PaiementSorte]
        /\ preuve' \in [Depots -> PreuveSorte]
        /\ evenement' \in [Cles -> EvenementSorte]
        /\ regles' \subseteq Paiements
    BY <1>1, Sortes
  <2> QED BY <1>2, <1>3, <1>4, <1>5, <2>1
       DEF TypeOK, PaiementSorte, PreuveSorte, EvenementSorte, DepotSorte, DepotStades, RevueSorte,
           RevueStades, LivraisonSorte, LivraisonStades, Tenue, Verdicts
<1>7. Preuves'
  BY <1>1, <1>2, <1>3 DEF Preuves
<1>8. \A l \in Livraisons : livraison'[l].pc \in Tenue =>
        livraison[l].pc \in Tenue /\ livraison'[l].notification = livraison[l].notification
  BY <1>4
<1>9. Enregistrees'
  BY <1>1, <1>8 DEF Enregistrees, Cle
<1>10. EvenementUnique'
  <2>1. EvenementUnique
    BY DEF PaiementsInv
  <2> QED BY <1>8, <2>1 DEF EvenementUnique, Tenue, Cle
<1>11. ASSUME NEW l \in Livraisons PROVE Decidee(l)'
  <2>1. Decidee(l)
    BY DEF PaiementsInv
  <2>2. CASE livraison'[l].pc = "perdu"
    BY <2>2 DEF Decidee
  <2>3. CASE livraison'[l] = livraison[l]
    BY <1>1, <2>1, <2>3 DEF Decidee, Conforme, Ecart, Cle
  <2> QED BY <1>4, <2>2, <2>3
<1>12. Regles'
  <2>1. \A v \in Revues : revue[v].pc = "fini" => revue'[v] = revue[v]
    BY <1>3
  <2>2. \A p \in regles : Justifie(p)' /\ paiement'[p].statut # "ABSENT"
    BY <1>1, <2>1, Justifications
  <2> QED BY <1>1, <2>2 DEF PaiementsInv, Regles
<1> QED BY <1>6, <1>7, <1>9, <1>10, <1>11, <1>12 DEF PaiementsInv

LEMMA PaiementsDebut == Init => PaiementsInv
<1> SUFFICES ASSUME Init PROVE PaiementsInv
  OBVIOUS
<1>1. TypeOK
  <2>1. paiement \in [Paiements -> PaiementSorte] /\ regles \subseteq Paiements
    BY DEF Init, PaiementSorte, Statuts
  <2>2. preuve \in [Depots -> PreuveSorte]
    BY DEF Init, PreuveSorte
  <2>3. evenement \in [Cles -> EvenementSorte]
    BY DEF Init, EvenementSorte
  <2>4. depot \in [Depots -> DepotSorte]
    BY DEF Init, DepotSorte, DepotStades
  <2>5. revue \in [Revues -> RevueSorte]
    BY DEF Init, RevueSorte, RevueStades
  <2>6. livraison \in [Livraisons -> LivraisonSorte]
    BY DEF Init, LivraisonSorte, LivraisonStades, Verdicts
  <2>7. pannes \in 0..MaxPannes
    BY PaiementsAssumption DEF Init
  <2> QED BY <2>1, <2>2, <2>3, <2>4, <2>5, <2>6, <2>7, Sortes
<1>2. Preuves
  BY DEF Init, Preuves
<1>3. \A l \in Livraisons : livraison[l].pc = "repos"
  BY DEF Init
<1>4. Enregistrees /\ EvenementUnique /\ \A l \in Livraisons : Decidee(l)
  BY <1>3 DEF Enregistrees, EvenementUnique, Decidee, Tenue
<1>5. Regles
  BY DEF Init, Regles
<1> QED BY <1>1, <1>2, <1>4, <1>5 DEF PaiementsInv

LEMMA PaiementsPas == PaiementsInv /\ [Next]_vars => PaiementsInv'
<1> SUFFICES ASSUME PaiementsInv, [Next]_vars PROVE PaiementsInv'
  OBVIOUS
<1>1. CASE \E p \in Paiements, m \in Montants : Creer(p, m)
  BY <1>1, PaiementCree
<1>2. CASE \E P \in SUBSET Paiements : Expirer(P)
  BY <1>2, PaiementsExpires
<1>3. CASE \E d \in Depots : EtapeDepot(d)
  BY <1>3, PaiementsDepot
<1>4. CASE \E v \in Revues : EtapeRevue(v)
  BY <1>4, PaiementsRevue
<1>5. CASE \E l \in Livraisons : EtapeLivraison(l)
  BY <1>5, LivraisonInseree, LivraisonIgnoree, LivraisonDecidee, LivraisonMarquee,
     LivraisonCloturee, LivraisonEchouee DEF EtapeLivraison, Traitement
<1>6. CASE Panne
  BY <1>6, PaiementsPanne
<1>7. CASE UNCHANGED vars
  <2>1. UNCHANGED <<paiement, preuve, evenement, regles, depot, revue, livraison, pannes>>
    BY <1>7 DEF vars, tables
  <2>2. TypeOK' /\ Preuves'
    BY <2>1 DEF PaiementsInv, TypeOK, Preuves
  <2> QED BY <2>1, <2>2, HorsLivraison DEF PaiementsInv, Regles
<1> QED BY <1>1, <1>2, <1>3, <1>4, <1>5, <1>6, <1>7 DEF Next

LEMMA PaiementsSurs == Spec => []PaiementsInv
BY PaiementsDebut, PaiementsPas, PTL DEF Spec

(* The tables of payments, proofs and events keep their types.             *)
THEOREM PaiementsTypes == Spec => []TypeOK
<1>1. PaiementsInv => TypeOK
  BY DEF PaiementsInv
<1> QED BY <1>1, PaiementsSurs, PTL

(* One delivery at most treats a notification, however they overlap: the   *)
(* unique key of WebhookEvent (webhook.service.ts:155).                    *)
THEOREM EvenementsUniques == Spec => []EvenementUnique
<1>1. PaiementsInv => EvenementUnique
  BY DEF PaiementsInv
<1> QED BY <1>1, PaiementsSurs, PTL

(* A payment that succeeded keeps in the database the accepted proof or    *)
(* the conforming notification that made it succeed.                       *)
THEOREM ReussitesJustifiees == Spec => []ReussiJustifie
<1>1. PaiementsInv => ReussiJustifie
  BY DEF PaiementsInv, Regles, Justifie, ReussiJustifie
<1> QED BY <1>1, PaiementsSurs, PTL

(* An event closed without an error, which announces the payment of what   *)
(* was expected, has had its effect or found it done (webhook.service.ts). *)
THEOREM ConformesActives == Spec => []ConformeActive
<1>1. PaiementsInv => ConformeActive
  BY DEF PaiementsInv, Decidee, ConformeActive
<1> QED BY <1>1, PaiementsSurs, PTL
=============================================================================
