----------------------------- MODULE Paiements -----------------------------
(***************************************************************************)
(* PaymentsService and WebhookService: a payment is created, the customer  *)
(* uploads proofs that an administrator accepts or rejects, the gateway    *)
(* sends signed notifications, possibly several times, and a scheduled     *)
(* task expires what was not paid. Every handler is a sequence of database *)
(* calls that interleave with the others; the process may stop between     *)
(* two of them.                                                            *)
(***************************************************************************)
EXTENDS Integers, FiniteSets

CONSTANTS
  Paiements,      \* payments the customers create
  Depots,         \* upload requests, each also the id of its proof
  Fichiers,       \* contents of files, as their SHA256 tells them apart
  Revues,         \* requests of administrators about a proof
  Livraisons,     \* deliveries of notifications, repeated ones included
  Notifications,  \* what the gateway sends (see Notification)
  Identifiants,   \* event identifiers the gateway chooses
  Montants,       \* amounts of the payments
  Aucun,          \* "no value"
  MaxPannes       \* bound: how many times the process may be restarted

(* montant is Aucun when the body has none; devise tells whether the       *)
(* currency is absent or the one of the payment.                           *)
Notification == [id: Identifiants \cup {Aucun}, paiement: Paiements, reussi: BOOLEAN,
                 montant: Nat \cup {Aucun}, devise: BOOLEAN]

ASSUME PaiementsAssumption ==
  /\ Notifications \subseteq Notification
  /\ Montants \subseteq Nat \ {0}
  /\ Identifiants \cap Paiements = {}
  /\ Aucun \notin Paiements \cup Depots \cup Fichiers \cup Identifiants \cup Notifications \cup Nat
  /\ MaxPannes \in Nat

VARIABLES
  paiement,   \* table Paiement: status and expected amount
  preuve,     \* table PaymentProof
  evenement,  \* table WebhookEvent: the first notification under each key
  depot,      \* progress of the uploads
  revue,      \* progress of the reviews
  livraison,  \* progress of the deliveries
  regles,     \* payments that have been REUSSI at some time
  pannes      \* restarts so far

tables == <<paiement, preuve, evenement, regles>>
vars == <<tables, depot, revue, livraison, pannes>>

Statuts == {"ABSENT", "EN_ATTENTE", "EN_COURS", "REUSSI", "ECHOUE", "EXPIRE"}

(* The key of a notification: its own identifier, else the reference of    *)
(* the payment it is about.                                                *)
Cle(n) == IF n.id = Aucun THEN n.paiement ELSE n.id

Cles == Paiements \cup Identifiants

TypeOK ==
  /\ paiement \in [Paiements -> [statut: Statuts, attendu: Nat]]
  /\ preuve \in [Depots -> [statut: {"ABSENTE", "EN_ATTENTE", "VALIDEE", "REJETEE"},
                            paiement: Paiements \cup {Aucun}, fichier: Fichiers \cup {Aucun}]]
  /\ evenement \in [Cles -> [recu: Notifications \cup {Aucun}, traite: BOOLEAN,
                             erreur: BOOLEAN]]
  /\ depot \in [Depots -> [pc: {"repos", "lu", "verifie", "cree", "fini", "refus", "perdu"},
                           paiement: Paiements \cup {Aucun}, fichier: Fichiers \cup {Aucun}]]
  /\ revue \in [Revues -> [pc: {"repos", "lu", "rejetee", "fini", "perdu"},
                           preuve: Depots \cup {Aucun}, accepte: BOOLEAN]]
  /\ livraison \in [Livraisons -> [pc: {"repos", "insere", "decide", "ecrit", "fini",
                                        "erreur", "duplique", "perdu"},
                                   notification: Notifications \cup {Aucun},
                                   decision: {"RIEN", "ABSENT", "REUSSI", "ECHOUE"}]]
  /\ regles \subseteq Paiements
  /\ pannes \in 0..MaxPannes

Init ==
  /\ paiement = [p \in Paiements |-> [statut |-> "ABSENT", attendu |-> 0]]
  /\ preuve = [d \in Depots |-> [statut |-> "ABSENTE", paiement |-> Aucun, fichier |-> Aucun]]
  /\ evenement = [k \in Cles |-> [recu |-> Aucun, traite |-> FALSE, erreur |-> FALSE]]
  /\ depot = [d \in Depots |-> [pc |-> "repos", paiement |-> Aucun, fichier |-> Aucun]]
  /\ revue = [v \in Revues |-> [pc |-> "repos", preuve |-> Aucun, accepte |-> FALSE]]
  /\ livraison = [l \in Livraisons |-> [pc |-> "repos", notification |-> Aucun,
                                        decision |-> "RIEN"]]
  /\ regles = {}
  /\ pannes = 0

-----------------------------------------------------------------------------
(* creerPaiement, and the hourly task that expires unpaid payments         *)

Creer(p, m) ==
  /\ paiement[p].statut = "ABSENT"
  /\ paiement' = [paiement EXCEPT ![p] = [statut |-> "EN_ATTENTE", attendu |-> m]]
  /\ UNCHANGED <<preuve, evenement, regles, depot, revue, livraison, pannes>>

(* The delay is abstracted: the task expires any set of unpaid payments.   *)
Expirer(P) ==
  /\ P # {}
  /\ \A p \in P : paiement[p].statut \in {"EN_ATTENTE", "EN_COURS"}
  /\ paiement' = [p \in Paiements |-> IF p \in P THEN [paiement[p] EXCEPT !.statut = "EXPIRE"]
                                      ELSE paiement[p]]
  /\ UNCHANGED <<preuve, evenement, regles, depot, revue, livraison, pannes>>

-----------------------------------------------------------------------------
(* televerserPreuve *)

LirePaiement(d, p, f) ==
  /\ depot[d].pc = "repos"
  /\ paiement[p].statut \notin {"ABSENT", "REUSSI"}
  /\ depot' = [depot EXCEPT ![d] = [pc |-> "lu", paiement |-> p, fichier |-> f]]
  /\ UNCHANGED <<tables, revue, livraison, pannes>>

DejaSoumis(f) == \E d \in Depots : preuve[d].fichier = f

ChercherDoublon(d) ==
  /\ depot[d].pc = "lu"
  /\ depot' = [depot EXCEPT ![d].pc = IF DejaSoumis(depot[d].fichier) THEN "refus"
                                      ELSE "verifie"]
  /\ UNCHANGED <<tables, revue, livraison, pannes>>

CreerPreuve(d) ==
  /\ depot[d].pc = "verifie"
  /\ preuve' = [preuve EXCEPT ![d] = [statut |-> "EN_ATTENTE", paiement |-> depot[d].paiement,
                                      fichier |-> depot[d].fichier]]
  /\ depot' = [depot EXCEPT ![d].pc = "cree"]
  /\ UNCHANGED <<paiement, evenement, regles, revue, livraison, pannes>>

(* Without testing the status again.                                       *)
MettreEnCours(d) ==
  /\ depot[d].pc = "cree"
  /\ paiement' = [paiement EXCEPT ![depot[d].paiement].statut = "EN_COURS"]
  /\ depot' = [depot EXCEPT ![d].pc = "fini"]
  /\ UNCHANGED <<preuve, evenement, regles, revue, livraison, pannes>>

-----------------------------------------------------------------------------
(* validerPreuve, rejeterPreuve *)

LirePreuve(v, d, accepte) ==
  /\ revue[v].pc = "repos"
  /\ preuve[d].statut = "EN_ATTENTE"
  /\ revue' = [revue EXCEPT ![v] = [pc |-> "lu", preuve |-> d, accepte |-> accepte]]
  /\ UNCHANGED <<tables, depot, livraison, pannes>>

(* One database transaction writes the proof and the payment.              *)
Valider(v) ==
  LET d == revue[v].preuve
      p == preuve[d].paiement
  IN  /\ revue[v].pc = "lu" /\ revue[v].accepte
      /\ preuve' = [preuve EXCEPT ![d].statut = "VALIDEE"]
      /\ paiement' = [paiement EXCEPT ![p].statut = "REUSSI"]
      /\ regles' = regles \cup {p}
      /\ revue' = [revue EXCEPT ![v].pc = "fini"]
      /\ UNCHANGED <<evenement, depot, livraison, pannes>>

(* Two statements write the proof, then the payment.                       *)
RejeterPreuve(v) ==
  /\ revue[v].pc = "lu" /\ ~revue[v].accepte
  /\ preuve' = [preuve EXCEPT ![revue[v].preuve].statut = "REJETEE"]
  /\ revue' = [revue EXCEPT ![v].pc = "rejetee"]
  /\ UNCHANGED <<paiement, evenement, regles, depot, livraison, pannes>>

RemettreEnAttente(v) ==
  /\ revue[v].pc = "rejetee"
  /\ paiement' = [paiement EXCEPT ![preuve[revue[v].preuve].paiement].statut = "EN_ATTENTE"]
  /\ revue' = [revue EXCEPT ![v].pc = "fini"]
  /\ UNCHANGED <<preuve, evenement, regles, depot, livraison, pannes>>

-----------------------------------------------------------------------------
(* traiterWebhook *)

(* Mutation: only an event already treated counts as a duplicate.          *)
MutNouveau(k) == ~evenement[k].traite

(* The unique constraint on (provider, eventId).                           *)
Nouveau(k) == evenement[k].recu = Aucun

Inserer(l, n) ==
  /\ livraison[l].pc = "repos"
  /\ Nouveau(Cle(n))
  /\ evenement' = [evenement EXCEPT ![Cle(n)].recu = n]
  /\ livraison' = [livraison EXCEPT ![l].pc = "insere", ![l].notification = n]
  /\ UNCHANGED <<paiement, preuve, regles, depot, revue, pannes>>

Ignorer(l, n) ==
  /\ livraison[l].pc = "repos"
  /\ ~Nouveau(Cle(n))
  /\ livraison' = [livraison EXCEPT ![l].pc = "duplique", ![l].notification = n]
  /\ UNCHANGED <<tables, depot, revue, pannes>>

Ecart(n, p) == IF n.montant > paiement[p].attendu THEN n.montant - paiement[p].attendu
               ELSE paiement[p].attendu - n.montant

(* Mutation: the currency is not compared.                                 *)
MutConforme(n) ==
  /\ n.reussi /\ n.montant # Aucun
  /\ Ecart(n, n.paiement) <= 1

(* The notification announces a success, for the expected amount but for   *)
(* one unit, in the currency of the payment.                               *)
Conforme(n) ==
  /\ n.reussi /\ n.montant # Aucun
  /\ Ecart(n, n.paiement) <= 1
  /\ n.devise

(* Mutation: the status written is the gateway's word for a success.       *)
MutDecision(n) ==
  CASE paiement[n.paiement].statut = "ABSENT" -> "ABSENT"
    [] paiement[n.paiement].statut = "REUSSI" -> "RIEN"
    [] OTHER -> IF Conforme(n) THEN "SUCCESS" ELSE "ECHOUE"

Decision(n) ==
  CASE paiement[n.paiement].statut = "ABSENT" -> "ABSENT"
    [] paiement[n.paiement].statut = "REUSSI" -> "RIEN"
    [] OTHER -> IF Conforme(n) THEN "REUSSI" ELSE "ECHOUE"

(* The payment is read, and the outcome decided from what was read.        *)
Decider(l) ==
  /\ livraison[l].pc = "insere"
  /\ livraison' = [livraison EXCEPT ![l].pc = "decide",
                                    ![l].decision = Decision(livraison[l].notification)]
  /\ UNCHANGED <<tables, depot, revue, pannes>>

(* marquerReussi, marquerEchoue: the status is written without a test.     *)
Marquer(l) ==
  LET p == livraison[l].notification.paiement
      s == livraison[l].decision
  IN  /\ livraison[l].pc = "decide" /\ s \in {"REUSSI", "ECHOUE"}
      /\ paiement' = [paiement EXCEPT ![p].statut = s]
      /\ regles' = IF s = "REUSSI" THEN regles \cup {p} ELSE regles
      /\ livraison' = [livraison EXCEPT ![l].pc = "ecrit"]
      /\ UNCHANGED <<preuve, evenement, depot, revue, pannes>>

(* Mutation: an event about a payment that succeeded meanwhile is answered *)
(* without being closed.                                                   *)
MutACloturer(l) == livraison[l].pc = "ecrit"

ACloturer(l) == \/ livraison[l].pc = "ecrit"
                \/ livraison[l].pc = "decide" /\ livraison[l].decision \in {"RIEN", "ABSENT"}

(* An unknown reference, or a success that does not conform, is recorded   *)
(* as the error of the event.                                              *)
Anomalie(l) == \/ livraison[l].decision = "ABSENT"
               \/ livraison[l].decision = "ECHOUE" /\ livraison[l].notification.reussi

Cloturer(l) ==
  LET k == Cle(livraison[l].notification)
  IN  /\ ACloturer(l)
      /\ evenement' = [evenement EXCEPT ![k].traite = TRUE, ![k].erreur = Anomalie(l)]
      /\ livraison' = [livraison EXCEPT ![l].pc = "fini"]
      /\ UNCHANGED <<paiement, preuve, regles, depot, revue, pannes>>

(* Mutation: the error is not recorded on the event.                       *)
MutEchouer(l) ==
  /\ livraison[l].pc \in {"insere", "decide", "ecrit"}
  /\ evenement' = [evenement EXCEPT ![Cle(livraison[l].notification)].traite = TRUE]
  /\ livraison' = [livraison EXCEPT ![l].pc = "erreur"]
  /\ UNCHANGED <<paiement, preuve, regles, depot, revue, pannes>>

(* A database call of the treatment fails: the event is closed with the    *)
(* error, and the gateway is answered an error.                            *)
Echouer(l) ==
  LET k == Cle(livraison[l].notification)
  IN  /\ livraison[l].pc \in {"insere", "decide", "ecrit"}
      /\ evenement' = [evenement EXCEPT ![k].traite = TRUE, ![k].erreur = TRUE]
      /\ livraison' = [livraison EXCEPT ![l].pc = "erreur"]
      /\ UNCHANGED <<paiement, preuve, regles, depot, revue, pannes>>

-----------------------------------------------------------------------------
(* A restart forgets the handlers in progress.                             *)
Panne ==
  /\ pannes < MaxPannes
  /\ pannes' = pannes + 1
  /\ depot' = [d \in Depots |-> IF depot[d].pc \in {"lu", "verifie", "cree"}
                                THEN [depot[d] EXCEPT !.pc = "perdu"] ELSE depot[d]]
  /\ revue' = [v \in Revues |-> IF revue[v].pc \in {"lu", "rejetee"}
                                THEN [revue[v] EXCEPT !.pc = "perdu"] ELSE revue[v]]
  /\ livraison' = [l \in Livraisons |-> IF livraison[l].pc \in {"insere", "decide", "ecrit"}
                                        THEN [livraison[l] EXCEPT !.pc = "perdu"]
                                        ELSE livraison[l]]
  /\ UNCHANGED tables

EtapeDepot(d) ==
  \/ \E p \in Paiements, f \in Fichiers : LirePaiement(d, p, f)
  \/ ChercherDoublon(d) \/ CreerPreuve(d) \/ MettreEnCours(d)

EtapeRevue(v) ==
  \/ \E d \in Depots, accepte \in BOOLEAN : LirePreuve(v, d, accepte)
  \/ Valider(v) \/ RejeterPreuve(v) \/ RemettreEnAttente(v)

Traitement(l) == Decider(l) \/ Marquer(l) \/ Cloturer(l)

EtapeLivraison(l) ==
  \/ \E n \in Notifications : Inserer(l, n) \/ Ignorer(l, n)
  \/ Traitement(l) \/ Echouer(l)

Next ==
  \/ \E p \in Paiements, m \in Montants : Creer(p, m)
  \/ \E P \in SUBSET Paiements : Expirer(P)
  \/ \E d \in Depots : EtapeDepot(d)
  \/ \E v \in Revues : EtapeRevue(v)
  \/ \E l \in Livraisons : EtapeLivraison(l)
  \/ Panne

Spec == Init /\ [][Next]_vars

(* The event loop runs the treatment of a notification to its end.         *)

Equitable == Spec /\ \A l \in Livraisons : WF_vars(Traitement(l))
-----------------------------------------------------------------------------
(* Properties *)

(* A notification is treated by one delivery at most, whatever the         *)
(* repetitions and however they overlap: the unique key decides, and the   *)
(* others change nothing (webhook.service.ts:155, schema of WebhookEvent). *)
EvenementUnique ==
  \A l, k \in Livraisons :
    /\ l # k
    /\ {livraison[l].pc, livraison[k].pc}
         \subseteq {"insere", "decide", "ecrit", "fini", "erreur", "perdu"}
    => Cle(livraison[l].notification) # Cle(livraison[k].notification)

(* A payment succeeds for a reason that stays in the database: a proof of  *)
(* it was accepted at some time, or a conforming notification about it was *)
(* received. A file, a rejected proof or a nonconforming amount alone      *)
(* activates nothing (payments.service.ts:454, webhook.service.ts:333).    *)
ReussiJustifie ==
  \A p \in regles :
    \/ \E v \in Revues : /\ revue[v].accepte /\ revue[v].pc = "fini"
                         /\ preuve[revue[v].preuve].paiement = p
    \/ \E k \in Cles : LET n == evenement[k].recu
                       IN  IF n = Aucun THEN FALSE ELSE
                             /\ n.paiement = p /\ n.reussi /\ n.devise /\ n.montant # Aucun
                             /\ n.montant \in paiement[p].attendu - 1 .. paiement[p].attendu + 1

(* An event closed without an error has had its effect: when it announces  *)
(* the payment of what was expected, the payment has been REUSSI, be it by *)
(* another way that came first.                                            *)
ConformeActive ==
  \A l \in Livraisons :
    LET n == livraison[l].notification
    IN  livraison[l].pc \in {"fini", "erreur"} /\ ~evenement[Cle(n)].erreur /\ Conforme(n)
          => n.paiement \in regles

(* Every event that was recorded is eventually closed, unless a restart    *)
(* forgets it: none is left untreated in the table.                        *)
EvenementTraite ==
  \A l \in Livraisons :
    livraison[l].pc = "insere" ~>
      \/ livraison[l].pc = "perdu"
      \/ livraison[l].pc # "repos" /\ evenement[Cle(livraison[l].notification)].traite

-----------------------------------------------------------------------------
(* Claims of the repository that the code does not keep *)

(* A file serves as a proof once (payments.service.ts:381).                *)
FichierUnique ==
  \A d, e \in Depots :
    d # e /\ preuve[d].statut # "ABSENTE" /\ preuve[e].statut # "ABSENTE"
      => preuve[d].fichier # preuve[e].fichier
=============================================================================
