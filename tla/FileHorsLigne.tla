--------------------------- MODULE FileHorsLigne ---------------------------
(***************************************************************************)
(* The offline queue of the mobile application: every transaction entered  *)
(* is saved in SQLite, then posted; useSync posts again the rows not marked*)
(* as synced, when NetInfo tells that the connection is back or when the   *)
(* hook has subscribed again because the count of pending rows changed.    *)
(* The API refuses every one of these POSTs: their body has fields that    *)
(* CreateTransactionDto does not have, and lacks those it requires. So no  *)
(* row is ever marked, and markSynced and what follows it are not reached. *)
(***************************************************************************)
EXTENDS Appels

CONSTANTS
  Saisies,      \* transactions entered, each the flow of its createTransaction
  MaxFlux,      \* bound: runs of syncPending at the same time
  MaxCharge,    \* bound: transactions entered, plus runs in progress
  MaxEnnuis     \* bound: losses of the connection, POSTs that fail while there is
                \* one, and stops of the application, together

ASSUME FileAssumption ==
  /\ IsFiniteSet(Saisies)
  /\ Saisies \cap Nat = {}
  /\ Rien \notin Saisies
  /\ {MaxFlux, MaxCharge, MaxEnnuis} \subseteq Nat

Flux == 1..MaxFlux

VARIABLES
  attente,     \* table pending_transactions, every row with synced = 0
  tentees,     \* history: rows the API has been asked to record, and has refused
  envoi,       \* progress of each flow, and the row it posts
  reste,       \* rows a run of syncPending has listed and not yet posted
  compteur,    \* pendingCount of the store
  abonne,      \* the pendingCount the current subscription has captured
  avis,        \* TRUE: NetInfo has a state to deliver to the listener
  horsLigne,   \* wasOffline
  connecte,    \* the connection itself
  ennuis,      \* what has gone wrong so far
  oublies      \* rows no event is coming for since an unexpected failure

fileVars == <<attente, tentees, envoi, reste, compteur, abonne, avis, horsLigne, connecte,
              ennuis, oublies>>

FileTypeOK ==
  /\ attente \subseteq Saisies /\ tentees \subseteq Saisies
  /\ envoi \in [Saisies \cup Flux ->
                  [tx: Saisies \cup {Rien},
                   pc: {"repos", "debut", "boucle", "saisie", "vol", "fini"}]]
  /\ reste \in [Flux -> SUBSET Saisies]
  /\ compteur \in Nat /\ abonne \in Nat
  /\ avis \in BOOLEAN /\ horsLigne \in BOOLEAN /\ connecte \in BOOLEAN
  /\ ennuis \in 0..MaxEnnuis
  /\ oublies \subseteq Saisies

FileInit ==
  /\ attente = {} /\ tentees = {}
  /\ envoi = [e \in Saisies \cup Flux |-> [tx |-> Rien, pc |-> "repos"]]
  /\ reste = [f \in Flux |-> {}]
  /\ compteur = 0 /\ abonne = 0
  /\ avis = TRUE
  /\ horsLigne = FALSE
  /\ connecte \in BOOLEAN
  /\ ennuis = 0
  /\ oublies = {}

FilePasse(e, avant, apres) ==
  /\ envoi[e].pc = avant
  /\ envoi' = [envoi EXCEPT ![e].pc = apres]

Charge == Cardinality({e \in Saisies \cup Flux : envoi[e].pc # "repos"})

reseauVars == <<connecte, horsLigne, avis, abonne>>

-----------------------------------------------------------------------------
(* createTransaction and syncPending *)

(* savePending...                                                          *)
Saisir(t) ==
  /\ envoi[t].pc = "repos" /\ Charge < MaxCharge
  /\ envoi' = [envoi EXCEPT ![t] = [tx |-> t, pc |-> "saisie"]]
  /\ attente' = attente \cup {t}
  /\ UNCHANGED <<reseauVars, arrets, tentees, reste, compteur, ennuis, oublies>>

(* ... then refreshPendingCount; the POST goes.                            *)
CompterSaisie(t) ==
  /\ FilePasse(t, "saisie", "vol")
  /\ compteur' = Cardinality(attente)
  /\ UNCHANGED <<reseauVars, arrets, attente, tentees, reste, ennuis, oublies>>

(* A run lists the rows, the oldest first (any order here).                *)
Lister(f) ==
  /\ FilePasse(f, "debut", "boucle")
  /\ reste' = [reste EXCEPT ![f] = attente]
  /\ UNCHANGED <<reseauVars, arrets, attente, tentees, compteur, ennuis, oublies>>

Suivante(f, t) ==
  /\ envoi[f].pc = "boucle" /\ t \in reste[f]
  /\ envoi' = [envoi EXCEPT ![f] = [tx |-> t, pc |-> "vol"]]
  /\ reste' = [reste EXCEPT ![f] = @ \ {t}]
  /\ UNCHANGED <<reseauVars, arrets, attente, tentees, compteur, ennuis, oublies>>

(* After its POST a run goes on; the flow of an entry is over.             *)
Ensuite(e) == IF e \in Flux THEN [tx |-> Rien, pc |-> "boucle"] ELSE [tx |-> e, pc |-> "fini"]

(* The API answers 400: markError leaves the row to be posted again.       *)
Refuser(e) ==
  /\ connecte
  /\ envoi[e].pc = "vol"
  /\ envoi' = [envoi EXCEPT ![e] = Ensuite(e)]
  /\ tentees' = tentees \cup {envoi[e].tx}
  /\ UNCHANGED <<reseauVars, arrets, attente, reste, compteur, ennuis, oublies>>

(* The POST has no answer: so does the catch after an error of the network.*)
PosteEchoue(e) ==
  /\ envoi[e].pc = "vol"
  /\ envoi' = [envoi EXCEPT ![e] = Ensuite(e)]
  /\ connecte => ennuis < MaxEnnuis
  /\ ennuis' = IF connecte THEN ennuis + 1 ELSE ennuis
  /\ oublies' = IF connecte THEN oublies \cup {envoi[e].tx} ELSE oublies
  /\ UNCHANGED <<reseauVars, arrets, attente, tentees, reste, compteur>>

(* The run is over: refreshPendingCount.                                   *)
FinirSync(f) ==
  /\ envoi[f].pc = "boucle" /\ reste[f] = {}
  /\ envoi' = [envoi EXCEPT ![f] = [tx |-> Rien, pc |-> "repos"]]
  /\ compteur' = Cardinality(attente)
  /\ UNCHANGED <<reseauVars, arrets, attente, tentees, reste, ennuis, oublies>>

-----------------------------------------------------------------------------
(* useSync and the network *)

(* The effect runs again: the new listener is told the state at once.      *)
Reabonner ==
  /\ abonne # compteur
  /\ abonne' = compteur
  /\ avis' = TRUE
  /\ UNCHANGED <<arrets, attente, tentees, envoi, reste, compteur, horsLigne, connecte, ennuis,
                 oublies>>

(* Mutation: the listener only looks at the count.                         *)
MutAEnvoyer == abonne > 0

AEnvoyer == horsLigne \/ abonne > 0

EcouterSansSuite ==
  /\ avis /\ avis' = FALSE
  /\ ~connecte \/ ~AEnvoyer
  /\ horsLigne' = IF connecte THEN horsLigne ELSE TRUE
  /\ UNCHANGED <<arrets, attente, tentees, envoi, reste, compteur, abonne, connecte, ennuis,
                 oublies>>

(* syncPending is called and not awaited (the runs are taken in order).    *)
EcouterEtEnvoyer(f) ==
  /\ avis /\ avis' = FALSE
  /\ connecte /\ AEnvoyer /\ Charge < MaxCharge
  /\ horsLigne' = FALSE
  /\ \A g \in Flux : envoi[g].pc = "repos" => f <= g
  /\ FilePasse(f, "repos", "debut")
  /\ UNCHANGED <<arrets, attente, tentees, reste, compteur, abonne, connecte, ennuis,
                 oublies>>

(* The connection goes; the listener hears of each change before the next. *)
Couper ==
  /\ connecte /\ ~avis
  /\ ennuis < MaxEnnuis
  /\ connecte' = FALSE /\ avis' = TRUE /\ ennuis' = ennuis + 1
  /\ oublies' = {}
  /\ UNCHANGED <<arrets, attente, tentees, envoi, reste, compteur, abonne, horsLigne>>

Reconnecter ==
  /\ ~connecte /\ ~avis
  /\ connecte' = TRUE /\ avis' = TRUE
  /\ UNCHANGED <<arrets, attente, tentees, envoi, reste, compteur, abonne, horsLigne, ennuis,
                 oublies>>

(* The application is stopped and opened again: the table stays; the count *)
(* is 0, whatever the table holds.                                         *)
FileArret ==
  /\ arrets < MaxArrets
  /\ arrets' = arrets + 1
  /\ ennuis < MaxEnnuis /\ ennuis' = ennuis + 1
  /\ envoi' = [e \in Saisies \cup Flux |->
                 IF e \in Saisies /\ envoi[e].pc # "repos" THEN [envoi[e] EXCEPT !.pc = "fini"]
                 ELSE [tx |-> Rien, pc |-> "repos"]]
  /\ reste' = [f \in Flux |-> {}]
  /\ compteur' = 0 /\ abonne' = 0 /\ horsLigne' = FALSE /\ avis' = TRUE
  /\ oublies' = IF connecte THEN oublies \cup attente ELSE oublies
  /\ UNCHANGED <<attente, tentees, connecte>>

FluxEtape(e) ==
  \/ Refuser(e) \/ PosteEchoue(e)
  \/ e \in Saisies /\ CompterSaisie(e)
  \/ e \in Flux /\ (Lister(e) \/ FinirSync(e) \/ \E t \in Saisies : Suivante(e, t))

FileNext ==
  \/ \E e \in Saisies \cup Flux : FluxEtape(e)
  \/ \E t \in Saisies : Saisir(t)
  \/ \E f \in Flux : EcouterEtEnvoyer(f)
  \/ EcouterSansSuite \/ Reabonner \/ Couper \/ Reconnecter \/ FileArret

(* The flows and the listener run; the network comes back.                 *)
FileEquite ==
  /\ \A e \in Saisies \cup Flux : WF_fileVars(FluxEtape(e))
  /\ WF_fileVars(EcouterSansSuite \/ \E f \in Flux : EcouterEtEnvoyer(f))
  /\ WF_fileVars(Reabonner) /\ WF_fileVars(Reconnecter)

FileSpec == FileInit /\ arrets = 0 /\ [][FileNext]_<<fileVars, arrets>> /\ FileEquite

-----------------------------------------------------------------------------
(* Properties *)

(* « triggers sync of pending offline transactions when the connection is  *)
(* restored » (useSync.ts:6): a row saved is put to the API in the end,    *)
(* across cuts of the connection and stops of the application while it is  *)
(* down, unless a POST gets no answer or the application stops while the   *)
(* telephone is connected: nothing need then post the row again before the *)
(* connection is next lost.                                                *)
SaisieTentee ==
  \A t \in Saisies : (t \in attente /\ t \notin oublies) ~> (t \in tentees \cup oublies)
=============================================================================
