----------------------------- MODULE Livraisons -----------------------------
(***************************************************************************)
(* WebhooksService about one endpoint of a tenant: the events emitted to   *)
(* it, each a background loop of at most three attempts whose outcome is   *)
(* written on one row; the test of the endpoint; the manual retry of a     *)
(* row; and the deletion of the endpoint, which takes its rows away under  *)
(* the loops that still write them.                                        *)
(***************************************************************************)
EXTENDS Appels

CONSTANT MaxEssais  \* maxTentatives

ASSUME LivraisonsAssumption == MaxEssais \in Nat \ {0}

VARIABLES
  endpoint,     \* TRUE: the row WebhookEndpoint exists
  livraisons,   \* table WebhookLivraison: one row per call that inserts one
  livJob,       \* progress of each call
  recus,        \* per row, the POSTs answered or given up, and the last outcome
  acceptees,    \* rows the endpoint has accepted at least once
  chevauchees   \* rows retried while another call was sending them

livVars == <<endpoint, livraisons, livJob, recus, acceptees, chevauchees>>

Issues == {"accepte", "refuse", "erreur"}

PasDeLivraison == [existe |-> FALSE, tentatives |-> 0, reussi |-> FALSE, relance |-> FALSE]

LivTypeOK ==
  /\ endpoint \in BOOLEAN
  /\ livraisons \in [Appels -> [existe: BOOLEAN, tentatives: Nat, reussi: BOOLEAN, relance: BOOLEAN]]
  /\ livJob \in [Appels -> [op: {"aucune", "emettre", "tester", "retenter"}, cible: Appels \cup {Rien},
                            essai: 0..MaxEssais, issue: Issues \cup {"aucune"},
                            pc: {"repos", "choisi", "pret", "repondu", "fini", "refuse", "perdu"}]]
  /\ recus \in [Appels -> [nombre: Nat, dernier: Issues \cup {"aucune"}]]
  /\ acceptees \subseteq Appels /\ chevauchees \subseteq Appels

LivInit ==
  /\ endpoint = TRUE
  /\ livraisons = [c \in Appels |-> PasDeLivraison]
  /\ livJob = [c \in Appels |-> [op |-> "aucune", cible |-> Rien, essai |-> 0,
                                 issue |-> "aucune", pc |-> "repos"]]
  /\ recus = [c \in Appels |-> [nombre |-> 0, dernier |-> "aucune"]]
  /\ acceptees = {} /\ chevauchees = {}

LivCommencer(c, op, d, essai, pc) ==
  /\ livJob[c].pc = "repos"
  /\ livJob' = [livJob EXCEPT ![c] = [op |-> op, cible |-> d, essai |-> essai,
                                      issue |-> "aucune", pc |-> pc]]

(* emettre and tester find the endpoint...                                 *)
TrouverEndpoint(c, op) ==
  /\ endpoint
  /\ LivCommencer(c, op, c, 1, "choisi")
  /\ UNCHANGED <<arrets, endpoint, livraisons, recus, acceptees, chevauchees>>

(* A write about call c throws. A request answers with the error; nobody   *)
(* awaits the loop of an event, and an unhandled rejection stops Node.     *)
Rejeter(c) ==
  IF livJob[c].op # "emettre" THEN [livJob EXCEPT ![c].pc = "refuse"]
  ELSE [d \in Appels |->
          [livJob[d] EXCEPT !.pc = IF d = c THEN "refuse" ELSE Interrompu(@)]]

(* ... then insert the row, which the foreign key refuses once the         *)
(* endpoint is gone. A test counts its attempt beforehand.                 *)
CreerLivraison(c) ==
  /\ livJob[c].pc = "choisi"
  /\ livJob' = IF endpoint THEN [livJob EXCEPT ![c].pc = "pret"] ELSE Rejeter(c)
  /\ livraisons' = IF endpoint
                   THEN [livraisons EXCEPT ![c].existe = TRUE,
                           ![c].tentatives = IF livJob[c].op = "tester" THEN 1 ELSE 0]
                   ELSE livraisons
  /\ UNCHANGED <<arrets, endpoint, recus, acceptees, chevauchees>>

EnvoiEnCours(d) == \E c \in Appels : livJob[c].cible = d /\ livJob[c].pc \in {"pret", "repondu"}

(* retenter reads the row with its endpoint.                               *)
Retenter(c, d) ==
  /\ livraisons[d].existe
  /\ LivCommencer(c, "retenter", d, 1, "pret")
  /\ chevauchees' = IF EnvoiEnCours(d) THEN chevauchees \cup {d} ELSE chevauchees
  /\ UNCHANGED <<arrets, endpoint, livraisons, recus, acceptees>>

(* The POST, to the address read at first: an answer, or none in time.     *)
Poster(c, issue) ==
  LET d == livJob[c].cible
  IN  /\ livJob[c].pc = "pret"
      /\ livJob' = [livJob EXCEPT ![c].issue = issue, ![c].pc = "repondu"]
      /\ recus' = [recus EXCEPT ![d] = [nombre |-> @.nombre + 1, dernier |-> issue]]
      /\ acceptees' = IF issue = "accepte" THEN acceptees \cup {d} ELSE acceptees
      /\ UNCHANGED <<arrets, endpoint, livraisons, chevauchees>>

Reessaie(j) == j.op = "emettre" /\ j.issue # "accepte" /\ j.essai < MaxEssais

(* Mutation: a manual retry that fails is not counted.                     *)
MutCompte(j, l) ==
  IF j.op = "retenter" THEN IF j.issue = "erreur" THEN l.tentatives ELSE l.tentatives + 1
  ELSE j.essai

(* A retry increments the column, the loop writes its own count.           *)
Compte(j, l) == IF j.op = "retenter" THEN l.tentatives + 1 ELSE j.essai

(* nextRetryAt is written by the loop and the retry when there is an       *)
(* answer, and left alone when there is none and by the test.              *)
Relance(j, l) ==
  IF j.issue = "erreur" \/ j.op = "tester" THEN l.relance ELSE Reessaie(j)

Noter(c) ==
  LET j == livJob[c]
      l == livraisons[j.cible]
  IN  /\ j.pc = "repondu"
      /\ l.existe
      /\ livraisons' = [livraisons EXCEPT ![j.cible] =
                          [existe |-> TRUE, tentatives |-> Compte(j, l),
                           reussi |-> j.issue = "accepte", relance |-> Relance(j, l)]]
      /\ livJob' = IF Reessaie(j)
                   THEN [livJob EXCEPT ![c].essai = @ + 1, ![c].pc = "pret"]
                   ELSE [livJob EXCEPT ![c].pc = "fini"]
      /\ UNCHANGED <<arrets, endpoint, recus, acceptees, chevauchees>>

(* The row is gone: the update throws, and so does the one of the catch.   *)
NoterSansLigne(c) ==
  /\ livJob[c].pc = "repondu" /\ ~livraisons[livJob[c].cible].existe
  /\ livJob' = Rejeter(c)
  /\ UNCHANGED <<arrets, endpoint, livraisons, recus, acceptees, chevauchees>>

(* supprimer: the rows follow the endpoint (onDelete: Cascade).            *)
Supprimer ==
  /\ endpoint
  /\ endpoint' = FALSE
  /\ livraisons' = [c \in Appels |-> PasDeLivraison]
  /\ UNCHANGED <<arrets, livJob, recus, acceptees, chevauchees>>

LivEtape(c) ==
  \/ TrouverEndpoint(c, "emettre") \/ TrouverEndpoint(c, "tester")
  \/ CreerLivraison(c) \/ Noter(c) \/ NoterSansLigne(c)
  \/ \E d \in Appels : Retenter(c, d)
  \/ \E issue \in Issues : Poster(c, issue)

LivArret ==
  /\ arrets < MaxArrets
  /\ arrets' = arrets + 1
  /\ livJob' = [c \in Appels |-> [livJob[c] EXCEPT !.pc = Interrompu(@)]]
  /\ UNCHANGED <<endpoint, livraisons, recus, acceptees, chevauchees>>

LivNext == Supprimer \/ LivArret \/ \E c \in Appels : LivEtape(c)

LivSpec == LivInit /\ arrets = 0 /\ [][LivNext]_<<livVars, arrets>>

-----------------------------------------------------------------------------
(* Properties *)

(* What the row of a delivery says is what the endpoint was sent: a row is *)
(* reussi only if the endpoint accepted it, and then announces no next     *)
(* retry; and when the calls about it are over, none lost by a restart and *)
(* none overlapping another, it counts every POST, of the loop and of the  *)
(* manual retries together, and its outcome is the last one.               *)
LivraisonFidele ==
  \A d \in Appels : livraisons[d].existe =>
    /\ livraisons[d].reussi => d \in acceptees /\ ~livraisons[d].relance
    /\ d \notin chevauchees /\ (\A c \in Appels : livJob[c].cible = d => livJob[c].pc = "fini") =>
         /\ livraisons[d].tentatives = recus[d].nombre
         /\ livraisons[d].reussi <=> recus[d].dernier = "accepte"
=============================================================================
