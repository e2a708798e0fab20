----------------------------- MODULE Campaigns -----------------------------
(***************************************************************************)
(* CampaignsService about one e-mail campaign: scheduling and sending it   *)
(* on request, the cron task that sends it when it is due, and the loop    *)
(* that sends the batches in the background. The status is tested by a     *)
(* read and written later by id alone; nothing resumes a loop that a       *)
(* restart has interrupted.                                                *)
(***************************************************************************)
EXTENDS Appels

CONSTANT Lots  \* batches of recipients

ASSUME CampaignsAssumption == Lots \in Nat

VARIABLES
  campagne,  \* row CampagneEmail: status, due or not, and the two counters
  campJob,   \* progress of each call, with what its loop has sent
  lances,    \* calls that have begun to send the campaign
  ecrasees   \* calls that wrote over a status changed since they read it

campVars == <<campagne, campJob, lances, ecrasees>>

StatutsCampagne == {"BROUILLON", "PLANIFIEE", "EN_COURS", "TERMINEE"}

CampTypeOK ==
  /\ campagne \in [statut: StatutsCampagne, due: BOOLEAN, nbEnvois: 0..Lots, nbErreurs: 0..Lots]
  /\ campJob \in [Appels -> [op: {"aucune", "planifier", "envoyer"},
                             vu: StatutsCampagne, envois: 0..Lots, erreurs: 0..Lots,
                             pc: {"repos", "choisie", "lu", "envoi", "fini", "refuse", "perdu"}]]
  /\ lances \subseteq Appels /\ ecrasees \subseteq Appels

(* creerCampagne: scheduled at once when a date is given.                  *)
CampInit ==
  /\ \E s \in {"BROUILLON", "PLANIFIEE"} :
       campagne = [statut |-> s, due |-> FALSE, nbEnvois |-> 0, nbErreurs |-> 0]
  /\ campJob = [c \in Appels |-> [op |-> "aucune", vu |-> "BROUILLON",
                                  envois |-> 0, erreurs |-> 0, pc |-> "repos"]]
  /\ lances = {} /\ ecrasees = {}

CampPasse(c, op, avant, apres) ==
  /\ campJob[c].op = op /\ campJob[c].pc = avant
  /\ campJob' = [campJob EXCEPT ![c].pc = apres]

CampLu(c, op) ==
  campJob' = [campJob EXCEPT ![c].op = op, ![c].vu = campagne.statut, ![c].pc = "lu"]

Ecrase(c) == IF campagne.statut = campJob[c].vu THEN ecrasees ELSE ecrasees \cup {c}

(* The date comes.                                                         *)
Echoir ==
  /\ campagne.statut = "PLANIFIEE" /\ ~campagne.due
  /\ campagne' = [campagne EXCEPT !.due = TRUE]
  /\ UNCHANGED <<arrets, campJob, lances, ecrasees>>

LirePlanification(c) ==
  /\ campJob[c].pc = "repos"
  /\ campagne.statut \in {"BROUILLON", "PLANIFIEE"}
  /\ CampLu(c, "planifier")
  /\ UNCHANGED <<arrets, campagne, lances, ecrasees>>

Planifier(c, due) ==
  /\ CampPasse(c, "planifier", "lu", "fini")
  /\ campagne' = [campagne EXCEPT !.statut = "PLANIFIEE", !.due = due]
  /\ ecrasees' = Ecrase(c)
  /\ UNCHANGED <<arrets, lances>>

(* checkCampagnesPlanifiees lists the campaign, then calls envoyer.        *)
Choisir(c) ==
  /\ campJob[c].pc = "repos"
  /\ campagne.statut = "PLANIFIEE" /\ campagne.due
  /\ campJob' = [campJob EXCEPT ![c].op = "envoyer", ![c].pc = "choisie"]
  /\ UNCHANGED <<arrets, campagne, lances, ecrasees>>

(* Mutation: a campaign already sent can be sent.                          *)
MutEnvoyable == campagne.statut # "EN_COURS"

Envoyable == campagne.statut \notin {"EN_COURS", "TERMINEE"}

(* envoyer reads the row, on request or for the cron task...               *)
LireEnvoi(c) ==
  /\ campJob[c].pc \in {"repos", "choisie"}
  /\ Envoyable
  /\ CampLu(c, "envoyer")
  /\ UNCHANGED <<arrets, campagne, lances, ecrasees>>

EnvoiRefuse(c) ==
  /\ ~Envoyable
  /\ CampPasse(c, "envoyer", "choisie", "refuse")
  /\ UNCHANGED <<arrets, campagne, lances, ecrasees>>

(* ... and, once it has listed the recipients, marks it and starts a loop. *)
Lancer(c) ==
  /\ CampPasse(c, "envoyer", "lu", "envoi")
  /\ campagne' = [campagne EXCEPT !.statut = "EN_COURS"]
  /\ lances' = lances \cup {c}
  /\ ecrasees' = Ecrase(c)
  /\ UNCHANGED arrets

Envoyes(c) == campJob[c].envois + campJob[c].erreurs

EnvoyerLot(c) ==
  /\ campJob[c].pc = "envoi"
  /\ Envoyes(c) < Lots
  /\ \/ campJob' = [campJob EXCEPT ![c].envois = @ + 1]
     \/ campJob' = [campJob EXCEPT ![c].erreurs = @ + 1]
  /\ UNCHANGED <<arrets, campagne, lances, ecrasees>>

TerminerEnvoi(c) ==
  /\ Envoyes(c) = Lots
  /\ CampPasse(c, "envoyer", "envoi", "fini")
  /\ campagne' = [campagne EXCEPT !.statut = "TERMINEE", !.nbEnvois = campJob[c].envois,
                                  !.nbErreurs = campJob[c].erreurs]
  /\ UNCHANGED <<arrets, lances, ecrasees>>

CampEtape(c) ==
  \/ LirePlanification(c) \/ Choisir(c) \/ LireEnvoi(c) \/ EnvoiRefuse(c) \/ Lancer(c)
  \/ EnvoyerLot(c) \/ TerminerEnvoi(c)
  \/ \E due \in BOOLEAN : Planifier(c, due)

CampArret ==
  /\ arrets < MaxArrets
  /\ arrets' = arrets + 1
  /\ campJob' = [c \in Appels |-> [campJob[c] EXCEPT !.pc = Interrompu(@)]]
  /\ UNCHANGED <<campagne, lances, ecrasees>>

CampNext == Echoir \/ CampArret \/ \E c \in Appels : CampEtape(c)

CampSpec == CampInit /\ arrets = 0 /\ [][CampNext]_<<campVars, arrets>>

-----------------------------------------------------------------------------
(* Properties *)

(* A campaign is never sent twice, nor offered to be sent again, unless a  *)
(* call wrote over a status changed since it read it: not by scheduling it *)
(* again, nor by the cron task, nor after a restart, which leaves it       *)
(* EN_COURS for ever. And a campaign is TERMINEE only when one loop went   *)
(* through all its recipients, and its counters add up.                    *)
EnvoiUnique ==
  /\ ecrasees = {} =>
       /\ \A c, d \in lances : c = d
       /\ lances # {} => campagne.statut \in {"EN_COURS", "TERMINEE"}
  /\ campagne.statut = "TERMINEE" =>
       /\ campagne.nbEnvois + campagne.nbErreurs = Lots
       /\ \E c \in lances : Envoyes(c) = Lots
=============================================================================
