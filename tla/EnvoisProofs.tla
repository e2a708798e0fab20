---------------------------- MODULE EnvoisProofs ----------------------------
(***************************************************************************)
(* Proofs about what leaves a process more than once: the deliveries of an *)
(* endpoint, whose rows say what the endpoint was sent, and the type of    *)
(* the offline queue of the mobile application. They hold for every number *)
(* of calls, attempts, entries, cuts of the connection and restarts.       *)
(***************************************************************************)
EXTENDS Livraisons, FileHorsLigne, FiniteSetTheorems, TLAPS

(* The deliveries *)

(* Call c is sending row d.                                                *)
Envoie(c, d) == livJob[c].cible = d /\ livJob[c].pc \in {"pret", "repondu"}

(* The stages of a call: a creation is about the row of the same name,     *)
(* which no other call can name before it has been inserted.               *)
Etapes ==
  \A c \in Appels :
    /\ livJob[c].pc = "repos" => livJob[c].cible = Rien
    /\ livJob[c].pc # "repos" => livJob[c].cible \in Appels
    /\ livJob[c].pc = "choisi" => livJob[c].essai = 1 /\ livJob[c].op # "retenter"
    /\ livJob[c].pc # "repos" /\ livJob[c].op # "retenter" =>
         livJob[c].op \in {"emettre", "tester"} /\ livJob[c].cible = c
    /\ livJob[c].pc # "repos" /\ livJob[c].op = "retenter" =>
         livJob[c].cible # c /\ livJob[livJob[c].cible].pc \notin {"repos", "choisi"}
    /\ livJob[c].pc = "repondu" => livJob[c].issue \in Issues
    /\ livJob[c].pc = "repondu" /\ livJob[c].issue = "accepte" => livJob[c].cible \in acceptees
    /\ livJob[c].pc \in {"repos", "choisi"} => recus[c].nombre = 0

(* The rows: an existing one has been created by its call; only the loop   *)
(* of an event announces a next retry.                                     *)
Rangees ==
  \A d \in Appels :
    /\ livraisons[d].existe => endpoint /\ livJob[d].pc \notin {"repos", "choisi"}
    /\ livraisons[d].relance \/ livraisons[d].reussi => livraisons[d].existe
    /\ livraisons[d].relance => livJob[d].op = "emettre"
    /\ livraisons[d].reussi => d \in acceptees /\ ~livraisons[d].relance

(* A row retried alone is sent by one call at a time.                      *)
Seule ==
  \A d \in Appels \ chevauchees : \A b, c \in Appels :
    Envoie(b, d) /\ Envoie(c, d) => b = c

(* Nothing about row d was lost, refused or overlapped.                    *)
Nette(d) ==
  /\ livraisons[d].existe
  /\ d \notin chevauchees
  /\ \A c \in Appels : livJob[c].cible = d => livJob[c].pc \in {"pret", "repondu", "fini"}

(* The count of row d when nobody sends it, before the POST of call c and  *)
(* after it.                                                               *)
Compteur(d) ==
  /\ (\A c \in Appels : ~Envoie(c, d)) =>
       /\ livraisons[d].tentatives = recus[d].nombre
       /\ livraisons[d].reussi <=> recus[d].dernier = "accepte"
  /\ \A c \in Appels : livJob[c].cible = d /\ livJob[c].pc = "pret" =>
       recus[d].nombre = IF livJob[c].op = "retenter" THEN livraisons[d].tentatives
                         ELSE livJob[c].essai - 1
  /\ \A c \in Appels : livJob[c].cible = d /\ livJob[c].pc = "repondu" =>
       /\ recus[d].nombre = (IF livJob[c].op = "retenter" THEN livraisons[d].tentatives
                             ELSE livJob[c].essai - 1) + 1
       /\ recus[d].dernier = livJob[c].issue

Compteurs == \A d \in Appels : Nette(d) => Compteur(d)

LivInv == LivTypeOK /\ Etapes /\ Rangees /\ Seule /\ Compteurs

Phases == {"repos", "choisi", "pret", "repondu", "fini", "refuse", "perdu"}
JobEnvoi == [op: {"aucune", "emettre", "tester", "retenter"}, cible: Appels \cup {Rien},
             essai: 0..MaxEssais, issue: Issues \cup {"aucune"}, pc: Phases]

LEMMA TypeDesJobs == LivTypeOK => livJob \in [Appels -> JobEnvoi]
BY DEF LivTypeOK, JobEnvoi, Phases

(* Calls that change nothing but their stage keep their type.              *)
LEMMA StadeChange ==
  ASSUME LivTypeOK, livJob' = [c \in Appels |-> livJob'[c]],
         \A c \in Appels : \/ livJob'[c] = livJob[c]
                          \/ \E p \in Phases : livJob'[c] = [livJob[c] EXCEPT !.pc = p]
  PROVE  livJob' \in [Appels -> JobEnvoi]
<1>1. \A c \in Appels : /\ livJob[c] \in JobEnvoi
                        /\ \A p \in Phases : [livJob[c] EXCEPT !.pc = p] \in JobEnvoi
  <2>1. \A j \in JobEnvoi : \A p \in Phases : [j EXCEPT !.pc = p] \in JobEnvoi
    BY DEF JobEnvoi
  <2> QED BY <2>1, TypeDesJobs
<1>2. \A c \in Appels : livJob'[c] \in JobEnvoi
  BY <1>1
<1>3. \E f : livJob' = f /\ f = [c \in Appels |-> f[c]] /\ \A c \in Appels : f[c] \in JobEnvoi
  BY <1>2
<1> QED BY <1>3

LEMMA LivDebut == LivInit => LivInv
<1> SUFFICES ASSUME LivInit PROVE LivInv
  OBVIOUS
<1>1. LivTypeOK
  BY LivraisonsAssumption DEF LivInit, LivTypeOK, PasDeLivraison
<1>2. /\ \A c \in Appels : livJob[c].pc = "repos" /\ livJob[c].cible = Rien /\ recus[c].nombre = 0
      /\ \A d \in Appels : ~livraisons[d].existe /\ ~livraisons[d].relance /\ ~livraisons[d].reussi
  BY DEF LivInit, PasDeLivraison
<1> QED BY <1>1, <1>2 DEF LivInv, Etapes, Rangees, Seule, Envoie, Compteurs, Nette

(* A step that leaves the rows and the POSTs alone, in which a call either *)
(* keeps its stage or leaves it for one no row counts on.                  *)
LEMMA LivPerd ==
  ASSUME LivInv, LivTypeOK', UNCHANGED <<endpoint, livraisons, recus, acceptees, chevauchees>>,
         \A c \in Appels :
           \/ livJob'[c] = livJob[c]
           \/ /\ livJob'[c].op = livJob[c].op /\ livJob'[c].cible = livJob[c].cible
              /\ livJob[c].pc # "repos"
              /\ livJob'[c].pc \in {"perdu", "refuse"}
  PROVE  LivInv'
<1>1. \A c \in Appels : /\ livJob'[c].op = livJob[c].op /\ livJob'[c].cible = livJob[c].cible
                        /\ livJob'[c].pc \in {livJob[c].pc, "perdu", "refuse"}
                        /\ livJob'[c].pc = "repos" <=> livJob[c].pc = "repos"
                        /\ livJob'[c].pc \in {"choisi", "pret", "repondu", "fini"} =>
                             livJob'[c] = livJob[c]
  OBVIOUS
<1>2. Etapes'
  BY <1>1 DEF LivInv, Etapes
<1>3. Rangees'
  BY <1>1 DEF LivInv, Rangees
<1>4. \A c, d \in Appels : Envoie(c, d)' => Envoie(c, d)
  BY <1>1 DEF Envoie
<1>5. Seule'
  BY <1>4 DEF LivInv, Seule
<1>6. ASSUME NEW d \in Appels, Nette(d)'
      PROVE  Nette(d) /\ \A c \in Appels : livJob[c].cible = d => livJob'[c] = livJob[c]
  BY <1>1, <1>6 DEF Nette
<1>7. Compteurs'
  BY <1>1, <1>6 DEF LivInv, Compteurs, Compteur, Envoie
<1> QED BY <1>2, <1>3, <1>5, <1>7 DEF LivInv
LEMMA RejeterPerd ==
  ASSUME LivInv, NEW c \in Appels, livJob[c].pc \in {"choisi", "repondu"}, livJob' = Rejeter(c),
         UNCHANGED <<endpoint, livraisons, recus, acceptees, chevauchees>>
  PROVE  LivInv'
<1>1. \A d \in Appels :
        /\ [livJob[d] EXCEPT !.pc = livJob[d].pc] = livJob[d]
        /\ \A pc \in {"perdu", "refuse"} :
             /\ [livJob[d] EXCEPT !.pc = pc].op = livJob[d].op
             /\ [livJob[d] EXCEPT !.pc = pc].cible = livJob[d].cible
             /\ [livJob[d] EXCEPT !.pc = pc].pc = pc
  BY DEF LivInv, LivTypeOK
<1>2. ASSUME NEW d \in Appels
      PROVE  \/ livJob'[d] = livJob[d]
             \/ livJob[d].pc # "repos" /\ livJob'[d] = [livJob[d] EXCEPT !.pc = "refuse"]
             \/ livJob[d].pc # "repos" /\ livJob'[d] = [livJob[d] EXCEPT !.pc = "perdu"]
  BY <1>1 DEF Rejeter, Interrompu, LivInv, LivTypeOK
<1>3. LivTypeOK'
  <2>1. livJob' = [d \in Appels |-> livJob'[d]]
    BY DEF Rejeter, LivInv, LivTypeOK
  <2>2. {"refuse", "perdu"} \subseteq Phases
    BY DEF Phases
  <2>3. livJob' \in [Appels -> JobEnvoi]
    BY <1>2, <2>1, <2>2, StadeChange DEF LivInv
  <2> QED BY <2>3 DEF LivInv, LivTypeOK, JobEnvoi, Phases
<1>4. ASSUME NEW d \in Appels
      PROVE  \/ livJob'[d] = livJob[d]
             \/ /\ livJob'[d].op = livJob[d].op /\ livJob'[d].cible = livJob[d].cible
                /\ livJob[d].pc # "repos"
                /\ livJob'[d].pc \in {"perdu", "refuse"}
  <2>1. CASE livJob'[d] = livJob[d]
    BY <2>1
  <2>2. CASE livJob[d].pc # "repos" /\ livJob'[d] = [livJob[d] EXCEPT !.pc = "refuse"]
    BY <1>1, <2>2
  <2>3. CASE livJob[d].pc # "repos" /\ livJob'[d] = [livJob[d] EXCEPT !.pc = "perdu"]
    BY <1>1, <2>3
  <2> QED BY <1>2, <2>1, <2>2, <2>3
<1> QED BY <1>3, <1>4, LivPerd

LEMMA LivArretPas == LivInv /\ LivArret => LivInv'
<1> SUFFICES ASSUME LivInv, LivArret PROVE LivInv'
  OBVIOUS
<1>1. \A d \in Appels :
        /\ [livJob[d] EXCEPT !.pc = livJob[d].pc] = livJob[d]
        /\ [livJob[d] EXCEPT !.pc = "perdu"].op = livJob[d].op
        /\ [livJob[d] EXCEPT !.pc = "perdu"].cible = livJob[d].cible
        /\ [livJob[d] EXCEPT !.pc = "perdu"].pc = "perdu"
  BY DEF LivInv, LivTypeOK
<1>2. \A d \in Appels : \/ livJob'[d] = livJob[d]
                        \/ /\ livJob[d].pc # "repos"
                           /\ livJob'[d] = [livJob[d] EXCEPT !.pc = "perdu"]
  BY <1>1 DEF LivArret, Interrompu, LivInv, LivTypeOK
<1>3. LivTypeOK'
  <2>1. livJob' = [d \in Appels |-> livJob'[d]] /\ "perdu" \in Phases
    BY DEF LivArret, Phases
  <2>2. livJob' \in [Appels -> JobEnvoi]
    BY <1>2, <2>1, StadeChange DEF LivInv
  <2> QED BY <2>2 DEF LivArret, LivInv, LivTypeOK, JobEnvoi, Phases
<1> QED BY <1>1, <1>2, <1>3, LivPerd DEF LivArret

LEMMA TrouverPas ==
  ASSUME LivInv, NEW c \in Appels, NEW op \in {"emettre", "tester"}, TrouverEndpoint(c, op)
  PROVE  LivInv'
<1>1. /\ livJob[c].pc = "repos" /\ livJob[c].cible = Rien /\ recus[c].nombre = 0
      /\ livJob' = [livJob EXCEPT ![c] = [op |-> op, cible |-> c, essai |-> 1,
                                          issue |-> "aucune", pc |-> "choisi"]]
      /\ UNCHANGED <<endpoint, livraisons, recus, acceptees, chevauchees>>
  BY DEF TrouverEndpoint, LivCommencer, LivInv, Etapes
<1>2. /\ livJob'[c] = [op |-> op, cible |-> c, essai |-> 1, issue |-> "aucune", pc |-> "choisi"]
      /\ \A d \in Appels \ {c} : livJob'[d] = livJob[d]
  BY <1>1 DEF LivInv, LivTypeOK
<1>3. LivTypeOK'
  BY <1>1, LivraisonsAssumption DEF LivInv, LivTypeOK
<1>4. ~livraisons[c].existe
  BY <1>1 DEF LivInv, Rangees
<1>5. \A d \in Appels : livJob[d].cible # c
  BY <1>1, AppelsAssumption DEF LivInv, Etapes
<1>6. Etapes'
  BY <1>1, <1>2, <1>5 DEF LivInv, Etapes
<1>7. Rangees'
  BY <1>1, <1>2, <1>4 DEF LivInv, Rangees
<1>8. \A b, d \in Appels : Envoie(b, d)' <=> Envoie(b, d)
  BY <1>1, <1>2 DEF Envoie
<1>9. Seule'
  BY <1>1, <1>8 DEF LivInv, Seule
<1>10. ASSUME NEW d \in Appels, Nette(d)'
       PROVE  Nette(d) /\ d # c
  BY <1>1, <1>2, <1>4, <1>10, AppelsAssumption DEF Nette
<1>11. Compteurs'
  BY <1>1, <1>2, <1>8, <1>10 DEF LivInv, Compteurs, Compteur
<1> QED BY <1>3, <1>6, <1>7, <1>9, <1>11 DEF LivInv

LEMMA CreerPas ==
  ASSUME LivInv, NEW c \in Appels, CreerLivraison(c)
  PROVE  LivInv'
<1>1. CASE ~endpoint
  BY <1>1, RejeterPerd DEF CreerLivraison
<1>2. CASE endpoint
  <2>1. /\ livJob[c].pc = "choisi" /\ livJob[c].cible = c /\ livJob[c].essai = 1
        /\ livJob[c].op \in {"emettre", "tester"} /\ recus[c].nombre = 0
        /\ livJob' = [livJob EXCEPT ![c].pc = "pret"]
        /\ livraisons' = [livraisons EXCEPT ![c].existe = TRUE,
                            ![c].tentatives = IF livJob[c].op = "tester" THEN 1 ELSE 0]
        /\ UNCHANGED <<endpoint, recus, acceptees, chevauchees>>
    <3>1. /\ livJob[c].pc = "choisi"
          /\ livJob' = [livJob EXCEPT ![c].pc = "pret"]
          /\ livraisons' = [livraisons EXCEPT ![c].existe = TRUE,
                              ![c].tentatives = IF livJob[c].op = "tester" THEN 1 ELSE 0]
          /\ UNCHANGED <<endpoint, recus, acceptees, chevauchees>>
      BY <1>2 DEF CreerLivraison
    <3>2. /\ livJob[c].cible = c /\ livJob[c].essai = 1
          /\ livJob[c].op \in {"emettre", "tester"} /\ recus[c].nombre = 0
      BY <3>1 DEF LivInv, Etapes
    <3> QED BY <3>1, <3>2
  <2>2. /\ livJob'[c].op = livJob[c].op /\ livJob'[c].cible = c /\ livJob'[c].essai = 1
        /\ livJob'[c].pc = "pret"
        /\ \A d \in Appels \ {c} : livJob'[d] = livJob[d] /\ livraisons'[d] = livraisons[d]
    BY <2>1 DEF LivInv, LivTypeOK
  <2>3. LivTypeOK' /\ ~livraisons'[c].relance /\ ~livraisons'[c].reussi
    <3>1. ~livraisons[c].relance /\ ~livraisons[c].reussi
      BY <2>1 DEF LivInv, Rangees
    <3>2. LivTypeOK'
      <4>1. livraisons' \in [Appels -> [existe: BOOLEAN, tentatives: Nat, reussi: BOOLEAN, relance: BOOLEAN]]
        <5> DEFINE n == IF livJob[c].op = "tester" THEN 1 ELSE 0
        <5>1. n \in Nat
          OBVIOUS
        <5>2. livraisons[c] \in [existe: BOOLEAN, tentatives: Nat, reussi: BOOLEAN, relance: BOOLEAN]
          BY DEF LivInv, LivTypeOK
        <5>3. [livraisons[c] EXCEPT !.existe = TRUE, !.tentatives = n]
                \in [existe: BOOLEAN, tentatives: Nat, reussi: BOOLEAN, relance: BOOLEAN]
          BY <5>1, <5>2
        <5> HIDE DEF n
        <5>4. livraisons' = [livraisons EXCEPT ![c] = [livraisons[c] EXCEPT !.existe = TRUE, !.tentatives = n]]
          BY <2>1 DEF n, LivInv, LivTypeOK
        <5> QED BY <5>3, <5>4 DEF LivInv, LivTypeOK
      <4>2. livJob' \in [Appels -> [op: {"aucune", "emettre", "tester", "retenter"},
                                   cible: Appels \cup {Rien}, essai: 0..MaxEssais,
                                   issue: Issues \cup {"aucune"},
                                   pc: {"repos", "choisi", "pret", "repondu", "fini", "refuse", "perdu"}]]
        <5>1. livJob' = [livJob EXCEPT ![c].pc = "pret"] /\ livJob \in [Appels -> JobEnvoi]
          BY <2>1, TypeDesJobs DEF LivInv
        <5>2. "pret" \in Phases /\ livJob' = [d \in Appels |-> livJob'[d]]
          BY <5>1 DEF Phases
        <5>3. \A d \in Appels : livJob'[d] = livJob[d] \/ livJob'[d] = [livJob[d] EXCEPT !.pc = "pret"]
          BY <5>1
        <5> QED BY <5>2, <5>3, StadeChange DEF LivInv, JobEnvoi, Phases
      <4> QED BY <2>1, <4>1, <4>2 DEF LivInv, LivTypeOK
    <3>3. livraisons'[c].relance = livraisons[c].relance /\ livraisons'[c].reussi = livraisons[c].reussi
      BY <2>1 DEF LivInv, LivTypeOK
    <3> QED BY <3>1, <3>2, <3>3
  <2>4. \A d \in Appels \ {c} : livJob[d].cible # c
    BY <2>1, AppelsAssumption DEF LivInv, Etapes
  <2>5. Etapes'
    BY <2>1, <2>2 DEF LivInv, Etapes
  <2>6. Rangees'
    BY <1>2, <2>1, <2>2, <2>3 DEF LivInv, Rangees
  <2>7. \A b, d \in Appels : Envoie(b, d)' => Envoie(b, d) \/ (b = c /\ d = c)
    BY <2>1, <2>2 DEF Envoie
  <2>8. Seule'
    BY <2>1, <2>4, <2>7 DEF LivInv, Seule, Envoie
  <2>9. ASSUME NEW d \in Appels \ {c}, Nette(d)'
        PROVE  Nette(d)
    BY <2>1, <2>2, <2>9 DEF Nette
  <2>10. Envoie(c, c)' /\ \A b \in Appels : livJob'[b].cible = c => b = c
    BY <2>2, <2>4 DEF Envoie
  <2>11. Compteurs'
    <3>1. ASSUME NEW d \in Appels \ {c}, NEW b \in Appels
          PROVE  /\ livJob'[b].cible = d <=> livJob[b].cible = d
                 /\ livJob'[b].cible = d => livJob'[b] = livJob[b]
      BY <2>1, <2>2
    <3>2. \A d \in Appels \ {c}, b \in Appels : Envoie(b, d)' <=> Envoie(b, d)
      BY <3>1 DEF Envoie
    <3>3. \A d \in Appels \ {c} : Nette(d)' => Compteur(d)'
      <4> SUFFICES ASSUME NEW d \in Appels \ {c}, Nette(d)' PROVE Compteur(d)'
        OBVIOUS
      <4>1. Compteur(d)
        BY <2>9 DEF LivInv, Compteurs
      <4>2. livraisons'[d] = livraisons[d] /\ recus' = recus
        BY <2>1, <2>2
      <4> QED BY <3>1, <3>2, <4>1, <4>2 DEF Compteur
    <3>4. Compteur(c)'
      BY <2>1, <2>2, <2>10 DEF Compteur
    <3> QED BY <3>3, <3>4 DEF Compteurs
  <2> QED BY <2>3, <2>5, <2>6, <2>8, <2>11 DEF LivInv
<1> QED BY <1>1, <1>2

LEMMA RetenterPas ==
  ASSUME LivInv, NEW c \in Appels, NEW e \in Appels, Retenter(c, e)
  PROVE  LivInv'
<1>1. /\ livJob[c].pc = "repos" /\ livJob[c].cible = Rien /\ recus[c].nombre = 0
      /\ livraisons[e].existe /\ livJob[e].pc \notin {"repos", "choisi"} /\ e # c
      /\ livJob' = [livJob EXCEPT ![c] = [op |-> "retenter", cible |-> e, essai |-> 1,
                                          issue |-> "aucune", pc |-> "pret"]]
      /\ UNCHANGED <<endpoint, livraisons, recus, acceptees>>
      /\ chevauchees' = IF EnvoiEnCours(e) THEN chevauchees \cup {e} ELSE chevauchees
  BY DEF Retenter, LivCommencer, LivInv, Etapes, Rangees
<1>2. /\ livJob'[c] = [op |-> "retenter", cible |-> e, essai |-> 1, issue |-> "aucune", pc |-> "pret"]
      /\ \A d \in Appels \ {c} : livJob'[d] = livJob[d]
  BY <1>1 DEF LivInv, LivTypeOK
<1>3. LivTypeOK'
  BY <1>1, LivraisonsAssumption DEF LivInv, LivTypeOK
<1>4. Etapes'
  BY <1>1, <1>2 DEF LivInv, Etapes
<1>5. Rangees'
  BY <1>1, <1>2 DEF LivInv, Rangees
<1>6. \A b, d \in Appels : Envoie(b, d)' <=> Envoie(b, d) \/ (b = c /\ d = e)
  BY <1>1, <1>2 DEF Envoie
<1>7. e \notin chevauchees' => \A b \in Appels : ~Envoie(b, e)
  BY <1>1 DEF EnvoiEnCours, Envoie
<1>8. chevauchees \subseteq chevauchees'
  BY <1>1
<1>9. Seule'
  BY <1>6, <1>7, <1>8 DEF LivInv, Seule
<1>10. \A d \in Appels : Nette(d)' => Nette(d)
  BY <1>1, <1>2, <1>8, AppelsAssumption DEF Nette
<1>11. Compteurs'
  <2> SUFFICES ASSUME NEW d \in Appels, Nette(d)' PROVE Compteur(d)'
    BY DEF Compteurs
  <2>1. Nette(d)
    BY <1>10
  <2>2. d = e => livraisons[d].tentatives = recus[d].nombre
    <3>1. d \notin chevauchees'
      BY DEF Nette
    <3> QED BY <1>7, <2>1, <3>1 DEF LivInv, Compteurs, Compteur
  <2> QED BY <1>1, <1>2, <1>6, <2>1, <2>2 DEF LivInv, Compteurs, Compteur
<1> QED BY <1>3, <1>4, <1>5, <1>9, <1>11 DEF LivInv
LEMMA PosterPas ==
  ASSUME LivInv, NEW c \in Appels, NEW issue \in Issues, Poster(c, issue)
  PROVE  LivInv'
<1>0. PICK e \in Appels : e = livJob[c].cible
  BY DEF Poster, LivInv, Etapes
<1>1. /\ livJob[c].pc = "pret" /\ livJob[c].cible = e
      /\ livJob' = [livJob EXCEPT ![c].issue = issue, ![c].pc = "repondu"]
      /\ recus' = [recus EXCEPT ![e] = [nombre |-> recus[e].nombre + 1, dernier |-> issue]]
      /\ acceptees' = IF issue = "accepte" THEN acceptees \cup {e} ELSE acceptees
      /\ UNCHANGED <<endpoint, livraisons, chevauchees>>
  BY <1>0 DEF Poster
<1>2. /\ livJob'[c].op = livJob[c].op /\ livJob'[c].cible = e /\ livJob'[c].essai = livJob[c].essai
      /\ livJob'[c].pc = "repondu" /\ livJob'[c].issue = issue
      /\ \A d \in Appels \ {c} : livJob'[d] = livJob[d]
      /\ recus'[e].nombre = recus[e].nombre + 1 /\ recus'[e].dernier = issue
      /\ \A d \in Appels \ {e} : recus'[d] = recus[d]
  BY <1>1 DEF LivInv, LivTypeOK
<1>3. LivTypeOK'
  BY <1>1 DEF LivInv, LivTypeOK
<1>4. livJob[e].pc \notin {"repos", "choisi"}
  BY <1>1 DEF LivInv, Etapes
<1>5. Etapes'
  <2>1. \A d \in Appels : /\ livJob'[d].op = livJob[d].op /\ livJob'[d].cible = livJob[d].cible
                          /\ livJob'[d].essai = livJob[d].essai
                          /\ livJob'[d].pc \in {"repos", "choisi"} <=> livJob[d].pc \in {"repos", "choisi"}
                          /\ livJob'[d].pc = "repos" <=> livJob[d].pc = "repos"
                          /\ livJob'[d].pc = "repondu" <=> livJob[d].pc = "repondu" \/ d = c
    BY <1>1, <1>2
  <2>2. acceptees \subseteq acceptees' /\ (issue = "accepte" => e \in acceptees')
    BY <1>1
  <2>3. \A d \in Appels : livJob[d].pc \in {"repos", "choisi"} => recus'[d] = recus[d]
    BY <1>2, <1>4
  <2>4. \A d \in Appels : livJob'[d].pc = "repondu" =>
          /\ livJob'[d].issue \in Issues
          /\ livJob'[d].issue = "accepte" => livJob'[d].cible \in acceptees'
    BY <1>2, <2>1, <2>2 DEF LivInv, Etapes
  <2>5. \A d \in Appels : livJob'[d].pc # "repos" /\ livJob'[d].op = "retenter" =>
          livJob'[d].cible # d /\ livJob'[livJob'[d].cible].pc \notin {"repos", "choisi"}
    BY <2>1 DEF LivInv, Etapes
  <2> QED BY <2>1, <2>3, <2>4, <2>5 DEF LivInv, Etapes
<1>6. Rangees'
  BY <1>1, <1>2 DEF LivInv, Rangees
<1>7. \A b, d \in Appels : Envoie(b, d)' <=> Envoie(b, d)
  <2>1. livJob'[c].cible = livJob[c].cible /\ livJob[c].pc \in {"pret", "repondu"}
        /\ livJob'[c].pc \in {"pret", "repondu"}
    BY <1>1, <1>2
  <2>2. \A b \in Appels : b = c \/ livJob'[b] = livJob[b]
    BY <1>2
  <2> QED BY <2>1, <2>2 DEF Envoie
<1>8. Seule'
  BY <1>1, <1>7 DEF LivInv, Seule
<1>9. \A d \in Appels : Nette(d)' => Nette(d)
  BY <1>1, <1>2 DEF Nette
<1>10. ASSUME NEW d \in Appels, Nette(d)'
       PROVE  Compteur(d)'
  <2>1. Nette(d) /\ Compteur(d)
    BY <1>9, <1>10 DEF LivInv, Compteurs
  <2>2. CASE d # e
    <3>0. livJob[c].cible = e /\ livJob'[c].cible = e /\ livraisons' = livraisons
      BY <1>1, <1>2
    <3>00. \A b \in Appels : b = c \/ livJob'[b] = livJob[b]
      BY <1>2
    <3>1. \A b \in Appels : livJob'[b].cible = d <=> livJob[b].cible = d
      BY <3>0, <3>00
    <3>2. \A b \in Appels : livJob[b].cible = d => livJob'[b] = livJob[b]
      BY <2>2, <3>0, <3>00
    <3>3. recus'[d] = recus[d] /\ livraisons' = livraisons
      BY <1>2, <2>2, <3>0
    <3> QED BY <1>7, <2>1, <3>1, <3>2, <3>3 DEF Compteur
  <2>3. CASE d = e
    <3>1. Envoie(c, e)' /\ \A b \in Appels : Envoie(b, e)' => b = c
      <4>1. Envoie(c, e) /\ e \notin chevauchees
        BY <1>1, <2>1, <2>3 DEF Envoie, Nette
      <4> QED BY <1>7, <4>1 DEF LivInv, Seule
    <3>2. recus[e].nombre = IF livJob[c].op = "retenter" THEN livraisons[e].tentatives
                            ELSE livJob[c].essai - 1
      BY <1>1, <2>1, <2>3 DEF Compteur
    <3>3. /\ livraisons' = livraisons /\ livJob'[c].pc = "repondu" /\ livJob'[c].cible = e
          /\ livJob'[c].op = livJob[c].op /\ livJob'[c].essai = livJob[c].essai
          /\ livJob'[c].issue = issue
          /\ recus'[e].nombre = recus[e].nombre + 1 /\ recus'[e].dernier = issue
      BY <1>1, <1>2
    <3>4. \A b \in Appels : /\ livJob'[b].cible = e /\ livJob'[b].pc \in {"pret", "repondu"} => b = c
                            /\ b = c \/ ~ (livJob'[b].cible = e /\ livJob'[b].pc = "pret")
      BY <3>1 DEF Envoie
    <3> QED BY <2>3, <3>1, <3>2, <3>3, <3>4 DEF Compteur
  <2> QED BY <2>2, <2>3
<1> QED BY <1>3, <1>5, <1>6, <1>8, <1>10 DEF LivInv, Compteurs

LEMMA NoterPas ==
  ASSUME LivInv, NEW c \in Appels, Noter(c)
  PROVE  LivInv'
<1>0. PICK e \in Appels : e = livJob[c].cible
  BY DEF Noter, LivInv, Etapes
<1>00. PICK j, l : j = livJob[c] /\ l = livraisons[e]
  OBVIOUS
<1>1. /\ j = livJob[c] /\ l = livraisons[e] /\ livJob[c].cible = e
      /\ j.pc = "repondu" /\ j.cible = e /\ l.existe
      /\ livraisons' = [livraisons EXCEPT ![e] =
                          [existe |-> TRUE, tentatives |-> Compte(j, l),
                           reussi |-> j.issue = "accepte", relance |-> Relance(j, l)]]
      /\ UNCHANGED <<endpoint, recus, acceptees, chevauchees>>
  BY <1>0, <1>00 DEF Noter
<1>2. /\ j \in [op: {"aucune", "emettre", "tester", "retenter"}, cible: Appels \cup {Rien},
                essai: 0..MaxEssais, issue: Issues \cup {"aucune"},
                pc: {"repos", "choisi", "pret", "repondu", "fini", "refuse", "perdu"}]
      /\ l \in [existe: BOOLEAN, tentatives: Nat, reussi: BOOLEAN, relance: BOOLEAN]
  BY <1>1 DEF LivInv, LivTypeOK
<1>3. /\ livJob'[c].op = j.op /\ livJob'[c].cible = e
      /\ livJob'[c].pc = IF Reessaie(j) THEN "pret" ELSE "fini"
      /\ livJob'[c].essai = IF Reessaie(j) THEN j.essai + 1 ELSE j.essai
      /\ \A d \in Appels \ {c} : livJob'[d] = livJob[d]
      /\ livJob' \in [Appels -> [op: {"aucune", "emettre", "tester", "retenter"},
                                 cible: Appels \cup {Rien}, essai: 0..MaxEssais,
                                 issue: Issues \cup {"aucune"},
                                 pc: {"repos", "choisi", "pret", "repondu", "fini", "refuse", "perdu"}]]
  <2>1. CASE Reessaie(j)
    <3>1. livJob' = [livJob EXCEPT ![c].essai = j.essai + 1, ![c].pc = "pret"]
      BY <1>1, <2>1 DEF Noter
    <3>2. j.essai + 1 \in 0..MaxEssais
      BY <1>2, <2>1, LivraisonsAssumption DEF Reessaie
    <3>3. [livJob[c] EXCEPT !.essai = j.essai + 1, !.pc = "pret"] \in JobEnvoi
      <4>1. \A k \in JobEnvoi : \A n \in 0..MaxEssais : [k EXCEPT !.essai = n, !.pc = "pret"] \in JobEnvoi
        BY DEF JobEnvoi, Phases
      <4> QED BY <3>2, <4>1, TypeDesJobs DEF LivInv
    <3>4. livJob \in [Appels -> JobEnvoi] /\ livJob' = [livJob EXCEPT ![c] = [livJob[c] EXCEPT !.essai = j.essai + 1, !.pc = "pret"]]
      BY <3>1, TypeDesJobs DEF LivInv
    <3>5. livJob' \in [Appels -> JobEnvoi] /\ \A d \in Appels \ {c} : livJob'[d] = livJob[d]
      BY <3>3, <3>4
    <3>6. livJob'[c].op = j.op /\ livJob'[c].cible = e /\ livJob'[c].pc = "pret"
          /\ livJob'[c].essai = j.essai + 1
      BY <1>1, <1>2, <3>4
    <3> QED BY <2>1, <3>5, <3>6 DEF JobEnvoi, Phases
  <2>2. CASE ~Reessaie(j)
    <3>1. /\ livJob' = [livJob EXCEPT ![c].pc = "fini"] /\ livJob \in [Appels -> JobEnvoi]
          /\ livJob' = [d \in Appels |-> livJob'[d]] /\ "fini" \in Phases
      BY <1>1, <2>2, TypeDesJobs DEF Noter, LivInv, Phases
    <3>2. /\ livJob'[c] = [livJob[c] EXCEPT !.pc = "fini"]
          /\ \A d \in Appels \ {c} : livJob'[d] = livJob[d]
      BY <3>1
    <3>3. livJob' \in [Appels -> JobEnvoi]
      BY <3>1, <3>2, StadeChange DEF LivInv
    <3>4. /\ livJob'[c].op = j.op /\ livJob'[c].cible = e
          /\ livJob'[c].pc = "fini" /\ livJob'[c].essai = j.essai
      BY <1>1, <1>2, <3>2
    <3> QED BY <2>2, <3>2, <3>3, <3>4 DEF JobEnvoi, Phases
  <2> QED BY <2>1, <2>2
<1>4. /\ Compte(j, l) \in Nat /\ Relance(j, l) \in BOOLEAN
      /\ livraisons' \in [Appels -> [existe: BOOLEAN, tentatives: Nat, reussi: BOOLEAN, relance: BOOLEAN]]
  <2>1. Compte(j, l) \in Nat /\ Relance(j, l) \in BOOLEAN
    <3>1. l.tentatives \in Nat /\ j.essai \in Nat
      BY <1>2
    <3>2. l.relance \in BOOLEAN /\ Reessaie(j) \in BOOLEAN
      BY <1>2 DEF Reessaie
    <3> QED BY <3>1, <3>2 DEF Compte, Relance
  <2>2. [existe |-> TRUE, tentatives |-> Compte(j, l), reussi |-> j.issue = "accepte",
         relance |-> Relance(j, l)]
          \in [existe: BOOLEAN, tentatives: Nat, reussi: BOOLEAN, relance: BOOLEAN]
    BY <2>1
  <2> QED BY <1>1, <2>1, <2>2 DEF LivInv, LivTypeOK
<1>5. LivTypeOK'
  BY <1>1, <1>3, <1>4 DEF LivInv, LivTypeOK
<1>6. /\ livraisons'[e].existe /\ livraisons'[e].tentatives = Compte(j, l)
      /\ livraisons'[e].reussi <=> j.issue = "accepte"
      /\ livraisons'[e].relance <=> Relance(j, l)
      /\ \A d \in Appels \ {e} : livraisons'[d] = livraisons[d]
  BY <1>1 DEF LivInv, LivTypeOK
<1>7. Etapes'
  BY <1>1, <1>3 DEF LivInv, Etapes
<1>8. /\ j.op = "emettre" => e = c
      /\ j.op = "tester" => e = c
      /\ j.op \in {"emettre", "tester", "retenter"}
      /\ j.issue = "accepte" => e \in acceptees
      /\ livJob[e].pc \notin {"repos", "choisi"}
      /\ j.issue \in Issues
  BY <1>1, <1>2 DEF LivInv, Etapes
<1>9. Rangees'
  <2>1. livraisons'[e].relance => livJob'[e].op = "emettre"
    <3>1. l.relance => livJob[e].op = "emettre"
      BY <1>1 DEF LivInv, Rangees
    <3> QED BY <1>1, <1>3, <1>6, <1>8, <3>1 DEF Relance, Reessaie
  <2>2. livraisons'[e].reussi => ~livraisons'[e].relance
    <3>1. l.relance => livJob[e].op = "emettre"
      BY <1>1 DEF LivInv, Rangees
    <3> QED BY <1>1, <1>6, <1>8, <3>1 DEF Relance, Reessaie
  <2>3. \A d \in Appels : /\ livJob'[d].op = livJob[d].op
                          /\ livJob[d].pc \notin {"repos", "choisi"} =>
                               livJob'[d].pc \notin {"repos", "choisi"}
    BY <1>1, <1>3
  <2>4. livraisons[e].existe => endpoint
    BY <1>1 DEF LivInv, Rangees
  <2> QED BY <1>1, <1>6, <1>8, <2>1, <2>2, <2>3, <2>4 DEF LivInv, Rangees
<1>10. /\ \A b, d \in Appels : Envoie(b, d)' => Envoie(b, d)
       /\ Envoie(c, e)' <=> Reessaie(j)
       /\ \A b \in Appels \ {c}, d \in Appels : Envoie(b, d)' <=> Envoie(b, d)
       /\ \A d \in Appels \ {e} : ~Envoie(c, d)' /\ ~Envoie(c, d)
       /\ Envoie(c, e)
  BY <1>1, <1>3 DEF Envoie
<1>11. Seule'
  BY <1>1, <1>10 DEF LivInv, Seule
<1>12. ASSUME NEW d \in Appels, Nette(d)'
       PROVE  Nette(d) /\ Compteur(d)
  <2>1. \A b \in Appels : livJob[b].cible = d => livJob'[b].cible = d
    BY <1>1, <1>3
  <2>2. \A b \in Appels : livJob'[b].pc \in {"pret", "repondu", "fini"} =>
          livJob[b].pc \in {"pret", "repondu", "fini"}
    BY <1>1, <1>3
  <2>3. livraisons[d].existe /\ d \notin chevauchees
    BY <1>1, <1>6, <1>12 DEF Nette
  <2>4. Nette(d)
    BY <1>12, <2>1, <2>2, <2>3 DEF Nette
  <2> QED BY <2>4 DEF LivInv, Compteurs
<1>13. ASSUME NEW d \in Appels \ {e}, Nette(d)'
       PROVE  Compteur(d)'
  <2>1. \A b \in Appels : livJob'[b].cible = d <=> livJob[b].cible = d
    BY <1>1, <1>3, <1>13
  <2>2. \A b \in Appels : livJob[b].cible = d => livJob'[b] = livJob[b]
    BY <1>1, <1>3, <1>13
  <2>3. \A b \in Appels : Envoie(b, d)' <=> Envoie(b, d)
    BY <1>10, <1>13
  <2> QED BY <1>1, <1>6, <1>12, <1>13, <2>1, <2>2, <2>3 DEF Compteur
<1>14. ASSUME Nette(e)' PROVE Compteur(e)'
  <2>1. \A b \in Appels : Envoie(b, e) => b = c
    BY <1>1, <1>10, <1>12, <1>14 DEF LivInv, Seule, Nette
  <2>2. /\ recus[e].nombre = (IF j.op = "retenter" THEN l.tentatives ELSE j.essai - 1) + 1
        /\ recus[e].dernier = j.issue
    BY <1>1, <1>12, <1>14 DEF Compteur
  <2>3. /\ l.tentatives \in Nat /\ j.essai \in Int
        /\ recus[e].nombre = Compte(j, l)
    BY <1>2, <2>2 DEF Compte
  <2>4. \A b \in Appels : livJob'[b].cible = e /\ livJob'[b].pc \in {"pret", "repondu"} =>
          b = c /\ Reessaie(j)
    BY <1>10, <2>1 DEF Envoie
  <2>5. Reessaie(j) => /\ j.op = "emettre" /\ livJob'[c].op = "emettre"
                       /\ recus[e].nombre = livJob'[c].essai - 1
    BY <1>3, <2>3 DEF Reessaie, Compte
  <2> QED BY <1>1, <1>3, <1>6, <2>2, <2>3, <2>4, <2>5 DEF Compteur
<1> QED BY <1>1, <1>5, <1>7, <1>9, <1>11, <1>13, <1>14 DEF LivInv, Compteurs

LEMMA SupprimerPas == LivInv /\ Supprimer => LivInv'
<1> SUFFICES ASSUME LivInv, Supprimer PROVE LivInv'
  OBVIOUS
<1>1. /\ endpoint' = FALSE
      /\ UNCHANGED <<livJob, recus, acceptees, chevauchees>>
      /\ \A d \in Appels :
           ~livraisons'[d].existe /\ ~livraisons'[d].relance /\ ~livraisons'[d].reussi
  BY DEF Supprimer, PasDeLivraison
<1>2. LivTypeOK'
  BY DEF Supprimer, LivInv, LivTypeOK, PasDeLivraison
<1>3. Etapes'
  BY <1>1 DEF LivInv, Etapes
<1>4. Rangees' /\ Compteurs'
  BY <1>1 DEF Rangees, Compteurs, Nette
<1>5. Seule'
  BY <1>1 DEF LivInv, Seule, Envoie
<1> QED BY <1>2, <1>3, <1>4, <1>5 DEF LivInv

LEMMA LivCalme == LivInv /\ UNCHANGED livVars => LivInv'
<1> SUFFICES ASSUME LivInv, UNCHANGED livVars PROVE LivInv'
  OBVIOUS
<1>1. LivTypeOK'
  BY DEF livVars, LivInv, LivTypeOK
<1> QED BY <1>1, LivPerd DEF livVars

LEMMA LivPas == LivInv /\ [LivNext]_<<livVars, arrets>> => LivInv'
<1> SUFFICES ASSUME LivInv, [LivNext]_<<livVars, arrets>> PROVE LivInv'
  OBVIOUS
<1>1. CASE UNCHANGED livVars
  BY <1>1, LivCalme
<1>2. ASSUME NEW c \in Appels, NoterSansLigne(c) PROVE LivInv'
  BY <1>2, RejeterPerd DEF NoterSansLigne
<1> QED BY <1>1, <1>2, LivArretPas, SupprimerPas, TrouverPas, CreerPas, RetenterPas, PosterPas,
           NoterPas DEF LivNext, LivEtape, livVars

(* The row of a delivery, once its calls are over.                         *)
LEMMA LivRegles == LivInv => LivraisonFidele
<1> SUFFICES ASSUME LivInv, NEW d \in Appels, livraisons[d].existe
             PROVE  /\ livraisons[d].reussi => d \in acceptees /\ ~livraisons[d].relance
                    /\ d \notin chevauchees
                         /\ (\A c \in Appels : livJob[c].cible = d => livJob[c].pc = "fini") =>
                         /\ livraisons[d].tentatives = recus[d].nombre
                         /\ livraisons[d].reussi <=> recus[d].dernier = "accepte"
  BY DEF LivraisonFidele
<1>1. livraisons[d].reussi => d \in acceptees /\ ~livraisons[d].relance
  BY DEF LivInv, Rangees
<1>2. ASSUME d \notin chevauchees, \A c \in Appels : livJob[c].cible = d => livJob[c].pc = "fini"
      PROVE  /\ livraisons[d].tentatives = recus[d].nombre
             /\ livraisons[d].reussi <=> recus[d].dernier = "accepte"
  BY <1>2 DEF LivInv, Compteurs, Compteur, Nette, Envoie
<1> QED BY <1>1, <1>2

(* The row of a delivery counts every POST and tells the outcome of the    *)
(* last, once its calls are over, none lost by a restart nor overlapping   *)
(* another; and it is never reussi unless the endpoint accepted it.        *)
THEOREM LivraisonsFideles == LivSpec => []LivraisonFidele
<1>1. LivInv => LivraisonFidele
  BY LivRegles
<1> QED BY <1>1, LivDebut, LivPas, PTL DEF LivSpec
-----------------------------------------------------------------------------
(* The offline queue *)

(* A flow that is to post has a row to post. *)
FileInv ==
  /\ FileTypeOK
  /\ \A e \in Saisies \cup Flux : envoi[e].pc \in {"saisie", "vol"} => envoi[e].tx \in Saisies

LEMMA Attente ==
  ASSUME FileTypeOK
  PROVE  Cardinality(attente) \in Nat
BY FileAssumption, FS_Subset, FS_CardinalityType DEF FileTypeOK

LEMMA FluxSaisies == Flux \cap Saisies = {} /\ Rien \notin Saisies
BY FileAssumption DEF Flux

LEMMA FileDebut == FileInit => FileInv
<1> SUFFICES ASSUME FileInit PROVE FileInv
  OBVIOUS
<1>1. \A e \in Saisies \cup Flux : envoi[e] = [tx |-> Rien, pc |-> "repos"]
  BY DEF FileInit
<1>2. envoi \in [Saisies \cup Flux -> [tx: Saisies \cup {Rien},
                                       pc: {"repos", "debut", "boucle", "saisie", "vol", "fini"}]]
  BY DEF FileInit
<1>3. reste \in [Flux -> SUBSET Saisies] /\ ennuis \in 0..MaxEnnuis /\ compteur \in Nat /\ abonne \in Nat
  BY FileAssumption DEF FileInit
<1>4. FileTypeOK
  BY <1>2, <1>3 DEF FileInit, FileTypeOK
<1> QED BY <1>1, <1>4 DEF FileInv

LEMMA FileCalme == FileInv /\ UNCHANGED fileVars => FileInv'
BY DEF FileInv, FileTypeOK, fileVars

(* What a flow does to its own progress, at each of its steps.             *)
LEMMA EnvoiPas ==
  ASSUME FileInv, NEW e \in Saisies \cup Flux, NEW n, envoi' = [envoi EXCEPT ![e] = n],
         n \in [tx: Saisies \cup {Rien}, pc: {"repos", "debut", "boucle", "saisie", "vol", "fini"}],
         n.pc \in {"saisie", "vol"} => n.tx \in Saisies
  PROVE  /\ envoi' \in [Saisies \cup Flux ->
                          [tx: Saisies \cup {Rien},
                           pc: {"repos", "debut", "boucle", "saisie", "vol", "fini"}]]
         /\ \A d \in Saisies \cup Flux : envoi'[d].pc \in {"saisie", "vol"} => envoi'[d].tx \in Saisies
BY DEF FileInv, FileTypeOK

LEMMA FilePas == FileInv /\ [FileNext]_<<fileVars, arrets>> => FileInv'
<1> SUFFICES ASSUME FileInv, [FileNext]_<<fileVars, arrets>> PROVE FileInv'
  OBVIOUS
<1> DEFINE Flots == Saisies \cup Flux
<1>0. FileTypeOK /\ Cardinality(attente) \in Nat
  BY Attente DEF FileInv
<1>1. ASSUME NEW t \in Saisies, Saisir(t) PROVE FileInv'
  <2>1. envoi' = [envoi EXCEPT ![t] = [tx |-> t, pc |-> "saisie"]]
    BY <1>1 DEF Saisir
  <2> QED BY <1>0, <1>1, <2>1, EnvoiPas DEF Saisir, FileInv, FileTypeOK, reseauVars
<1>2. ASSUME NEW t \in Saisies, CompterSaisie(t) PROVE FileInv'
  <2>1. envoi' = [envoi EXCEPT ![t] = [envoi[t] EXCEPT !.pc = "vol"]] /\ envoi[t].tx \in Saisies
    BY <1>2 DEF CompterSaisie, FilePasse, FileInv, FileTypeOK
  <2>2. [envoi[t] EXCEPT !.pc = "vol"] = [tx |-> envoi[t].tx, pc |-> "vol"]
    BY <1>0 DEF FileTypeOK
  <2> QED BY <1>0, <1>2, <2>1, <2>2, EnvoiPas DEF CompterSaisie, FileInv, FileTypeOK, reseauVars
<1>3. ASSUME NEW f \in Flux, Lister(f) \/ EcouterEtEnvoyer(f) PROVE FileInv'
  <2>1. PICK pc \in {"debut", "boucle"} : envoi' = [envoi EXCEPT ![f] = [envoi[f] EXCEPT !.pc = pc]]
    BY <1>3 DEF Lister, EcouterEtEnvoyer, FilePasse, FileTypeOK
  <2>2. [envoi[f] EXCEPT !.pc = pc] = [tx |-> envoi[f].tx, pc |-> pc]
    BY <1>0 DEF FileTypeOK
  <2>3. envoi[f].tx \in Saisies \cup {Rien}
    BY <1>0 DEF FileTypeOK
  <2>4. /\ envoi' \in [Flots -> [tx: Saisies \cup {Rien},
                                 pc: {"repos", "debut", "boucle", "saisie", "vol", "fini"}]]
        /\ \A d \in Flots : envoi'[d].pc \in {"saisie", "vol"} => envoi'[d].tx \in Saisies
    BY <2>1, <2>2, <2>3, EnvoiPas
  <2>5. reste' \in [Flux -> SUBSET Saisies]
    BY <1>0, <1>3 DEF Lister, EcouterEtEnvoyer, FileTypeOK
  <2> QED BY <1>0, <1>3, <2>4, <2>5 DEF Lister, EcouterEtEnvoyer, FileInv, FileTypeOK, reseauVars
<1>4. ASSUME NEW f \in Flux, NEW t \in Saisies, Suivante(f, t) PROVE FileInv'
  <2>1. envoi' = [envoi EXCEPT ![f] = [tx |-> t, pc |-> "vol"]]
    BY <1>4 DEF Suivante
  <2>2. reste' \in [Flux -> SUBSET Saisies]
    BY <1>0, <1>4 DEF Suivante, FileTypeOK
  <2> QED BY <1>0, <1>4, <2>1, <2>2, EnvoiPas DEF Suivante, FileInv, FileTypeOK, reseauVars
<1>5. ASSUME NEW e \in Flots, Refuser(e) \/ PosteEchoue(e) PROVE FileInv'
  <2>1. envoi' = [envoi EXCEPT ![e] = Ensuite(e)] /\ envoi[e].tx \in Saisies
    BY <1>5 DEF Refuser, PosteEchoue, FileInv
  <2>2. /\ Ensuite(e) \in [tx: Saisies \cup {Rien},
                           pc: {"repos", "debut", "boucle", "saisie", "vol", "fini"}]
        /\ Ensuite(e).pc \notin {"saisie", "vol"}
    BY DEF Ensuite
  <2>3. ennuis' \in 0..MaxEnnuis
    BY <1>0, <1>5, FileAssumption DEF Refuser, PosteEchoue, FileTypeOK
  <2>4. /\ envoi' \in [Flots -> [tx: Saisies \cup {Rien},
                                 pc: {"repos", "debut", "boucle", "saisie", "vol", "fini"}]]
        /\ \A d \in Flots : envoi'[d].pc \in {"saisie", "vol"} => envoi'[d].tx \in Saisies
    BY <2>1, <2>2, EnvoiPas
  <2> QED BY <1>0, <1>5, <2>1, <2>3, <2>4 DEF Refuser, PosteEchoue, FileInv, FileTypeOK, reseauVars
<1>6. ASSUME NEW f \in Flux, FinirSync(f) PROVE FileInv'
  <2>1. envoi' = [envoi EXCEPT ![f] = [tx |-> Rien, pc |-> "repos"]]
    BY <1>6 DEF FinirSync
  <2> QED BY <1>0, <1>6, <2>1, EnvoiPas DEF FinirSync, FileInv, FileTypeOK, reseauVars
<1>7. ASSUME EcouterSansSuite \/ Reabonner \/ Couper \/ Reconnecter PROVE FileInv'
  <2>1. ennuis' \in 0..MaxEnnuis
    <3>1. ennuis' = ennuis \/ (ennuis < MaxEnnuis /\ ennuis' = ennuis + 1)
      BY <1>7 DEF EcouterSansSuite, Reabonner, Couper, Reconnecter
    <3>2. ennuis \in 0..MaxEnnuis /\ MaxEnnuis \in Nat
      BY <1>0, FileAssumption DEF FileTypeOK
    <3> QED BY <3>1, <3>2
  <2>2. avis' \in BOOLEAN /\ horsLigne' \in BOOLEAN /\ connecte' \in BOOLEAN
    <3>1. avis \in BOOLEAN /\ horsLigne \in BOOLEAN /\ connecte \in BOOLEAN
      BY <1>0 DEF FileTypeOK
    <3>2. CASE EcouterSansSuite
      <4>1. avis' = FALSE /\ connecte' = connecte
        BY <3>2 DEF EcouterSansSuite
      <4>2. horsLigne' \in BOOLEAN
        BY <3>1, <3>2 DEF EcouterSansSuite
      <4> QED BY <3>1, <4>1, <4>2
    <3>3. CASE Reabonner \/ Couper \/ Reconnecter
      <4>1. avis' = TRUE /\ horsLigne' = horsLigne /\ connecte' \in {connecte, TRUE, FALSE}
        BY <3>3 DEF Reabonner, Couper, Reconnecter
      <4> QED BY <3>1, <4>1
    <3> QED BY <1>7, <3>2, <3>3
  <2>3. /\ UNCHANGED <<attente, tentees, envoi, reste, compteur>>
        /\ abonne' \in {abonne, compteur} /\ oublies' \in {oublies, {}}
    BY <1>7 DEF EcouterSansSuite, Reabonner, Couper, Reconnecter
  <2> QED BY <1>0, <2>1, <2>2, <2>3 DEF FileInv, FileTypeOK
<1>8. ASSUME FileArret PROVE FileInv'
  <2>. DEFINE Arretee(e) == IF e \in Saisies /\ envoi[e].pc # "repos"
                            THEN [envoi[e] EXCEPT !.pc = "fini"] ELSE [tx |-> Rien, pc |-> "repos"]
  <2>1. ASSUME NEW e \in Flots
        PROVE  /\ Arretee(e) \in [tx: Saisies \cup {Rien},
                                  pc: {"repos", "debut", "boucle", "saisie", "vol", "fini"}]
               /\ Arretee(e).pc \notin {"saisie", "vol"}
    <3>1. envoi[e] \in [tx: Saisies \cup {Rien},
                        pc: {"repos", "debut", "boucle", "saisie", "vol", "fini"}]
      BY <1>0 DEF FileTypeOK
    <3> QED BY <3>1
  <2>2. envoi' = [e \in Flots |-> Arretee(e)]
    BY <1>8 DEF FileArret
  <2> HIDE DEF Arretee
  <2>3. /\ envoi' \in [Flots -> [tx: Saisies \cup {Rien},
                                 pc: {"repos", "debut", "boucle", "saisie", "vol", "fini"}]]
        /\ \A d \in Flots : envoi'[d].pc \notin {"saisie", "vol"}
    BY <2>1, <2>2
  <2>4. ennuis' \in 0..MaxEnnuis
    BY <1>0, <1>8, FileAssumption DEF FileArret, FileTypeOK
  <2> QED BY <1>0, <1>8, <2>3, <2>4 DEF FileArret, FileInv, FileTypeOK
<1>9. CASE UNCHANGED <<fileVars, arrets>>
  BY <1>9, FileCalme
<1> QED BY <1>1, <1>2, <1>3, <1>4, <1>5, <1>6, <1>7, <1>8, <1>9 DEF FileNext, FluxEtape
=============================================================================
