--------------------------- MODULE AnnexesProofs ---------------------------
(***************************************************************************)
(* Theorems about the registers kept beside the transactions, for every    *)
(* set of calls, every amount, every threshold and any number of restarts: *)
(* the replenishment requests, the till, the stock, the closing of a       *)
(* fiscal year, the circuit breaker of an operator and the e-mail          *)
(* campaigns, each alone; then all of them as the behaviours of Annexes    *)
(* exercise them, with the deliveries and the offline queue of             *)
(* EnvoisProofs.                                                           *)
(***************************************************************************)
EXTENDS Annexes, EnvoisProofs, Sommes

(* The replenishment requests *)

(* A call that has approved a row and credits it, or has credited it.      *)
Engagee(c) == rechJob[c].pc \in {"decide", "compte"} \/ credits[c].cible # Rien

(* The stages of a call; a movement is that of the call that recorded it.  *)
RechEtats ==
  /\ \A c \in Appels : credits[c].cible # Rien =>
       /\ rechJob[c].pc = "fini"
       /\ credits[c].cible = rechJob[c].cible /\ credits[c].montant = rechJob[c].montant
  /\ \A c \in Appels : credits[c].cible = Rien => credits[c].montant = 0
  /\ \A c \in Appels : rechJob[c].pc \in {"lu", "decide", "compte"} => rechJob[c].cible \in Appels
  /\ \A c \in Appels : rechJob[c].pc = "lu" =>
       rechJob[c].vu = "PENDING" /\ demandes[rechJob[c].cible].statut # "ABSENTE"
  /\ \A c \in Appels : rechJob[c].pc = "repos" =>
       rechJob[c].cible = Rien /\ c \notin depassees /\ demandes[c].statut = "ABSENTE"

(* No decision about row d was written over a decision it had not read.    *)
Seules(d) == \A c \in depassees : rechJob[c].cible # d

(* Then one call at most credits the account for it, by the amount it      *)
(* approved, and it is APPROVED by such a call, or by one a restart lost.  *)
Jugee(d) ==
  /\ \A c \in Appels : rechJob[c].cible = d /\ Engagee(c) =>
       demandes[d].statut = "APPROVED" /\ rechJob[c].montant = demandes[d].approuve
  /\ \A b, c \in Appels :
       rechJob[b].cible = d /\ rechJob[c].cible = d /\ Engagee(b) /\ Engagee(c) => b = c
  /\ demandes[d].statut = "APPROVED" =>
       \E c \in Appels : rechJob[c].cible = d /\ (Engagee(c) \/ rechJob[c].pc = "perdu")

RechInv ==
  /\ RechTypeOK
  /\ RechEtats
  /\ \A d \in Appels : Seules(d) => Jugee(d)
  /\ soldeCompte = SoldeDepart + Enregistres

LEMMA RechDebut == RechInit => RechInv
<1> SUFFICES ASSUME RechInit PROVE RechInv
  OBVIOUS
<1>1. \A c \in Appels : /\ rechJob[c].pc = "repos" /\ rechJob[c].cible = Rien
                        /\ demandes[c].statut = "ABSENTE"
                        /\ credits[c].cible = Rien /\ credits[c].montant = 0
  BY DEF RechInit, PasDeDemande, PasDeCredit
<1>2. RechTypeOK
  BY ReplenishmentAssumption DEF RechInit, RechTypeOK, JobDemande, PasDeDemande, PasDeCredit
<1>3. RechEtats /\ \A d \in Appels : Jugee(d)
  BY <1>1 DEF RechInit, RechEtats, Jugee, Engagee
<1>4. Enregistres = 0
  BY <1>1, AppelsAssumption, SommeNulle DEF Enregistres
<1>5. soldeCompte = SoldeDepart + Enregistres
  BY <1>4, ReplenishmentAssumption DEF RechInit
<1> QED BY <1>2, <1>3, <1>5 DEF RechInv

(* A step of call c that records no credit, engages no call that was not,  *)
(* and leaves the decisions alone, or takes them where the row is alone.   *)
LEMMA RechCadre ==
  ASSUME RechInv, RechTypeOK', RechEtats', UNCHANGED <<soldeCompte, credits>>,
         \A d \in Appels : Seules(d)' => Seules(d) /\ (Jugee(d) => Jugee(d)')
  PROVE  RechInv'
BY DEF RechInv, Enregistres

(* The decisions and what the calls have engaged are the same after as     *)
(* before, but for what a restart loses.                                   *)
LEMMA RechMemes ==
  ASSUME RechTypeOK, UNCHANGED <<demandes, depassees>>,
         \A b \in Appels : /\ rechJob'[b].cible = rechJob[b].cible
                           /\ rechJob'[b].montant = rechJob[b].montant
                           /\ Engagee(b)' => Engagee(b)
                           /\ Engagee(b) => Engagee(b)' \/ rechJob'[b].pc = "perdu"
                           /\ rechJob[b].pc = "perdu" => rechJob'[b].pc = "perdu"
  PROVE  \A d \in Appels : (Seules(d)' => Seules(d)) /\ (Jugee(d) => Jugee(d)')
<1>1. \A d \in Appels : Seules(d)' => Seules(d)
  BY DEF Seules, RechTypeOK
<1>2. \A d \in Appels : Jugee(d) => Jugee(d)'
  BY DEF Jugee
<1> QED BY <1>1, <1>2

LEMMA RechInserer ==
  ASSUME RechInv, NEW c \in Appels, NEW q \in Quantites,
         Demander(c, q) \/ DemanderApprouvee(c, q)
  PROVE  RechInv'
<1>1. PICK s \in {"PENDING", "APPROVED"}, m \in {0, q}, pc \in {"fini", "decide"} :
        /\ demandes' = [demandes EXCEPT ![c] = Demande(s, q, m)]
        /\ rechJob' = [rechJob EXCEPT ![c] = [op |-> "demander", cible |-> c, vu |-> "ABSENTE",
                                              montant |-> q, avant |-> 0, pc |-> pc]]
        /\ \/ s = "PENDING" /\ pc = "fini"
           \/ s = "APPROVED" /\ pc = "decide" /\ m = q
  BY DEF Demander, DemanderApprouvee, RechCommencer
<1>2. /\ rechJob[c].pc = "repos" /\ UNCHANGED <<soldeCompte, credits, depassees>>
  BY DEF Demander, DemanderApprouvee, RechCommencer
<1>3. /\ demandes'[c].statut = s /\ demandes'[c].approuve = m
      /\ rechJob'[c].cible = c /\ rechJob'[c].pc = pc /\ rechJob'[c].montant = q
      /\ \A d \in Appels \ {c} : demandes'[d] = demandes[d] /\ rechJob'[d] = rechJob[d]
  BY <1>1 DEF RechInv, RechTypeOK, Demande
<1>4. RechTypeOK'
  BY <1>1, <1>2 DEF RechInv, RechTypeOK, Demande, StatutsDemande, JobDemande
<1>5. RechEtats'
  BY <1>2, <1>3 DEF RechInv, RechEtats
<1>6. /\ demandes[c].statut = "ABSENTE" /\ c \notin depassees /\ credits[c].cible = Rien
      /\ depassees \subseteq Appels /\ rechJob[c].cible = Rien
  BY <1>2 DEF RechInv, RechEtats, RechTypeOK
<1>7. \A d \in Appels : Seules(d)' => Seules(d)
  BY <1>2, <1>3, <1>6 DEF Seules
<1>8. \A d \in Appels \ {c} : Jugee(d) => Jugee(d)'
  BY <1>2, <1>3, <1>6, AppelsAssumption DEF Jugee, Engagee
<1>9. Jugee(c) => Jugee(c)'
  BY <1>1, <1>2, <1>3, <1>6 DEF Jugee, Engagee
<1> QED BY <1>2, <1>4, <1>5, <1>7, <1>8, <1>9, RechCadre

LEMMA RechLire ==
  ASSUME RechInv, NEW c \in Appels, NEW d \in Appels, NEW op \in {"approuver", "rejeter"},
         NEW q \in Quantites \cup {0}, LireDemande(c, op, d, q)
  PROVE  RechInv'
<1>1. /\ rechJob[c].pc = "repos" /\ demandes[d].statut = "PENDING"
      /\ rechJob' = [rechJob EXCEPT ![c] = [op |-> op, cible |-> d, vu |-> "PENDING",
                                            montant |-> q, avant |-> 0, pc |-> "lu"]]
      /\ UNCHANGED <<demandes, soldeCompte, credits, depassees>>
  BY DEF LireDemande, RechCommencer
<1>2. /\ rechJob'[c].cible = d /\ rechJob'[c].pc = "lu" /\ rechJob'[c].vu = "PENDING"
      /\ \A b \in Appels \ {c} : rechJob'[b] = rechJob[b]
  BY <1>1 DEF RechInv, RechTypeOK
<1>3. RechTypeOK'
  BY <1>1 DEF RechInv, RechTypeOK, StatutsDemande, JobDemande
<1>4. RechEtats'
  BY <1>1, <1>2 DEF RechInv, RechEtats
<1>5. c \notin depassees /\ depassees \subseteq Appels /\ credits[c].cible = Rien /\ rechJob[c].cible = Rien
  BY <1>1 DEF RechInv, RechEtats, RechTypeOK
<1>6. \A e \in Appels : Seules(e)' => Seules(e)
  BY <1>1, <1>2, <1>5 DEF Seules
<1>7. \A e \in Appels : Jugee(e) => Jugee(e)'
  BY <1>1, <1>2, <1>5, AppelsAssumption DEF Jugee, Engagee
<1> QED BY <1>1, <1>3, <1>4, <1>6, <1>7, RechCadre

LEMMA RechDecider ==
  ASSUME RechInv, NEW c \in Appels, NEW d \in Appels, Approuver(c, d) \/ RejeterDemande(c, d)
  PROVE  RechInv'
<1>1. PICK s \in {"APPROVED", "REJECTED"}, pc \in {"decide", "fini"} :
        /\ \/ demandes' = [demandes EXCEPT ![d].statut = s, ![d].approuve = rechJob[c].montant]
           \/ s = "REJECTED" /\ demandes' = [demandes EXCEPT ![d].statut = s]
        /\ rechJob' = [rechJob EXCEPT ![c].pc = pc]
        /\ s = "APPROVED" <=> pc = "decide"
  BY DEF Approuver, RejeterDemande, RechPasse
<1>2. /\ rechJob[c].pc = "lu" /\ rechJob[c].cible = d /\ rechJob[c].vu = "PENDING"
      /\ UNCHANGED <<soldeCompte, credits>>
      /\ depassees' = Depassee(c, d)
  BY DEF Approuver, RejeterDemande, RechPasse, RechInv, RechEtats
<1>3. /\ demandes'[d].statut = s
      /\ s = "APPROVED" => demandes'[d].approuve = rechJob[c].montant
      /\ \A e \in Appels \ {d} : demandes'[e] = demandes[e]
  BY <1>1 DEF RechInv, RechTypeOK
<1>4. /\ rechJob'[c].cible = d /\ rechJob'[c].pc = pc /\ rechJob'[c].montant = rechJob[c].montant
      /\ \A b \in Appels \ {c} : rechJob'[b] = rechJob[b]
  BY <1>1, <1>2 DEF RechInv, RechTypeOK, JobDemande
<1>5. RechTypeOK'
  <2>1. rechJob[c].montant \in Quantites \cup {0}
    BY DEF RechInv, RechTypeOK, JobDemande
  <2>2. depassees' \subseteq Appels
    BY <1>2 DEF Depassee, RechInv, RechTypeOK
  <2>3. demandes' \in [Appels -> [statut: StatutsDemande \cup {"ABSENTE"},
                              demande: Quantites \cup {0}, approuve: Quantites \cup {0}]]
    BY <1>1, <2>1 DEF RechInv, RechTypeOK, StatutsDemande
  <2>4. rechJob' \in [Appels -> JobDemande]
    BY <1>1 DEF RechInv, RechTypeOK, JobDemande
  <2> QED BY <1>2, <2>2, <2>3, <2>4 DEF RechInv, RechTypeOK
<1>6. RechEtats'
  <2>1. rechJob[d].pc # "repos"
    BY <1>2 DEF RechInv, RechEtats
  <2> QED BY <1>1, <1>2, <1>3, <1>4, <2>1 DEF RechInv, RechEtats, Depassee
<1>7. \A e \in Appels : Seules(e)' => Seules(e)
  BY <1>2, <1>4 DEF Seules, Depassee, RechInv, RechTypeOK
<1>8. Seules(d)' => demandes[d].statut = "PENDING"
  BY <1>2, <1>4 DEF Seules, Depassee
<1>9. \A e \in Appels \ {d} : Jugee(e) => Jugee(e)'
  BY <1>2, <1>3, <1>4 DEF Jugee, Engagee
<1>10. Seules(d)' /\ Jugee(d) => Jugee(d)'
  BY <1>1, <1>2, <1>3, <1>4, <1>8 DEF Jugee, Engagee
<1> QED BY <1>2, <1>5, <1>6, <1>7, <1>9, <1>10, RechCadre

LEMMA RechLireCompte ==
  ASSUME RechInv, NEW c \in Appels, LireCompte(c)
  PROVE  RechInv'
<1>1. /\ rechJob[c].pc = "decide" /\ rechJob'[c].pc = "compte"
      /\ rechJob'[c].cible = rechJob[c].cible /\ rechJob'[c].montant = rechJob[c].montant
      /\ \A b \in Appels \ {c} : rechJob'[b] = rechJob[b]
      /\ UNCHANGED <<demandes, soldeCompte, credits, depassees>>
  BY DEF LireCompte, RechInv, RechTypeOK, JobDemande
<1>2. RechTypeOK'
  <2>1. rechJob' = [rechJob EXCEPT ![c].pc = "compte", ![c].avant = soldeCompte]
    BY DEF LireCompte
  <2>2. \A b \in Appels : rechJob[b] \in JobDemande
    BY DEF RechInv, RechTypeOK
  <2>3. [rechJob[c] EXCEPT !.pc = "compte", !.avant = soldeCompte] \in JobDemande
    BY <2>2 DEF RechInv, RechTypeOK, JobDemande
  <2>4. rechJob' = [rechJob EXCEPT ![c] = [rechJob[c] EXCEPT !.pc = "compte", !.avant = soldeCompte]]
    BY <2>1 DEF RechInv, RechTypeOK
  <2>5. rechJob' \in [Appels -> JobDemande]
    BY <2>3, <2>4 DEF RechInv, RechTypeOK
  <2> QED BY <1>1, <2>5 DEF RechInv, RechTypeOK
<1>3. RechEtats'
  BY <1>1 DEF RechInv, RechEtats
<1>4. \A b \in Appels : rechJob'[b].cible = rechJob[b].cible /\ (Engagee(b)' <=> Engagee(b))
  BY <1>1 DEF Engagee
<1>5. \A b \in Appels : /\ rechJob'[b].montant = rechJob[b].montant
                        /\ rechJob'[b].pc = "perdu" <=> rechJob[b].pc = "perdu"
  BY <1>1
<1>6. \A d \in Appels : (Seules(d)' => Seules(d)) /\ (Jugee(d) => Jugee(d)')
  BY <1>1, <1>4, <1>5, RechMemes DEF RechInv
<1> QED BY <1>1, <1>2, <1>3, <1>6, RechCadre

LEMMA RechCrediter ==
  ASSUME RechInv, NEW c \in Appels, Crediter(c)
  PROVE  RechInv'
<1> DEFINE m == rechJob[c].montant
           f == [b \in Appels |-> credits[b].montant]
           h == [b \in Appels |-> credits'[b].montant]
<1>1. /\ rechJob[c].pc = "compte" /\ rechJob'[c].pc = "fini"
      /\ rechJob'[c].cible = rechJob[c].cible /\ rechJob'[c].montant = m
      /\ \A b \in Appels \ {c} : rechJob'[b] = rechJob[b]
      /\ rechJob[c].cible \in Appels /\ m \in Quantites \cup {0} /\ rechJob[c].avant \in Int
      /\ UNCHANGED <<demandes, depassees>>
  BY DEF Crediter, RechPasse, RechInv, RechTypeOK, RechEtats, JobDemande
<1>2. m \in Int /\ \A q \in Quantites \cup {0} : q \in Int
  <2>1. \A q \in Quantites \cup {0} : q \in Int
    BY AppelsAssumption
  <2> QED BY <1>1, <2>1
<1>3. /\ credits'[c].cible = rechJob[c].cible /\ credits'[c].montant = m
      /\ \A b \in Appels \ {c} : credits'[b] = credits[b]
      /\ credits[c].montant = 0
  BY <1>1 DEF Crediter, Credit, RechInv, RechTypeOK, RechEtats
<1>4. RechTypeOK'
  <2>1. Credit(c) \in [cible: Appels \cup {Rien}, montant: Quantites \cup {0}, avant: Int, apres: Int]
    BY <1>1, <1>2 DEF Credit
  <2>2. rechJob' \in [Appels -> JobDemande]
    BY DEF Crediter, RechPasse, RechInv, RechTypeOK, JobDemande
  <2>3. soldeCompte' \in Int
    BY <1>2 DEF Crediter, RechInv, RechTypeOK
  <2> QED BY <1>1, <2>1, <2>2, <2>3 DEF Crediter, RechInv, RechTypeOK
<1>5. RechEtats'
  BY <1>1, <1>3, AppelsAssumption DEF RechInv, RechEtats
<1>6. \A d \in Appels : (Seules(d)' => Seules(d)) /\ (Jugee(d) => Jugee(d)')
  <2>1. \A b \in Appels : Engagee(b)' <=> Engagee(b)
    BY <1>1, <1>3, AppelsAssumption DEF Engagee
  <2>2. \A b \in Appels : /\ rechJob'[b].cible = rechJob[b].cible
                          /\ rechJob'[b].montant = rechJob[b].montant
                          /\ rechJob'[b].pc = "perdu" <=> rechJob[b].pc = "perdu"
    BY <1>1
  <2> QED BY <1>1, <2>1, <2>2, RechMemes DEF RechInv
<1>7. soldeCompte' = SoldeDepart + Enregistres'
  <2>1. \A b \in Appels : credits[b].montant \in Int
    BY <1>2 DEF RechInv, RechTypeOK
  <2>2. \A b \in Appels : f[b] \in Int /\ h[b] \in Int
    BY <1>2, <1>3, <2>1
  <2>3. \A b \in Appels \ {c} : f[b] = h[b]
    BY <1>3
  <2>4. f[c] = 0 /\ h[c] = m
    BY <1>3
  <2>5. SumFunctionOnSet(h, Appels) = SumFunctionOnSet(f, Appels) + (h[c] - f[c])
    <3> HIDE DEF f, h
    <3>1. IsFiniteSet(Appels)
      BY AppelsAssumption
    <3> QED BY <3>1, <2>2, <2>3, SommeChange
  <2>6. Enregistres \in Int
    BY <2>2, AppelsAssumption, SommeType DEF Enregistres
  <2>7. Enregistres' = Enregistres + (m - 0)
    BY <2>4, <2>5 DEF Enregistres
  <2> DEFINE s == Enregistres
             u == Enregistres'
  <2>8. /\ u = s + (m - 0) /\ s \in Int /\ m \in Int
        /\ soldeCompte = SoldeDepart + s /\ soldeCompte' = soldeCompte + m
    BY <1>2, <2>6, <2>7 DEF Crediter, RechInv
  <2> HIDE DEF s, u, m
  <2>9. soldeCompte' = SoldeDepart + u
    BY <2>8, ReplenishmentAssumption
  <2> QED BY <2>9 DEF u
<1> QED BY <1>4, <1>5, <1>6, <1>7 DEF RechInv

LEMMA RechPerdre ==
  ASSUME RechInv, RechArret
  PROVE  RechInv'
<1>1. /\ UNCHANGED <<demandes, soldeCompte, credits, depassees>>
      /\ \A c \in Appels : /\ rechJob'[c].cible = rechJob[c].cible
                           /\ rechJob'[c].montant = rechJob[c].montant
                           /\ rechJob'[c].vu = rechJob[c].vu
                           /\ \/ rechJob'[c].pc = rechJob[c].pc
                              \/ /\ rechJob[c].pc # "repos" /\ rechJob[c].pc # "fini"
                                 /\ rechJob'[c].pc = "perdu"
  BY DEF RechArret, Interrompu, RechInv, RechTypeOK, JobDemande
<1>2. RechTypeOK'
  <2>1. \A c \in Appels : [rechJob[c] EXCEPT !.pc = Interrompu(@)] \in JobDemande
    BY DEF Interrompu, RechInv, RechTypeOK, JobDemande
  <2>2. rechJob' \in [Appels -> JobDemande]
    BY <2>1 DEF RechArret
  <2> QED BY <1>1, <2>2 DEF RechInv, RechTypeOK
<1>3. RechEtats'
  BY <1>1 DEF RechInv, RechEtats
<1>4. \A d \in Appels : (Seules(d)' => Seules(d)) /\ (Jugee(d) => Jugee(d)')
  <2>1. \A b \in Appels : /\ Engagee(b)' => Engagee(b)
                          /\ Engagee(b) => Engagee(b)' \/ rechJob'[b].pc = "perdu"
                          /\ rechJob[b].pc = "perdu" => rechJob'[b].pc = "perdu"
    BY <1>1 DEF Engagee
  <2> QED BY <1>1, <2>1, RechMemes DEF RechInv
<1> QED BY <1>1, <1>2, <1>3, <1>4, RechCadre

LEMMA RechCalme == RechInv /\ UNCHANGED rechVars => RechInv'
BY DEF rechVars, RechInv, RechTypeOK, RechEtats, Seules, Jugee, Engagee, Enregistres

LEMMA RechPas == RechInv /\ [RechNext]_<<rechVars, arrets>> => RechInv'
<1> SUFFICES ASSUME RechInv, [RechNext]_<<rechVars, arrets>> PROVE RechInv'
  OBVIOUS
<1>1. CASE UNCHANGED rechVars
  BY <1>1, RechCalme
<1> QED BY <1>1, RechInserer, RechLire, RechDecider, RechLireCompte, RechCrediter, RechPerdre
        DEF RechNext, RechEtape, rechVars

(* The requests whose calls are over.                                      *)
LEMMA RechRegles == RechInv => RechargeExacte
<1> SUFFICES ASSUME RechInv, NEW d \in Appels, DemandeReglee(d), Seules(d)
             PROVE  /\ {credits[c].montant : c \in CreditsDe(d)} =
                         (IF demandes[d].statut = "APPROVED" THEN {demandes[d].approuve} ELSE {})
                    /\ Cardinality(CreditsDe(d)) <= 1
  BY DEF RechInv, RechargeExacte, Seules
<1>1. Jugee(d)
  BY DEF RechInv
<1>2. \A c \in CreditsDe(d) : /\ c \in Appels /\ rechJob[c].cible = d /\ Engagee(c)
                              /\ credits[c].montant = rechJob[c].montant
  BY AppelsAssumption DEF CreditsDe, Engagee, RechInv, RechEtats
<1>3. \A c \in Appels : rechJob[c].cible = d /\ Engagee(c) => c \in CreditsDe(d)
  BY DEF DemandeReglee, CreditsDe, Engagee, RechInv, RechEtats
<1>4. demandes[d].statut = "APPROVED" => CreditsDe(d) # {}
  BY <1>1, <1>3 DEF Jugee, DemandeReglee
<1>5. \A b, c \in CreditsDe(d) : b = c
  BY <1>1, <1>2 DEF Jugee
<1>6. CASE CreditsDe(d) = {}
  <2>1. Cardinality(CreditsDe(d)) = 0
    BY <1>6, FS_EmptySet
  <2> QED BY <1>4, <1>6, <2>1
<1>7. CASE CreditsDe(d) # {}
  <2>1. PICK c : CreditsDe(d) = {c}
    BY <1>5, <1>7
  <2>2. Cardinality(CreditsDe(d)) = 1
    BY <2>1, FS_Singleton
  <2>3. demandes[d].statut = "APPROVED" /\ credits[c].montant = demandes[d].approuve
    BY <1>1, <1>2, <2>1 DEF Jugee
  <2> QED BY <2>1, <2>2, <2>3
<1> QED BY <1>6, <1>7

(* The balance of the account is the opening one plus the credits, however *)
(* the approvals overlap and wherever a restart stops them; and a request  *)
(* on which no decision was written over another has credited it once, by  *)
(* the amount approved, if it is APPROVED, and never otherwise.            *)
THEOREM RechargesExactes == RechSpec => []RechargeExacte
<1>1. RechInv => RechargeExacte
  BY RechRegles
<1> QED BY <1>1, RechDebut, RechPas, PTL DEF RechSpec
-----------------------------------------------------------------------------
(* The tills *)

(* A till is opened with no less than zero.                                *)
CaisseInv ==
  /\ CaisseTypeOK
  /\ \A c \in Appels : caisseJob[c].op = "ouverture" => caisseJob[c].montant \in Nat
  /\ CaisseExacte

Ecritures == [appel: Appels, montant: Int, avant: Int, apres: Int]

(* The sum of the entries.                                                 *)
Total(es) == SumFunctionOnSet([i \in DOMAIN es |-> es[i].montant], DOMAIN es)

LEMMA TotalVide == Total(<<>>) = 0
<1> DEFINE f == [i \in DOMAIN <<>> |-> <<>>[i].montant]
<1>1. DOMAIN <<>> = {}
  OBVIOUS
<1> HIDE DEF f
<1>2. SumFunctionOnSet(f, {}) = 0
  BY SommeVide
<1> QED BY <1>1, <1>2 DEF Total, f

LEMMA TotalAjout ==
  ASSUME NEW es \in Seq(Ecritures), NEW e \in Ecritures
  PROVE  /\ Total(es) \in Int
         /\ Total(Append(es, e)) = Total(es) + e.montant
<1> DEFINE n == Len(es)
           t == Append(es, e)
           f == [i \in 1..n |-> es[i].montant]
           h == [i \in 1..(n + 1) |-> t[i].montant]
<1>1. n \in Nat /\ DOMAIN es = 1..n /\ DOMAIN t = 1..(n + 1)
  OBVIOUS
<1>2. t[n + 1] = e /\ \A i \in 1..n : t[i] = es[i] /\ es[i] \in Ecritures
  OBVIOUS
<1> HIDE DEF t, n
<1>3. \A i \in 1..n : f[i] \in Int /\ f[i] = h[i]
  <2>1. \A i \in 1..n : i \in 1..(n + 1)
    BY <1>1
  <2>2. \A i \in 1..n : es[i].montant \in Int
    BY <1>2 DEF Ecritures
  <2> QED BY <1>2, <2>1, <2>2
<1>4. h[n + 1] = e.montant /\ e.montant \in Int
  BY <1>1, <1>2 DEF Ecritures
<1>5. Total(es) = SumFunctionOnSet(f, 1..n) /\ Total(t) = SumFunctionOnSet(h, 1..(n + 1))
  BY <1>1 DEF Total
<1> HIDE DEF f, h
<1>6. SumFunctionOnSet(h, 1..(n + 1)) = SumFunctionOnSet(f, 1..n) + h[n + 1]
  BY <1>1, <1>3, <1>4, SommeSuite
<1>7. IsFiniteSet(1..n)
  BY <1>1, FS_Interval
<1>8. SumFunctionOnSet(f, 1..n) \in Int
  BY <1>3, <1>7, SommeType
<1> QED BY <1>4, <1>5, <1>6, <1>8 DEF t

LEMMA CaisseDebut == CaisseInit => CaisseInv
<1> SUFFICES ASSUME CaisseInit PROVE CaisseInv
  OBVIOUS
<1>1. CaisseTypeOK
  <2>1. <<>> \in Seq(Ecritures) /\ <<>> \in Seq([appel: Appels, ecart: Int])
    OBVIOUS
  <2> QED BY <2>1 DEF CaisseInit, CaisseTypeOK, JobCaisse, Ecritures
<1>2. Encaisse(ecritures) = 0
  BY TotalVide DEF CaisseInit, Encaisse, Total
<1>3. Len(ecritures) = 0
  BY DEF CaisseInit
<1> QED BY <1>1, <1>2, <1>3 DEF CaisseInit, CaisseInv, CaisseExacte, SoldeCourant

(* A step that writes no entry.                                            *)
LEMMA CaisseCadre ==
  ASSUME CaisseInv, CaisseTypeOK', UNCHANGED ecritures,
         decales \subseteq decales',
         \A c \in Appels : caisseJob'[c].op = "ouverture" => caisseJob'[c].montant \in Nat
  PROVE  CaisseInv'
<1>1. Total(<<>>) = 0
  BY TotalVide
<1>2. decales' = {} => SoldeCourant(caisse)' = Encaisse(ecritures)'
  <2>1. CASE ecritures = <<>>
    BY <1>1, <2>1 DEF SoldeCourant, Encaisse, Total, CaisseTypeOK
  <2>2. CASE ecritures # <<>>
    BY <2>2 DEF CaisseInv, CaisseExacte, SoldeCourant, Encaisse
  <2> QED BY <2>1, <2>2
<1> QED BY <1>2 DEF CaisseInv, CaisseExacte

LEMMA CaisseAjouter ==
  ASSUME CaisseInv, NEW c \in Appels, AjouterEcriture(c)
  PROVE  CaisseInv'
<1> DEFINE j == caisseJob[c]
           e == [appel |-> c, montant |-> j.montant, avant |-> j.solde,
                 apres |-> j.solde + j.montant]
           n == Len(ecritures)
<1>1. /\ ecritures' = Append(ecritures, e) /\ decales' = Decale(c)
      /\ caisseJob' = [caisseJob EXCEPT ![c].pc = "fini"]
      /\ UNCHANGED <<caisse, clotures>>
  BY DEF AjouterEcriture, CaissePasse
<1>2. j.solde \in Int /\ j.montant \in Int
  BY DEF CaisseInv, CaisseTypeOK, JobCaisse
<1>3. /\ e \in Ecritures /\ e.appel = c /\ e.avant = j.solde /\ e.montant = j.montant
      /\ e.apres = j.solde + j.montant
  BY <1>2 DEF Ecritures
<1>4. ecritures \in Seq(Ecritures) /\ n \in Nat
  BY DEF CaisseInv, CaisseTypeOK, Ecritures
<1> HIDE DEF e, j
<1>5. /\ ecritures' \in Seq(Ecritures) /\ Len(ecritures') = n + 1 /\ ecritures' # <<>>
      /\ ecritures'[n + 1] = e /\ \A i \in 1..n : ecritures'[i] = ecritures[i]
  BY <1>1, <1>3, <1>4
<1>6. Last(ecritures') = e /\ (n # 0 => Last(ecritures) = ecritures[n])
  BY <1>4, <1>5 DEF Last
<1>7. (ecritures = <<>>) <=> n = 0
  BY <1>4
<1>8. decales \subseteq decales' /\ decales' \subseteq Appels
  BY <1>1 DEF Decale, CaisseInv, CaisseTypeOK
<1>9. c \notin decales' => j.solde = SoldeCourant(caisse)
  BY <1>1 DEF Decale, j
<1>10. CaisseTypeOK'
  <2>1. [caisseJob[c] EXCEPT !.pc = "fini"] \in JobCaisse
    BY DEF CaisseInv, CaisseTypeOK, JobCaisse
  <2>2. caisseJob' \in [Appels -> JobCaisse]
    BY <1>1, <2>1 DEF CaisseInv, CaisseTypeOK
  <2> QED BY <1>1, <1>5, <1>8, <2>2 DEF CaisseInv, CaisseTypeOK, Ecritures
<1>11. \A i \in 2..Len(ecritures') :
         ecritures'[i].appel \in decales' \/ ecritures'[i].avant = ecritures'[i - 1].apres
  <2>1. CASE n # 0
    <3>1. e.appel \in decales' \/ e.avant = ecritures[n].apres
      BY <1>3, <1>6, <1>7, <1>9, <2>1 DEF SoldeCourant
    <3>2. n \in 1..n /\ ecritures'[n] = ecritures[n]
      BY <1>4, <1>5, <2>1
    <3>3. ASSUME NEW i \in 2..n
          PROVE  ecritures'[i].appel \in decales' \/ ecritures'[i].avant = ecritures'[i - 1].apres
      <4>1. i \in 1..n /\ i - 1 \in 1..n /\ i \in 2..Len(ecritures)
        BY <1>4
      <4> QED BY <1>5, <1>8, <4>1 DEF CaisseInv, CaisseExacte
    <3>4. \A i \in 2..(n + 1) : i \in 2..n \/ (i = n + 1 /\ i - 1 = n)
      BY <1>4
    <3> QED BY <1>5, <3>1, <3>2, <3>3, <3>4
  <2>2. CASE n = 0
    BY <1>5, <2>2
  <2> QED BY <2>1, <2>2
<1>12. decales' = {} => SoldeCourant(caisse)' = Encaisse(ecritures)'
  <2> SUFFICES ASSUME decales' = {} PROVE SoldeCourant(caisse)' = Encaisse(ecritures)'
    OBVIOUS
  <2>1. j.solde = SoldeCourant(caisse) /\ SoldeCourant(caisse) = Encaisse(ecritures)
    BY <1>8, <1>9 DEF CaisseInv, CaisseExacte
  <2>2. Total(ecritures) \in Int /\ Total(ecritures') = Total(ecritures) + j.montant
    BY <1>1, <1>3, <1>4, TotalAjout
  <2>3. SoldeCourant(caisse)' = j.solde + j.montant
    BY <1>3, <1>5, <1>6 DEF SoldeCourant
  <2>4. Encaisse(ecritures)' = ecritures'[1].avant + Total(ecritures')
    BY <1>5 DEF Encaisse, Total
  <2>5. CASE n = 0
    <3>1. ecritures = <<>> /\ ecritures'[1] = e
      BY <1>5, <1>7, <2>5
    <3>2. Total(ecritures) = 0
      BY <3>1, TotalVide
    <3>3. Encaisse(ecritures)' = j.solde + (0 + j.montant)
      BY <1>3, <2>2, <2>4, <3>1, <3>2
    <3> QED BY <1>2, <2>3, <3>3 DEF j
  <2>6. CASE n # 0
    <3>1. ecritures # <<>> /\ 1 \in 1..n
      BY <1>4, <1>7, <2>6
    <3>2. ecritures'[1] = ecritures[1] /\ ecritures[1].avant \in Int
      <4>1. ecritures[1] \in Ecritures
        BY <1>4, <3>1
      <4> QED BY <1>5, <3>1, <4>1 DEF Ecritures
    <3>3. j.solde = ecritures[1].avant + Total(ecritures)
      BY <2>1, <3>1 DEF Encaisse, Total
    <3>4. Encaisse(ecritures)' = ecritures[1].avant + (Total(ecritures) + j.montant)
      BY <2>2, <2>4, <3>2
    <3>5. j.montant \in Int /\ j.solde \in Int
      BY <1>2 DEF j
    <3> QED BY <2>2, <2>3, <3>2, <3>3, <3>4, <3>5
  <2> QED BY <2>5, <2>6
<1>13. \A b \in Appels : caisseJob'[b].op = "ouverture" => caisseJob'[b].montant \in Nat
  BY <1>1 DEF CaisseInv, CaisseTypeOK, JobCaisse
<1> QED BY <1>10, <1>11, <1>12, <1>13 DEF CaisseInv, CaisseExacte

LEMMA CaisseLire ==
  ASSUME CaisseInv, NEW c \in Appels,
         \/ \E q \in Quantites : \/ LireCaisse(c, "ecriture", q) \/ LireCaisse(c, "ecriture", 0 - q)
                                 \/ LireCaisse(c, "ouverture", q) \/ LireCaisse(c, "fermeture", q)
  PROVE  CaisseInv'
<1>1. PICK op \in {"ecriture", "ouverture", "fermeture"}, m \in Int :
        LireCaisse(c, op, m) /\ (op = "ouverture" => m \in Nat)
  <2>1. \A q \in Quantites : q \in Nat /\ q \in Int /\ 0 - q \in Int
    BY AppelsAssumption
  <2> QED BY <2>1
<1> DEFINE j == [op |-> op, montant |-> m, solde |-> 0, caisse |-> caisse, pc |-> "caisse"]
<1>2. j \in JobCaisse /\ j.op = op /\ j.montant = m
  BY DEF JobCaisse, CaisseInv, CaisseTypeOK
<1>3. caisseJob' = [caisseJob EXCEPT ![c] = j] /\ UNCHANGED <<caisse, ecritures, clotures, decales>>
  BY <1>1 DEF LireCaisse
<1> HIDE DEF j
<1>4. CaisseTypeOK'
  BY <1>2, <1>3 DEF CaisseInv, CaisseTypeOK
<1>5. \A b \in Appels : caisseJob'[b].op = "ouverture" => caisseJob'[b].montant \in Nat
  BY <1>1, <1>2, <1>3 DEF CaisseInv, CaisseTypeOK
<1> QED BY <1>3, <1>4, <1>5, CaisseCadre

LEMMA CaisseLireSolde ==
  ASSUME CaisseInv, NEW c \in Appels, LireSolde(c)
  PROVE  CaisseInv'
<1> DEFINE s == SoldeCourant(caisseJob[c].caisse)
<1>1. s \in Int
  <2>1. caisseJob[c].caisse.ouverture \in Int
    BY DEF CaisseInv, CaisseTypeOK, JobCaisse
  <2>2. ecritures # <<>> => Last(ecritures).apres \in Int
    <3>1. ecritures \in Seq(Ecritures)
      BY DEF CaisseInv, CaisseTypeOK, Ecritures
    <3>2. ecritures # <<>> => Last(ecritures) \in Ecritures
      BY <3>1 DEF Last
    <3> QED BY <3>2 DEF Ecritures
  <2> QED BY <2>1, <2>2 DEF SoldeCourant
<1> HIDE DEF s
<1>2. caisseJob' = [caisseJob EXCEPT ![c].pc = "solde", ![c].solde = s]
      /\ UNCHANGED <<caisse, ecritures, clotures, decales>>
  BY DEF LireSolde, s
<1>3. [caisseJob[c] EXCEPT !.pc = "solde", !.solde = s] \in JobCaisse
  <2>1. caisseJob[c] \in JobCaisse
    BY DEF CaisseInv, CaisseTypeOK
  <2> QED BY <1>1, <2>1 DEF JobCaisse
<1>4. caisseJob' = [caisseJob EXCEPT ![c] = [caisseJob[c] EXCEPT !.pc = "solde", !.solde = s]]
  BY <1>2 DEF CaisseInv, CaisseTypeOK
<1>5. CaisseTypeOK'
  BY <1>2, <1>3, <1>4 DEF CaisseInv, CaisseTypeOK
<1>6. \A b \in Appels : caisseJob'[b].op = "ouverture" => caisseJob'[b].montant \in Nat
  BY <1>2 DEF CaisseInv, CaisseTypeOK, JobCaisse
<1> QED BY <1>2, <1>5, <1>6, CaisseCadre

LEMMA CaisseOuvrirFermer ==
  ASSUME CaisseInv, NEW c \in Appels,
         OuvrirCaisse(c) \/ OuvertureRefusee(c) \/ FermerCaisse(c) \/ Journaliser(c)
  PROVE  CaisseInv'
<1>1. /\ UNCHANGED ecritures
      /\ \E pc \in {"fini", "refuse", "ferme"} : caisseJob' = [caisseJob EXCEPT ![c].pc = pc]
  BY DEF OuvrirCaisse, OuvertureRefusee, FermerCaisse, Journaliser, CaissePasse
<1>2. caisseJob' \in [Appels -> JobCaisse]
  <2>1. \A b \in Appels : caisseJob[b] \in JobCaisse
    BY DEF CaisseInv, CaisseTypeOK
  <2>2. PICK pc \in {"fini", "refuse", "ferme"} : caisseJob' = [caisseJob EXCEPT ![c].pc = pc]
    BY <1>1
  <2>3. [caisseJob[c] EXCEPT !.pc = pc] \in JobCaisse
    BY <2>1 DEF JobCaisse
  <2>4. caisseJob' = [caisseJob EXCEPT ![c] = [caisseJob[c] EXCEPT !.pc = pc]]
    BY <2>2
  <2> QED BY <2>1, <2>3, <2>4 DEF CaisseInv, CaisseTypeOK
<1>3. caisse' \in [existe: BOOLEAN, ouverte: BOOLEAN, ouverture: Nat]
  <2>1. caisseJob[c].op = "ouverture" => caisseJob[c].montant \in Nat
    BY DEF CaisseInv
  <2>2. caisse \in [existe: BOOLEAN, ouverte: BOOLEAN, ouverture: Nat]
    BY DEF CaisseInv, CaisseTypeOK
  <2>3. CASE OuvrirCaisse(c)
    BY <2>1, <2>3 DEF OuvrirCaisse, CaissePasse
  <2>4. CASE OuvertureRefusee(c) \/ Journaliser(c)
    BY <2>2, <2>4 DEF OuvertureRefusee, Journaliser
  <2>5. CASE FermerCaisse(c)
    BY <2>2, <2>5 DEF FermerCaisse
  <2> QED BY <2>3, <2>4, <2>5
<1>4. clotures' \in Seq([appel: Appels, ecart: Int])
  <2>1. clotures \in Seq([appel: Appels, ecart: Int])
    BY DEF CaisseInv, CaisseTypeOK
  <2>2. caisseJob[c].montant \in Int /\ caisseJob[c].solde \in Int
    BY DEF CaisseInv, CaisseTypeOK, JobCaisse
  <2>3. [appel |-> c, ecart |-> caisseJob[c].montant - caisseJob[c].solde] \in [appel: Appels, ecart: Int]
    BY <2>2
  <2> DEFINE r == [appel |-> c, ecart |-> caisseJob[c].montant - caisseJob[c].solde]
  <2>4. clotures' = clotures \/ clotures' = Append(clotures, r)
    BY DEF OuvrirCaisse, OuvertureRefusee, FermerCaisse, Journaliser
  <2> HIDE DEF r
  <2>5. r \in [appel: Appels, ecart: Int]
    BY <2>3 DEF r
  <2> DEFINE T == [appel: Appels, ecart: Int]
  <2>6. clotures \in Seq(T) /\ r \in T
    BY <2>1, <2>5
  <2> HIDE DEF T
  <2>7. Append(clotures, r) \in Seq(T)
    BY <2>6
  <2>8. clotures' \in Seq(T)
    BY <2>4, <2>6, <2>7
  <2> QED BY <2>8 DEF T
<1>5. decales \subseteq decales' /\ decales' \subseteq Appels
  BY DEF OuvrirCaisse, OuvertureRefusee, FermerCaisse, Journaliser, Decale, CaisseInv, CaisseTypeOK
<1>6. CaisseTypeOK'
  BY <1>1, <1>2, <1>3, <1>4, <1>5 DEF CaisseInv, CaisseTypeOK
<1>7. \A b \in Appels : caisseJob'[b].op = "ouverture" => caisseJob'[b].montant \in Nat
  BY <1>1 DEF CaisseInv, CaisseTypeOK, JobCaisse
<1> QED BY <1>1, <1>5, <1>6, <1>7, CaisseCadre

LEMMA CaissePerdre ==
  ASSUME CaisseInv, CaisseArret
  PROVE  CaisseInv'
<1>1. UNCHANGED <<caisse, ecritures, clotures, decales>>
  BY DEF CaisseArret
<1>2. \A c \in Appels : [caisseJob[c] EXCEPT !.pc = Interrompu(@)] \in JobCaisse
  <2>1. \A c \in Appels : caisseJob[c] \in JobCaisse
    BY DEF CaisseInv, CaisseTypeOK
  <2> QED BY <2>1 DEF JobCaisse, Interrompu
<1>3. CaisseTypeOK'
  BY <1>1, <1>2 DEF CaisseArret, CaisseInv, CaisseTypeOK
<1>4. \A b \in Appels : caisseJob'[b].op = "ouverture" => caisseJob'[b].montant \in Nat
  <2>1. \A b \in Appels : caisseJob[b] \in JobCaisse
    BY DEF CaisseInv, CaisseTypeOK
  <2>2. \A b \in Appels : caisseJob'[b].op = caisseJob[b].op /\ caisseJob'[b].montant = caisseJob[b].montant
    BY <2>1 DEF CaisseArret, JobCaisse
  <2> QED BY <2>2 DEF CaisseInv
<1> QED BY <1>1, <1>3, <1>4, CaisseCadre

LEMMA CaisseCalme == CaisseInv /\ UNCHANGED caisseVars => CaisseInv'
BY DEF caisseVars, CaisseInv, CaisseTypeOK, CaisseExacte, SoldeCourant, Encaisse

LEMMA CaissePas == CaisseInv /\ [CaisseNext]_<<caisseVars, arrets>> => CaisseInv'
<1> SUFFICES ASSUME CaisseInv, [CaisseNext]_<<caisseVars, arrets>> PROVE CaisseInv'
  OBVIOUS
<1>1. CASE UNCHANGED caisseVars
  BY <1>1, CaisseCalme
<1>2. CASE CaisseArret
  BY <1>2, CaissePerdre
<1>3. ASSUME NEW c \in Appels, CaisseEtape(c) PROVE CaisseInv'
  <2>1. CASE \/ \E q \in Quantites : \/ LireCaisse(c, "ecriture", q) \/ LireCaisse(c, "ecriture", 0 - q)
                                     \/ LireCaisse(c, "ouverture", q) \/ LireCaisse(c, "fermeture", q)
    BY <2>1, CaisseLire
  <2> QED BY <1>3, <2>1, CaisseLireSolde, CaisseAjouter, CaisseOuvrirFermer DEF CaisseEtape
<1> QED BY <1>1, <1>2, <1>3 DEF CaisseNext, caisseVars

(* An entry written from the balance it had read chains with the one       *)
(* before it, and the till holds all its entries, as long as no call wrote *)
(* from a balance that had changed.                                        *)
THEOREM CaissesExactes == CaisseSpec => []CaisseExacte
<1>1. CaisseInv => CaisseExacte
  BY DEF CaisseInv
<1> QED BY <1>1, CaisseDebut, CaissePas, PTL DEF CaisseSpec
-----------------------------------------------------------------------------
(* The stock *)

(* A removal of an article asked for no more than was read, a movement of  *)
(* the inventory is over when it is recorded, and found the row.           *)
StockEtats ==
  /\ \A c \in Appels : stockJob[c].op = "sortie" => stockJob[c].avant >= stockJob[c].quantite
  /\ \A c \in Appels : stockJob[c].op \in OpsInventaire /\ stockJob[c].pc = "lu" =>
       inventaire # Rien
  /\ \A c \in Appels : mouvements[c] # 0 => stockJob[c].pc = "fini" /\ inventaire # Rien

StockInv == StockTypeOK /\ StockEtats /\ StockExact

LEMMA StockDebut == StockInit => StockInv
<1> SUFFICES ASSUME StockInit PROVE StockInv
  OBVIOUS
<1>1. StockTypeOK
  <2>1. <<>> \in Seq([appel: Appels, quantite: Int, avant: Nat, apres: Nat])
    OBVIOUS
  <2> QED BY <2>1 DEF StockInit, StockTypeOK
<1>2. StockEtats
  BY DEF StockInit, StockEtats, OpsInventaire
<1>3. CumulArticle = 0
  <2> DEFINE f == [i \in DOMAIN historique |-> historique[i].quantite]
  <2>1. DOMAIN historique = {}
    BY DEF StockInit
  <2> HIDE DEF f
  <2>2. SumFunctionOnSet(f, {}) = 0
    BY SommeVide
  <2> QED BY <2>1, <2>2 DEF CumulArticle, f
<1> QED BY <1>1, <1>2, <1>3 DEF StockInit, StockInv, StockExact

(* The movements of a restarted or of a refused call are none.             *)
LEMMA StockCadre ==
  ASSUME StockInv, StockTypeOK', StockEtats',
         UNCHANGED <<inventaire, mouvements, article, historique, ecrases>>
  PROVE  StockInv'
BY DEF StockInv, StockExact, CumulArticle, CumulInventaire

LEMMA StockLire ==
  ASSUME StockInv, NEW c \in Appels, NEW q \in Nat,
         \/ \E op \in OpsInventaire : LireInventaire(c, op, q)
         \/ \E op \in OpsArticle : LireArticle(c, op, q)
  PROVE  StockInv'
<1>1. PICK op \in OpsInventaire \cup OpsArticle, avant \in {0, article}, pc \in {"absent", "lu"} :
        /\ StockCommencer(c, op, q, avant, pc)
        /\ op = "sortie" => avant = article /\ article >= q
        /\ op \in OpsInventaire /\ pc = "lu" => inventaire # Rien
  BY DEF LireInventaire, LireArticle, OpsInventaire, OpsArticle
<1>2. UNCHANGED <<inventaire, mouvements, article, historique, ecrases>>
  BY DEF LireInventaire, LireArticle
<1> DEFINE j == [op |-> op, quantite |-> q, avant |-> avant, pc |-> pc]
<1>3. stockJob'[c] = j /\ \A b \in Appels \ {c} : stockJob'[b] = stockJob[b]
  BY <1>1 DEF StockCommencer, StockInv, StockTypeOK
<1>4. stockJob[c].pc = "repos"
  BY <1>1 DEF StockCommencer
<1>5. StockTypeOK'
  <2>1. avant \in Nat
    BY DEF StockInv, StockTypeOK
  <2>2. stockJob' = [stockJob EXCEPT ![c] = j]
    BY <1>1 DEF StockCommencer
  <2>3. j \in [op: {"aucune"} \cup OpsInventaire \cup OpsArticle, quantite: Nat, avant: Nat,
               pc: {"repos", "absent", "lu", "fini", "refuse", "perdu"}]
    BY <2>1
  <2> HIDE DEF j
  <2> QED BY <1>2, <2>2, <2>3 DEF StockInv, StockTypeOK
<1>6. StockEtats'
  BY <1>1, <1>2, <1>3, <1>4 DEF StockInv, StockEtats
<1> QED BY <1>2, <1>5, <1>6, StockCadre

LEMMA StockCreer ==
  ASSUME StockInv, NEW c \in Appels, CreerInventaire(c) \/ CreationRefusee(c)
  PROVE  StockInv'
<1>1. PICK pc \in {"lu", "refuse"} : stockJob' = [stockJob EXCEPT ![c].pc = pc]
  BY DEF CreerInventaire, CreationRefusee, StockPasse
<1>2. /\ stockJob[c].pc = "absent"
      /\ UNCHANGED <<mouvements, article, historique, ecrases>>
      /\ \/ inventaire = Rien /\ inventaire' = 0
         \/ UNCHANGED inventaire /\ inventaire # Rien
  BY DEF CreerInventaire, CreationRefusee, StockPasse
<1>3. inventaire' # Rien
  BY <1>2, AppelsAssumption
<1>4. /\ stockJob'[c].op = stockJob[c].op /\ stockJob'[c].pc = pc
      /\ stockJob'[c].avant = stockJob[c].avant /\ stockJob'[c].quantite = stockJob[c].quantite
      /\ \A b \in Appels \ {c} : stockJob'[b] = stockJob[b]
  BY <1>1 DEF StockInv, StockTypeOK
<1>5. StockTypeOK'
  <2> DEFINE J == [op: {"aucune"} \cup OpsInventaire \cup OpsArticle, quantite: Nat, avant: Nat,
                   pc: {"repos", "absent", "lu", "fini", "refuse", "perdu"}]
  <2>1. stockJob \in [Appels -> J]
    BY DEF StockInv, StockTypeOK
  <2>2. [stockJob[c] EXCEPT !.pc = pc] \in J
    BY <2>1
  <2>3. stockJob' = [stockJob EXCEPT ![c] = [stockJob[c] EXCEPT !.pc = pc]]
    BY <1>1
  <2> HIDE DEF J
  <2>4. stockJob' \in [Appels -> J]
    BY <2>1, <2>2, <2>3
  <2>5. inventaire' \in Int \cup {Rien}
    BY <1>2 DEF StockInv, StockTypeOK
  <2> QED BY <1>2, <2>4, <2>5 DEF StockInv, StockTypeOK, J
<1>6. StockEtats'
  BY <1>2, <1>3, <1>4 DEF StockInv, StockEtats
<1>7. inventaire' # Rien => inventaire' = CumulInventaire'
  <2>1. CASE inventaire = Rien /\ inventaire' = 0
    <3>1. \A b \in Appels : mouvements[b] = 0
      BY <2>1 DEF StockInv, StockEtats
    <3>2. CumulInventaire = 0
      BY <3>1, AppelsAssumption, SommeNulle DEF CumulInventaire
    <3> QED BY <1>2, <2>1, <3>2 DEF CumulInventaire
  <2>2. CASE UNCHANGED inventaire /\ inventaire # Rien
    BY <1>2, <2>2 DEF StockInv, StockExact, CumulInventaire
  <2> QED BY <1>2, <2>1, <2>2
<1>8. StockExact'
  BY <1>2, <1>7 DEF StockInv, StockExact, CumulArticle
<1> QED BY <1>5, <1>6, <1>8 DEF StockInv

LEMMA StockBouger ==
  ASSUME StockInv, NEW c \in Appels, BougerInventaire(c)
  PROVE  StockInv'
<1> DEFINE m == Signee(c)
<1>1. /\ stockJob[c].pc = "lu" /\ stockJob[c].op \in OpsInventaire
      /\ stockJob' = [stockJob EXCEPT ![c].pc = "fini"]
      /\ inventaire' = inventaire + m /\ mouvements' = [mouvements EXCEPT ![c] = m]
      /\ UNCHANGED <<article, historique, ecrases>>
  BY DEF BougerInventaire, StockPasse
<1>2. m \in Int /\ inventaire # Rien /\ inventaire \in Int /\ mouvements[c] = 0
  <2>1. stockJob[c].quantite \in Nat
    BY DEF StockInv, StockTypeOK
  <2>2. m \in Int
    BY <2>1 DEF Signee
  <2> QED BY <1>1, <2>2 DEF StockInv, StockTypeOK, StockEtats
<1> HIDE DEF m
<1>3. /\ stockJob'[c].op = stockJob[c].op /\ stockJob'[c].pc = "fini"
      /\ stockJob'[c].avant = stockJob[c].avant /\ stockJob'[c].quantite = stockJob[c].quantite
      /\ \A b \in Appels \ {c} : stockJob'[b] = stockJob[b]
      /\ mouvements'[c] = m /\ \A b \in Appels \ {c} : mouvements'[b] = mouvements[b]
  BY <1>1 DEF StockInv, StockTypeOK
<1>4. inventaire' \in Int /\ inventaire' # Rien
  BY <1>1, <1>2, AppelsAssumption
<1>5. StockTypeOK'
  BY <1>1, <1>2, <1>4 DEF StockInv, StockTypeOK
<1>6. StockEtats'
  BY <1>3, <1>4 DEF StockInv, StockEtats
<1>7. inventaire' = CumulInventaire'
  <2>1. \A b \in Appels : mouvements[b] \in Int /\ mouvements'[b] \in Int
    BY <1>2, <1>3 DEF StockInv, StockTypeOK
  <2>2. IsFiniteSet(Appels) /\ \A b \in Appels \ {c} : mouvements[b] = mouvements'[b]
    BY <1>3, AppelsAssumption
  <2>3. CumulInventaire' = CumulInventaire + (m - 0)
    BY <1>2, <1>3, <2>1, <2>2, SommeChange DEF CumulInventaire
  <2>4. inventaire = CumulInventaire
    BY <1>2 DEF StockInv, StockExact
  <2> QED BY <1>1, <1>2, <2>3, <2>4
<1>8. StockExact'
  BY <1>1, <1>7 DEF StockInv, StockExact, CumulArticle
<1> QED BY <1>5, <1>6, <1>8 DEF StockInv

LEMMA StockEcrire ==
  ASSUME StockInv, NEW c \in Appels, EcrireArticle(c)
  PROVE  StockInv'
<1> DEFINE avant == stockJob[c].avant
           a == Apres(c)
           e == [appel |-> c, quantite |-> a - avant, avant |-> avant, apres |-> a]
           n == Len(historique)
           R == [appel: Appels, quantite: Int, avant: Nat, apres: Nat]
           f == [i \in 1..n |-> historique[i].quantite]
           h == [i \in 1..(n + 1) |-> historique'[i].quantite]
<1>1. /\ stockJob[c].pc = "lu" /\ stockJob[c].op \in OpsArticle
      /\ stockJob' = [stockJob EXCEPT ![c].pc = "fini"]
      /\ article' = a /\ historique' = Append(historique, e)
      /\ ecrases' = IF article = avant THEN ecrases ELSE ecrases \cup {c}
      /\ UNCHANGED <<inventaire, mouvements>>
  BY DEF EcrireArticle, StockPasse
<1>2. avant \in Nat /\ a \in Nat
  <2>1. stockJob[c].quantite \in Nat /\ avant \in Nat
    BY DEF StockInv, StockTypeOK
  <2>2. stockJob[c].op = "sortie" => avant - stockJob[c].quantite \in Nat
    BY <2>1 DEF StockInv, StockEtats
  <2>3. stockJob[c].op \in {"entree", "sortie", "ajustement"}
    BY <1>1 DEF OpsArticle
  <2> QED BY <2>1, <2>2, <2>3 DEF Apres, Signee
<1>3. historique \in Seq(R) /\ n \in Nat /\ DOMAIN historique = 1..n
  BY DEF StockInv, StockTypeOK
<1>4. e \in R /\ e.quantite = a - avant /\ e.apres = a
  BY <1>2
<1> HIDE DEF avant, a, e, R
<1>5. /\ historique' \in Seq(R) /\ DOMAIN historique' = 1..(n + 1) /\ Len(historique') = n + 1
      /\ historique'[n + 1] = e /\ \A i \in 1..n : historique'[i] = historique[i]
      /\ historique' # <<>>
  BY <1>1, <1>3, <1>4
<1>6. StockTypeOK'
  <2>1. ecrases' \subseteq Appels
    BY <1>1 DEF StockInv, StockTypeOK
  <2> QED BY <1>1, <1>2, <1>5, <2>1 DEF StockInv, StockTypeOK, R
<1>7. /\ stockJob'[c].op = stockJob[c].op /\ stockJob'[c].pc = "fini"
      /\ stockJob'[c].avant = stockJob[c].avant /\ stockJob'[c].quantite = stockJob[c].quantite
      /\ \A b \in Appels \ {c} : stockJob'[b] = stockJob[b]
  BY <1>1 DEF StockInv, StockTypeOK
<1>8. StockEtats'
  BY <1>1, <1>7 DEF StockInv, StockEtats
<1>9. Last(historique') = e
  BY <1>5 DEF Last
<1>10. ecrases' = {} => article' = CumulArticle'
  <2> SUFFICES ASSUME ecrases' = {} PROVE article' = CumulArticle'
    OBVIOUS
  <2>1. ecrases = {} /\ article = avant
    BY <1>1
  <2>2. article = CumulArticle
    BY <2>1 DEF StockInv, StockExact
  <2>3. CumulArticle = SumFunctionOnSet(f, 1..n)
    BY <1>3 DEF CumulArticle
  <2>4. CumulArticle' = SumFunctionOnSet(h, 1..(n + 1))
    BY <1>5 DEF CumulArticle
  <2>5. \A i \in 1..n : f[i] \in Int /\ f[i] = h[i]
    <3>1. \A i \in 1..n : historique[i] \in R
      BY <1>3
    <3>2. \A i \in 1..n : historique[i].quantite \in Int
      BY <3>1 DEF R
    <3>3. \A i \in 1..n : i \in 1..(n + 1)
      BY <1>3
    <3> QED BY <1>5, <3>2, <3>3
  <2>6. h[n + 1] = a - avant
    BY <1>3, <1>4, <1>5
  <2>7. a - avant \in Int
    BY <1>2
  <2> HIDE DEF f, h
  <2>8. SumFunctionOnSet(h, 1..(n + 1)) = SumFunctionOnSet(f, 1..n) + h[n + 1]
    BY <1>3, <2>5, <2>6, <2>7, SommeSuite
  <2>9. CumulArticle' = article + (a - avant)
    BY <2>2, <2>3, <2>4, <2>6, <2>8
  <2> QED BY <1>1, <1>2, <2>1, <2>9
<1>11. StockExact'
  <2>1. article' >= 0
    BY <1>1, <1>2
  <2>2. article' = Last(historique').apres
    BY <1>1, <1>4, <1>9
  <2>3. inventaire' # Rien => inventaire' = CumulInventaire'
    BY <1>1 DEF StockInv, StockExact, CumulInventaire
  <2> QED BY <1>10, <2>1, <2>2, <2>3 DEF StockExact
<1> QED BY <1>6, <1>8, <1>11 DEF StockInv

LEMMA StockPerdre ==
  ASSUME StockInv, StockArret
  PROVE  StockInv'
<1>1. /\ UNCHANGED <<inventaire, mouvements, article, historique, ecrases>>
      /\ \A c \in Appels : /\ stockJob'[c].op = stockJob[c].op
                           /\ stockJob'[c].avant = stockJob[c].avant
                           /\ stockJob'[c].quantite = stockJob[c].quantite
                           /\ \/ stockJob'[c].pc = stockJob[c].pc
                              \/ stockJob[c].pc # "fini" /\ stockJob'[c].pc = "perdu"
  BY DEF StockArret, Interrompu, StockInv, StockTypeOK
<1>2. StockTypeOK'
  <2> DEFINE J == [op: {"aucune"} \cup OpsInventaire \cup OpsArticle, quantite: Nat, avant: Nat,
                   pc: {"repos", "absent", "lu", "fini", "refuse", "perdu"}]
  <2>1. \A c \in Appels : [stockJob[c] EXCEPT !.pc = Interrompu(@)] \in J
    BY DEF Interrompu, StockInv, StockTypeOK
  <2> HIDE DEF J
  <2>2. stockJob' \in [Appels -> J]
    BY <2>1 DEF StockArret
  <2> QED BY <1>1, <2>2 DEF StockInv, StockTypeOK, J
<1>3. StockEtats'
  BY <1>1 DEF StockInv, StockEtats
<1> QED BY <1>1, <1>2, <1>3, StockCadre

LEMMA StockCalme == StockInv /\ UNCHANGED stockVars => StockInv'
BY DEF stockVars, StockInv, StockTypeOK, StockEtats, StockExact, CumulArticle, CumulInventaire

LEMMA StockPas == StockInv /\ [StockNext]_<<stockVars, arrets>> => StockInv'
<1> SUFFICES ASSUME StockInv, [StockNext]_<<stockVars, arrets>> PROVE StockInv'
  OBVIOUS
<1>1. CASE UNCHANGED stockVars
  BY <1>1, StockCalme
<1>2. Quantites \cup {0} \subseteq Nat
  BY AppelsAssumption
<1>3. CASE StockArret
  BY <1>3, StockPerdre
<1>4. ASSUME NEW c \in Appels, StockEtape(c) PROVE StockInv'
  BY <1>2, <1>4, StockLire, StockCreer, StockBouger, StockEcrire DEF StockEtape, OpsArticle
<1> QED BY <1>1, <1>3, <1>4 DEF StockNext, stockVars

(* However the calls overlap, an article is never below zero and holds     *)
(* what its newest movement says, and the sum of its movements as long as  *)
(* none overwrote a change; the inventory is always the sum of its own.    *)
THEOREM StocksExacts == StockSpec => []StockExact
<1>1. StockInv => StockExact
  BY DEF StockInv
<1> QED BY <1>1, StockDebut, StockPas, PTL DEF StockSpec
-----------------------------------------------------------------------------
(* The circuit breaker *)

BreakerInv == BreakerTypeOK /\ OuvertureJustifiee

LEMMA BreakerDebut == BreakerInit => BreakerInv
BY BreakerAssumption DEF BreakerInit, BreakerInv, BreakerTypeOK, OuvertureJustifiee

LEMMA BreakerCalme == BreakerInv /\ UNCHANGED breakerVars => BreakerInv'
BY DEF breakerVars, BreakerInv, BreakerTypeOK, OuvertureJustifiee

LEMMA BreakerPas == BreakerInv /\ [BreakerNext]_<<breakerVars, arrets>> => BreakerInv'
<1> SUFFICES ASSUME BreakerInv, [BreakerNext]_<<breakerVars, arrets>> PROVE BreakerInv'
  OBVIOUS
<1> USE BreakerAssumption DEF BreakerInv, BreakerTypeOK, OuvertureJustifiee
<1>1. CASE UNCHANGED breakerVars
  BY <1>1, BreakerCalme
<1>2. CASE Refroidir
  BY <1>2 DEF Refroidir
<1>3. CASE BreakerArret
  BY <1>3 DEF BreakerArret, Refermer
<1>4. ASSUME NEW c \in Appels, Executer(c) PROVE BreakerInv'
  BY <1>4 DEF Executer
<1>5. ASSUME NEW c \in Appels, Reprendre(c) PROVE BreakerInv'
  <2>1. vols[c] + 1 \in 0..MaxReprises
    BY <1>5 DEF Reprendre
  <2> QED BY <1>5, <2>1 DEF Reprendre
<1>6. ASSUME NEW c \in Appels, Reussir(c) PROVE BreakerInv'
  BY <1>6 DEF Reussir, Essai, SansEssai, Refermer
<1>7. ASSUME NEW c \in Appels, Echouer(c) PROVE BreakerInv'
  BY <1>7 DEF Echouer
<1> QED BY <1>1, <1>2, <1>3, <1>4, <1>5, <1>6, <1>7 DEF BreakerNext, breakerVars

(* A closed circuit has counted exactly the failures since the last        *)
(* success, fewer than the threshold, whatever the number of calls in      *)
(* flight and the order in which they come back.                           *)
THEOREM DisjoncteurJuste == BreakerSpec => []OuvertureJustifiee
<1>1. BreakerInv => OuvertureJustifiee
  BY DEF BreakerInv
<1> QED BY <1>1, BreakerDebut, BreakerPas, PTL DEF BreakerSpec
-----------------------------------------------------------------------------
(* The campaigns *)

(* A call that read the campaign found it neither started nor sent, and a  *)
(* loop in progress has been started by its call.                          *)
CampLue ==
  \A c \in Appels :
    /\ campJob[c].pc = "lu" => campJob[c].vu \in {"BROUILLON", "PLANIFIEE"}
    /\ campJob[c].pc = "envoi" => c \in lances

CampInv == CampTypeOK /\ CampLue /\ EnvoiUnique

JobCampagne == [op: {"aucune", "planifier", "envoyer"}, vu: StatutsCampagne,
                envois: 0..Lots, erreurs: 0..Lots,
                pc: {"repos", "choisie", "lu", "envoi", "fini", "refuse", "perdu"}]

LEMMA CampDebut == CampInit => CampInv
BY CampaignsAssumption DEF CampInit, CampInv, CampTypeOK, CampLue, EnvoiUnique, StatutsCampagne

LEMMA CampCalme == CampInv /\ UNCHANGED campVars => CampInv'
BY DEF campVars, CampInv, CampTypeOK, CampLue, EnvoiUnique, Envoyes

LEMMA CampStade ==
  ASSUME CampTypeOK, NEW c \in Appels, NEW p \in {"envoi", "fini", "refuse"},
         campJob' = [campJob EXCEPT ![c].pc = p]
  PROVE  /\ campJob' \in [Appels -> JobCampagne]
         /\ campJob'[c].pc = p
         /\ campJob'[c].envois = campJob[c].envois /\ campJob'[c].erreurs = campJob[c].erreurs
         /\ \A d \in Appels \ {c} : campJob'[d] = campJob[d]
<1>1. campJob \in [Appels -> JobCampagne]
  BY DEF CampTypeOK, JobCampagne
<1>2. [campJob[c] EXCEPT !.pc = p] \in JobCampagne
  BY <1>1 DEF JobCampagne
<1>3. campJob' \in [Appels -> JobCampagne] /\ campJob'[c] = [campJob[c] EXCEPT !.pc = p]
      /\ \A d \in Appels \ {c} : campJob'[d] = campJob[d]
  BY <1>1, <1>2
<1> QED BY <1>1, <1>3 DEF JobCampagne

LEMMA CampPlanifier ==
  ASSUME CampInv, NEW c \in Appels, NEW due \in BOOLEAN, Planifier(c, due)
  PROVE  CampInv'
<1>1. /\ campJob[c].pc = "lu" /\ campJob' = [campJob EXCEPT ![c].pc = "fini"] /\ lances' = lances
      /\ campagne' = [campagne EXCEPT !.statut = "PLANIFIEE", !.due = due]
      /\ ecrasees' = Ecrase(c)
  BY DEF Planifier, CampPasse
<1>2. ecrasees' \in SUBSET Appels /\ (ecrasees' = {} => ecrasees = {} /\ campagne.statut = campJob[c].vu)
  BY <1>1 DEF Ecrase, CampInv, CampTypeOK
<1>3. /\ campJob' \in [Appels -> JobCampagne] /\ campJob'[c].pc = "fini"
      /\ \A d \in Appels \ {c} : campJob'[d] = campJob[d]
  BY <1>1, CampStade DEF CampInv
<1>4. /\ campagne' \in [statut: StatutsCampagne, due: BOOLEAN, nbEnvois: 0..Lots, nbErreurs: 0..Lots]
      /\ campagne'.statut = "PLANIFIEE"
  BY <1>1 DEF CampInv, CampTypeOK, StatutsCampagne
<1>5. CampTypeOK' /\ CampLue'
  BY <1>1, <1>2, <1>3, <1>4 DEF CampInv, CampTypeOK, CampLue, JobCampagne
<1>6. ecrasees' = {} => lances' = {}
  BY <1>1, <1>2 DEF CampInv, CampLue, EnvoiUnique
<1> QED BY <1>4, <1>5, <1>6 DEF CampInv, EnvoiUnique

LEMMA CampTerminer ==
  ASSUME CampInv, NEW c \in Appels, TerminerEnvoi(c)
  PROVE  CampInv'
<1>1. /\ campJob[c].pc = "envoi" /\ campJob' = [campJob EXCEPT ![c].pc = "fini"]
      /\ Envoyes(c) = Lots /\ UNCHANGED <<lances, ecrasees>>
      /\ campagne' = [campagne EXCEPT !.statut = "TERMINEE", !.nbEnvois = campJob[c].envois,
                                      !.nbErreurs = campJob[c].erreurs]
  BY DEF TerminerEnvoi, CampPasse
<1>2. /\ campJob' \in [Appels -> JobCampagne] /\ campJob'[c].pc = "fini"
      /\ campJob'[c].envois = campJob[c].envois /\ campJob'[c].erreurs = campJob[c].erreurs
      /\ \A d \in Appels \ {c} : campJob'[d] = campJob[d]
  BY <1>1, CampStade DEF CampInv
<1>3. campJob[c].envois \in 0..Lots /\ campJob[c].erreurs \in 0..Lots
  BY DEF CampInv, CampTypeOK
<1>4. /\ campagne' \in [statut: StatutsCampagne, due: BOOLEAN, nbEnvois: 0..Lots, nbErreurs: 0..Lots]
      /\ campagne'.statut = "TERMINEE"
      /\ campagne'.nbEnvois = campJob[c].envois /\ campagne'.nbErreurs = campJob[c].erreurs
  BY <1>1, <1>3 DEF CampInv, CampTypeOK, StatutsCampagne
<1>5. CampTypeOK' /\ CampLue'
  BY <1>1, <1>2, <1>4 DEF CampInv, CampTypeOK, CampLue, JobCampagne
<1>6. c \in lances' /\ Envoyes(c)' = Lots /\ campagne'.nbEnvois + campagne'.nbErreurs = Lots
  BY <1>1, <1>2, <1>4 DEF CampInv, CampLue, Envoyes
<1> QED BY <1>1, <1>4, <1>5, <1>6 DEF CampInv, EnvoiUnique

LEMMA CampPas == CampInv /\ [CampNext]_<<campVars, arrets>> => CampInv'
<1> SUFFICES ASSUME CampInv, [CampNext]_<<campVars, arrets>> PROVE CampInv'
  OBVIOUS
<1> USE CampaignsAssumption DEF CampInv, CampTypeOK, CampLue, EnvoiUnique, StatutsCampagne, Envoyes
<1>1. CASE UNCHANGED campVars
  BY <1>1, CampCalme
<1>2. CASE Echoir
  BY <1>2 DEF Echoir
<1>3. CASE CampArret
  BY <1>3 DEF CampArret, Interrompu
<1>4. ASSUME NEW c \in Appels, LirePlanification(c) PROVE CampInv'
  BY <1>4 DEF LirePlanification, CampLu
<1>5. ASSUME NEW c \in Appels, NEW due \in BOOLEAN, Planifier(c, due) PROVE CampInv'
  BY <1>5, CampPlanifier
<1>6. ASSUME NEW c \in Appels, Choisir(c) PROVE CampInv'
  BY <1>6 DEF Choisir
<1>7. ASSUME NEW c \in Appels, LireEnvoi(c) PROVE CampInv'
  BY <1>7 DEF LireEnvoi, CampLu, Envoyable
<1>8. ASSUME NEW c \in Appels, EnvoiRefuse(c) PROVE CampInv'
  BY <1>8 DEF EnvoiRefuse, CampPasse
<1>9. ASSUME NEW c \in Appels, Lancer(c) PROVE CampInv'
  <2>1. /\ campJob[c].pc = "lu" /\ campJob' = [campJob EXCEPT ![c].pc = "envoi"]
        /\ lances' = lances \cup {c} /\ campagne' = [campagne EXCEPT !.statut = "EN_COURS"]
        /\ ecrasees' \in SUBSET Appels
        /\ ecrasees' = {} => ecrasees = {} /\ campagne.statut = campJob[c].vu
    BY <1>9 DEF Lancer, CampPasse, Ecrase
  <2>2. CampTypeOK' /\ CampLue'
    BY <2>1
  <2>3. ecrasees' = {} => lances = {}
    BY <2>1
  <2> QED BY <2>1, <2>2, <2>3
<1>10. ASSUME NEW c \in Appels, EnvoyerLot(c) PROVE CampInv'
  BY <1>10 DEF EnvoyerLot
<1>11. ASSUME NEW c \in Appels, TerminerEnvoi(c) PROVE CampInv'
  BY <1>11, CampTerminer
<1> QED BY <1>1, <1>2, <1>3, <1>4, <1>5, <1>6, <1>7, <1>8, <1>9, <1>10, <1>11
        DEF CampNext, CampEtape, campVars

(* A campaign is sent once, unless a call wrote over a status changed      *)
(* since it read it, and is TERMINEE only when one loop went through all   *)
(* of its batches.                                                         *)
THEOREM CampagneUnique == CampSpec => []EnvoiUnique
<1>1. CampInv => EnvoiUnique
  BY DEF CampInv
<1> QED BY <1>1, CampDebut, CampPas, PTL DEF CampSpec
-----------------------------------------------------------------------------
(* The closing of a fiscal year *)

(* The closing entry leaves no result, whatever the signs of the balances. *)
LEMMA ReportSolde ==
  ASSUME NEW p \in Int, NEW d \in Int
  PROVE  LET m == Positif(p) - Positif(d)
         IN  Positif(p - Positif(m)) - Positif(d - Positif(0 - m)) = 0
BY DEF Positif

(* The method a call at each stage is running, and what it found.          *)
ExEtat ==
  \A c \in Appels :
    /\ exJob[c].pc \in {"calcule", "verifie", "reporte"} => exJob[c].op = "cloturer"
    /\ exJob[c].pc # "repos" => exJob[c].vu = FALSE

(* While no entry came late: the result a closing has computed is still    *)
(* the result of the year, unless another closing has carried it, and      *)
(* once it is carried nothing is left.                                     *)
ExSolde ==
  ComptesReport /\ tardives = {} =>
    /\ \A c \in Appels : exJob[c].pc \in {"calcule", "verifie"} =>
         exJob[c].montant = ResultatNet \/ (report # Rien /\ ResultatNet = 0)
    /\ \A c \in Appels : exJob[c].pc = "reporte" => ResultatNet = 0
    /\ clos => ResultatNet = 0

ExInv == ExTypeOK /\ ExEtat /\ ExSolde

LEMMA ExDebut == ExInit => ExInv
<1> SUFFICES ASSUME ExInit PROVE ExInv
  OBVIOUS
<1>1. \A c \in Appels : exJob[c].pc = "repos"
  BY DEF ExInit
<1>2. ExTypeOK
  <2>1. exJob \in [Appels -> [op: {"aucune", "ecrire", "cloturer"}, montant: Int, vu: BOOLEAN,
                             pc: {"repos", "lu", "calcule", "verifie", "reporte",
                                  "fini", "refuse", "perdu"}]]
    BY DEF ExInit
  <2>2. clos \in BOOLEAN /\ tardives \subseteq Appels
    BY DEF ExInit
  <2>3. soldes \in [produits: Int, charges: Int]
    BY DEF ExInit
  <2> QED BY <2>1, <2>2, <2>3 DEF ExInit, ExTypeOK
<1>3. ExSolde
  BY <1>1 DEF ExInit, ExSolde
<1> QED BY <1>1, <1>2, <1>3 DEF ExInv, ExEtat

(* A step that leaves the accounts and the closing entry alone, and moves  *)
(* a call to a stage the invariant allows.                                 *)
LEMMA ExAvance ==
  ASSUME ExInv, ExTypeOK', NEW c \in Appels,
         UNCHANGED <<soldes, report, tardives>>,
         \A d \in Appels \ {c} : exJob'[d] = exJob[d],
         exJob'[c].pc \in {"calcule", "verifie", "reporte"} => exJob'[c].op = "cloturer",
         exJob'[c].vu = FALSE,
         ComptesReport /\ tardives = {} =>
           /\ exJob'[c].pc \in {"calcule", "verifie"} =>
                exJob'[c].montant = ResultatNet \/ (report # Rien /\ ResultatNet = 0)
           /\ exJob'[c].pc = "reporte" => ResultatNet = 0
           /\ clos' => ResultatNet = 0
  PROVE  ExInv'
<1>1. ResultatNet' = ResultatNet
  BY DEF ResultatNet
<1>2. ExTypeOK' /\ ExEtat'
  BY DEF ExInv, ExEtat
<1>3. ExSolde'
  BY <1>1 DEF ExInv, ExSolde
<1> QED BY <1>2, <1>3 DEF ExInv

LEMMA ExCalme == ExInv /\ UNCHANGED exVars => ExInv'
BY DEF exVars, ExInv, ExTypeOK, ExEtat, ExSolde, ResultatNet

LEMMA ExPas == ExInv /\ [ExNext]_<<exVars, arrets>> => ExInv'
<1> SUFFICES ASSUME ExInv, [ExNext]_<<exVars, arrets>> PROVE ExInv'
  OBVIOUS
<1>0. ExTypeOK /\ ResultatNet \in Int /\ Rien \notin Int
  BY AppelsAssumption DEF ExInv, ExTypeOK, ResultatNet, Positif
<1>1. CASE UNCHANGED exVars
  BY <1>1, ExCalme
<1>2. CASE ExArret
  <2>1. \A c \in Appels : /\ exJob'[c].op = exJob[c].op /\ exJob'[c].vu = exJob[c].vu
                          /\ exJob'[c].montant = exJob[c].montant
                          /\ exJob'[c].pc \in {exJob[c].pc, "perdu"}
                          /\ exJob[c].pc = "repos" => exJob'[c].pc = "repos"
    BY <1>0, <1>2 DEF ExArret, Interrompu, ExTypeOK
  <2>2. ExTypeOK' /\ ResultatNet' = ResultatNet
    BY <1>0, <1>2 DEF ExArret, Interrompu, ExTypeOK, ResultatNet
  <2>3. clos' = clos /\ report' = report /\ tardives' = tardives
    BY <1>2 DEF ExArret
  <2>4. ExEtat'
    <3>1. \A c \in Appels : exJob'[c].pc \in {"calcule", "verifie", "reporte"} => exJob'[c].op = "cloturer"
      BY <2>1 DEF ExInv, ExEtat
    <3>2. \A c \in Appels : exJob'[c].pc # "repos" => exJob'[c].vu = FALSE
      BY <2>1 DEF ExInv, ExEtat
    <3> QED BY <3>1, <3>2 DEF ExEtat
  <2>5. ExSolde'
    <3>1. \A c \in Appels : exJob'[c].pc \in {"calcule", "verifie"} =>
            exJob[c].pc \in {"calcule", "verifie"} /\ exJob'[c].montant = exJob[c].montant
      BY <2>1
    <3>2. \A c \in Appels : exJob'[c].pc = "reporte" => exJob[c].pc = "reporte"
      BY <2>1
    <3> QED BY <2>2, <2>3, <3>1, <3>2 DEF ExInv, ExSolde
  <2> QED BY <2>2, <2>4, <2>5 DEF ExInv
<1>3. ASSUME NEW c \in Appels, NEW op \in {"ecrire", "cloturer"}, NEW m \in Int,
             LireExercice(c, op, m)
      PROVE  ExInv'
  <2>1. ExTypeOK'
    BY <1>0, <1>3 DEF LireExercice, ExTypeOK
  <2>2. /\ exJob'[c].pc = "lu" /\ exJob'[c].vu = FALSE /\ ~clos /\ clos' = clos
        /\ \A d \in Appels \ {c} : exJob'[d] = exJob[d]
    BY <1>0, <1>3 DEF LireExercice, ExTypeOK
  <2>3. UNCHANGED <<soldes, report, tardives>>
    BY <1>3 DEF LireExercice
  <2> QED BY <2>1, <2>2, <2>3, ExAvance
<1>4. ASSUME NEW c \in Appels, Enregistrer(c) PROVE ExInv'
  <2>1. /\ exJob[c].pc = "lu" /\ exJob[c].vu = FALSE
        /\ exJob'[c].pc = "fini" /\ exJob'[c].vu = exJob[c].vu
        /\ \A d \in Appels \ {c} : exJob'[d] = exJob[d]
        /\ clos' = clos /\ report' = report
    BY <1>0, <1>4 DEF Enregistrer, ExPasse, ExTypeOK, ExInv, ExEtat
  <2>2. ExTypeOK'
    BY <1>0, <1>4 DEF Enregistrer, ExPasse, ExTypeOK, Positif
  <2>3. tardives' = {} => ~clos /\ ~ClotureEnCours
    BY <1>4, <2>1 DEF Enregistrer
  <2>4. ExSolde'
    BY <2>1, <2>3 DEF ExSolde, ClotureEnCours, ExInv, ExEtat
  <2>5. ExEtat'
    BY <2>1 DEF ExInv, ExEtat
  <2> QED BY <2>2, <2>4, <2>5 DEF ExInv
<1>5. ASSUME NEW c \in Appels, Calculer(c) PROVE ExInv'
  <2>1. ExTypeOK'
    BY <1>0, <1>5 DEF Calculer, ExTypeOK
  <2>2. /\ exJob'[c].pc = "calcule" /\ exJob'[c].op = "cloturer" /\ exJob'[c].vu = FALSE
        /\ exJob'[c].montant = ResultatNet /\ clos' = clos
        /\ \A d \in Appels \ {c} : exJob'[d] = exJob[d]
    BY <1>0, <1>5 DEF Calculer, ExTypeOK, ExInv, ExEtat
  <2>3. UNCHANGED <<soldes, report, tardives>>
    BY <1>5 DEF Calculer
  <2>4. ComptesReport /\ tardives = {} => (clos => ResultatNet = 0)
    BY DEF ExInv, ExSolde
  <2> QED BY <2>1, <2>2, <2>3, <2>4, ExAvance
<1>6. ASSUME NEW c \in Appels,
             SansReport(c) \/ VerifierReport(c) \/ ReportRefuse(c) \/ Fermer(c)
      PROVE  ExInv'
  <2>1. PICK pc \in {"verifie", "reporte", "refuse", "fini"} :
          exJob' = [exJob EXCEPT ![c].pc = pc]
    BY <1>6 DEF SansReport, VerifierReport, ReportRefuse, Fermer, ExPasse
  <2>2. ExTypeOK'
    BY <1>0, <1>6, <2>1 DEF SansReport, VerifierReport, ReportRefuse, Fermer, ExTypeOK
  <2>3. /\ exJob'[c].pc = pc /\ exJob'[c].op = exJob[c].op /\ exJob'[c].montant = exJob[c].montant
        /\ exJob'[c].vu = exJob[c].vu
        /\ \A d \in Appels \ {c} : exJob'[d] = exJob[d]
    BY <1>0, <2>1 DEF ExTypeOK
  <2>4. exJob[c].op = "cloturer" /\ exJob[c].vu = FALSE
    BY <1>6 DEF SansReport, VerifierReport, ReportRefuse, Fermer, ExPasse, ExInv, ExEtat
  <2>5. /\ pc = "verifie" => exJob[c].pc = "calcule"
        /\ pc = "reporte" => exJob[c].pc = "calcule" /\ ~ReportUtile(c)
        /\ clos' => clos \/ exJob[c].pc = "reporte"
        /\ UNCHANGED <<soldes, report, tardives>>
    <3>1. CASE SansReport(c)
      BY <2>3, <3>1 DEF SansReport, ExPasse
    <3>2. CASE VerifierReport(c)
      BY <2>3, <3>2 DEF VerifierReport, ExPasse
    <3>3. CASE ReportRefuse(c)
      <4>1. clos' = clos /\ exJob' = [exJob EXCEPT ![c].pc = "refuse"]
        BY <3>3 DEF ReportRefuse, ExPasse
      <4>2. exJob'[c].pc = "refuse"
        BY <1>0, <4>1 DEF ExTypeOK
      <4> QED BY <2>3, <3>3, <4>1, <4>2 DEF ReportRefuse
    <3>4. CASE Fermer(c)
      BY <1>0, <2>3, <3>4 DEF Fermer, ExPasse, ExTypeOK
    <3> QED BY <1>6, <3>1, <3>2, <3>3, <3>4
  <2>6. ComptesReport /\ tardives = {} =>
          /\ pc = "verifie" => exJob[c].montant = ResultatNet \/ (report # Rien /\ ResultatNet = 0)
          /\ pc = "reporte" => ResultatNet = 0
          /\ clos' => ResultatNet = 0
    BY <2>5 DEF ReportUtile, ExInv, ExSolde
  <2> QED BY <2>2, <2>3, <2>4, <2>5, <2>6, ExAvance
<1>7. ASSUME NEW c \in Appels, InsererReport(c) PROVE ExInv'
  <2> DEFINE m == exJob[c].montant
  <2>1. /\ exJob[c].pc = "verifie" /\ exJob' = [exJob EXCEPT ![c].pc = "reporte"]
        /\ report = Rien /\ report' = m /\ m \in Int
        /\ soldes' = [produits |-> soldes.produits - Positif(m),
                      charges |-> soldes.charges - Positif(0 - m)]
        /\ soldes.produits \in Int /\ soldes.charges \in Int
        /\ clos' = clos /\ tardives' = tardives
    BY <1>0, <1>7 DEF InsererReport, ExPasse, ExTypeOK
  <2>2. /\ exJob'[c].pc = "reporte" /\ exJob'[c].op = exJob[c].op /\ exJob'[c].vu = exJob[c].vu
        /\ \A d \in Appels \ {c} : exJob'[d] = exJob[d]
    BY <1>0, <2>1 DEF ExTypeOK
  <2>3. ExTypeOK'
    <3>1. Positif(m) \in Int /\ Positif(0 - m) \in Int
      BY <2>1 DEF Positif
    <3> QED BY <1>0, <2>1, <3>1 DEF ExTypeOK
  <2>4. ComptesReport /\ tardives' = {} => ResultatNet' = 0
    <3>1. SUFFICES ASSUME ComptesReport, tardives = {} PROVE ResultatNet' = 0
      BY <2>1
    <3>2. m = Positif(soldes.produits) - Positif(soldes.charges)
      BY <2>1, <3>1 DEF ExInv, ExSolde, ResultatNet
    <3>3. ResultatNet' = Positif(soldes.produits - Positif(m)) - Positif(soldes.charges - Positif(0 - m))
      BY <2>1 DEF ResultatNet
    <3> QED BY <2>1, <3>2, <3>3, ReportSolde
  <2>5. report' # Rien
    BY <1>0, <2>1
  <2>6. ExSolde'
    BY <2>4, <2>5 DEF ExSolde
  <2>7. ExEtat'
    BY <2>1, <2>2 DEF ExInv, ExEtat
  <2> QED BY <2>3, <2>6, <2>7 DEF ExInv
<1>8. \A q \in Quantites : q \in Int /\ 0 - q \in Int
  BY AppelsAssumption
<1> QED BY <1>1, <1>2, <1>3, <1>4, <1>5, <1>6, <1>7, <1>8 DEF ExNext, ExEtape, exVars

(* A closed year has carried its whole result, unless an entry was written *)
(* during a closing or after it, whatever overlaps and however often the   *)
(* process restarts between the closing entry and the closing.             *)
THEOREM ClotureExacte == ExSpec => []ReportComplet
<1>1. ExInv => ReportComplet
  BY DEF ExInv, ExSolde, ReportComplet
<1> QED BY <1>1, ExDebut, ExPas, PTL DEF ExSpec
-----------------------------------------------------------------------------
(* All of them *)

(* What the registers have in common: a step restarts the process once,    *)
(* within the bound, or not at all.                                        *)
Redemarre == arrets' = arrets \/ (arrets < MaxArrets /\ arrets' = arrets + 1)

LEMMA RechRedemarre == RechNext => Redemarre
BY DEF RechNext, RechArret, RechEtape, Demander, DemanderApprouvee, LireDemande, Approuver,
       RejeterDemande, LireCompte, Crediter, Redemarre

LEMMA CaisseRedemarre == CaisseNext => Redemarre
BY DEF CaisseNext, CaisseArret, CaisseEtape, LireCaisse, LireSolde, AjouterEcriture, OuvrirCaisse,
       OuvertureRefusee, FermerCaisse, Journaliser, Redemarre

LEMMA StockRedemarre == StockNext => Redemarre
BY DEF StockNext, StockArret, StockEtape, LireInventaire, LireArticle, CreerInventaire,
       CreationRefusee, BougerInventaire, EcrireArticle, Redemarre

LEMMA ExRedemarre == ExNext => Redemarre
BY DEF ExNext, ExArret, ExEtape, LireExercice, Enregistrer, Calculer, SansReport, VerifierReport,
       ReportRefuse, Fermer, InsererReport, Redemarre

LEMMA BreakerRedemarre == BreakerNext => Redemarre
BY DEF BreakerNext, BreakerArret, Refroidir, Executer, Reprendre, Reussir, Echouer, Redemarre

LEMMA CampRedemarre == CampNext => Redemarre
BY DEF CampNext, CampArret, CampEtape, Echoir, LirePlanification, CampLu, Planifier, Choisir,
       LireEnvoi, EnvoiRefuse, Lancer, EnvoyerLot, TerminerEnvoi, Redemarre

LEMMA LivRedemarre == LivNext => Redemarre
BY DEF LivNext, LivArret, LivEtape, TrouverEndpoint, CreerLivraison, Noter, NoterSansLigne,
       Retenter, Poster, Supprimer, Redemarre

LEMMA FileRedemarre == FileNext => Redemarre
BY DEF FileNext, FileArret, FluxEtape, Refuser, PosteEchoue, CompterSaisie,
       Lister, FinirSync, Suivante, Saisir, EcouterEtEnvoyer, EcouterSansSuite, Reabonner,
       Couper, Reconnecter, Redemarre

(* The invariants of all the registers, whichever is exercised.            *)
AnnexesInv ==
  /\ arrets \in 0..MaxArrets
  /\ RechInv /\ CaisseInv /\ StockInv /\ ExInv /\ BreakerInv /\ CampInv /\ LivInv /\ FileInv

LEMMA AnnexesDebut == AnnexesInit => AnnexesInv
<1> SUFFICES ASSUME AnnexesInit PROVE AnnexesInv
  OBVIOUS
<1>1. arrets \in 0..MaxArrets
  BY AppelsAssumption DEF AnnexesInit
<1> QED BY <1>1, RechDebut, CaisseDebut, StockDebut, ExDebut, BreakerDebut, CampDebut, LivDebut,
           FileDebut DEF AnnexesInit, AnnexesInv

LEMMA AnnexesPas == AnnexesInv /\ [AnnexesNext]_annexesVars => AnnexesInv'
<1> SUFFICES ASSUME AnnexesInv, [AnnexesNext]_annexesVars PROVE AnnexesInv'
  OBVIOUS
<1>1. /\ RechInv /\ CaisseInv /\ StockInv /\ ExInv /\ BreakerInv /\ CampInv /\ LivInv /\ FileInv
      /\ arrets \in 0..MaxArrets
  BY DEF AnnexesInv
<1>2. Redemarre => arrets' \in 0..MaxArrets
  BY <1>1, AppelsAssumption DEF Redemarre
<1>3. CASE ParRecharge
  <2>1. RechNext /\ UNCHANGED <<caisseVars, stockVars, exVars, breakerVars, campVars, livVars, fileVars>>
    BY <1>3 DEF ParRecharge
  <2> QED BY <1>1, <1>2, <2>1, RechRedemarre, RechPas, CaisseCalme, StockCalme, ExCalme,
             BreakerCalme, CampCalme, LivCalme, FileCalme DEF AnnexesInv
<1>4. CASE ParCaisse
  <2>1. CaisseNext /\ UNCHANGED <<rechVars, stockVars, exVars, breakerVars, campVars, livVars, fileVars>>
    BY <1>4 DEF ParCaisse
  <2> QED BY <1>1, <1>2, <2>1, CaisseRedemarre, CaissePas, RechCalme, StockCalme, ExCalme,
             BreakerCalme, CampCalme, LivCalme, FileCalme DEF AnnexesInv
<1>5. CASE ParStock
  <2>1. StockNext /\ UNCHANGED <<rechVars, caisseVars, exVars, breakerVars, campVars, livVars, fileVars>>
    BY <1>5 DEF ParStock
  <2> QED BY <1>1, <1>2, <2>1, StockRedemarre, StockPas, RechCalme, CaisseCalme, ExCalme,
             BreakerCalme, CampCalme, LivCalme, FileCalme DEF AnnexesInv
<1>6. CASE ParExercice
  <2>1. ExNext /\ UNCHANGED <<rechVars, caisseVars, stockVars, breakerVars, campVars, livVars, fileVars>>
    BY <1>6 DEF ParExercice
  <2> QED BY <1>1, <1>2, <2>1, ExRedemarre, ExPas, RechCalme, CaisseCalme, StockCalme,
             BreakerCalme, CampCalme, LivCalme, FileCalme DEF AnnexesInv
<1>7. CASE ParDisjoncteur
  <2>1. BreakerNext /\ UNCHANGED <<rechVars, caisseVars, stockVars, exVars, campVars, livVars, fileVars>>
    BY <1>7 DEF ParDisjoncteur
  <2> QED BY <1>1, <1>2, <2>1, BreakerRedemarre, BreakerPas, RechCalme, CaisseCalme, StockCalme,
             ExCalme, CampCalme, LivCalme, FileCalme DEF AnnexesInv
<1>8. CASE ParCampagne
  <2>1. CampNext /\ UNCHANGED <<rechVars, caisseVars, stockVars, exVars, breakerVars, livVars, fileVars>>
    BY <1>8 DEF ParCampagne
  <2> QED BY <1>1, <1>2, <2>1, CampRedemarre, CampPas, RechCalme, CaisseCalme, StockCalme,
             ExCalme, BreakerCalme, LivCalme, FileCalme DEF AnnexesInv
<1>9. CASE ParLivraison
  <2>1. LivNext /\ UNCHANGED <<rechVars, caisseVars, stockVars, exVars, breakerVars, campVars, fileVars>>
    BY <1>9 DEF ParLivraison
  <2> QED BY <1>1, <1>2, <2>1, LivRedemarre, LivPas, RechCalme, CaisseCalme, StockCalme,
             ExCalme, BreakerCalme, CampCalme, FileCalme DEF AnnexesInv
<1>10. CASE ParMobile
  <2>1. FileNext /\ UNCHANGED <<rechVars, caisseVars, stockVars, exVars, breakerVars, campVars, livVars>>
    BY <1>10 DEF ParMobile
  <2> QED BY <1>1, <1>2, <2>1, FileRedemarre, FilePas, RechCalme, CaisseCalme, StockCalme,
             ExCalme, BreakerCalme, CampCalme, LivCalme DEF AnnexesInv
<1>11. CASE UNCHANGED annexesVars
  <2>1. UNCHANGED <<arrets, rechVars, caisseVars, stockVars, exVars, breakerVars, campVars, livVars, fileVars>>
    BY <1>11 DEF annexesVars
  <2> QED BY <1>1, <2>1, RechCalme, CaisseCalme, StockCalme, ExCalme, BreakerCalme, CampCalme,
             LivCalme, FileCalme DEF AnnexesInv
<1> QED BY <1>3, <1>4, <1>5, <1>6, <1>7, <1>8, <1>9, <1>10, <1>11 DEF AnnexesNext

LEMMA AnnexesInvariant == AnnexesSpec => []AnnexesInv
<1>1. AnnexesInit /\ [][AnnexesNext]_annexesVars => []AnnexesInv
  BY AnnexesDebut, AnnexesPas, PTL
<1> QED BY <1>1, PTL DEF AnnexesSpec

(* Type correctness of the eight registers together, under the restarts    *)
(* they share.                                                             *)
THEOREM AnnexesBienTypees == AnnexesSpec => []AnnexesTypeOK
<1>1. AnnexesInv => AnnexesTypeOK
  BY DEF AnnexesInv, AnnexesTypeOK, RechInv, CaisseInv, StockInv, ExInv, BreakerInv, CampInv,
         LivInv, FileInv
<1> QED BY <1>1, AnnexesInvariant, PTL

(* What is proved of each register alone holds of the behaviours that      *)
(* exercise any one of them: its step keeps its own invariant, and leaves  *)
(* the variables of the others alone, the restarts excepted.               *)
THEOREM AnnexesSures ==
  AnnexesSpec => [](/\ RechargeExacte /\ CaisseExacte /\ StockExact /\ ReportComplet
                    /\ OuvertureJustifiee /\ EnvoiUnique /\ LivraisonFidele)
<1>1. AnnexesInv => /\ RechargeExacte /\ CaisseExacte /\ StockExact /\ ReportComplet
                    /\ OuvertureJustifiee /\ EnvoiUnique /\ LivraisonFidele
  <2>1. CaisseInv => CaisseExacte
    BY DEF CaisseInv
  <2>2. StockInv => StockExact
    BY DEF StockInv
  <2>3. BreakerInv => OuvertureJustifiee
    BY DEF BreakerInv
  <2>4. CampInv => EnvoiUnique
    BY DEF CampInv
  <2>5. ExInv => ReportComplet
    BY DEF ExInv, ExSolde, ReportComplet
  <2> QED BY <2>1, <2>2, <2>3, <2>4, <2>5, RechRegles, LivRegles DEF AnnexesInv
<1> QED BY <1>1, AnnexesInvariant, PTL
=============================================================================
