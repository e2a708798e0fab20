--------------------------- MODULE LicencesProofs ---------------------------
(***************************************************************************)
(* Theorems about Licences, for every set of requests, every duration and  *)
(* every bound: type correctness, the limit of an access, renewals that    *)
(* accumulate, the single trial and the age of a cached status.            *)
(***************************************************************************)
EXTENDS Licences, TLAPS

(* Every value a transition writes has its type.                           *)
LEMMA DeduireType ==
  ASSUME NEW t \in Tenant, NEW h \in Nat
  PROVE  Deduire(t, h) \in Statuts
  BY DEF Deduire, Statuts

LEMMA PlusProprietes ==
  ASSUME NEW a \in Nat, NEW b \in Nat
  PROVE  Plus(a, b) \in Nat /\ Plus(a, b) >= a /\ Plus(a, b) >= b
  BY DEF Plus

LEMMA ViergeType == Vierge \in Tenant
  BY DEF Vierge, Tenant, MetaLicence, Statuses, Statuts, Nul

LEMMA ReposType ==
  Repos \in [pc: {"repos", "lu", "invalide"}, op: Operations \cup {"AUCUNE"},
             jours: Nat, maintenant: Nat, essais: Nat, lu: Tenant]
  BY ViergeType DEF Repos

LEMMA FinType ==
  ASSUME TypeOK, NEW d \in Demandes
  PROVE  /\ acte[d].lu \in Tenant /\ acte[d].maintenant + acte[d].jours \in Nat
         /\ NouvelleFin(acte[d]) \in Nat
         /\ acte[d].lu.sub \in Nat /\ acte[d].lu.meta \in MetaLicence
  BY DEF TypeOK, NouvelleFin, Base, Tenant

(* A transaction that writes a row of the right type keeps the types.      *)
LEMMA ObserverType ==
  ASSUME TypeOK, Observer, heure' \in 1..MaxHeure
  PROVE  dernierOuvert' \in 1..MaxHeure
  BY DEF TypeOK, Observer

LEMMA CommitType ==
  ASSUME TypeOK, NEW d \in Demandes, NEW op, NEW t \in Tenant, NEW fin \in Nat,
         Valider(d, op, t, fin) \/ Ecrire(d, op, t, fin)
  PROVE  /\ tenant' \in Tenant /\ accorde' \in Nat
         /\ acte' \in [Demandes -> [pc: {"repos", "lu", "invalide"}, op: Operations \cup {"AUCUNE"},
                                    jours: Nat, maintenant: Nat, essais: Nat, lu: Tenant]]
         /\ dernierOuvert' \in 1..MaxHeure
         /\ UNCHANGED <<tache, cache, garde, heure, demandes>>
  <1>1. tenant' = t /\ accorde' = Plus(accorde, fin) /\ acte' = [acte EXCEPT ![d] = Repos]
        /\ UNCHANGED <<tache, cache, garde, heure, demandes>> /\ Observer
    BY DEF Valider, Ecrire
  <1>2. heure' \in 1..MaxHeure
    BY <1>1 DEF TypeOK
  <1>3. accorde' \in Nat
    BY <1>1, PlusProprietes DEF TypeOK
  <1>. QED
    BY <1>1, <1>2, <1>3, ReposType, ObserverType DEF TypeOK

-----------------------------------------------------------------------------
LEMMA DemandeType ==
  ASSUME LicencesAssumption, TypeOK, NEW d \in Demandes, EtapeDemande(d)
  PROVE  TypeOK'
  <1> DEFINE a == acte[d]
  <1>0. acte[d] \in [pc: {"repos", "lu", "invalide"}, op: Operations \cup {"AUCUNE"},
                     jours: Nat, maintenant: Nat, essais: Nat, lu: Tenant]
    BY DEF TypeOK
  <1>fin. /\ a.lu \in Tenant /\ a.maintenant + a.jours \in Nat /\ NouvelleFin(a) \in Nat
          /\ a.lu.sub \in Nat /\ a.lu.meta \in MetaLicence /\ a.maintenant \in Nat
          /\ a.jours \in Nat
    BY <1>0, FinType
  <1>t. tenant \in Tenant /\ Nul \in Nat
    BY DEF TypeOK, Nul
  <1>p. Crediter(a) => paye' \in Nat /\ conflits' \subseteq {"ESSAI", "ECHEANCE"}
    <2>2. paye \in Nat
      BY DEF TypeOK
    <2>1. Plus(paye, a.maintenant) \in Nat
      BY <2>2, <1>fin, PlusProprietes
    <2>. QED
      BY <2>1, <1>fin DEF Crediter, TypeOK
  <1>1. ASSUME NEW op \in Operations, NEW j \in Jours(op), Lire(d, op, j)
        PROVE  TypeOK'
    <2>1. j \in Nat
      BY DEF Jours, LicencesAssumption
    <2>. QED
      BY <1>1, <2>1 DEF Lire, TypeOK
  <1>2. CASE Invalider(d)
    BY <1>2, <1>0 DEF Invalider, TypeOK, Nul
  <1>3. CASE Annuler(d)
    BY <1>3, ReposType DEF Annuler, TypeOK
  <1>4. CASE OuvrirEssai(d)
    <2> DEFINE t == [tenant EXCEPT !.status = "TRIAL", !.trial = a.maintenant + a.jours,
                       !.meta = [a.lu.meta EXCEPT !.statut = "ESSAI", !.essai = TRUE,
                                                  !.grace = Nul, !.prov = Nul]]
    <2>1. t \in Tenant
      BY <1>fin, <1>t DEF Tenant, MetaLicence, Statuses, Statuts
    <2>2. Valider(d, "ESSAI", t, a.maintenant + a.jours)
      BY <1>4 DEF OuvrirEssai
    <2>. QED
      BY <2>1, <2>2, <1>4, <1>fin, CommitType DEF OuvrirEssai, TypeOK
  <1>5. CASE Renouveler(d)
    <2> DEFINE t == [tenant EXCEPT !.status = "ACTIVE", !.sub = NouvelleFin(a),
                       !.meta = [a.lu.meta EXCEPT !.statut = "ACTIVE", !.grace = Nul,
                                                  !.prov = Nul]]
    <2>1. t \in Tenant
      BY <1>fin, <1>t DEF Tenant, MetaLicence, Statuses, Statuts
    <2>2. Valider(d, "RENOUVELER", t, NouvelleFin(a))
      BY <1>5 DEF Renouveler
    <2>. QED
      BY <2>1, <2>2, <1>5, <1>fin, <1>p, CommitType DEF Renouveler, TypeOK
  <1>6. CASE AccorderProvisoire(d)
    <2> DEFINE t == [tenant EXCEPT !.status = "ACTIVE",
                       !.meta = [a.lu.meta EXCEPT !.statut = "PROVISOIRE",
                                                  !.prov = a.maintenant + a.jours]]
    <2>1. t \in Tenant
      BY <1>fin, <1>t DEF Tenant, MetaLicence, Statuses, Statuts
    <2>2. Valider(d, "PROVISOIRE", t, a.maintenant + a.jours)
      BY <1>6 DEF AccorderProvisoire
    <2>. QED
      BY <2>1, <2>2, <1>6, <1>fin, CommitType DEF AccorderProvisoire, TypeOK
  <1>7. CASE Suspendre(d)
    <2> DEFINE t == [tenant EXCEPT !.status = "SUSPENDED",
                       !.meta = [acte[d].lu.meta EXCEPT !.statut = "SUSPENDUE"]]
    <2>1. t \in Tenant
      BY <1>fin, <1>t DEF Tenant, MetaLicence, Statuses, Statuts
    <2>2. Valider(d, "SUSPENDRE", t, Nul)
      BY <1>7 DEF Suspendre
    <2>. QED
      BY <2>1, <2>2, <1>7, <1>t, CommitType DEF Suspendre, TypeOK
  <1>8. CASE Reactiver(d)
    <2> DEFINE t == [tenant EXCEPT !.status = Status(Cible(a)),
                       !.meta = [a.lu.meta EXCEPT !.statut = Cible(a)]]
    <2>1. Cible(a) \in Statuts
      <3>1. [a.lu EXCEPT !.status = "ACTIVE", !.meta.statut = "AUCUN"] \in Tenant
        BY <1>fin DEF Tenant, MetaLicence, Statuses
      <3>. QED
        BY <3>1, <1>fin, DeduireType DEF Cible
    <2>2. Status(Cible(a)) \in Statuses
      BY DEF Status, Statuses
    <2>3. t \in Tenant
      BY <2>1, <2>2, <1>fin, <1>t DEF Tenant, MetaLicence
    <2>4. Valider(d, "REACTIVER", t, Nul)
      BY <1>8 DEF Reactiver
    <2>. QED
      BY <2>3, <2>4, <1>8, <1>t, CommitType DEF Reactiver, TypeOK
  <1>9. CASE Revoquer(d)
    <2> DEFINE t == [status |-> "EXPIRED", sub |-> Nul, trial |-> Nul,
                     meta |-> [acte[d].lu.meta EXCEPT !.statut = "REVOQUEE", !.grace = Nul,
                                                      !.prov = Nul]]
    <2>1. t \in Tenant
      BY <1>fin, <1>t DEF Tenant, MetaLicence, Statuses, Statuts
    <2>2. Valider(d, "REVOQUER", t, Nul)
      BY <1>9 DEF Revoquer
    <2>. QED
      BY <2>1, <2>2, <1>9, <1>t, CommitType DEF Revoquer, TypeOK
  <1>10. CASE AdminSuspendre(d)
    <2> DEFINE t == [tenant EXCEPT !.status = "SUSPENDED"]
    <2>1. t \in Tenant
      BY <1>t DEF Tenant, Statuses
    <2>2. Ecrire(d, "ADMIN_SUSPENDRE", t, Nul)
      BY <1>10 DEF AdminSuspendre
    <2>3. UNCHANGED essais
      BY <2>2 DEF Ecrire
    <2>. QED
      BY <2>1, <2>2, <2>3, <1>10, <1>t, CommitType DEF AdminSuspendre, TypeOK
  <1>11. CASE AdminReactiver(d)
    <2> DEFINE enEssai == a.lu.sub <= a.maintenant /\ a.lu.trial > a.maintenant
               t == [tenant EXCEPT !.status = IF enEssai THEN "TRIAL" ELSE "ACTIVE"]
    <2>1. t \in Tenant
      BY <1>t DEF Tenant, Statuses
    <2>2. Ecrire(d, "ADMIN_REACTIVER", t, Nul)
      BY <1>11 DEF AdminReactiver
    <2>3. UNCHANGED essais
      BY <2>2 DEF Ecrire
    <2>. QED
      BY <2>1, <2>2, <2>3, <1>11, <1>t, CommitType DEF AdminReactiver, TypeOK
  <1>12. CASE Prolonger(d)
    <2> DEFINE t == [tenant EXCEPT !.sub = NouvelleFin(a),
                       !.status = IF a.lu.status = "EXPIRED" THEN "ACTIVE" ELSE a.lu.status]
    <2>1. t \in Tenant
      BY <1>fin, <1>t DEF Tenant, Statuses
    <2>2. Ecrire(d, "PROLONGER", t, NouvelleFin(a))
      BY <1>12 DEF Prolonger
    <2>3. UNCHANGED essais
      BY <2>2 DEF Ecrire
    <2>. QED
      BY <2>1, <2>2, <2>3, <1>12, <1>fin, <1>p, CommitType DEF Prolonger, TypeOK
  <1>. QED
    BY <1>1, <1>2, <1>3, <1>4, <1>5, <1>6, <1>7, <1>8, <1>9, <1>10, <1>11, <1>12
       DEF EtapeDemande

LEMMA TacheType ==
  ASSUME LicencesAssumption, TypeOK, EtapeTache
  PROVE  TypeOK'
  <1>1. ASSUME NEW k \in Taches, Lister(k) \/ LireTache(k) \/ InvaliderTache(k)
        PROVE  TypeOK'
    <2>1. tache[k] \in [pc: {"repos", "liste", "lu", "ecrit"}, lu: Tenant]
      BY DEF TypeOK
    <2>2. CASE Lister(k)
      BY <2>1, <2>2 DEF Lister, TypeOK
    <2>3. CASE LireTache(k)
      BY <2>1, <2>3, ViergeType DEF LireTache, TypeOK
    <2>4. CASE InvaliderTache(k)
      BY <2>1, <2>4 DEF InvaliderTache, TypeOK, Nul
    <2>. QED
      BY <1>1, <2>2, <2>3, <2>4
  <1>2. ASSUME NEW k \in Taches, NEW t \in Tenant, ValiderTache(k, t)
        PROVE  TypeOK'
    <2>1. dernierOuvert' \in 1..MaxHeure
      BY <1>2, ObserverType DEF ValiderTache, TypeOK
    <2>. QED
      BY <1>2, <2>1, ViergeType DEF ValiderTache, TypeOK
  <1>3. \A k \in Taches : tache[k].lu \in Tenant /\ FinGrace(tache[k].lu) \in Nat
    BY DEF TypeOK, Tenant, FinGrace, Echeance, LicencesAssumption
  <1>4. "GRACE" \in Taches /\ "EXPIRATION" \in Taches /\ Nul \in Nat
    BY DEF Taches, Nul
  <1>5. CASE BasculerEnGrace
    <2> DEFINE lu == tache["GRACE"].lu
               t == [tenant EXCEPT !.status = "ACTIVE",
                       !.meta = [lu.meta EXCEPT !.statut = "GRACE", !.grace = FinGrace(lu)]]
    <2>1. tenant \in Tenant /\ lu \in Tenant /\ FinGrace(lu) \in Nat
      BY <1>3, <1>4 DEF TypeOK
    <2>2. t \in Tenant
      BY <2>1 DEF Tenant, MetaLicence, Statuses, Statuts
    <2>3. ValiderTache("GRACE", t)
      BY <1>5 DEF BasculerEnGrace
    <2>. QED
      BY <2>2, <2>3, <1>2, <1>4
  <1>6. CASE ExpirerFinDeGrace
    <2> DEFINE lu == tache["EXPIRATION"].lu
               t == [tenant EXCEPT !.status = "EXPIRED",
                       !.meta = [lu.meta EXCEPT !.statut = "EXPIREE", !.grace = Nul]]
    <2>1. tenant \in Tenant /\ lu \in Tenant
      BY <1>3, <1>4 DEF TypeOK
    <2>2. t \in Tenant
      BY <2>1, <1>4 DEF Tenant, MetaLicence, Statuses, Statuts
    <2>3. ValiderTache("EXPIRATION", t)
      BY <1>6 DEF ExpirerFinDeGrace
    <2>. QED
      BY <2>2, <2>3, <1>2, <1>4
  <1>. QED
    BY <1>1, <1>5, <1>6 DEF EtapeTache

(* What a row, the journal, the requests, the tasks and the cache hold has *)
(* its type, for every bound.                                              *)
THEOREM LicencesTypes == LicencesAssumption => (Spec => []TypeOK)
  <1> SUFFICES ASSUME LicencesAssumption
               PROVE  Spec => []TypeOK
    OBVIOUS
  <1>1. Init => TypeOK
    BY ViergeType, ReposType DEF Init, TypeOK, Nul, LicencesAssumption
  <1>2. TypeOK /\ [Next]_vars => TypeOK'
    <2> SUFFICES ASSUME TypeOK, [Next]_vars
                 PROVE  TypeOK'
      OBVIOUS
    <2>1. ASSUME NEW d \in Demandes, EtapeDemande(d)
          PROVE  TypeOK'
      BY <2>1, DemandeType
    <2>2. CASE EtapeTache
      BY <2>2, TacheType
    <2>3. ASSUME NEW g \in Gardes, LireGarde(g) \/ Ranger(g)
          PROVE  TypeOK'
      <3>1. garde[g] \in [pc: {"repos", "lu"}, lu: Tenant]
        BY DEF TypeOK
      <3>2. CASE LireGarde(g)
        BY <3>1, <3>2 DEF LireGarde, TypeOK
      <3>3. CASE Ranger(g)
        BY <3>1, <3>3, ViergeType DEF Ranger, TypeOK, Ouvert, ExpireA, LicencesAssumption
      <3>. QED
        BY <2>3, <3>2, <3>3
    <2>4. ASSUME NEW s \in {"ACTIVE", "SUSPENDED"}, ModifierTenant(s)
          PROVE  TypeOK'
      <3>1. tenant' \in Tenant
        BY <2>4 DEF ModifierTenant, TypeOK, Tenant, Statuses
      <3>2. dernierOuvert' \in 1..MaxHeure
        BY <2>4, ObserverType DEF ModifierTenant, TypeOK
      <3>. QED
        BY <2>4, <3>1, <3>2 DEF ModifierTenant, TypeOK, LicencesAssumption
    <2>5. CASE Tic
      <3>1. heure' \in 1..MaxHeure
        BY <2>5 DEF Tic, TypeOK, LicencesAssumption
      <3>2. dernierOuvert' \in 1..MaxHeure
        BY <2>5, <3>1, ObserverType DEF Tic
      <3>. QED
        BY <2>5, <3>1, <3>2 DEF Tic, TypeOK
    <2>6. CASE Panne
      BY <2>6, ViergeType, ReposType DEF Panne, TypeOK, Nul
    <2>7. CASE UNCHANGED vars
      BY <2>7 DEF vars, TypeOK
    <2>. QED
      BY <2>1, <2>2, <2>3, <2>4, <2>5, <2>6, <2>7 DEF Next
  <1>. QED
    BY <1>1, <1>2, PTL DEF Spec

-----------------------------------------------------------------------------
(* The access is bounded because every date that is in a row, or in a copy *)
(* of it that a transition will write back, was granted by an event of the *)
(* journal, or is the end of the grace period of such a date.              *)

Bornee(t, fin) ==
  /\ t.sub <= fin /\ t.trial <= fin /\ t.meta.prov <= fin
  /\ t.meta.grace <= fin + GraceJours

DatesAccordees ==
  /\ Bornee(tenant, accorde)
  /\ \A d \in Demandes : Bornee(acte[d].lu, accorde)
  /\ \A k \in Taches : Bornee(tache[k].lu, accorde)

LEMMA BorneeCroit ==
  ASSUME LicencesAssumption, NEW t \in Tenant, NEW f \in Nat, NEW g \in Nat, Bornee(t, f), f <= g
  PROVE  Bornee(t, g)
  BY DEF Bornee, Tenant, MetaLicence, LicencesAssumption

LEMMA ViergeBornee ==
  ASSUME LicencesAssumption, NEW f \in Nat
  PROVE  Bornee(Vierge, f)
  BY DEF Bornee, Vierge, Nul, LicencesAssumption

LEMMA CommitBorne ==
  ASSUME LicencesAssumption, TypeOK, DatesAccordees, NEW d \in Demandes, NEW op, NEW t,
         NEW fin \in Nat, Bornee(t, Plus(accorde, fin)),
         Valider(d, op, t, fin) \/ Ecrire(d, op, t, fin)
  PROVE  DatesAccordees'
  <1>1. /\ tenant' = t /\ accorde' = Plus(accorde, fin) /\ acte' = [acte EXCEPT ![d] = Repos]
        /\ tache' = tache
    BY DEF Valider, Ecrire
  <1>2. accorde \in Nat /\ accorde' \in Nat /\ accorde <= accorde'
    BY <1>1, PlusProprietes DEF TypeOK
  <1>3. \A e \in Demandes : Bornee(acte'[e].lu, accorde')
    <2>1. \A e \in Demandes : acte[e].lu \in Tenant /\ Bornee(acte[e].lu, accorde)
      BY DEF TypeOK, DatesAccordees
    <2>2. \A e \in Demandes : acte'[e].lu = Vierge \/ acte'[e].lu = acte[e].lu
      BY <1>1 DEF TypeOK, Repos
    <2>. QED
      BY <1>2, <2>1, <2>2, BorneeCroit, ViergeBornee
  <1>4. \A k \in Taches : Bornee(tache'[k].lu, accorde')
    <2>1. \A k \in Taches : tache[k].lu \in Tenant /\ Bornee(tache[k].lu, accorde)
      BY DEF TypeOK, DatesAccordees
    <2>. QED
      BY <1>1, <1>2, <2>1, BorneeCroit
  <1>. QED
    BY <1>1, <1>3, <1>4 DEF DatesAccordees

LEMMA DemandeBornee ==
  ASSUME LicencesAssumption, TypeOK, DatesAccordees, NEW d \in Demandes, EtapeDemande(d)
  PROVE  DatesAccordees'
  <1> DEFINE a == acte[d]
             m == a.lu.meta
  <1>fin. /\ a.lu \in Tenant /\ a.maintenant + a.jours \in Nat /\ NouvelleFin(a) \in Nat
    BY FinType
  <1>t. /\ tenant \in Tenant /\ Nul \in Nat /\ accorde \in Nat /\ GraceJours \in Nat
        /\ Plus(accorde, Nul) = accorde
    BY DEF TypeOK, Nul, Plus, LicencesAssumption
  <1>b. Bornee(tenant, accorde) /\ Bornee(a.lu, accorde)
    BY DEF DatesAccordees
  <1>p. \A fin \in Nat : /\ Plus(accorde, fin) \in Nat /\ fin <= Plus(accorde, fin)
                         /\ Bornee(tenant, Plus(accorde, fin)) /\ Bornee(a.lu, Plus(accorde, fin))
    BY <1>fin, <1>t, <1>b, PlusProprietes, BorneeCroit
  <1>1. ASSUME NEW op \in Operations, NEW j \in Jours(op), Lire(d, op, j)
        PROVE  DatesAccordees'
    BY <1>1, <1>b DEF Lire, TypeOK, DatesAccordees
  <1>2. CASE Invalider(d)
    BY <1>2 DEF Invalider, TypeOK, DatesAccordees
  <1>3. CASE Annuler(d)
    BY <1>3, <1>t, ViergeBornee DEF Annuler, TypeOK, DatesAccordees, Repos
  <1>4. CASE OuvrirEssai(d)
    <2> DEFINE f == a.maintenant + a.jours
               t == [tenant EXCEPT !.status = "TRIAL", !.trial = f,
                       !.meta = [m EXCEPT !.statut = "ESSAI", !.essai = TRUE,
                                          !.grace = Nul, !.prov = Nul]]
    <2>champs. t.sub = tenant.sub /\ t.trial = f /\ t.meta.grace = 0 /\ t.meta.prov = 0
      BY <1>fin, <1>t DEF Tenant, MetaLicence, Nul
    <2>1. Bornee(t, Plus(accorde, f))
      BY <2>champs, <1>fin, <1>t, <1>p DEF Bornee
    <2>2. Valider(d, "ESSAI", t, f)
      BY <1>4 DEF OuvrirEssai
    <2>. QED
      BY <2>1, <2>2, <1>fin, CommitBorne
  <1>5. CASE Renouveler(d)
    <2> DEFINE f == NouvelleFin(a)
               t == [tenant EXCEPT !.status = "ACTIVE", !.sub = f,
                       !.meta = [m EXCEPT !.statut = "ACTIVE", !.grace = Nul, !.prov = Nul]]
    <2>champs. t.sub = f /\ t.trial = tenant.trial /\ t.meta.grace = 0 /\ t.meta.prov = 0
      BY <1>fin, <1>t DEF Tenant, MetaLicence, Nul
    <2>1. Bornee(t, Plus(accorde, f))
      BY <2>champs, <1>fin, <1>t, <1>p DEF Bornee
    <2>2. Valider(d, "RENOUVELER", t, f)
      BY <1>5 DEF Renouveler
    <2>. QED
      BY <2>1, <2>2, <1>fin, CommitBorne
  <1>6. CASE AccorderProvisoire(d)
    <2> DEFINE f == a.maintenant + a.jours
               t == [tenant EXCEPT !.status = "ACTIVE",
                       !.meta = [m EXCEPT !.statut = "PROVISOIRE", !.prov = f]]
    <2>1. Bornee(t, Plus(accorde, f))
      BY <1>fin, <1>t, <1>p DEF Bornee, Tenant, MetaLicence
    <2>2. Valider(d, "PROVISOIRE", t, f)
      BY <1>6 DEF AccorderProvisoire
    <2>. QED
      BY <2>1, <2>2, <1>fin, CommitBorne
  <1>7. CASE Suspendre(d)
    <2> DEFINE t == [tenant EXCEPT !.status = "SUSPENDED", !.meta = [m EXCEPT !.statut = "SUSPENDUE"]]
    <2>1. Bornee(t, Plus(accorde, Nul))
      BY <1>fin, <1>t, <1>p DEF Bornee, Tenant, MetaLicence
    <2>2. Valider(d, "SUSPENDRE", t, Nul)
      BY <1>7 DEF Suspendre
    <2>. QED
      BY <2>1, <2>2, <1>t, CommitBorne
  <1>8. CASE Reactiver(d)
    <2> DEFINE t == [tenant EXCEPT !.status = Status(Cible(a)), !.meta = [m EXCEPT !.statut = Cible(a)]]
    <2>1. Bornee(t, Plus(accorde, Nul))
      BY <1>fin, <1>t, <1>p DEF Bornee, Tenant, MetaLicence
    <2>2. Valider(d, "REACTIVER", t, Nul)
      BY <1>8 DEF Reactiver
    <2>. QED
      BY <2>1, <2>2, <1>t, CommitBorne
  <1>9. CASE Revoquer(d)
    <2> DEFINE t == [status |-> "EXPIRED", sub |-> Nul, trial |-> Nul,
                     meta |-> [m EXCEPT !.statut = "REVOQUEE", !.grace = Nul, !.prov = Nul]]
    <2>champs. t.sub = 0 /\ t.trial = 0 /\ t.meta.grace = 0 /\ t.meta.prov = 0
      BY <1>fin DEF Tenant, MetaLicence, Nul
    <2>1. Bornee(t, Plus(accorde, Nul))
      BY <2>champs, <1>t DEF Bornee
    <2>2. Valider(d, "REVOQUER", t, Nul)
      BY <1>9 DEF Revoquer
    <2>. QED
      BY <2>1, <2>2, <1>t, CommitBorne
  <1>10. CASE AdminSuspendre(d)
    <2> DEFINE t == [tenant EXCEPT !.status = "SUSPENDED"]
    <2>1. Bornee(t, Plus(accorde, Nul))
      BY <1>t, <1>p DEF Bornee, Tenant
    <2>2. Ecrire(d, "ADMIN_SUSPENDRE", t, Nul)
      BY <1>10 DEF AdminSuspendre
    <2>. QED
      BY <2>1, <2>2, <1>t, CommitBorne
  <1>11. CASE AdminReactiver(d)
    <2> DEFINE enEssai == a.lu.sub <= a.maintenant /\ a.lu.trial > a.maintenant
               t == [tenant EXCEPT !.status = IF enEssai THEN "TRIAL" ELSE "ACTIVE"]
    <2>1. Bornee(t, Plus(accorde, Nul))
      BY <1>t, <1>p DEF Bornee, Tenant
    <2>2. Ecrire(d, "ADMIN_REACTIVER", t, Nul)
      BY <1>11 DEF AdminReactiver
    <2>. QED
      BY <2>1, <2>2, <1>t, CommitBorne
  <1>12. CASE Prolonger(d)
    <2> DEFINE f == NouvelleFin(a)
               t == [tenant EXCEPT !.sub = f,
                       !.status = IF a.lu.status = "EXPIRED" THEN "ACTIVE" ELSE a.lu.status]
    <2>1. Bornee(t, Plus(accorde, f))
      BY <1>fin, <1>t, <1>p DEF Bornee, Tenant
    <2>2. Ecrire(d, "PROLONGER", t, f)
      BY <1>12 DEF Prolonger
    <2>. QED
      BY <2>1, <2>2, <1>fin, CommitBorne
  <1>. QED
    BY <1>1, <1>2, <1>3, <1>4, <1>5, <1>6, <1>7, <1>8, <1>9, <1>10, <1>11, <1>12
       DEF EtapeDemande

LEMMA TacheBornee ==
  ASSUME LicencesAssumption, TypeOK, DatesAccordees, EtapeTache
  PROVE  DatesAccordees'
  <1>t. accorde \in Nat /\ GraceJours \in Nat /\ tenant \in Tenant
    BY DEF TypeOK, LicencesAssumption
  <1>k. \A k \in Taches : tache[k].lu \in Tenant /\ Bornee(tache[k].lu, accorde)
    BY DEF TypeOK, DatesAccordees
  <1>v. Bornee(Vierge, accorde) /\ "GRACE" \in Taches /\ "EXPIRATION" \in Taches
    BY <1>t, ViergeBornee DEF Taches
  <1>1. ASSUME NEW k \in Taches, Lister(k) \/ InvaliderTache(k)
        PROVE  DatesAccordees'
    BY <1>1, <1>k DEF Lister, InvaliderTache, TypeOK, DatesAccordees
  <1>2. ASSUME NEW k \in Taches, LireTache(k)
        PROVE  DatesAccordees'
    BY <1>2, <1>k, <1>v DEF LireTache, TypeOK, DatesAccordees
  <1>3. ASSUME NEW k \in Taches, NEW t, Bornee(t, accorde), ValiderTache(k, t)
        PROVE  DatesAccordees'
    BY <1>3, <1>k, <1>v DEF ValiderTache, TypeOK, DatesAccordees
  <1>4. CASE BasculerEnGrace
    <2> DEFINE lu == tache["GRACE"].lu
               t == [tenant EXCEPT !.status = "ACTIVE",
                       !.meta = [lu.meta EXCEPT !.statut = "GRACE", !.grace = FinGrace(lu)]]
    <2>1. lu \in Tenant /\ Bornee(lu, accorde) /\ Bornee(tenant, accorde)
      BY <1>k, <1>v DEF DatesAccordees
    <2>2. FinGrace(lu) <= accorde + GraceJours
      BY <2>1, <1>t DEF FinGrace, Echeance, Bornee, Tenant
    <2>3. Bornee(t, accorde)
      BY <2>1, <2>2, <1>t DEF Bornee, Tenant, MetaLicence
    <2>4. ValiderTache("GRACE", t)
      BY <1>4 DEF BasculerEnGrace
    <2>. QED
      BY <2>3, <2>4, <1>3, <1>v
  <1>5. CASE ExpirerFinDeGrace
    <2> DEFINE lu == tache["EXPIRATION"].lu
               t == [tenant EXCEPT !.status = "EXPIRED",
                       !.meta = [lu.meta EXCEPT !.statut = "EXPIREE", !.grace = Nul]]
    <2>1. lu \in Tenant /\ Bornee(lu, accorde) /\ Bornee(tenant, accorde)
      BY <1>k, <1>v DEF DatesAccordees
    <2>champs. /\ t.sub = tenant.sub /\ t.trial = tenant.trial
          /\ t.meta.grace = 0 /\ t.meta.prov = lu.meta.prov
      BY <2>1, <1>t DEF Tenant, MetaLicence, Nul
    <2>2. Bornee(t, accorde)
      BY <2>champs, <2>1, <1>t DEF Bornee
    <2>3. ValiderTache("EXPIRATION", t)
      BY <1>5 DEF ExpirerFinDeGrace
    <2>. QED
      BY <2>2, <2>3, <1>3, <1>v
  <1>. QED
    BY <1>1, <1>2, <1>4, <1>5 DEF EtapeTache

(* However requests, console actions and tasks overlap, and whatever stale *)
(* copy of the row they write back, the access that a grant gives ends at  *)
(* most one grace period after the latest granted date.                    *)
THEOREM AccesLimite == LicencesAssumption => (Spec => []AccesBorne)
  <1> SUFFICES ASSUME LicencesAssumption
               PROVE  Spec => []AccesBorne
    OBVIOUS
  <1>1. Init => DatesAccordees
    BY ViergeBornee DEF Init, DatesAccordees, Repos, Nul
  <1>2. TypeOK /\ DatesAccordees /\ [Next]_vars => DatesAccordees'
    <2> SUFFICES ASSUME TypeOK, DatesAccordees, [Next]_vars
                 PROVE  DatesAccordees'
      OBVIOUS
    <2>1. ASSUME NEW d \in Demandes, EtapeDemande(d)
          PROVE  DatesAccordees'
      BY <2>1, DemandeBornee
    <2>2. CASE EtapeTache
      BY <2>2, TacheBornee
    <2>3. ASSUME NEW g \in Gardes, LireGarde(g) \/ Ranger(g)
          PROVE  DatesAccordees'
      BY <2>3 DEF LireGarde, Ranger, DatesAccordees
    <2>4. ASSUME NEW s \in {"ACTIVE", "SUSPENDED"}, ModifierTenant(s)
          PROVE  DatesAccordees'
      <3>1. Bornee(tenant', accorde')
        BY <2>4 DEF ModifierTenant, DatesAccordees, Bornee, TypeOK, Tenant
      <3>. QED
        BY <2>4, <3>1 DEF ModifierTenant, DatesAccordees
    <2>5. CASE Tic
      BY <2>5 DEF Tic, DatesAccordees
    <2>6. CASE Panne
      BY <2>6, ViergeBornee DEF Panne, DatesAccordees, Repos, TypeOK
    <2>7. CASE UNCHANGED vars
      BY <2>7 DEF vars, DatesAccordees
    <2>. QED
      BY <2>1, <2>2, <2>3, <2>4, <2>5, <2>6, <2>7 DEF Next
  <1>3. TypeOK /\ DatesAccordees => AccesBorne
    BY DEF TypeOK, DatesAccordees, Bornee, AccesBorne, Deduire, Tenant, MetaLicence,
           LicencesAssumption
  <1>. QED
    BY <1>1, <1>2, <1>3, LicencesTypes, PTL DEF Spec

-----------------------------------------------------------------------------
(* The end of the subscription is what was paid for as long as no two      *)
(* extensions were computed from the same end date: only the operations    *)
(* that extend or revoke write it, and they keep the two together.         *)

LEMMA CreditExact ==
  ASSUME TypeOK, TempsPaye, NEW d \in Demandes, Crediter(acte[d]),
         tenant'.sub = NouvelleFin(acte[d])
  PROVE  TempsPaye'
  <1> DEFINE a == acte[d]
  <1>1. a.maintenant \in Nat /\ a.jours \in Nat /\ a.lu.sub \in Nat /\ paye \in Nat
    BY DEF TypeOK, Tenant
  <1>2. CASE a.lu.sub # tenant.sub
    BY <1>2 DEF Crediter, TempsPaye
  <1>3. CASE a.lu.sub = tenant.sub
    BY <1>1, <1>3 DEF Crediter, TempsPaye, NouvelleFin, Base, Plus
  <1>. QED
    BY <1>2, <1>3

LEMMA TempsInchange ==
  ASSUME TempsPaye, tenant'.sub = tenant.sub, paye' = paye, conflits \subseteq conflits'
  PROVE  TempsPaye'
  BY DEF TempsPaye

(* Renewals accumulate, for every number of requests, tasks and durations. *)
THEOREM RenouvellementsCumules == LicencesAssumption => (Spec => []TempsPaye)
  <1> SUFFICES ASSUME LicencesAssumption
               PROVE  Spec => []TempsPaye
    OBVIOUS
  <1>1. Init => TempsPaye
    BY DEF Init, TempsPaye, Vierge
  <1>2. TypeOK /\ TempsPaye /\ [Next]_vars => TempsPaye'
    <2> SUFFICES ASSUME TypeOK, TempsPaye, [Next]_vars
                 PROVE  TempsPaye'
      OBVIOUS
    <2>t. tenant \in Tenant
      BY DEF TypeOK
    <2>1. ASSUME NEW d \in Demandes, EtapeDemande(d)
          PROVE  TempsPaye'
      <3>1. CASE (\E op \in Operations : \E j \in Jours(op) : Lire(d, op, j)) \/ Invalider(d) \/ Annuler(d)
        BY <3>1, TempsInchange DEF Lire, Invalider, Annuler
      <3>2. CASE OuvrirEssai(d)
        BY <3>2, <2>t, TempsInchange DEF OuvrirEssai, Valider, Tenant
      <3>3. CASE Renouveler(d)
        BY <3>3, <2>t, CreditExact DEF Renouveler, Valider, Tenant
      <3>4. CASE AccorderProvisoire(d)
        BY <3>4, <2>t, TempsInchange DEF AccorderProvisoire, Valider, Tenant
      <3>5. CASE Suspendre(d)
        BY <3>5, <2>t, TempsInchange DEF Suspendre, Valider, Tenant
      <3>6. CASE Reactiver(d)
        BY <3>6, <2>t, TempsInchange DEF Reactiver, Valider, Tenant
      <3>7. CASE Revoquer(d)
        BY <3>7 DEF Revoquer, Valider, TempsPaye
      <3>8. CASE AdminSuspendre(d)
        BY <3>8, <2>t, TempsInchange DEF AdminSuspendre, Ecrire, Tenant
      <3>9. CASE AdminReactiver(d)
        BY <3>9, <2>t, TempsInchange DEF AdminReactiver, Ecrire, Tenant
      <3>10. CASE Prolonger(d)
        BY <3>10, <2>t, CreditExact DEF Prolonger, Ecrire, Tenant
      <3>. QED
        BY <2>1, <3>1, <3>2, <3>3, <3>4, <3>5, <3>6, <3>7, <3>8, <3>9, <3>10 DEF EtapeDemande
    <2>2. CASE EtapeTache
      <3>1. ASSUME NEW k \in Taches, Lister(k) \/ LireTache(k) \/ InvaliderTache(k)
            PROVE  TempsPaye'
        BY <3>1, TempsInchange DEF Lister, LireTache, InvaliderTache
      <3>2. CASE BasculerEnGrace
        BY <3>2, <2>t, TempsInchange DEF BasculerEnGrace, ValiderTache, Tenant
      <3>3. CASE ExpirerFinDeGrace
        BY <3>3, <2>t, TempsInchange DEF ExpirerFinDeGrace, ValiderTache, Tenant
      <3>. QED
        BY <2>2, <3>1, <3>2, <3>3 DEF EtapeTache
    <2>3. ASSUME NEW g \in Gardes, LireGarde(g) \/ Ranger(g)
          PROVE  TempsPaye'
      BY <2>3, TempsInchange DEF LireGarde, Ranger
    <2>4. ASSUME NEW s \in {"ACTIVE", "SUSPENDED"}, ModifierTenant(s)
          PROVE  TempsPaye'
      BY <2>4, <2>t, TempsInchange DEF ModifierTenant, Tenant
    <2>5. CASE Tic \/ Panne \/ UNCHANGED vars
      BY <2>5, TempsInchange DEF Tic, Panne, vars
    <2>. QED
      BY <2>1, <2>2, <2>3, <2>4, <2>5 DEF Next
  <1>. QED
    BY <1>1, <1>2, LicencesTypes, PTL DEF Spec

-----------------------------------------------------------------------------
(* A cached "open" is recent because it was computed at an instant when    *)
(* the row had just opened access, and a lifetime starts there.            *)

CacheRecent ==
  /\ dernierOuvert <= heure
  /\ Ouvert(tenant, heure) => dernierOuvert = heure
  /\ \A g \in Gardes :
       garde[g].pc = "lu" /\ Ouvert(garde[g].lu, heure) => dernierOuvert = heure
  /\ cache.ouvert => cache.expire <= dernierOuvert + Ttl

LEMMA CommitRecent ==
  ASSUME LicencesAssumption, TypeOK, CacheRecent, Observer, UNCHANGED <<heure, cache, garde>>
  PROVE  CacheRecent'
  <1>1. /\ heure \in Nat /\ dernierOuvert \in Nat /\ Ttl \in Nat /\ cache.expire \in Nat
        /\ heure' = heure /\ cache' = cache /\ garde' = garde
    BY DEF TypeOK, LicencesAssumption
  <1>2. dernierOuvert' \in {heure, dernierOuvert} /\ (Ouvert(tenant', heure') => dernierOuvert' = heure)
    BY <1>1 DEF Observer
  <1>3. dernierOuvert <= dernierOuvert' /\ dernierOuvert' <= heure'
    BY <1>1, <1>2 DEF CacheRecent
  <1>4. cache'.ouvert => cache'.expire <= dernierOuvert' + Ttl
    BY <1>1, <1>2, <1>3 DEF CacheRecent
  <1>5. \A g \in Gardes :
          garde'[g].pc = "lu" /\ Ouvert(garde'[g].lu, heure') => dernierOuvert' = heure'
    BY <1>1, <1>2 DEF CacheRecent
  <1>. QED
    BY <1>1, <1>2, <1>3, <1>4, <1>5 DEF CacheRecent

LEMMA CacheVideRecent ==
  ASSUME TypeOK, CacheRecent, UNCHANGED <<tenant, heure, dernierOuvert, garde>>,
         cache' = cache \/ ~cache'.ouvert
  PROVE  CacheRecent'
  BY DEF TypeOK, CacheRecent

LEMMA CacheInvariant ==
  ASSUME LicencesAssumption, TypeOK, CacheRecent, [Next]_vars
  PROVE  CacheRecent'
  <1>t. heure \in Nat /\ dernierOuvert \in Nat /\ Ttl \in Nat /\ cache.expire \in Nat
    BY DEF TypeOK, LicencesAssumption
  <1>1. ASSUME NEW d \in Demandes, NEW op, NEW t, NEW fin, Valider(d, op, t, fin) \/ Ecrire(d, op, t, fin)
        PROVE  CacheRecent'
    BY <1>1, CommitRecent DEF Valider, Ecrire
  <1>2. ASSUME NEW d \in Demandes, EtapeDemande(d)
        PROVE  CacheRecent'
    <2>1. CASE \/ \E op \in Operations : \E j \in Jours(op) : Lire(d, op, j)
               \/ Invalider(d) \/ Annuler(d)
      BY <2>1, CacheVideRecent DEF Lire, Invalider, Annuler
    <2>2. CASE \/ OuvrirEssai(d) \/ Renouveler(d) \/ AccorderProvisoire(d)
               \/ Suspendre(d) \/ Reactiver(d) \/ Revoquer(d)
               \/ AdminSuspendre(d) \/ AdminReactiver(d) \/ Prolonger(d)
      BY <2>2, <1>1
         DEF OuvrirEssai, Renouveler, AccorderProvisoire, Suspendre, Reactiver, Revoquer,
             AdminSuspendre, AdminReactiver, Prolonger
    <2>. QED
      BY <1>2, <2>1, <2>2 DEF EtapeDemande
  <1>3. CASE EtapeTache
    <2>1. ASSUME NEW k \in Taches, Lister(k) \/ LireTache(k) \/ InvaliderTache(k)
          PROVE  CacheRecent'
      BY <2>1, CacheVideRecent DEF Lister, LireTache, InvaliderTache
    <2>2. ASSUME NEW k, NEW t, ValiderTache(k, t)
          PROVE  CacheRecent'
      BY <2>2, CommitRecent DEF ValiderTache
    <2>. QED
      BY <1>3, <2>1, <2>2 DEF EtapeTache, BasculerEnGrace, ExpirerFinDeGrace
  <1>4. ASSUME NEW g \in Gardes, LireGarde(g)
        PROVE  CacheRecent'
    BY <1>4 DEF LireGarde, CacheRecent, TypeOK
  <1>5. ASSUME NEW g \in Gardes, Ranger(g)
        PROVE  CacheRecent'
    <2>1. /\ cache' = [ouvert |-> Ouvert(garde[g].lu, heure), expire |-> heure + Ttl]
          /\ garde[g].pc = "lu"
          /\ UNCHANGED <<tenant, heure, dernierOuvert>>
          /\ \A h \in Gardes : garde'[h].pc = "lu" => garde'[h] = garde[h]
      BY <1>5 DEF Ranger, ExpireA, TypeOK
    <2>2. cache'.ouvert => dernierOuvert = heure
      BY <2>1 DEF CacheRecent
    <2>3. cache'.ouvert => cache'.expire <= dernierOuvert' + Ttl
      BY <2>1, <2>2, <1>t
    <2>. QED
      BY <2>1, <2>3 DEF CacheRecent
  <1>6. ASSUME NEW s \in {"ACTIVE", "SUSPENDED"}, ModifierTenant(s)
        PROVE  CacheRecent'
    BY <1>6, CommitRecent DEF ModifierTenant
  <1>7. CASE Tic
    <2>1. /\ heure' = heure + 1 /\ Observer /\ UNCHANGED <<tenant, cache, garde>>
          /\ \A g \in Gardes : garde[g].pc = "repos"
      BY <1>7 DEF Tic
    <2>2. dernierOuvert <= dernierOuvert' /\ dernierOuvert' <= heure' /\ dernierOuvert' \in Nat
      BY <2>1, <1>t DEF Observer, CacheRecent
    <2>3. Ouvert(tenant', heure') => dernierOuvert' = heure'
      BY <2>1 DEF Observer
    <2>4. cache'.ouvert => cache'.expire <= dernierOuvert' + Ttl
      BY <2>1, <2>2, <1>t DEF CacheRecent
    <2>. QED
      BY <2>1, <2>2, <2>3, <2>4 DEF CacheRecent
  <1>8. CASE Panne
    BY <1>8 DEF Panne, CacheRecent
  <1>9. CASE UNCHANGED vars
    BY <1>9 DEF vars, CacheRecent
  <1>. QED
    BY <1>2, <1>3, <1>4, <1>5, <1>6, <1>7, <1>8, <1>9 DEF Next

(* The guard lets in for less than the lifetime of a cached status after   *)
(* access was closed, for every lifetime and every number of requests,     *)
(* although closing transitions empty the cache before they are visible.   *)
THEOREM CacheFrais == LicencesAssumption => (Spec => []CacheBorne)
  <1> SUFFICES ASSUME LicencesAssumption
               PROVE  Spec => []CacheBorne
    OBVIOUS
  <1>1. Init => CacheRecent
    BY DEF Init, CacheRecent, LicencesAssumption, Ouvert, Deduire, Vierge, Nul
  <1>2. TypeOK /\ CacheRecent /\ [Next]_vars => CacheRecent'
    BY CacheInvariant
  <1>3. TypeOK /\ CacheRecent => CacheBorne
    BY DEF TypeOK, CacheRecent, CacheBorne, LicencesAssumption
  <1>. QED
    BY <1>1, <1>2, <1>3, LicencesTypes, PTL DEF Spec

-----------------------------------------------------------------------------
(* A trial is opened by a request that found none in the journal: as long  *)
(* as none was opened since it read, the one it opens is the first.        *)

EssaiPremier ==
  /\ EssaiUnique
  /\ \A d \in Demandes : acte[d].pc # "repos" /\ acte[d].op = "ESSAI" => acte[d].essais = 0

LEMMA EssaiInchange ==
  ASSUME EssaiPremier, essais' = essais, conflits \subseteq conflits',
         \A d \in Demandes : \/ acte'[d].pc = "repos"
                             \/ /\ acte[d].pc # "repos"
                                /\ acte'[d].op = acte[d].op /\ acte'[d].essais = acte[d].essais
  PROVE  EssaiPremier'
  BY DEF EssaiPremier, EssaiUnique

LEMMA ActeRange ==
  ASSUME TypeOK, NEW d \in Demandes, acte' = [acte EXCEPT ![d] = Repos]
  PROVE  \A e \in Demandes : \/ acte'[e].pc = "repos"
                             \/ /\ acte[e].pc # "repos"
                                /\ acte'[e].op = acte[e].op /\ acte'[e].essais = acte[e].essais
  BY DEF TypeOK, Repos

(* A tenant has one trial, for every number of requests, unless two        *)
(* openings overlapped (licences.service.ts:340).                          *)
THEOREM UnSeulEssai == LicencesAssumption => (Spec => []EssaiUnique)
  <1> SUFFICES ASSUME LicencesAssumption
               PROVE  Spec => []EssaiUnique
    OBVIOUS
  <1>1. Init => EssaiPremier
    BY DEF Init, EssaiPremier, EssaiUnique, Repos
  <1>2. TypeOK /\ EssaiPremier /\ [Next]_vars => EssaiPremier'
    <2> SUFFICES ASSUME TypeOK, EssaiPremier, [Next]_vars
                 PROVE  EssaiPremier'
      OBVIOUS
    <2>1. ASSUME NEW d \in Demandes, EtapeDemande(d)
          PROVE  EssaiPremier'
      <3>1. ASSUME NEW op \in Operations, NEW j \in Jours(op), Lire(d, op, j)
            PROVE  EssaiPremier'
        <4>1. op = "ESSAI" => essais = 0
          BY <3>1 DEF Lire, Permis, EssaiPermis
        <4>2. /\ acte'[d].op = op /\ acte'[d].essais = essais
              /\ \A e \in Demandes \ {d} : acte'[e] = acte[e]
          BY <3>1 DEF Lire, TypeOK
        <4>. QED
          BY <3>1, <4>1, <4>2 DEF Lire, EssaiPremier, EssaiUnique
      <3>2. CASE Invalider(d)
        <4>1. /\ acte[d].pc = "lu" /\ acte'[d].op = acte[d].op /\ acte'[d].essais = acte[d].essais
              /\ \A e \in Demandes \ {d} : acte'[e] = acte[e]
          BY <3>2 DEF Invalider, TypeOK
        <4>. QED
          BY <3>2, <4>1, EssaiInchange DEF Invalider
      <3>3. CASE OuvrirEssai(d)
        <4>1. /\ acte[d].pc = "invalide" /\ acte[d].op = "ESSAI" /\ essais' = essais + 1
              /\ conflits' = IF acte[d].essais # essais THEN conflits \cup {"ESSAI"} ELSE conflits
              /\ acte' = [acte EXCEPT ![d] = Repos]
          BY <3>3 DEF OuvrirEssai, Valider
        <4>2. acte[d].essais = 0 /\ essais \in Nat
          BY <4>1 DEF EssaiPremier, TypeOK
        <4>3. EssaiUnique'
          BY <4>1, <4>2 DEF EssaiUnique
        <4>. QED
          BY <4>1, <4>3, ActeRange DEF EssaiPremier
      <3>4. CASE \/ Annuler(d) \/ Renouveler(d) \/ AccorderProvisoire(d)
                 \/ Suspendre(d) \/ Reactiver(d) \/ Revoquer(d)
                 \/ AdminSuspendre(d) \/ AdminReactiver(d) \/ Prolonger(d)
        <4>1. acte' = [acte EXCEPT ![d] = Repos]
          BY <3>4 DEF Annuler, Renouveler, AccorderProvisoire, Suspendre, Reactiver, Revoquer,
                      AdminSuspendre, AdminReactiver, Prolonger, Valider, Ecrire
        <4>2. essais' = essais /\ conflits \subseteq conflits'
          BY <3>4 DEF Annuler, Renouveler, AccorderProvisoire, Suspendre, Reactiver, Revoquer,
                      AdminSuspendre, AdminReactiver, Prolonger, Ecrire, Crediter
        <4>. QED
          BY <4>1, <4>2, ActeRange, EssaiInchange
      <3>. QED
        BY <2>1, <3>1, <3>2, <3>3, <3>4 DEF EtapeDemande
    <2>2. CASE EtapeTache
      <3>1. UNCHANGED <<essais, conflits, acte>>
        BY <2>2 DEF EtapeTache, Lister, LireTache, InvaliderTache, BasculerEnGrace,
                    ExpirerFinDeGrace, ValiderTache
      <3>. QED
        BY <3>1 DEF EssaiPremier, EssaiUnique
    <2>3. ASSUME NEW g \in Gardes, LireGarde(g) \/ Ranger(g)
          PROVE  EssaiPremier'
      BY <2>3 DEF LireGarde, Ranger, EssaiPremier, EssaiUnique
    <2>4. ASSUME NEW s \in {"ACTIVE", "SUSPENDED"}, ModifierTenant(s)
          PROVE  EssaiPremier'
      BY <2>4 DEF ModifierTenant, EssaiPremier, EssaiUnique
    <2>5. CASE Tic \/ UNCHANGED vars
      BY <2>5 DEF Tic, vars, EssaiPremier, EssaiUnique
    <2>6. CASE Panne
      BY <2>6, EssaiInchange DEF Panne, Repos
    <2>. QED
      BY <2>1, <2>2, <2>3, <2>4, <2>5, <2>6 DEF Next
  <1>3. EssaiPremier => EssaiUnique
    BY DEF EssaiPremier
  <1>. QED
    BY <1>1, <1>2, <1>3, LicencesTypes, PTL DEF Spec
=============================================================================
