------------------------------ MODULE Licences ------------------------------
(***************************************************************************)
(* LicencesService and its scheduler, with the administrator's console:    *)
(* the licence of one tenant. Every transition reads the row, decides, and *)
(* writes columns and the whole settings.licence object back from what it  *)
(* has read; transitions, scheduled tasks and the console interleave. The  *)
(* guard of the application reads a status kept in memory for a short      *)
(* time. A date is an instant of the clock; Nul is the absent one.         *)
(***************************************************************************)
EXTENDS Integers

CONSTANTS
  Demandes,       \* requests in progress at once
  Gardes,         \* guarded requests that miss the cache at once
  Durees,         \* durations asked for
  GraceJours,     \* length of the grace period
  ProvisoireMax,  \* longest provisional licence
  Ttl,            \* how long a cached status serves
  MaxHeure,       \* bound: last instant of the clock
  MaxDemandes     \* bound: requests started

ASSUME LicencesAssumption ==
  /\ Durees \subseteq Nat \ {0}
  /\ {GraceJours, ProvisoireMax, Ttl, MaxHeure, MaxDemandes} \subseteq Nat \ {0}

VARIABLES
  tenant,        \* row of table Tenant
  accorde,       \* table LicenceEvent: latest end date of the grants
  essais,        \* table LicenceEvent: number of ESSAI_ACTIVE
  acte,          \* progress of the requests
  tache,         \* progress of the two scheduled tasks
  cache,         \* cacheStatut: the answer of the guard and its expiry
  garde,         \* progress of the guarded requests
  heure,         \* clock
  demandes,      \* requests started so far
  paye,          \* history: until when access was paid for
  conflits,      \* history: what a request decided on had changed when it wrote
  dernierOuvert  \* history: last instant when the row opened access

vars == <<tenant, accorde, essais, acte, tache, cache, garde, heure, demandes, paye, conflits,
          dernierOuvert>>

Nul == 0  \* the clock starts after it, so that Nul is never in the future

Taches == {"GRACE", "EXPIRATION"}
Operations == {"ESSAI", "RENOUVELER", "PROVISOIRE", "SUSPENDRE", "REACTIVER", "REVOQUER",
               "ADMIN_SUSPENDRE", "ADMIN_REACTIVER", "PROLONGER"}

Statuses == {"ACTIVE", "SUSPENDED", "TRIAL", "EXPIRED"}
Statuts == {"ESSAI", "PROVISOIRE", "ACTIVE", "GRACE", "DECOUVERTE", "EXPIREE", "SUSPENDUE",
            "REVOQUEE"}

MetaLicence == [statut: Statuts \cup {"AUCUN"}, essai: BOOLEAN, grace: Nat, prov: Nat]
Tenant == [status: Statuses, sub: Nat, trial: Nat, meta: MetaLicence]

(* A tenant as TenantsService.create leaves it.                            *)
Vierge == [status |-> "ACTIVE", sub |-> Nul, trial |-> Nul,
           meta |-> [statut |-> "AUCUN", essai |-> FALSE, grace |-> Nul, prov |-> Nul]]

Repos == [pc |-> "repos", op |-> "AUCUNE", jours |-> 0, maintenant |-> 0, essais |-> 0,
          lu |-> Vierge]

TypeOK ==
  /\ tenant \in Tenant
  /\ accorde \in Nat /\ essais \in Nat /\ paye \in Nat
  /\ acte \in [Demandes -> [pc: {"repos", "lu", "invalide"}, op: Operations \cup {"AUCUNE"},
                            jours: Nat, maintenant: Nat, essais: Nat, lu: Tenant]]
  /\ tache \in [Taches -> [pc: {"repos", "liste", "lu", "ecrit"}, lu: Tenant]]
  /\ cache \in [ouvert: BOOLEAN, expire: Nat]
  /\ garde \in [Gardes -> [pc: {"repos", "lu"}, lu: Tenant]]
  /\ heure \in 1..MaxHeure
  /\ demandes \in 0..MaxDemandes
  /\ conflits \subseteq {"ESSAI", "ECHEANCE"}
  /\ dernierOuvert \in 1..MaxHeure

Init ==
  /\ tenant = Vierge
  /\ accorde = Nul /\ essais = 0 /\ paye = Nul
  /\ acte = [d \in Demandes |-> Repos]
  /\ tache = [k \in Taches |-> [pc |-> "repos", lu |-> Vierge]]
  /\ cache = [ouvert |-> FALSE, expire |-> Nul]
  /\ garde = [g \in Gardes |-> [pc |-> "repos", lu |-> Vierge]]
  /\ heure = 1
  /\ demandes = 0
  /\ conflits = {}
  /\ dernierOuvert = 1

-----------------------------------------------------------------------------
(* deduireStatut: the dates first, what settings remember last. Nothing    *)
(* writes EN_ATTENTE_PAIEMENT (its writer has no caller), and a licence of *)
(* demonstration is seeded and never leaves DEMO: both are left out.       *)

Deduire(t, h) ==
  IF t.meta.statut = "REVOQUEE" THEN "REVOQUEE"
  ELSE IF t.status = "SUSPENDED" THEN "SUSPENDUE"
  ELSE IF t.meta.prov > h THEN "PROVISOIRE"
  ELSE IF t.sub > h THEN "ACTIVE"
  ELSE IF t.trial > h /\ t.sub = Nul THEN "ESSAI"
  ELSE IF t.meta.grace > h THEN "GRACE"
  ELSE IF t.sub = Nul THEN "DECOUVERTE" ELSE "EXPIREE"

Ouvert(t, h) == Deduire(t, h) \in {"ESSAI", "PROVISOIRE", "ACTIVE", "GRACE", "DECOUVERTE"}

(* What every step that changes the row or the clock records of the access.*)
Observer == dernierOuvert' = IF Ouvert(tenant', heure') THEN heure' ELSE dernierOuvert

Plus(a, b) == IF a > b THEN a ELSE b

-----------------------------------------------------------------------------
(* A request reads the row and refuses, without a change, or decides.      *)

Revoquee(t) == t.meta.statut = "REVOQUEE"

(* Mutation: a trial is refused during a trial only.                       *)
MutEssaiPermis(t) == t.meta.statut # "ESSAI"

EssaiPermis(t) == essais = 0 /\ ~t.meta.essai

ProvisoirePermise(t, j) == j <= ProvisoireMax /\ ~Revoquee(t)

Permis(op, j, t) ==
  CASE op = "ESSAI" -> EssaiPermis(t)
    [] op \in {"RENOUVELER", "REVOQUER"} -> ~Revoquee(t)
    [] op = "PROVISOIRE" -> ProvisoirePermise(t, j)
    [] op = "SUSPENDRE" -> Deduire(t, heure) \notin {"SUSPENDUE", "REVOQUEE"}
    [] op = "REACTIVER" -> ~Revoquee(t) /\ t.status = "SUSPENDED"
    [] op = "ADMIN_SUSPENDRE" -> t.status # "SUSPENDED"
    [] op = "ADMIN_REACTIVER" -> t.status = "SUSPENDED"
    [] op = "PROLONGER" -> TRUE

(* The durations a request may carry.                                      *)
Jours(op) == IF op \in {"ESSAI", "RENOUVELER", "PROVISOIRE", "PROLONGER"} THEN Durees ELSE {0}

Lire(d, op, j) ==
  /\ acte[d].pc = "repos" /\ demandes < MaxDemandes
  /\ Permis(op, j, tenant)
  /\ acte' = [acte EXCEPT ![d] = [pc |-> "lu", op |-> op, jours |-> j, maintenant |-> heure,
                                  essais |-> essais, lu |-> tenant]]
  /\ demandes' = demandes + 1
  /\ UNCHANGED <<tenant, accorde, essais, tache, cache, garde, heure, paye, conflits,
                 dernierOuvert>>

(* construireStatut drops the cached status inside the transaction, before *)
(* its writes become visible.                                              *)
Invalider(d) ==
  /\ acte[d].pc = "lu"
  /\ acte[d].op \notin {"ADMIN_SUSPENDRE", "ADMIN_REACTIVER", "PROLONGER"}
  /\ acte' = [acte EXCEPT ![d].pc = "invalide"]
  /\ cache' = [ouvert |-> FALSE, expire |-> Nul]
  /\ UNCHANGED <<tenant, accorde, essais, tache, garde, heure, demandes, paye, conflits,
                 dernierOuvert>>

(* The transaction of d commits: the row becomes t, the journal records a  *)
(* grant until fin.                                                        *)
Valider(d, op, t, fin) ==
  /\ acte[d].op = op /\ acte[d].pc = "invalide"
  /\ tenant' = t
  /\ accorde' = Plus(accorde, fin)
  /\ acte' = [acte EXCEPT ![d] = Repos]
  /\ UNCHANGED <<tache, cache, garde, heure, demandes>>
  /\ Observer

OuvrirEssai(d) ==
  LET a == acte[d]
      fin == a.maintenant + a.jours
  IN  /\ Valider(d, "ESSAI",
                 [tenant EXCEPT !.status = "TRIAL", !.trial = fin,
                    !.meta = [a.lu.meta EXCEPT !.statut = "ESSAI", !.essai = TRUE,
                                               !.grace = Nul, !.prov = Nul]], fin)
      /\ essais' = essais + 1
      /\ conflits' = IF a.essais # essais THEN conflits \cup {"ESSAI"} ELSE conflits
      /\ UNCHANGED paye

(* Mutation: a renewal counts from now, even before the end of the period. *)
MutBase(a) == a.maintenant

Base(a) == IF a.lu.sub > a.maintenant THEN a.lu.sub ELSE a.maintenant

NouvelleFin(a) == Base(a) + a.jours

(* What a customer is owed by an extension, and whether it was computed    *)
(* from an end date that another request has changed since.                *)
Crediter(a) ==
  /\ paye' = Plus(paye, a.maintenant) + a.jours
  /\ conflits' = IF a.lu.sub # tenant.sub THEN conflits \cup {"ECHEANCE"} ELSE conflits

Renouveler(d) ==
  LET a == acte[d]
  IN  /\ Valider(d, "RENOUVELER",
                 [tenant EXCEPT !.status = "ACTIVE", !.sub = NouvelleFin(a),
                    !.meta = [a.lu.meta EXCEPT !.statut = "ACTIVE", !.grace = Nul,
                                               !.prov = Nul]], NouvelleFin(a))
      /\ Crediter(a)
      /\ UNCHANGED essais

AccorderProvisoire(d) ==
  LET a == acte[d]
      fin == a.maintenant + a.jours
  IN  /\ Valider(d, "PROVISOIRE",
                 [tenant EXCEPT !.status = "ACTIVE",
                    !.meta = [a.lu.meta EXCEPT !.statut = "PROVISOIRE", !.prov = fin]], fin)
      /\ UNCHANGED <<essais, paye, conflits>>

Suspendre(d) ==
  /\ Valider(d, "SUSPENDRE",
             [tenant EXCEPT !.status = "SUSPENDED",
                !.meta = [acte[d].lu.meta EXCEPT !.statut = "SUSPENDUE"]], Nul)
  /\ UNCHANGED <<essais, paye, conflits>>

(* The status a lifted suspension gives back, from the dates alone.        *)
Cible(a) == Deduire([a.lu EXCEPT !.status = "ACTIVE", !.meta.statut = "AUCUN"], a.maintenant)

(* Mutation: the status of the licence is written as that of the tenant.   *)
MutStatus(cible) == cible

Status(cible) == CASE cible = "EXPIREE" -> "EXPIRED"
                   [] cible = "ESSAI" -> "TRIAL"
                   [] OTHER -> "ACTIVE"

Reactiver(d) ==
  LET a == acte[d]
  IN  /\ Valider(d, "REACTIVER",
                 [tenant EXCEPT !.status = Status(Cible(a)),
                    !.meta = [a.lu.meta EXCEPT !.statut = Cible(a)]], Nul)
      /\ UNCHANGED <<essais, paye, conflits>>

Revoquer(d) ==
  /\ Valider(d, "REVOQUER",
             [status |-> "EXPIRED", sub |-> Nul, trial |-> Nul,
              meta |-> [acte[d].lu.meta EXCEPT !.statut = "REVOQUEE", !.grace = Nul,
                                               !.prov = Nul]], Nul)
  /\ paye' = Nul
  /\ UNCHANGED <<essais, conflits>>

(* A transaction fails, after the cache was emptied.                       *)
Annuler(d) ==
  /\ acte[d].pc = "invalide"
  /\ acte' = [acte EXCEPT ![d] = Repos]
  /\ UNCHANGED <<tenant, accorde, essais, tache, cache, garde, heure, demandes, paye, conflits,
                 dernierOuvert>>

-----------------------------------------------------------------------------
(* The console of the super-administrator writes columns of the row, leaves*)
(* settings and the cache alone.                                           *)

Ecrire(d, op, t, fin) ==
  /\ acte[d].op = op /\ acte[d].pc = "lu"
  /\ tenant' = t
  /\ accorde' = Plus(accorde, fin)
  /\ acte' = [acte EXCEPT ![d] = Repos]
  /\ UNCHANGED <<essais, tache, cache, garde, heure, demandes>>
  /\ Observer

AdminSuspendre(d) ==
  /\ Ecrire(d, "ADMIN_SUSPENDRE", [tenant EXCEPT !.status = "SUSPENDED"], Nul)
  /\ UNCHANGED <<paye, conflits>>

AdminReactiver(d) ==
  LET a == acte[d]
      enEssai == a.lu.sub <= a.maintenant /\ a.lu.trial > a.maintenant
  IN  /\ Ecrire(d, "ADMIN_REACTIVER",
                [tenant EXCEPT !.status = IF enEssai THEN "TRIAL" ELSE "ACTIVE"], Nul)
      /\ UNCHANGED <<paye, conflits>>

Prolonger(d) ==
  LET a == acte[d]
  IN  /\ Ecrire(d, "PROLONGER",
                [tenant EXCEPT !.sub = NouvelleFin(a),
                   !.status = IF a.lu.status = "EXPIRED" THEN "ACTIVE" ELSE a.lu.status],
                NouvelleFin(a))
      /\ Crediter(a)

(* TenantsService.update and deactivate write the status blindly.          *)
ModifierTenant(s) ==
  /\ demandes < MaxDemandes
  /\ demandes' = demandes + 1
  /\ tenant' = [tenant EXCEPT !.status = s]
  /\ UNCHANGED <<accorde, essais, acte, tache, cache, garde, heure, paye, conflits>>
  /\ Observer

-----------------------------------------------------------------------------
(* The scheduled tasks: list the tenants, then take each in a transaction. *)

Echeance(t) == IF t.sub # Nul THEN t.sub ELSE t.trial

(* Mutation: the grace period counts from the passage of the task.         *)
MutFinGrace(t) == heure + GraceJours

FinGrace(t) == Echeance(t) + GraceJours

Candidat(k, t) ==
  /\ t.status \in {"ACTIVE", "TRIAL"}
  /\ IF k = "GRACE" THEN Echeance(t) # Nul /\ Echeance(t) < heure
     ELSE t.meta.statut = "GRACE" /\ t.meta.grace # Nul /\ t.meta.grace <= heure

Lister(k) ==
  /\ tache[k].pc = "repos" /\ Candidat(k, tenant)
  /\ tache' = [tache EXCEPT ![k].pc = "liste"]
  /\ UNCHANGED <<tenant, accorde, essais, acte, cache, garde, heure, demandes, paye, conflits,
                 dernierOuvert>>

(* What basculerEnGrace and expirerFinDeGrace test again on the row.       *)
AFaire(k, t) ==
  IF k = "GRACE"
  THEN /\ Echeance(t) # Nul /\ Echeance(t) <= heure
       /\ t.meta.statut \notin {"REVOQUEE", "SUSPENDUE", "EXPIREE"}
       /\ t.meta.grace # FinGrace(t) /\ t.meta.grace <= heure
  ELSE t.meta.statut = "GRACE" /\ t.meta.grace # Nul /\ t.meta.grace <= heure

LireTache(k) ==
  /\ tache[k].pc = "liste"
  /\ tache' = [tache EXCEPT ![k] = IF AFaire(k, tenant) THEN [pc |-> "lu", lu |-> tenant]
                                   ELSE [pc |-> "repos", lu |-> Vierge]]
  /\ UNCHANGED <<tenant, accorde, essais, acte, cache, garde, heure, demandes, paye, conflits,
                 dernierOuvert>>

ValiderTache(k, t) ==
  /\ tache[k].pc = "lu"
  /\ tenant' = t
  /\ tache' = [tache EXCEPT ![k] = [pc |-> "ecrit", lu |-> Vierge]]
  /\ UNCHANGED <<accorde, essais, acte, cache, garde, heure, demandes, paye, conflits>>
  /\ Observer

BasculerEnGrace ==
  LET lu == tache["GRACE"].lu
  IN  ValiderTache("GRACE",
        [tenant EXCEPT !.status = "ACTIVE",
           !.meta = [lu.meta EXCEPT !.statut = "GRACE", !.grace = FinGrace(lu)]])

ExpirerFinDeGrace ==
  ValiderTache("EXPIRATION",
    [tenant EXCEPT !.status = "EXPIRED",
       !.meta = [tache["EXPIRATION"].lu.meta EXCEPT !.statut = "EXPIREE", !.grace = Nul]])

(* The tasks drop the cached status after their transaction.               *)
InvaliderTache(k) ==
  /\ tache[k].pc = "ecrit"
  /\ tache' = [tache EXCEPT ![k].pc = "repos"]
  /\ cache' = [ouvert |-> FALSE, expire |-> Nul]
  /\ UNCHANGED <<tenant, accorde, essais, acte, garde, heure, demandes, paye, conflits,
                 dernierOuvert>>

-----------------------------------------------------------------------------
(* The guard: getStatutLicenceCache. A hit changes nothing.                *)

LireGarde(g) ==
  /\ garde[g].pc = "repos" /\ cache.expire <= heure
  /\ garde' = [garde EXCEPT ![g] = [pc |-> "lu", lu |-> tenant]]
  /\ UNCHANGED <<tenant, accorde, essais, acte, tache, cache, heure, demandes, paye, conflits,
                 dernierOuvert>>

(* Mutation: a status serves one instant too long.                         *)
MutExpireA == heure + Ttl + 1

ExpireA == heure + Ttl

Ranger(g) ==
  /\ garde[g].pc = "lu"
  /\ cache' = [ouvert |-> Ouvert(garde[g].lu, heure), expire |-> ExpireA]
  /\ garde' = [garde EXCEPT ![g] = [pc |-> "repos", lu |-> Vierge]]
  /\ UNCHANGED <<tenant, accorde, essais, acte, tache, heure, demandes, paye, conflits,
                 dernierOuvert>>

-----------------------------------------------------------------------------
(* A guarded request reads one row: the clock does not wait for requests   *)
(* and tasks, but its unit is longer than such a read.                     *)
Tic ==
  /\ heure < MaxHeure
  /\ \A g \in Gardes : garde[g].pc = "repos"
  /\ heure' = heure + 1
  /\ UNCHANGED <<tenant, accorde, essais, acte, tache, cache, garde, demandes, paye, conflits>>
  /\ Observer

(* A restart forgets what was in progress, and the cache.                  *)
Panne ==
  /\ acte' = [d \in Demandes |-> Repos]
  /\ tache' = [k \in Taches |-> [pc |-> "repos", lu |-> Vierge]]
  /\ garde' = [g \in Gardes |-> [pc |-> "repos", lu |-> Vierge]]
  /\ cache' = [ouvert |-> FALSE, expire |-> Nul]
  /\ UNCHANGED <<tenant, accorde, essais, heure, demandes, paye, conflits, dernierOuvert>>

EtapeDemande(d) ==
  \/ \E op \in Operations : \E j \in Jours(op) : Lire(d, op, j)
  \/ Invalider(d) \/ Annuler(d)
  \/ OuvrirEssai(d) \/ Renouveler(d) \/ AccorderProvisoire(d)
  \/ Suspendre(d) \/ Reactiver(d) \/ Revoquer(d)
  \/ AdminSuspendre(d) \/ AdminReactiver(d) \/ Prolonger(d)

EtapeTache ==
  \/ \E k \in Taches : Lister(k) \/ LireTache(k) \/ InvaliderTache(k)
  \/ BasculerEnGrace \/ ExpirerFinDeGrace

Next ==
  \/ \E d \in Demandes : EtapeDemande(d)
  \/ EtapeTache
  \/ \E g \in Gardes : LireGarde(g) \/ Ranger(g)
  \/ \E s \in {"ACTIVE", "SUSPENDED"} : ModifierTenant(s)
  \/ Tic \/ Panne

Spec == Init /\ [][Next]_vars
-----------------------------------------------------------------------------
(* Properties *)

(* A remembered status never prolongs an access the calendar has closed    *)
(* (licences.service.ts:1072): whatever overlaps, the access given by a    *)
(* trial, a subscription, a provisional licence or a grace period ends at  *)
(* most one grace period after the latest date that was ever granted.      *)
AccesBorne ==
  Deduire(tenant, heure) \in {"ESSAI", "PROVISOIRE", "ACTIVE", "GRACE"}
    => heure < accorde + GraceJours

(* A tenant has one trial (licences.service.ts:340), even after it was     *)
(* revoked, suspended or expired, unless two openings overlapped.          *)
EssaiUnique == "ESSAI" \notin conflits => essais <= 1

(* Renewals accumulate (licences.service.ts:439): the end of the           *)
(* subscription is what was paid for, whatever suspensions, grace periods, *)
(* expirations and console actions come in between, and whatever overlaps, *)
(* unless two extensions were computed from the same end date.             *)
TempsPaye == "ECHEANCE" \notin conflits => tenant.sub = paye

(* « Révocation définitive [...] la licence ne peut plus être réactivée »  *)
(* (licences.service.ts:647): no step takes a licence out of revocation.   *)
RevocationDefinitive == [][Revoquee(tenant) => Revoquee(tenant')]_vars

(* The guard never lets in for longer than the lifetime of a cached status *)
(* after access was closed (licences.service.ts:155), although the cache   *)
(* is emptied before the closing transaction is visible.                   *)
CacheBorne == cache.ouvert /\ cache.expire > heure => heure < dernierOuvert + Ttl
=============================================================================
