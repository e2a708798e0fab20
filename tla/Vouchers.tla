------------------------------ MODULE Vouchers ------------------------------
(***************************************************************************)
(* VouchersService: generation of a batch of prepaid codes, consumption of *)
(* a code, cancellation of a batch. Consumption is one conditional UPDATE, *)
(* decided by the database, and a read that only words the answer;         *)
(* generation inserts random codes until the batch is complete, skipping   *)
(* those that exist. Requests interleave, and the process may stop.        *)
(***************************************************************************)
EXTENDS Integers, FiniteSets

CONSTANTS
  Codes,          \* the codes the generator can draw
  Generations,    \* requests that generate a batch
  Lots,           \* names of batches, chosen by the caller or drawn at random
  Requetes,       \* requests that consume a code, each also its user
  Tenants,        \* tenants a code may be attached to
  TenantDe,       \* the tenant of each user, Aucun for the platform's staff
  Quantites,      \* sizes of batches
  Validites,      \* durations of validity, Jamais for no limit
  Jamais,         \* "no expiry date"
  Aucun,          \* "no value"
  MaxTentatives,  \* insertions a generation tries before giving up
  MaxHeure,       \* bound: last instant of the clock
  MaxPannes       \* bound: how many times the process may be restarted

ASSUME VouchersAssumption ==
  /\ Quantites \subseteq Nat \ {0}
  /\ Validites \subseteq (Nat \ {0}) \cup {Jamais}
  /\ Jamais \notin Nat
  /\ Aucun \notin Requetes \cup Lots \cup Tenants
  /\ TenantDe \in [Requetes -> Tenants \cup {Aucun}]
  /\ IsFiniteSet(Codes)
  /\ {MaxTentatives, MaxHeure, MaxPannes} \subseteq Nat

VARIABLES
  voucher,  \* table Voucher
  gen,      \* progress of the generations
  req,      \* progress of the consumptions
  heure,    \* clock
  pannes    \* restarts so far

vars == <<voucher, gen, req, heure, pannes>>

Statuts == {"DISPONIBLE", "UTILISE", "ANNULE"}

(* A row; "par", the generation that inserted it, is a history no column   *)
(* holds: the lot is all the table knows.                                  *)
Voucher == [statut: Statuts, lot: Lots, par: Generations, tenant: Tenants \cup {Aucun},
            expire: Nat \cup {Jamais}, utilisePar: Requetes \cup {Aucun}]

Absent == [statut |-> "ABSENT", utilisePar |-> Aucun]

(* "lu" precedes the UPDATE, "consomme" and "rejet" follow it, the others  *)
(* are answers; "perdu" when the process stopped before the answer.        *)
Consommation == [pc: {"repos", "lu", "consomme", "rejet", "accepte", "inexistant",
                      "utilise", "expire", "indisponible", "perdu"},
                 code: Codes \cup {Aucun}, maintenant: Nat]

(* "annonce" is the number of codes the answer gives for the batch.        *)
Generation == [pc: {"repos", "boucle", "fini", "echec", "perdu"}, lot: Lots \cup {Aucun},
               quantite: Nat, restants: Nat, tentatives: 0..MaxTentatives, annonce: Nat,
               tenant: Tenants \cup {Aucun}, expire: Nat \cup {Jamais}]

TypeOK ==
  /\ voucher \in [Codes -> Voucher \cup {Absent}]
  /\ gen \in [Generations -> Generation]
  /\ req \in [Requetes -> Consommation]
  /\ heure \in 0..MaxHeure
  /\ pannes \in 0..MaxPannes

Init ==
  /\ voucher = [c \in Codes |-> Absent]
  /\ gen = [g \in Generations |-> [pc |-> "repos", lot |-> Aucun, quantite |-> 0, restants |-> 0,
                                   tentatives |-> 0, annonce |-> 0, tenant |-> Aucun,
                                   expire |-> Jamais]]
  /\ req = [r \in Requetes |-> [pc |-> "repos", code |-> Aucun, maintenant |-> 0]]
  /\ heure = 0
  /\ pannes = 0

-----------------------------------------------------------------------------
(* genererLot *)

Echeance(d) == IF d = Jamais THEN Jamais ELSE heure + d

(* The lot may be one that exists: nothing looks.                          *)
DemarrerLot(g, l, q, d, t) ==
  /\ gen[g].pc = "repos"
  /\ gen' = [gen EXCEPT ![g] = [pc |-> "boucle", lot |-> l, quantite |-> q, restants |-> q,
                                tentatives |-> 0, annonce |-> 0, tenant |-> t,
                                expire |-> Echeance(d)]]
  /\ UNCHANGED <<voucher, req, heure, pannes>>

NouveauVoucher(g) == [statut |-> "DISPONIBLE", lot |-> gen[g].lot, par |-> g,
                      tenant |-> gen[g].tenant, expire |-> gen[g].expire, utilisePar |-> Aucun]

(* Mutation: the codes drawn are counted, not the ones inserted.           *)
MutReste(g, tires, inseres) == gen[g].restants - Cardinality(tires)

Reste(g, tires, inseres) == gen[g].restants - Cardinality(inseres)

(* Mutation: the loop tests the number of attempts one too late.           *)
MutEncore(g) == gen[g].restants > 0 /\ gen[g].tentatives <= MaxTentatives

Encore(g) == gen[g].restants > 0 /\ gen[g].tentatives < MaxTentatives

(* As many codes as remain are drawn; those that exist already, in this    *)
(* batch or in another one, are skipped.                                   *)
InsererCodes(g, tires) ==
  LET inseres == {c \in tires : voucher[c] = Absent}
  IN  /\ gen[g].pc = "boucle" /\ Encore(g)
      /\ Cardinality(tires) = gen[g].restants
      /\ voucher' = [c \in Codes |-> IF c \in inseres THEN NouveauVoucher(g) ELSE voucher[c]]
      /\ gen' = [gen EXCEPT ![g].restants = Reste(g, tires, inseres), ![g].tentatives = @ + 1]
      /\ UNCHANGED <<req, heure, pannes>>

CodesDuLot(l) == {c \in Codes : voucher[c] # Absent /\ voucher[c].lot = l}

(* The answer lists, and counts, the codes of the lot.                     *)
AnnoncerLot(g) ==
  /\ gen[g].pc = "boucle" /\ ~Encore(g) /\ gen[g].restants <= 0
  /\ gen' = [gen EXCEPT ![g].pc = "fini", ![g].annonce = Cardinality(CodesDuLot(gen[g].lot))]
  /\ UNCHANGED <<voucher, req, heure, pannes>>

(* A batch that cannot be completed is refused; its codes stay.            *)
RefuserLot(g) ==
  /\ gen[g].pc = "boucle" /\ ~Encore(g) /\ gen[g].restants > 0
  /\ gen' = [gen EXCEPT ![g].pc = "echec"]
  /\ UNCHANGED <<voucher, req, heure, pannes>>

-----------------------------------------------------------------------------
(* consommer *)

(* The instant the expiry is compared with is taken before the UPDATE.     *)
DemarrerConsommation(r, c) ==
  /\ req[r].pc = "repos"
  /\ req' = [req EXCEPT ![r] = [pc |-> "lu", code |-> c, maintenant |-> heure]]
  /\ UNCHANGED <<voucher, gen, heure, pannes>>

Expire(v, r) == IF v.expire = Jamais THEN FALSE ELSE v.expire <= req[r].maintenant

(* Mutation: the status is not a condition of the UPDATE.                  *)
MutConsommable(v, r) ==
  /\ v # Absent
  /\ ~Expire(v, r)
  /\ TenantDe[r] = Aucun \/ v.tenant \in {TenantDe[r], Aucun}

(* The WHERE clause of the UPDATE.                                         *)
Consommable(v, r) ==
  /\ v.statut = "DISPONIBLE"
  /\ ~Expire(v, r)
  /\ TenantDe[r] = Aucun \/ v.tenant \in {TenantDe[r], Aucun}

Consommer(r) ==
  LET c == req[r].code
  IN  /\ req[r].pc = "lu"
      /\ Consommable(voucher[c], r)
      /\ voucher' = [voucher EXCEPT ![c].statut = "UTILISE", ![c].utilisePar = r]
      /\ req' = [req EXCEPT ![r].pc = "consomme"]
      /\ UNCHANGED <<gen, heure, pannes>>

Rejeter(r) ==
  /\ req[r].pc = "lu"
  /\ ~Consommable(voucher[req[r].code], r)
  /\ req' = [req EXCEPT ![r].pc = "rejet"]
  /\ UNCHANGED <<voucher, gen, heure, pannes>>

(* Mutation: every refusal of an existing code says it was used.           *)
MutMotif(v, r) == IF v = Absent THEN "inexistant" ELSE "utilise"

Motif(v, r) ==
  IF v = Absent THEN "inexistant"
  ELSE IF v.statut = "UTILISE" THEN "utilise"
  ELSE IF Expire(v, r) THEN "expire"
  ELSE "indisponible"

(* The answer reads the row again, and decides nothing.                    *)
Repondre(r) ==
  /\ req[r].pc \in {"consomme", "rejet"}
  /\ req' = [req EXCEPT ![r].pc = IF req[r].pc = "consomme" THEN "accepte"
                                  ELSE Motif(voucher[req[r].code], r)]
  /\ UNCHANGED <<voucher, gen, heure, pannes>>

-----------------------------------------------------------------------------
(* annulerLot, the clock and restarts *)

(* Mutation: the whole batch is cancelled, the codes already used as well. *)
MutAnnulable(v, lot) == v # Absent /\ v.lot = lot

Annulable(v, lot) == v # Absent /\ v.lot = lot /\ v.statut = "DISPONIBLE"

AnnulerLot(lot) ==
  /\ \E c \in Codes : Annulable(voucher[c], lot)
  /\ voucher' = [c \in Codes |-> IF Annulable(voucher[c], lot)
                                 THEN [voucher[c] EXCEPT !.statut = "ANNULE"] ELSE voucher[c]]
  /\ UNCHANGED <<gen, req, heure, pannes>>

Tic == heure < MaxHeure /\ heure' = heure + 1 /\ UNCHANGED <<voucher, gen, req, pannes>>

Panne ==
  /\ pannes < MaxPannes
  /\ pannes' = pannes + 1
  /\ gen' = [g \in Generations |-> IF gen[g].pc = "boucle" THEN [gen[g] EXCEPT !.pc = "perdu"]
                                   ELSE gen[g]]
  /\ req' = [r \in Requetes |-> IF req[r].pc \in {"lu", "consomme", "rejet"}
                                THEN [req[r] EXCEPT !.pc = "perdu"] ELSE req[r]]
  /\ UNCHANGED <<voucher, heure>>

EtapeLot(g) ==
  \/ \E l \in Lots, q \in Quantites, d \in Validites, t \in Tenants \cup {Aucun} :
       DemarrerLot(g, l, q, d, t)
  \/ \E tires \in SUBSET Codes : InsererCodes(g, tires)
  \/ AnnoncerLot(g) \/ RefuserLot(g)

EtapeConsommation(r) ==
  \/ \E c \in Codes : DemarrerConsommation(r, c)
  \/ Consommer(r) \/ Rejeter(r) \/ Repondre(r)

Next == \/ \E g \in Generations : EtapeLot(g)
        \/ \E r \in Requetes : EtapeConsommation(r)
        \/ \E l \in Lots : AnnulerLot(l)
        \/ Tic \/ Panne

Spec == Init /\ [][Next]_vars
-----------------------------------------------------------------------------
(* Properties *)

(* A code serves once, whatever the concurrency (vouchers.service.ts:191): *)
(* two requests are never told they consumed the same code, and the row    *)
(* names the one that did, even after its batch was cancelled.             *)
UsageUnique ==
  \A r \in Requetes : req[r].pc \in {"consomme", "accepte"} =>
    /\ voucher[req[r].code].utilisePar = r
    /\ \A q \in Requetes \ {r} :
         req[q].pc \in {"consomme", "accepte"} => req[q].code # req[r].code

(* A request is told « Code déjà utilisé » only when another one did use   *)
(* the code, although the answer is worded from a later read.              *)
RefusFonde ==
  \A r \in Requetes : req[r].pc = "utilise" =>
    \E q \in Requetes \ {r} :
      /\ voucher[req[r].code].utilisePar = q
      /\ req[q].pc \in {"consomme", "accepte", "perdu"}

(* A generation that answers has put as many codes on sale as were asked,  *)
(* in its lot, although codes drawn by concurrent generations collide; the *)
(* number it announces is theirs as long as no other generation named the  *)
(* lot, and never less (it is the whole lot's, of every generation so far).*)
LotComplet ==
  \A g \in Generations : gen[g].pc = "fini" =>
    LET siens == {c \in Codes : voucher[c] # Absent /\ voucher[c].par = g}
    IN  /\ Cardinality(siens) = gen[g].quantite
        /\ siens \subseteq CodesDuLot(gen[g].lot)
        /\ gen[g].annonce >= gen[g].quantite
        /\ (\A h \in Generations \ {g} : gen[h].lot # gen[g].lot) =>
             gen[g].annonce = gen[g].quantite

(* The service implements the contract of prepaid codes: one buyer at most *)
(* per code, for ever.                                                     *)
Contrat == INSTANCE VoucherContract WITH
             Acheteurs <- Requetes, Personne <- Aucun,
             emis <- {c \in Codes : voucher[c] # Absent},
             acheteur <- [c \in Codes |-> IF voucher[c].statut = "UTILISE"
                                          THEN voucher[c].utilisePar ELSE Aucun]

RespecteContrat == Contrat!ContratSpec
=============================================================================
