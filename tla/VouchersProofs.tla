--------------------------- MODULE VouchersProofs ---------------------------
(***************************************************************************)
(* Proofs about prepaid codes, for every set of codes, users, batches and  *)
(* tenants and every number of restarts. The argument: the row of a code   *)
(* names the request that used it, and only the request so named is past   *)
(* its UPDATE (Trace); the condition of the UPDATE keeps it so. A code is  *)
(* in the lot of the generation that inserted it (Filiation), which counts *)
(* what it inserted (Comptes).                                             *)
(***************************************************************************)
EXTENDS Vouchers, FiniteSetTheorems, TLAPS

USE VouchersAssumption

Abouti == {"consomme", "accepte", "perdu"}

(* A used code names the request that used it, which is past its UPDATE;   *)
(* a request that was told so is the one its code names.                   *)
Trace ==
  /\ \A c \in Codes : voucher[c].statut = "UTILISE" =>
       /\ voucher[c].utilisePar \in Requetes
       /\ req[voucher[c].utilisePar].code = c
       /\ req[voucher[c].utilisePar].pc \in Abouti
  /\ \A r \in Requetes : req[r].pc \in {"consomme", "accepte"} =>
       /\ voucher[req[r].code].statut = "UTILISE"
       /\ voucher[req[r].code].utilisePar = r
  /\ \A r \in Requetes : req[r].pc # "repos" => req[r].code \in Codes
  /\ \A r \in Requetes : req[r].pc = "utilise" => voucher[req[r].code].statut = "UTILISE"

(* A generation that started has a lot; one that did not has none.         *)
LotsNommes == \A g \in Generations : IF gen[g].pc = "repos" THEN gen[g].lot = Aucun
                                     ELSE gen[g].lot \in Lots

IInv == TypeOK /\ LotsNommes /\ Trace

(* A code that was not emitted is not used. *)
LEMMA PasEmis == Absent.statut # "UTILISE" /\ Absent.utilisePar = Aucun
BY DEF Absent

LEMMA InitIInv == Init => IInv
<1>1. Init => TypeOK
  BY DEF Init, TypeOK, Consommation, Generation
<1>2. Init => Trace
  BY PasEmis DEF Init, Trace
<1>3. Init => LotsNommes
  BY DEF Init, LotsNommes
<1>. QED  BY <1>1, <1>2, <1>3 DEF IInv

(* The insertion of a batch leaves between 0 and all of its codes to do.   *)
LEMMA InsererType ==
  ASSUME TypeOK, LotsNommes, NEW g \in Generations, NEW tires \in SUBSET Codes,
         InsererCodes(g, tires)
  PROVE  TypeOK'
<1>. DEFINE inseres == {c \in tires : voucher[c] = Absent}
<1>1. IsFiniteSet(tires) /\ IsFiniteSet(inseres) /\ Cardinality(inseres) <= Cardinality(tires)
  BY FS_Subset
<1>2. Cardinality(tires) \in Nat /\ Cardinality(inseres) \in Nat
  BY <1>1, FS_CardinalityType
<1>3. Reste(g, tires, inseres) \in Nat
  BY <1>1, <1>2 DEF InsererCodes, Reste, TypeOK, Generation
<1>4. gen[g].tentatives + 1 \in 0..MaxTentatives
  BY DEF InsererCodes, Encore, TypeOK, Generation
<1>5. gen' \in [Generations -> Generation]
  BY <1>3, <1>4 DEF InsererCodes, TypeOK, Generation
<1>6. NouveauVoucher(g) \in Voucher
  BY DEF InsererCodes, LotsNommes, NouveauVoucher, Voucher, Statuts, TypeOK, Generation
<1>7. voucher' \in [Codes -> Voucher \cup {Absent}]
  BY <1>6 DEF InsererCodes, TypeOK
<1>. QED  BY <1>5, <1>7 DEF InsererCodes, TypeOK

(* A step that starts no generation. *)
LEMMA LotsNommesCadre ==
  ASSUME LotsNommes,
         \A g \in Generations : gen'[g].lot = gen[g].lot,
         \A g \in Generations : (gen'[g].pc = "repos") <=> (gen[g].pc = "repos")
  PROVE  LotsNommes'
BY DEF LotsNommes

LEMMA EtapeLotsNommes == TypeOK /\ LotsNommes /\ [Next]_vars => LotsNommes'
<1>. SUFFICES ASSUME TypeOK, LotsNommes, [Next]_vars PROVE LotsNommes'
  OBVIOUS
<1>1. ASSUME NEW g \in Generations, NEW l \in Lots, NEW q \in Quantites, NEW d \in Validites,
             NEW t \in Tenants \cup {Aucun}, DemarrerLot(g, l, q, d, t)
      PROVE  LotsNommes'
  BY <1>1 DEF DemarrerLot, LotsNommes, TypeOK
<1>2. ASSUME NEW g \in Generations, NEW tires \in SUBSET Codes, InsererCodes(g, tires)
      PROVE  LotsNommes'
  BY LotsNommesCadre, <1>2 DEF InsererCodes, TypeOK, Generation
<1>3. ASSUME NEW g \in Generations, AnnoncerLot(g) \/ RefuserLot(g) PROVE LotsNommes'
  BY LotsNommesCadre, <1>3 DEF AnnoncerLot, RefuserLot, TypeOK, Generation
<1>4. CASE Panne
  BY LotsNommesCadre, <1>4 DEF Panne, TypeOK, Generation
<1>5. CASE gen' = gen
  BY LotsNommesCadre, <1>5
<1>. QED  BY <1>1, <1>2, <1>3, <1>4, <1>5
          DEF Next, EtapeLot, EtapeConsommation, AnnulerLot, DemarrerConsommation, Consommer,
              Rejeter, Repondre, Tic, vars

LEMMA EtapeType == TypeOK /\ LotsNommes /\ [Next]_vars => TypeOK'
<1>. SUFFICES ASSUME TypeOK, LotsNommes, [Next]_vars PROVE TypeOK'
  OBVIOUS
<1>1. ASSUME NEW g \in Generations, NEW l \in Lots, NEW q \in Quantites, NEW d \in Validites,
             NEW t \in Tenants \cup {Aucun}, DemarrerLot(g, l, q, d, t)
      PROVE  TypeOK'
  <2>1. Echeance(d) \in Nat \cup {Jamais}
    BY DEF Echeance, TypeOK
  <2>. QED  BY <1>1, <2>1 DEF DemarrerLot, TypeOK, Generation
<1>2. ASSUME NEW g \in Generations, NEW tires \in SUBSET Codes, InsererCodes(g, tires)
      PROVE  TypeOK'
  BY <1>2, InsererType
<1>3. ASSUME NEW g \in Generations, AnnoncerLot(g) \/ RefuserLot(g) PROVE TypeOK'
  <2>1. Cardinality(CodesDuLot(gen[g].lot)) \in Nat
    BY FS_Subset, FS_CardinalityType DEF CodesDuLot
  <2>. HIDE DEF CodesDuLot
  <2>. QED  BY <1>3, <2>1 DEF AnnoncerLot, RefuserLot, TypeOK, Generation
<1>4. ASSUME NEW l \in Lots, AnnulerLot(l) PROVE TypeOK'
  BY <1>4 DEF AnnulerLot, Annulable, TypeOK, Voucher, Statuts
<1>5. ASSUME NEW r \in Requetes, NEW c \in Codes, DemarrerConsommation(r, c) PROVE TypeOK'
  BY <1>5 DEF DemarrerConsommation, TypeOK, Consommation
<1>6. ASSUME NEW r \in Requetes, Consommer(r) PROVE TypeOK'
  <2>1. req' \in [Requetes -> Consommation]
    BY <1>6 DEF Consommer, TypeOK, Consommation
  <2>2. CASE req[r].code \in Codes
    <3>1. voucher[req[r].code] \in Voucher
      BY <1>6, <2>2 DEF Consommer, Consommable, TypeOK, Absent
    <3>2. [voucher[req[r].code] EXCEPT !.statut = "UTILISE", !.utilisePar = r] \in Voucher
      BY <3>1 DEF Voucher, Statuts
    <3>3. voucher' = [voucher EXCEPT ![req[r].code] =
                        [voucher[req[r].code] EXCEPT !.statut = "UTILISE", !.utilisePar = r]]
      BY <1>6, <2>2 DEF Consommer, TypeOK
    <3>. QED  BY <1>6, <2>1, <2>2, <3>2, <3>3 DEF Consommer, TypeOK
  <2>3. CASE req[r].code \notin Codes
    BY <1>6, <2>1, <2>3 DEF Consommer, TypeOK
  <2>. QED  BY <2>2, <2>3
<1>7. ASSUME NEW r \in Requetes, Rejeter(r) PROVE TypeOK'
  BY <1>7 DEF Rejeter, TypeOK, Consommation
<1>8. ASSUME NEW r \in Requetes, Repondre(r) PROVE TypeOK'
  <2>1. Motif(voucher[req[r].code], r)
          \in {"inexistant", "utilise", "expire", "indisponible"}
    BY DEF Motif
  <2>. QED  BY <1>8, <2>1 DEF Repondre, TypeOK, Consommation
<1>9. ASSUME Tic PROVE TypeOK'
  BY <1>9 DEF Tic, TypeOK
<1>10. ASSUME Panne PROVE TypeOK'
  <2>1. req' \in [Requetes -> Consommation]
    BY <1>10 DEF Panne, TypeOK, Consommation
  <2>2. \A g \in Generations : [gen[g] EXCEPT !.pc = "perdu"] \in Generation
    BY DEF TypeOK, Generation
  <2>3. gen' \in [Generations -> Generation]
    BY <1>10, <2>2 DEF Panne, TypeOK
  <2>4. pannes' \in 0..MaxPannes
    BY <1>10 DEF Panne, TypeOK
  <2>. QED  BY <1>10, <2>1, <2>3, <2>4 DEF Panne, TypeOK
<1>11. ASSUME UNCHANGED vars PROVE TypeOK'
  BY <1>11 DEF vars, TypeOK
<1>. QED  BY <1>1, <1>2, <1>3, <1>4, <1>5, <1>6, <1>7, <1>8, <1>9, <1>10, <1>11
          DEF Next, EtapeLot, EtapeConsommation

LEMMA EtapeTrace == IInv /\ [Next]_vars => Trace'
<1>. SUFFICES ASSUME IInv, [Next]_vars PROVE Trace'
  OBVIOUS
<1>. USE DEF IInv, Abouti
<1>1. ASSUME NEW g \in Generations, NEW l \in Lots, NEW q \in Quantites, NEW d \in Validites,
             NEW t \in Tenants \cup {Aucun}, DemarrerLot(g, l, q, d, t)
      PROVE  Trace'
  BY <1>1 DEF DemarrerLot, Trace
<1>2. ASSUME NEW g \in Generations, NEW tires \in SUBSET Codes, InsererCodes(g, tires)
      PROVE  Trace'
  <2>1. /\ req' = req
        /\ \A c \in Codes : \/ voucher'[c] = voucher[c]
                            \/ voucher[c] = Absent /\ voucher'[c].statut = "DISPONIBLE"
    BY <1>2 DEF InsererCodes, NouveauVoucher, TypeOK
  <2>2. \A c \in Codes : voucher[c].statut = "UTILISE" <=> voucher'[c].statut = "UTILISE"
    BY <2>1, PasEmis
  <2>3. \A c \in Codes : voucher[c].statut = "UTILISE" => voucher'[c] = voucher[c]
    BY <2>1, PasEmis
  <2>. QED  BY <2>1, <2>2, <2>3 DEF Trace
<1>3. ASSUME NEW g \in Generations, AnnoncerLot(g) \/ RefuserLot(g) PROVE Trace'
  BY <1>3 DEF AnnoncerLot, RefuserLot, Trace
<1>4. ASSUME NEW l \in Lots, AnnulerLot(l) PROVE Trace'
  <2>1. /\ req' = req
        /\ \A c \in Codes : \/ voucher'[c] = voucher[c]
                            \/ /\ voucher[c].statut = "DISPONIBLE"
                               /\ voucher'[c].statut = "ANNULE"
    BY <1>4 DEF AnnulerLot, Annulable, TypeOK, Voucher
  <2>. QED  BY <2>1 DEF Trace
<1>5. ASSUME NEW r \in Requetes, NEW c \in Codes, DemarrerConsommation(r, c) PROVE Trace'
  BY <1>5 DEF DemarrerConsommation, Trace, TypeOK, Consommation
<1>6. ASSUME NEW r \in Requetes, Consommer(r) PROVE Trace'
  <2>1. req[r].code \in Codes /\ req[r].pc = "lu"
    BY <1>6 DEF Consommer, Trace
  <2>2. voucher[req[r].code].statut = "DISPONIBLE" /\ voucher[req[r].code] \in Voucher
    BY <1>6, <2>1 DEF Consommer, Consommable, TypeOK, Absent
  <2>3. /\ voucher'[req[r].code].statut = "UTILISE"
        /\ voucher'[req[r].code].utilisePar = r
        /\ \A c \in Codes \ {req[r].code} : voucher'[c] = voucher[c]
    BY <1>6, <2>1, <2>2 DEF Consommer, TypeOK, Voucher
  <2>4. /\ req'[r].pc = "consomme" /\ req'[r].code = req[r].code
        /\ \A q \in Requetes \ {r} : req'[q] = req[q]
    BY <1>6 DEF Consommer, TypeOK, Consommation
  <2>. QED  BY <2>1, <2>2, <2>3, <2>4 DEF Trace
<1>7. ASSUME NEW r \in Requetes, Rejeter(r) PROVE Trace'
  BY <1>7 DEF Rejeter, Trace, TypeOK, Consommation
<1>8. ASSUME NEW r \in Requetes, Repondre(r) PROVE Trace'
  <2>1. CASE req[r].pc = "consomme"
    BY <1>8, <2>1 DEF Repondre, Trace, TypeOK, Consommation
  <2>2. CASE req[r].pc = "rejet"
    <3>1. /\ Motif(voucher[req[r].code], r) \notin Abouti
          /\ Motif(voucher[req[r].code], r) # "repos"
          /\ Motif(voucher[req[r].code], r) = "utilise"
               => voucher[req[r].code].statut = "UTILISE"
      BY DEF Motif
    <3>. QED  BY <1>8, <2>2, <3>1 DEF Repondre, Trace, TypeOK, Consommation
  <2>. QED  BY <1>8, <2>1, <2>2 DEF Repondre
<1>9. ASSUME Tic PROVE Trace'
  BY <1>9 DEF Tic, Trace
<1>10. ASSUME Panne PROVE Trace'
  BY <1>10 DEF Panne, Trace, TypeOK, Consommation
<1>11. ASSUME UNCHANGED vars PROVE Trace'
  BY <1>11 DEF vars, Trace
<1>. QED  BY <1>1, <1>2, <1>3, <1>4, <1>5, <1>6, <1>7, <1>8, <1>9, <1>10, <1>11
          DEF Next, EtapeLot, EtapeConsommation

LEMMA Invariance == Spec => []IInv
<1>1. IInv /\ [Next]_vars => IInv'
  BY EtapeType, EtapeLotsNommes, EtapeTrace DEF IInv
<1>. QED  BY InitIInv, <1>1, PTL DEF Spec

(* Type correctness of the voucher service, restarts included.             *)
THEOREM VouchersTypes == Spec => []TypeOK
<1>1. IInv => TypeOK
  BY DEF IInv
<1>. QED  BY Invariance, <1>1, PTL

(* A code is consumed by one request at most, whatever the interleaving of *)
(* consommer, genererLot and annulerLot.                                   *)
THEOREM ConsommationUnique == Spec => []UsageUnique
<1>1. IInv => UsageUnique
  BY DEF IInv, Trace, UsageUnique
<1>. QED  BY Invariance, <1>1, PTL

(* « Code déjà utilisé » is never answered about a code nobody used.       *)
THEOREM RefusJustifie == Spec => []RefusFonde
<1>1. IInv => RefusFonde
  <2>. SUFFICES ASSUME IInv, NEW r \in Requetes, req[r].pc = "utilise"
                PROVE  \E q \in Requetes \ {r} :
                         /\ voucher[req[r].code].utilisePar = q
                         /\ req[q].pc \in {"consomme", "accepte", "perdu"}
    BY DEF RefusFonde
  <2>1. req[r].code \in Codes /\ voucher[req[r].code].statut = "UTILISE"
    BY DEF IInv, Trace
  <2>2. /\ voucher[req[r].code].utilisePar \in Requetes
        /\ req[voucher[req[r].code].utilisePar].pc \in Abouti
    BY <2>1 DEF IInv, Trace
  <2>3. voucher[req[r].code].utilisePar # r
    BY <2>2 DEF Abouti
  <2>. QED  BY <2>2, <2>3 DEF Abouti
<1>. QED  BY Invariance, <1>1, PTL

-----------------------------------------------------------------------------
(* The contract *)

emis == {c \in Codes : voucher[c] # Absent}
acheteur == [c \in Codes |-> IF voucher[c].statut = "UTILISE"
                             THEN voucher[c].utilisePar ELSE Aucun]

(* What a step does to the emitted codes and to their buyers: nothing, or  *)
(* one of the two steps of the contract.                                   *)
LEMMA EtapeContrat ==
  IInv /\ [Next]_vars => \/ UNCHANGED <<emis, acheteur>>
                         \/ emis' # emis /\ emis \subseteq emis' /\ emis' \subseteq Codes
                              /\ acheteur' = acheteur
                         \/ \E c \in Codes, a \in Requetes :
                              /\ c \in emis /\ acheteur[c] = Aucun
                              /\ acheteur' = [acheteur EXCEPT ![c] = a]
                              /\ emis' = emis
<1>. SUFFICES ASSUME IInv, [Next]_vars
              PROVE  \/ UNCHANGED <<emis, acheteur>>
                     \/ emis' # emis /\ emis \subseteq emis' /\ emis' \subseteq Codes
                          /\ acheteur' = acheteur
                     \/ \E c \in Codes, a \in Requetes :
                          /\ c \in emis /\ acheteur[c] = Aucun
                          /\ acheteur' = [acheteur EXCEPT ![c] = a]
                          /\ emis' = emis
  OBVIOUS
<1>1. CASE voucher' = voucher
  BY <1>1 DEF emis, acheteur
<1>2. ASSUME NEW g \in Generations, NEW tires \in SUBSET Codes, InsererCodes(g, tires)
      PROVE  emis \subseteq emis' /\ emis' \subseteq Codes /\ acheteur' = acheteur
  <2>1. \A c \in Codes : \/ voucher'[c] = voucher[c]
                         \/ /\ voucher[c] = Absent
                            /\ voucher'[c].statut = "DISPONIBLE"
    BY <1>2 DEF InsererCodes, NouveauVoucher, IInv, TypeOK
  <2>2. \A c \in Codes : voucher[c] # Absent => voucher'[c] # Absent
    BY <2>1
  <2>3. \A c \in Codes : (IF voucher'[c].statut = "UTILISE" THEN voucher'[c].utilisePar ELSE Aucun)
                       = (IF voucher[c].statut = "UTILISE" THEN voucher[c].utilisePar ELSE Aucun)
    BY <2>1, PasEmis
  <2>. QED  BY <2>2, <2>3 DEF emis, acheteur
<1>3. ASSUME NEW l \in Lots, AnnulerLot(l) PROVE UNCHANGED <<emis, acheteur>>
  <2>1. \A c \in Codes : \/ voucher'[c] = voucher[c]
                         \/ /\ voucher[c].statut = "DISPONIBLE" /\ voucher[c] # Absent
                            /\ voucher'[c].statut = "ANNULE"
    BY <1>3 DEF AnnulerLot, Annulable, IInv, TypeOK, Voucher
  <2>2. \A c \in Codes : voucher'[c] # Absent <=> voucher[c] # Absent
    BY <2>1 DEF Absent
  <2>3. \A c \in Codes : (IF voucher'[c].statut = "UTILISE" THEN voucher'[c].utilisePar ELSE Aucun)
                       = (IF voucher[c].statut = "UTILISE" THEN voucher[c].utilisePar ELSE Aucun)
    BY <2>1
  <2>. QED  BY <2>2, <2>3 DEF emis, acheteur
<1>4. ASSUME NEW r \in Requetes, Consommer(r)
      PROVE  \E c \in Codes, a \in Requetes :
               /\ c \in emis /\ acheteur[c] = Aucun
               /\ acheteur' = [acheteur EXCEPT ![c] = a]
               /\ emis' = emis
  <2>. DEFINE c == req[r].code
  <2>1. c \in Codes
    BY <1>4 DEF Consommer, IInv, Trace
  <2>2. voucher[c].statut = "DISPONIBLE" /\ voucher[c] # Absent /\ voucher[c] \in Voucher
    BY <1>4, <2>1 DEF Consommer, Consommable, IInv, TypeOK, Absent
  <2>3. /\ voucher'[c].statut = "UTILISE"
        /\ voucher'[c].utilisePar = r
        /\ \A d \in Codes \ {c} : voucher'[d] = voucher[d]
    BY <1>4, <2>1, <2>2 DEF Consommer, IInv, TypeOK, Voucher
  <2>4. voucher'[c] # Absent
    BY <2>3 DEF Absent
  <2>5. emis' = emis
    BY <2>2, <2>3, <2>4 DEF emis
  <2>6. c \in emis /\ acheteur[c] = Aucun
    BY <2>1, <2>2 DEF emis, acheteur
  <2>7. acheteur' = [acheteur EXCEPT ![c] = r]
    BY <2>1, <2>3 DEF acheteur
  <2>. QED  BY <2>1, <2>5, <2>6, <2>7
<1>5. voucher' = voucher
      \/ (\E g \in Generations, tires \in SUBSET Codes : InsererCodes(g, tires))
      \/ (\E l \in Lots : AnnulerLot(l))
      \/ (\E r \in Requetes : Consommer(r))
  BY DEF Next, EtapeLot, EtapeConsommation, DemarrerLot, AnnoncerLot, RefuserLot,
         DemarrerConsommation, Rejeter, Repondre, Tic, Panne, vars
<1>. QED  BY <1>1, <1>2, <1>3, <1>4, <1>5

(* The voucher service implements VoucherContract.                         *)
THEOREM VouchersContrat == Spec => RespecteContrat
<1>1. Init => Contrat!Init
  BY PasEmis DEF Init, Contrat!Init, emis, acheteur
<1>2. IInv /\ [Next]_vars => [Contrat!Next]_(Contrat!contratVars)
  <2>. SUFFICES ASSUME IInv, [Next]_vars PROVE [Contrat!Next]_(Contrat!contratVars)
    OBVIOUS
  <2>1. CASE emis' # emis /\ emis \subseteq emis' /\ emis' \subseteq Codes /\ acheteur' = acheteur
    <3>1. PICK C \in SUBSET Codes : C = emis'
      BY <2>1
    <3>2. Contrat!Emettre(C)
      BY <2>1, <3>1 DEF Contrat!Emettre, emis, acheteur
    <3>. QED  BY <3>2 DEF Contrat!Next
  <2>2. ASSUME NEW c \in Codes, NEW a \in Requetes,
               c \in emis, acheteur[c] = Aucun,
               acheteur' = [acheteur EXCEPT ![c] = a], emis' = emis
        PROVE  Contrat!Next
    <3>1. Contrat!Utiliser(c, a)
      BY <2>2 DEF Contrat!Utiliser, emis, acheteur
    <3>. QED  BY <3>1 DEF Contrat!Next
  <2>3. UNCHANGED <<emis, acheteur>> => UNCHANGED Contrat!contratVars
    BY DEF Contrat!contratVars, emis, acheteur
  <2>. QED  BY <2>1, <2>2, <2>3, EtapeContrat
<1>. QED  BY Invariance, <1>1, <1>2, PTL DEF Spec, RespecteContrat, Contrat!ContratSpec
-----------------------------------------------------------------------------
(* The batches *)

CodesDe(g) == {c \in Codes : voucher[c] # Absent /\ voucher[c].par = g}

(* What a generation inserted and what it still has to insert are what was *)
(* asked for, at every step and not only at the end.                       *)
Comptes ==
  \A g \in Generations :
    /\ gen[g].pc = "repos" => CodesDe(g) = {}
    /\ Cardinality(CodesDe(g)) + gen[g].restants = gen[g].quantite

(* Every code is in the lot of the generation that inserted it.            *)
Filiation ==
  \A c \in Codes : voucher[c] # Absent =>
    /\ gen[voucher[c].par].pc # "repos"
    /\ voucher[c].lot = gen[voucher[c].par].lot

(* What a finished generation announced.                                   *)
Annonces ==
  \A g \in Generations : gen[g].pc = "fini" =>
    /\ gen[g].restants = 0
    /\ gen[g].annonce >= gen[g].quantite
    /\ (\A h \in Generations \ {g} : gen[h].lot # gen[g].lot) => gen[g].annonce = gen[g].quantite

LInv == Comptes /\ Filiation /\ Annonces

LEMMA LotsDebut == Init => LInv
<1>. SUFFICES ASSUME Init PROVE LInv
  OBVIOUS
<1>1. \A g \in Generations : /\ CodesDe(g) = {} /\ gen[g].restants = 0 /\ gen[g].quantite = 0
                             /\ gen[g].pc = "repos"
  BY DEF Init, CodesDe
<1>2. Cardinality({}) = 0
  BY FS_EmptySet
<1>. QED  BY <1>1, <1>2 DEF Init, LInv, Comptes, Filiation, Annonces

(* A step that emits no code, and starts or ends no generation.            *)
LEMMA LotsCadre ==
  ASSUME LInv,
         \A c \in Codes : voucher[c] = Absent => voucher'[c] = Absent,
         \A c \in Codes : voucher[c] # Absent =>
           /\ voucher'[c] # Absent
           /\ voucher'[c].lot = voucher[c].lot /\ voucher'[c].par = voucher[c].par,
         \A g \in Generations : /\ gen'[g].restants = gen[g].restants
                                /\ gen'[g].quantite = gen[g].quantite
                                /\ gen'[g].lot = gen[g].lot
                                /\ gen'[g].annonce = gen[g].annonce
                                /\ gen'[g].pc = "repos" <=> gen[g].pc = "repos"
                                /\ gen'[g].pc = "fini" => gen[g].pc = "fini",
         TypeOK
  PROVE  LInv'
<1>1. \A g \in Generations : CodesDe(g)' = CodesDe(g)
  BY DEF CodesDe
<1>2. Comptes'
  BY <1>1 DEF LInv, Comptes
<1>3. Filiation'
  BY DEF LInv, Filiation, TypeOK, Voucher
<1>4. Annonces'
  BY DEF LInv, Annonces
<1>. QED  BY <1>2, <1>3, <1>4 DEF LInv

(* The first generation of a lot, or one more: the announcements made      *)
(* before it bind the lots no other generation named, and those only.      *)
LEMMA LotsDemarrer ==
  ASSUME TypeOK, LotsNommes, LInv, NEW g \in Generations, NEW l \in Lots, NEW q \in Quantites,
         NEW d \in Validites, NEW t \in Tenants \cup {Aucun}, DemarrerLot(g, l, q, d, t)
  PROVE  LInv'
<1>1. /\ gen[g].pc = "repos" /\ gen'[g].pc = "boucle" /\ gen'[g].quantite = q /\ gen'[g].restants = q
      /\ gen'[g].lot = l /\ gen[g].lot = Aucun
      /\ \A h \in Generations \ {g} : gen'[h] = gen[h]
      /\ voucher' = voucher
  BY DEF DemarrerLot, TypeOK, LotsNommes
<1>2. CodesDe(g) = {} /\ \A h \in Generations : CodesDe(h)' = CodesDe(h)
  BY <1>1 DEF LInv, Comptes, CodesDe
<1>3. Cardinality({}) = 0 /\ q \in Nat
  BY FS_EmptySet
<1>4. Comptes'
  <2>1. ASSUME NEW h \in Generations \ {g}
        PROVE  /\ gen'[h].pc = "repos" => CodesDe(h)' = {}
               /\ Cardinality(CodesDe(h)') + gen'[h].restants = gen'[h].quantite
    BY <1>1, <1>2 DEF LInv, Comptes
  <2>2. CodesDe(g)' = {}
    BY <1>2
  <2>3. Cardinality(CodesDe(g)') + gen'[g].restants = gen'[g].quantite
    BY <1>1, <1>3, <2>2
  <2>. QED  BY <1>1, <2>1, <2>3 DEF Comptes
<1>5. Filiation'
  <2>. SUFFICES ASSUME NEW c \in Codes, voucher[c] # Absent
                PROVE  /\ gen'[voucher[c].par].pc # "repos"
                       /\ voucher[c].lot = gen'[voucher[c].par].lot
    BY <1>1 DEF Filiation
  <2>1. voucher[c].par \in Generations \ {g}
    BY <1>1 DEF LInv, Filiation, TypeOK, Voucher
  <2>. QED  BY <1>1, <2>1 DEF LInv, Filiation
<1>6. Annonces'
  <2>. SUFFICES ASSUME NEW h \in Generations, gen'[h].pc = "fini"
                PROVE  /\ gen'[h].restants = 0
                       /\ gen'[h].annonce >= gen'[h].quantite
                       /\ (\A k \in Generations \ {h} : gen'[k].lot # gen'[h].lot) =>
                            gen'[h].annonce = gen'[h].quantite
    BY DEF Annonces
  <2>1. h # g /\ gen'[h] = gen[h] /\ gen[h].pc = "fini"
    BY <1>1
  <2>2. gen[h].lot \in Lots /\ gen[g].lot # gen[h].lot
    BY <1>1, <2>1 DEF LotsNommes
  <2>3. ASSUME \A k \in Generations \ {h} : gen'[k].lot # gen'[h].lot
        PROVE  \A k \in Generations \ {h} : gen[k].lot # gen[h].lot
    BY <1>1, <2>1, <2>2, <2>3
  <2>. QED  BY <2>1, <2>3 DEF LInv, Annonces
<1>. QED  BY <1>4, <1>5, <1>6 DEF LInv

LEMMA LotsInserer ==
  ASSUME TypeOK, LInv, NEW g \in Generations, NEW tires \in SUBSET Codes, InsererCodes(g, tires)
  PROVE  LInv'
<1>. DEFINE inseres == {c \in tires : voucher[c] = Absent}
<1>1. /\ gen[g].pc = "boucle" /\ gen'[g].pc = "boucle" /\ gen'[g].quantite = gen[g].quantite
      /\ gen'[g].lot = gen[g].lot
      /\ gen'[g].restants = gen[g].restants - Cardinality(inseres)
      /\ \A h \in Generations \ {g} : gen'[h] = gen[h]
  BY DEF InsererCodes, Reste, TypeOK, Generation
<1>2. NouveauVoucher(g) # Absent /\ NouveauVoucher(g).par = g /\ NouveauVoucher(g).lot = gen[g].lot
  BY DEF NouveauVoucher, Absent
<1>3. CodesDe(g)' = CodesDe(g) \cup inseres /\ CodesDe(g) \cap inseres = {}
  BY <1>2 DEF InsererCodes, CodesDe
<1>4. \A h \in Generations \ {g} : CodesDe(h)' = CodesDe(h)
  BY <1>2 DEF InsererCodes, CodesDe
<1>5. IsFiniteSet(CodesDe(g)) /\ IsFiniteSet(inseres)
  BY FS_Subset DEF CodesDe
<1>6. Cardinality(CodesDe(g)) \in Nat /\ Cardinality(inseres) \in Nat
  BY <1>5, FS_CardinalityType
<1>7. Cardinality(CodesDe(g)') = Cardinality(CodesDe(g)) + Cardinality(inseres)
  <2>1. Cardinality(CodesDe(g) \cup inseres) =
          Cardinality(CodesDe(g)) + Cardinality(inseres) - Cardinality(CodesDe(g) \cap inseres)
    BY <1>5, FS_Union
  <2>2. Cardinality(CodesDe(g) \cap inseres) = 0
    BY <1>3, FS_EmptySet
  <2>. QED  BY <1>3, <1>6, <2>1, <2>2
<1>8. gen[g].restants \in Nat /\ Cardinality(CodesDe(g)) + gen[g].restants = gen[g].quantite
  BY DEF TypeOK, Generation, LInv, Comptes
<1>9. Cardinality(CodesDe(g)') + gen'[g].restants = gen'[g].quantite
  BY <1>1, <1>6, <1>7, <1>8
<1>10. Comptes'
  <2>1. ASSUME NEW h \in Generations \ {g}
        PROVE  /\ gen'[h].pc = "repos" => CodesDe(h)' = {}
               /\ Cardinality(CodesDe(h)') + gen'[h].restants = gen'[h].quantite
    BY <1>1, <1>4 DEF LInv, Comptes
  <2>. QED  BY <1>1, <1>9, <2>1 DEF Comptes
<1>11. Filiation'
  <2>1. \A c \in Codes : voucher'[c] = IF c \in inseres THEN NouveauVoucher(g) ELSE voucher[c]
    BY DEF InsererCodes
  <2>2. \A h \in Generations : gen'[h].lot = gen[h].lot /\ gen'[h].pc = gen[h].pc
    BY <1>1
  <2>3. \A c \in Codes : voucher[c] # Absent => voucher[c].par \in Generations
    BY DEF TypeOK, Voucher
  <2>. HIDE DEF inseres
  <2>. QED  BY <1>1, <1>2, <2>1, <2>2, <2>3 DEF LInv, Filiation
<1>12. Annonces'
  <2>1. \A h \in Generations : gen'[h].lot = gen[h].lot
    BY <1>1
  <2>. QED  BY <1>1, <2>1 DEF LInv, Annonces
<1>. QED  BY <1>10, <1>11, <1>12 DEF LInv

(* The answer: the lot holds at least what the generation inserted, and    *)
(* exactly that when no other one named it.                                *)
LEMMA LotsAnnoncer ==
  ASSUME TypeOK, LInv, NEW g \in Generations, AnnoncerLot(g)
  PROVE  LInv'
<1>. DEFINE n == Cardinality(CodesDuLot(gen[g].lot))
<1>1. /\ voucher' = voucher /\ gen[g].pc = "boucle" /\ gen[g].restants = 0
      /\ gen'[g].pc = "fini" /\ gen'[g].annonce = n
      /\ gen'[g].restants = 0 /\ gen'[g].quantite = gen[g].quantite /\ gen'[g].lot = gen[g].lot
      /\ \A h \in Generations \ {g} : gen'[h] = gen[h]
  BY DEF AnnoncerLot, TypeOK, Generation
<1>2. CodesDe(g) \subseteq CodesDuLot(gen[g].lot) /\ CodesDuLot(gen[g].lot) \subseteq Codes
  BY DEF CodesDe, CodesDuLot, LInv, Filiation
<1>3. /\ IsFiniteSet(CodesDuLot(gen[g].lot)) /\ IsFiniteSet(CodesDe(g))
      /\ Cardinality(CodesDe(g)) <= n
  BY <1>2, FS_Subset
<1>4. n \in Nat /\ Cardinality(CodesDe(g)) \in Nat
  BY <1>3, FS_CardinalityType
<1>5. Cardinality(CodesDe(g)) = gen[g].quantite
  BY <1>1, <1>4 DEF LInv, Comptes
<1>6. ASSUME \A h \in Generations \ {g} : gen[h].lot # gen[g].lot
      PROVE  n = gen[g].quantite
  <2>1. CodesDuLot(gen[g].lot) \subseteq CodesDe(g)
    BY <1>6 DEF CodesDe, CodesDuLot, LInv, Filiation, TypeOK, Voucher
  <2>2. CodesDuLot(gen[g].lot) = CodesDe(g)
    BY <1>2, <2>1
  <2>. QED  BY <1>5, <2>2
<1>7. \A h \in Generations : CodesDe(h)' = CodesDe(h)
  BY <1>1 DEF CodesDe
<1>8. Comptes'
  BY <1>1, <1>7 DEF LInv, Comptes
<1>9. Filiation'
  BY <1>1 DEF LInv, Filiation, TypeOK, Voucher
<1>. HIDE DEF n
<1>10. Annonces'
  <2>1. \A h \in Generations : gen'[h].lot = gen[h].lot
    BY <1>1
  <2>2. n >= gen[g].quantite
    BY <1>3, <1>5 DEF n
  <2>. QED  BY <1>1, <1>6, <2>1, <2>2 DEF LInv, Annonces
<1>. QED  BY <1>8, <1>9, <1>10 DEF LInv

LEMMA EtapeLots == TypeOK /\ LotsNommes /\ LInv /\ [Next]_vars => LInv'
<1>. SUFFICES ASSUME TypeOK, LotsNommes, LInv, [Next]_vars PROVE LInv'
  OBVIOUS
<1>1. ASSUME NEW g \in Generations, RefuserLot(g) PROVE LInv'
  <2>1. /\ voucher' = voucher
        /\ \A h \in Generations : /\ gen'[h].restants = gen[h].restants
                                  /\ gen'[h].quantite = gen[h].quantite
                                  /\ gen'[h].lot = gen[h].lot /\ gen'[h].annonce = gen[h].annonce
                                  /\ gen'[h].pc = "repos" <=> gen[h].pc = "repos"
                                  /\ gen'[h].pc = "fini" => gen[h].pc = "fini"
    BY <1>1 DEF RefuserLot, TypeOK, Generation
  <2>. QED  BY <2>1, LotsCadre
<1>2. ASSUME NEW l \in Lots, AnnulerLot(l) PROVE LInv'
  <2>1. \A c \in Codes : voucher'[c] = IF Annulable(voucher[c], l)
                                       THEN [voucher[c] EXCEPT !.statut = "ANNULE"] ELSE voucher[c]
    BY <1>2 DEF AnnulerLot
  <2>2. \A c \in Codes : voucher[c] # Absent => voucher[c] \in Voucher
    BY DEF TypeOK
  <2>3. \A v \in Voucher : LET w == [v EXCEPT !.statut = "ANNULE"]
                           IN  w # Absent /\ w.lot = v.lot /\ w.par = v.par
    BY DEF Voucher, Absent
  <2>4. /\ \A c \in Codes : voucher[c] = Absent => voucher'[c] = Absent
        /\ \A c \in Codes : voucher[c] # Absent =>
             /\ voucher'[c] # Absent
             /\ voucher'[c].lot = voucher[c].lot /\ voucher'[c].par = voucher[c].par
    BY <2>1, <2>2, <2>3 DEF Annulable
  <2>. QED  BY <1>2, <2>4, LotsCadre DEF AnnulerLot
<1>3. ASSUME NEW r \in Requetes, Consommer(r) PROVE LInv'
  <2>. DEFINE x == req[r].code
  <2>1. /\ voucher' = [voucher EXCEPT ![x].statut = "UTILISE", ![x].utilisePar = r]
        /\ voucher[x].statut = "DISPONIBLE" /\ gen' = gen
    BY <1>3 DEF Consommer, Consommable
  <2>2. voucher[x] # Absent
    BY <2>1 DEF Absent
  <2>3. \A c \in Codes : voucher[c] # Absent => voucher[c] \in Voucher
    BY DEF TypeOK
  <2>4. \A v \in Voucher : LET w == [v EXCEPT !.statut = "UTILISE", !.utilisePar = r]
                           IN  w # Absent /\ w.lot = v.lot /\ w.par = v.par
    BY DEF Voucher, Absent
  <2>5. \A c \in Codes : voucher'[c] = IF c = x
                           THEN [voucher[c] EXCEPT !.statut = "UTILISE", !.utilisePar = r] ELSE voucher[c]
    BY <2>1 DEF TypeOK
  <2>. HIDE DEF x
  <2>6. /\ \A c \in Codes : voucher[c] = Absent => voucher'[c] = Absent
        /\ \A c \in Codes : voucher[c] # Absent =>
             /\ voucher'[c] # Absent
             /\ voucher'[c].lot = voucher[c].lot /\ voucher'[c].par = voucher[c].par
    BY <2>2, <2>3, <2>4, <2>5
  <2>. QED  BY <2>1, <2>6, LotsCadre
<1>4. CASE Panne
  <2>1. /\ voucher' = voucher
        /\ \A g \in Generations : /\ gen'[g].restants = gen[g].restants
                                  /\ gen'[g].quantite = gen[g].quantite
                                  /\ gen'[g].lot = gen[g].lot /\ gen'[g].annonce = gen[g].annonce
                                  /\ gen'[g].pc = "repos" <=> gen[g].pc = "repos"
                                  /\ gen'[g].pc = "fini" => gen[g].pc = "fini"
    BY <1>4 DEF Panne, TypeOK, Generation
  <2>. QED  BY <2>1, LotsCadre
<1>5. CASE UNCHANGED <<voucher, gen>>
  BY <1>5, LotsCadre
<1>6. ASSUME NEW r \in Requetes, EtapeConsommation(r) PROVE Consommer(r) \/ UNCHANGED <<voucher, gen>>
  BY <1>6 DEF EtapeConsommation, DemarrerConsommation, Rejeter, Repondre
<1>. QED  BY <1>1, <1>2, <1>3, <1>4, <1>5, <1>6, LotsDemarrer, LotsInserer, LotsAnnoncer
          DEF Next, EtapeLot, Tic, vars

(* A generation that answers inserted exactly the codes asked for, in its  *)
(* lot, however the draws of concurrent generations collide, and announces *)
(* that number when it is the only one to have named the lot (genererLot   *)
(* counts what it inserted, then lists the whole lot).                     *)
THEOREM LotsComplets == Spec => []LotComplet
<1>1. LInv /\ TypeOK => LotComplet
  <2>. SUFFICES ASSUME LInv, TypeOK, NEW g \in Generations, gen[g].pc = "fini"
                PROVE  /\ Cardinality(CodesDe(g)) = gen[g].quantite
                       /\ CodesDe(g) \subseteq CodesDuLot(gen[g].lot)
                       /\ gen[g].annonce >= gen[g].quantite
                       /\ (\A h \in Generations \ {g} : gen[h].lot # gen[g].lot) =>
                            gen[g].annonce = gen[g].quantite
    BY DEF LotComplet, CodesDe
  <2>1. IsFiniteSet(CodesDe(g))
    BY FS_Subset DEF CodesDe
  <2>2. Cardinality(CodesDe(g)) \in Nat
    BY <2>1, FS_CardinalityType
  <2>3. CodesDe(g) \subseteq CodesDuLot(gen[g].lot)
    BY DEF CodesDe, CodesDuLot, LInv, Filiation
  <2>. QED  BY <2>2, <2>3 DEF LInv, Comptes, Annonces
<1>2. IInv /\ LInv /\ [Next]_vars => LInv'
  BY EtapeLots DEF IInv
<1>3. IInv /\ LInv => LotComplet
  BY <1>1 DEF IInv
<1>. QED  BY <1>2, <1>3, LotsDebut, Invariance, PTL DEF Spec
=============================================================================
