------------------------- MODULE TransactionsProofs -------------------------
(***************************************************************************)
(* Theorems about TransactionsService, for every set of requests, rows,    *)
(* agents, types and amounts, and for every interleaving of the requests:  *)
(* clients may overlap as many of them as they like on one transaction.    *)
(***************************************************************************)
EXTENDS Transactions, FiniteSetTheorems, TLAPS

(* Identifiers are fresh: until a request has written, no row has its      *)
(* identifier (Prisma's cuid).                                             *)
Frais == \A r \in Requetes : req[r].pc \in {"repos", "lu"} => tx[r] = Vide

(* Once a request has read a row, the row exists (rows are never deleted). *)
CibleLa ==
  \A r \in Requetes : req[r].pc = "lu" =>
    /\ req[r].op \in OpsService
    /\ req[r].op # "create" => req[r].cible \in Lignes /\ tx[req[r].cible] \in Ligne

(* What a creation is about to insert.                                     *)
CreationPrete ==
  \A r \in Requetes : req[r].pc = "lu" /\ req[r].op = "create" =>
    /\ req[r].ligne \in Ligne
    /\ req[r].ligne.statut = "PENDING" /\ req[r].ligne.reversal = Aucun

TypeInv == TypeOK /\ Frais /\ CibleLa /\ CreationPrete

-----------------------------------------------------------------------------
(* Rows *)

(* The row a creation inserts is a well-formed PENDING row.                *)
LEMMA NouvelleLigne ==
  ASSUME NEW ty \in Types, NEW a \in Agents, NEW m \in Montants
  PROVE  /\ Nouvelle(ty, a, m) \in Ligne
         /\ Nouvelle(ty, a, m).statut = "PENDING" /\ Nouvelle(ty, a, m).reversal = Aucun
BY StoreAssumption DEF Nouvelle, Ligne, Statuts

(* The identifiers are disjoint from the null value, and an absent row is  *)
(* not a row.                                                              *)
LEMMA VideAbsent == Vide \notin Ligne /\ Vide.statut = "ABSENT"
BY DEF Vide, Ligne, Statuts

(* Init establishes the invariant.                                         *)
LEMMA InitTypeInv == Init => TypeInv
<1> SUFFICES ASSUME Init PROVE TypeInv
  OBVIOUS
<1>1. tx \in [Lignes -> Ligne \cup {Vide}]
  <2>1. \A ty \in Types, a \in Agents, m \in Montants : Nouvelle(ty, a, m) \in Ligne
    BY NouvelleLigne
  <2> QED BY <2>1 DEF Init, StoreInit
<1>2. StoreTypeOK
  BY <1>1, StoreAssumption DEF Init, StoreInit, StoreTypeOK
<1>3. audit \in [Lignes -> Seq(Statuts)]
  <2>1. <<"PENDING">> \in Seq(Statuts) /\ <<>> \in Seq(Statuts)
    BY DEF Statuts
  <2> QED BY <2>1 DEF Init
<1>4. req \in [Requetes -> Requete]
  BY DEF Init, Requete, Lignes
<1>5. TypeOK
  BY <1>2, <1>3, <1>4, TransactionsAssumption DEF Init, TypeOK
<1>6. Frais
  BY DEF Init, StoreInit, Frais, Lignes
<1>7. CibleLa /\ CreationPrete
  BY DEF Init, CibleLa, CreationPrete
<1> QED BY <1>5, <1>6, <1>7 DEF TypeInv
(* Writing a status or a reversal link leaves a well-formed row, and so    *)
(* does copying a row into its compensation.                               *)
LEMMA LigneEcrite ==
  ASSUME NEW l \in Ligne, NEW s \in Statuts, NEW q \in Requetes
  PROVE  /\ [l EXCEPT !.statut = s] \in Ligne
         /\ [l EXCEPT !.statut = s, !.reversal = q, !.commission = 0] \in Ligne
         /\ [l EXCEPT !.statut = s, !.type = "REVERSAL",
                      !.commission = 0, !.reversal = Aucun] \in Ligne
BY DEF Ligne, Statuts, TypesFR

LEMMA AppendStatut ==
  ASSUME NEW a \in Seq(Statuts), NEW s \in Statuts
  PROVE  /\ Append(a, s) \in Seq(Statuts)
         /\ Append(a, s) # <<>>
         /\ Append(a, s)[Len(Append(a, s))] = s
OBVIOUS

(* A request that writes row t has read it: both exist as they should.     *)
LEMMA EcritLigne ==
  ASSUME TypeInv, NEW r \in Requetes, NEW t \in Lignes, NEW op \in DOMAIN Attendu,
         Ecrit(r, op, t)
  PROVE  /\ tx[t] \in Ligne
         /\ tx[r] = Vide
         /\ t # r
         /\ r \in Lignes
<1>1. req[r].pc = "lu" /\ req[r].op = op /\ op # "create" /\ req[r].cible = t
  BY DEF Ecrit, Attendu
<1>2. tx[t] \in Ligne /\ tx[r] = Vide
  BY <1>1 DEF TypeInv, CibleLa, Frais
<1> QED BY <1>2, VideAbsent DEF Lignes

(* What the reading half of a method does to the requests.                 *)
LEMMA LireTypeInv ==
  ASSUME TypeInv, NEW r \in Requetes, NEW op \in DOMAIN Attendu, NEW t \in Lignes,
         Lire(r, op, t)
  PROVE  TypeInv'
<1>1. req[r].pc = "repos" /\ tx[r] = Vide
  BY DEF Lire, TypeInv, Frais
<1>2. tx[t] \in Ligne
  <2>1. Attendu[op] # "ABSENT"
    BY DEF Attendu
  <2>2. tx[t] # Vide
    BY <2>1, VideAbsent DEF Lire
  <2> QED BY <2>2 DEF TypeInv, TypeOK, StoreTypeOK
<1>3. op \in OpsService /\ op # "create"
  BY DEF Attendu, OpsService
<1> DEFINE n == [op |-> op, cible |-> t, ligne |-> Vide, vu |-> tx[t].statut, pc |-> "lu"]
<1>4. n \in Requete
  BY <1>2, <1>3 DEF Requete, Ligne
<1>5. req' = [req EXCEPT ![r] = n] /\ req \in [Requetes -> Requete]
  BY DEF Lire, TypeInv, TypeOK
<1>6. TypeOK'
  BY <1>4, <1>5 DEF Lire, TypeInv, TypeOK, StoreTypeOK
<1>7. Frais' /\ CibleLa' /\ CreationPrete'
  BY <1>1, <1>2, <1>3, <1>5 DEF Lire, TypeInv, Frais, CibleLa, CreationPrete
<1> QED BY <1>6, <1>7 DEF TypeInv

LEMMA CreationTypeInv ==
  ASSUME TypeInv, NEW r \in Requetes, NEW ty \in Types, NEW a \in Agents, NEW m \in Montants,
         LireCreation(r, ty, a, m)
  PROVE  TypeInv'
<1> DEFINE l == Nouvelle(ty, a, m)
           n == [op |-> "create", cible |-> r, ligne |-> l, vu |-> "ABSENT", pc |-> "lu"]
<1>1. l \in Ligne /\ l.statut = "PENDING" /\ l.reversal = Aucun
  BY NouvelleLigne
<1>2. n \in Requete
  BY <1>1 DEF Requete, OpsService, Lignes
<1>3. req' = [req EXCEPT ![r] = n] /\ req \in [Requetes -> Requete] /\ req[r].pc = "repos"
  BY DEF LireCreation, TypeInv, TypeOK
<1>4. TypeOK'
  BY <1>2, <1>3 DEF LireCreation, TypeInv, TypeOK, StoreTypeOK
<1>5. Frais' /\ CibleLa' /\ CreationPrete'
  BY <1>1, <1>3 DEF LireCreation, TypeInv, Frais, CibleLa, CreationPrete, OpsService
<1> QED BY <1>4, <1>5 DEF TypeInv

LEMMA InsererTypeInv ==
  ASSUME TypeInv, NEW r \in Requetes, Inserer(r)
  PROVE  TypeInv'
<1>1. req[r].ligne \in Ligne /\ tx[r] = Vide /\ r \in Lignes
  BY DEF Inserer, TypeInv, CreationPrete, Frais, Lignes
<1>2. audit[r] \in Seq(Statuts) /\ "PENDING" \in Statuts
  BY <1>1 DEF TypeInv, TypeOK, Statuts
<1>3. Append(audit[r], "PENDING") \in Seq(Statuts)
  BY <1>2
<1>4. tx' \in [Lignes -> Ligne \cup {Vide}] /\ audit' \in [Lignes -> Seq(Statuts)]
  BY <1>1, <1>3 DEF Inserer, TypeInv, TypeOK, StoreTypeOK
<1>5. req' \in [Requetes -> Requete]
  BY DEF Inserer, TypeInv, TypeOK, Requete
<1>6. TypeOK'
  BY <1>4, <1>5 DEF Inserer, TypeInv, TypeOK, StoreTypeOK
<1>7. Frais' /\ CibleLa' /\ CreationPrete'
  BY <1>1 DEF Inserer, TypeInv, TypeOK, StoreTypeOK, Frais, CibleLa, CreationPrete
<1> QED BY <1>6, <1>7 DEF TypeInv

(* The three methods that write an existing row differ only in what they   *)
(* write: they keep the rows, the log and the requests well formed.        *)
LEMMA EcrireTypeInv ==
  ASSUME TypeInv, NEW r \in Requetes, NEW t \in Lignes,
         Completer(r, t) \/ Annuler(r, t) \/ Reverser(r, t)
  PROVE  TypeInv'
<1>1. tx[t] \in Ligne /\ tx[r] = Vide /\ t # r /\ r \in Lignes
  BY EcritLigne DEF Completer, Annuler, Reverser, Attendu
<1>2. req[r].pc = "lu" /\ req \in [Requetes -> Requete] /\ tx \in [Lignes -> Ligne \cup {Vide}]
  BY DEF Completer, Annuler, Reverser, Ecrit, TypeInv, TypeOK, StoreTypeOK
<1>3. audit[t] \in Seq(Statuts)
  BY DEF TypeInv, TypeOK
<1>4. PICK s \in Statuts, p \in {"commis", "fini"} :
        /\ tx' = [tx EXCEPT ![t].statut = s]
           \/ tx' = [tx EXCEPT ![t].statut = s, ![t].reversal = r,
                               ![t].commission = 0, ![r] = Compensation(t)]
        /\ audit' = [audit EXCEPT ![t] = Append(@, s)]
        /\ req' = [req EXCEPT ![r].pc = p]
  BY DEF Completer, Annuler, Reverser, Statuts
<1>5. /\ [tx[t] EXCEPT !.statut = s] \in Ligne
      /\ [tx[t] EXCEPT !.statut = s, !.reversal = r, !.commission = 0] \in Ligne
      /\ Compensation(t) \in Ligne
  BY <1>1, LigneEcrite DEF Compensation, Statuts
<1>6. /\ tx' \in [Lignes -> Ligne \cup {Vide}]
      /\ \A u \in Lignes : tx[u] \in Ligne => tx'[u] \in Ligne
      /\ \A u \in Lignes \ {t, r} : tx'[u] = tx[u]
  BY <1>1, <1>2, <1>4, <1>5
<1>7. audit' \in [Lignes -> Seq(Statuts)]
  <2>1. Append(audit[t], s) \in Seq(Statuts)
    BY <1>3, AppendStatut
  <2> QED BY <2>1, <1>4 DEF TypeInv, TypeOK
<1>8. /\ req' \in [Requetes -> Requete]
      /\ req'[r].pc \in {"commis", "fini"}
      /\ \A q \in Requetes \ {r} : req'[q] = req[q]
  BY <1>2, <1>4 DEF Requete
<1>9. TypeOK'
  <2>1. courses' \subseteq Lignes
    BY DEF Completer, Annuler, Reverser, Noter, TypeInv, TypeOK
  <2> QED BY <1>6, <1>7, <1>8, <2>1 DEF Completer, Annuler, Reverser, TypeInv, TypeOK, StoreTypeOK
<1>10. Frais'
  <2> SUFFICES ASSUME NEW q \in Requetes, req'[q].pc \in {"repos", "lu"}
               PROVE  tx'[q] = Vide
    BY DEF Frais
  <2>1. q # r /\ req'[q] = req[q]
    BY <1>8
  <2>2. tx[q] = Vide
    BY <2>1 DEF TypeInv, Frais
  <2>3. q # t
    BY <2>2, <1>1, VideAbsent
  <2> QED BY <2>1, <2>2, <2>3, <1>6 DEF Lignes
<1>11. CibleLa' /\ CreationPrete'
  BY <1>6, <1>8 DEF TypeInv, CibleLa, CreationPrete
<1> QED BY <1>9, <1>10, <1>11 DEF TypeInv

(* Every step of the service keeps the invariant.                          *)
LEMMA NextTypeInv == TypeInv /\ [Next]_vars => TypeInv'
<1> SUFFICES ASSUME TypeInv, [Next]_vars PROVE TypeInv'
  OBVIOUS
<1>1. CASE UNCHANGED vars
  BY <1>1 DEF vars, TypeInv, TypeOK, StoreTypeOK, Frais, CibleLa, CreationPrete
<1>2. CASE Statut
  BY <1>2 DEF Statut, Suspendre, Activer, TypeInv, TypeOK, StoreTypeOK,
              Frais, CibleLa, CreationPrete
<1>3. CASE PerdreRequetes
  <2>1. pannes' \in 0..MaxPannes
    BY <1>3, TransactionsAssumption DEF PerdreRequetes, TypeInv, TypeOK
  <2>2. \A r \in Requetes : req'[r] \in Requete
                             /\ (req'[r] = req[r] \/ req'[r].pc = "perdu")
    BY <1>3 DEF PerdreRequetes, TypeInv, TypeOK, Requete
  <2>3. req' \in [Requetes -> Requete]
    BY <1>3, <2>2 DEF PerdreRequetes
  <2>4. TypeOK'
    BY <1>3, <2>1, <2>3 DEF PerdreRequetes, TypeInv, TypeOK, StoreTypeOK
  <2>5. Frais' /\ CibleLa' /\ CreationPrete'
    BY <1>3, <2>2 DEF PerdreRequetes, TypeInv, Frais, CibleLa, CreationPrete
  <2> QED BY <2>4, <2>5 DEF TypeInv
<1>4. ASSUME NEW r \in Requetes, Etape(r)
      PROVE  TypeInv'
  <2>1. CASE \E ty \in Types, a \in Agents, m \in Montants : LireCreation(r, ty, a, m)
    BY <2>1, CreationTypeInv
  <2>2. CASE Inserer(r)
    BY <2>2, InsererTypeInv
  <2>3. CASE \E op \in DOMAIN Attendu, t \in Lignes : Lire(r, op, t)
    BY <2>3, LireTypeInv
  <2>4. CASE \E t \in Lignes : Completer(r, t) \/ Annuler(r, t) \/ Reverser(r, t)
    BY <2>4, EcrireTypeInv
  <2>5. CASE Emettre(r)
    <3>1. req' \in [Requetes -> Requete]
      BY <2>5 DEF Emettre, TypeInv, TypeOK, Requete
    <3>2. TypeOK'
      BY <2>5, <3>1 DEF Emettre, TypeInv, TypeOK, StoreTypeOK
    <3>3. Frais' /\ CibleLa' /\ CreationPrete'
      BY <2>5 DEF Emettre, TypeInv, TypeOK, Frais, CibleLa, CreationPrete
    <3> QED BY <3>2, <3>3 DEF TypeInv
  <2> QED BY <1>4, <2>1, <2>2, <2>3, <2>4, <2>5 DEF Etape
<1> QED BY <1>1, <1>2, <1>3, <1>4 DEF Next, Service

(* Type correctness: the tables, the audit log and the requests keep their *)
(* types through every interleaving and every restart.                     *)
THEOREM TypeCorrect == Spec => []TypeOK
<1>1. Init => TypeInv
  BY InitTypeInv
<1>2. TypeInv /\ [Next]_vars => TypeInv'
  BY NextTypeInv
<1>3. TypeInv => TypeOK
  BY DEF TypeInv
<1> QED BY <1>1, <1>2, <1>3, PTL DEF Spec
-----------------------------------------------------------------------------
(* The audit log *)

AuditInv == TypeInv /\ AuditFidele

(* A row no request has inserted has no audit record: the last record      *)
(* would be the status of a row, and "ABSENT" is none.                     *)
LEMMA SansTrace ==
  ASSUME AuditInv, NEW t \in Lignes, tx[t] = Vide
  PROVE  audit[t] = <<>>
<1> SUFFICES ASSUME audit[t] # <<>> PROVE FALSE
  OBVIOUS
<1>1. audit[t] \in Seq(Statuts)
  BY DEF AuditInv, TypeInv, TypeOK
<1>2. audit[t][Len(audit[t])] \in Statuts
  BY <1>1
<1>3. audit[t][Len(audit[t])] = "ABSENT"
  BY VideAbsent DEF AuditInv, AuditFidele
<1> QED BY <1>2, <1>3 DEF Statuts

LEMMA EcrireAudit ==
  ASSUME AuditInv, NEW r \in Requetes, NEW t \in Lignes,
         Completer(r, t) \/ Annuler(r, t) \/ Reverser(r, t)
  PROVE  AuditFidele'
<1>1. tx[t] \in Ligne /\ tx[r] = Vide /\ t # r /\ r \in Lignes
  BY EcritLigne DEF Completer, Annuler, Reverser, Attendu, AuditInv
<1>2. audit[r] = <<>>
  BY <1>1, SansTrace
<1>3. PICK s \in Statuts :
        /\ tx'[t].statut = s
        /\ audit' = [audit EXCEPT ![t] = Append(@, s)]
        /\ \A u \in Lignes \ {t, r} : tx'[u] = tx[u]
        /\ \/ tx'[r] = tx[r] /\ reversals' = reversals
           \/ reversals' = reversals \cup {r}
  BY <1>1 DEF Completer, Annuler, Reverser, Statuts, AuditInv, TypeInv, TypeOK, StoreTypeOK,
              Ligne
<1>4. audit[t] \in Seq(Statuts) /\ audit \in [Lignes -> Seq(Statuts)]
  BY DEF AuditInv, TypeInv, TypeOK
<1>5. audit'[t] # <<>> /\ audit'[t][Len(audit'[t])] = s
  BY <1>3, <1>4, AppendStatut
<1>6. \A u \in Lignes \ {t} : audit'[u] = audit[u]
  BY <1>3, <1>4
<1> SUFFICES ASSUME NEW u \in Lignes
             PROVE  /\ audit'[u] # <<>> => audit'[u][Len(audit'[u])] = tx'[u].statut
                    /\ audit'[u] = <<>> => tx'[u] = Vide \/ u \in reversals'
  BY DEF AuditFidele
<1>7. CASE u = t
  BY <1>3, <1>5, <1>7
<1>8. CASE u = r
  BY <1>1, <1>2, <1>3, <1>6, <1>8
<1>9. CASE u \notin {t, r}
  <2>1. audit'[u] = audit[u] /\ tx'[u] = tx[u] /\ reversals \subseteq reversals'
    BY <1>3, <1>6, <1>9
  <2> QED BY <2>1 DEF AuditInv, AuditFidele
<1> QED BY <1>7, <1>8, <1>9

LEMMA InsererAudit ==
  ASSUME AuditInv, NEW r \in Requetes, Inserer(r)
  PROVE  AuditFidele'
<1>1. tx'[r].statut = "PENDING" /\ r \in Lignes
  BY DEF Inserer, AuditInv, TypeInv, TypeOK, StoreTypeOK, CreationPrete, Lignes
<1>2. audit[r] \in Seq(Statuts) /\ "PENDING" \in Statuts
  BY <1>1 DEF AuditInv, TypeInv, TypeOK, Statuts
<1>3. audit'[r] = Append(audit[r], "PENDING")
  BY <1>1 DEF Inserer, AuditInv, TypeInv, TypeOK
<1>4. audit'[r] # <<>> /\ audit'[r][Len(audit'[r])] = "PENDING"
  BY <1>2, <1>3, AppendStatut
<1>5. \A u \in Lignes \ {r} : audit'[u] = audit[u] /\ tx'[u] = tx[u]
  BY DEF Inserer, AuditInv, TypeInv, TypeOK, StoreTypeOK
<1>6. reversals' = reversals
  BY DEF Inserer
<1> SUFFICES ASSUME NEW u \in Lignes
             PROVE  /\ audit'[u] # <<>> => audit'[u][Len(audit'[u])] = tx'[u].statut
                    /\ audit'[u] = <<>> => tx'[u] = Vide \/ u \in reversals'
  BY DEF AuditFidele
<1>7. CASE u = r
  BY <1>1, <1>4, <1>7
<1>8. CASE u # r
  <2>1. audit'[u] = audit[u] /\ tx'[u] = tx[u]
    BY <1>5, <1>8
  <2> QED BY <2>1, <1>6 DEF AuditInv, AuditFidele
<1> QED BY <1>7, <1>8

LEMMA InitAudit == Init => AuditFidele
<1> SUFFICES ASSUME Init, NEW t \in Lignes
             PROVE  /\ audit[t] # <<>> => audit[t][Len(audit[t])] = tx[t].statut
                    /\ audit[t] = <<>> => tx[t] = Vide \/ t \in reversals
  BY DEF AuditFidele
<1>1. CASE t \in Existantes
  <2>1. tx[t] # Vide
    BY <1>1, StoreAssumption DEF Init, StoreInit
  <2>2. PICK ty \in Types, a \in Agents, m \in Montants : tx[t] = Nouvelle(ty, a, m)
    BY <2>1 DEF Init, StoreInit
  <2>3. tx[t].statut = "PENDING"
    BY <2>2, NouvelleLigne
  <2>4. audit[t] = <<"PENDING">>
    BY <1>1 DEF Init
  <2> QED BY <2>3, <2>4
<1>2. CASE t \notin Existantes
  <2>1. t \in Requetes
    BY <1>2 DEF Lignes
  <2>2. tx[t] = Vide /\ audit[t] = <<>>
    BY <1>2, <2>1 DEF Init, StoreInit
  <2> QED BY <2>2
<1> QED BY <1>1, <1>2

LEMMA NextAudit == AuditInv /\ [Next]_vars => AuditFidele'
<1> SUFFICES ASSUME AuditInv, [Next]_vars PROVE AuditFidele'
  OBVIOUS
<1>1. CASE UNCHANGED <<tx, reversals, audit>>
  BY <1>1 DEF AuditInv, AuditFidele
<1>2. ASSUME NEW r \in Requetes, Inserer(r) PROVE AuditFidele'
  BY <1>2, InsererAudit
<1>3. ASSUME NEW r \in Requetes, NEW t \in Lignes,
             Completer(r, t) \/ Annuler(r, t) \/ Reverser(r, t)
      PROVE  AuditFidele'
  BY <1>3, EcrireAudit
<1> QED BY <1>1, <1>2, <1>3 DEF Next, Service, Statut, Etape, vars, Suspendre, Activer,
                                LireCreation, Lire, Emettre, PerdreRequetes

(* The audit log never lies, with overlapping requests and restarts: its   *)
(* last record about a transaction is the status of the transaction.       *)
THEOREM AuditSur == Spec => []AuditFidele
<1>1. Init => AuditInv
  BY InitTypeInv, InitAudit DEF AuditInv
<1>2. AuditInv /\ [Next]_vars => AuditInv'
  BY NextTypeInv, NextAudit DEF AuditInv
<1>3. AuditInv => AuditFidele
  BY DEF AuditInv
<1> QED BY <1>1, <1>2, <1>3, PTL DEF Spec
-----------------------------------------------------------------------------
(* Totals, reversal links and contract, with overlapping requests *)

(* A request about to write an existing row.                               *)
Prete(r) == req[r].pc = "lu" /\ req[r].op \in DOMAIN Attendu

(* What its read still says of the row, whatever others wrote since: a     *)
(* completed row is never PENDING again, and a row that was PENDING is no  *)
(* compensation.                                                           *)
Memoire ==
  \A r \in Requetes : Prete(r) =>
    /\ req[r].vu = Attendu[req[r].op]
    /\ req[r].op = "reverse" => tx[req[r].cible].statut # "PENDING"
    /\ req[r].op # "reverse" => req[r].cible \notin reversals

(* Compensating transactions are COMPLETED, or reversed in their turn, and *)
(* the row each of them compensates is known.                              *)
CompensationFaite ==
  \A q \in reversals : tx[q].statut \in {"COMPLETED", "REVERSED"} /\ req[q].cible \in Lignes

ServiceInv ==
  /\ TypeInv
  /\ Memoire
  /\ CompensationFaite
  /\ AgregatExact
  /\ LienUnUn

(* The completions an audit log records, and their number.                 *)
Completions(a) == {i \in DOMAIN a : a[i] = "COMPLETED"}

(* One more record adds one completion when it is one.                     *)
LEMMA CompteAppend ==
  ASSUME NEW a \in Seq(Statuts), NEW s \in Statuts
  PROVE  Cardinality(Completions(Append(a, s))) =
           Cardinality(Completions(a)) + (IF s = "COMPLETED" THEN 1 ELSE 0)
<1>1. Len(a) \in Nat /\ DOMAIN a = 1..Len(a) /\ DOMAIN Append(a, s) = 1..(Len(a) + 1)
  OBVIOUS
<1>2. \A i \in 1..Len(a) : Append(a, s)[i] = a[i]
  OBVIOUS
<1>3. Append(a, s)[Len(a) + 1] = s
  OBVIOUS
<1>4. IsFiniteSet(Completions(a))
  <2>1. IsFiniteSet(1..Len(a))
    BY <1>1, FS_Interval
  <2> QED BY <1>1, <2>1, FS_Subset DEF Completions
<1>5. Len(a) + 1 \notin Completions(a)
  BY <1>1 DEF Completions
<1>6. CASE s = "COMPLETED"
  <2>1. Completions(Append(a, s)) = Completions(a) \cup {Len(a) + 1}
    BY <1>1, <1>2, <1>3, <1>6 DEF Completions
  <2> QED BY <1>4, <1>5, <1>6, <2>1, FS_AddElement
<1>7. CASE s # "COMPLETED"
  <2>1. Completions(Append(a, s)) = Completions(a)
    BY <1>1, <1>2, <1>3, <1>7 DEF Completions
  <2>2. Cardinality(Completions(a)) \in Nat
    BY <1>4, FS_CardinalityType
  <2> QED BY <1>7, <2>1, <2>2
<1> QED BY <1>6, <1>7

LEMMA InitService == Init => ServiceInv
<1> SUFFICES ASSUME Init PROVE ServiceInv
  OBVIOUS
<1>1. TypeInv
  BY InitTypeInv
<1>2. Memoire /\ CompensationFaite
  BY DEF Init, StoreInit, Memoire, CompensationFaite, Prete
<1>3. \A t \in Lignes : tx[t].statut \in {"ABSENT", "PENDING"}
  BY NouvelleLigne, VideAbsent DEF Init, StoreInit
<1>4. \A t \in Lignes : Cardinality(Completions(audit[t])) = 0
  <2>1. \A t \in Lignes : Completions(audit[t]) = {}
    BY DEF Init, Completions
  <2> QED BY <2>1, FS_EmptySet
<1>5. AgregatExact
  BY <1>3, <1>4 DEF Init, AgregatExact, Completions
<1>6. LienUnUn
  BY <1>3 DEF Init, StoreInit, LienUnUn
<1> QED BY <1>1, <1>2, <1>5, <1>6 DEF ServiceInv

(* What a request about to write knows of the row it writes.               *)
LEMMA EcritSait ==
  ASSUME ServiceInv, NEW r \in Requetes, NEW t \in Lignes, NEW op \in DOMAIN Attendu,
         Ecrit(r, op, t)
  PROVE  /\ tx[t] \in Ligne /\ req[r].vu = Attendu[op]
         /\ op = "reverse" => tx[t].statut # "PENDING"
         /\ op # "reverse" => t \notin reversals
         /\ tx[r] = Vide /\ t # r /\ r \in Lignes
         /\ r \notin reversals
         /\ \A q \in Requetes \ {r} : Prete(q) => req[q].cible \in Lignes \ {r}
<1>1. tx[t] \in Ligne /\ tx[r] = Vide /\ t # r /\ r \in Lignes
  BY EcritLigne DEF ServiceInv
<1>2. Prete(r) /\ req[r].cible = t /\ req[r].op = op
  BY DEF Ecrit, Prete
<1>3. /\ req[r].vu = Attendu[op]
      /\ op = "reverse" => tx[t].statut # "PENDING"
      /\ op # "reverse" => t \notin reversals
  BY <1>2 DEF ServiceInv, Memoire
<1>4. r \notin reversals
  BY <1>1, VideAbsent DEF ServiceInv, CompensationFaite
<1>5. ASSUME NEW q \in Requetes \ {r}, Prete(q)
      PROVE  req[q].cible \in Lignes \ {r}
  <2>1. req[q].cible \in Lignes /\ tx[req[q].cible] \in Ligne
    BY <1>5 DEF ServiceInv, TypeInv, CibleLa, Prete, Attendu
  <2> QED BY <1>1, <2>1, VideAbsent
<1> QED BY <1>1, <1>3, <1>4, <1>5

(* A request that inserted a reversal is past its reading.                 *)
LEMMA ReversalPassee ==
  ASSUME ServiceInv, NEW q \in reversals
  PROVE  q \in Requetes /\ req[q].pc \notin {"repos", "lu"}
BY VideAbsent DEF ServiceInv, TypeInv, TypeOK, StoreTypeOK, Frais, CompensationFaite

(* A read adds one request about to write.                                 *)
LEMMA LireService ==
  ASSUME ServiceInv, NEW r \in Requetes, NEW op \in DOMAIN Attendu,
         NEW t \in Lignes, Lire(r, op, t)
  PROVE  ServiceInv'
<1>1. TypeInv'
  BY LireTypeInv DEF ServiceInv
<1>2. /\ req'[r].op = op /\ req'[r].cible = t /\ req'[r].vu = tx[t].statut
      /\ req[r].pc = "repos" /\ tx[t].statut = Attendu[op]
      /\ \A q \in Requetes \ {r} : req'[q] = req[q]
      /\ UNCHANGED <<tx, reversals, agregats, audit, courses>>
  BY DEF Lire, ServiceInv, TypeInv, TypeOK
<1>3. Memoire'
  <2>1. op # "reverse" => t \notin reversals
    BY <1>2 DEF ServiceInv, CompensationFaite, Attendu
  <2>2. \A q \in Requetes \ {r} : Prete(q)' => Prete(q)
    BY <1>2 DEF Prete
  <2> QED BY <1>2, <2>1, <2>2 DEF ServiceInv, Memoire, Attendu
<1>4. AgregatExact'
  BY <1>2 DEF ServiceInv, AgregatExact
<1>5. \A q \in reversals : q \in Requetes \ {r}
  BY <1>2, ReversalPassee
<1>7. CompensationFaite'
  BY <1>2, <1>5 DEF ServiceInv, CompensationFaite
<1>6. LienUnUn'
  BY <1>2, <1>5 DEF ServiceInv, LienUnUn
<1> QED BY <1>1, <1>3, <1>4, <1>6, <1>7 DEF ServiceInv

(* Steps that write no row and leave no new request about to write.        *)
LEMMA AutreService ==
  ASSUME ServiceInv, TypeInv', UNCHANGED <<tx, reversals, agregats, audit, courses>>,
         \A r \in Requetes : Prete(r)' => Prete(r) /\ req'[r] = req[r],
         \A r \in Requetes : req[r].pc # "repos" => req'[r].cible = req[r].cible
  PROVE  ServiceInv'
<1>1. Memoire'
  BY DEF ServiceInv, Memoire
<1>2. AgregatExact'
  BY DEF ServiceInv, AgregatExact
<1>3. \A q \in reversals : req'[q].cible = req[q].cible
  BY ReversalPassee
<1>4. CompensationFaite' /\ LienUnUn'
  BY <1>3 DEF ServiceInv, CompensationFaite, LienUnUn
<1> QED BY <1>1, <1>2, <1>4 DEF ServiceInv

LEMMA InsererService ==
  ASSUME ServiceInv, NEW r \in Requetes, Inserer(r)
  PROVE  ServiceInv'
<1>1. TypeInv'
  BY InsererTypeInv DEF ServiceInv
<1>2. /\ tx[r] = Vide /\ r \in Lignes
      /\ tx'[r].statut = "PENDING"
      /\ \A u \in Lignes \ {r} : tx'[u] = tx[u] /\ audit'[u] = audit[u]
      /\ UNCHANGED <<reversals, agregats, courses>>
      /\ \A q \in Requetes : req'[q].cible = req[q].cible
  BY DEF Inserer, ServiceInv, TypeInv, TypeOK, StoreTypeOK, CreationPrete, Frais, Lignes
<1>3. \A q \in Requetes : Prete(q)' => Prete(q) /\ req'[q] = req[q]
  BY DEF Inserer, ServiceInv, TypeInv, TypeOK, Prete
<1>4. \A q \in Requetes : Prete(q) => req[q].cible \in Lignes \ {r}
  <2> SUFFICES ASSUME NEW q \in Requetes, Prete(q) PROVE req[q].cible \in Lignes \ {r}
    OBVIOUS
  <2>1. req[q].cible \in Lignes /\ tx[req[q].cible] \in Ligne
    BY DEF ServiceInv, TypeInv, CibleLa, Prete, Attendu
  <2> QED BY <2>1, <1>2, VideAbsent
<1>5. Memoire'
  BY <1>2, <1>3, <1>4 DEF ServiceInv, Memoire
<1>6. r \notin reversals
  BY <1>2, VideAbsent DEF ServiceInv, CompensationFaite
<1>7. CompensationFaite'
  BY <1>2, <1>6, ReversalPassee DEF ServiceInv, CompensationFaite, TypeInv, TypeOK, StoreTypeOK, Lignes
<1>8. AgregatExact'
  <2>1. audit[r] \in Seq(Statuts) /\ audit'[r] = Append(audit[r], "PENDING")
    BY <1>2 DEF Inserer, ServiceInv, TypeInv, TypeOK
  <2>2. agregats[r] \in Nat /\ agregats[r] = Cardinality(Completions(audit[r]))
    BY <1>2 DEF ServiceInv, AgregatExact, TypeInv, TypeOK, Completions
  <2>3. agregats[r] = Cardinality(Completions(audit'[r]))
    BY <2>1, <2>2, CompteAppend DEF Statuts
  <2> SUFFICES ASSUME NEW u \in Lignes
               PROVE  /\ agregats'[u] = Cardinality(Completions(audit'[u]))
                      /\ u \notin courses' =>
                           agregats'[u] = IF u \notin reversals' /\ tx'[u].statut \in {"COMPLETED", "REVERSED"}
                                          THEN 1 ELSE 0
    BY DEF AgregatExact, Completions
  <2>4. /\ agregats[u] = Cardinality(Completions(audit[u]))
        /\ u \notin courses =>
             agregats[u] = IF u \notin reversals /\ tx[u].statut \in {"COMPLETED", "REVERSED"}
                           THEN 1 ELSE 0
    BY DEF ServiceInv, AgregatExact, Completions
  <2>5. CASE u = r
    <3>1. r \notin courses => agregats[r] = 0
      BY <1>2, <2>4, <2>5, VideAbsent
    <3> QED BY <1>2, <2>3, <2>5, <3>1
  <2>6. CASE u # r
    <3>1. tx'[u] = tx[u] /\ audit'[u] = audit[u]
      BY <1>2, <2>6
    <3> QED BY <1>2, <2>4, <3>1
  <2> QED BY <2>5, <2>6
<1>9. LienUnUn'
  <2>1. \A u \in Lignes : tx'[u].statut = "REVERSED" => u # r /\ tx'[u] = tx[u]
    BY <1>2
  <2>2. \A u \in Lignes : tx[u].statut = "REVERSED" => u # r /\ tx'[u] = tx[u]
    BY <1>2, VideAbsent
  <2>3. \A q \in reversals : q \in Requetes
    BY ReversalPassee
  <2>4. \A u \in Lignes : tx'[u].statut = "REVERSED" =>
          tx'[u].reversal \in reversals' /\ req'[tx'[u].reversal].cible = u
    BY <1>2, <2>1, <2>3 DEF ServiceInv, LienUnUn
  <2>5. ASSUME NEW q \in reversals'
        PROVE  LET t == req'[q].cible
               IN  t \in courses' \/ (tx'[t].statut = "REVERSED" /\ tx'[t].reversal = q)
    <3>1. q \in Requetes /\ q \in reversals /\ req'[q].cible = req[q].cible
      BY <1>2, <2>3, <2>5
    <3>2. CASE req[q].cible \in courses
      BY <1>2, <3>1, <3>2
    <3>3. CASE req[q].cible \notin courses
      <4>1. tx[req[q].cible].statut = "REVERSED" /\ tx[req[q].cible].reversal = q
        BY <3>1, <3>3 DEF ServiceInv, LienUnUn
      <4>2. req[q].cible \in Lignes
        BY <3>1, <4>1 DEF ServiceInv, CompensationFaite
      <4> QED BY <2>2, <3>1, <4>1, <4>2
    <3> QED BY <3>2, <3>3
  <2> QED BY <2>4, <2>5 DEF LienUnUn
<1> QED BY <1>1, <1>5, <1>7, <1>8, <1>9 DEF ServiceInv

(* A write keeps Memoire and moves the request past its reading.           *)
LEMMA EcrireRequetes ==
  ASSUME ServiceInv, NEW r \in Requetes, NEW t \in Lignes,
         Completer(r, t) \/ Annuler(r, t) \/ Reverser(r, t)
  PROVE  /\ req'[r].pc \in {"commis", "fini"}
         /\ \A q \in Requetes \ {r} : req'[q] = req[q]
         /\ \A q \in Requetes : req'[q].cible = req[q].cible
         /\ \A q \in Requetes : Prete(q)' => q # r /\ Prete(q)
<1>1. PICK p \in {"commis", "fini"} : req' = [req EXCEPT ![r].pc = p]
  BY DEF Completer, Annuler, Reverser
<1>2. /\ req'[r].pc = p
      /\ \A q \in Requetes \ {r} : req'[q] = req[q]
      /\ \A q \in Requetes : req'[q].cible = req[q].cible
  BY <1>1 DEF ServiceInv, TypeInv, TypeOK, Requete
<1> QED BY <1>2 DEF Prete

(* complete and cancel: the row is no compensation, and if its status is   *)
(* not PENDING any more it is listed in courses.                           *)
LEMMA ReglerService ==
  ASSUME ServiceInv, NEW r \in Requetes, NEW t \in Lignes, Completer(r, t) \/ Annuler(r, t)
  PROVE  ServiceInv'
<1>1. TypeInv'
  BY EcrireTypeInv DEF ServiceInv
<1>2. /\ tx[t] \in Ligne /\ t \notin reversals
      /\ req[r].vu = "PENDING"
  BY EcritSait DEF Completer, Annuler, Attendu
<1>3. PICK s \in {"COMPLETED", "CANCELLED"} :
        /\ tx'[t].statut = s
        /\ audit' = [audit EXCEPT ![t] = Append(@, s)]
        /\ agregats' = [agregats EXCEPT ![t] = @ + (IF s = "COMPLETED" THEN 1 ELSE 0)]
        /\ \A u \in Lignes \ {t} : tx'[u] = tx[u]
        /\ reversals' = reversals
  <2>1. tx' = [tx EXCEPT ![t].statut = "COMPLETED"] \/ tx' = [tx EXCEPT ![t].statut = "CANCELLED"]
    BY DEF Completer, Annuler
  <2>2. CASE Completer(r, t)
    BY <1>2, <2>2 DEF Completer, Ligne, ServiceInv, TypeInv, TypeOK, StoreTypeOK
  <2>3. CASE Annuler(r, t)
    <3>1. agregats \in [Lignes -> Nat] /\ agregats' = agregats
      BY <2>3 DEF Annuler, ServiceInv, TypeInv, TypeOK
    <3>2. agregats' = [agregats EXCEPT ![t] = @ + 0]
      BY <3>1
    <3> QED BY <1>2, <2>3, <3>2 DEF Annuler, Ligne, ServiceInv, TypeInv, TypeOK, StoreTypeOK
  <2> QED BY <2>2, <2>3
<1>4. /\ courses \subseteq courses'
      /\ t \notin courses' => tx[t].statut = "PENDING"
      /\ courses' \subseteq courses \cup {t}
  BY <1>2 DEF Completer, Annuler, Noter
<1>5. /\ \A q \in Requetes : req'[q].cible = req[q].cible
      /\ \A q \in Requetes : Prete(q)' => Prete(q) /\ req'[q] = req[q]
  BY EcrireRequetes
<1>6. Memoire'
  <2> SUFFICES ASSUME NEW q \in Requetes, Prete(q)'
               PROVE  /\ req'[q].vu = Attendu[req'[q].op]
                      /\ req'[q].op = "reverse" => tx'[req'[q].cible].statut # "PENDING"
                      /\ req'[q].op # "reverse" => req'[q].cible \notin reversals'
    BY DEF Memoire
  <2>1. Prete(q) /\ req'[q] = req[q]
    BY <1>5
  <2>2. req[q].cible \in Lignes
    BY <2>1 DEF ServiceInv, TypeInv, CibleLa, Prete, Attendu
  <2> QED BY <1>3, <2>1, <2>2 DEF ServiceInv, Memoire
<1>7. CompensationFaite'
  BY <1>2, <1>3, <1>5, ReversalPassee
     DEF ServiceInv, CompensationFaite, TypeInv, TypeOK, StoreTypeOK, Lignes
<1>8. AgregatExact'
  <2>1. agregats \in [Lignes -> Nat] /\ audit \in [Lignes -> Seq(Statuts)]
    BY DEF ServiceInv, TypeInv, TypeOK
  <2>2. agregats'[t] = Cardinality(Completions(audit'[t]))
    <3>1. agregats[t] = Cardinality(Completions(audit[t]))
      BY DEF ServiceInv, AgregatExact, Completions
    <3>2. audit[t] \in Seq(Statuts) /\ s \in Statuts
      BY <2>1 DEF Statuts
    <3>3. Cardinality(Completions(Append(audit[t], s))) =
            Cardinality(Completions(audit[t])) + (IF s = "COMPLETED" THEN 1 ELSE 0)
      BY <3>2, CompteAppend
    <3>4. audit'[t] = Append(audit[t], s)
          /\ agregats'[t] = agregats[t] + (IF s = "COMPLETED" THEN 1 ELSE 0)
      BY <1>3, <2>1
    <3> QED BY <3>1, <3>3, <3>4
  <2>3. t \notin courses' => agregats'[t] = IF s = "COMPLETED" THEN 1 ELSE 0
    <3> SUFFICES ASSUME t \notin courses' PROVE agregats'[t] = IF s = "COMPLETED" THEN 1 ELSE 0
      OBVIOUS
    <3>1. agregats[t] = 0
      BY <1>4 DEF ServiceInv, AgregatExact
    <3> QED BY <3>1, <1>3, <2>1
  <2>4. \A u \in Lignes \ {t} : agregats'[u] = agregats[u] /\ audit'[u] = audit[u]
    BY <1>3, <2>1
  <2> SUFFICES ASSUME NEW u \in Lignes
               PROVE  /\ agregats'[u] = Cardinality(Completions(audit'[u]))
                      /\ u \notin courses' =>
                           agregats'[u] = IF u \notin reversals' /\ tx'[u].statut \in {"COMPLETED", "REVERSED"}
                                          THEN 1 ELSE 0
    BY DEF AgregatExact, Completions
  <2>5. CASE u = t
    BY <1>2, <1>3, <2>2, <2>3, <2>5
  <2>6. CASE u # t
    <3>1. /\ agregats[u] = Cardinality(Completions(audit[u]))
          /\ u \notin courses =>
               agregats[u] = IF u \notin reversals /\ tx[u].statut \in {"COMPLETED", "REVERSED"}
                             THEN 1 ELSE 0
      BY DEF ServiceInv, AgregatExact, Completions
    <3>2. agregats'[u] = agregats[u] /\ audit'[u] = audit[u] /\ tx'[u] = tx[u]
      BY <1>3, <2>4, <2>6
    <3> QED BY <1>3, <1>4, <3>1, <3>2
  <2> QED BY <2>5, <2>6
<1>9. LienUnUn'
  <2>1. \A u \in Lignes : tx'[u].statut = "REVERSED" => u # t /\ tx'[u] = tx[u]
    BY <1>3
  <2>2. \A q \in reversals : q \in Requetes
    BY ReversalPassee
  <2>3. \A u \in Lignes : tx'[u].statut = "REVERSED" =>
          tx'[u].reversal \in reversals' /\ req'[tx'[u].reversal].cible = u
    BY <1>3, <1>5, <2>1, <2>2 DEF ServiceInv, LienUnUn
  <2>4. ASSUME NEW q \in reversals', req'[q].cible \notin courses'
        PROVE  tx'[req'[q].cible].statut = "REVERSED" /\ tx'[req'[q].cible].reversal = q
    <3>1. q \in Requetes /\ q \in reversals /\ req'[q].cible = req[q].cible
      BY <1>3, <1>5, <2>2, <2>4
    <3>2. tx[req[q].cible].statut = "REVERSED" /\ tx[req[q].cible].reversal = q
      BY <1>4, <2>4, <3>1 DEF ServiceInv, LienUnUn
    <3>3. req[q].cible \in Lignes /\ req[q].cible # t
      BY <1>4, <2>4, <3>1, <3>2 DEF ServiceInv, CompensationFaite
    <3> QED BY <1>3, <3>1, <3>2, <3>3
  <2> QED BY <2>3, <2>4 DEF LienUnUn
<1> QED BY <1>1, <1>6, <1>7, <1>8, <1>9 DEF ServiceInv

(* reverse: a row that is not PENDING is linked to a fresh compensation;   *)
(* it was COMPLETED, or it is listed in courses.                           *)
LEMMA ReverserService ==
  ASSUME ServiceInv, NEW r \in Requetes, NEW t \in Lignes, Reverser(r, t)
  PROVE  ServiceInv'
<1>1. TypeInv'
  BY EcrireTypeInv DEF ServiceInv
<1>2. /\ tx[t] \in Ligne /\ req[r].vu = "COMPLETED"
      /\ tx[r] = Vide /\ t # r /\ r \in Lignes /\ r \notin reversals
      /\ \A q \in Requetes \ {r} : Prete(q) => req[q].cible \in Lignes \ {r}
  BY EcritSait DEF Reverser, Attendu
<1>3. /\ tx'[t].statut = "REVERSED" /\ tx'[t].reversal = r
      /\ tx'[r].statut = "COMPLETED"
      /\ \A u \in Lignes \ {t, r} : tx'[u] = tx[u]
      /\ reversals' = reversals \cup {r}
      /\ agregats' = agregats
      /\ audit' = [audit EXCEPT ![t] = Append(@, "REVERSED")]
      /\ req[r].cible = t
  BY <1>2 DEF Reverser, Ecrit, Compensation, Ligne, ServiceInv, TypeInv, TypeOK, StoreTypeOK
<1>4. /\ courses \subseteq courses'
      /\ t \notin courses' => tx[t].statut = "COMPLETED"
      /\ courses' \subseteq courses \cup {t}
  BY <1>2 DEF Reverser, Noter
<1>5. /\ \A q \in Requetes : req'[q].cible = req[q].cible
      /\ \A q \in Requetes : Prete(q)' => q # r /\ Prete(q) /\ req'[q] = req[q]
  BY EcrireRequetes
<1>6. Memoire'
  <2> SUFFICES ASSUME NEW q \in Requetes, Prete(q)'
               PROVE  /\ req'[q].vu = Attendu[req'[q].op]
                      /\ req'[q].op = "reverse" => tx'[req'[q].cible].statut # "PENDING"
                      /\ req'[q].op # "reverse" => req'[q].cible \notin reversals'
    BY DEF Memoire
  <2>1. Prete(q) /\ req'[q] = req[q] /\ req[q].cible \in Lignes \ {r}
    BY <1>2, <1>5
  <2> QED BY <1>3, <2>1 DEF ServiceInv, Memoire
<1>7. CompensationFaite'
  <2> SUFFICES ASSUME NEW q \in reversals'
               PROVE  tx'[q].statut \in {"COMPLETED", "REVERSED"} /\ req'[q].cible \in Lignes
    BY DEF CompensationFaite
  <2>1. CASE q = r
    BY <1>2, <1>3, <1>5, <2>1
  <2>2. CASE q # r
    <3>1. /\ q \in Requetes /\ q \in Lignes /\ q \in reversals
          /\ tx[q].statut \in {"COMPLETED", "REVERSED"} /\ req[q].cible \in Lignes
      BY <1>3, <2>2, ReversalPassee DEF ServiceInv, CompensationFaite, Lignes
    <3>2. tx'[q].statut \in {"COMPLETED", "REVERSED"}
      BY <1>3, <2>2, <3>1
    <3> QED BY <1>5, <3>1, <3>2
  <2> QED BY <2>1, <2>2
<1>8. AgregatExact'
  <2>1. agregats \in [Lignes -> Nat] /\ audit \in [Lignes -> Seq(Statuts)]
    BY DEF ServiceInv, TypeInv, TypeOK
  <2>2. agregats'[t] = Cardinality(Completions(audit'[t]))
    <3>1. agregats[t] \in Nat /\ agregats[t] = Cardinality(Completions(audit[t]))
      BY <2>1 DEF ServiceInv, AgregatExact, Completions
    <3>2. audit[t] \in Seq(Statuts) /\ "REVERSED" \in Statuts
      BY <2>1 DEF Statuts
    <3>3. Cardinality(Completions(Append(audit[t], "REVERSED"))) =
            Cardinality(Completions(audit[t])) + (IF "REVERSED" = "COMPLETED" THEN 1 ELSE 0)
      BY <3>2, CompteAppend
    <3>4. audit'[t] = Append(audit[t], "REVERSED")
      BY <1>3, <2>1
    <3> QED BY <1>3, <3>1, <3>3, <3>4
  <2>3. \A u \in Lignes \ {t} : audit'[u] = audit[u]
    BY <1>3, <2>1
  <2>4. r \notin courses' => agregats[r] = 0
    BY <1>2, <1>4, VideAbsent DEF ServiceInv, AgregatExact
  <2>5. t \notin courses' => (t \in reversals' <=> t \in reversals)
    BY <1>2, <1>3
  <2> QED BY <1>2, <1>3, <1>4, <2>2, <2>3, <2>4, <2>5 DEF ServiceInv, AgregatExact, Completions
<1>9. LienUnUn'
  <2>1. \A q \in reversals : q \in Requetes
    BY ReversalPassee
  <2>2. \A u \in Lignes : tx'[u].statut = "REVERSED" =>
          tx'[u].reversal \in reversals' /\ req'[tx'[u].reversal].cible = u
    BY <1>3, <1>5, <2>1 DEF ServiceInv, LienUnUn
  <2>3. ASSUME NEW q \in reversals', req'[q].cible \notin courses'
        PROVE  tx'[req'[q].cible].statut = "REVERSED" /\ tx'[req'[q].cible].reversal = q
    <3>1. CASE q = r
      BY <1>3, <1>5, <3>1
    <3>2. CASE q # r
      <4>1. q \in Requetes /\ q \in reversals /\ req'[q].cible = req[q].cible
        BY <1>3, <1>5, <2>1, <2>3, <3>2
      <4>2. tx[req[q].cible].statut = "REVERSED" /\ tx[req[q].cible].reversal = q
        BY <1>4, <2>3, <4>1 DEF ServiceInv, LienUnUn
      <4>3. req[q].cible \in Lignes \ {t, r}
        BY <1>2, <1>4, <2>3, <4>1, <4>2, VideAbsent DEF ServiceInv, CompensationFaite
      <4> QED BY <1>3, <4>1, <4>2, <4>3
    <3> QED BY <3>1, <3>2
  <2> QED BY <2>2, <2>3 DEF LienUnUn
<1> QED BY <1>1, <1>6, <1>7, <1>8, <1>9 DEF ServiceInv

LEMMA NextService == ServiceInv /\ [Next]_vars => ServiceInv'
<1> SUFFICES ASSUME ServiceInv, [Next]_vars PROVE ServiceInv'
  OBVIOUS
<1>1. TypeInv'
  BY NextTypeInv DEF ServiceInv
<1>2. CASE UNCHANGED vars
  BY <1>1, <1>2, AutreService DEF vars, Prete
<1>3. CASE Statut
  BY <1>1, <1>3, AutreService DEF Statut, Suspendre, Activer, Prete
<1>4. CASE PerdreRequetes
  BY <1>1, <1>4, AutreService DEF PerdreRequetes, Prete, EnCours
<1>5. ASSUME NEW r \in Requetes, Etape(r) PROVE ServiceInv'
  <2>1. ASSUME NEW ty \in Types, NEW a \in Agents, NEW m \in Montants,
               LireCreation(r, ty, a, m)
        PROVE  ServiceInv'
    <3>1. /\ \A q \in Requetes : Prete(q)' => Prete(q) /\ req'[q] = req[q]
          /\ \A q \in Requetes : req[q].pc # "repos" => req'[q] = req[q]
      BY <2>1 DEF LireCreation, ServiceInv, TypeInv, TypeOK, Prete, Attendu
    <3> QED BY <1>1, <2>1, <3>1, AutreService DEF LireCreation
  <2>2. CASE Inserer(r)
    BY <2>2, InsererService
  <2>3. CASE \E op \in DOMAIN Attendu, t \in Lignes : Lire(r, op, t)
    BY <2>3, LireService
  <2>4. CASE \E t \in Lignes : Completer(r, t) \/ Annuler(r, t)
    BY <2>4, ReglerService
  <2>5. CASE \E t \in Lignes : Reverser(r, t)
    BY <2>5, ReverserService
  <2>6. CASE Emettre(r)
    <3>1. /\ \A q \in Requetes : Prete(q)' => Prete(q) /\ req'[q] = req[q]
          /\ \A q \in Requetes : req'[q].cible = req[q].cible
      BY <2>6 DEF Emettre, ServiceInv, TypeInv, TypeOK, Prete
    <3> QED BY <1>1, <2>6, <3>1, AutreService DEF Emettre
  <2> QED BY <1>5, <2>1, <2>2, <2>3, <2>4, <2>5, <2>6 DEF Etape
<1> QED BY <1>2, <1>3, <1>4, <1>5 DEF Next, Service

(* The customer's totals count a transaction as often as its audit log     *)
(* records a completion, and a row overlapping requests did not overwrite  *)
(* exactly as its status says.                                             *)
THEOREM AgregatsExacts == Spec => []AgregatExact
<1>1. Init => ServiceInv
  BY InitService
<1>2. ServiceInv /\ [Next]_vars => ServiceInv'
  BY NextService
<1>3. ServiceInv => AgregatExact
  BY DEF ServiceInv
<1> QED BY <1>1, <1>2, <1>3, PTL DEF Spec

(* Reversals and transactions correspond one to one: a REVERSED row has    *)
(* its Reversal, and only an overlapping request that overwrites the row   *)
(* can leave a Reversal, and its compensation, without it.                 *)
THEOREM ReversalUnique == Spec => []LienUnUn
<1>1. Init => ServiceInv
  BY InitService
<1>2. ServiceInv /\ [Next]_vars => ServiceInv'
  BY NextService
<1>3. ServiceInv => LienUnUn
  BY DEF ServiceInv
<1> QED BY <1>1, <1>2, <1>3, PTL DEF Spec
-----------------------------------------------------------------------------
(* The service implements the contract *)

(* The refinement mapping on the rows a step writes or leaves alone.       *)
Etat == [u \in Lignes |-> tx[u].statut]
Comp == [u \in Lignes |-> IF tx[u] = Vide THEN Aucun ELSE tx[u].reversal]

LEMMA InitContrat == Init => Contrat!ContratInit
<1> SUFFICES ASSUME Init PROVE Contrat!ContratInit
  OBVIOUS
<1>1. \A t \in Lignes : tx[t].statut \in {"ABSENT", "PENDING"}
                         /\ (tx[t] # Vide => tx[t].reversal = Aucun)
  BY NouvelleLigne, VideAbsent DEF Init, StoreInit
<1>2. courses = {}
  BY DEF Init
<1> QED BY <1>1, <1>2 DEF Contrat!ContratInit

LEMMA NextContrat ==
  ServiceInv /\ [Next]_vars => Contrat!ContratNext \/ UNCHANGED Contrat!contratVars
<1> SUFFICES ASSUME ServiceInv, [Next]_vars
             PROVE  Contrat!ContratNext \/ UNCHANGED Contrat!contratVars
  OBVIOUS
<1>1. CASE UNCHANGED <<tx, courses>>
  BY <1>1 DEF Contrat!contratVars
<1>2. ASSUME NEW r \in Requetes, Inserer(r)
      PROVE  Contrat!ContratNext
  <2>1. /\ r \in Lignes /\ tx[r] = Vide
        /\ tx'[r] \in Ligne /\ tx'[r].statut = "PENDING" /\ tx'[r].reversal = Aucun
        /\ \A u \in Lignes \ {r} : tx'[u] = tx[u]
        /\ courses' = courses
    BY <1>2 DEF Inserer, ServiceInv, TypeInv, TypeOK, StoreTypeOK, CreationPrete, Frais, Lignes
  <2>2. Etat' = [Etat EXCEPT ![r] = "PENDING"] /\ Etat[r] = "ABSENT"
    BY <2>1, VideAbsent DEF Etat
  <2>3. Comp' = Comp
    BY <2>1, VideAbsent DEF Comp
  <2>4. Contrat!Passe(r, "ABSENT", "PENDING")
    BY <2>1, <2>2, <2>3 DEF Contrat!Passe, Etat, Comp
  <2> QED BY <2>1, <2>4 DEF Contrat!ContratNext
<1>3. ASSUME NEW r \in Requetes, NEW t \in Lignes, Completer(r, t) \/ Annuler(r, t)
      PROVE  Contrat!ContratNext
  <2>1. tx[t] \in Ligne /\ req[r].vu = "PENDING"
    BY <1>3, EcritSait DEF Completer, Annuler, Attendu
  <2>2. PICK s \in {"COMPLETED", "CANCELLED"} :
          /\ tx'[t] = [tx[t] EXCEPT !.statut = s]
          /\ \A u \in Lignes \ {t} : tx'[u] = tx[u]
    BY <1>3 DEF Completer, Annuler, ServiceInv, TypeInv, TypeOK, StoreTypeOK
  <2>3. Etat' = [Etat EXCEPT ![t] = s]
    BY <2>1, <2>2 DEF Etat, Ligne
  <2>4. Comp' = Comp
    <3>1. tx'[t].reversal = tx[t].reversal /\ tx'[t].statut \in Statuts
      BY <2>1, <2>2 DEF Ligne, Statuts
    <3> QED BY <2>1, <2>2, <3>1, VideAbsent DEF Comp, Statuts
  <2>5. CASE tx[t].statut = "PENDING"
    <3>1. courses' = courses
      BY <1>3, <2>1, <2>5 DEF Completer, Annuler, Noter
    <3>2. Contrat!Passe(t, "PENDING", s)
      BY <2>3, <2>4, <2>5, <3>1 DEF Contrat!Passe, Etat, Comp
    <3> QED BY <3>2 DEF Contrat!ContratNext
  <2>6. CASE tx[t].statut # "PENDING"
    <3>1. courses' = courses \cup {t}
      BY <1>3, <2>1, <2>6 DEF Completer, Annuler, Noter
    <3>2. Contrat!Reglee(t)
      BY <2>1, <2>6 DEF Contrat!Reglee, Ligne, Statuts
    <3>3. Contrat!Ecraser(t, s)
      BY <2>3, <2>4, <3>1, <3>2 DEF Contrat!Ecraser, Etat, Comp
    <3> QED BY <3>3 DEF Contrat!ContratNext
  <2> QED BY <2>5, <2>6
<1>4. ASSUME NEW r \in Requetes, NEW t \in Lignes, Reverser(r, t)
      PROVE  Contrat!ContratNext
  <2>1. /\ tx[t] \in Ligne /\ req[r].vu = "COMPLETED" /\ tx[t].statut # "PENDING"
        /\ tx[r] = Vide /\ t # r /\ r \in Lignes
    BY <1>4, EcritSait DEF Reverser, Attendu
  <2>2. /\ tx'[t].statut = "REVERSED" /\ tx'[t].reversal = r
        /\ tx'[r].statut = "COMPLETED" /\ tx'[r].reversal = Aucun
        /\ \A u \in Lignes \ {t, r} : tx'[u] = tx[u]
    BY <1>4, <2>1 DEF Reverser, Compensation, Ligne, ServiceInv, TypeInv, TypeOK, StoreTypeOK
  <2>3. Etat' = [Etat EXCEPT ![t] = "REVERSED", ![r] = "COMPLETED"]
    BY <2>1, <2>2 DEF Etat
  <2>4. Comp' = [Comp EXCEPT ![t] = r]
    <3>1. tx'[t] # Vide /\ tx'[r] # Vide
      BY <2>2, VideAbsent
    <3> QED BY <2>1, <2>2, <3>1, VideAbsent DEF Comp
  <2>5. Etat[r] = "ABSENT"
    BY <2>1, VideAbsent DEF Etat
  <2>6. Contrat!Compenser(t, r)
    BY <2>3, <2>4, <2>5 DEF Contrat!Compenser, Etat, Comp
  <2>7. CASE tx[t].statut = "COMPLETED"
    <3>1. courses' = courses
      BY <1>4, <2>1, <2>7 DEF Reverser, Noter
    <3>2. Contrat!Extourner(t, r)
      BY <2>6, <2>7, <3>1 DEF Contrat!Extourner
    <3> QED BY <2>1, <3>2 DEF Contrat!ContratNext
  <2>8. CASE tx[t].statut # "COMPLETED"
    <3>1. courses' = courses \cup {t}
      BY <1>4, <2>1, <2>8 DEF Reverser, Noter
    <3>2. Contrat!Reglee(t)
      BY <2>1 DEF Contrat!Reglee, Ligne, Statuts
    <3>3. Contrat!EcraserParReversal(t, r)
      BY <2>6, <3>1, <3>2 DEF Contrat!EcraserParReversal
    <3> QED BY <2>1, <3>3 DEF Contrat!ContratNext
  <2> QED BY <2>7, <2>8
<1> QED BY <1>1, <1>2, <1>3, <1>4 DEF Next, Service, Statut, Etape, vars, Suspendre, Activer,
                                      LireCreation, Lire, Emettre, PerdreRequetes

(* The requests and their steps implement the contract: each status is     *)
(* reached from the right one, or the row is one the contract lists as     *)
(* overwritten, and each reversal brings one compensation.                 *)
THEOREM ContratRespecte == Spec => RespecteContrat
<1>1. Init => ServiceInv /\ Contrat!ContratInit
  BY InitService, InitContrat
<1>2. ServiceInv /\ [Next]_vars => ServiceInv'
  BY NextService
<1>3. ServiceInv /\ [Next]_vars => [Contrat!ContratNext]_(Contrat!contratVars)
  BY NextContrat
<1> QED BY <1>1, <1>2, <1>3, PTL DEF Spec, RespecteContrat, Contrat!ContratSpec
=============================================================================
