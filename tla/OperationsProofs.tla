-------------------------- MODULE OperationsProofs --------------------------
(***************************************************************************)
(* Theorems about the transaction service with its three listeners, for    *)
(* every set of requests, rows, agents, types and amounts, every overlap   *)
(* of requests, every failure and any number of restarts: the types of the *)
(* four components, that the listeners act for completions only, that low  *)
(* floats are told, that earnings are neither lost nor doubled and show on *)
(* their transactions, that balances are the sums of their movements, and  *)
(* that the float, the earnings and the journal agree with the statuses.   *)
(***************************************************************************)
EXTENDS Operations, TransactionsProofs, Sommes

(* Row t was completed, or is the compensation a reversal inserted.        *)
Acquise(t) == t \in reversals \/ Completee(t)

(* What is known of every row: a COMPLETED one was completed.              *)
Saine(t) == tx[t] \in Ligne /\ tx[t].statut = "COMPLETED" => Acquise(t)

(* What is known of a request before its read, after it, and after its     *)
(* commit.                                                                 *)
Suivie(r) ==
  LET t == req[r].cible
  IN  /\ req[r].pc = "repos" => t = Aucun
      /\ req[r].pc = "lu" /\ req[r].op = "create" => req[r].ligne.commission = 0
      /\ req[r].pc \in {"lu", "commis", "emis"} /\ req[r].op \in {"complete", "reverse", "recalculate"} =>
           /\ t \in Lignes /\ tx[t] \in Ligne
           /\ req[r].op # "complete" => Acquise(t)
      /\ req[r].pc \in {"commis", "emis"} /\ req[r].op = "complete" => Completee(t)

MetierInv ==
  /\ TypeInv
  /\ \A t \in Lignes : Saine(t)
  /\ \A r \in Requetes : Suivie(r)

(* Every movement, earning and entry follows an event of the right kind,   *)
(* and so does every amount resolved.                                      *)
FloatInv ==
  /\ FloatTypeOK
  /\ \A r \in Requetes : mouvements[r] # PasDeMouvement =>
       req[r].pc = "emis" /\ req[r].op \in {"complete", "reverse"}

ComInv ==
  /\ ComTypeOK
  /\ \A r \in gains : req[r].pc = "emis" /\ req[r].op \in {"complete", "recalculate"}
  /\ \A r \in Requetes : comJob[r].pc # "repos" \/ comJob[r].montant # 0 => ComDeclenche(r)
  /\ \A r \in Requetes : comJob[r].montant # 0 => comJob[r].pc \notin {"repos", "liste"}

CptInv ==
  /\ CptTypeOK
  /\ \A r \in Requetes : cptJob[r].pc # "repos" => CptDeclenche(r)
  /\ \A t \in Lignes : journal[t] # PasDEcriture =>
       /\ Completee(t)
       /\ tx[t] \in Ligne
       /\ journal[t].montant = tx[t].montant
       /\ journal[t].commission # 0 => tx[t].type \in {"DEPOT", "CASH_IN"}

OpsInv == MetierInv /\ FloatInv /\ ComInv /\ CptInv

-----------------------------------------------------------------------------
(* What a step preserves *)

(* A step that only grows the log and the reversals, and keeps of an       *)
(* existing row its type and its amount.                                   *)
Croissante ==
  /\ reversals \subseteq reversals'
  /\ \A t \in Lignes : Completee(t) => Completee(t)'
  /\ \A t \in Lignes : tx[t] \in Ligne =>
       tx'[t] \in Ligne /\ tx'[t].type = tx[t].type /\ tx'[t].montant = tx[t].montant

(* A request that has committed, or is over, keeps its method and its row. *)
Fidele ==
  \A r \in Requetes : req[r].pc \in {"commis", "emis"} =>
    /\ req'[r].op = req[r].op /\ req'[r].cible = req[r].cible
    /\ req[r].pc = "emis" => req'[r].pc = "emis"

(* Appending to the log of a row keeps the completions it records.         *)
LEMMA LogCroit ==
  ASSUME TypeInv, NEW t \in Lignes, NEW s \in Statuts,
         audit' = [audit EXCEPT ![t] = Append(@, s)]
  PROVE  /\ \A u \in Lignes : Completee(u) => Completee(u)'
         /\ s = "COMPLETED" => Completee(t)'
<1>1. audit \in [Lignes -> Seq(Statuts)]
  BY DEF TypeInv, TypeOK
<1>2. /\ \A i \in DOMAIN audit[t] : i \in DOMAIN audit'[t] /\ audit'[t][i] = audit[t][i]
      /\ Len(audit[t]) + 1 \in DOMAIN audit'[t]
      /\ audit'[t][Len(audit[t]) + 1] = s
  BY <1>1
<1>3. \A u \in Lignes \ {t} : audit'[u] = audit[u]
  BY <1>1
<1> QED BY <1>2, <1>3 DEF Completee

(* The steps of the service are such steps.                                *)
LEMMA EcrireCroit ==
  ASSUME TypeInv, NEW r \in Requetes, NEW t \in Lignes,
         Completer(r, t) \/ Annuler(r, t) \/ Reverser(r, t)
  PROVE  Croissante
<1>1. tx[t] \in Ligne /\ tx[r] = Vide /\ t # r /\ r \in Lignes
  BY EcritLigne DEF Completer, Annuler, Reverser, Attendu
<1>2. PICK s \in Statuts :
        /\ tx' = [tx EXCEPT ![t].statut = s]
           \/ tx' = [tx EXCEPT ![t].statut = s, ![t].reversal = r,
                               ![t].commission = 0, ![r] = Compensation(t)]
        /\ audit' = [audit EXCEPT ![t] = Append(@, s)]
        /\ reversals \subseteq reversals'
  BY DEF Completer, Annuler, Reverser, Statuts
<1>3. /\ [tx[t] EXCEPT !.statut = s] \in Ligne
      /\ [tx[t] EXCEPT !.statut = s, !.reversal = r, !.commission = 0] \in Ligne
  BY <1>1, LigneEcrite
<1>4. /\ tx'[t] \in Ligne /\ tx'[t].type = tx[t].type /\ tx'[t].montant = tx[t].montant
      /\ \A u \in Lignes \ {t, r} : tx'[u] = tx[u]
  <2>1. tx \in [Lignes -> Ligne \cup {Vide}]
    BY DEF TypeInv, TypeOK, StoreTypeOK
  <2>2. tx'[t] \in {[tx[t] EXCEPT !.statut = s],
                   [tx[t] EXCEPT !.statut = s, !.reversal = r, !.commission = 0]}
    BY <1>1, <1>2, <2>1
  <2>3. tx'[t].type = tx[t].type /\ tx'[t].montant = tx[t].montant
    BY <1>1, <2>2 DEF Ligne
  <2>4. \A u \in Lignes \ {t, r} : tx'[u] = tx[u]
    BY <1>1, <1>2, <2>1
  <2> QED BY <1>3, <2>2, <2>3, <2>4
<1>5. \A u \in Lignes : tx[u] \in Ligne =>
        tx'[u] \in Ligne /\ tx'[u].type = tx[u].type /\ tx'[u].montant = tx[u].montant
  BY <1>1, <1>4, VideAbsent
<1> QED BY <1>2, <1>5, LogCroit DEF Croissante

LEMMA InsererCroit ==
  ASSUME TypeInv, NEW r \in Requetes, Inserer(r)
  PROVE  Croissante
<1>1. r \in Lignes /\ tx[r] = Vide
  BY DEF Inserer, TypeInv, Frais, Lignes
<1>2. \A u \in Lignes : Completee(u) => Completee(u)'
  BY <1>1, LogCroit DEF Inserer, Statuts
<1>3. \A u \in Lignes \ {r} : tx'[u] = tx[u]
  BY DEF Inserer, TypeInv, TypeOK, StoreTypeOK
<1> QED BY <1>1, <1>2, <1>3, VideAbsent DEF Croissante, Inserer

LEMMA NextCroit == TypeInv /\ [Next]_vars => Croissante
<1> SUFFICES ASSUME TypeInv, [Next]_vars PROVE Croissante
  OBVIOUS
<1>1. CASE UNCHANGED <<tx, reversals, audit>>
  BY <1>1 DEF Croissante, Completee
<1>2. ASSUME NEW r \in Requetes, Inserer(r) PROVE Croissante
  BY <1>2, InsererCroit
<1>3. ASSUME NEW r \in Requetes, NEW t \in Lignes,
             Completer(r, t) \/ Annuler(r, t) \/ Reverser(r, t)
      PROVE  Croissante
  BY <1>3, EcrireCroit
<1> QED BY <1>1, <1>2, <1>3 DEF Next, Service, Statut, Etape, vars, Suspendre, Activer,
                                LireCreation, Lire, Emettre, PerdreRequetes

LEMMA NextFidele == TypeInv /\ [Next]_vars => Fidele
<1> SUFFICES ASSUME TypeInv, [Next]_vars, NEW r \in Requetes, req[r].pc \in {"commis", "emis"}
             PROVE  /\ req'[r].op = req[r].op /\ req'[r].cible = req[r].cible
                    /\ req[r].pc = "emis" => req'[r].pc = "emis"
  BY DEF Fidele
<1>1. req \in [Requetes -> Requete]
  BY DEF TypeInv, TypeOK
<1>2. CASE UNCHANGED req
  BY <1>2
<1>3. CASE PerdreRequetes
  BY <1>3 DEF PerdreRequetes, EnCours, Requete
<1>4. ASSUME NEW q \in Requetes, Etape(q)
      PROVE  /\ req'[r].op = req[r].op /\ req'[r].cible = req[r].cible
             /\ req[r].pc = "emis" => req'[r].pc = "emis"
  <2>1. CASE q # r
    BY <1>1, <1>4, <2>1 DEF Etape, LireCreation, Inserer, Lire, Completer, Annuler, Reverser, Emettre
  <2>2. CASE q = r
    <3>1. Emettre(r)
      BY <1>4, <2>2 DEF Etape, LireCreation, Inserer, Lire, Completer, Annuler, Reverser, Ecrit
    <3> QED BY <1>1, <3>1 DEF Emettre
  <2> QED BY <2>1, <2>2
<1> QED BY <1>2, <1>3, <1>4 DEF Next, Service, Statut, vars, Suspendre, Activer
-----------------------------------------------------------------------------
(* Rows and requests *)

LEMMA AcquiseReste ==
  ASSUME Croissante, NEW t \in Lignes, Acquise(t)
  PROVE  Acquise(t)'
BY DEF Croissante, Acquise

(* A row a step leaves alone stays sound, and so does a request.           *)
LEMMA SaineReste ==
  ASSUME Croissante, NEW t \in Lignes, Saine(t), tx'[t] = tx[t]
  PROVE  Saine(t)'
BY AcquiseReste DEF Saine

LEMMA SuivieReste ==
  ASSUME Croissante, NEW r \in Requetes, Suivie(r), req'[r] = req[r]
  PROVE  Suivie(r)'
<1> DEFINE t == req[r].cible
<1>1. t \in Lignes => (Completee(t) => Completee(t)') /\ (Acquise(t) => Acquise(t)')
  BY AcquiseReste DEF Croissante
<1>2. t \in Lignes /\ tx[t] \in Ligne => tx'[t] \in Ligne /\ tx'[t].type = tx[t].type
  BY DEF Croissante
<1> QED BY <1>1, <1>2 DEF Suivie

LEMMA InsererMetier ==
  ASSUME MetierInv, NEW r \in Requetes, Inserer(r)
  PROVE  MetierInv'
<1>1. TypeInv' /\ Croissante
  BY InsererTypeInv, InsererCroit DEF MetierInv
<1>2. /\ r \in Lignes /\ req[r].ligne \in Ligne /\ req[r].ligne.statut = "PENDING"
      /\ req[r].ligne.commission = 0
      /\ tx'[r] = req[r].ligne
      /\ \A u \in Lignes \ {r} : tx'[u] = tx[u]
  BY DEF Inserer, MetierInv, TypeInv, TypeOK, StoreTypeOK, CreationPrete, Suivie, Lignes
<1>3. Saine(r)'
  BY <1>2 DEF Saine
<1>4. \A t \in Lignes : Saine(t)'
  BY <1>1, <1>2, <1>3, SaineReste DEF MetierInv
<1>5. req'[r].pc = "fini" /\ \A q \in Requetes \ {r} : req'[q] = req[q]
  BY DEF Inserer, MetierInv, TypeInv, TypeOK, Requete
<1>6. \A q \in Requetes : Suivie(q)'
  <2>1. Suivie(r)'
    BY <1>5 DEF Suivie
  <2> QED BY <1>1, <1>5, <2>1, SuivieReste DEF MetierInv
<1> QED BY <1>1, <1>4, <1>6 DEF MetierInv

LEMMA EcrireMetier ==
  ASSUME MetierInv, NEW r \in Requetes, NEW t \in Lignes,
         Completer(r, t) \/ Annuler(r, t) \/ Reverser(r, t)
  PROVE  MetierInv'
<1>1. TypeInv' /\ Croissante
  BY EcrireTypeInv, EcrireCroit DEF MetierInv
<1>2. tx[t] \in Ligne /\ tx[r] = Vide /\ t # r /\ r \in Lignes
  BY EcritLigne DEF Completer, Annuler, Reverser, Attendu, MetierInv
<1>3. /\ req[r].pc = "lu" /\ req[r].cible = t /\ req \in [Requetes -> Requete]
      /\ tx \in [Lignes -> Ligne \cup {Vide}]
  BY DEF Completer, Annuler, Reverser, Ecrit, MetierInv, TypeInv, TypeOK, StoreTypeOK
<1>4. Saine(t) /\ Suivie(r)
  BY DEF MetierInv
<1>5. CASE Completer(r, t)
  <2>1. Completee(t)'
    BY <1>5, LogCroit DEF Completer, Statuts, MetierInv
  <2>2. /\ tx'[t].statut = "COMPLETED" /\ tx'[t].commission = tx[t].commission
        /\ tx'[t] \in Ligne /\ tx'[t].type = tx[t].type
        /\ \A u \in Lignes \ {t} : tx'[u] = tx[u]
    BY <1>1, <1>2, <1>3, <1>5 DEF Completer, Croissante, Ligne
  <2>3. Saine(t)'
    BY <1>2, <1>4, <2>1, <2>2 DEF Saine, Acquise
  <2>4. /\ req'[r].pc = "commis" /\ req'[r].op = "complete" /\ req'[r].cible = t
        /\ \A q \in Requetes \ {r} : req'[q] = req[q]
    BY <1>3, <1>5 DEF Completer, Ecrit, Requete
  <2>5. Suivie(r)'
    BY <2>1, <2>2, <2>4 DEF Suivie
  <2> QED BY <1>1, <2>2, <2>3, <2>4, <2>5, SaineReste, SuivieReste DEF MetierInv
<1>6. CASE Annuler(r, t)
  <2>1. /\ tx'[t].statut = "CANCELLED" /\ tx'[t].commission = tx[t].commission
        /\ \A u \in Lignes \ {t} : tx'[u] = tx[u]
    BY <1>2, <1>3, <1>6 DEF Annuler, Ligne
  <2>2. Saine(t)'
    BY <1>2, <1>4, <2>1 DEF Saine
  <2>3. req'[r].pc = "fini" /\ \A q \in Requetes \ {r} : req'[q] = req[q]
    BY <1>3, <1>6 DEF Annuler, Requete
  <2>4. Suivie(r)'
    BY <2>3 DEF Suivie
  <2> QED BY <1>1, <2>1, <2>2, <2>3, <2>4, SaineReste, SuivieReste DEF MetierInv
<1>7. CASE Reverser(r, t)
  <2>1. /\ tx'[t].statut = "REVERSED" /\ tx'[t].commission = 0
        /\ tx'[r] = Compensation(t) /\ r \in reversals'
        /\ \A u \in Lignes \ {t, r} : tx'[u] = tx[u]
    BY <1>2, <1>3, <1>7 DEF Reverser, Ligne
  <2>2. tx'[r].statut = "COMPLETED" /\ tx'[r].commission = 0
    BY <1>2, <2>1 DEF Compensation, Ligne
  <2>3. Saine(t)' /\ Saine(r)'
    BY <2>1, <2>2 DEF Saine, Acquise
  <2>4. Acquise(t)' /\ tx'[t] \in Ligne
    <3>1. Acquise(t)
      BY <1>3, <1>4, <1>7 DEF Reverser, Ecrit, Suivie
    <3> QED BY <1>1, <1>2, <3>1, AcquiseReste DEF Croissante
  <2>5. /\ req'[r].pc = "commis" /\ req'[r].op = "reverse" /\ req'[r].cible = t
        /\ \A q \in Requetes \ {r} : req'[q] = req[q]
    BY <1>3, <1>7 DEF Reverser, Ecrit, Requete
  <2>6. Suivie(r)'
    BY <2>4, <2>5 DEF Suivie
  <2> QED BY <1>1, <2>1, <2>3, <2>5, <2>6, SaineReste, SuivieReste DEF MetierInv
<1> QED BY <1>5, <1>6, <1>7

(* A step that writes no row and leaves the requests sound.                *)
LEMMA SansEcriture ==
  ASSUME MetierInv, TypeInv', Croissante, tx' = tx, \A r \in Requetes : Suivie(r)'
  PROVE  MetierInv'
BY SaineReste DEF MetierInv

LEMMA NextMetier == MetierInv /\ [Next]_vars => MetierInv'
<1> SUFFICES ASSUME MetierInv, [Next]_vars PROVE MetierInv'
  OBVIOUS
<1>1. TypeInv' /\ Croissante
  BY NextTypeInv, NextCroit DEF MetierInv
<1>2. req \in [Requetes -> Requete]
  BY DEF MetierInv, TypeInv, TypeOK
<1>3. CASE UNCHANGED <<tx, req>>
  BY <1>1, <1>3, SansEcriture, SuivieReste DEF MetierInv
<1>4. CASE PerdreRequetes
  <2>1. ASSUME NEW r \in Requetes PROVE Suivie(r)'
    <3>1. CASE EnCours(r)
      <4>1. req'[r].pc = "perdu"
        BY <1>2, <1>4, <3>1 DEF PerdreRequetes, Requete
      <4> QED BY <4>1 DEF Suivie
    <3>2. CASE ~EnCours(r)
      BY <1>1, <1>4, <3>2, SuivieReste DEF PerdreRequetes, MetierInv
    <3> QED BY <3>1, <3>2
  <2> QED BY <1>1, <1>4, <2>1, SansEcriture DEF PerdreRequetes
<1>5. ASSUME NEW r \in Requetes, Etape(r) PROVE MetierInv'
  <2>1. ASSUME NEW ty \in Types, NEW a \in Agents, NEW m \in Montants, LireCreation(r, ty, a, m)
        PROVE  MetierInv'
    <3>1. /\ req'[r].pc = "lu" /\ req'[r].op = "create"
          /\ req'[r].ligne.commission = 0
          /\ \A q \in Requetes \ {r} : req'[q] = req[q]
      BY <1>2, <2>1 DEF LireCreation, Nouvelle
    <3>2. Suivie(r)'
      BY <3>1 DEF Suivie
    <3> QED BY <1>1, <2>1, <3>1, <3>2, SansEcriture, SuivieReste DEF MetierInv, LireCreation
  <2>2. CASE Inserer(r)
    BY <2>2, InsererMetier
  <2>3. ASSUME NEW op \in DOMAIN Attendu, NEW t \in Lignes, Lire(r, op, t)
        PROVE  MetierInv'
    <3>1. /\ req'[r].pc = "lu" /\ req'[r].op = op /\ req'[r].cible = t
          /\ \A q \in Requetes \ {r} : req'[q] = req[q]
      BY <1>2, <2>3 DEF Lire
    <3>2. op \in {"complete", "cancel", "reverse"} /\ tx[t].statut = Attendu[op] /\ tx' = tx
      BY <2>3 DEF Lire, Attendu
    <3>3. Attendu[op] = IF op = "reverse" THEN "COMPLETED" ELSE "PENDING"
      BY <3>2 DEF Attendu
    <3>4. tx[t] \in Ligne
      BY <3>2, <3>3, VideAbsent DEF MetierInv, TypeInv, TypeOK, StoreTypeOK
    <3>5. op = "reverse" => Acquise(t)'
      BY <1>1, <3>2, <3>3, <3>4, AcquiseReste DEF MetierInv, Saine
    <3>6. Suivie(r)'
      BY <3>1, <3>2, <3>4, <3>5 DEF Suivie
    <3> QED BY <1>1, <3>1, <3>2, <3>6, SansEcriture, SuivieReste DEF MetierInv
  <2>4. ASSUME NEW t \in Lignes, Completer(r, t) \/ Annuler(r, t) \/ Reverser(r, t)
        PROVE  MetierInv'
    BY <2>4, EcrireMetier
  <2>5. CASE Emettre(r)
    <3>1. /\ req[r].pc = "commis" /\ req'[r].pc = "emis"
          /\ req'[r].op = req[r].op /\ req'[r].cible = req[r].cible
          /\ \A q \in Requetes \ {r} : req'[q] = req[q]
          /\ tx' = tx /\ audit' = audit /\ reversals' = reversals
      BY <1>2, <2>5 DEF Emettre, Requete
    <3>2. Suivie(r)
      BY DEF MetierInv
    <3>3. Suivie(r)'
      BY <3>1, <3>2 DEF Suivie, Acquise, Completee
    <3> QED BY <1>1, <3>1, <3>3, SansEcriture, SuivieReste DEF MetierInv
  <2> QED BY <1>5, <2>1, <2>2, <2>3, <2>4, <2>5 DEF Etape
<1> QED BY <1>3, <1>4, <1>5 DEF Next, Service, Statut, Suspendre, Activer, vars
-----------------------------------------------------------------------------
(* The listeners *)

(* The tables and requests the float and accounting listeners leave alone. *)
Restes == <<tx, reversals, gains, suspendus, agregats, audit, req, pannes, courses>>

(* Only the balances change: nothing else of the invariants can.           *)
LEMMA SoldeSeul ==
  ASSUME MetierInv, UNCHANGED Restes, solde' \in [AvecFloat -> Int]
  PROVE  MetierInv'
<1>1. TypeInv'
  BY DEF Restes, MetierInv, TypeInv, TypeOK, StoreTypeOK, Frais, CibleLa, CreationPrete
<1> QED BY <1>1 DEF Restes, MetierInv, Saine, Suivie, Acquise, Completee

(* A job that writes moves the float of an existing row, by its amount.    *)
LEMMA BougerFloat ==
  ASSUME OpsInv, NEW r \in Requetes, NEW sens \in {"DEBIT", "CREDIT"}, FloatDeclenche(r),
         Bouger(r, sens), NEW p \in {"ecrit", "fini"}, floatJob' = [floatJob EXCEPT ![r].pc = p]
  PROVE  UNCHANGED Restes /\ solde' \in [AvecFloat -> Int] /\ FloatInv'
<1> DEFINE a == Objet(r).agent
           m == Objet(r).montant
           avant == floatJob[r].soldeAvant
<1>1. req[r].pc = "emis" /\ req[r].op \in {"complete", "reverse"}
  BY DEF FloatDeclenche
<1>2. Objet(r) \in Ligne
  BY <1>1 DEF OpsInv, MetierInv, Suivie, Objet
<1>3. a \in Agents /\ m \in Montants /\ m \in Nat
  BY <1>2, StoreAssumption DEF Ligne
<1>4. avant \in Int /\ floatJob' \in [Requetes -> [pc: {"repos", "lu", "ecrit", "fini", "echec", "perdu"},
                                                  soldeAvant: Int]]
  BY DEF OpsInv, FloatInv, FloatTypeOK
<1>5. Signe(sens, m) \in Int
  BY <1>3 DEF Signe
<1>6. solde' \in [AvecFloat -> Int]
  <2>1. solde \in [AvecFloat -> Int] /\ solde' = [solde EXCEPT ![a] = solde[a] + Signe(sens, m)]
    BY DEF Bouger, OpsInv, MetierInv, TypeInv, TypeOK, StoreTypeOK
  <2>2. \A b \in AvecFloat : solde[b] + Signe(sens, m) \in Int
    BY <1>5, <2>1
  <2> QED BY <2>1, <2>2
<1> DEFINE n == [sens |-> sens, agent |-> a, montant |-> m,
                 avant |-> avant, apres |-> avant + Signe(sens, m)]
<1>7. n \in Mouvement /\ mouvements' = [mouvements EXCEPT ![r] = n]
  BY <1>3, <1>4, <1>5 DEF Mouvement, Bouger
<1>8. UNCHANGED Restes /\ alertes' = alertes
  BY DEF Bouger, Restes
<1>9. FloatTypeOK'
  BY <1>4, <1>7, <1>8 DEF OpsInv, FloatInv, FloatTypeOK
<1>10. \A q \in Requetes : mouvements'[q] # PasDeMouvement =>
         req'[q].pc = "emis" /\ req'[q].op \in {"complete", "reverse"}
  BY <1>1, <1>7, <1>8 DEF Restes, OpsInv, FloatInv, FloatTypeOK
<1> QED BY <1>6, <1>8, <1>9, <1>10 DEF FloatInv

LEMMA FloatOps ==
  ASSUME OpsInv, NEW r \in Requetes, FloatEtape(r)
  PROVE  UNCHANGED Restes /\ solde' \in [AvecFloat -> Int] /\ FloatInv'
<1>1. CASE FloatCrediter(r)
  BY <1>1, BougerFloat DEF FloatCrediter, FloatPasse
<1>2. CASE FloatDebiter(r)
  BY <1>2, BougerFloat DEF FloatDebiter, FloatPasse
<1>3. CASE FloatLire(r)
  <2>1. solde[Objet(r).agent] \in Int
    BY <1>3 DEF FloatLire, FloatPossible, OpsInv, MetierInv, TypeInv, TypeOK, StoreTypeOK
  <2>2. FloatTypeOK'
    BY <1>3, <2>1 DEF FloatLire, OpsInv, FloatInv, FloatTypeOK
  <2> QED BY <1>3, <2>2 DEF FloatLire, OpsInv, FloatInv, Restes, vars, MetierInv, TypeInv,
                            TypeOK, StoreTypeOK
<1>4. CASE FloatIgnorer(r) \/ FloatEchouer(r) \/ FloatVerifierSeuil(r)
  <2>1. /\ UNCHANGED <<vars, mouvements>> /\ alertes' \in {alertes, alertes \cup {r}}
        /\ \E p \in {"fini", "echec"} : floatJob' = [floatJob EXCEPT ![r].pc = p]
    BY <1>4 DEF FloatIgnorer, FloatEchouer, FloatVerifierSeuil, FloatPasse
  <2>2. FloatTypeOK'
    BY <2>1 DEF OpsInv, FloatInv, FloatTypeOK
  <2> QED BY <2>1, <2>2 DEF OpsInv, FloatInv, Restes, vars, MetierInv, TypeInv, TypeOK, StoreTypeOK
<1> QED BY <1>1, <1>2, <1>3, <1>4 DEF FloatEtape


-----------------------------------------------------------------------------
(* The commission listener and the batch, step by step *)

LEMMA ComListe ==
  ASSUME OpsInv, NEW r \in Requetes, NEW t \in Lignes, RecalculLister(r, t)
  PROVE  MetierInv' /\ ComInv' /\ Croissante /\ Fidele
<1>1. /\ req[r].pc = "repos" /\ req \in [Requetes -> Requete] /\ tx[t].statut = "COMPLETED"
      /\ tx' = tx /\ gains' = gains /\ reversals' = reversals /\ audit' = audit
      /\ req' = [req EXCEPT ![r] = [op |-> "recalculate", cible |-> t, ligne |-> Vide,
                                    vu |-> "COMPLETED", pc |-> "emis"]]
  BY DEF RecalculLister, OpsInv, MetierInv, TypeInv, TypeOK
<1>2. tx[t] \in Ligne
  BY <1>1, VideAbsent DEF OpsInv, MetierInv, TypeInv, TypeOK, StoreTypeOK
<1>3. Acquise(t)'
  BY <1>1, <1>2 DEF OpsInv, MetierInv, Saine, Acquise, Completee
<1>4. /\ req'[r].pc = "emis" /\ req'[r].op = "recalculate" /\ req'[r].cible = t
      /\ \A q \in Requetes \ {r} : req'[q] = req[q]
      /\ req' \in [Requetes -> Requete]
  BY <1>1 DEF Requete, Statuts
<1>5. TypeInv'
  <2>1. TypeOK'
    BY <1>4 DEF RecalculLister, OpsInv, MetierInv, TypeInv, TypeOK, StoreTypeOK
  <2>2. Frais' /\ CibleLa' /\ CreationPrete'
    BY <1>1, <1>4 DEF OpsInv, MetierInv, TypeInv, Frais, CibleLa, CreationPrete
  <2> QED BY <2>1, <2>2 DEF TypeInv
<1>6. Croissante
  BY <1>1 DEF Croissante, Completee
<1>7. Suivie(r)'
  BY <1>1, <1>2, <1>3, <1>4 DEF Suivie
<1>8. MetierInv'
  BY <1>1, <1>4, <1>5, <1>6, <1>7, SaineReste, SuivieReste DEF OpsInv, MetierInv
<1>9. ComInv'
  <2>1. comJob' = [comJob EXCEPT ![r].pc = "liste"] /\ croisees' = croisees
    BY DEF RecalculLister
  <2>2. comJob[r].montant = 0 /\ comJob[r].pc = "repos"
    BY <1>1 DEF OpsInv, ComInv, ComDeclenche
  <2>3. ComTypeOK'
    BY <2>1 DEF OpsInv, ComInv, ComTypeOK
  <2>4. \A q \in Requetes \ {r} : comJob'[q] = comJob[q]
    BY <2>1 DEF OpsInv, ComInv, ComTypeOK
  <2>5. comJob'[r].montant = 0 /\ ComDeclenche(r)'
    BY <1>4, <2>1, <2>2 DEF OpsInv, ComInv, ComTypeOK, ComDeclenche
  <2> QED BY <1>1, <1>4, <2>3, <2>4, <2>5 DEF OpsInv, ComInv, ComDeclenche
<1>10. Fidele
  BY <1>1, <1>4 DEF Fidele
<1> QED BY <1>6, <1>8, <1>9, <1>10

(* What the steps of a job have in common.                                 *)
LEMMA ComPas ==
  ASSUME OpsInv, NEW r \in Requetes,
         \/ RecalculPurger(r) \/ ComExistant(r) \/ ComSans(r)
         \/ \E m \in Commissions : ComCalculer(r, m)
         \/ ComInserer(r) \/ ComRefleter(r) \/ ComEchouer(r)
  PROVE  /\ ComDeclenche(r) /\ req[r].cible \in Lignes /\ tx[req[r].cible] \in Ligne
         /\ UNCHANGED <<reversals, solde, suspendus, agregats, audit, req, pannes, courses>>
         /\ \A q \in Requetes \ {r} : comJob'[q] = comJob[q]
         /\ comJob'[r].montant # comJob[r].montant =>
              comJob[r].pc = "repos" /\ comJob'[r].pc = "calculee"
         /\ comJob'[r].pc \in {"repos", "liste"} =>
              comJob[r].pc = "liste" /\ comJob'[r].pc = "repos"
         /\ ComTypeOK'
         /\ gains' \subseteq gains \cup {r}
<1>1. ComDeclenche(r)
  BY DEF RecalculPurger, ComExistant, ComSans, ComCalculer, ComInserer, ComRefleter, ComEchouer,
         ComPasse, ComActif
<1>2. req[r].cible \in Lignes /\ tx[req[r].cible] \in Ligne
  BY <1>1 DEF ComDeclenche, OpsInv, MetierInv, Suivie
<1>3. /\ UNCHANGED <<reversals, solde, suspendus, agregats, audit, req, pannes, courses>>
      /\ gains' \subseteq gains \cup {r}
  BY DEF RecalculPurger, ComExistant, ComSans, ComCalculer, ComInserer, ComRefleter, ComEchouer, vars
<1>4. ComTypeOK
  BY DEF OpsInv, ComInv
<1>5. ASSUME NEW m \in Commissions, ComCalculer(r, m)
      PROVE  /\ comJob'[r] = [pc |-> "calculee", montant |-> m] /\ comJob[r].pc = "repos"
             /\ \A q \in Requetes \ {r} : comJob'[q] = comJob[q]
             /\ ComTypeOK'
  <2>1. croisees' \subseteq Lignes
    BY <1>2, <1>4, <1>5 DEF ComCalculer, ComTypeOK
  <2> QED BY <1>4, <1>5, <2>1 DEF ComCalculer, ComTypeOK
<1>6. ASSUME RecalculPurger(r) \/ ComExistant(r) \/ ComSans(r)
             \/ ComInserer(r) \/ ComRefleter(r) \/ ComEchouer(r)
      PROVE  \E p \in {"repos", "calculee", "creee", "fini", "sans", "echec"} :
               /\ comJob' = [comJob EXCEPT ![r].pc = p] /\ croisees' = croisees
               /\ p = "repos" => comJob[r].pc = "liste"
  BY <1>6 DEF RecalculPurger, ComExistant, ComSans, ComInserer, ComRefleter, ComEchouer, ComPasse
<1>7. ASSUME RecalculPurger(r) \/ ComExistant(r) \/ ComSans(r)
             \/ ComInserer(r) \/ ComRefleter(r) \/ ComEchouer(r)
      PROVE  /\ \A q \in Requetes \ {r} : comJob'[q] = comJob[q]
             /\ comJob'[r].montant = comJob[r].montant
             /\ comJob'[r].pc \in {"repos", "liste"} =>
                  comJob[r].pc = "liste" /\ comJob'[r].pc = "repos"
             /\ ComTypeOK'
  BY <1>4, <1>6, <1>7 DEF ComTypeOK
<1>8. CASE \E m \in Commissions : ComCalculer(r, m)
  <2>1. /\ comJob'[r].pc = "calculee" /\ comJob[r].pc = "repos"
        /\ \A q \in Requetes \ {r} : comJob'[q] = comJob[q]
        /\ ComTypeOK'
    <3>1. PICK m \in Commissions : ComCalculer(r, m)
      BY <1>8
    <3>2. comJob'[r] = [pc |-> "calculee", montant |-> m]
      BY <1>5, <3>1
    <3> QED BY <1>5, <3>1, <3>2
  <2> QED BY <1>1, <1>2, <1>3, <2>1
<1>9. CASE ~ \E m \in Commissions : ComCalculer(r, m)
  <2>1. /\ \A q \in Requetes \ {r} : comJob'[q] = comJob[q]
        /\ comJob'[r].montant = comJob[r].montant
        /\ comJob'[r].pc \in {"repos", "liste"} =>
             comJob[r].pc = "liste" /\ comJob'[r].pc = "repos"
        /\ ComTypeOK'
    BY <1>7, <1>9
  <2> QED BY <1>1, <1>2, <1>3, <2>1
<1> QED BY <1>8, <1>9

LEMMA ComPasInv ==
  ASSUME OpsInv, NEW r \in Requetes,
         \/ RecalculPurger(r) \/ ComExistant(r) \/ ComSans(r)
         \/ \E m \in Commissions : ComCalculer(r, m)
         \/ ComInserer(r) \/ ComRefleter(r) \/ ComEchouer(r)
  PROVE  ComInv' /\ Fidele
<1>1. /\ ComDeclenche(r) /\ req' = req
      /\ \A q \in Requetes \ {r} : comJob'[q] = comJob[q]
      /\ comJob'[r].montant # comJob[r].montant =>
           comJob[r].pc = "repos" /\ comJob'[r].pc = "calculee"
      /\ comJob'[r].pc \in {"repos", "liste"} => comJob[r].pc = "liste"
      /\ comJob[r].pc = "liste" => comJob'[r].pc # "calculee"
      /\ ComTypeOK'
      /\ gains' \subseteq gains \cup {r}
  <2>1. comJob[r].pc = "liste" => comJob'[r].pc # "calculee"
    BY DEF RecalculPurger, ComExistant, ComSans, ComCalculer, ComInserer, ComRefleter, ComEchouer,
           ComPasse, OpsInv, ComInv, ComTypeOK
  <2> QED BY <2>1, ComPas
<1>2. \A g \in gains' : req'[g].pc = "emis" /\ req'[g].op \in {"complete", "recalculate"}
  BY <1>1 DEF OpsInv, ComInv, ComDeclenche
<1>3. \A q \in Requetes : comJob'[q].montant # 0 => comJob'[q].pc \notin {"repos", "liste"}
  BY <1>1 DEF OpsInv, ComInv
<1>4. \A q \in Requetes : comJob'[q].pc # "repos" \/ comJob'[q].montant # 0 => ComDeclenche(q)'
  BY <1>1 DEF OpsInv, ComInv, ComDeclenche
<1> QED BY <1>1, <1>2, <1>3, <1>4 DEF ComInv, Fidele

LEMMA ComReflet ==
  ASSUME OpsInv, NEW r \in Requetes, ComRefleter(r)
  PROVE  MetierInv' /\ Croissante
<1> DEFINE t == req[r].cible
           m == comJob[r].montant
<1>1. /\ t \in Lignes /\ tx[t] \in Ligne
      /\ tx \in [Lignes -> Ligne \cup {Vide}]
  BY ComPas DEF OpsInv, MetierInv, TypeInv, TypeOK, StoreTypeOK
<1>2. /\ tx' = [tx EXCEPT ![t].commission = m]
      /\ UNCHANGED <<reversals, gains, solde, suspendus, agregats, audit, req, pannes, courses>>
  BY DEF ComRefleter
<1>3. m \in Nat
  <2>1. m \in Commissions \cup {0}
    BY DEF OpsInv, ComInv, ComTypeOK
  <2>2. \A k \in Commissions : k \in Nat
    BY CommissionAssumption
  <2> QED BY <2>1, <2>2
<1>4. /\ tx'[t] \in Ligne
      /\ tx'[t].type = tx[t].type /\ tx'[t].montant = tx[t].montant
      /\ tx'[t].statut = tx[t].statut
      /\ \A u \in Lignes \ {t} : tx'[u] = tx[u]
  BY <1>1, <1>2, <1>3 DEF Ligne
<1>5. Croissante
  BY <1>1, <1>2, <1>4 DEF Croissante, Completee
<1>6. TypeInv'
  <2>1. TypeOK'
    BY <1>1, <1>2, <1>4 DEF OpsInv, MetierInv, TypeInv, TypeOK, StoreTypeOK
  <2>2. Frais' /\ CibleLa' /\ CreationPrete'
    BY <1>1, <1>2, <1>4, VideAbsent DEF OpsInv, MetierInv, TypeInv, Frais, CibleLa, CreationPrete,
                                        Lignes
  <2> QED BY <2>1, <2>2 DEF TypeInv
<1>7. Saine(t)'
  BY <1>1, <1>2, <1>4 DEF OpsInv, MetierInv, Saine, Acquise, Completee
<1>8. \A q \in Requetes : Suivie(q)'
  BY <1>2, <1>5, SuivieReste DEF OpsInv, MetierInv
<1>9. \A u \in Lignes \ {t} : Saine(u)'
  BY <1>4, <1>5, SaineReste DEF OpsInv, MetierInv
<1> QED BY <1>2, <1>5, <1>6, <1>7, <1>8, <1>9 DEF MetierInv

LEMMA ComOps ==
  ASSUME OpsInv, NEW r \in Requetes, ComEtape(r)
  PROVE  MetierInv' /\ ComInv' /\ Croissante /\ Fidele
<1>1. CASE \E t \in Lignes : RecalculLister(r, t)
  BY <1>1, ComListe
<1>2. CASE ComRefleter(r)
  BY <1>2, ComReflet, ComPasInv
<1>3. CASE \/ RecalculPurger(r) \/ ComExistant(r) \/ ComSans(r)
           \/ \E m \in Commissions : ComCalculer(r, m)
           \/ ComInserer(r) \/ ComEchouer(r)
  <2>1. /\ UNCHANGED <<tx, reversals, solde, suspendus, agregats, audit, req, pannes, courses>>
        /\ gains' \subseteq gains \cup {r}
    BY <1>3, ComPas DEF RecalculPurger, ComExistant, ComSans, ComCalculer, ComInserer, ComEchouer, vars
  <2>2. TypeInv'
    BY <2>1 DEF OpsInv, MetierInv, TypeInv, TypeOK, StoreTypeOK, Frais, CibleLa, CreationPrete
  <2>3. MetierInv'
    BY <2>1, <2>2 DEF OpsInv, MetierInv, Saine, Suivie, Acquise, Completee
  <2>4. ComInv' /\ Fidele
    BY <1>3, ComPasInv
  <2> QED BY <2>1, <2>3, <2>4 DEF Croissante, Completee
<1> QED BY <1>1, <1>2, <1>3 DEF ComEtape

(* The types the accounting module reads, and those it books.              *)
LEMMA TypesLus ==
  ASSUME NEW ty \in TypesFR
  PROVE  /\ TypeComptable(ty) = "DEPOT" <=> ty \in {"DEPOT", "CASH_IN"}
         /\ TypeComptable(ty) \in Comptabilises <=> ty \notin {"ANNULATION", "REVERSAL"}
BY DEF TypeComptable, ToPrisma, TypesFR, Comptabilises

(* The accounting listener books completions only.                         *)
LEMMA CptPas ==
  ASSUME OpsInv, NEW r \in Requetes, CptEtape(r)
  PROVE  /\ CptDeclenche(r) /\ UNCHANGED vars
         /\ req[r].cible \in Lignes /\ tx[req[r].cible] \in Ligne /\ Completee(req[r].cible)
         /\ cptJob \in [Requetes -> [pc: {"repos", "exercice", "lu", "fini", "sans_exercice",
                                          "echec", "perdu"}, commission: Nat]]
         /\ journal \in [Lignes -> Ecriture \cup {PasDEcriture}]
<1>1. CptDeclenche(r) /\ UNCHANGED vars
  BY DEF CptEtape, CptExercice, CptLire, CptEchouer, CptPasser, CptInserer, CptRefuser, CptPasse
<1> QED BY <1>1 DEF CptDeclenche, OpsInv, MetierInv, Suivie, CptInv, CptTypeOK

LEMMA CptOps ==
  ASSUME OpsInv, NEW r \in Requetes, CptEtape(r)
  PROVE  UNCHANGED vars /\ CptInv'
<1> DEFINE t == req[r].cible
<1>1. /\ CptDeclenche(r) /\ UNCHANGED vars
      /\ t \in Lignes /\ tx[t] \in Ligne /\ Completee(t)
      /\ cptJob \in [Requetes -> [pc: {"repos", "exercice", "lu", "fini", "sans_exercice",
                                       "echec", "perdu"}, commission: Nat]]
      /\ journal \in [Lignes -> Ecriture \cup {PasDEcriture}]
  BY CptPas
<1>2. SUFFICES /\ CptTypeOK'
               /\ \A q \in Requetes \ {r} : cptJob'[q] = cptJob[q]
               /\ \A u \in Lignes : journal'[u] # PasDEcriture =>
                    /\ Completee(u) /\ tx[u] \in Ligne /\ journal'[u].montant = tx[u].montant
                    /\ journal'[u].commission # 0 => tx[u].type \in {"DEPOT", "CASH_IN"}
  <2>1. /\ CptTypeOK'
        /\ \A q \in Requetes \ {r} : cptJob'[q] = cptJob[q]
        /\ \A u \in Lignes : journal'[u] # PasDEcriture =>
             /\ Completee(u) /\ tx[u] \in Ligne /\ journal'[u].montant = tx[u].montant
             /\ journal'[u].commission # 0 => tx[u].type \in {"DEPOT", "CASH_IN"}
    BY <1>2
  <2>2. \A q \in Requetes : cptJob'[q].pc # "repos" => CptDeclenche(q)'
    BY <1>1, <2>1 DEF OpsInv, CptInv, CptDeclenche, vars
  <2> QED BY <1>1, <2>1, <2>2 DEF CptInv, vars, Completee
<1>3. CASE CptInserer(r)
  <2> DEFINE type == TypeComptable(tx[t].type)
             n == [type |-> type, montant |-> tx[t].montant,
                   commission |-> CommissionComptable(type, cptJob[r].commission)]
  <2>1. /\ type \in Comptabilises
        /\ journal' = [journal EXCEPT ![t] = n]
        /\ cptJob' = [cptJob EXCEPT ![r].pc = "fini"]
    BY <1>3 DEF CptInserer, CptPasse
  <2>2. tx[t].type \in TypesFR /\ tx[t].montant \in Montants
    BY <1>1 DEF Ligne
  <2>3. /\ type \in TypesFR /\ n.commission \in Nat
        /\ n.commission # 0 => tx[t].type \in {"DEPOT", "CASH_IN"}
    BY <1>1, <2>1, <2>2, TypesLus DEF Comptabilises, TypesFR, CommissionComptable
  <2>4. n \in Ecriture /\ n.montant = tx[t].montant
    BY <2>2, <2>3 DEF Ecriture
  <2> HIDE DEF n, type
  <2>5. CptTypeOK' /\ \A q \in Requetes \ {r} : cptJob'[q] = cptJob[q]
    BY <1>1, <2>1, <2>4 DEF CptTypeOK
  <2>6. \A u \in Lignes : journal'[u] # PasDEcriture =>
          /\ Completee(u) /\ tx[u] \in Ligne /\ journal'[u].montant = tx[u].montant
          /\ journal'[u].commission # 0 => tx[u].type \in {"DEPOT", "CASH_IN"}
    BY <1>1, <2>1, <2>3, <2>4 DEF OpsInv, CptInv
  <2> QED BY <2>5, <2>6
<1>4. CASE CptExercice(r) \/ CptLire(r) \/ CptEchouer(r) \/ CptPasser(r) \/ CptRefuser(r)
  <2>1. /\ journal' = journal
        /\ \E p \in {"exercice", "sans_exercice", "lu", "echec", "fini"} :
             \/ cptJob' = [cptJob EXCEPT ![r].pc = p]
             \/ cptJob' = [cptJob EXCEPT ![r] = [pc |-> p, commission |-> tx[t].commission]]
    BY <1>4 DEF CptExercice, CptLire, CptEchouer, CptPasser, CptRefuser, CptPasse
  <2>2. tx[t].commission \in Nat
    BY <1>1 DEF Ligne
  <2>3. CptTypeOK' /\ \A q \in Requetes \ {r} : cptJob'[q] = cptJob[q]
    BY <1>1, <2>1, <2>2 DEF CptTypeOK
  <2> QED BY <2>1, <2>3 DEF OpsInv, CptInv
<1> QED BY <1>3, <1>4 DEF CptEtape
-----------------------------------------------------------------------------
(* The whole *)

(* A listener a step does not concern keeps its part of the invariant.     *)
LEMMA FloatTient ==
  ASSUME OpsInv, Fidele, UNCHANGED floatVars
  PROVE  FloatInv'
BY DEF OpsInv, FloatInv, FloatTypeOK, floatVars, Fidele

LEMMA ComTient ==
  ASSUME OpsInv, Fidele, gains' \subseteq gains, UNCHANGED comVars
  PROVE  ComInv'
<1>1. gains \subseteq Requetes
  BY DEF OpsInv, MetierInv, TypeInv, TypeOK, StoreTypeOK
<1>2. \A r \in Requetes : ComDeclenche(r) => ComDeclenche(r)'
  BY DEF Fidele, ComDeclenche
<1> QED BY <1>1, <1>2 DEF OpsInv, ComInv, ComTypeOK, comVars, ComDeclenche

LEMMA CptTient ==
  ASSUME OpsInv, Croissante, Fidele, UNCHANGED cptVars
  PROVE  CptInv'
<1>1. \A r \in Requetes : CptDeclenche(r) => CptDeclenche(r)'
  BY DEF Fidele, CptDeclenche
<1> QED BY <1>1 DEF OpsInv, CptInv, CptTypeOK, cptVars, Croissante

LEMMA OpsInitInv == OpsInit => OpsInv
<1> SUFFICES ASSUME OpsInit PROVE OpsInv
  OBVIOUS
<1>1. TypeInv
  BY InitTypeInv DEF OpsInit
<1>2. ASSUME NEW t \in Lignes, tx[t] \in Ligne
      PROVE  tx[t].statut = "PENDING"
  <2>1. \E ty \in Types, a \in Agents, m \in Montants : tx[t] = Nouvelle(ty, a, m)
    BY <1>2, VideAbsent DEF OpsInit, Init, StoreInit
  <2> QED BY <2>1 DEF Nouvelle
<1>3. \A t \in Lignes : Saine(t)
  BY <1>2 DEF Saine
<1>4. \A r \in Requetes : req[r].pc = "repos" /\ req[r].cible = Aucun
  BY DEF OpsInit, Init
<1>5. MetierInv
  BY <1>1, <1>3, <1>4 DEF MetierInv, Suivie
<1>6. FloatInv
  BY DEF OpsInit, FloatInit, FloatInv, FloatTypeOK
<1>7. ComInv
  BY DEF OpsInit, Init, StoreInit, ComInit, ComInv, ComTypeOK
<1>8. CptInv
  BY DEF OpsInit, CptInit, CptInv, CptTypeOK
<1> QED BY <1>5, <1>6, <1>7, <1>8 DEF OpsInv

LEMMA ServiceOps ==
  ASSUME OpsInv, Service, UNCHANGED <<floatVars, comVars, cptVars>>
  PROVE  OpsInv'
<1>1. TypeInv /\ [Next]_vars
  BY DEF OpsInv, MetierInv, Next
<1>2. MetierInv' /\ Croissante /\ Fidele
  BY <1>1, NextMetier, NextCroit, NextFidele DEF OpsInv
<1>3. gains' \subseteq gains
  BY DEF Service, Statut, Suspendre, Activer, Etape, LireCreation, Inserer, Lire, Completer,
         Annuler, Reverser, Emettre
<1> QED BY <1>2, <1>3, FloatTient, ComTient, CptTient DEF OpsInv

(* A restart stops the jobs where they are.                                *)
LEMMA PanneOps ==
  ASSUME OpsInv, Panne
  PROVE  OpsInv'
<1>1. TypeInv /\ [Next]_vars
  BY DEF OpsInv, MetierInv, Next, Panne
<1>2. MetierInv' /\ Croissante /\ Fidele
  BY <1>1, NextMetier, NextCroit, NextFidele DEF OpsInv
<1>3. FloatInv'
  <2>1. FloatTypeOK'
    BY DEF Panne, PerdreFloat, OpsInv, FloatInv, FloatTypeOK
  <2> QED BY <1>2, <2>1 DEF Panne, PerdreFloat, OpsInv, FloatInv, Fidele
<1>4. ComInv'
  <2>1. ComTypeOK' /\ gains' = gains /\ gains \subseteq Requetes
    BY DEF Panne, PerdreRequetes, PerdreCommission, OpsInv, ComInv, ComTypeOK, MetierInv, TypeInv,
           TypeOK, StoreTypeOK
  <2>2. \A r \in Requetes : ComDeclenche(r) => ComDeclenche(r)'
    BY <1>2 DEF Fidele, ComDeclenche
  <2>3. \A r \in Requetes :
          \/ comJob'[r] = comJob[r]
          \/ ComActif(r) /\ comJob'[r].pc = "perdu" /\ comJob'[r].montant = comJob[r].montant
    BY DEF Panne, PerdreCommission, OpsInv, ComInv, ComTypeOK
  <2>4. \A g \in gains' : req'[g].pc = "emis" /\ req'[g].op \in {"complete", "recalculate"}
    BY <1>2, <2>1 DEF OpsInv, ComInv, Fidele
  <2> QED BY <2>1, <2>2, <2>3, <2>4 DEF OpsInv, ComInv, ComActif
<1>5. CptInv'
  <2>1. CptTypeOK' /\ journal' = journal
    BY DEF Panne, PerdreComptabilite, OpsInv, CptInv, CptTypeOK
  <2>2. \A r \in Requetes : cptJob'[r].pc # "repos" => CptDeclenche(r)
    BY DEF Panne, PerdreComptabilite, CptActif, OpsInv, CptInv
  <2>3. \A r \in Requetes : CptDeclenche(r) => CptDeclenche(r)'
    BY <1>2 DEF Fidele, CptDeclenche
  <2> QED BY <1>2, <2>1, <2>2, <2>3 DEF OpsInv, CptInv, Croissante
<1> QED BY <1>2, <1>3, <1>4, <1>5 DEF OpsInv

LEMMA OpsNextInv == OpsInv /\ [OpsNext]_opsVars => OpsInv'
<1> SUFFICES ASSUME OpsInv, [OpsNext]_opsVars PROVE OpsInv'
  OBVIOUS
<1>1. CASE UNCHANGED opsVars
  <2>1. MetierInv' /\ Croissante /\ Fidele /\ gains' = gains
    BY <1>1, NextMetier, NextCroit, NextFidele DEF opsVars, OpsInv, MetierInv, vars
  <2> QED BY <1>1, <2>1, FloatTient, ComTient, CptTient DEF OpsInv, opsVars
<1>2. CASE Service /\ UNCHANGED <<floatVars, comVars, cptVars>>
  BY <1>2, ServiceOps
<1>3. CASE Panne
  BY <1>3, PanneOps
<1>4. ASSUME NEW r \in Requetes, Float(r) PROVE OpsInv'
  <2>1. UNCHANGED Restes /\ MetierInv' /\ FloatInv'
    BY <1>4, FloatOps, SoldeSeul DEF Float, OpsInv
  <2>2. Croissante /\ Fidele
    BY <2>1 DEF Restes, Croissante, Completee, Fidele
  <2> QED BY <1>4, <2>1, <2>2, ComTient, CptTient DEF OpsInv, Float, Restes
<1>5. ASSUME NEW r \in Requetes, Commission(r) PROVE OpsInv'
  BY <1>5, ComOps, FloatTient, CptTient DEF OpsInv, Commission
<1>6. ASSUME NEW r \in Requetes, Comptabilite(r) PROVE OpsInv'
  <2>1. UNCHANGED vars /\ CptInv'
    BY <1>6, CptOps DEF Comptabilite
  <2>2. MetierInv' /\ Fidele /\ gains' = gains
    BY <2>1, NextMetier, NextFidele DEF OpsInv, MetierInv, vars
  <2> QED BY <1>6, <2>1, <2>2, FloatTient, ComTient DEF OpsInv, Comptabilite
<1> QED BY <1>1, <1>2, <1>3, <1>4, <1>5, <1>6 DEF OpsNext

LEMMA OpsToujours == OpsSpec => []OpsInv
BY OpsInitInv, OpsNextInv, PTL DEF OpsSpec

(* The tables, the requests and the jobs of the three listeners keep their *)
(* types, whatever overlaps and however often the process restarts.        *)
THEOREM OpsTypes == OpsSpec => []OpsTypeOK
<1>1. OpsInv => OpsTypeOK
  BY DEF OpsInv, MetierInv, TypeInv, FloatInv, ComInv, CptInv, OpsTypeOK
<1> QED BY <1>1, OpsToujours, PTL

-----------------------------------------------------------------------------
(* The amounts *)

(* A step keeps what every listener step keeps of the invariants.          *)
LEMMA OpsCroit == OpsInv /\ [OpsNext]_opsVars => Croissante /\ Fidele
<1> SUFFICES ASSUME OpsInv, [OpsNext]_opsVars PROVE Croissante /\ Fidele
  OBVIOUS
<1>1. ASSUME [Next]_vars PROVE Croissante /\ Fidele
  BY <1>1, NextCroit, NextFidele DEF OpsInv, MetierInv
<1>2. ASSUME NEW r \in Requetes, Float(r) PROVE Croissante /\ Fidele
  BY <1>2, FloatOps DEF Float, Restes, Croissante, Completee, Fidele
<1>3. ASSUME NEW r \in Requetes, Commission(r) PROVE Croissante /\ Fidele
  BY <1>3, ComOps DEF Commission
<1>4. ASSUME NEW r \in Requetes, Comptabilite(r) PROVE [Next]_vars
  BY <1>4, CptOps DEF Comptabilite
<1> QED BY <1>1, <1>2, <1>3, <1>4 DEF OpsNext, opsVars, Next, Panne

(* The service writes no commission but zero.                              *)
LEMMA NextCommission ==
  ASSUME MetierInv, [Next]_vars, NEW u \in Lignes, tx'[u] \in Ligne
  PROVE  \/ tx'[u].commission = 0
         \/ tx[u] \in Ligne /\ tx'[u].commission = tx[u].commission
<1>1. tx \in [Lignes -> Ligne \cup {Vide}] /\ TypeInv
  BY DEF MetierInv, TypeInv, TypeOK, StoreTypeOK
<1>2. CASE tx'[u] = tx[u]
  BY <1>2
<1>3. ASSUME NEW r \in Requetes, Inserer(r) PROVE tx'[u] = tx[u] \/ tx'[u].commission = 0
  <2>1. tx' = [tx EXCEPT ![r] = req[r].ligne] /\ req[r].ligne.commission = 0
    BY <1>3 DEF Inserer, MetierInv, Suivie
  <2> QED BY <1>1, <2>1
<1>4. ASSUME NEW r \in Requetes, NEW t \in Lignes,
             Completer(r, t) \/ Annuler(r, t) \/ Reverser(r, t)
      PROVE  tx'[u] = tx[u] \/ tx'[u].commission = 0
             \/ (tx[u] \in Ligne /\ tx'[u].commission = tx[u].commission)
  <2>1. tx[t] \in Ligne /\ tx[r] = Vide /\ t # r /\ r \in Lignes
    BY <1>1, <1>4, EcritLigne DEF Completer, Annuler, Reverser, Attendu
  <2>2. CASE Completer(r, t) \/ Annuler(r, t)
    <3>1. \E s \in Statuts : tx' = [tx EXCEPT ![t].statut = s]
      BY <2>2 DEF Completer, Annuler, Statuts
    <3> QED BY <1>1, <2>1, <3>1 DEF Ligne
  <2>3. CASE Reverser(r, t)
    <3>1. tx' = [tx EXCEPT ![t].statut = "REVERSED", ![t].reversal = r,
                           ![t].commission = 0, ![r] = Compensation(t)]
      BY <2>3 DEF Reverser
    <3>2. Compensation(t).commission = 0
      BY <2>1 DEF Compensation, Ligne
    <3>3. tx'[t].commission = 0 /\ tx'[r].commission = 0
      BY <1>1, <2>1, <3>1, <3>2 DEF Ligne
    <3> QED BY <1>1, <3>1, <3>3
  <2> QED BY <1>4, <2>2, <2>3
<1> QED BY <1>2, <1>3, <1>4 DEF Next, Service, Statut, Etape, vars, Suspendre, Activer,
                                LireCreation, Lire, Emettre, PerdreRequetes

(* No amount, or one a job resolved for row t.                             *)
Resolu(t, c) ==
  c = 0 \/ \E r \in Requetes : comJob[r].montant = c /\ req[r].cible = t

(* The same after a step.                                                  *)
ResoluApres(t, c) ==
  c = 0 \/ \E r \in Requetes : comJob'[r].montant = c /\ req'[r].cible = t

(* Every amount shown on a row, read by the accounting listener or booked  *)
(* was resolved for that row.                                              *)
MontantInv ==
  /\ \A t \in Lignes : tx[t] \in Ligne => Resolu(t, tx[t].commission)
  /\ \A r \in Requetes : cptJob[r].commission # 0 =>
       CptDeclenche(r) /\ Resolu(req[r].cible, cptJob[r].commission)
  /\ \A t \in Lignes : journal[t] # PasDEcriture => Resolu(t, journal[t].commission)

(* A job keeps the amount it resolved.                                     *)
LEMMA MontantGarde ==
  ASSUME OpsInv, [OpsNext]_opsVars, NEW r \in Requetes, comJob[r].montant # 0
  PROVE  comJob'[r].montant = comJob[r].montant /\ req'[r].cible = req[r].cible
<1>1. req[r].pc = "emis" /\ comJob[r].pc # "repos"
  BY DEF OpsInv, ComInv, ComDeclenche
<1>2. req'[r].cible = req[r].cible
  BY <1>1, OpsCroit DEF Fidele
<1>3. ASSUME NEW q \in Requetes, Commission(q) PROVE comJob'[r].montant = comJob[r].montant
  <2>1. ASSUME NEW t \in Lignes, RecalculLister(q, t)
        PROVE  comJob'[r].montant = comJob[r].montant
    BY <2>1 DEF RecalculLister, OpsInv, ComInv, ComTypeOK
  <2>2. CASE \/ RecalculPurger(q) \/ ComExistant(q) \/ ComSans(q)
             \/ \E m \in Commissions : ComCalculer(q, m)
             \/ ComInserer(q) \/ ComRefleter(q) \/ ComEchouer(q)
    <3>1. /\ \A p \in Requetes \ {q} : comJob'[p] = comJob[p]
          /\ comJob'[q].montant # comJob[q].montant => comJob[q].pc = "repos"
      BY <2>2, ComPas
    <3> QED BY <1>1, <3>1
  <2> QED BY <1>3, <2>1, <2>2 DEF Commission, ComEtape
<1>4. CASE Panne
  <2>1. \/ comJob'[r] = comJob[r]
        \/ comJob'[r] = [comJob[r] EXCEPT !.pc = "perdu"]
    BY <1>4 DEF Panne, PerdreCommission
  <2> QED BY <1>2, <2>1 DEF OpsInv, ComInv, ComTypeOK
<1>5. ASSUME UNCHANGED comVars PROVE comJob'[r].montant = comJob[r].montant
  BY <1>5 DEF comVars
<1> QED BY <1>2, <1>3, <1>4, <1>5 DEF OpsNext, opsVars, Float, Comptabilite

LEMMA ResoluReste ==
  ASSUME OpsInv, [OpsNext]_opsVars
  PROVE  \A t, c : Resolu(t, c) => ResoluApres(t, c)
BY MontantGarde DEF Resolu, ResoluApres

LEMMA MontantNext ==
  ASSUME OpsInv, MontantInv, [OpsNext]_opsVars
  PROVE  MontantInv'
<1>1. Croissante /\ Fidele
  BY OpsCroit
<1>2. ASSUME NEW t \in Lignes, tx'[t] \in Ligne PROVE ResoluApres(t, tx'[t].commission)
  <2>1. ASSUME tx'[t].commission = 0
               \/ (tx[t] \in Ligne /\ tx'[t].commission = tx[t].commission)
        PROVE  ResoluApres(t, tx'[t].commission)
    <3>1. CASE tx'[t].commission = 0
      BY <3>1 DEF ResoluApres
    <3>2. CASE tx[t] \in Ligne /\ tx'[t].commission = tx[t].commission
      BY <3>2, ResoluReste DEF MontantInv
    <3> QED BY <2>1, <3>1, <3>2
  <2>2. ASSUME [Next]_vars PROVE ResoluApres(t, tx'[t].commission)
    BY <1>2, <2>1, <2>2, NextCommission DEF OpsInv
  <2>3. CASE tx' = tx
    BY <1>2, <2>1, <2>3
  <2>4. ASSUME NEW r \in Requetes, ComRefleter(r) PROVE ResoluApres(t, tx'[t].commission)
    <3> DEFINE u == req[r].cible
    <3>1. u \in Lignes /\ tx[u] \in Ligne /\ tx \in [Lignes -> Ligne \cup {Vide}]
      BY <2>4, ComPas DEF OpsInv, MetierInv, TypeInv, TypeOK, StoreTypeOK
    <3>2. /\ tx' = [tx EXCEPT ![u].commission = comJob[r].montant] /\ req' = req
          /\ comJob' = [comJob EXCEPT ![r].pc = "fini"]
      BY <2>4 DEF ComRefleter, ComPasse
    <3>3. CASE t = u
      <4>1. tx'[t].commission = comJob[r].montant
        BY <3>1, <3>2, <3>3 DEF Ligne
      <4>2. comJob'[r].montant = comJob[r].montant
        BY <3>2 DEF OpsInv, ComInv, ComTypeOK
      <4> QED BY <3>2, <3>3, <4>1, <4>2 DEF ResoluApres
    <3>4. CASE t # u
      BY <1>2, <2>1, <3>1, <3>2, <3>4
    <3> QED BY <3>3, <3>4
  <2>5. ASSUME NEW r \in Requetes, Commission(r) PROVE tx' = tx \/ ComRefleter(r)
    BY <2>5 DEF Commission, ComEtape, RecalculLister, RecalculPurger, ComExistant, ComSans,
                ComCalculer, ComInserer, ComEchouer, vars
  <2>6. ASSUME NEW r \in Requetes, Float(r) PROVE tx' = tx
    BY <2>6, FloatOps DEF Float, Restes
  <2>7. ASSUME NEW r \in Requetes, Comptabilite(r) PROVE tx' = tx
    BY <2>7, CptOps DEF Comptabilite, vars
  <2> QED BY <2>2, <2>3, <2>4, <2>5, <2>6, <2>7 DEF OpsNext, opsVars, Next, Panne
<1>3. ASSUME NEW r \in Requetes, cptJob'[r].commission # 0
      PROVE  CptDeclenche(r)' /\ ResoluApres(req'[r].cible, cptJob'[r].commission)
  <2>1. CptDeclenche(r) => CptDeclenche(r)' /\ req'[r].cible = req[r].cible
    BY <1>1 DEF Fidele, CptDeclenche
  <2>2. CASE cptJob'[r].commission = cptJob[r].commission
    <3>1. CptDeclenche(r) /\ Resolu(req[r].cible, cptJob[r].commission)
      BY <1>3, <2>2 DEF MontantInv
    <3> QED BY <2>1, <2>2, <3>1, ResoluReste
  <2>3. ASSUME NEW q \in Requetes, CptEtape(q)
        PROVE  \/ cptJob'[r].commission = cptJob[r].commission
               \/ CptDeclenche(r) /\ cptJob'[r].commission = tx[req[r].cible].commission
    <3>1. cptJob \in [Requetes -> [pc: {"repos", "exercice", "lu", "fini", "sans_exercice",
                                        "echec", "perdu"}, commission: Nat]]
      BY DEF OpsInv, CptInv, CptTypeOK
    <3>2. \/ \E p \in {"exercice", "sans_exercice", "echec", "fini"} :
               cptJob' = [cptJob EXCEPT ![q].pc = p]
          \/ /\ CptDeclenche(q)
             /\ cptJob' = [cptJob EXCEPT ![q] = [pc |-> "lu",
                                                commission |-> tx[req[q].cible].commission]]
      BY <2>3 DEF CptEtape, CptExercice, CptLire, CptEchouer, CptPasser, CptInserer, CptRefuser,
                  CptPasse
    <3> QED BY <3>1, <3>2
  <2>4. CASE CptDeclenche(r) /\ cptJob'[r].commission = tx[req[r].cible].commission
    <3>1. req[r].cible \in Lignes /\ tx[req[r].cible] \in Ligne
      BY <2>4 DEF CptDeclenche, OpsInv, MetierInv, Suivie
    <3>2. Resolu(req[r].cible, cptJob'[r].commission)
      BY <2>4, <3>1 DEF MontantInv
    <3> QED BY <2>1, <2>4, <3>2, ResoluReste
  <2>5. CASE Panne
    <3>1. cptJob'[r].commission = cptJob[r].commission
      BY <2>5 DEF Panne, PerdreComptabilite, OpsInv, CptInv, CptTypeOK
    <3> QED BY <2>2, <3>1
  <2> QED BY <2>2, <2>3, <2>4, <2>5
          DEF OpsNext, opsVars, cptVars, Float, Commission, Comptabilite
<1>4. ASSUME NEW t \in Lignes, journal'[t] # PasDEcriture
      PROVE  ResoluApres(t, journal'[t].commission)
  <2>1. CASE journal'[t] = journal[t]
    BY <1>4, <2>1, ResoluReste DEF MontantInv
  <2>2. ASSUME NEW q \in Requetes, CptInserer(q), journal'[t] # journal[t]
        PROVE  Resolu(t, journal'[t].commission)
    <3>1. /\ req[q].cible = t
          /\ journal'[t].commission \in {0, cptJob[q].commission}
      BY <2>2 DEF CptInserer, CommissionComptable, OpsInv, CptInv, CptTypeOK
    <3> QED BY <3>1 DEF MontantInv, Resolu
  <2>3. ASSUME NEW q \in Requetes, CptEtape(q) PROVE journal' = journal \/ CptInserer(q)
    BY <2>3 DEF CptEtape, CptExercice, CptLire, CptEchouer, CptPasser, CptRefuser
  <2> QED BY <2>1, <2>2, <2>3, ResoluReste
          DEF OpsNext, opsVars, cptVars, Float, Commission, Comptabilite, Panne, PerdreComptabilite
<1> QED BY <1>2, <1>3, <1>4 DEF MontantInv, Resolu, ResoluApres

(* A listener acts for completions only, whatever overlaps: no movement,   *)
(* earning or entry follows a cancellation that raced a completion unless  *)
(* the completion committed, and an entry bears the amount of its          *)
(* transaction and a commission that was resolved for it, if any.          *)
THEOREM EffetsJustifies == OpsSpec => []EffetsDeCompletion
<1>1. OpsInit => MontantInv
  <2> SUFFICES ASSUME OpsInit PROVE MontantInv
    OBVIOUS
  <2>1. ASSUME NEW t \in Lignes, tx[t] \in Ligne PROVE tx[t].commission = 0
    <3>1. \E ty \in Types, a \in Agents, m \in Montants : tx[t] = Nouvelle(ty, a, m)
      BY <2>1, VideAbsent DEF OpsInit, Init, StoreInit
    <3> QED BY <3>1 DEF Nouvelle
  <2> QED BY <2>1 DEF OpsInit, CptInit, MontantInv, Resolu
<1>2. OpsInv /\ MontantInv => EffetsDeCompletion
  <2> SUFFICES ASSUME OpsInv, MontantInv PROVE EffetsDeCompletion
    OBVIOUS
  <2>1. ASSUME NEW t \in Lignes \ reversals, NEW r \in Requetes, req[r].cible = t,
               req[r].pc = "emis", req[r].op \in {"complete", "reverse", "recalculate"}
        PROVE  Completee(t)
    BY <2>1 DEF OpsInv, MetierInv, Suivie, Acquise
  <2>2. MouvementApresCompletion
    BY <2>1 DEF OpsInv, FloatInv, MouvementApresCompletion
  <2>3. gains \subseteq Requetes
    BY DEF OpsInv, MetierInv, TypeInv, TypeOK, StoreTypeOK
  <2>4. GainApresCompletion
    BY <2>1, <2>3 DEF OpsInv, ComInv, GainApresCompletion, GainsDe
  <2>5. EcritureDeCompletion
    BY DEF OpsInv, CptInv, MontantInv, Resolu, EcritureDeCompletion
  <2> QED BY <2>2, <2>4, <2>5 DEF EffetsDeCompletion
<1>3. OpsInv /\ MontantInv /\ [OpsNext]_opsVars => MontantInv'
  BY MontantNext
<1> QED BY <1>1, <1>2, <1>3, OpsToujours, PTL DEF OpsSpec
-----------------------------------------------------------------------------
(* The alert *)

(* A movement bears the agent of its row and its job has gone past it; an  *)
(* account that a debit left below its threshold has an alert, or a job    *)
(* that is still to compare the balance or that a restart stopped there.   *)
Portes ==
  /\ \A r \in Requetes : mouvements[r] # PasDeMouvement =>
       /\ mouvements[r].agent = Objet(r).agent
       /\ floatJob[r].pc \in {"ecrit", "fini", "perdu"}
  /\ \A r \in Requetes : floatJob[r].pc = "ecrit" => mouvements[r] # PasDeMouvement

Debite(a) == \E r \in MouvementsDe(a) : mouvements[r].sens = "DEBIT"

Surveille(a) ==
  \E r \in MouvementsDe(a) : floatJob[r].pc \in {"ecrit", "perdu"} \/ r \in alertes

AlerteInv == Portes /\ \A a \in AvecFloat : SousSeuil(a) /\ Debite(a) => Surveille(a)

(* A step keeps the agent of the rows that exist.                          *)
AgentGarde == \A t \in Lignes : tx[t] \in Ligne => tx'[t].agent = tx[t].agent

LEMMA NextAgent == TypeInv /\ [Next]_vars => AgentGarde /\ solde' = solde
<1> SUFFICES ASSUME TypeInv, [Next]_vars PROVE AgentGarde /\ solde' = solde
  OBVIOUS
<1>1. CASE UNCHANGED <<tx, solde>>
  BY <1>1 DEF AgentGarde
<1>2. ASSUME NEW r \in Requetes, Inserer(r) PROVE AgentGarde /\ solde' = solde
  <2>1. r \in Lignes /\ tx[r] \notin Ligne
    BY <1>2, VideAbsent DEF Inserer, TypeInv, Frais, Lignes
  <2> QED BY <1>2, <2>1 DEF Inserer, TypeInv, TypeOK, StoreTypeOK, AgentGarde
<1>3. ASSUME NEW r \in Requetes, NEW t \in Lignes,
             Completer(r, t) \/ Annuler(r, t) \/ Reverser(r, t)
      PROVE  AgentGarde /\ solde' = solde
  <2>1. tx[t] \in Ligne /\ tx[r] \notin Ligne /\ t # r
    BY <1>3, EcritLigne, VideAbsent DEF Completer, Annuler, Reverser, Attendu
  <2>2. tx \in [Lignes -> Ligne \cup {Vide}]
    BY DEF TypeInv, TypeOK, StoreTypeOK
  <2>3. tx'[t].agent = tx[t].agent /\ \A u \in Lignes \ {t, r} : tx'[u] = tx[u]
    BY <1>3, <2>1, <2>2 DEF Completer, Annuler, Reverser, Ligne
  <2> QED BY <1>3, <2>1, <2>3 DEF AgentGarde, Completer, Annuler, Reverser
<1> QED BY <1>1, <1>2, <1>3 DEF Next, Service, Statut, Etape, vars, Suspendre, Activer,
                                LireCreation, Lire, Emettre, PerdreRequetes

LEMMA ComAgent ==
  ASSUME OpsInv, NEW r \in Requetes, ComEtape(r)
  PROVE  AgentGarde /\ solde' = solde
<1>1. CASE ComRefleter(r)
  <2> DEFINE t == req[r].cible
  <2>1. t \in Lignes /\ tx[t] \in Ligne /\ tx \in [Lignes -> Ligne \cup {Vide}]
    BY <1>1, ComPas DEF OpsInv, MetierInv, TypeInv, TypeOK, StoreTypeOK
  <2>2. tx' = [tx EXCEPT ![t].commission = comJob[r].montant] /\ solde' = solde
    BY <1>1 DEF ComRefleter
  <2> QED BY <2>1, <2>2 DEF AgentGarde, Ligne
<1>2. CASE UNCHANGED <<tx, solde>>
  BY <1>2 DEF AgentGarde
<1> QED BY <1>1, <1>2 DEF ComEtape, RecalculLister, RecalculPurger, ComExistant, ComSans,
                          ComCalculer, ComInserer, ComEchouer, vars

(* The row of a movement keeps its agent.                                  *)
LEMMA ObjetGarde ==
  ASSUME OpsInv, AgentGarde, Fidele, NEW r \in Requetes, mouvements[r] # PasDeMouvement
  PROVE  Objet(r)'.agent = Objet(r).agent
<1>1. /\ req[r].pc = "emis" /\ req'[r].cible = req[r].cible
      /\ req[r].cible \in Lignes /\ tx[req[r].cible] \in Ligne
  BY DEF OpsInv, FloatInv, MetierInv, Suivie, Fidele
<1> QED BY <1>1 DEF Objet, AgentGarde

(* A step of the others, or a restart: the jobs in flight may stop.        *)
LEMMA AlerteTient ==
  ASSUME OpsInv, AlerteInv, AgentGarde, Fidele, UNCHANGED <<solde, mouvements, alertes>>,
         \A r \in Requetes : floatJob'[r].pc # floatJob[r].pc =>
                               floatJob'[r].pc = "perdu" /\ floatJob[r].pc # "fini"
  PROVE  AlerteInv'
<1>1. Portes'
  BY ObjetGarde DEF AlerteInv, Portes
<1>2. ASSUME NEW a \in AvecFloat, SousSeuil(a)', Debite(a)' PROVE Surveille(a)'
  BY <1>2 DEF AlerteInv, SousSeuil, Debite, Surveille, MouvementsDe
<1> QED BY <1>1, <1>2 DEF AlerteInv

LEMMA AlerteBouger ==
  ASSUME OpsInv, AlerteInv, NEW r \in Requetes, FloatCrediter(r) \/ FloatDebiter(r)
  PROVE  AlerteInv'
<1> DEFINE b == Objet(r).agent
           m == Objet(r).montant
<1>1. b \in Agents /\ m \in Nat /\ Objet(r)' = Objet(r)
  <2>1. Objet(r) \in Ligne
    BY DEF FloatCrediter, FloatDebiter, FloatDeclenche, Objet, OpsInv, MetierInv, Suivie
  <2> QED BY <2>1, StoreAssumption DEF Ligne, Objet, FloatCrediter, FloatDebiter, Bouger
<1>2. PICK sens \in {"DEBIT", "CREDIT"} :
        /\ Bouger(r, sens)
        /\ floatJob[r].pc = "lu"
        /\ floatJob' = [floatJob EXCEPT ![r].pc = IF sens = "DEBIT" THEN "ecrit" ELSE "fini"]
  BY DEF FloatCrediter, FloatDebiter, FloatPasse
<1>3. /\ mouvements'[r] # PasDeMouvement
      /\ mouvements'[r].agent = b /\ mouvements'[r].sens = sens
      /\ \A q \in Requetes \ {r} : mouvements'[q] = mouvements[q] /\ floatJob'[q] = floatJob[q]
      /\ floatJob'[r].pc = IF sens = "DEBIT" THEN "ecrit" ELSE "fini"
      /\ alertes' = alertes /\ tx' = tx /\ req' = req
  BY <1>2 DEF Bouger, OpsInv, FloatInv, FloatTypeOK, PasDeMouvement
<1>4. mouvements[r] = PasDeMouvement
  BY <1>2 DEF AlerteInv, Portes
<1>5. Portes'
  BY <1>1, <1>3 DEF AlerteInv, Portes, Objet
<1>6. ASSUME NEW a \in AvecFloat, SousSeuil(a)', Debite(a)' PROVE Surveille(a)'
  <2>1. CASE a = b /\ sens = "DEBIT"
    BY <1>3, <2>1 DEF Surveille, MouvementsDe
  <2>2. CASE a # b \/ sens = "CREDIT"
    <3>1. SousSeuil(a)
      <4>1. solde \in [AvecFloat -> Int] /\ SeuilMin \in Int
        BY FloatAssumption DEF OpsInv, MetierInv, TypeInv, TypeOK, StoreTypeOK
      <4>2. solde' = [solde EXCEPT ![b] = solde[b] + Signe(sens, m)]
        BY <1>2, <4>1 DEF Bouger
      <4>3. solde'[a] >= solde[a]
        BY <1>1, <2>2, <4>1, <4>2 DEF Signe
      <4> QED BY <1>6, <4>1, <4>3, <4>2, <1>1 DEF SousSeuil, Signe
    <3>2. Debite(a)
      BY <1>3, <1>6, <2>2 DEF Debite, MouvementsDe
    <3>3. PICK q \in MouvementsDe(a) : floatJob[q].pc \in {"ecrit", "perdu"} \/ q \in alertes
      BY <3>1, <3>2 DEF AlerteInv, Surveille
    <3>4. q # r /\ q \in Requetes
      BY <1>4, <3>3 DEF MouvementsDe
    <3> QED BY <1>3, <3>3, <3>4 DEF Surveille, MouvementsDe
  <2> QED BY <2>1, <2>2
<1> QED BY <1>5, <1>6 DEF AlerteInv

LEMMA AlerteVerifier ==
  ASSUME OpsInv, AlerteInv, NEW r \in Requetes, FloatVerifierSeuil(r)
  PROVE  AlerteInv'
<1>1. /\ floatJob[r].pc = "ecrit" /\ floatJob'[r].pc = "fini"
      /\ \A q \in Requetes \ {r} : floatJob'[q] = floatJob[q]
      /\ UNCHANGED <<tx, req, solde, mouvements>>
      /\ alertes \subseteq alertes'
      /\ SousSeuil(Objet(r).agent) => r \in alertes'
  BY DEF FloatVerifierSeuil, FloatPasse, vars, OpsInv, FloatInv, FloatTypeOK
<1>2. mouvements[r] # PasDeMouvement /\ mouvements[r].agent = Objet(r).agent
  BY <1>1 DEF AlerteInv, Portes
<1>3. Portes'
  BY <1>1, <1>2 DEF AlerteInv, Portes, Objet
<1>4. ASSUME NEW a \in AvecFloat, SousSeuil(a)', Debite(a)' PROVE Surveille(a)'
  <2>1. SousSeuil(a) /\ Debite(a)
    BY <1>1, <1>4 DEF SousSeuil, Debite, MouvementsDe
  <2>2. PICK q \in MouvementsDe(a) : floatJob[q].pc \in {"ecrit", "perdu"} \/ q \in alertes
    BY <2>1 DEF AlerteInv, Surveille
  <2>3. CASE q = r
    <3>1. Objet(r).agent = a
      BY <1>2, <2>2, <2>3 DEF MouvementsDe
    <3> QED BY <1>1, <2>1, <2>2, <2>3, <3>1 DEF Surveille, MouvementsDe
  <2>4. CASE q # r
    BY <1>1, <2>2, <2>4 DEF Surveille, MouvementsDe
  <2> QED BY <2>3, <2>4
<1> QED BY <1>3, <1>4 DEF AlerteInv

LEMMA AlerteFloat ==
  ASSUME OpsInv, AlerteInv, NEW r \in Requetes, FloatEtape(r)
  PROVE  AlerteInv'
<1>1. CASE FloatCrediter(r) \/ FloatDebiter(r)
  BY <1>1, AlerteBouger
<1>2. CASE FloatVerifierSeuil(r)
  BY <1>2, AlerteVerifier
<1>3. CASE FloatIgnorer(r) \/ FloatLire(r) \/ FloatEchouer(r)
  <2>1. /\ UNCHANGED <<tx, req, solde, mouvements, alertes>>
        /\ floatJob[r].pc = "repos" /\ floatJob'[r].pc \in {"fini", "lu", "echec"}
        /\ \A q \in Requetes \ {r} : floatJob'[q] = floatJob[q]
    BY <1>3 DEF FloatIgnorer, FloatLire, FloatEchouer, FloatPasse, vars, OpsInv, FloatInv,
                FloatTypeOK
  <2>2. mouvements[r] = PasDeMouvement /\ \A a : r \notin MouvementsDe(a)
    BY <2>1 DEF AlerteInv, Portes, MouvementsDe
  <2>3. Portes'
    BY <2>1, <2>2 DEF AlerteInv, Portes, Objet
  <2>4. ASSUME NEW a \in AvecFloat, SousSeuil(a)', Debite(a)' PROVE Surveille(a)'
    <3>1. SousSeuil(a) /\ Debite(a)
      BY <2>1, <2>4 DEF SousSeuil, Debite, MouvementsDe
    <3>2. PICK q \in MouvementsDe(a) : floatJob[q].pc \in {"ecrit", "perdu"} \/ q \in alertes
      BY <3>1 DEF AlerteInv, Surveille
    <3>3. q \in Requetes \ {r}
      BY <2>2, <3>2 DEF MouvementsDe
    <3> QED BY <2>1, <3>2, <3>3 DEF Surveille, MouvementsDe
  <2> QED BY <2>3, <2>4 DEF AlerteInv
<1> QED BY <1>1, <1>2, <1>3 DEF FloatEtape

LEMMA AlerteNext == OpsInv /\ AlerteInv /\ [OpsNext]_opsVars => AlerteInv'
<1> SUFFICES ASSUME OpsInv, AlerteInv, [OpsNext]_opsVars PROVE AlerteInv'
  OBVIOUS
<1>1. ASSUME [Next]_vars, UNCHANGED floatVars PROVE AlerteInv'
  <2>1. AgentGarde /\ Fidele /\ solde' = solde
    BY <1>1, NextAgent, NextFidele DEF OpsInv, MetierInv
  <2> QED BY <1>1, <2>1, AlerteTient DEF floatVars
<1>2. CASE Panne
  <2>1. AgentGarde /\ Fidele /\ solde' = solde
    BY <1>2, NextAgent, NextFidele DEF OpsInv, MetierInv, Panne, Next
  <2>2. \A r \in Requetes : floatJob'[r].pc # floatJob[r].pc =>
                              floatJob'[r].pc = "perdu" /\ floatJob[r].pc # "fini"
    BY <1>2 DEF Panne, PerdreFloat, FloatActif, OpsInv, FloatInv, FloatTypeOK
  <2> QED BY <1>2, <2>1, <2>2, AlerteTient DEF Panne, PerdreFloat
<1>3. ASSUME NEW r \in Requetes, Float(r) PROVE AlerteInv'
  BY <1>3, AlerteFloat DEF Float
<1>4. ASSUME NEW r \in Requetes, Commission(r) PROVE AlerteInv'
  <2>1. AgentGarde /\ Fidele /\ solde' = solde
    BY <1>4, ComAgent, ComOps DEF Commission
  <2> QED BY <1>4, <2>1, AlerteTient DEF Commission, floatVars
<1>5. ASSUME NEW r \in Requetes, Comptabilite(r) PROVE AlerteInv'
  BY <1>1, <1>5, CptOps DEF Comptabilite
<1> QED BY <1>1, <1>2, <1>3, <1>4, <1>5 DEF OpsNext, opsVars, Next

(* An account that a debit left below its threshold has raised an alert    *)
(* once the jobs of its movements are over, whatever debits and credits    *)
(* overlapped and whatever restarts stopped.                               *)
THEOREM AlertesFideles == OpsSpec => []AlerteSeuil
<1>1. OpsInit => AlerteInv
  <2> SUFFICES ASSUME OpsInit PROVE AlerteInv
    OBVIOUS
  <2>1. \A r \in Requetes : mouvements[r] = PasDeMouvement /\ floatJob[r].pc = "repos"
    BY DEF OpsInit, FloatInit
  <2> QED BY <2>1 DEF AlerteInv, Portes, Debite, MouvementsDe
<1>2. AlerteInv => AlerteSeuil
  BY DEF AlerteInv, Debite, Surveille, AlerteSeuil, MouvementsDe
<1> QED BY <1>1, <1>2, AlerteNext, OpsToujours, PTL DEF OpsSpec
-----------------------------------------------------------------------------
(* The balances *)

(* The balances: only requests that began have movements, and they are     *)
(* finitely many, however many requests there may be.                      *)
Entamees == {r \in Requetes : req[r].pc # "repos"}

LEMMA NextEntamees ==
  ASSUME TypeInv, [Next]_vars
  PROVE  \E q : Entamees' \subseteq Entamees \cup {q}
<1>1. req \in [Requetes -> Requete]
  BY DEF TypeInv, TypeOK
<1>2. CASE UNCHANGED req
  BY <1>2 DEF Entamees
<1>3. CASE PerdreRequetes
  BY <1>1, <1>3 DEF PerdreRequetes, EnCours, Entamees
<1>4. ASSUME NEW q \in Requetes, Etape(q)
      PROVE  \E r : Entamees' \subseteq Entamees \cup {r}
  <2>1. \A r \in Requetes \ {q} : req'[r] = req[r]
    BY <1>1, <1>4 DEF Etape, LireCreation, Inserer, Lire, Completer, Annuler, Reverser, Emettre
  <2>2. Entamees' \subseteq Entamees \cup {q}
    BY <2>1 DEF Entamees
  <2> QED BY <2>2
<1> QED BY <1>2, <1>3, <1>4 DEF Next, Service, Statut, vars, Suspendre, Activer

LEMMA OpsEntamees ==
  ASSUME OpsInv, IsFiniteSet(Entamees), [OpsNext]_opsVars
  PROVE  IsFiniteSet(Entamees)'
<1>1. \E q : Entamees' \subseteq Entamees \cup {q}
  <2>1. ASSUME [Next]_vars PROVE \E q : Entamees' \subseteq Entamees \cup {q}
    BY <2>1, NextEntamees DEF OpsInv, MetierInv
  <2>2. ASSUME NEW r \in Requetes, Float(r) PROVE \E q : Entamees' \subseteq Entamees \cup {q}
    BY <2>2, FloatOps DEF Float, Restes, Entamees
  <2>3. ASSUME NEW r \in Requetes, Commission(r) PROVE \E q : Entamees' \subseteq Entamees \cup {q}
    <3>1. \A q \in Requetes \ {r} : req'[q] = req[q]
      BY <2>3 DEF Commission, ComEtape, RecalculLister, RecalculPurger, ComExistant, ComSans,
                  ComCalculer, ComInserer, ComRefleter, ComEchouer, vars, OpsInv, MetierInv,
                  TypeInv, TypeOK
    <3>2. Entamees' \subseteq Entamees \cup {r}
      BY <3>1 DEF Entamees
    <3> QED BY <3>2
  <2>4. ASSUME NEW r \in Requetes, Comptabilite(r) PROVE [Next]_vars
    BY <2>4, CptOps DEF Comptabilite
  <2> QED BY <2>1, <2>2, <2>3, <2>4 DEF OpsNext, opsVars, Next, Panne
<1>2. PICK q : Entamees' \subseteq Entamees \cup {q}
  BY <1>1
<1>3. IsFiniteSet(Entamees \cup {q})
  BY FS_AddElement
<1> QED BY <1>2, <1>3, FS_Subset

(* The movements are amounts, of requests that began.                      *)
LEMMA MontantEntier ==
  ASSUME OpsInv, NEW r \in Requetes
  PROVE  /\ MontantSigne(r) \in Int
         /\ mouvements[r] # PasDeMouvement => r \in Entamees
<1>1. mouvements[r] # PasDeMouvement => mouvements[r] \in Mouvement
  BY DEF OpsInv, FloatInv, FloatTypeOK
<1>2. ASSUME mouvements[r] \in Mouvement PROVE mouvements[r].montant \in Int
  <2>1. mouvements[r].montant \in Montants
    BY <1>2 DEF Mouvement
  <2>2. \A k \in Montants : k \in Int
    BY StoreAssumption
  <2> QED BY <2>1, <2>2
<1> QED BY <1>1, <1>2 DEF MontantSigne, Signe, OpsInv, FloatInv, Entamees

LEMMA SoldeBouger ==
  ASSUME OpsInv, Portes, IsFiniteSet(Entamees), SoldeConserve, OpsInv',
         NEW r \in Requetes, FloatCrediter(r) \/ FloatDebiter(r)
  PROVE  SoldeConserve'
<1> DEFINE b == Objet(r).agent
           m == Objet(r).montant
           f == [q \in Requetes |-> MontantSigne(q)]
           h == [q \in Requetes |-> MontantSigne(q)']
<1>1. PICK sens \in {"DEBIT", "CREDIT"} : Bouger(r, sens) /\ floatJob[r].pc = "lu"
  BY DEF FloatCrediter, FloatDebiter, FloatPasse
<1>2. b \in Agents /\ m \in Nat
  <2>1. Objet(r) \in Ligne
    BY DEF FloatCrediter, FloatDebiter, FloatDeclenche, Objet, OpsInv, MetierInv, Suivie
  <2> QED BY <2>1, StoreAssumption DEF Ligne
<1>3. mouvements[r] = PasDeMouvement
  BY <1>1 DEF Portes
<1>4. /\ mouvements'[r] # PasDeMouvement
      /\ mouvements'[r].agent = b /\ mouvements'[r].sens = sens /\ mouvements'[r].montant = m
      /\ \A q \in Requetes \ {r} : mouvements'[q] = mouvements[q]
  BY <1>1 DEF Bouger, OpsInv, FloatInv, FloatTypeOK, PasDeMouvement
<1>5. h[r] = Signe(sens, m) /\ \A q \in Requetes \ {r} : h[q] = f[q]
  BY <1>4 DEF MontantSigne
<1>6. \A q \in Requetes : f[q] \in Int /\ h[q] \in Int
  <2>1. \A q \in Requetes : f[q] \in Int
    BY MontantEntier
  <2>2. h[r] \in Int
    BY <1>2, <1>5 DEF Signe
  <2> QED BY <1>5, <2>1, <2>2
<1>7. solde \in [AvecFloat -> Int] /\ solde' = [solde EXCEPT ![b] = @ + Signe(sens, m)]
  BY <1>1 DEF Bouger, OpsInv, MetierInv, TypeInv, TypeOK, StoreTypeOK
<1> SUFFICES ASSUME NEW a \in AvecFloat
             PROVE  solde'[a] = SoldeInitial + SumFunctionOnSet(h, MouvementsDe(a)')
  BY DEF SoldeConserve, Somme
<1> DEFINE M == MouvementsDe(a)
           N == MouvementsDe(a)'
<1>8. M \subseteq Requetes /\ r \notin M /\ IsFiniteSet(M)
  <2>1. M \subseteq Requetes /\ r \notin M /\ M \subseteq Entamees
    BY <1>3, MontantEntier DEF MouvementsDe
  <2> QED BY <2>1, FS_Subset
<1>9. solde[a] = SoldeInitial + SumFunctionOnSet(f, M)
  BY DEF SoldeConserve, Somme
<1>10. SumFunctionOnSet(f, M) \in Int /\ SoldeInitial \in Int
  BY <1>6, <1>8, SommeType, StoreAssumption
<1>11. \A q \in M : f[q] \in Int /\ f[q] = h[q]
  BY <1>5, <1>6, <1>8
<1>12. SumFunctionOnSet(f, M) = SumFunctionOnSet(h, M)
  BY <1>8, <1>11, SommeEgale
<1>13. CASE a = b
  <2>1. N = M \cup {r}
    BY <1>4, <1>13 DEF MouvementsDe
  <2>2. \A q \in M \cup {r} : h[q] \in Int
    BY <1>6, <1>8
  <2>3. SumFunctionOnSet(h, N) = h[r] + SumFunctionOnSet(h, M)
    BY <1>8, <2>1, <2>2, SommeAjout
  <2>4. solde'[a] = solde[a] + Signe(sens, m)
    BY <1>7, <1>13
  <2> DEFINE s == SumFunctionOnSet(f, M)
  <2>5. s \in Int /\ solde[a] = SoldeInitial + s /\ SumFunctionOnSet(h, N) = h[r] + s
    BY <1>9, <1>10, <1>12, <2>3
  <2>6. h[r] = Signe(sens, m) /\ Signe(sens, m) \in Int
    BY <1>5, <1>6
  <2> DEFINE d == Signe(sens, m)
             n == SumFunctionOnSet(h, N)
  <2> HIDE DEF s, h, N, d, n
  <2>7. n = d + s /\ d \in Int /\ solde'[a] = solde[a] + d
    BY <2>4, <2>5, <2>6 DEF d, n
  <2>8. solde'[a] = SoldeInitial + n
    BY <1>10, <2>5, <2>7
  <2> QED BY <2>8 DEF n, N
<1>14. CASE a # b
  <2>1. N = M
    BY <1>3, <1>4, <1>14 DEF MouvementsDe
  <2>2. solde'[a] = solde[a]
    BY <1>7, <1>14
  <2> QED BY <1>9, <1>12, <2>1, <2>2
<1> QED BY <1>13, <1>14

(* The balance of a float account is the opening balance plus its          *)
(* movements, whatever jobs overlapped, were given up or were stopped.     *)
THEOREM SoldesConserves == OpsSpec => []SoldeConserve
<1> DEFINE Inv == AlerteInv /\ IsFiniteSet(Entamees) /\ SoldeConserve
<1>1. OpsInit => Inv
  <2> SUFFICES ASSUME OpsInit PROVE Inv
    OBVIOUS
  <2>1. AlerteInv
    <3>1. \A r \in Requetes : mouvements[r] = PasDeMouvement /\ floatJob[r].pc = "repos"
      BY DEF OpsInit, FloatInit
    <3> QED BY <3>1 DEF AlerteInv, Portes, Debite, MouvementsDe
  <2>2. Entamees = {} /\ \A a : MouvementsDe(a) = {}
    BY DEF OpsInit, Init, FloatInit, Entamees, MouvementsDe
  <2>3. SoldeInitial + 0 = SoldeInitial /\ \A a \in AvecFloat : solde[a] = SoldeInitial
    BY StoreAssumption DEF OpsInit, Init, StoreInit
  <2>4. Somme({}) = 0
    BY SommeVide DEF Somme
  <2> QED BY <2>1, <2>2, <2>3, <2>4, FS_EmptySet DEF SoldeConserve
<1>2. OpsInv /\ Inv /\ [OpsNext]_opsVars => Inv'
  <2> SUFFICES ASSUME OpsInv, Inv, [OpsNext]_opsVars PROVE SoldeConserve'
    BY AlerteNext, OpsEntamees
  <2>1. ASSUME UNCHANGED <<solde, mouvements>> PROVE SoldeConserve'
    BY <2>1 DEF SoldeConserve, Somme, MontantSigne, MouvementsDe
  <2>2. ASSUME [Next]_vars, UNCHANGED mouvements PROVE SoldeConserve'
    BY <2>1, <2>2, NextAgent DEF OpsInv, MetierInv
  <2>3. ASSUME NEW r \in Requetes, Float(r) PROVE SoldeConserve'
    <3>1. CASE FloatCrediter(r) \/ FloatDebiter(r)
      <4>1. OpsInv'
        BY OpsNextInv
      <4> QED BY <3>1, <4>1, SoldeBouger DEF AlerteInv
    <3>2. CASE FloatIgnorer(r) \/ FloatLire(r) \/ FloatEchouer(r) \/ FloatVerifierSeuil(r)
      BY <2>1, <3>2 DEF FloatIgnorer, FloatLire, FloatEchouer, FloatVerifierSeuil, vars
    <3> QED BY <2>3, <3>1, <3>2 DEF Float, FloatEtape
  <2>4. ASSUME NEW r \in Requetes, Commission(r) PROVE SoldeConserve'
    BY <2>1, <2>4, ComAgent DEF Commission, floatVars
  <2>5. ASSUME NEW r \in Requetes, Comptabilite(r) PROVE SoldeConserve'
    BY <2>1, <2>5, CptOps DEF Comptabilite, vars, floatVars
  <2> QED BY <2>2, <2>3, <2>4, <2>5 DEF OpsNext, opsVars, Next, Panne, PerdreFloat, floatVars
<1>3. Inv => SoldeConserve
  OBVIOUS
<1> QED BY <1>1, <1>2, <1>3, OpsToujours, PTL DEF OpsSpec

-----------------------------------------------------------------------------
(* What the service promises alone, it keeps beside its listeners *)

(* A listener's step, seen by the service: no row changes but for its      *)
(* commission, and no request but one the batch takes up.                  *)
Neutre ==
  /\ UNCHANGED <<reversals, agregats, audit, courses>>
  /\ \A t \in Lignes : \/ tx'[t] = tx[t]
                       \/ /\ tx[t] \in Ligne /\ tx'[t] \in Ligne
                          /\ tx'[t].statut = tx[t].statut /\ tx'[t].reversal = tx[t].reversal
  /\ \A q \in Requetes : \/ req'[q] = req[q]
                         \/ /\ req[q].pc = "repos"
                            /\ req'[q].pc = "emis" /\ req'[q].op = "recalculate"

LEMMA ComNeutre ==
  ASSUME OpsInv, NEW r \in Requetes, ComEtape(r)
  PROVE  Neutre
<1>1. CASE ComRefleter(r)
  <2> DEFINE u == req[r].cible
  <2>1. u \in Lignes /\ tx[u] \in Ligne /\ tx \in [Lignes -> Ligne \cup {Vide}]
    BY <1>1, ComPas DEF OpsInv, MetierInv, TypeInv, TypeOK, StoreTypeOK
  <2>2. /\ tx' = [tx EXCEPT ![u].commission = comJob[r].montant]
        /\ UNCHANGED <<reversals, agregats, audit, courses, req>>
    BY <1>1 DEF ComRefleter
  <2>3. /\ tx'[u].statut = tx[u].statut /\ tx'[u].reversal = tx[u].reversal
        /\ \A t \in Lignes \ {u} : tx'[t] = tx[t]
    BY <2>1, <2>2 DEF Ligne
  <2>4. tx'[u] \in Ligne
    BY <1>1, <2>1, ComReflet DEF Croissante
  <2> QED BY <2>1, <2>2, <2>3, <2>4 DEF Neutre
<1>2. ASSUME NEW t \in Lignes, RecalculLister(r, t) PROVE Neutre
  BY <1>2 DEF RecalculLister, Neutre, OpsInv, MetierInv, TypeInv, TypeOK
<1>3. CASE UNCHANGED <<tx, reversals, agregats, audit, courses, req>>
  BY <1>3 DEF Neutre
<1> QED BY <1>1, <1>2, <1>3 DEF ComEtape, RecalculPurger, ComExistant, ComSans, ComCalculer,
                                ComInserer, ComEchouer, vars

LEMMA OpsNeutre == OpsInv /\ [OpsNext]_opsVars => [Next]_vars \/ Neutre
<1> SUFFICES ASSUME OpsInv, [OpsNext]_opsVars PROVE [Next]_vars \/ Neutre
  OBVIOUS
<1>1. ASSUME NEW r \in Requetes, Float(r) PROVE Neutre
  BY <1>1, FloatOps DEF Float, Restes, Neutre
<1>2. ASSUME NEW r \in Requetes, Commission(r) PROVE Neutre
  BY <1>2, ComNeutre DEF Commission
<1>3. ASSUME NEW r \in Requetes, Comptabilite(r) PROVE [Next]_vars
  BY <1>3, CptOps DEF Comptabilite
<1> QED BY <1>1, <1>2, <1>3 DEF OpsNext, opsVars, Next, Panne

LEMMA NeutreService ==
  ASSUME ServiceInv, TypeInv', Neutre
  PROVE  ServiceInv'
<1>1. \A t \in Lignes : tx'[t].statut = tx[t].statut /\ tx'[t].reversal = tx[t].reversal
  BY DEF Neutre
<1>2. \A q \in reversals : q \in Requetes /\ req'[q] = req[q]
  BY ReversalPassee DEF Neutre
<1>3. \A q \in Requetes : Prete(q)' =>
        Prete(q) /\ req'[q] = req[q] /\ req[q].cible \in Lignes
  BY DEF Neutre, Prete, ServiceInv, TypeInv, CibleLa, Attendu
<1>4. Memoire'
  BY <1>1, <1>3 DEF ServiceInv, Memoire, Neutre
<1>5. reversals \subseteq Lignes
  BY <1>2 DEF Lignes
<1>6. CompensationFaite'
  BY <1>1, <1>2, <1>5 DEF ServiceInv, CompensationFaite, Neutre
<1>7. AgregatExact'
  BY <1>1 DEF ServiceInv, AgregatExact, Neutre
<1>8. LienUnUn'
  <2>1. \A t \in Lignes : tx'[t].statut = "REVERSED" =>
          tx'[t].reversal \in reversals' /\ req'[tx'[t].reversal].cible = t
    BY <1>1, <1>2 DEF ServiceInv, LienUnUn, Neutre
  <2>2. \A q \in reversals' :
          LET t == req'[q].cible
          IN  t \in courses' \/ (tx'[t].statut = "REVERSED" /\ tx'[t].reversal = q)
    BY <1>1, <1>2 DEF ServiceInv, LienUnUn, CompensationFaite, Neutre
  <2> QED BY <2>1, <2>2 DEF LienUnUn
<1> QED BY <1>4, <1>6, <1>7, <1>8 DEF ServiceInv

LEMMA CoeurService == OpsInv /\ ServiceInv /\ [OpsNext]_opsVars => ServiceInv'
<1> SUFFICES ASSUME OpsInv, ServiceInv, [OpsNext]_opsVars PROVE ServiceInv'
  OBVIOUS
<1>1. TypeInv'
  BY OpsNextInv DEF OpsInv, MetierInv
<1> QED BY <1>1, NextService, NeutreService, OpsNeutre

LEMMA ServiceToujours == OpsSpec => [](OpsInv /\ ServiceInv)
<1>1. OpsInit => ServiceInv
  BY InitService DEF OpsInit
<1> QED BY <1>1, CoeurService, OpsToujours, PTL DEF OpsSpec

(* Whatever listeners run beside the requests, the audit log tells the     *)
(* status of every transaction.                                            *)
THEOREM CoeurAudite == OpsSpec => []AuditFidele
<1>1. OpsInit => AuditFidele
  BY InitAudit DEF OpsInit
<1>2. OpsInv /\ AuditFidele /\ [OpsNext]_opsVars => AuditFidele'
  <2> SUFFICES ASSUME OpsInv, AuditFidele, [OpsNext]_opsVars PROVE AuditFidele'
    OBVIOUS
  <2>1. CASE [Next]_vars
    BY <2>1, NextAudit DEF AuditInv, OpsInv, MetierInv
  <2>2. CASE Neutre
    <3>1. \A t \in Lignes : tx'[t].statut = tx[t].statut /\ (tx[t] = Vide => tx'[t] = Vide)
      BY <2>2, VideAbsent DEF Neutre
    <3> QED BY <2>2, <3>1 DEF Neutre, AuditFidele
  <2> QED BY <2>1, <2>2, OpsNeutre
<1> QED BY <1>1, <1>2, OpsToujours, PTL DEF OpsSpec

(* With its listeners at work, whatever requests overlap, the customer's   *)
(* totals count a row as often as its audit log completes it, and          *)
(* reversals and transactions match one to one; the two double counts the  *)
(* code allows are those of the rows overlapping requests overwrote.       *)
THEOREM CoeurExact == OpsSpec => [](AgregatExact /\ LienUnUn)
<1>1. ServiceInv => AgregatExact /\ LienUnUn
  BY DEF ServiceInv
<1> QED BY <1>1, ServiceToujours, PTL

(* The service and its three listeners together implement the contract of  *)
(* transactions: a listener's step changes none of what the contract sees, *)
(* so it maps to a stutter.                                                *)
THEOREM CoeurContrat == OpsSpec => RespecteContrat
<1>1. OpsInit => Contrat!ContratInit
  BY InitContrat DEF OpsInit
<1>2. OpsInv /\ ServiceInv /\ [OpsNext]_opsVars => [Contrat!ContratNext]_(Contrat!contratVars)
  <2> SUFFICES ASSUME OpsInv, ServiceInv, [OpsNext]_opsVars
               PROVE  Contrat!ContratNext \/ UNCHANGED Contrat!contratVars
    OBVIOUS
  <2>1. CASE [Next]_vars
    BY <2>1, NextContrat
  <2>2. CASE Neutre
    <3>1. \A t \in Lignes : /\ tx'[t].statut = tx[t].statut /\ tx'[t].reversal = tx[t].reversal
                            /\ tx'[t] = Vide <=> tx[t] = Vide
      BY <2>2, VideAbsent DEF Neutre
    <3> QED BY <2>2, <3>1 DEF Neutre, Contrat!contratVars
  <2> QED BY <2>1, <2>2, OpsNeutre
<1> QED BY <1>1, <1>2, ServiceToujours, PTL DEF OpsSpec, RespecteContrat, Contrat!ContratSpec
-----------------------------------------------------------------------------
(* The requests behind each row *)

(* The requests that completed or reversed a row, in flight or emitted,    *)
(* and those that wrote one or were stopped.                               *)
Complete(r) == req[r].pc \in {"commis", "emis"} /\ req[r].op = "complete"

Reversee(r) == req[r].pc \in {"commis", "emis"} /\ req[r].op = "reverse"

Passee(r) == req[r].pc \in {"commis", "emis", "perdu"}

Faite(t) == tx[t].statut \in {"COMPLETED", "REVERSED"}

(* A row that no overlapping request overwrote was completed by one        *)
(* request at most, and shows it; every reversal is the work of the        *)
(* request it is named after.                                              *)
Liees ==
  /\ \A r \in Requetes : Complete(r) =>
       /\ req[r].cible \in Lignes \ reversals /\ tx[req[r].cible] \in Ligne
       /\ req[r].cible \notin courses => Faite(req[r].cible)
  /\ \A q, r \in Requetes :
       Complete(q) /\ Complete(r) /\ req[q].cible = req[r].cible /\ req[r].cible \notin courses
         => q = r
  /\ \A t \in Lignes \ (reversals \cup courses) : Faite(t) =>
       \E r \in Requetes : req[r].cible = t /\ req[r].op = "complete" /\ Passee(r)
  /\ \A q \in reversals : q \in Requetes /\ req[q].op = "reverse" /\ Passee(q)
  /\ \A r \in Requetes : Reversee(r) => r \in reversals

(* What a request that wrote goes through.                                 *)
Suite ==
  \A r \in Requetes : Passee(r) =>
    Passee(r)' /\ req'[r].op = req[r].op /\ req'[r].cible = req[r].cible

LEMMA NextSuite == TypeInv /\ [Next]_vars => Suite
<1> SUFFICES ASSUME TypeInv, [Next]_vars, NEW r \in Requetes, Passee(r)
             PROVE  Passee(r)' /\ req'[r].op = req[r].op /\ req'[r].cible = req[r].cible
  BY DEF Suite
<1>1. req \in [Requetes -> Requete]
  BY DEF TypeInv, TypeOK
<1>2. CASE UNCHANGED req
  BY <1>2 DEF Passee
<1>3. CASE PerdreRequetes
  BY <1>1, <1>3 DEF PerdreRequetes, EnCours, Requete, Passee
<1>4. ASSUME NEW q \in Requetes, Etape(q)
      PROVE  Passee(r)' /\ req'[r].op = req[r].op /\ req'[r].cible = req[r].cible
  <2>1. CASE q # r
    <3>1. req'[r] = req[r]
      BY <1>1, <1>4, <2>1 DEF Etape, LireCreation, Inserer, Lire, Completer, Annuler, Reverser,
                              Emettre
    <3> QED BY <3>1 DEF Passee
  <2>2. CASE q = r
    <3>1. Emettre(r)
      BY <1>4, <2>2 DEF Passee, Etape, LireCreation, Inserer, Lire, Completer, Annuler, Reverser,
                        Ecrit
    <3> QED BY <1>1, <3>1 DEF Emettre, Passee
  <2> QED BY <2>1, <2>2
<1> QED BY <1>2, <1>3, <1>4 DEF Next, Service, Statut, vars, Suspendre, Activer

(* Steps that complete and reverse nothing.                                *)
LEMMA LieesReste ==
  ASSUME Liees, Suite, reversals' = reversals, courses \subseteq courses',
         \A t \in Lignes : tx[t] \in Ligne => tx'[t] \in Ligne,
         \A r \in Requetes : Complete(r)' => Complete(r),
         \A r \in Requetes : Reversee(r)' => Reversee(r),
         \A t \in Lignes : \/ tx'[t].statut = tx[t].statut
                           \/ ~ Faite(t) /\ ~ Faite(t)'
                           \/ t \in courses'
  PROVE  Liees'
<1>1. \A r \in Requetes : Complete(r)' => req'[r].cible = req[r].cible /\ Complete(r)
  BY DEF Suite, Complete, Passee
<1>2. \A t \in Lignes \ courses' : Faite(t)' <=> Faite(t)
  BY DEF Faite
<1>3. \A r \in Requetes : Complete(r)' =>
        /\ req'[r].cible \in Lignes \ reversals' /\ tx'[req'[r].cible] \in Ligne
        /\ req'[r].cible \notin courses' => Faite(req[r].cible)'
  BY <1>1, <1>2 DEF Liees
<1>4. \A q, r \in Requetes :
        Complete(q)' /\ Complete(r)' /\ req'[q].cible = req'[r].cible /\ req'[r].cible \notin courses'
          => q = r
  BY <1>1 DEF Liees
<1>5. \A t \in Lignes \ (reversals' \cup courses') : Faite(t)' =>
        \E r \in Requetes : req'[r].cible = t /\ req'[r].op = "complete" /\ Passee(r)'
  BY <1>2 DEF Liees, Suite
<1>6. \A q \in reversals' : q \in Requetes /\ req'[q].op = "reverse" /\ Passee(q)'
  BY DEF Liees, Suite
<1>7. \A r \in Requetes : Reversee(r)' => r \in reversals'
  BY DEF Liees
<1> QED BY <1>1, <1>3, <1>4, <1>5, <1>6, <1>7 DEF Liees, Faite

LEMMA CompleterLiees ==
  ASSUME ServiceInv, Liees, Suite, NEW r \in Requetes, NEW t \in Lignes, Completer(r, t)
  PROVE  Liees'
<1>1. /\ req[r].vu = "PENDING" /\ tx[t] \in Ligne /\ t \notin reversals
      /\ req \in [Requetes -> Requete] /\ tx \in [Lignes -> Ligne \cup {Vide}]
  BY EcritSait DEF Completer, Attendu, ServiceInv, TypeInv, TypeOK, StoreTypeOK
<1>2. /\ tx'[t].statut = "COMPLETED" /\ tx'[t] \in Ligne
      /\ \A u \in Lignes \ {t} : tx'[u] = tx[u]
      /\ reversals' = reversals /\ courses \subseteq courses'
      /\ t \notin courses' => tx[t].statut = "PENDING"
  BY <1>1, EcrireCroit DEF Completer, Noter, Ligne, Croissante, ServiceInv
<1>3. /\ req'[r].cible = t /\ req'[r].op = "complete" /\ req'[r].pc = "commis"
      /\ req[r].pc = "lu"
      /\ \A q \in Requetes \ {r} : req'[q] = req[q]
  BY <1>1 DEF Completer, Ecrit, Requete
<1>4. \A q \in Requetes \ {r} : Complete(q)' = Complete(q) /\ Reversee(q)' = Reversee(q)
  BY <1>3 DEF Complete, Reversee
<1>5. \A q \in Requetes : Complete(q)' =>
        /\ req'[q].cible \in Lignes \ reversals' /\ tx'[req'[q].cible] \in Ligne
        /\ req'[q].cible \notin courses' => tx'[req'[q].cible].statut \in {"COMPLETED", "REVERSED"}
  BY <1>1, <1>2, <1>3, <1>4 DEF Liees, Faite
<1>6. t \notin courses' => \A q \in Requetes \ {r} : Complete(q) => req[q].cible # t
  BY <1>2 DEF Liees, Faite
<1>7. \A q, p \in Requetes :
        Complete(q)' /\ Complete(p)' /\ req'[q].cible = req'[p].cible /\ req'[p].cible \notin courses'
          => q = p
  BY <1>2, <1>3, <1>4, <1>6 DEF Liees
<1>8. \A u \in Lignes \ (reversals' \cup courses') : tx'[u].statut \in {"COMPLETED", "REVERSED"} =>
        \E q \in Requetes : req'[q].cible = u /\ req'[q].op = "complete" /\ Passee(q)'
  <2>1. Passee(r)'
    BY <1>3 DEF Passee
  <2> QED BY <1>2, <1>3, <2>1 DEF Liees, Suite, Faite
<1>9. \A q \in reversals' : q \in Requetes /\ req'[q].op = "reverse" /\ Passee(q)'
  BY <1>2 DEF Liees, Suite
<1>10. \A q \in Requetes : Reversee(q)' => q \in reversals'
  BY <1>2, <1>3, <1>4 DEF Liees, Reversee
<1> QED BY <1>5, <1>7, <1>8, <1>9, <1>10 DEF Liees, Faite

LEMMA ReverserLiees ==
  ASSUME ServiceInv, Liees, Suite, NEW r \in Requetes, NEW t \in Lignes, Reverser(r, t)
  PROVE  Liees'
<1>1. /\ req[r].vu = "COMPLETED" /\ tx[t] \in Ligne /\ tx[r] = Vide /\ t # r /\ r \in Lignes
      /\ req \in [Requetes -> Requete] /\ tx \in [Lignes -> Ligne \cup {Vide}]
  BY EcritSait DEF Reverser, Attendu, ServiceInv, TypeInv, TypeOK, StoreTypeOK
<1>2. /\ tx'[t].statut = "REVERSED"
      /\ \A u \in Lignes \ {t, r} : tx'[u] = tx[u]
      /\ reversals' = reversals \cup {r} /\ courses \subseteq courses'
      /\ t \notin courses' => tx[t].statut = "COMPLETED"
  BY <1>1 DEF Reverser, Noter, Ligne
<1>3. /\ req'[r].cible = t /\ req'[r].op = "reverse" /\ req'[r].pc = "commis"
      /\ req[r].pc = "lu"
      /\ \A q \in Requetes \ {r} : req'[q] = req[q]
  BY <1>1 DEF Reverser, Ecrit, Requete
<1>4. /\ ~ Complete(r)'
      /\ \A q \in Requetes \ {r} : Complete(q)' = Complete(q) /\ Reversee(q)' = Reversee(q)
  BY <1>3 DEF Complete, Reversee
<1>5. \A q \in Requetes \ {r} : Complete(q) => req[q].cible \in Lignes \ {r}
  BY <1>1, VideAbsent DEF Liees
<1>6. tx'[t] \in Ligne
  BY <1>1, EcrireCroit DEF Croissante, ServiceInv
<1>7. \A q \in Requetes : Complete(q)' =>
        /\ req'[q].cible \in Lignes \ reversals' /\ tx'[req'[q].cible] \in Ligne
        /\ req'[q].cible \notin courses' => tx'[req'[q].cible].statut \in {"COMPLETED", "REVERSED"}
  <2> SUFFICES ASSUME NEW q \in Requetes, Complete(q)'
               PROVE  /\ req'[q].cible \in Lignes \ reversals' /\ tx'[req'[q].cible] \in Ligne
                      /\ req'[q].cible \notin courses' =>
                           tx'[req'[q].cible].statut \in {"COMPLETED", "REVERSED"}
    OBVIOUS
  <2>1. q # r /\ Complete(q) /\ req'[q] = req[q] /\ req[q].cible \in Lignes \ {r}
    BY <1>3, <1>4, <1>5
  <2>2. /\ req[q].cible \notin reversals /\ tx[req[q].cible] \in Ligne
        /\ req[q].cible \notin courses => Faite(req[q].cible)
    BY <2>1 DEF Liees
  <2>3. CASE req[q].cible = t
    BY <1>2, <1>6, <2>1, <2>2, <2>3
  <2>4. CASE req[q].cible # t
    BY <1>2, <2>1, <2>2, <2>4 DEF Faite
  <2> QED BY <2>3, <2>4
<1>8. \A q, p \in Requetes :
        Complete(q)' /\ Complete(p)' /\ req'[q].cible = req'[p].cible /\ req'[p].cible \notin courses'
          => q = p
  BY <1>2, <1>3, <1>4 DEF Liees
<1>9. \A u \in Lignes \ (reversals' \cup courses') : tx'[u].statut \in {"COMPLETED", "REVERSED"} =>
        \E q \in Requetes : req'[q].cible = u /\ req'[q].op = "complete" /\ Passee(q)'
  BY <1>1, <1>2 DEF Liees, Suite, Faite
<1>10. \A q \in reversals' : q \in Requetes /\ req'[q].op = "reverse" /\ Passee(q)'
  <2>1. Passee(r)'
    BY <1>3 DEF Passee
  <2> QED BY <1>2, <1>3, <2>1 DEF Liees, Suite
<1>11. \A q \in Requetes : Reversee(q)' => q \in reversals'
  BY <1>2, <1>4 DEF Liees
<1> QED BY <1>7, <1>8, <1>9, <1>10, <1>11 DEF Liees, Faite

LEMMA NextLiees ==
  ASSUME ServiceInv, Liees, [Next]_vars
  PROVE  Liees'
<1>1. /\ Suite /\ TypeInv /\ req \in [Requetes -> Requete] /\ tx \in [Lignes -> Ligne \cup {Vide}]
      /\ \A t \in Lignes : tx[t] \in Ligne => tx'[t] \in Ligne
  BY NextSuite, NextCroit DEF ServiceInv, TypeInv, TypeOK, StoreTypeOK, Croissante
<1>2. ASSUME UNCHANGED <<tx, reversals, courses>>,
             \A r \in Requetes : \/ req'[r].pc = req[r].pc /\ req'[r].op = req[r].op
                                 \/ req'[r].pc \notin {"commis", "emis"}
                                 \/ req[r].pc = "commis" /\ req'[r].op = req[r].op
      PROVE  Liees'
  <2>1. \A r \in Requetes : (Complete(r)' => Complete(r)) /\ (Reversee(r)' => Reversee(r))
    BY <1>2 DEF Complete, Reversee
  <2> QED BY <1>1, <1>2, <2>1, LieesReste
<1>3. CASE UNCHANGED <<tx, reversals, courses, req>>
  BY <1>2, <1>3
<1>4. CASE PerdreRequetes
  BY <1>1, <1>2, <1>4 DEF PerdreRequetes, EnCours, Requete
<1>5. ASSUME NEW r \in Requetes,
             \/ \E ty \in Types, a \in Agents, m \in Montants : LireCreation(r, ty, a, m)
             \/ \E op \in DOMAIN Attendu, t \in Lignes : Lire(r, op, t)
             \/ Emettre(r)
      PROVE  Liees'
  <2>1. UNCHANGED <<tx, reversals, courses>> /\ \A q \in Requetes \ {r} : req'[q] = req[q]
    BY <1>1, <1>5 DEF LireCreation, Lire, Emettre
  <2>2. req'[r].pc \notin {"commis", "emis"} \/ (req[r].pc = "commis" /\ req'[r].op = req[r].op)
    BY <1>1, <1>5 DEF LireCreation, Lire, Emettre, Requete
  <2> QED BY <1>2, <2>1, <2>2
<1>6. ASSUME NEW r \in Requetes, Inserer(r) PROVE Liees'
  <2>1. /\ tx[r] = Vide /\ r \in Lignes /\ tx'[r].statut = "PENDING"
        /\ \A u \in Lignes \ {r} : tx'[u] = tx[u]
        /\ reversals' = reversals /\ courses' = courses
        /\ req'[r].pc = "fini" /\ \A q \in Requetes \ {r} : req'[q] = req[q]
    BY <1>1, <1>6 DEF Inserer, Requete, TypeInv, Frais, CreationPrete, Lignes
  <2>2. \A q \in Requetes : (Complete(q)' => Complete(q)) /\ (Reversee(q)' => Reversee(q))
    BY <2>1 DEF Complete, Reversee
  <2>3. ~ Faite(r) /\ ~ Faite(r)'
    BY <2>1, VideAbsent DEF Faite
  <2> QED BY <1>1, <2>1, <2>2, <2>3, LieesReste
<1>7. ASSUME NEW r \in Requetes, NEW t \in Lignes, Annuler(r, t) PROVE Liees'
  <2>1. req[r].vu = "PENDING" /\ tx[t] \in Ligne
    BY <1>7, EcritSait DEF Annuler, Attendu
  <2>2. /\ tx'[t].statut = "CANCELLED" /\ \A u \in Lignes \ {t} : tx'[u] = tx[u]
        /\ reversals' = reversals /\ courses \subseteq courses'
        /\ t \notin courses' => tx[t].statut = "PENDING"
        /\ req'[r].pc = "fini" /\ \A q \in Requetes \ {r} : req'[q] = req[q]
    BY <1>1, <1>7, <2>1 DEF Annuler, Noter, Requete, Ligne
  <2>3. \A q \in Requetes : (Complete(q)' => Complete(q)) /\ (Reversee(q)' => Reversee(q))
    BY <2>2 DEF Complete, Reversee
  <2>4. t \notin courses' => ~ Faite(t) /\ ~ Faite(t)'
    BY <2>1, <2>2 DEF Faite
  <2> QED BY <1>1, <2>2, <2>3, <2>4, LieesReste
<1>8. ASSUME NEW r \in Requetes, NEW t \in Lignes, Completer(r, t) \/ Reverser(r, t) PROVE Liees'
  BY <1>1, <1>8, CompleterLiees, ReverserLiees
<1> QED BY <1>3, <1>4, <1>5, <1>6, <1>7, <1>8
        DEF Next, Service, Statut, Etape, vars, Suspendre, Activer

LEMMA OpsLiees ==
  ASSUME OpsInv, ServiceInv, Liees, [OpsNext]_opsVars
  PROVE  Liees'
<1>1. CASE [Next]_vars
  BY <1>1, NextLiees
<1>2. CASE Neutre
  <2>1. Suite /\ \A q \in Requetes : (Complete(q)' => Complete(q)) /\ (Reversee(q)' => Reversee(q))
    BY <1>2 DEF Neutre, Suite, Passee, Complete, Reversee
  <2>2. /\ \A t \in Lignes : tx[t] \in Ligne => tx'[t] \in Ligne
        /\ \A t \in Lignes : tx'[t].statut = tx[t].statut
        /\ UNCHANGED <<reversals, courses>>
    BY <1>2 DEF Neutre
  <2> QED BY <2>1, <2>2, LieesReste
<1> QED BY <1>1, <1>2, OpsNeutre

LEMMA InitLiees == OpsInit => Liees
<1> SUFFICES ASSUME OpsInit PROVE Liees
  OBVIOUS
<1>1. \A r \in Requetes : req[r].pc = "repos"
  BY DEF OpsInit, Init
<1>2. \A t \in Lignes : ~ Faite(t)
  BY NouvelleLigne, VideAbsent DEF OpsInit, Init, StoreInit, Faite
<1>3. reversals = {}
  BY DEF OpsInit, Init, StoreInit
<1> QED BY <1>1, <1>2, <1>3 DEF Liees, Complete, Reversee
-----------------------------------------------------------------------------
(* The float *)

(* What the float listener has done: jobs are for events, a movement has   *)
(* the sense and the amount its event calls for, and a job that is over    *)
(* has recorded one, when one is called for.                               *)
FloatLivre ==
  /\ \A r \in Requetes : floatJob[r].pc # "repos" => FloatDeclenche(r)
  /\ \A r \in Requetes : mouvements[r] # PasDeMouvement =>
       mouvements[r].sens = Sens(r) /\ mouvements[r].montant = Objet(r).montant
  /\ \A r \in Requetes : floatJob[r].pc = "fini" /\ Sens(r) # "AUCUN" =>
       mouvements[r] # PasDeMouvement

(* An event keeps its sense and its amount.                                *)
LEMMA SensGarde ==
  ASSUME OpsInv, Croissante, Fidele, NEW r \in Requetes, FloatDeclenche(r)
  PROVE  FloatDeclenche(r)' /\ Sens(r)' = Sens(r) /\ Objet(r)'.montant = Objet(r).montant
<1>1. /\ req'[r].cible = req[r].cible /\ req'[r].op = req[r].op /\ req'[r].pc = "emis"
      /\ req[r].cible \in Lignes /\ tx[req[r].cible] \in Ligne
  BY DEF OpsInv, MetierInv, Suivie, Fidele, FloatDeclenche
<1>2. Objet(r)'.type = Objet(r).type /\ Objet(r)'.montant = Objet(r).montant
  BY <1>1 DEF Croissante, Objet
<1> QED BY <1>1, <1>2 DEF FloatDeclenche, Sens

(* A step of the others, or a restart: the jobs in flight may stop.        *)
LEMMA FloatLivreTient ==
  ASSUME OpsInv, Croissante, Fidele, FloatLivre, mouvements' = mouvements,
         \A r \in Requetes : floatJob'[r].pc # floatJob[r].pc =>
                               floatJob'[r].pc = "perdu" /\ FloatDeclenche(r)
  PROVE  FloatLivre'
<1>1. \A r \in Requetes : mouvements[r] # PasDeMouvement => FloatDeclenche(r)
  BY DEF OpsInv, FloatInv, FloatDeclenche
<1>2. \A r \in Requetes : floatJob'[r].pc # "repos" => FloatDeclenche(r)
  BY DEF FloatLivre
<1> QED BY <1>1, <1>2, SensGarde DEF FloatLivre

LEMMA FloatLivreEtape ==
  ASSUME OpsInv, Portes, FloatLivre, NEW r \in Requetes, FloatEtape(r)
  PROVE  FloatLivre'
<1>1. /\ FloatDeclenche(r) /\ UNCHANGED Restes
      /\ mouvements \in [Requetes -> Mouvement \cup {PasDeMouvement}]
      /\ floatJob \in [Requetes -> [pc: {"repos", "lu", "ecrit", "fini", "echec", "perdu"},
                                    soldeAvant: Int]]
  BY FloatOps DEF FloatEtape, FloatIgnorer, FloatLire, FloatEchouer, FloatCrediter, FloatDebiter,
                  FloatVerifierSeuil, OpsInv, FloatInv, FloatTypeOK
<1>2. \A q \in Requetes : /\ FloatDeclenche(q)' = FloatDeclenche(q)
                          /\ Sens(q)' = Sens(q) /\ Objet(q)' = Objet(q)
  BY <1>1 DEF Restes, FloatDeclenche, Sens, Objet
<1>3. \A q \in Requetes \ {r} : floatJob'[q] = floatJob[q] /\ mouvements'[q] = mouvements[q]
  BY <1>1 DEF FloatEtape, FloatIgnorer, FloatLire, FloatEchouer, FloatCrediter, FloatDebiter,
              FloatVerifierSeuil, FloatPasse, Bouger
<1>4. ASSUME NEW sens \in {"DEBIT", "CREDIT"}, Bouger(r, sens), Sens(r) = sens PROVE FloatLivre'
  <2>1. /\ mouvements'[r] # PasDeMouvement
        /\ mouvements'[r].sens = Sens(r) /\ mouvements'[r].montant = Objet(r).montant
    BY <1>1, <1>4 DEF Bouger, PasDeMouvement
  <2> QED BY <1>1, <1>2, <1>3, <2>1 DEF FloatLivre
<1>5. CASE FloatCrediter(r) \/ FloatDebiter(r)
  BY <1>4, <1>5 DEF FloatCrediter, FloatDebiter
<1>6. CASE FloatIgnorer(r) \/ FloatLire(r) \/ FloatEchouer(r) \/ FloatVerifierSeuil(r)
  <2>1. /\ mouvements' = mouvements
        /\ floatJob'[r].pc = "fini" /\ Sens(r) # "AUCUN" => mouvements[r] # PasDeMouvement
    BY <1>1, <1>6 DEF FloatIgnorer, FloatLire, FloatEchouer, FloatVerifierSeuil, FloatPasse, Portes
  <2> QED BY <1>1, <1>2, <1>3, <2>1 DEF FloatLivre
<1> QED BY <1>5, <1>6 DEF FloatEtape

LEMMA FloatLivreNext ==
  ASSUME OpsInv, Portes, FloatLivre, [OpsNext]_opsVars
  PROVE  FloatLivre'
<1>1. ASSUME [Next]_vars, mouvements' = mouvements,
             \A r \in Requetes : floatJob'[r].pc # floatJob[r].pc =>
                                   floatJob'[r].pc = "perdu" /\ FloatDeclenche(r)
      PROVE  FloatLivre'
  BY <1>1, NextCroit, NextFidele, FloatLivreTient DEF OpsInv, MetierInv
<1>2. CASE Panne
  <2>1. \A r \in Requetes : floatJob'[r].pc # floatJob[r].pc =>
                              floatJob'[r].pc = "perdu" /\ FloatDeclenche(r)
    BY <1>2 DEF Panne, PerdreFloat, FloatActif, OpsInv, FloatInv, FloatTypeOK
  <2> QED BY <1>1, <1>2, <2>1 DEF Panne, PerdreFloat, Next
<1>3. ASSUME NEW r \in Requetes, Float(r) PROVE FloatLivre'
  BY <1>3, FloatLivreEtape DEF Float
<1>4. ASSUME NEW r \in Requetes, Commission(r) PROVE FloatLivre'
  BY <1>4, ComOps, FloatLivreTient DEF Commission, floatVars
<1>5. ASSUME NEW r \in Requetes, Comptabilite(r) PROVE [Next]_vars
  BY <1>5, CptOps DEF Comptabilite
<1> QED BY <1>1, <1>2, <1>3, <1>4, <1>5 DEF OpsNext, opsVars, floatVars, Next, Comptabilite

(* A movement is the one its event calls for.                              *)
LEMMA MouvementValeur ==
  ASSUME OpsInv, FloatLivre, NEW r \in Requetes, mouvements[r] # PasDeMouvement
  PROVE  /\ req[r].pc = "emis" /\ req[r].op \in {"complete", "reverse"}
         /\ Sens(r) # "AUCUN" /\ MontantSigne(r) = Signe(Sens(r), Objet(r).montant)
<1>1. mouvements[r] \in Mouvement
  BY DEF OpsInv, FloatInv, FloatTypeOK
<1>2. mouvements[r].sens # "AUCUN"
  BY <1>1 DEF Mouvement
<1> QED BY <1>2 DEF FloatLivre, MontantSigne, OpsInv, FloatInv

(* A completion and a reversal of one amount are opposite on the types     *)
(* completions move; on the others only reversals move the float.          *)
LEMMA SensOpposes ==
  ASSUME NEW ty, NEW m \in Nat
  PROVE  /\ SensCompletion(ty) # "AUCUN" <=> ty \in TypesDebit \cup TypesCredit
         /\ SensReversal(ty) # "AUCUN"
         /\ Signe(SensCompletion(ty), m) \in Int /\ Signe(SensReversal(ty), m) \in Int
         /\ ty \in TypesDebit \cup TypesCredit =>
              Signe(SensReversal(ty), m) = 0 - Signe(SensCompletion(ty), m)
         /\ ty \notin TypesDebit \cup TypesCredit => Signe(SensReversal(ty), m) = 0 - m
BY DEF SensCompletion, SensReversal, TypesDebit, TypesCredit, Signe

LEMMA LigneConnue ==
  ASSUME OpsInv, NEW t \in Lignes, tx[t] # Vide
  PROVE  tx[t] \in Ligne /\ tx[t].montant \in Nat \ {0} /\ tx[t].type \in TypesFR
<1>1. tx[t] \in Ligne
  BY DEF OpsInv, MetierInv, TypeInv, TypeOK, StoreTypeOK
<1>2. \A k \in Montants : k \in Nat \ {0}
  BY StoreAssumption
<1> QED BY <1>1, <1>2 DEF Ligne

(* The requests about a row are finitely many.                             *)
Concernees(t) == {r \in Requetes : req[r].cible = t}

LEMMA ConcerneesFinies ==
  ASSUME OpsInv, IsFiniteSet(Entamees), NEW t \in Lignes
  PROVE  IsFiniteSet(Concernees(t)) /\ Concernees(t) \subseteq Requetes
<1>1. Aucun \notin Lignes
  BY StoreAssumption DEF Lignes
<1>2. Concernees(t) \subseteq Entamees
  BY <1>1 DEF Concernees, Entamees, OpsInv, MetierInv, Suivie
<1> QED BY <1>2, FS_Subset DEF Concernees

(* The movements of a row add up to its completions less its reversals.    *)
LEMMA EffetCompte ==
  ASSUME OpsInv, IsFiniteSet(Entamees), FloatLivre, NEW t \in Lignes, tx[t] # Vide
  PROVE  EffetNet(t) = IF tx[t].type \in TypesDebit \cup TypesCredit
                       THEN (Cardinality(Appliques("complete", t))
                               - Cardinality(Appliques("reverse", t)))
                              * Signe(SensCompletion(tx[t].type), tx[t].montant)
                       ELSE 0 - Cardinality(Appliques("reverse", t)) * tx[t].montant
<1> DEFINE S == Concernees(t)
           C == Appliques("complete", t)
           D == Appliques("reverse", t)
           f == [r \in Requetes |-> MontantSigne(r)]
           m == tx[t].montant
           ty == tx[t].type
           c == Signe(SensCompletion(ty), m)
           d == Signe(SensReversal(ty), m)
<1>1. m \in Nat /\ c \in Int /\ d \in Int
  BY LigneConnue, SensOpposes
<1>2. IsFiniteSet(S) /\ S \subseteq Requetes /\ EffetNet(t) = SumFunctionOnSet(f, S)
  BY ConcerneesFinies DEF EffetNet, Somme, Concernees
<1>3. C \in SUBSET S /\ D \in SUBSET S /\ C \cap D = {}
  BY DEF Appliques, Concernees
<1>4. /\ \A r \in C : f[r] = c /\ SensCompletion(ty) # "AUCUN"
      /\ \A r \in D : f[r] = d
      /\ \A r \in S \ (C \cup D) : f[r] = 0
  <2>1. \A r \in S : f[r] = MontantSigne(r) /\ req[r].cible = t
    BY <1>2 DEF Concernees
  <2>2. \A r \in C \cup D : /\ Sens(r) # "AUCUN"
                            /\ MontantSigne(r) = Signe(Sens(r), Objet(r).montant)
    BY MouvementValeur DEF Appliques
  <2>3. \A r \in C : Sens(r) = SensCompletion(ty) /\ Objet(r).montant = m
    BY DEF Sens, Objet, Appliques
  <2>4. \A r \in D : Sens(r) = SensReversal(ty) /\ Objet(r).montant = m
    BY DEF Sens, Objet, Appliques
  <2>5. \A r \in S \ (C \cup D) : mouvements[r] = PasDeMouvement
    BY MouvementValeur DEF Appliques, Concernees
  <2>6. \A r \in S \ (C \cup D) : f[r] = 0
    BY <2>1, <2>5 DEF MontantSigne
  <2> QED BY <1>3, <2>1, <2>2, <2>3, <2>4, <2>6
<1>5. Cardinality(C) \in Nat /\ Cardinality(D) \in Nat
  BY <1>2, <1>3, FS_Subset, FS_CardinalityType
<1> DEFINE n == Cardinality(C)
           k == Cardinality(D)
<1>6. EffetNet(t) = n * c + k * d
  <2> HIDE DEF f, S, C, D, c, d
  <2>1. SumFunctionOnSet(f, S) = Cardinality(C) * c + Cardinality(D) * d
    BY <1>1, <1>2, <1>3, <1>4, SommeDeux
  <2> QED BY <1>2, <2>1
<1>7. n = 0 \/ ty \in TypesDebit \cup TypesCredit
  <2>1. C # {} => SensCompletion(ty) # "AUCUN"
    BY <1>4
  <2>2. C = {} => n = 0
    BY FS_EmptySet
  <2> QED BY <1>1, <2>1, <2>2, SensOpposes
<1>8. CASE ty \in TypesDebit \cup TypesCredit
  <2>1. d = 0 - c
    BY <1>1, <1>8, SensOpposes
  <2> HIDE DEF n, k, c, d
  <2>2. n * c + k * d = (n - k) * c
    BY <1>1, <1>5, <2>1 DEF n, k
  <2>3. EffetNet(t) = (n - k) * c
    BY <1>6, <2>2
  <2> QED BY <1>8, <2>3 DEF n, k, c
<1>9. CASE ty \notin TypesDebit \cup TypesCredit
  <2>1. d = 0 - m /\ n = 0
    BY <1>1, <1>7, <1>9, SensOpposes
  <2> HIDE DEF n, k, c, d, m
  <2>2. n * c + k * d = 0 - k * m
    BY <1>1, <1>5, <2>1 DEF n, k
  <2>3. EffetNet(t) = 0 - k * m
    BY <1>6, <2>2
  <2> QED BY <1>9, <2>3 DEF k, m
<1> QED BY <1>8, <1>9

(* A row no overlapping request overwrote has moved for its completion, if *)
(* it has one and its type moves the float, ...                            *)
LEMMA CompletionUne ==
  ASSUME OpsInv, FloatLivre, Liees, NEW t \in Lignes \ courses, NEW r \in Appliques("complete", t)
  PROVE  /\ Appliques("complete", t) = {r} /\ Cardinality(Appliques("complete", t)) = 1
         /\ t \notin reversals /\ Faite(t) /\ tx[t].type \in TypesDebit \cup TypesCredit
<1>1. \A q \in Appliques("complete", t) : q \in Requetes /\ Complete(q) /\ req[q].cible = t
  BY MouvementValeur DEF Appliques, Complete
<1>2. Appliques("complete", t) = {r}
  BY <1>1 DEF Liees
<1>3. t \notin reversals /\ Faite(t) /\ tx[t] \in Ligne
  BY <1>1 DEF Liees
<1>4. Sens(r) = SensCompletion(tx[t].type) /\ Sens(r) # "AUCUN"
  BY MouvementValeur DEF Appliques, Sens, Objet
<1>5. tx[t].type \in TypesDebit \cup TypesCredit
  BY <1>4 DEF SensCompletion
<1> QED BY <1>2, <1>3, <1>5, FS_Singleton

(* ... and for its reversal, if it has one.                                *)
LEMMA ReversalUne ==
  ASSUME OpsInv, FloatLivre, ServiceInv, Liees, NEW t \in Lignes \ courses,
         NEW r \in Appliques("reverse", t)
  PROVE  /\ Cardinality(Appliques("reverse", t)) = 1
         /\ tx[t].statut = "REVERSED"
<1>1. \A q \in Appliques("reverse", t) : q \in Requetes /\ Reversee(q) /\ req[q].cible = t
  BY MouvementValeur DEF Appliques, Reversee
<1>2. \A q \in Appliques("reverse", t) : tx[t].statut = "REVERSED" /\ tx[t].reversal = q
  BY <1>1 DEF Liees, ServiceInv, LienUnUn
<1>3. Appliques("reverse", t) = {r}
  BY <1>2
<1> QED BY <1>2, <1>3, FS_Singleton

(* What the float theorems need.                                           *)
EffetInv == ServiceInv /\ AlerteInv /\ IsFiniteSet(Entamees) /\ Liees /\ FloatLivre

LEMMA EffetToujours == OpsSpec => [](OpsInv /\ EffetInv)
<1>1. OpsInit => EffetInv
  <2> SUFFICES ASSUME OpsInit PROVE EffetInv
    OBVIOUS
  <2>1. \A r \in Requetes : mouvements[r] = PasDeMouvement /\ floatJob[r].pc = "repos"
    BY DEF OpsInit, FloatInit
  <2>2. AlerteInv /\ FloatLivre
    BY <2>1 DEF AlerteInv, Portes, Debite, MouvementsDe, FloatLivre
  <2>3. IsFiniteSet(Entamees)
    <3>1. Entamees = {}
      BY DEF OpsInit, Init, Entamees
    <3> QED BY <3>1, FS_EmptySet
  <2>4. ServiceInv /\ Liees
    BY InitService, InitLiees DEF OpsInit
  <2> QED BY <2>2, <2>3, <2>4 DEF EffetInv
<1>2. OpsInv /\ EffetInv /\ [OpsNext]_opsVars => EffetInv'
  <2> SUFFICES ASSUME OpsInv, EffetInv, [OpsNext]_opsVars PROVE EffetInv'
    OBVIOUS
  <2>1. ServiceInv' /\ Liees' /\ FloatLivre' /\ IsFiniteSet(Entamees)'
    BY CoeurService, OpsLiees, FloatLivreNext, OpsEntamees DEF EffetInv, AlerteInv
  <2>2. AlerteInv'
    BY AlerteNext DEF EffetInv
  <2> QED BY <2>1, <2>2 DEF EffetInv
<1> QED BY <1>1, <1>2, OpsToujours, PTL DEF OpsSpec

(* The movements of a row are its completions less its reversals, whatever *)
(* overlaps, fails or is lost; a row no overlapping request overwrote has  *)
(* moved at most what its status says, and exactly that when every job     *)
(* about it has ended well.                                                *)
THEOREM EffetsFideles == OpsSpec => []EffetFidele
<1>1. OpsInv /\ EffetInv => EffetFidele
  <2> SUFFICES ASSUME OpsInv, EffetInv, NEW t \in Lignes, tx[t] # Vide, t \notin courses
               PROVE  LET l == tx[t]
                          mobile == l.type \in TypesDebit \cup TypesCredit
                          faits == Cardinality(Appliques("complete", t))
                          defaits == Cardinality(Appliques("reverse", t))
                          aFaire == IF mobile /\ t \notin reversals
                                       /\ l.statut \in {"COMPLETED", "REVERSED"} THEN 1 ELSE 0
                          aDefaire == IF l.statut = "REVERSED" THEN 1 ELSE 0
                      IN  /\ faits <= aFaire /\ defaits <= aDefaire
                          /\ FloatRegle(t) => faits = aFaire /\ defaits = aDefaire
    BY EffetCompte DEF EffetFidele, EffetInv
  <2> DEFINE mobile == tx[t].type \in TypesDebit \cup TypesCredit
             C == Appliques("complete", t)
             D == Appliques("reverse", t)
             aFaire == IF mobile /\ t \notin reversals /\ Faite(t) THEN 1 ELSE 0
             aDefaire == IF tx[t].statut = "REVERSED" THEN 1 ELSE 0
  <2>1. \/ C = {} /\ Cardinality(C) = 0
        \/ C # {} /\ Cardinality(C) = 1 /\ aFaire = 1
    <3>1. CASE C = {}
      BY <3>1, FS_EmptySet
    <3>2. CASE C # {}
      <4>1. PICK r : r \in C
        BY <3>2
      <4> QED BY <3>2, <4>1, CompletionUne DEF EffetInv
    <3> QED BY <3>1, <3>2
  <2>2. \/ D = {} /\ Cardinality(D) = 0
        \/ D # {} /\ Cardinality(D) = 1 /\ aDefaire = 1
    <3>1. CASE D = {}
      BY <3>1, FS_EmptySet
    <3>2. CASE D # {}
      <4>1. PICK r : r \in D
        BY <3>2
      <4> QED BY <3>2, <4>1, ReversalUne DEF EffetInv
    <3> QED BY <3>1, <3>2
  <2>3. ASSUME FloatRegle(t), aFaire = 1 PROVE C # {}
    <3>1. PICK r \in Requetes : req[r].cible = t /\ req[r].op = "complete" /\ Passee(r)
      BY <2>3 DEF EffetInv, Liees
    <3>2. FloatDeclenche(r) /\ floatJob[r].pc = "fini"
      BY <2>3, <3>1 DEF FloatRegle, FloatDeclenche, Passee
    <3>3. mobile
      BY <2>3
    <3>4. Sens(r) # "AUCUN"
      BY <3>1, <3>3 DEF Sens, Objet, SensCompletion
    <3>5. mouvements[r] # PasDeMouvement
      BY <3>2, <3>4 DEF EffetInv, FloatLivre
    <3>6. r \in C
      BY <3>1, <3>5 DEF Appliques
    <3> QED BY <3>6
  <2>4. ASSUME FloatRegle(t), aDefaire = 1 PROVE D # {}
    <3> DEFINE r == tx[t].reversal
    <3>1. r \in reversals /\ req[r].cible = t
      BY <2>4 DEF EffetInv, ServiceInv, LienUnUn
    <3>2. r \in Requetes /\ req[r].op = "reverse" /\ Passee(r)
      BY <3>1 DEF EffetInv, Liees
    <3>3. FloatDeclenche(r) /\ floatJob[r].pc = "fini"
      BY <2>4, <3>1, <3>2 DEF FloatRegle, FloatDeclenche, Passee
    <3>4. Sens(r) # "AUCUN"
      BY <3>2 DEF Sens, SensReversal
    <3>5. mouvements[r] # PasDeMouvement
      BY <3>2, <3>3, <3>4 DEF EffetInv, FloatLivre
    <3>6. r \in D
      BY <3>1, <3>2, <3>5 DEF Appliques
    <3> QED BY <3>6
  <2>5. aFaire \in {0, 1} /\ aDefaire \in {0, 1}
    OBVIOUS
  <2> HIDE DEF aFaire, aDefaire, C, D
  <2>6. /\ Cardinality(C) <= aFaire /\ Cardinality(D) <= aDefaire
        /\ FloatRegle(t) => Cardinality(C) = aFaire /\ Cardinality(D) = aDefaire
    BY <2>1, <2>2, <2>3, <2>4, <2>5
  <2> QED BY <2>6 DEF aFaire, aDefaire, C, D, Faite
<1> QED BY <1>1, EffetToujours, PTL
-----------------------------------------------------------------------------
(* The earnings *)

(* A job that has an earning still to look for, found no amount, failed,   *)
(* or was stopped by a restart.                                            *)
Attente(r) ==
  ComDeclenche(r) /\ comJob[r].pc \in {"repos", "liste", "calculee", "sans", "echec", "perdu"}

(* A request that owes its row an earning, or will never insert one.       *)
Porte(r) ==
  \/ Attente(r)
  \/ req[r].pc = "perdu"
  \/ req[r].pc = "commis" /\ req[r].op = "complete"

(* A completed row has an earning, or such a request.                      *)
Servie(t) ==
  t \notin reversals /\ tx[t].statut = "COMPLETED" =>
    GainsDe(t) # {} \/ \E r \in Requetes : req[r].cible = t /\ Porte(r)

(* Unless two jobs crossed, a row has one earning, or one job about to     *)
(* insert its only one.                                                    *)
UneFois ==
  \A t \in Lignes \ croisees :
    /\ \A g, h \in GainsDe(t) : g = h
    /\ \A r \in Requetes : req[r].cible = t /\ comJob[r].pc = "calculee" =>
         /\ GainsDe(t) = {}
         /\ \A q \in Requetes : req[q].cible = t /\ comJob[q].pc = "calculee" => q = r

(* Batches are not interrupted before they list a row, only batches list,  *)
(* and an earning has a job that inserted it.                              *)
Lots ==
  /\ \A r \in Requetes : req[r].op = "recalculate" => req[r].pc = "emis"
  /\ \A r \in Requetes : comJob[r].pc = "liste" => req[r].op = "recalculate"
  /\ \A g \in gains : comJob[g].pc \in {"creee", "fini", "echec", "perdu"}

(* A row that was not reversed and that no batch went over.                *)
Simple(t) ==
  /\ tx[t] \in Ligne /\ tx[t].reversal = Aucun
  /\ \A r \in Requetes : req[r].cible = t => req[r].op # "recalculate"

(* The earning of such a row is there before it is copied, the amount the  *)
(* row shows was earned, and the amount copied is the one earned.          *)
Gagnee(t) ==
  Simple(t) =>
    /\ \A r \in Requetes : req[r].cible = t /\ comJob[r].pc = "creee" => r \in gains
    /\ tx[t].commission # 0 => \E g \in GainsDe(t) : comJob[g].montant = tx[t].commission
    /\ t \notin croisees =>
         \A g \in GainsDe(t) : comJob[g].pc = "fini" => comJob[g].montant = tx[t].commission

GainInv == Lots /\ UneFois /\ \A t \in Lignes : Servie(t) /\ Gagnee(t)

(* What a step does to the row t and to its earnings: keep them, insert    *)
(* the row, or reverse it, which deletes the earnings.                     *)
Gardee(t) ==
  /\ tx'[t] \in Ligne => /\ tx[t] \in Ligne /\ tx'[t].commission = tx[t].commission
                         /\ tx'[t].reversal = tx[t].reversal
  /\ \A g \in gains : req[g].cible = t => g \in gains'
  /\ tx'[t].statut = "COMPLETED" =>
       \/ tx[t].statut = "COMPLETED"
       \/ \E r \in Requetes : req'[r].pc = "commis" /\ req'[r].op = "complete" /\ req'[r].cible = t

Nee(t) ==
  /\ tx[t] = Vide /\ tx'[t].commission = 0
  /\ tx'[t].statut = "COMPLETED" => t \in reversals'

Extournee(t) ==
  /\ tx'[t].statut = "REVERSED" /\ tx'[t].commission = 0 /\ tx'[t].reversal # Aucun
  /\ \A g \in gains' : req[g].cible # t

(* The three methods that write an existing row do one of these.           *)
LEMMA EcrireEffet ==
  ASSUME TypeInv, NEW r \in Requetes, NEW u \in Lignes, NEW t \in Lignes,
         Completer(r, u) \/ Annuler(r, u) \/ Reverser(r, u)
  PROVE  Gardee(t) \/ Nee(t) \/ Extournee(t)
<1>1. /\ tx[u] \in Ligne /\ tx[r] = Vide /\ u # r /\ r \in Lignes
      /\ req \in [Requetes -> Requete] /\ tx \in [Lignes -> Ligne \cup {Vide}]
  BY EcritLigne DEF Completer, Annuler, Reverser, Attendu, TypeInv, TypeOK, StoreTypeOK
<1>2. CASE Completer(r, u)
  <2>1. /\ tx'[u].commission = tx[u].commission /\ tx'[u].reversal = tx[u].reversal
        /\ \A v \in Lignes \ {u} : tx'[v] = tx[v]
        /\ gains' = gains
        /\ req'[r].pc = "commis" /\ req'[r].op = "complete" /\ req'[r].cible = u
    BY <1>1, <1>2 DEF Completer, Ecrit, Ligne, Requete
  <2> QED BY <1>1, <2>1 DEF Gardee
<1>3. CASE Annuler(r, u)
  <2>1. /\ tx'[u].commission = tx[u].commission /\ tx'[u].reversal = tx[u].reversal
        /\ tx'[u].statut = "CANCELLED"
        /\ \A v \in Lignes \ {u} : tx'[v] = tx[v]
        /\ gains' = gains
    BY <1>1, <1>3 DEF Annuler, Ligne
  <2> QED BY <1>1, <2>1 DEF Gardee
<1>4. CASE Reverser(r, u)
  <2>1. /\ tx'[u].statut = "REVERSED" /\ tx'[u].commission = 0 /\ tx'[u].reversal = r
        /\ tx'[r] = Compensation(u)
        /\ \A v \in Lignes \ {u, r} : tx'[v] = tx[v]
        /\ gains' = {g \in gains : req[g].cible # u}
        /\ r \in reversals'
    BY <1>1, <1>4 DEF Reverser, Ligne
  <2>2. tx'[r].commission = 0 /\ r # Aucun
    BY <1>1, <2>1, StoreAssumption DEF Compensation, Ligne
  <2>3. CASE t = u
    BY <2>1, <2>2, <2>3 DEF Extournee
  <2>4. CASE t = r
    BY <1>1, <2>1, <2>2, <2>4 DEF Nee
  <2>5. CASE t \notin {u, r}
    BY <2>1, <2>5 DEF Gardee
  <2> QED BY <2>1, <2>3, <2>4, <2>5
<1> QED BY <1>2, <1>3, <1>4

(* So does every step of the service, which inserts no earning itself.     *)
LEMMA NextEffet ==
  ASSUME MetierInv, [Next]_vars, NEW t \in Lignes
  PROVE  Gardee(t) \/ Nee(t) \/ Extournee(t)
<1>1. CASE UNCHANGED <<tx, gains>>
  BY <1>1 DEF Gardee
<1>2. ASSUME NEW r \in Requetes, Inserer(r)
      PROVE  Gardee(t) \/ Nee(t) \/ Extournee(t)
  <2>1. /\ tx[r] = Vide /\ gains' = gains
        /\ tx'[r].commission = 0 /\ tx'[r].statut = "PENDING"
        /\ \A v \in Lignes \ {r} : tx'[v] = tx[v]
    BY <1>2 DEF Inserer, MetierInv, Suivie, TypeInv, TypeOK, StoreTypeOK, Frais, CreationPrete, Lignes
  <2> QED BY <2>1 DEF Gardee, Nee
<1>3. ASSUME NEW r \in Requetes, NEW u \in Lignes,
             Completer(r, u) \/ Annuler(r, u) \/ Reverser(r, u)
      PROVE  Gardee(t) \/ Nee(t) \/ Extournee(t)
  BY <1>3, EcrireEffet DEF MetierInv
<1> QED BY <1>1, <1>2, <1>3 DEF Next, Service, Statut, Etape, vars, Suspendre, Activer,
                                LireCreation, Lire, Emettre, PerdreRequetes

LEMMA NextMoins == [Next]_vars => gains' \subseteq gains
BY DEF Next, Service, Statut, Etape, vars, Suspendre, Activer, LireCreation, Inserer, Lire,
       Completer, Annuler, Reverser, Emettre, PerdreRequetes

(* A request that was not a batch does not become one.                     *)
LEMMA NextLots ==
  ASSUME TypeInv, [Next]_vars, NEW r \in Requetes, req'[r].op = "recalculate"
  PROVE  req[r].op = "recalculate" /\ (req[r].pc = "emis" => req'[r] = req[r])
<1>1. req \in [Requetes -> Requete]
  BY DEF TypeInv, TypeOK
<1>2. CASE UNCHANGED req
  BY <1>2
<1>3. CASE PerdreRequetes
  BY <1>1, <1>3 DEF PerdreRequetes, EnCours, Requete
<1>4. ASSUME NEW q \in Requetes, Etape(q)
      PROVE  req[r].op = "recalculate" /\ (req[r].pc = "emis" => req'[r] = req[r])
  <2>1. CASE q # r
    BY <1>1, <1>4, <2>1 DEF Etape, LireCreation, Inserer, Lire, Completer, Annuler, Reverser, Emettre
  <2>2. CASE q = r /\ \E op \in DOMAIN Attendu, t \in Lignes : Lire(q, op, t)
    BY <1>1, <2>2 DEF Lire, Attendu
  <2>3. CASE q = r /\ \E ty \in Types, a \in Agents, m \in Montants : LireCreation(q, ty, a, m)
    <3>1. req'[r].op = "create"
      BY <1>1, <2>3 DEF LireCreation
    <3> QED BY <3>1
  <2>4. CASE /\ q = r
             /\ \/ Inserer(q) \/ Emettre(q)
                \/ \E t \in Lignes : Completer(q, t) \/ Annuler(q, t) \/ Reverser(q, t)
    <3>1. /\ \E p \in {"fini", "commis", "emis"} : req' = [req EXCEPT ![r].pc = p]
          /\ req[r].pc # "emis"
      BY <2>4 DEF Inserer, Completer, Annuler, Reverser, Emettre, Ecrit
    <3> QED BY <1>1, <3>1 DEF Requete
  <2> QED BY <1>4, <2>1, <2>2, <2>3, <2>4 DEF Etape
<1> QED BY <1>2, <1>3, <1>4 DEF Next, Service, Statut, vars, Suspendre, Activer

(* A request that commits goes on to its event, or stops there.            *)
LEMMA NextAvance ==
  ASSUME TypeInv, [Next]_vars, NEW r \in Requetes
  PROVE  /\ req[r].pc = "perdu" => req'[r].pc = "perdu"
         /\ req[r].pc = "commis" => req'[r].pc \in {"commis", "emis", "perdu"}
<1>1. req \in [Requetes -> Requete]
  BY DEF TypeInv, TypeOK
<1>2. CASE UNCHANGED req
  BY <1>2
<1>3. CASE PerdreRequetes
  BY <1>1, <1>3 DEF PerdreRequetes, EnCours, Requete
<1>4. ASSUME NEW q \in Requetes, Etape(q)
      PROVE  /\ req[r].pc = "perdu" => req'[r].pc = "perdu"
             /\ req[r].pc = "commis" => req'[r].pc \in {"commis", "emis", "perdu"}
  <2>1. CASE q # r
    BY <1>1, <1>4, <2>1 DEF Etape, LireCreation, Inserer, Lire, Completer, Annuler, Reverser, Emettre
  <2>2. CASE q = r /\ req[r].pc \in {"perdu", "commis"}
    <3>1. Emettre(r)
      BY <1>4, <2>2 DEF Etape, LireCreation, Inserer, Lire, Completer, Annuler, Reverser, Ecrit
    <3> QED BY <1>1, <3>1 DEF Emettre
  <2> QED BY <2>1, <2>2
<1> QED BY <1>2, <1>3, <1>4 DEF Next, Service, Statut, vars, Suspendre, Activer

(* The jobs are left alone, or stopped where they are.                     *)
Arretes ==
  /\ \A r \in Requetes : /\ comJob'[r].montant = comJob[r].montant
                         /\ \/ comJob'[r].pc = comJob[r].pc
                            \/ ComActif(r) /\ comJob'[r].pc = "perdu"
  /\ croisees' = croisees

(* A step that inserts no earning, computes none and lets the jobs that    *)
(* compute go on, or stop, keeps the rows to one earning.                  *)
LEMMA UneFoisReste ==
  ASSUME UneFois, croisees \subseteq croisees', gains' \subseteq gains,
         \A g \in gains : req'[g].cible = req[g].cible,
         \A r \in Requetes : comJob'[r].pc = "calculee" =>
                               comJob[r].pc = "calculee" /\ req'[r].cible = req[r].cible
  PROVE  UneFois'
<1>1. \A t \in Lignes : GainsDe(t)' \subseteq GainsDe(t)
  BY DEF GainsDe
<1> QED BY <1>1 DEF UneFois

(* A step of the service, or a restart.                                    *)
LEMMA ServiceGains ==
  ASSUME OpsInv, GainInv, [Next]_vars, Arretes
  PROVE  GainInv'
<1>1. TypeInv /\ Fidele /\ Croissante /\ Suite
  BY NextFidele, NextCroit, NextSuite DEF OpsInv, MetierInv
<1>2. gains' \subseteq gains /\ \A u \in Lignes : Gardee(u) \/ Nee(u) \/ Extournee(u)
  BY NextEffet, NextMoins DEF OpsInv
<1>3. /\ gains \subseteq Requetes
      /\ \A g \in gains : /\ req[g].pc = "emis" /\ req'[g].cible = req[g].cible
                          /\ req[g].cible \in Lignes /\ tx[req[g].cible] \in Ligne
  BY <1>1 DEF OpsInv, ComInv, MetierInv, Suivie, TypeInv, TypeOK, StoreTypeOK, Fidele
<1>4. \A r \in Requetes : comJob[r].pc # "repos" =>
        /\ ComDeclenche(r) /\ ComDeclenche(r)' /\ req'[r].cible = req[r].cible
        /\ req'[r].op = req[r].op
        /\ req[r].cible \in Lignes /\ tx[req[r].cible] \in Ligne
  BY <1>1 DEF OpsInv, ComInv, ComDeclenche, Fidele, MetierInv, Suivie
<1>5. Lots'
  <2>1. \A r \in Requetes : req'[r].op = "recalculate" => req'[r].pc = "emis"
    BY <1>1, NextLots DEF GainInv, Lots, Fidele
  <2>2. \A r \in Requetes : comJob'[r].pc = "liste" => req'[r].op = "recalculate"
    BY <1>4 DEF GainInv, Lots, Arretes
  <2>3. \A g \in gains' : comJob'[g].pc \in {"creee", "fini", "echec", "perdu"}
    BY <1>2, <1>3 DEF GainInv, Lots, Arretes
  <2> QED BY <2>1, <2>2, <2>3 DEF Lots
<1>6. UneFois'
  BY <1>2, <1>3, <1>4, UneFoisReste DEF GainInv, Arretes
<1>7. \A r \in Requetes : Porte(r) => Porte(r)' /\ req'[r].cible = req[r].cible
  <2> SUFFICES ASSUME NEW r \in Requetes, Porte(r)
               PROVE  Porte(r)' /\ req'[r].cible = req[r].cible
    OBVIOUS
  <2>1. CASE Attente(r)
    <3>1. ComDeclenche(r)' /\ req'[r].cible = req[r].cible
      BY <1>1, <2>1 DEF Attente, ComDeclenche, Fidele
    <3> QED BY <2>1, <3>1 DEF Attente, Arretes, Porte
  <2>2. CASE req[r].pc = "perdu"
    BY <1>1, <2>2, NextAvance DEF Porte, Suite, Passee
  <2>3. CASE req[r].pc = "commis" /\ req[r].op = "complete"
    <3>1. comJob'[r].pc = "repos"
      BY <1>4, <2>3 DEF Arretes, ComActif, ComDeclenche
    <3>2. req'[r].pc \in {"commis", "emis", "perdu"} /\ req'[r].op = req[r].op
          /\ req'[r].cible = req[r].cible
      BY <1>1, <2>3, NextAvance DEF Fidele
    <3> QED BY <2>3, <3>1, <3>2 DEF Porte, Attente, ComDeclenche
  <2> QED BY <2>1, <2>2, <2>3 DEF Porte
<1>8. ASSUME NEW t \in Lignes PROVE Servie(t)'
  <2> SUFFICES ASSUME t \notin reversals', tx'[t].statut = "COMPLETED"
               PROVE  GainsDe(t)' # {} \/ \E r \in Requetes : req'[r].cible = t /\ Porte(r)'
    BY DEF Servie
  <2>1. Gardee(t) /\ t \notin reversals
    BY <1>1, <1>2 DEF Nee, Extournee, Croissante
  <2>2. CASE tx[t].statut = "COMPLETED"
    <3>1. GainsDe(t) # {} => GainsDe(t)' # {}
      BY <1>3, <2>1 DEF Gardee, GainsDe
    <3> QED BY <1>7, <2>1, <2>2, <3>1 DEF GainInv, Servie
  <2>3. CASE \E r \in Requetes : req'[r].pc = "commis" /\ req'[r].op = "complete" /\ req'[r].cible = t
    BY <2>3 DEF Porte
  <2> QED BY <2>1, <2>2, <2>3 DEF Gardee
<1>9. ASSUME NEW t \in Lignes PROVE Gagnee(t)'
  <2> SUFFICES ASSUME Simple(t)'
               PROVE  /\ \A r \in Requetes : req'[r].cible = t /\ comJob'[r].pc = "creee" => r \in gains'
                      /\ tx'[t].commission # 0 =>
                           \E g \in GainsDe(t)' : comJob'[g].montant = tx'[t].commission
                      /\ t \notin croisees' =>
                           \A g \in GainsDe(t)' : comJob'[g].pc = "fini" =>
                             comJob'[g].montant = tx'[t].commission
    BY DEF Gagnee
  <2>1. \A r \in Requetes : req'[r].cible = t /\ comJob'[r].pc = "creee" =>
          req[r].cible = t /\ comJob[r].pc = "creee" /\ tx[t] \in Ligne
    BY <1>4 DEF Arretes
  <2>2. CASE Nee(t)
    <3>1. GainsDe(t)' = {}
      BY <1>2, <1>3, <2>2, VideAbsent DEF GainsDe, Nee
    <3> QED BY <2>1, <2>2, <3>1, VideAbsent DEF Nee
  <2>3. CASE Gardee(t)
    <3>1. /\ tx[t] \in Ligne /\ tx'[t].commission = tx[t].commission
          /\ tx[t].reversal = Aucun
      BY <2>3 DEF Gardee, Simple
    <3>2. \A r \in Requetes : req[r].cible = t => req[r].op # "recalculate"
      BY <1>1 DEF Simple, Fidele, GainInv, Lots
    <3>3. Simple(t)
      BY <3>1, <3>2 DEF Simple
    <3>4. GainsDe(t)' = GainsDe(t)
      BY <1>2, <1>3, <2>3 DEF Gardee, GainsDe
    <3>5. \A r \in Requetes : req[r].cible = t /\ comJob[r].pc = "creee" => r \in gains
      BY <3>3 DEF GainInv, Gagnee
    <3>6. \A r \in Requetes : req'[r].cible = t /\ comJob'[r].pc = "creee" => r \in gains'
      BY <2>1, <2>3, <3>5 DEF Gardee
    <3>7. \A g \in GainsDe(t) : /\ comJob'[g].montant = comJob[g].montant
                                /\ comJob'[g].pc = "fini" => comJob[g].pc = "fini"
      BY <1>3 DEF Arretes, GainsDe
    <3> QED BY <3>1, <3>3, <3>4, <3>6, <3>7 DEF GainInv, Gagnee, Arretes
  <2>4. ~ Extournee(t)
    BY DEF Extournee, Simple
  <2> QED BY <1>2, <2>2, <2>3, <2>4
<1> QED BY <1>5, <1>6, <1>8, <1>9 DEF GainInv

(* Listing a row starts a batch on it: the row is not simple any more.     *)
LEMMA ListeGains ==
  ASSUME OpsInv, GainInv, NEW r \in Requetes, NEW u \in Lignes, RecalculLister(r, u)
  PROVE  GainInv'
<1>1. /\ UNCHANGED <<tx, gains, reversals, croisees>> /\ req[r].pc = "repos"
      /\ req'[r].pc = "emis" /\ req'[r].op = "recalculate" /\ comJob'[r].pc = "liste"
      /\ \A q \in Requetes \ {r} : req'[q] = req[q] /\ comJob'[q] = comJob[q]
  BY DEF RecalculLister, OpsInv, MetierInv, TypeInv, TypeOK, ComInv, ComTypeOK
<1>2. gains \subseteq Requetes \ {r}
  BY <1>1 DEF OpsInv, ComInv, MetierInv, TypeInv, TypeOK, StoreTypeOK
<1>3. ~ Porte(r) /\ \A t : GainsDe(t)' = GainsDe(t)
  BY <1>1, <1>2 DEF Porte, Attente, ComDeclenche, GainsDe
<1>4. \A q \in Requetes \ {r} : Porte(q)' <=> Porte(q)
  BY <1>1 DEF Porte, Attente, ComDeclenche
<1>5. Lots'
  BY <1>1, <1>2 DEF GainInv, Lots
<1>6. UneFois'
  BY <1>1, <1>2, UneFoisReste DEF GainInv
<1>7. ASSUME NEW t \in Lignes PROVE Servie(t)'
  BY <1>1, <1>3, <1>4 DEF GainInv, Servie
<1>8. ASSUME NEW t \in Lignes PROVE Gagnee(t)'
  <2> SUFFICES ASSUME Simple(t)'
               PROVE  /\ \A q \in Requetes : req'[q].cible = t /\ comJob'[q].pc = "creee" => q \in gains'
                      /\ tx'[t].commission # 0 =>
                           \E g \in GainsDe(t)' : comJob'[g].montant = tx'[t].commission
                      /\ t \notin croisees' =>
                           \A g \in GainsDe(t)' : comJob'[g].pc = "fini" =>
                             comJob'[g].montant = tx'[t].commission
    BY DEF Gagnee
  <2>1. Lots /\ Gagnee(t) /\ req'[r].cible # t
    BY <1>1 DEF GainInv, Simple
  <2>2. Simple(t)
    BY <1>1, <2>1 DEF Simple, Lots
  <2>3. \A g \in GainsDe(t) : comJob'[g] = comJob[g]
    BY <1>1, <1>2 DEF GainsDe
  <2> QED BY <1>1, <1>3, <2>1, <2>2, <2>3 DEF Gagnee
<1> QED BY <1>5, <1>6, <1>7, <1>8 DEF GainInv

(* A step of a job leaves the other rows alone: it is enough to look at    *)
(* its own.                                                                *)
LEMMA JobGains ==
  ASSUME OpsInv, GainInv, NEW r \in Requetes, ComDeclenche(r), UNCHANGED <<reversals, req>>,
         \A q \in Requetes \ {r} : comJob'[q] = comJob[q],
         \A u \in Lignes \ {req[r].cible} : tx'[u] = tx[u],
         gains' \in {gains, gains \cup {r}, gains \ GainsDe(req[r].cible)},
         croisees' \in {croisees, croisees \cup {req[r].cible}},
         Lots', UneFois', Servie(req[r].cible)', Gagnee(req[r].cible)'
  PROVE  GainInv'
<1> SUFFICES ASSUME NEW t \in Lignes \ {req[r].cible} PROVE Servie(t)' /\ Gagnee(t)'
  BY DEF GainInv
<1>1. GainsDe(t)' = GainsDe(t) /\ tx'[t] = tx[t] /\ (t \in croisees' <=> t \in croisees)
  BY DEF GainsDe
<1>2. \A q \in Requetes : req[q].cible = t => (Porte(q)' <=> Porte(q)) /\ comJob'[q] = comJob[q]
  BY DEF Porte, Attente, ComDeclenche
<1>3. Servie(t)'
  BY <1>1, <1>2 DEF GainInv, Servie
<1>4. Gagnee(t)'
  <2>1. Simple(t)' <=> Simple(t)
    BY <1>1 DEF Simple
  <2>2. gains \subseteq Requetes
    BY DEF OpsInv, MetierInv, TypeInv, TypeOK, StoreTypeOK
  <2>3. \A g \in GainsDe(t) : comJob'[g] = comJob[g]
    BY <1>2, <2>2 DEF GainsDe
  <2>4. \A q \in Requetes : req[q].cible = t => (q \in gains' <=> q \in gains)
    BY DEF GainsDe
  <2> QED BY <1>1, <1>2, <2>1, <2>3, <2>4 DEF GainInv, Gagnee
<1> QED BY <1>3, <1>4

(* A step of a job that writes nothing, and neither starts to compute nor  *)
(* copies: deleting, finding an earning or no amount, failing.             *)
LEMMA PasGains ==
  ASSUME OpsInv, GainInv, NEW r \in Requetes,
         RecalculPurger(r) \/ ComExistant(r) \/ ComSans(r) \/ ComEchouer(r)
  PROVE  GainInv'
<1> DEFINE t == req[r].cible
<1>1. /\ ComDeclenche(r) /\ t \in Lignes /\ tx[t] \in Ligne /\ UNCHANGED <<tx, reversals, req>>
      /\ gains \subseteq Requetes /\ croisees' = croisees
      /\ \A q \in Requetes \ {r} : comJob'[q] = comJob[q]
  BY ComPas DEF RecalculPurger, ComExistant, ComSans, ComEchouer, vars, OpsInv, MetierInv,
                TypeInv, TypeOK, StoreTypeOK
<1>2. \E p \in {"repos", "fini", "sans", "echec"} : comJob' = [comJob EXCEPT ![r].pc = p]
  BY DEF RecalculPurger, ComExistant, ComSans, ComEchouer, ComPasse
<1>3. comJob'[r].montant = comJob[r].montant /\ comJob'[r].pc \in {"repos", "fini", "sans", "echec"}
  BY <1>2 DEF OpsInv, ComInv, ComTypeOK
<1>4. /\ gains' \in {gains, gains \ GainsDe(t)}
      /\ gains' # gains => RecalculPurger(r)
  BY DEF RecalculPurger, ComExistant, ComSans, ComEchouer, vars
<1>5. /\ r \in gains' => comJob'[r].pc \in {"fini", "echec"}
      /\ r \in gains => comJob[r].pc \in {"creee", "fini", "echec", "perdu"}
  BY <1>1, <1>3, <1>4 DEF GainInv, Lots, RecalculPurger, ComExistant, ComSans, ComEchouer, ComPasse,
                          GainsDe, OpsInv, ComInv, ComTypeOK
<1>6. Lots'
  BY <1>1, <1>3, <1>4, <1>5 DEF GainInv, Lots
<1>7. UneFois'
  BY <1>1, <1>3, <1>4, UneFoisReste DEF GainInv
<1>8. Servie(t)'
  <2>1. CASE comJob'[r].pc = "fini"
    <3>1. GainsDe(t) # {} /\ gains' = gains
      BY <1>3, <1>4, <2>1 DEF RecalculPurger, ComExistant, ComSans, ComEchouer, ComPasse, OpsInv,
                              ComInv, ComTypeOK
    <3> QED BY <1>1, <3>1 DEF Servie, GainsDe
  <2>2. CASE comJob'[r].pc # "fini"
    <3>1. Porte(r)'
      BY <1>1, <1>3, <2>2 DEF Porte, Attente, ComDeclenche
    <3> QED BY <1>1, <3>1 DEF Servie
  <2> QED BY <2>1, <2>2
<1>9. Gagnee(t)'
  <2>1. CASE RecalculPurger(r)
    <3>1. req[r].op = "recalculate"
      BY <2>1 DEF RecalculPurger, ComPasse, GainInv, Lots
    <3> QED BY <1>1, <3>1 DEF Gagnee, Simple
  <2>2. CASE ~ RecalculPurger(r)
    <3>1. gains' = gains /\ GainsDe(t)' = GainsDe(t)
      BY <1>1, <1>4, <2>2 DEF GainsDe
    <3>2. Simple(t)' <=> Simple(t)
      BY <1>1 DEF Simple
    <3>3. \A g \in GainsDe(t) : /\ comJob'[g].montant = comJob[g].montant
                                /\ comJob'[g].pc = "fini" => comJob[g].pc = "fini"
      <4>1. r \in gains => comJob'[r].pc # "fini"
        BY <1>3, <1>5, <2>2 DEF ComExistant, ComSans, ComEchouer, ComPasse, OpsInv, ComInv, ComTypeOK
      <4> QED BY <1>1, <1>3, <4>1 DEF GainsDe
    <3>4. \A q \in Requetes : comJob'[q].pc = "creee" => comJob[q].pc = "creee"
      BY <1>1, <1>3
    <3> QED BY <1>1, <3>1, <3>2, <3>3, <3>4 DEF GainInv, Gagnee
  <2> QED BY <2>1, <2>2
<1> QED BY <1>1, <1>4, <1>6, <1>7, <1>8, <1>9, JobGains

(* Computing: the row is noted as crossed if another job is computing.     *)
LEMMA CalculerGains ==
  ASSUME OpsInv, GainInv, NEW r \in Requetes, NEW m \in Commissions, ComCalculer(r, m)
  PROVE  GainInv'
<1> DEFINE t == req[r].cible
<1>1. /\ ComDeclenche(r) /\ t \in Lignes /\ UNCHANGED <<tx, reversals, req, gains>>
      /\ gains \subseteq Requetes /\ comJob[r].pc = "repos" /\ GainsDe(t) = {}
      /\ \A q \in Requetes \ {r} : comJob'[q] = comJob[q]
      /\ comJob'[r].pc = "calculee"
      /\ croisees' = IF Croise(r) THEN croisees \cup {t} ELSE croisees
  <2>1. /\ ComDeclenche(r) /\ t \in Lignes /\ gains \subseteq Requetes
        /\ \A q \in Requetes \ {r} : comJob'[q] = comJob[q]
    BY ComPas DEF OpsInv, MetierInv, TypeInv, TypeOK, StoreTypeOK
  <2>2. /\ UNCHANGED <<tx, reversals, req, gains>> /\ comJob[r].pc = "repos" /\ GainsDe(t) = {}
        /\ comJob'[r].pc = "calculee"
        /\ croisees' = IF Croise(r) THEN croisees \cup {t} ELSE croisees
    BY DEF ComCalculer, vars, OpsInv, ComInv, ComTypeOK
  <2> QED BY <2>1, <2>2
<1>2. r \notin gains /\ \A u : GainsDe(u)' = GainsDe(u)
  BY <1>1 DEF GainsDe
<1>3. Lots'
  BY <1>1, <1>2 DEF GainInv, Lots
<1>4. UneFois'
  <2> SUFFICES ASSUME NEW u \in Lignes \ croisees'
               PROVE  /\ \A g, h \in GainsDe(u) : g = h
                      /\ \A p \in Requetes : req[p].cible = u /\ comJob'[p].pc = "calculee" =>
                           /\ GainsDe(u) = {}
                           /\ \A q \in Requetes : req[q].cible = u /\ comJob'[q].pc = "calculee" => q = p
    BY <1>1, <1>2 DEF UneFois
  <2>1. u \notin croisees
    BY <1>1
  <2>2. CASE u = t
    <3>1. ~ Croise(r)
      BY <1>1, <2>2
    <3>2. \A q \in Requetes \ {r} : req[q].cible = t => comJob'[q].pc # "calculee"
      BY <1>1, <3>1 DEF Croise
    <3> QED BY <1>1, <2>2, <3>2
  <2>3. CASE u # t
    <3>1. \A q \in Requetes : req[q].cible = u => comJob'[q] = comJob[q]
      BY <1>1, <2>3
    <3> QED BY <2>1, <3>1 DEF GainInv, UneFois
  <2> QED BY <2>2, <2>3
<1>5. Servie(t)'
  <2>1. Porte(r)'
    BY <1>1 DEF Porte, Attente, ComDeclenche
  <2> QED BY <1>1, <2>1 DEF Servie
<1>6. Gagnee(t)'
  <2>1. Simple(t)' <=> Simple(t)
    BY <1>1 DEF Simple
  <2> QED BY <1>1, <1>2, <2>1 DEF GainInv, Gagnee
<1> QED BY <1>1, <1>3, <1>4, <1>5, <1>6, JobGains

LEMMA InsererGains ==
  ASSUME OpsInv, GainInv, NEW r \in Requetes, ComInserer(r)
  PROVE  GainInv'
<1> DEFINE t == req[r].cible
<1>1. /\ ComDeclenche(r) /\ t \in Lignes /\ UNCHANGED <<tx, reversals, req, croisees>>
      /\ gains \subseteq Requetes /\ comJob[r].pc = "calculee" /\ gains' = gains \cup {r}
      /\ \A q \in Requetes \ {r} : comJob'[q] = comJob[q]
      /\ comJob'[r].pc = "creee" /\ comJob'[r].montant = comJob[r].montant
  <2>1. /\ ComDeclenche(r) /\ t \in Lignes /\ tx[t] \in Ligne /\ gains \subseteq Requetes
        /\ UNCHANGED <<reversals, req>>
        /\ \A q \in Requetes \ {r} : comJob'[q] = comJob[q]
    BY ComPas DEF OpsInv, MetierInv, TypeInv, TypeOK, StoreTypeOK
  <2>2. /\ comJob[r].pc = "calculee" /\ gains' = gains \cup {r} /\ UNCHANGED <<tx, croisees>>
        /\ comJob'[r].pc = "creee"
        /\ comJob'[r].montant = comJob[r].montant
    BY DEF ComInserer, ComPasse, OpsInv, ComInv, ComTypeOK
  <2> QED BY <2>1, <2>2
<1>2. r \notin gains /\ GainsDe(t)' = GainsDe(t) \cup {r}
      /\ \A u \in Lignes \ {t} : GainsDe(u)' = GainsDe(u)
  BY <1>1 DEF GainsDe, GainInv, Lots
<1>3. Lots'
  BY <1>1, <1>2 DEF GainInv, Lots
<1>4. UneFois'
  <2> SUFFICES ASSUME NEW u \in Lignes \ croisees
               PROVE  /\ \A g, h \in GainsDe(u)' : g = h
                      /\ \A p \in Requetes : req[p].cible = u /\ comJob'[p].pc = "calculee" =>
                           /\ GainsDe(u)' = {}
                           /\ \A q \in Requetes : req[q].cible = u /\ comJob'[q].pc = "calculee" => q = p
    BY <1>1 DEF UneFois
  <2>1. CASE u = t
    <3>1. /\ GainsDe(t) = {}
          /\ \A q \in Requetes : req[q].cible = t /\ comJob[q].pc = "calculee" => q = r
      BY <1>1, <2>1 DEF GainInv, UneFois
    <3>2. \A q \in Requetes : req[q].cible = t => comJob'[q].pc # "calculee"
      BY <1>1, <3>1
    <3>3. GainsDe(u)' = {r}
      BY <1>1, <2>1, <3>1 DEF GainsDe
    <3> QED BY <2>1, <3>2, <3>3
  <2>2. CASE u # t
    <3>1. \A q \in Requetes : req[q].cible = u => comJob'[q] = comJob[q]
      BY <1>1, <2>2
    <3> QED BY <1>2, <2>2, <3>1 DEF GainInv, UneFois
  <2> QED BY <2>1, <2>2
<1>5. Servie(t)'
  BY <1>2 DEF Servie
<1>6. Gagnee(t)'
  <2>1. Simple(t)' <=> Simple(t)
    BY <1>1 DEF Simple
  <2>2. \A g \in GainsDe(t) : comJob'[g] = comJob[g]
    BY <1>1, <1>2 DEF GainsDe
  <2> QED BY <1>1, <1>2, <2>1, <2>2 DEF GainInv, Gagnee
<1> QED BY <1>1, <1>3, <1>4, <1>5, <1>6, JobGains

LEMMA RefleterGains ==
  ASSUME OpsInv, GainInv, NEW r \in Requetes, ComRefleter(r)
  PROVE  GainInv'
<1> DEFINE t == req[r].cible
<1>1. /\ ComDeclenche(r) /\ t \in Lignes /\ tx[t] \in Ligne
      /\ UNCHANGED <<reversals, req, croisees, gains>>
      /\ gains \subseteq Requetes /\ comJob[r].pc = "creee"
      /\ \A q \in Requetes \ {r} : comJob'[q] = comJob[q]
      /\ comJob'[r].pc = "fini" /\ comJob'[r].montant = comJob[r].montant
  <2>1. /\ ComDeclenche(r) /\ t \in Lignes /\ tx[t] \in Ligne /\ gains \subseteq Requetes
        /\ UNCHANGED <<reversals, req>>
        /\ \A q \in Requetes \ {r} : comJob'[q] = comJob[q]
    BY ComPas DEF OpsInv, MetierInv, TypeInv, TypeOK, StoreTypeOK
  <2>2. /\ comJob[r].pc = "creee" /\ UNCHANGED <<gains, croisees>>
        /\ comJob'[r].pc = "fini"
        /\ comJob'[r].montant = comJob[r].montant
    BY DEF ComRefleter, ComPasse, OpsInv, ComInv, ComTypeOK
  <2> QED BY <2>1, <2>2
<1>2. /\ tx'[t].commission = comJob[r].montant /\ tx'[t].statut = tx[t].statut
      /\ tx'[t].reversal = tx[t].reversal
      /\ \A u \in Lignes \ {t} : tx'[u] = tx[u]
  BY <1>1 DEF ComRefleter, Ligne, OpsInv, MetierInv, TypeInv, TypeOK, StoreTypeOK
<1>3. \A u : GainsDe(u)' = GainsDe(u)
  BY <1>1 DEF GainsDe
<1>4. Lots'
  BY <1>1 DEF GainInv, Lots
<1>5. UneFois'
  BY <1>1, UneFoisReste DEF GainInv
<1>6. Servie(t)'
  <2>1. ~ Porte(r) /\ \A q \in Requetes \ {r} : Porte(q)' <=> Porte(q)
    BY <1>1 DEF Porte, Attente, ComDeclenche
  <2> QED BY <1>1, <1>2, <1>3, <2>1 DEF GainInv, Servie
<1>7. Gagnee(t)'
  <2> SUFFICES ASSUME Simple(t)'
               PROVE  /\ \A q \in Requetes : req[q].cible = t /\ comJob'[q].pc = "creee" => q \in gains
                      /\ r \in GainsDe(t)
                      /\ t \notin croisees => \A g \in GainsDe(t) : g = r
    BY <1>1, <1>2, <1>3 DEF Gagnee
  <2>1. Simple(t)
    BY <1>1, <1>2 DEF Simple
  <2>2. \A q \in Requetes : req[q].cible = t /\ comJob[q].pc = "creee" => q \in gains
    BY <1>1, <2>1 DEF GainInv, Gagnee
  <2>3. r \in GainsDe(t)
    BY <1>1, <2>2 DEF GainsDe
  <2>4. \A q \in Requetes : comJob'[q].pc = "creee" => comJob[q].pc = "creee"
    BY <1>1
  <2>5. t \notin croisees => \A g \in GainsDe(t) : g = r
    BY <1>1, <2>3 DEF GainInv, UneFois
  <2> QED BY <2>2, <2>3, <2>4, <2>5
<1> QED BY <1>1, <1>2, <1>4, <1>5, <1>6, <1>7, JobGains

LEMMA NextGains ==
  ASSUME OpsInv, GainInv, [OpsNext]_opsVars
  PROVE  GainInv'
<1>1. CASE [Next]_vars /\ UNCHANGED comVars
  <2>1. Arretes /\ [Next]_vars
    BY <1>1 DEF Arretes, comVars
  <2> QED BY <2>1, ServiceGains
<1>2. CASE Panne
  <2>1. Arretes /\ [Next]_vars
    BY <1>2 DEF Arretes, Panne, PerdreCommission, Next, OpsInv, ComInv, ComTypeOK
  <2> QED BY <2>1, ServiceGains
<1>3. ASSUME NEW r \in Requetes, Float(r) PROVE GainInv'
  <2>1. UNCHANGED <<tx, gains, reversals, req, comJob, croisees>>
    BY <1>3, FloatOps DEF Float, Restes, comVars
  <2>2. \A t : GainsDe(t)' = GainsDe(t) /\ (Simple(t)' <=> Simple(t))
    BY <2>1 DEF GainsDe, Simple
  <2>3. \A r1 \in Requetes : Porte(r1)' <=> Porte(r1)
    BY <2>1 DEF Porte, Attente, ComDeclenche
  <2>4. Lots' /\ UneFois'
    BY <2>1, <2>2 DEF GainInv, Lots, UneFois
  <2>5. \A t \in Lignes : Servie(t)' /\ Gagnee(t)'
    BY <2>1, <2>2, <2>3 DEF GainInv, Servie, Gagnee
  <2> QED BY <2>4, <2>5 DEF GainInv
<1>4. ASSUME NEW r \in Requetes, Commission(r) PROVE GainInv'
  BY <1>4, ListeGains, PasGains, CalculerGains, InsererGains, RefleterGains DEF Commission, ComEtape
<1>5. ASSUME NEW r \in Requetes, Comptabilite(r) PROVE [Next]_vars /\ UNCHANGED comVars
  BY <1>5, CptOps DEF Comptabilite
<1> QED BY <1>1, <1>2, <1>3, <1>4, <1>5 DEF OpsNext, opsVars, Next

LEMMA GainToujours == OpsSpec => [](OpsInv /\ GainInv)
<1>1. OpsInit => GainInv
  <2> SUFFICES ASSUME OpsInit PROVE GainInv
    OBVIOUS
  <2>1. /\ \A r \in Requetes : req[r].op = "aucune" /\ comJob[r].pc = "repos"
        /\ gains = {}
    BY DEF OpsInit, Init, StoreInit, ComInit
  <2>2. ASSUME NEW t \in Lignes
        PROVE  /\ tx[t].statut # "COMPLETED"
               /\ tx[t] \in Ligne => tx[t].commission = 0
    <3>1. tx[t] = Vide \/ \E ty \in Types, a \in Agents, m \in Montants : tx[t] = Nouvelle(ty, a, m)
      BY DEF OpsInit, Init, StoreInit
    <3>2. CASE tx[t] = Vide
      BY <3>2, VideAbsent
    <3>3. CASE \E ty \in Types, a \in Agents, m \in Montants : tx[t] = Nouvelle(ty, a, m)
      BY <3>3 DEF Nouvelle
    <3> QED BY <3>1, <3>2, <3>3
  <2>3. \A t : GainsDe(t) = {}
    BY <2>1 DEF GainsDe
  <2>4. Lots /\ UneFois
    BY <2>1, <2>3 DEF Lots, UneFois
  <2>5. ASSUME NEW t \in Lignes PROVE Servie(t) /\ Gagnee(t)
    BY <2>1, <2>2, <2>3 DEF Servie, Gagnee, Simple
  <2> QED BY <2>4, <2>5 DEF GainInv
<1>2. OpsInv /\ GainInv /\ [OpsNext]_opsVars => GainInv'
  BY NextGains
<1> QED BY <1>1, <1>2, OpsToujours, PTL DEF OpsSpec

(* A completed row keeps an earning, whatever deletes, computes again or   *)
(* overwrites it, as long as every job about it found an amount or an      *)
(* earning and none failed or was lost.                                    *)
THEOREM GainsConserves == OpsSpec => []GainConserve
<1>1. OpsInv /\ GainInv => GainConserve
  <2> SUFFICES ASSUME OpsInv, GainInv, NEW t \in Lignes \ reversals,
                      tx[t].statut = "COMPLETED", ComRegle(t)
               PROVE  GainsDe(t) # {}
    BY DEF GainConserve
  <2>1. \A r \in Requetes : req[r].cible = t => ~ Porte(r)
    BY DEF ComRegle, Porte, Attente, ComDeclenche
  <2> QED BY <2>1 DEF GainInv, Servie
<1> QED BY <1>1, GainToujours, PTL

(* A row has one earning at most, unless two jobs looked for one before    *)
(* either inserted its own.                                                *)
THEOREM GainsUniques == OpsSpec => []GainUnique
<1>1. OpsInv /\ GainInv => GainUnique
  <2> SUFFICES ASSUME OpsInv, GainInv, NEW t \in Lignes \ croisees
               PROVE  ~ (Cardinality(GainsDe(t)) > 1)
    BY DEF GainUnique
  <2>1. \A g, h \in GainsDe(t) : g = h
    BY DEF GainInv, UneFois
  <2>2. CASE GainsDe(t) = {}
    BY <2>2, FS_EmptySet
  <2>3. CASE GainsDe(t) # {}
    <3>1. PICK g : GainsDe(t) = {g}
      BY <2>1, <2>3
    <3> QED BY <3>1, FS_Singleton
  <2> QED BY <2>2, <2>3
<1> QED BY <1>1, GainToujours, PTL

(* The commission a row shows was earned, and the earning that was copied  *)
(* is the one shown, whichever of the two writes failed or was lost.       *)
THEOREM CommissionsGagnees == OpsSpec => []CommissionGagnee
<1>1. OpsInv /\ GainInv => CommissionGagnee
  <2> SUFFICES ASSUME OpsInv, GainInv, NEW t \in Lignes, tx[t] # Vide, tx[t].reversal = Aucun,
                      \A r \in Requetes : req[r].cible = t => req[r].op # "recalculate"
               PROVE  /\ tx[t].commission # 0 => \E g \in GainsDe(t) : comJob[g].montant = tx[t].commission
                      /\ t \notin croisees =>
                           \A g \in GainsDe(t) : comJob[g].pc = "fini" =>
                             comJob[g].montant = tx[t].commission
    BY DEF CommissionGagnee
  <2>1. Simple(t)
    BY LigneConnue DEF Simple
  <2> QED BY <2>1 DEF GainInv, Gagnee
<1> QED BY <1>1, GainToujours, PTL
-----------------------------------------------------------------------------
(* The three books *)

(* Unless an overlapping request overwrote it, a row whose audit log shows *)
(* a completion is COMPLETED or REVERSED.                                  *)
Constats == \A t \in Lignes \ courses : Completee(t) => Faite(t)

(* Appending another record adds no completion to a log.                   *)
LEMMA LogMoins ==
  ASSUME TypeInv, NEW t \in Lignes, NEW s \in Statuts \ {"COMPLETED"},
         audit' = [audit EXCEPT ![t] = Append(@, s)]
  PROVE  \A u \in Lignes : Completee(u)' => Completee(u)
<1>1. audit \in [Lignes -> Seq(Statuts)]
  BY DEF TypeInv, TypeOK
<1>2. \A i \in DOMAIN audit'[t] : \/ i \in DOMAIN audit[t] /\ audit'[t][i] = audit[t][i]
                                  \/ audit'[t][i] = s
  BY <1>1
<1>3. \A u \in Lignes \ {t} : audit'[u] = audit[u]
  BY <1>1
<1> QED BY <1>2, <1>3 DEF Completee

LEMMA NextConstats ==
  ASSUME ServiceInv, Constats, [Next]_vars
  PROVE  Constats'
<1>1. TypeInv /\ tx \in [Lignes -> Ligne \cup {Vide}]
  BY DEF ServiceInv, TypeInv, TypeOK, StoreTypeOK
<1>2. CASE UNCHANGED <<tx, audit, courses>>
  BY <1>2 DEF Constats, Completee, Faite
<1>3. ASSUME NEW r \in Requetes, Inserer(r) PROVE Constats'
  <2>1. tx[r] = Vide /\ r \in Lignes /\ courses' = courses /\ \A u \in Lignes \ {r} : tx'[u] = tx[u]
    BY <1>1, <1>3 DEF Inserer, TypeInv, Frais, Lignes
  <2>2. \A u \in Lignes : Completee(u)' => Completee(u)
    BY <1>1, <1>3, <2>1, LogMoins DEF Inserer, Statuts
  <2> QED BY <2>1, <2>2, VideAbsent DEF Constats, Faite
<1>4. ASSUME NEW r \in Requetes, NEW t \in Lignes, Annuler(r, t) PROVE Constats'
  <2>1. /\ req[r].vu = "PENDING" /\ courses \subseteq courses'
        /\ t \notin courses' => tx[t].statut = "PENDING"
    BY <1>4, EcritSait DEF Annuler, Attendu, Noter
  <2>2. \A u \in Lignes \ {t} : tx'[u] = tx[u]
    BY <1>1, <1>4 DEF Annuler
  <2>3. \A u \in Lignes : Completee(u)' => Completee(u)
    BY <1>1, <1>4, LogMoins DEF Annuler, Statuts
  <2> QED BY <2>1, <2>2, <2>3 DEF Constats, Faite
<1>5. ASSUME NEW r \in Requetes, NEW t \in Lignes, Completer(r, t) PROVE Constats'
  <2>1. tx[t] \in Ligne /\ courses \subseteq courses'
    BY <1>5, EcritSait DEF Completer, Attendu, Noter
  <2>2. tx'[t].statut = "COMPLETED" /\ \A u \in Lignes \ {t} : tx'[u] = tx[u]
    BY <1>1, <1>5, <2>1 DEF Completer, Ligne
  <2>3. \A u \in Lignes \ {t} : audit'[u] = audit[u]
    BY <1>1, <1>5 DEF Completer, TypeInv, TypeOK
  <2> QED BY <2>1, <2>2, <2>3 DEF Constats, Completee, Faite
<1>6. ASSUME NEW r \in Requetes, NEW t \in Lignes, Reverser(r, t) PROVE Constats'
  <2>1. tx[t] \in Ligne /\ tx[r] = Vide /\ t # r /\ r \in Lignes /\ courses \subseteq courses'
    BY <1>6, EcritSait DEF Reverser, Attendu, Noter
  <2>2. tx'[t].statut = "REVERSED" /\ \A u \in Lignes \ {t, r} : tx'[u] = tx[u]
    BY <1>1, <1>6, <2>1 DEF Reverser, Ligne
  <2>3. \A u \in Lignes : Completee(u)' => Completee(u)
    BY <1>1, <1>6, LogMoins DEF Reverser, Statuts
  <2> QED BY <2>1, <2>2, <2>3, VideAbsent DEF Constats, Faite
<1> QED BY <1>2, <1>3, <1>4, <1>5, <1>6
        DEF Next, Service, Statut, Etape, vars, Suspendre, Activer, LireCreation, Lire, Emettre,
            PerdreRequetes

LEMMA OpsConstats ==
  ASSUME OpsInv, ServiceInv, Constats, [OpsNext]_opsVars
  PROVE  Constats'
<1>1. CASE [Next]_vars
  BY <1>1, NextConstats
<1>2. CASE Neutre
  BY <1>2 DEF Neutre, Constats, Completee, Faite
<1> QED BY <1>1, <1>2, OpsNeutre

(* A job of the accounting listener that is over has found or inserted the *)
(* entry of its row, if there are entries for such a type.                 *)
Livree(t) == journal[t] # PasDEcriture \/ TypeComptable(tx[t].type) \notin Comptabilises

CptLivre ==
  /\ \A r \in Requetes : cptJob[r].pc = "fini" => Livree(req[r].cible)
  /\ \A t \in Lignes : journal[t] # PasDEcriture => TypeComptable(tx[t].type) \in Comptabilises

(* A row of a job that is over keeps its entry.                            *)
LEMMA CptLivreTient ==
  ASSUME OpsInv, CptLivre, Croissante, Fidele,
         \A t \in Lignes : journal[t] # PasDEcriture => journal'[t] # PasDEcriture,
         \A t \in Lignes : journal'[t] # PasDEcriture /\ journal[t] = PasDEcriture =>
           tx[t] \in Ligne /\ TypeComptable(tx[t].type) \in Comptabilises,
         \A r \in Requetes : cptJob'[r].pc = "fini" =>
           cptJob[r].pc = "fini" \/ (CptDeclenche(r) /\ Livree(req[r].cible)')
  PROVE  CptLivre'
<1>0. ASSUME NEW t \in Lignes, journal'[t] # PasDEcriture
      PROVE  TypeComptable(tx'[t].type) \in Comptabilises
  <2>1. tx[t] \in Ligne /\ TypeComptable(tx[t].type) \in Comptabilises
    BY <1>0 DEF CptLivre, OpsInv, CptInv
  <2> QED BY <2>1 DEF Croissante
<1> SUFFICES ASSUME NEW r \in Requetes, cptJob'[r].pc = "fini"
             PROVE  Livree(req[r].cible)'
  BY <1>0 DEF CptLivre
<1> DEFINE t == req[r].cible
<1>1. CptDeclenche(r)
  BY DEF OpsInv, CptInv
<1>2. req'[r].cible = t /\ t \in Lignes /\ tx[t] \in Ligne /\ tx'[t].type = tx[t].type
  BY <1>1 DEF CptDeclenche, Fidele, Croissante, OpsInv, MetierInv, Suivie
<1>3. CASE cptJob[r].pc = "fini"
  BY <1>2, <1>3 DEF CptLivre, Livree
<1> QED BY <1>3

LEMMA CptLivreNext ==
  ASSUME OpsInv, CptLivre, [OpsNext]_opsVars
  PROVE  CptLivre'
<1>1. Croissante /\ Fidele
  BY OpsCroit
<1>2. CASE UNCHANGED cptVars
  BY <1>1, <1>2, CptLivreTient DEF cptVars
<1>3. CASE Panne
  <2>1. \A r \in Requetes : cptJob'[r].pc = "fini" => cptJob[r].pc = "fini"
    BY <1>3 DEF Panne, PerdreComptabilite, OpsInv, CptInv, CptTypeOK
  <2> QED BY <1>1, <1>3, <2>1, CptLivreTient DEF Panne, PerdreComptabilite
<1>4. ASSUME NEW r \in Requetes, CptEtape(r) PROVE CptLivre'
  <2> DEFINE t == req[r].cible
  <2>1. /\ CptDeclenche(r) /\ UNCHANGED vars /\ t \in Lignes
        /\ journal \in [Lignes -> Ecriture \cup {PasDEcriture}]
        /\ cptJob \in [Requetes -> [pc: {"repos", "exercice", "lu", "fini", "sans_exercice",
                                         "echec", "perdu"}, commission: Nat]]
    BY <1>4, CptPas
  <2>2. \A q \in Requetes \ {r} : cptJob'[q] = cptJob[q]
    BY <1>4, <2>1 DEF CptEtape, CptExercice, CptLire, CptEchouer, CptPasser, CptInserer, CptRefuser,
                      CptPasse
  <2>3. CASE CptInserer(r)
    <3>1. /\ journal'[t] # PasDEcriture /\ \A u \in Lignes \ {t} : journal'[u] = journal[u]
          /\ TypeComptable(tx[t].type) \in Comptabilises /\ tx[t] \in Ligne
      BY <2>1, <2>3, CptPas DEF CptInserer, CptEtape, PasDEcriture
    <3>2. req' = req
      BY <2>1 DEF vars
    <3> QED BY <1>1, <2>1, <2>2, <3>1, <3>2, CptLivreTient DEF Livree
  <2>4. CASE CptPasser(r)
    <3>1. journal' = journal /\ Livree(t)
      BY <2>4 DEF CptPasser, Livree
    <3>2. tx' = tx /\ req' = req
      BY <2>1 DEF vars
    <3>3. Livree(t)'
      BY <3>1, <3>2 DEF Livree
    <3> QED BY <1>1, <2>1, <2>2, <3>1, <3>3, CptLivreTient
  <2>5. CASE CptExercice(r) \/ CptLire(r) \/ CptEchouer(r) \/ CptRefuser(r)
    <3>1. journal' = journal /\ cptJob'[r].pc # "fini"
      BY <2>1, <2>5 DEF CptExercice, CptLire, CptEchouer, CptRefuser, CptPasse
    <3> QED BY <1>1, <2>2, <3>1, CptLivreTient
  <2> QED BY <1>4, <2>3, <2>4, <2>5 DEF CptEtape
<1> QED BY <1>2, <1>3, <1>4
        DEF OpsNext, opsVars, cptVars, Float, Commission, Comptabilite, Panne

(* A row that is not there has moved nothing.                              *)
LEMMA EffetAbsent ==
  ASSUME OpsInv, IsFiniteSet(Entamees), NEW t \in Lignes, tx[t] = Vide
  PROVE  EffetNet(t) = 0
<1>1. IsFiniteSet(Concernees(t)) /\ Concernees(t) \subseteq Requetes
  BY ConcerneesFinies
<1>2. \A r \in Concernees(t) : [q \in Requetes |-> MontantSigne(q)][r] = 0
  BY <1>1, VideAbsent DEF Concernees, MontantSigne, OpsInv, FloatInv, MetierInv, Suivie
<1>3. SumFunctionOnSet([q \in Requetes |-> MontantSigne(q)], Concernees(t)) = 0
  BY <1>1, <1>2, SommeNulle
<1> QED BY <1>3 DEF EffetNet, Somme, Concernees

(* The float, the earnings and the journal agree on every settled row that *)
(* no overlapping request overwrote.                                       *)
THEOREM LivresAccordes == OpsSpec => []LivresConcordants
<1> DEFINE Inv == Constats /\ CptLivre
<1>1. OpsInit => Inv
  <2> SUFFICES ASSUME OpsInit PROVE Inv
    OBVIOUS
  <2>1. \A t \in Lignes : ~ Completee(t)
    BY DEF OpsInit, Init, Completee
  <2>2. /\ \A r \in Requetes : cptJob[r].pc = "repos"
        /\ \A t \in Lignes : journal[t] = PasDEcriture
    BY DEF OpsInit, CptInit
  <2> QED BY <2>1, <2>2 DEF Constats, CptLivre
<1>2. OpsInv /\ EffetInv /\ Inv /\ [OpsNext]_opsVars => Inv'
  BY OpsConstats, CptLivreNext DEF EffetInv
<1>3. OpsInv /\ EffetInv /\ EffetFidele /\ EffetsDeCompletion /\ GainConserve /\ Inv
        => LivresConcordants
  <2> SUFFICES ASSUME OpsInv, EffetInv, EffetFidele, EffetsDeCompletion, GainConserve, Inv,
                      NEW t \in Lignes \ (reversals \cup courses),
                      Regle(t), tx[t].statut # "REVERSED"
               PROVE  LET fait == tx[t].statut = "COMPLETED"
                      IN  /\ EffetNet(t) # 0 <=> fait /\ tx[t].type \in TypesDebit \cup TypesCredit
                          /\ GainsDe(t) # {} <=> fait
                          /\ journal[t] # PasDEcriture <=>
                               fait /\ tx[t].type \notin {"ANNULATION", "REVERSAL"}
    BY DEF LivresConcordants
  <2> DEFINE fait == tx[t].statut = "COMPLETED"
             ty == tx[t].type
             m == tx[t].montant
             mobile == ty \in TypesDebit \cup TypesCredit
  <2>1. Completee(t) => fait
    BY DEF Constats, Faite
  <2>2. GainsDe(t) # {} <=> fait
    BY <2>1 DEF EffetsDeCompletion, GainApresCompletion, GainConserve, Regle
  <2>3. ASSUME tx[t] # Vide
        PROVE  ty \in TypesFR /\ m \in Nat \ {0}
    BY <2>3, LigneConnue
  <2>4. journal[t] # PasDEcriture => fait /\ ty \notin {"ANNULATION", "REVERSAL"}
    <3> SUFFICES ASSUME journal[t] # PasDEcriture PROVE ty \notin {"ANNULATION", "REVERSAL"} /\ fait
      OBVIOUS
    <3>1. fait /\ tx[t] # Vide
      BY <2>1, VideAbsent DEF EffetsDeCompletion, EcritureDeCompletion
    <3>2. TypeComptable(ty) \in Comptabilises
      BY DEF CptLivre
    <3> QED BY <2>3, <3>1, <3>2, TypesLus
  <2>5. fait /\ ty \notin {"ANNULATION", "REVERSAL"} => journal[t] # PasDEcriture
    <3> SUFFICES ASSUME fait, ty \notin {"ANNULATION", "REVERSAL"} PROVE journal[t] # PasDEcriture
      OBVIOUS
    <3>1. PICK r \in Requetes : req[r].cible = t /\ req[r].op = "complete" /\ Passee(r)
      BY DEF EffetInv, Liees, Faite
    <3>2. CptDeclenche(r) /\ cptJob[r].pc = "fini"
      BY <3>1 DEF Regle, FloatRegle, Passee, CptDeclenche
    <3>3. TypeComptable(ty) \in Comptabilises
      BY <2>3, TypesLus, VideAbsent
    <3> QED BY <3>1, <3>2, <3>3 DEF CptLivre, Livree
  <2>6. EffetNet(t) # 0 <=> fait /\ mobile
    <3>1. CASE tx[t] = Vide
      BY <3>1, EffetAbsent, VideAbsent DEF EffetInv
    <3>2. CASE tx[t] # Vide
      <4> DEFINE c == Signe(SensCompletion(ty), m)
                 faits == Cardinality(Appliques("complete", t))
                 defaits == Cardinality(Appliques("reverse", t))
      <4>1. /\ faits = IF mobile /\ fait THEN 1 ELSE 0
            /\ defaits = 0
            /\ EffetNet(t) = IF mobile THEN (faits - defaits) * c ELSE 0 - defaits * m
        BY <3>2 DEF EffetFidele, Regle
      <4>2. m \in Nat \ {0} /\ c \in Int /\ (mobile => c # 0)
        BY <2>3, <3>2, SensOpposes DEF Signe
      <4> HIDE DEF c, faits, defaits, m, mobile, fait
      <4> QED BY <4>1, <4>2
    <3> QED BY <3>1, <3>2
  <2> QED BY <2>2, <2>4, <2>5, <2>6
<1> QED BY <1>1, <1>2, <1>3, EffetToujours, EffetsFideles, EffetsJustifies, GainsConserves, PTL DEF OpsSpec
=============================================================================
