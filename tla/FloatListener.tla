--------------------------- MODULE FloatListener ---------------------------
(***************************************************************************)
(* FloatListener and the debitFloat / creditFloat methods it calls: one    *)
(* job per event, which reads the account, then moves the balance and      *)
(* records the movement in one database transaction, then (debits only)    *)
(* reads the balance again and alerts. Errors are caught and logged: the   *)
(* event is spent whatever happens.                                        *)
(***************************************************************************)
EXTENDS Transactions, Functions

CONSTANT SeuilMin  \* minimumBalance of every account; 0 disables the alert

ASSUME FloatAssumption == SeuilMin \in Nat

VARIABLES
  floatJob,    \* per event: how far its job is, and the balance it read
  mouvements,  \* table FloatMovement: the row inserted by each event's job
  alertes      \* events whose job raised LOW_BALANCE_ALERT

floatVars == <<floatJob, mouvements, alertes>>

PasDeMouvement == [sens |-> "AUCUN"]

Mouvement == [sens: {"DEBIT", "CREDIT"}, agent: Agents, montant: Montants,
              avant: Int, apres: Int]

FloatTypeOK ==
  /\ floatJob \in [Requetes -> [pc: {"repos", "lu", "ecrit", "fini", "echec", "perdu"},
                                soldeAvant: Int]]
  /\ mouvements \in [Requetes -> Mouvement \cup {PasDeMouvement}]
  /\ alertes \subseteq Requetes

FloatInit ==
  /\ floatJob = [r \in Requetes |-> [pc |-> "repos", soldeAvant |-> 0]]
  /\ mouvements = [r \in Requetes |-> PasDeMouvement]
  /\ alertes = {}

(* The transaction the event of request r carries, and what the listener   *)
(* decides to do with the float of its agent.                              *)
Objet(r) == tx[req[r].cible]

Sens(r) == IF req[r].op = "complete" THEN SensCompletion(Objet(r).type)
           ELSE SensReversal(Objet(r).type)

(* Mutation: the event is emitted before the database commit.              *)
MutFloatDeclenche(r) == req[r].pc \in {"lu", "emis"} /\ req[r].op \in {"complete", "reverse"}

FloatDeclenche(r) == req[r].pc = "emis" /\ req[r].op \in {"complete", "reverse"}

FloatActif(r) == FloatDeclenche(r) /\ floatJob[r].pc \in {"repos", "lu", "ecrit"}

FloatPasse(r, avant, apres) ==
  /\ floatJob[r].pc = avant
  /\ floatJob' = [floatJob EXCEPT ![r].pc = apres]

(* No movement for this type of transaction.                               *)
FloatIgnorer(r) ==
  /\ FloatDeclenche(r)
  /\ Sens(r) = "AUCUN"
  /\ FloatPasse(r, "repos", "fini")
  /\ UNCHANGED <<vars, mouvements, alertes>>

(* The account is there and, for a debit, its balance suffices.            *)
FloatPossible(r) ==
  /\ Objet(r).agent \in AvecFloat
  /\ Sens(r) = "DEBIT" => solde[Objet(r).agent] >= Objet(r).montant

FloatLire(r) ==
  /\ FloatDeclenche(r)
  /\ floatJob[r].pc = "repos"
  /\ Sens(r) # "AUCUN"
  /\ FloatPossible(r)
  /\ floatJob' = [floatJob EXCEPT ![r] = [pc |-> "lu", soldeAvant |-> solde[Objet(r).agent]]]
  /\ UNCHANGED <<vars, mouvements, alertes>>

FloatEchouer(r) ==
  /\ FloatDeclenche(r)
  /\ Sens(r) # "AUCUN"
  /\ ~FloatPossible(r)
  /\ FloatPasse(r, "repos", "echec")
  /\ UNCHANGED <<vars, mouvements, alertes>>

Signe(sens, montant) == IF sens = "CREDIT" THEN montant ELSE 0 - montant

(* Mutation: the new balance is computed from the one read, and written.   *)
MutBouger(r, sens) ==
  LET a == Objet(r).agent
      m == Objet(r).montant
      avant == floatJob[r].soldeAvant
  IN  /\ solde' = [solde EXCEPT ![a] = avant + Signe(sens, m)]
      /\ mouvements' = [mouvements EXCEPT ![r] =
           [sens |-> sens, agent |-> a, montant |-> m,
            avant |-> avant, apres |-> avant + Signe(sens, m)]]
      /\ UNCHANGED <<tx, reversals, gains, suspendus, agregats, audit, req, pannes, courses, alertes>>

(* The balance moves by increment or decrement, from its current value;    *)
(* the movement's balanceBefore and balanceAfter come from the one read.   *)
Bouger(r, sens) ==
  LET a == Objet(r).agent
      m == Objet(r).montant
      avant == floatJob[r].soldeAvant
  IN  /\ solde' = [solde EXCEPT ![a] = @ + Signe(sens, m)]
      /\ mouvements' = [mouvements EXCEPT ![r] =
           [sens |-> sens, agent |-> a, montant |-> m,
            avant |-> avant, apres |-> avant + Signe(sens, m)]]
      /\ UNCHANGED <<tx, reversals, gains, suspendus, agregats, audit, req, pannes, courses, alertes>>

FloatCrediter(r) ==
  /\ FloatDeclenche(r)
  /\ Sens(r) = "CREDIT"
  /\ FloatPasse(r, "lu", "fini")
  /\ Bouger(r, "CREDIT")

FloatDebiter(r) ==
  /\ FloatDeclenche(r)
  /\ Sens(r) = "DEBIT"
  /\ FloatPasse(r, "lu", "ecrit")
  /\ Bouger(r, "DEBIT")

SousSeuil(a) == SeuilMin > 0 /\ solde[a] <= SeuilMin

(* Mutation: the threshold is compared with the balance computed by the    *)
(* job instead of the one in the database.                                 *)
MutFloatVerifierSeuil(r) ==
  /\ FloatDeclenche(r)
  /\ FloatPasse(r, "ecrit", "fini")
  /\ alertes' = IF SeuilMin > 0 /\ mouvements[r].apres <= SeuilMin
                THEN alertes \cup {r} ELSE alertes
  /\ UNCHANGED <<vars, mouvements>>

FloatVerifierSeuil(r) ==
  /\ FloatDeclenche(r)
  /\ FloatPasse(r, "ecrit", "fini")
  /\ alertes' = IF SousSeuil(Objet(r).agent) THEN alertes \cup {r} ELSE alertes
  /\ UNCHANGED <<vars, mouvements>>

FloatEtape(r) ==
  \/ FloatIgnorer(r) \/ FloatLire(r) \/ FloatEchouer(r)
  \/ FloatCrediter(r) \/ FloatDebiter(r) \/ FloatVerifierSeuil(r)

(* The jobs a restart interrupts are never taken up again.                 *)
PerdreFloat ==
  /\ floatJob' = [r \in Requetes |-> IF FloatActif(r) THEN [floatJob[r] EXCEPT !.pc = "perdu"]
                                     ELSE floatJob[r]]
  /\ UNCHANGED <<mouvements, alertes>>

(* The transaction service and this listener alone.                        *)
floatSpecVars == <<vars, floatVars>>

FloatNext == \/ Service /\ UNCHANGED floatVars
             \/ \E r \in Requetes : FloatEtape(r)
             \/ PerdreRequetes /\ PerdreFloat

FloatSpecInit == Init /\ FloatInit

FloatSpec == FloatSpecInit /\ [][FloatNext]_floatSpecVars

-----------------------------------------------------------------------------
(* Properties *)

(* Nothing about row t is in flight, and nothing about it was lost by a    *)
(* restart or given up by the listener.                                    *)
FloatRegle(t) ==
  \A r \in Requetes : req[r].cible = t =>
    /\ req[r].pc \in {"emis", "fini"}
    /\ FloatDeclenche(r) => floatJob[r].pc = "fini"

MontantSigne(r) == IF mouvements[r] = PasDeMouvement THEN 0
                   ELSE Signe(mouvements[r].sens, mouvements[r].montant)

Somme(R) == SumFunctionOnSet([r \in Requetes |-> MontantSigne(r)], R)

(* The movements recorded on the account of an agent, and those caused by  *)
(* the events of a transaction.                                            *)
MouvementsDe(a) == {r \in Requetes : mouvements[r] # PasDeMouvement /\ mouvements[r].agent = a}

EffetNet(t) == Somme({r \in Requetes : req[r].cible = t})

(* No lost update: the balance of a float account is the opening balance   *)
(* plus its movements, although every job decided from a balance that may  *)
(* have changed since it read it.                                          *)
SoldeConserve == \A a \in AvecFloat : solde[a] = SoldeInitial + Somme(MouvementsDe(a))

(* The events of a method about row t that have moved the float.           *)
Appliques(op, t) ==
  {r \in Requetes : req[r].cible = t /\ req[r].op = op /\ mouvements[r] # PasDeMouvement}

(* A reversal undoes on the float what a completion of the same type does  *)
(* (and debits the types no completion moves): whatever overlaps, fails or *)
(* is lost, the movements of a row add up to its completions less its      *)
(* reversals. A row no overlapping request overwrote has moved at most     *)
(* what its status says, and exactly that when no listener gave up and no  *)
(* restart interfered: once when COMPLETED, twice when REVERSED, never     *)
(* when PENDING, CANCELLED or a compensation.                              *)
EffetFidele ==
  \A t \in Lignes : tx[t] # Vide =>
    LET l == tx[t]
        mobile == l.type \in TypesDebit \cup TypesCredit
        faits == Cardinality(Appliques("complete", t))
        defaits == Cardinality(Appliques("reverse", t))
        aFaire == IF mobile /\ t \notin reversals /\ l.statut \in {"COMPLETED", "REVERSED"}
                  THEN 1 ELSE 0
        aDefaire == IF l.statut = "REVERSED" THEN 1 ELSE 0
    IN  /\ EffetNet(t) = IF mobile
                         THEN (faits - defaits) * Signe(SensCompletion(l.type), l.montant)
                         ELSE 0 - defaits * l.montant
        /\ t \notin courses =>
             /\ faits <= aFaire /\ defaits <= aDefaire
             /\ FloatRegle(t) => faits = aFaire /\ defaits = aDefaire

(* A float account that ends below its threshold because of a debit has    *)
(* raised an alert, even when several debits overlapped and none of them   *)
(* alone crossed the threshold (the balance is read again after the debit).*)
AlerteSeuil ==
  \A a \in AvecFloat :
    /\ SousSeuil(a)
    /\ \E r \in MouvementsDe(a) : mouvements[r].sens = "DEBIT"
    /\ \A r \in MouvementsDe(a) : floatJob[r].pc = "fini"
    => \E r \in alertes : mouvements[r].agent = a

(* A row that was never completed has moved no float, even when its        *)
(* cancellation raced another request; compensations are left out.         *)
MouvementApresCompletion ==
  \A t \in Lignes \ reversals :
    (\E r \in Requetes : req[r].cible = t /\ mouvements[r] # PasDeMouvement)
      => Completee(t)

-----------------------------------------------------------------------------
(* Claims of the repository that the code does not keep *)

(* A debit that the balance does not cover is refused                      *)
(* (float.service.spec.ts:97), so a balance never goes below zero.         *)
SoldeJamaisNegatif == \A a \in AvecFloat : solde[a] >= 0

(* Reversing a transaction undoes what its completion did to the float     *)
(* (float.listener.ts:88): once both listeners are done, whatever each of  *)
(* them could do, nothing is left of it.                                   *)
ReversalNeutre ==
  \A t \in Lignes \ (courses \cup reversals) :
    /\ tx[t].statut = "REVERSED"
    /\ \A r \in Requetes : req[r].cible = t => req[r].pc = "emis" /\ ~FloatActif(r)
    => EffetNet(t) = 0
=============================================================================
