--------------------------- MODULE Replenishment ---------------------------
(***************************************************************************)
(* The replenishment requests of FloatService about one float account:     *)
(* requested, then approved or rejected by a call that reads the row,      *)
(* writes the decision by id alone, and (approvals) credits the account in *)
(* two more calls. Requests of an approver are approved as they are made.  *)
(***************************************************************************)
EXTENDS Appels, Functions

CONSTANT SoldeDepart  \* balance of the account when the observation starts

ASSUME ReplenishmentAssumption == SoldeDepart \in Nat

VARIABLES
  demandes,    \* table ReplenishmentRequest: one row per call that inserts one
  soldeCompte, \* FloatAccount.balance
  credits,     \* table FloatMovement: the credit each call recorded
  rechJob,     \* progress of each call
  depassees    \* calls whose decision was written on a row changed since read

rechVars == <<demandes, soldeCompte, credits, rechJob, depassees>>

StatutsDemande == {"PENDING", "APPROVED", "REJECTED"}

PasDeDemande == [statut |-> "ABSENTE", demande |-> 0, approuve |-> 0]

Demande(statut, demande, approuve) ==
  [statut |-> statut, demande |-> demande, approuve |-> approuve]

PasDeCredit == [cible |-> Rien, montant |-> 0, avant |-> 0, apres |-> 0]

JobDemande == [op: {"aucune", "demander", "approuver", "rejeter"},
               cible: Appels \cup {Rien}, vu: StatutsDemande \cup {"ABSENTE"},
               montant: Quantites \cup {0}, avant: Int,
               pc: {"repos", "lu", "decide", "compte", "fini", "perdu"}]

RechTypeOK ==
  /\ demandes \in [Appels -> [statut: StatutsDemande \cup {"ABSENTE"},
                              demande: Quantites \cup {0}, approuve: Quantites \cup {0}]]
  /\ soldeCompte \in Int
  /\ credits \in [Appels -> [cible: Appels \cup {Rien}, montant: Quantites \cup {0},
                             avant: Int, apres: Int]]
  /\ rechJob \in [Appels -> JobDemande]
  /\ depassees \subseteq Appels

RechInit ==
  /\ demandes = [c \in Appels |-> PasDeDemande]
  /\ soldeCompte = SoldeDepart
  /\ credits = [c \in Appels |-> PasDeCredit]
  /\ rechJob = [c \in Appels |-> [op |-> "aucune", cible |-> Rien, vu |-> "ABSENTE",
                                  montant |-> 0, avant |-> 0, pc |-> "repos"]]
  /\ depassees = {}

RechCommencer(c, op, d, vu, q, pc) ==
  /\ rechJob[c].pc = "repos"
  /\ rechJob' = [rechJob EXCEPT ![c] = [op |-> op, cible |-> d, vu |-> vu,
                                        montant |-> q, avant |-> 0, pc |-> pc]]

RechPasse(c, avant, apres) ==
  /\ rechJob[c].pc = avant
  /\ rechJob' = [rechJob EXCEPT ![c].pc = apres]

(* requestReplenishment by an agent: the row waits for a decision.         *)
Demander(c, q) ==
  /\ RechCommencer(c, "demander", c, "ABSENTE", q, "fini")
  /\ demandes' = [demandes EXCEPT ![c] = Demande("PENDING", q, 0)]
  /\ UNCHANGED <<arrets, soldeCompte, credits, depassees>>

(* The same by an approver: the row is born APPROVED, the credit follows.  *)
DemanderApprouvee(c, q) ==
  /\ RechCommencer(c, "demander", c, "ABSENTE", q, "decide")
  /\ demandes' = [demandes EXCEPT ![c] = Demande("APPROVED", q, q)]
  /\ UNCHANGED <<arrets, soldeCompte, credits, depassees>>

(* Mutation: any row of the tenant can be decided upon.                    *)
MutLireDemande(c, op, d, q) ==
  /\ demandes[d].statut # "ABSENTE"
  /\ RechCommencer(c, op, d, demandes[d].statut, q, "lu")
  /\ UNCHANGED <<arrets, demandes, soldeCompte, credits, depassees>>

(* A decision is read for: the row is PENDING. The amount approved is the  *)
(* one of the approver, or the one requested.                              *)
LireDemande(c, op, d, q) ==
  /\ demandes[d].statut = "PENDING"
  /\ RechCommencer(c, op, d, demandes[d].statut, q, "lu")
  /\ UNCHANGED <<arrets, demandes, soldeCompte, credits, depassees>>

Depassee(c, d) == IF demandes[d].statut # rechJob[c].vu THEN depassees \cup {c} ELSE depassees

Approuver(c, d) ==
  /\ rechJob[c].op = "approuver" /\ rechJob[c].cible = d
  /\ RechPasse(c, "lu", "decide")
  /\ demandes' = [demandes EXCEPT ![d].statut = "APPROVED",
                                  ![d].approuve = rechJob[c].montant]
  /\ depassees' = Depassee(c, d)
  /\ UNCHANGED <<arrets, soldeCompte, credits>>

(* A rejection leaves the approved amount alone.                           *)
RejeterDemande(c, d) ==
  /\ rechJob[c].op = "rejeter" /\ rechJob[c].cible = d
  /\ RechPasse(c, "lu", "fini")
  /\ demandes' = [demandes EXCEPT ![d].statut = "REJECTED"]
  /\ depassees' = Depassee(c, d)
  /\ UNCHANGED <<arrets, soldeCompte, credits>>

(* creditFloatById: the balance is read for the movement...                *)
LireCompte(c) ==
  /\ rechJob[c].pc = "decide"
  /\ rechJob' = [rechJob EXCEPT ![c].pc = "compte", ![c].avant = soldeCompte]
  /\ UNCHANGED <<arrets, demandes, soldeCompte, credits, depassees>>

Credit(c) == [cible |-> rechJob[c].cible, montant |-> rechJob[c].montant,
              avant |-> rechJob[c].avant, apres |-> rechJob[c].avant + rechJob[c].montant]

(* Mutation: the amount requested is credited, not the one approved.       *)
MutCrediter(c) ==
  /\ RechPasse(c, "compte", "fini")
  /\ soldeCompte' = soldeCompte + demandes[rechJob[c].cible].demande
  /\ credits' = [credits EXCEPT ![c] = [Credit(c) EXCEPT !.montant =
                                          demandes[rechJob[c].cible].demande]]
  /\ UNCHANGED <<arrets, demandes, depassees>>

(* ... then incremented, and the movement recorded, in one transaction.    *)
Crediter(c) ==
  /\ RechPasse(c, "compte", "fini")
  /\ soldeCompte' = soldeCompte + rechJob[c].montant
  /\ credits' = [credits EXCEPT ![c] = Credit(c)]
  /\ UNCHANGED <<arrets, demandes, depassees>>

RechEtape(c) ==
  \/ \E q \in Quantites : Demander(c, q) \/ DemanderApprouvee(c, q)
  \/ \E d \in Appels : \/ \E q \in Quantites : LireDemande(c, "approuver", d, q)
                      \/ LireDemande(c, "rejeter", d, 0)
                      \/ Approuver(c, d) \/ RejeterDemande(c, d)
  \/ LireCompte(c) \/ Crediter(c)

RechArret ==
  /\ arrets < MaxArrets
  /\ arrets' = arrets + 1
  /\ rechJob' = [c \in Appels |-> [rechJob[c] EXCEPT !.pc = Interrompu(@)]]
  /\ UNCHANGED <<demandes, soldeCompte, credits, depassees>>

RechNext == RechArret \/ \E c \in Appels : RechEtape(c)

RechSpec == RechInit /\ arrets = 0 /\ [][RechNext]_<<rechVars, arrets>>

-----------------------------------------------------------------------------
(* Properties *)

(* The credits recorded on the account.                                    *)
Enregistres == SumFunctionOnSet([c \in Appels |-> credits[c].montant], Appels)

CreditsDe(d) == {c \in Appels : credits[c].cible = d}

(* Every call about request d is over, none was forgotten by a restart.    *)
DemandeReglee(d) ==
  \A c \in Appels : rechJob[c].cible = d => rechJob[c].pc = "fini"

(* A request whose decisions did not overlap has credited the account once *)
(* if it is APPROVED, by the amount that was approved, and never if it is  *)
(* not; and the balance is the opening one plus the credits recorded, even *)
(* when credits overlap: only their balanceBefore and balanceAfter suffer. *)
RechargeExacte ==
  /\ soldeCompte = SoldeDepart + Enregistres
  /\ \A d \in Appels :
       /\ DemandeReglee(d)
       /\ \A c \in depassees : rechJob[c].cible # d
       => {credits[c].montant : c \in CreditsDe(d)} =
            (IF demandes[d].statut = "APPROVED" THEN {demandes[d].approuve} ELSE {})
          /\ Cardinality(CreditsDe(d)) <= 1
=============================================================================
