------------------------- MODULE CommissionListener -------------------------
(***************************************************************************)
(* CommissionListener and the recordCommission it calls, also called row   *)
(* by row by the recalculation batch: look for an earning of the           *)
(* transaction, read the transaction again (whatever its status), resolve  *)
(* the commission, insert the earning, then copy the amount onto the       *)
(* transaction. The database calls are separate steps, any of which may    *)
(* fail: the listener logs the error, the batch stops at it.               *)
(***************************************************************************)
EXTENDS Transactions

(* The gross amounts a resolution may find. Which one, and whether any,    *)
(* depends on the plan in force that day, its tiers, the agent's volume    *)
(* and what is left of the monthly cap: it may differ at every resolution. *)
CONSTANT Commissions

ASSUME CommissionAssumption == Commissions \subseteq Nat \ {0}

VARIABLES
  comJob,   \* per event or recalculated row: how far its job is, and the
            \* gross amount it resolved, which is that of its earning
  croisees  \* history: the rows two jobs computed at once; never in a guard

comVars == <<comJob, croisees>>

ComTypeOK ==
  /\ comJob \in [Requetes -> [pc: {"repos", "liste", "calculee", "creee", "fini", "sans",
                                   "echec", "perdu"},
                              montant: Commissions \cup {0}]]
  /\ croisees \subseteq Lignes

ComInit ==
  /\ comJob = [r \in Requetes |-> [pc |-> "repos", montant |-> 0]]
  /\ croisees = {}

GainsDe(t) == {g \in gains : req[g].cible = t}

(* Mutation: the event is emitted before the database commit.              *)
MutComDeclenche(r) == req[r].pc \in {"lu", "emis"} /\ req[r].op \in {"complete", "recalculate"}

ComDeclenche(r) == req[r].pc = "emis" /\ req[r].op \in {"complete", "recalculate"}

ComActif(r) ==
  ComDeclenche(r) /\ comJob[r].pc \in {"repos", "liste", "calculee", "creee"}

ComPasse(r, avant, apres) ==
  /\ ComDeclenche(r)
  /\ comJob[r].pc = avant
  /\ comJob' = [comJob EXCEPT ![r].pc = apres]

(* recalculate: the row is listed while COMPLETED, its earnings are        *)
(* deleted later, and recordCommission follows as for an event.            *)
RecalculLister(r, t) ==
  /\ "recalculate" \in Operations
  /\ req[r].pc = "repos"
  /\ tx[t].statut = "COMPLETED"
  /\ req' = [req EXCEPT ![r] = [op |-> "recalculate", cible |-> t, ligne |-> Vide,
                                vu |-> "COMPLETED", pc |-> "emis"]]
  /\ comJob' = [comJob EXCEPT ![r].pc = "liste"]
  /\ UNCHANGED <<tx, reversals, gains, solde, suspendus, agregats, audit, pannes, courses, croisees>>

(* Mutation: the batch deletes the earnings once it has found or inserted  *)
(* its own.                                                                *)
MutComExistant(r) ==
  /\ GainsDe(req[r].cible) # {}
  /\ ComPasse(r, "repos", "fini")
  /\ gains' = IF req[r].op = "recalculate" THEN gains \ GainsDe(req[r].cible) ELSE gains
  /\ UNCHANGED <<tx, reversals, solde, suspendus, agregats, audit, req, pannes, courses, croisees>>

RecalculPurger(r) ==
  /\ ComPasse(r, "liste", "repos")
  /\ gains' = gains \ GainsDe(req[r].cible)
  /\ UNCHANGED <<tx, reversals, solde, suspendus, agregats, audit, req, pannes, courses, croisees>>

(* The transaction has an earning: nothing to do.                          *)
ComExistant(r) ==
  /\ GainsDe(req[r].cible) # {}
  /\ ComPasse(r, "repos", "fini")
  /\ UNCHANGED <<vars, croisees>>

(* No network, plan in force or tier applies, or the cap is reached.       *)
ComSans(r) ==
  /\ GainsDe(req[r].cible) = {}
  /\ ComPasse(r, "repos", "sans")
  /\ UNCHANGED <<vars, croisees>>

(* Another job has looked for an earning of the row and not inserted yet.  *)
Croise(r) ==
  \E q \in Requetes \ {r} : req[q].cible = req[r].cible /\ comJob[q].pc = "calculee"

(* Mutation: the earning is not looked for.                                *)
MutComCalculer(r, m) ==
  /\ ComDeclenche(r)
  /\ comJob[r].pc = "repos"
  /\ comJob' = [comJob EXCEPT ![r] = [pc |-> "calculee", montant |-> m]]
  /\ croisees' = IF Croise(r) THEN croisees \cup {req[r].cible} ELSE croisees
  /\ UNCHANGED vars

ComCalculer(r, m) ==
  /\ ComDeclenche(r)
  /\ comJob[r].pc = "repos"
  /\ GainsDe(req[r].cible) = {}
  /\ comJob' = [comJob EXCEPT ![r] = [pc |-> "calculee", montant |-> m]]
  /\ croisees' = IF Croise(r) THEN croisees \cup {req[r].cible} ELSE croisees
  /\ UNCHANGED vars

(* Mutation: the amount is copied first, the earning is inserted after.    *)
MutComInserer(r) ==
  /\ ComPasse(r, "calculee", "creee")
  /\ tx' = [tx EXCEPT ![req[r].cible].commission = comJob[r].montant]
  /\ UNCHANGED <<gains, reversals, solde, suspendus, agregats, audit, req, pannes, courses, croisees>>

ComInserer(r) ==
  /\ ComPasse(r, "calculee", "creee")
  /\ gains' = gains \cup {r}
  /\ UNCHANGED <<tx, reversals, solde, suspendus, agregats, audit, req, pannes, courses, croisees>>

ComRefleter(r) ==
  /\ ComPasse(r, "creee", "fini")
  /\ tx' = [tx EXCEPT ![req[r].cible].commission = comJob[r].montant]
  /\ UNCHANGED <<reversals, gains, solde, suspendus, agregats, audit, req, pannes, courses, croisees>>

(* A database call failed: the listener's event is spent, and so is what   *)
(* was left of the batch; what was written before stays.                   *)
ComEchouer(r) ==
  /\ ComActif(r)
  /\ comJob' = [comJob EXCEPT ![r].pc = "echec"]
  /\ UNCHANGED <<vars, croisees>>

ComEtape(r) ==
  \/ \E t \in Lignes : RecalculLister(r, t)
  \/ RecalculPurger(r) \/ ComExistant(r) \/ ComSans(r)
  \/ \E m \in Commissions : ComCalculer(r, m)
  \/ ComInserer(r) \/ ComRefleter(r) \/ ComEchouer(r)

PerdreCommission ==
  /\ comJob' = [r \in Requetes |-> IF ComActif(r) THEN [comJob[r] EXCEPT !.pc = "perdu"]
                                   ELSE comJob[r]]
  /\ UNCHANGED croisees

(* The transaction service and this listener alone.                        *)
comSpecVars == <<vars, comVars>>

ComNext == \/ Service /\ UNCHANGED comVars
           \/ \E r \in Requetes : ComEtape(r)
           \/ PerdreRequetes /\ PerdreCommission

ComSpecInit == Init /\ ComInit

ComSpec == ComSpecInit /\ [][ComNext]_comSpecVars

-----------------------------------------------------------------------------
(* Properties *)

(* Nothing about row t is in flight or was lost by a restart, no job gave  *)
(* up, and each of them found an amount or an earning.                     *)
ComRegle(t) ==
  \A r \in Requetes : req[r].cible = t =>
    /\ req[r].pc \in {"emis", "fini"}
    /\ ComDeclenche(r) => comJob[r].pc = "fini"

(* At most one earning per transaction, although recordCommission looks    *)
(* for one and inserts later: however many completions, batches, failures  *)
(* and restarts follow each other, two earnings need two jobs that both    *)
(* looked before either inserted.                                          *)
GainUnique == \A t \in Lignes : Cardinality(GainsDe(t)) > 1 => t \in croisees

(* The commission a row shows, and the earning it comes from, are written  *)
(* apart, and either write may fail: as long as the row was not reversed   *)
(* and no batch went over it, the amount shown has been earned, and the    *)
(* amount earned is shown once it has been copied (jobs that crossed may   *)
(* each have their own).                                                   *)
CommissionGagnee ==
  \A t \in Lignes :
    /\ tx[t] # Vide /\ tx[t].reversal = Aucun
    /\ \A r \in Requetes : req[r].cible = t => req[r].op # "recalculate"
    => /\ tx[t].commission # 0 => \E g \in GainsDe(t) : comJob[g].montant = tx[t].commission
       /\ t \notin croisees =>
            \A g \in GainsDe(t) : comJob[g].pc = "fini" => comJob[g].montant = tx[t].commission

(* A completed row keeps an earning although batches delete it before they *)
(* compute it again, beside the listener and each other, even overlapping  *)
(* a reversal the row was then completed again from: as long as every job  *)
(* found an amount or an earning and failed nowhere, one is left.          *)
GainConserve ==
  \A t \in Lignes \ reversals :
    tx[t].statut = "COMPLETED" /\ ComRegle(t) => GainsDe(t) # {}

(* No commission is earned on a transaction that was not completed, by the *)
(* listener or by a batch; compensations are born COMPLETED.               *)
GainApresCompletion ==
  \A t \in Lignes \ reversals : GainsDe(t) # {} => Completee(t)

-----------------------------------------------------------------------------
(* Claims of the repository that the code does not keep *)

(* Reversing a transaction cancels the commission it generated             *)
(* (transactions.service.ts:541).                                          *)
ReversalSansGain ==
  \A t \in Lignes :
    tx[t] # Vide /\ tx[t].statut = "REVERSED" /\ ComRegle(t) => GainsDe(t) = {}
=============================================================================
