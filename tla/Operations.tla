----------------------------- MODULE Operations -----------------------------
(***************************************************************************)
(* The core of GESTMONEY: the transaction service and the three listeners  *)
(* of its events that write (float, commissions, accounting), running in   *)
(* one Node process over one database. Listener jobs start when the event  *)
(* is emitted, interleave with everything else, and die with the process.  *)
(***************************************************************************)
EXTENDS FloatListener, CommissionListener, AccountingListener

opsVars == <<vars, floatVars, comVars, cptVars>>

OpsInit == Init /\ FloatInit /\ ComInit /\ CptInit

Float(r) == FloatEtape(r) /\ UNCHANGED <<comVars, cptVars>>

Commission(r) == ComEtape(r) /\ UNCHANGED <<floatVars, cptVars>>

Comptabilite(r) == CptEtape(r) /\ UNCHANGED <<floatVars, comVars>>

(* One restart loses the requests in flight and the jobs of all listeners. *)
Panne == PerdreRequetes /\ PerdreFloat /\ PerdreCommission /\ PerdreComptabilite

OpsNext == \/ Service /\ UNCHANGED <<floatVars, comVars, cptVars>>
           \/ Panne
           \/ \E r \in Requetes : Float(r) \/ Commission(r) \/ Comptabilite(r)

OpsSpec == OpsInit /\ [][OpsNext]_opsVars

(* The event loop runs what is ready: a listener's job goes on to its end, *)
(* and a request that committed emits its event, unless the process stops. *)
Poursuite(r) ==
  /\ WF_opsVars(Emettre(r) /\ UNCHANGED <<floatVars, comVars, cptVars>>)
  /\ WF_opsVars(Float(r))
  /\ WF_opsVars(ComActif(r) /\ Commission(r))
  /\ WF_opsVars(Comptabilite(r))

OpsEquitable == OpsSpec /\ \A r \in Requetes : Poursuite(r)

-----------------------------------------------------------------------------
(* Properties *)

OpsTypeOK == TypeOK /\ FloatTypeOK /\ ComTypeOK /\ CptTypeOK

(* Nothing about row t is in flight in any of the four components, nothing *)
(* was lost by a restart or given up by the float listener, and a fiscal   *)
(* year was open.                                                          *)
Regle(t) ==
  /\ FloatRegle(t) /\ ComRegle(t)
  /\ \A r \in Requetes : req[r].cible = t /\ CptDeclenche(r) => cptJob[r].pc = "fini"

(* The three books of a settled transaction agree with its status and with *)
(* each other: COMPLETED, it moved the float, earned a commission and was  *)
(* booked; PENDING or CANCELLED, it did none of the three. Merchant        *)
(* payments, adjustments and client-made reversals leave the float alone,  *)
(* the last two have no entry either. Left out: compensations, and rows    *)
(* that overlapping requests overwrote.                                    *)
LivresConcordants ==
  \A t \in Lignes \ (reversals \cup courses) :
    Regle(t) /\ tx[t].statut # "REVERSED" =>
      LET fait == tx[t].statut = "COMPLETED"
      IN  /\ EffetNet(t) # 0 <=> fait /\ tx[t].type \in TypesDebit \cup TypesCredit
          /\ GainsDe(t) # {} <=> fait
          /\ journal[t] # PasDEcriture <=>
               fait /\ tx[t].type \notin {"ANNULATION", "REVERSAL"}

(* An entry bears the amount of its transaction; a deposit's bears an      *)
(* amount resolved for the row, or none if it was booked before the copy,  *)
(* and no other type bears any.                                            *)
EcritureDeCompletion ==
  \A t \in Lignes : journal[t] # PasDEcriture =>
    /\ Completee(t)
    /\ journal[t].montant = tx[t].montant
    /\ journal[t].commission # 0 =>
         /\ tx[t].type \in {"DEPOT", "CASH_IN"}
         /\ \E r \in Requetes : req[r].cible = t /\ comJob[r].montant = journal[t].commission

(* A listener acts for completions only: no float is moved, no commission  *)
(* earned and no entry booked for a transaction that was never completed,  *)
(* even when its cancellation raced its completion or its completion was   *)
(* overwritten; compensations move the float of the row they reverse.      *)
EffetsDeCompletion ==
  MouvementApresCompletion /\ GainApresCompletion /\ EcritureDeCompletion

(* Every completion that commits is eventually dealt with by the three     *)
(* listeners, unless a restart forgets it: none of their jobs can be stuck *)
(* behind another, whatever was reversed or spent in the meantime.         *)
CompletionTraitee ==
  \A r \in Requetes :
    req[r].pc = "commis" /\ req[r].op = "complete" ~>
      \/ req[r].pc = "perdu"
      \/ /\ floatJob[r].pc \in {"fini", "echec", "perdu"}
         /\ comJob[r].pc \in {"fini", "sans", "echec", "perdu"}
         /\ cptJob[r].pc \in {"fini", "sans_exercice", "echec", "perdu"}

=============================================================================
