----------------------------- MODULE Ecouteurs -----------------------------
(***************************************************************************)
(* The transaction service beside one of the two listeners that move money *)
(* at a time: FloatListener or CommissionListener (with its batch), chosen *)
(* at the start of a behaviour. They share only the tables of the service, *)
(* so that more requests can overlap than when all listeners run together. *)
(***************************************************************************)
EXTENDS FloatListener, CommissionListener

VARIABLE actif  \* the listener this behaviour exercises

ecouteursVars == <<vars, floatVars, comVars, actif>>

EcouteursInit ==
  /\ Init /\ FloatInit /\ ComInit
  /\ actif \in {"float", "commissions"}

ParFloat == actif = "float" /\ FloatNext /\ UNCHANGED <<comVars, actif>>

ParCommissions == actif = "commissions" /\ ComNext /\ UNCHANGED <<floatVars, actif>>

EcouteursNext == ParFloat \/ ParCommissions

EcouteursSpec == EcouteursInit /\ [][EcouteursNext]_ecouteursVars
=============================================================================
