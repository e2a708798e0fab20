-------------------------- MODULE TransactionTypes --------------------------
(***************************************************************************)
(* The vocabulary of mobile-money transactions: the business types of the  *)
(* DTOs, the enum stored in the database, the conversions between them and *)
(* the effect each type has on the agent's float.                          *)
(***************************************************************************)

TypesFR == {"DEPOT", "RETRAIT", "CASH_IN", "CASH_OUT",
            "PAIEMENT_MARCHAND", "TRANSFERT", "ANNULATION", "REVERSAL"}

TypesPrisma == {"DEPOSIT", "WITHDRAWAL", "TRANSFER", "PAYMENT",
                "AIRTIME_PURCHASE", "BILL_PAYMENT", "FLOAT_REPLENISHMENT",
                "FLOAT_WITHDRAWAL", "COMMISSION_PAYMENT", "REVERSAL",
                "ADJUSTMENT"}

(* The type a transaction is stored with (the mapping forgets whether a    *)
(* deposit was a cash-in and a withdrawal a cash-out).                     *)
ToPrisma ==
  [t \in TypesFR |->
    CASE t \in {"DEPOT", "CASH_IN"}     -> "DEPOSIT"
      [] t \in {"RETRAIT", "CASH_OUT"}  -> "WITHDRAWAL"
      [] t = "PAIEMENT_MARCHAND"        -> "PAYMENT"
      [] t = "TRANSFERT"                -> "TRANSFER"
      [] t = "ANNULATION"               -> "ADJUSTMENT"
      [] t = "REVERSAL"                 -> "REVERSAL"]

(* The types that need float to be created, and that consume it.           *)
TypesDebit == {"RETRAIT", "CASH_OUT", "TRANSFERT"}

(* The types whose completion gives float back to the agent.               *)
TypesCredit == {"DEPOT", "CASH_IN"}

(* What the completion of a transaction of type t does to the float: the   *)
(* sense of the movement, or none (merchant payments leave it alone).      *)
SensCompletion(t) == IF t \in TypesDebit THEN "DEBIT"
                     ELSE IF t \in TypesCredit THEN "CREDIT" ELSE "AUCUN"

(* Mutation: the reversal repeats the completion instead of inverting it.  *)
MutSensReversal(t) == SensCompletion(t)

(* What its reversal does: whatever was not a debit is debited.            *)
SensReversal(t) == IF t \in TypesDebit THEN "CREDIT" ELSE "DEBIT"
=============================================================================
