--------------------------- MODULE VoucherContract ---------------------------
(***************************************************************************)
(* What prepaid codes promise: a code that was put on sale is used by one  *)
(* buyer at most, and what was used stays used, by the same buyer.         *)
(***************************************************************************)
CONSTANTS Codes, Acheteurs, Personne

VARIABLES
  emis,     \* the codes that were put on sale
  acheteur  \* per code, who used it

contratVars == <<emis, acheteur>>

Init == emis = {} /\ acheteur = [c \in Codes |-> Personne]

Emettre(C) == emis' = emis \cup C /\ UNCHANGED acheteur

Utiliser(c, a) ==
  /\ c \in emis
  /\ acheteur[c] = Personne
  /\ acheteur' = [acheteur EXCEPT ![c] = a]
  /\ UNCHANGED emis

Next == \/ \E C \in SUBSET Codes : Emettre(C)
        \/ \E c \in Codes, a \in Acheteurs : Utiliser(c, a)

ContratSpec == Init /\ [][Next]_contratVars
=============================================================================
