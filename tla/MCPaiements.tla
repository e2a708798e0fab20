---------------------------- MODULE MCPaiements ----------------------------
(* Instances of Paiements for TLC. The amount expected is 3; notifications *)
(* announce it but for one unit, in another currency, too little, or       *)
(* announce a failure, the last two without an identifier of their own.    *)
EXTENDS Paiements

CONSTANTS p1, e1, e2

Annonce(id, p, reussi, montant, devise) ==
  [id |-> id, paiement |-> p, reussi |-> reussi, montant |-> montant, devise |-> devise]

Echanges == {Annonce(e1, p1, TRUE, 4, TRUE), Annonce(e2, p1, TRUE, 3, FALSE),
             Annonce(Aucun, p1, FALSE, Aucun, TRUE), Annonce(Aucun, p1, TRUE, 1, TRUE)}
=============================================================================
