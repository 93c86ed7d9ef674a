----------------------------- MODULE MCPayments -----------------------------
\* One customer with two installments: the first is overdue, its plan charge c1
\* expired and replaced by c2; the second has its plan charge c3.
EXTENDS Payments, TLC

CONSTANTS i1, i2, c1, c2, c3, k1

MCChargeOf == c1 :> i1 @@ c2 :> i1 @@ c3 :> i2
MCCustomerOf == i1 :> k1 @@ i2 :> k1
MCAmount == i1 :> 1 @@ i2 :> 2
MCInitialUsed == k1 :> 4

Symmetry == Permutations(Workers)
=============================================================================
