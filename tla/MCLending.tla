----------------------------- MODULE MCLending -----------------------------
\* One customer, two checkouts of one installment each, one process that serves
\* them and two that book payments.  The first checkout is paid, and notified twice.
EXTENDS Lending, TLC

CONSTANTS r1, r2, o1, o2, i1, i2, c1, k1

MCChargeOf == c1 :> i1
MCCustomerOf == i1 :> k1 @@ i2 :> k1
MCAmount == i1 :> 2 @@ i2 :> 3
MCInitialUsed == k1 :> 0
MCBuyer == r1 :> k1 @@ r2 :> k1
MCOrderOf == r1 :> o1 @@ r2 :> o2
MCTotal == r1 :> 2 @@ r2 :> 3
MCMdr == r1 :> 0 @@ r2 :> 1
MCCount == r1 :> 1 @@ r2 :> 1
MCClear == k1 :> TRUE
MCSerasaScore == k1 :> 0
MCApprovedLimit == k1 :> 6
MCPlanOf == i1 :> r1 @@ i2 :> r2
MCNumberOf == i1 :> 1 @@ i2 :> 1
=============================================================================
