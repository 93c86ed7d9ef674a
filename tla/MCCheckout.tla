----------------------------- MODULE MCCheckout -----------------------------
\* One customer, whose score and whose approved limit stand for 150.00: r1 and r2 are for the same order of the
\* merchant, r3 brings none; two processes.
EXTENDS Checkout, TLC

CONSTANTS r1, r2, r3, k1, o1, o3

MCCustomerOf == [r \in Requests |-> k1]
MCOrderOf == [r \in Requests |-> IF r = r3 THEN o3 ELSE o1]
MCTotal == [r \in Requests |-> IF r = r1 THEN 14999 ELSE 12000]
MCMdr == [r \in Requests |-> IF r = r2 THEN 0 ELSE 1]
MCCount == [r \in Requests |-> IF r = r1 THEN 2 ELSE 1]
MCClear == k1 :> TRUE
MCSerasaScore == k1 :> 550
MCApprovedLimit == k1 :> 15000
=============================================================================
