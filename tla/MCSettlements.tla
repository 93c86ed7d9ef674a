---------------------------- MODULE MCSettlements ----------------------------
\* Two checkouts of a merchant, three payout requests, two for the same checkout.
EXTENDS Settlements

CONSTANTS s1, s2, s3, c1, c2

MCCheckoutOf == [s \in Requests |-> IF s = s3 THEN c2 ELSE c1]
MCNet == [c \in Checkouts |-> IF c = c1 THEN 1 ELSE 3]
=============================================================================
