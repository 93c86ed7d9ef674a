--------------------------- MODULE MCCollections ---------------------------
\* One customer with two installments, each with the charge of its plan and one
\* spare txid for the reissue; one web process beside the run.
EXTENDS Collections, TLC

CONSTANTS i1, i2, p1, p2, r1, r2, k1

MCChargeOf == p1 :> i1 @@ r1 :> i1 @@ p2 :> i2 @@ r2 :> i2
MCCustomerOf == i1 :> k1 @@ i2 :> k1
MCAmount == i1 :> 1 @@ i2 :> 2
MCInitialUsed == k1 :> 3
MCContacts == k1 :> {"whatsapp", "email"}
MCDue == i1 :> 7 @@ i2 :> 1
=============================================================================
