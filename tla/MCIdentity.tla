----------------------------- MODULE MCIdentity -----------------------------
\* One phone; a customer and a merchant owner who ask for one e-mail address, which one
\* of them sends in capitals, and another customer; profiles: p1 and p2 with one
\* document, p1 and p3 for one user, m1 of the merchant owner, m2 of a customer; two
\* keys; three processes.
EXTENDS Identity, TLC

CONSTANTS a1, a2, b, p1, p2, p3, m1, m2, mail, MAIL, other, d1, d2

MCKind == a1 :> "user" @@ a2 :> "user" @@ b :> "user"
          @@ p1 :> "customer" @@ p2 :> "customer" @@ p3 :> "customer"
          @@ m1 :> "merchant" @@ m2 :> "merchant"
MCEmail == a1 :> mail @@ a2 :> mail @@ b :> other
MCSent == a1 :> mail @@ a2 :> MAIL @@ b :> other
MCRole == a1 :> "customer" @@ a2 :> "merchant_owner" @@ b :> "customer"
MCOwner == p1 :> a1 @@ p3 :> a1 @@ p2 :> b @@ m1 :> a2 @@ m2 :> b
MCDocument == p1 :> d1 @@ p2 :> d1 @@ p3 :> d2 @@ m1 :> d1 @@ m2 :> d1

Symmetry == Permutations(Workers)
=============================================================================
