---------------------------- MODULE LendingProofs ----------------------------
(***************************************************************************)
(* The proof that a credit limit covers the debt (module Lending), for     *)
(* every number of customers, checkouts, charges and processes.            *)
(*                                                                         *)
(* LimitCoversDebt is about used_limit alone, and three others will write  *)
(* it: a payment that has read it, the open form, and a payment that has   *)
(* booked its cash and not read it yet.  The invariant says of each value  *)
(* that any of them may still store that it covers the debt too, once the  *)
(* payments that have booked and not released are counted as released.     *)
(***************************************************************************)
EXTENDS Lending, PaymentsProofs

-----------------------------------------------------------------------------
(* The invariant *)

\* Reserved for customer k; booked as received from k, each booking counted; and paid by
\* k, each payment counted once.
Lent(k) == SumOver({r \in reserved : Buyer[r] = k}, LAMBDA r : Total[r])

Received(k) == SumOver(ChargesOf(k), LAMBDA c : Amount[ChargeOf[c]] * Written(cash, c))

Repaid(k) ==
  SumOver(ChargesOf(k),
          LAMBDA c : IF Written(cash, c) > 0 THEN Amount[ChargeOf[c]] ELSE 0)

\* Worker w has booked a payment of customer k and not yet released the limit.
Releasing(w, k) ==
  /\ pc[w] \in {"post_receivable", "read_customer", "release"}
  /\ CustomerOf[ChargeOf[job[w]]] = k

\* What it is about to release.
Share(k) ==
  [w \in Workers |-> IF Releasing(w, k) THEN Amount[ChargeOf[job[w]]] ELSE 0]

Pending(k) == SumFunctionOnSet(Share(k), Workers)

\* What a value of used_limit may fall behind the debt.
Slack(k) == Received(k) + overlapped[k] - Lent(k) - Pending(k)

Covers(k, u) == u + Slack(k) >= 0

\* Every value that is stored, or may be stored from an earlier read, covers.
DebtInv ==
  \A k \in Customers :
    /\ Covers(k, used[k])
    /\ form[k] # NoForm => Covers(k, form[k].used)
    /\ \A w \in Workers :
         pc[w] = "release" /\ CustomerOf[ChargeOf[job[w]]] = k => Covers(k, seen[w])

\* What the proof needs to know of module Checkout's variables.
StoreOK ==
  /\ storePc \in [Clerks -> Store!Steps \cup {"idle"}]
  /\ \A s \in Clerks : storePc[s] # "idle" => storeJob[s] \in Requests
  /\ storeJob \in [Clerks -> Requests \cup {NoRequest}]
  /\ reserved \subseteq Requests
  /\ IsFiniteSet(reserved)

OfficeOK ==
  /\ form = [k \in Customers |-> form[k]]
  /\ \A k \in Customers : form[k] # NoForm => form[k].used \in Int
  /\ overlapped \in [Customers -> Int]

LendingInv == TypeOK /\ StoreOK /\ OfficeOK /\ DebtInv

-----------------------------------------------------------------------------
(* Its sums *)

\* A process that holds a charge works on one of the table's.
LEMMA HeldCharge ==
  ASSUME TypeOK, NEW w \in Workers, pc[w] # "idle"
  PROVE  job[w] \in Charges /\ ChargeOf[job[w]] \in Installments
         /\ CustomerOf[ChargeOf[job[w]]] \in Customers
         /\ Amount[ChargeOf[job[w]]] \in Nat \ {0}
BY PaymentsAssumption DEF TypeOK, Holding

\* A worker owes the amount of its charge, or nothing, and Pending is no less
\* than nothing.
LEMMA PendingType ==
  ASSUME TypeOK, NEW k \in Customers
  PROVE  /\ Share(k) \in [Workers -> Nat]
         /\ Pending(k) \in Int
         /\ Pending(k) >= 0
<1>1. Share(k) \in [Workers -> Nat]
  BY HeldCharge DEF Share, Releasing
<1> DEFINE f == Share(k)
           zero == [w \in Workers |-> 0]
<1>2. f \in [Workers -> Nat]
  BY <1>1
<1> HIDE DEF f
<1>3. SumFunctionOnSet(zero, Workers) = 0
  BY PaymentsAssumption, SumZero
<1>4. /\ \A w \in Workers : f[w] \in Int
      /\ \A w \in Workers : zero[w] \in Int /\ zero[w] <= f[w]
  BY <1>2
<1>5. SumFunctionOnSet(zero, Workers) <= SumFunctionOnSet(f, Workers)
  BY <1>4, PaymentsAssumption, SumMonotone
<1>6. SumFunctionOnSet(f, Workers) \in Int
  BY <1>4, PaymentsAssumption, SumType
<1>7. QED
  BY <1>1, <1>3, <1>5, <1>6 DEF Pending, f

\* The checkouts of a customer that reserved their total.
ReservedBy(k) == {r \in reserved : Buyer[r] = k}

LEMMA LentType ==
  ASSUME StoreOK, NEW k \in Customers
  PROVE  /\ IsFiniteSet(ReservedBy(k))
         /\ Lent(k) = SumFunctionOnSet(Total, ReservedBy(k))
         /\ Lent(k) \in Int
<1> DEFINE S == ReservedBy(k)
           f == [r \in S |-> Total[r]]
<1>1. IsFiniteSet(S) /\ S \subseteq Requests
  BY SubsetsAreFinite DEF StoreOK, ReservedBy
<1>2. \A r \in S : Total[r] \in Int
  BY <1>1, LendingAssumption
<1>3. Lent(k) = SumFunctionOnSet(f, S)
  BY DEF Lent, SumOver, SumFunction, ReservedBy
<1> HIDE DEF S
<1>4. \A r \in S : f[r] = Total[r]
  OBVIOUS
<1> HIDE DEF f
<1>5. SumFunctionOnSet(f, S) = SumFunctionOnSet(Total, S)
  BY <1>1, <1>2, <1>4, SumAgree
<1>6. SumFunctionOnSet(Total, S) \in Int
  BY <1>1, <1>2, SumType
<1>7. QED
  BY <1>1, <1>3, <1>5, <1>6 DEF S

\* What was booked for each charge of a customer.
Booked(k) == [c \in ChargesOf(k) |-> Amount[ChargeOf[c]] * Written(cash, c)]

LEMMA ChargesOfFinite ==
  ASSUME NEW k
  PROVE  IsFiniteSet(ChargesOf(k)) /\ ChargesOf(k) \subseteq Charges
BY PaymentsAssumption, SubsetsAreFinite DEF ChargesOf

LEMMA ReceivedType ==
  ASSUME TypeOK, NEW k \in Customers
  PROVE  /\ \A c \in ChargesOf(k) : Booked(k)[c] \in Int
         /\ Received(k) = SumFunctionOnSet(Booked(k), ChargesOf(k))
         /\ Received(k) \in Int
<1>1. \A c \in ChargesOf(k) : Written(cash, c) \in Int /\ Amount[ChargeOf[c]] \in Int
  BY WrittenType, ChargesOfFinite, PaymentsAssumption DEF TypeOK
<1>2. \A c \in ChargesOf(k) : Booked(k)[c] \in Int
  BY <1>1 DEF Booked
<1>3. Received(k) = SumFunctionOnSet(Booked(k), ChargesOf(k))
  BY DEF Received, SumOver, SumFunction, Booked, ChargesOf
<1>4. SumFunctionOnSet(Booked(k), ChargesOf(k)) \in Int
  BY <1>2, ChargesOfFinite, SumType
<1>5. QED
  BY <1>2, <1>3, <1>4

LEMMA SlackType ==
  ASSUME TypeOK, StoreOK, OfficeOK, NEW k \in Customers
  PROVE  /\ Received(k) \in Int /\ Lent(k) \in Int /\ Pending(k) \in Int
         /\ overlapped[k] \in Int
         /\ Slack(k) \in Int
BY PendingType, LentType, ReceivedType DEF OfficeOK, Slack

-----------------------------------------------------------------------------
(* How a step changes them *)

\* Nothing more is about to be released.
LEMMA PendingFalls ==
  ASSUME TypeOK, NEW k \in Customers,
         \A v \in Workers : Releasing(v, k)' => Releasing(v, k) /\ job'[v] = job[v]
  PROVE  Pending(k)' \in Int /\ Pending(k)' <= Pending(k)
<1> DEFINE f == Share(k)
           g == Share(k)'
<1>1. \A v \in Workers : f[v] \in Int /\ g[v] \in Int /\ g[v] <= f[v]
  <2>1. \A v \in Workers : Releasing(v, k) => Amount[ChargeOf[job[v]]] \in Nat
    BY HeldCharge DEF Releasing
  <2>2. QED
    BY <2>1 DEF Share
<1>2. Pending(k) = SumFunctionOnSet(f, Workers) /\ Pending(k)' = SumFunctionOnSet(g, Workers)
  BY DEF Pending
<1> HIDE DEF f, g
<1>3. SumFunctionOnSet(g, Workers) \in Int
      /\ SumFunctionOnSet(g, Workers) <= SumFunctionOnSet(f, Workers)
  BY <1>1, PaymentsAssumption, SumType, SumMonotone
<1>4. QED
  BY <1>2, <1>3

\* Worker w alone takes on a release, or does one.
LEMMA PendingChanges ==
  ASSUME TypeOK, NEW k \in Customers, NEW w \in Workers, NEW n \in Int,
         \A v \in Workers \ {w} : pc'[v] = pc[v] /\ job'[v] = job[v],
         Share(k)'[w] = Share(k)[w] + n
  PROVE  Pending(k)' = Pending(k) + n
<1> DEFINE f == Share(k)
           g == Share(k)'
<1>1. \A v \in Workers : f[v] \in Int
  BY PendingType
<1>2. \A v \in Workers \ {w} : g[v] = f[v]
  BY DEF Share, Releasing
<1>3. g[w] = f[w] + n
  OBVIOUS
<1>4. Pending(k) = SumFunctionOnSet(f, Workers) /\ Pending(k)' = SumFunctionOnSet(g, Workers)
  BY DEF Pending
<1> HIDE DEF f, g
<1>5. \A v \in Workers : g[v] \in Int
  BY <1>1, <1>2, <1>3
<1>6. /\ SumFunctionOnSet(g, Workers) = SumFunctionOnSet(f, Workers) + g[w] - f[w]
      /\ SumFunctionOnSet(f, Workers) \in Int
  BY <1>1, <1>2, <1>5, PaymentsAssumption, SumChange, SumType
<1>7. QED
  BY <1>1, <1>3, <1>4, <1>6

\* A step that books no cash and reserves nothing.
LEMMA SlackKept ==
  ASSUME TypeOK, StoreOK, OfficeOK, NEW k \in Customers,
         UNCHANGED <<cash, reserved, overlapped>>,
         \A v \in Workers : Releasing(v, k)' => Releasing(v, k) /\ job'[v] = job[v]
  PROVE  Slack(k)' \in Int /\ Slack(k)' >= Slack(k)
<1>1. Received(k)' = Received(k) /\ Lent(k)' = Lent(k)
  BY DEF Received, Lent, SumOver, Written
<1>2. Pending(k)' \in Int /\ Pending(k)' <= Pending(k)
  BY PendingFalls
<1>3. QED
  BY <1>1, <1>2, SlackType DEF Slack

\* An amount that is booked is received, and about to be released.
LEMMA ReceivedGrows ==
  ASSUME TypeOK, NEW k \in Customers, NEW w \in Workers, NEW c \in Charges,
         cash' = Inserted(cash, c, w)
  PROVE  Received(k)' = Received(k)
                          + (IF CustomerOf[ChargeOf[c]] = k THEN Amount[ChargeOf[c]] ELSE 0)
<1> DEFINE f == Booked(k)
           g == Booked(k)'
           S == ChargesOf(k)
           A == Amount[ChargeOf[c]]
<1>1. cash \in Counters /\ A \in Int
  BY PaymentsAssumption DEF TypeOK
<1>2. \A d \in S : /\ d \in Charges
                   /\ Amount[ChargeOf[d]] \in Int
                   /\ Written(cash, d) \in Int
                   /\ Written(cash', d) = Written(cash, d) + (IF d = c THEN 1 ELSE 0)
  BY <1>1, ChargesOfFinite, WrittenType, WrittenInserted, PaymentsAssumption
<1>3. /\ \A d \in S : g[d] = Amount[ChargeOf[d]] * Written(cash', d)
      /\ \A d \in S : f[d] = Amount[ChargeOf[d]] * Written(cash, d)
  BY DEF Booked, ChargesOf
<1>4. /\ \A d \in S \ {c} : g[d] = f[d]
      /\ c \in S => g[c] = f[c] + A
  <2>1. \A a, n \in Int : a * (n + 1) = a * n + a
    OBVIOUS
  <2>2. c \in S => g[c] = A * (Written(cash, c) + 1)
    BY <1>2, <1>3
  <2>3. c \in S => A * (Written(cash, c) + 1) = A * Written(cash, c) + A
    BY <1>1, <1>2, <2>1
  <2>4. QED
    BY <1>2, <1>3, <2>2, <2>3
<1>5. /\ Received(k) = SumFunctionOnSet(f, S)
      /\ Received(k)' = SumFunctionOnSet(g, S)
      /\ \A d \in S : f[d] \in Int
  BY ReceivedType DEF Received, SumOver, SumFunction, Booked, ChargesOf
<1>6. (c \in S) <=> CustomerOf[ChargeOf[c]] = k
  BY DEF ChargesOf
<1> HIDE DEF f, g, S, A
<1>7. IsFiniteSet(S) /\ SumFunctionOnSet(f, S) \in Int
  BY <1>5, ChargesOfFinite, SumType DEF S
<1>8. CASE c \in S
  <2>1. \A d \in S : g[d] \in Int
    BY <1>1, <1>4, <1>5
  <2>2. SumFunctionOnSet(g, S) = SumFunctionOnSet(f, S) + g[c] - f[c]
    BY <1>4, <1>5, <1>7, <1>8, <2>1, SumChange
  <2>3. QED
    BY <1>1, <1>4, <1>5, <1>6, <1>7, <1>8, <2>2 DEF A
<1>9. CASE c \notin S
  <2>1. SumFunctionOnSet(g, S) = SumFunctionOnSet(f, S)
    BY <1>4, <1>5, <1>7, <1>9, SumAgree
  <2>2. QED
    BY <1>5, <1>6, <1>7, <1>9, <2>1
<1>10. QED
  BY <1>8, <1>9

-----------------------------------------------------------------------------
(* The steps of a payment *)

\* Debt stays covered by a step that stores no value of used_limit and reads at
\* most the one that is stored.
LEMMA DebtKept ==
  ASSUME TypeOK, OfficeOK, DebtInv,
         \A k \in Customers : Slack(k) \in Int /\ Slack(k)' \in Int /\ Slack(k)' >= Slack(k),
         UNCHANGED <<used, form>>,
         \A v \in Workers : pc'[v] = "release" =>
           \/ pc[v] = "release" /\ job'[v] = job[v] /\ seen'[v] = seen[v]
           \/ seen'[v] = used[CustomerOf[ChargeOf[job'[v]]]]
  PROVE  DebtInv'
<1> SUFFICES ASSUME NEW k \in Customers
             PROVE  /\ Covers(k, used[k])'
                    /\ form'[k] # NoForm => Covers(k, form[k].used)'
                    /\ \A v \in Workers :
                         pc'[v] = "release" /\ CustomerOf[ChargeOf[job'[v]]] = k =>
                           Covers(k, seen[v])'
  BY DEF DebtInv
<1>1. ASSUME NEW u \in Int, Covers(k, u)
      PROVE  u + Slack(k)' >= 0
  BY <1>1 DEF Covers
<1>2. used[k] \in Int /\ Covers(k, used[k])
  BY DEF TypeOK, DebtInv
<1>3. used[k] + Slack(k)' >= 0
  BY <1>1, <1>2
<1>4. form[k] # NoForm => form[k].used \in Int /\ form[k].used + Slack(k)' >= 0
  BY <1>1 DEF OfficeOK, DebtInv
<1>5. ASSUME NEW v \in Workers, pc'[v] = "release", CustomerOf[ChargeOf[job'[v]]] = k
      PROVE  seen'[v] + Slack(k)' >= 0
  <2>1. CASE pc[v] = "release" /\ job'[v] = job[v] /\ seen'[v] = seen[v]
    <3>1. seen[v] \in Int /\ Covers(k, seen[v])
      BY <1>5, <2>1 DEF TypeOK, DebtInv
    <3>2. QED
      BY <1>1, <2>1, <3>1
  <2>2. CASE seen'[v] = used[CustomerOf[ChargeOf[job'[v]]]]
    BY <1>3, <1>5, <2>2
  <2>3. QED
    BY <1>5, <2>1, <2>2
<1>6. QED
  BY <1>3, <1>4, <1>5 DEF Covers

\* Statements that touch neither the cash account nor used_limit; requests that
\* begin, end or die.
OtherStatement(w) ==
  \/ \E c \in Charges : Notify(w, c)
  \/ MarkCharge(w) \/ MarkInstallment(w) \/ FindTransaction(w) \/ CreateTransaction(w)
  \/ MarkTransaction(w) \/ PostReceivable(w) \/ ReadCustomer(w)
  \/ Enqueue(w) \/ Dispatch(w) \/ Crash(w)

LEMMA OtherStatementKeeps ==
  ASSUME LendingInv, NEW w \in Workers, OtherStatement(w),
         UNCHANGED <<storeOnly, office, overlapped>>
  PROVE  DebtInv'
<1>1. TypeOK /\ StoreOK /\ OfficeOK /\ DebtInv
  BY DEF LendingInv
<1>2. /\ UNCHANGED <<cash, used>>
      /\ \A v \in Workers \ {w} : pc'[v] = pc[v] /\ job'[v] = job[v] /\ seen'[v] = seen[v]
  BY <1>1 DEF OtherStatement, Notify, MarkCharge, MarkInstallment, FindTransaction,
     CreateTransaction, MarkTransaction, PostReceivable, ReadCustomer, Enqueue, Dispatch,
     Crash, Goto, Leave, TypeOK, tables, locals
<1>3. \/ pc'[w] \notin {"post_receivable", "read_customer", "release"}
      \/ /\ pc[w] = "post_receivable" /\ pc'[w] = "read_customer"
         /\ job'[w] = job[w]
      \/ /\ pc[w] = "read_customer" /\ pc'[w] = "release"
         /\ job'[w] = job[w] /\ seen'[w] = used[CustomerOf[ChargeOf[job[w]]]]
      \/ pc'[w] = pc[w] /\ job'[w] = job[w] /\ seen'[w] = seen[w]
  BY <1>1 DEF OtherStatement, Notify, MarkCharge, MarkInstallment, FindTransaction,
     CreateTransaction, MarkTransaction, PostReceivable, ReadCustomer, Enqueue, Dispatch,
     Crash, Goto, Leave, TypeOK, tables, locals
<1>4. \A k \in Customers, v \in Workers :
        Releasing(v, k)' => Releasing(v, k) /\ job'[v] = job[v]
  BY <1>2, <1>3 DEF Releasing
<1>5. \A k \in Customers :
        Slack(k) \in Int /\ Slack(k)' \in Int /\ Slack(k)' >= Slack(k)
  BY <1>1, <1>2, <1>4, SlackKept, SlackType DEF storeOnly
<1>6. \A v \in Workers : pc'[v] = "release" =>
        \/ pc[v] = "release" /\ job'[v] = job[v] /\ seen'[v] = seen[v]
        \/ seen'[v] = used[CustomerOf[ChargeOf[job'[v]]]]
  BY <1>2, <1>3
<1>7. QED
  BY <1>1, <1>2, <1>5, <1>6, DebtKept DEF office

\* The amount enters the cash account: it is received, and the limit waits for it.
LEMMA PostCashKeeps ==
  ASSUME LendingInv, NEW w \in Workers, PostCash(w),
         UNCHANGED <<storeOnly, office, overlapped>>
  PROVE  DebtInv'
<1>1. TypeOK /\ StoreOK /\ OfficeOK /\ DebtInv
  BY DEF LendingInv
<1> DEFINE c == job[w]
<1>2. /\ pc[w] = "post_cash" /\ c \in Charges
      /\ Amount[ChargeOf[c]] \in Int
  BY <1>1, HeldCharge DEF PostCash, Goto
<1>3. /\ pc'[w] = "post_receivable" /\ job' = job /\ seen' = seen
      /\ \A v \in Workers \ {w} : pc'[v] = pc[v]
      /\ cash' = Inserted(cash, c, w)
      /\ UNCHANGED <<used, form, reserved, overlapped>>
  BY <1>1 DEF PostCash, Goto, TypeOK, storeOnly, office
<1>4. ASSUME NEW k \in Customers
      PROVE  Slack(k) \in Int /\ Slack(k)' = Slack(k)
  <2> DEFINE n == IF CustomerOf[ChargeOf[c]] = k THEN Amount[ChargeOf[c]] ELSE 0
  <2>1. n \in Int
    BY <1>2
  <2>2. Share(k)[w] = 0 /\ Share(k)'[w] = n
    BY <1>2, <1>3 DEF Share, Releasing
  <2>3. Pending(k)' = Pending(k) + n
    <3>1. Share(k)'[w] = Share(k)[w] + n
      BY <2>1, <2>2
    <3> HIDE DEF n
    <3>2. QED
      BY <1>1, <1>3, <2>1, <3>1, PendingChanges
  <2>4. Received(k)' = Received(k) + n
    BY <1>1, <1>2, <1>3, ReceivedGrows
  <2>5. Lent(k)' = Lent(k)
    BY <1>3 DEF Lent, SumOver
  <2> HIDE DEF n
  <2>6. QED
    BY <1>1, <1>3, <2>1, <2>3, <2>4, <2>5, SlackType DEF Slack
<1>5. \A k \in Customers :
        Slack(k) \in Int /\ Slack(k)' \in Int /\ Slack(k)' >= Slack(k)
  BY <1>4
<1>6. \A v \in Workers : pc'[v] = "release" =>
        pc[v] = "release" /\ job'[v] = job[v] /\ seen'[v] = seen[v]
  BY <1>3
<1>7. QED
  BY <1>1, <1>3, <1>5, <1>6, DebtKept

\* The limit is given back: what is stored is at least the value that was read
\* less the amount, which no longer waits.
LEMMA ReleaseKeeps ==
  ASSUME LendingInv, NEW w \in Workers, ReleaseLimit(w),
         UNCHANGED <<storeOnly, office, overlapped>>
  PROVE  DebtInv'
<1>1. TypeOK /\ StoreOK /\ OfficeOK /\ DebtInv
  BY DEF LendingInv
<1> DEFINE c == job[w]
           q == CustomerOf[ChargeOf[c]]
           A == Amount[ChargeOf[c]]
<1>2. /\ pc[w] = "release" /\ c \in Charges /\ q \in Customers
      /\ A \in Nat /\ seen[w] \in Int
  BY <1>1, HeldCharge DEF ReleaseLimit, Goto, TypeOK
<1>3. /\ pc'[w] = "enqueue" /\ job' = job /\ seen' = seen
      /\ \A v \in Workers \ {w} : pc'[v] = pc[v]
      /\ UNCHANGED <<cash, form, reserved, overlapped>>
      /\ used' = [used EXCEPT ![q] = Released(seen[w], A)]
  BY <1>1 DEF ReleaseLimit, Goto, TypeOK, storeOnly, office
<1>4. ASSUME NEW k \in Customers
      PROVE  Slack(k) \in Int /\ Slack(k)' = Slack(k) + (IF q = k THEN A ELSE 0)
  <2> DEFINE n == IF q = k THEN A ELSE 0
  <2>1. n \in Int /\ -n \in Int
    BY <1>2
  <2>2. Share(k)[w] = n /\ Share(k)'[w] = 0
    BY <1>2, <1>3 DEF Share, Releasing
  <2>3. Pending(k)' = Pending(k) + (-n)
    <3>1. Share(k)'[w] = Share(k)[w] + (-n)
      BY <2>1, <2>2
    <3> HIDE DEF n
    <3>2. QED
      BY <1>1, <1>3, <2>1, <3>1, PendingChanges
  <2>4. Received(k)' = Received(k) /\ Lent(k)' = Lent(k)
    BY <1>3 DEF Received, Lent, SumOver, Written
  <2> HIDE DEF n
  <2>5. Slack(k) \in Int /\ Slack(k)' = Slack(k) + n
    BY <1>1, <1>3, <2>1, <2>3, <2>4, SlackType DEF Slack
  <2>6. QED
    BY <2>5 DEF n
<1>5. Covers(q, seen[w])
  BY <1>1, <1>2 DEF DebtInv
<1>6. ASSUME NEW k \in Customers, NEW u \in Int, Covers(k, u)
      PROVE  u + Slack(k)' >= 0
  BY <1>2, <1>4, <1>6 DEF Covers
<1>7. ASSUME NEW k \in Customers
      PROVE  used'[k] + Slack(k)' >= 0
  <2>1. CASE k = q
    <3>1. used'[k] = Released(seen[w], A)
      BY <1>1, <1>2, <1>3, <2>1 DEF TypeOK
    <3>2. Released(seen[w], A) \in Int /\ Released(seen[w], A) >= seen[w] - A
      BY <1>2 DEF Released
    <3>3. Slack(k) \in Int /\ Slack(k)' = Slack(k) + A /\ seen[w] + Slack(k) >= 0
      BY <1>4, <1>5, <2>1 DEF Covers
    <3>4. QED
      BY <1>2, <3>1, <3>2, <3>3
  <2>2. CASE k # q
    <3>1. used'[k] = used[k] /\ used[k] \in Int /\ Covers(k, used[k])
      BY <1>1, <1>3, <2>2 DEF TypeOK, DebtInv
    <3>2. QED
      BY <1>6, <3>1
  <2>3. QED
    BY <2>1, <2>2
<1>8. ASSUME NEW k \in Customers, form[k] # NoForm
      PROVE  form[k].used + Slack(k)' >= 0
  BY <1>1, <1>6, <1>8 DEF OfficeOK, DebtInv
<1>9. ASSUME NEW k \in Customers, NEW v \in Workers, pc'[v] = "release",
             CustomerOf[ChargeOf[job[v]]] = k
      PROVE  seen[v] + Slack(k)' >= 0
  <2>1. pc[v] = "release" /\ seen[v] \in Int /\ Covers(k, seen[v])
    BY <1>1, <1>3, <1>9 DEF TypeOK, DebtInv
  <2>2. QED
    BY <1>6, <2>1
<1>10. QED
  BY <1>3, <1>7, <1>8, <1>9 DEF DebtInv, Covers

-----------------------------------------------------------------------------
(* The steps of a checkout *)

\* A checkout reserves its total, or leaves the limit and the reservations alone.
Reserving(r) ==
  /\ used' = [used EXCEPT ![Buyer[r]] = @ + Total[r]]
  /\ reserved' = reserved \cup {r}

StoreStep ==
  \E s \in Clerks : (\E r \in Requests : Store!Receive(s, r)) \/ Store!Step(s)

\* A clerk at a statement serves a request, and goes to another statement or
\* answers.
LEMMA StoreStepKeeps ==
  ASSUME StoreOK, StoreStep
  PROVE  /\ StoreOK'
         /\ crashes' = crashes
         /\ UNCHANGED <<used, reserved>> \/ \E r \in Requests : Reserving(r)
<1>1. PICK s \in Clerks : (\E r \in Requests : Store!Receive(s, r)) \/ Store!Step(s)
  BY DEF StoreStep
<1>2. CASE \E r \in Requests : Store!Receive(s, r)
  BY <1>2 DEF Store!Receive, Store!FirstInsert, Store!Steps, Store!rows, StoreOK
<1>3. CASE Store!Velocity(s) \/ Store!SetVelocity(s)
  BY <1>3 DEF Store!Velocity, Store!SetVelocity, Store!Decide, Store!Goto,
     Store!FirstInsert, Store!Steps, Store!rows, StoreOK
<1>4. CASE Store!CreateOrder(s) \/ Store!CreateCheckout(s) \/ Store!CreateRisk(s)
           \/ Store!ConvertOrder(s)
  BY <1>4 DEF Store!CreateOrder, Store!CreateCheckout, Store!CreateRisk,
     Store!ConvertOrder, Store!Goto, Store!Leave, Store!Steps, StoreOK
<1>5. CASE Store!Reserve(s)
  <2>1. /\ storeJob[s] \in Requests
        /\ IsFiniteSet(reserved \cup {storeJob[s]})
    BY <1>5, FS_AddElement DEF Store!Reserve, Store!Goto, StoreOK
  <2>2. Reserving(storeJob[s])
    BY <1>5 DEF Store!Reserve, Reserving
  <2>3. StoreOK' /\ crashes' = crashes
    BY <1>5, <2>1 DEF Store!Reserve, Store!Goto, Store!Steps, StoreOK
  <2>4. QED
    BY <2>1, <2>2, <2>3
<1>6. CASE Store!PostCheckout(s) \/ Store!CreateInstallment(s) \/ Store!CreateCharge(s)
           \/ Store!CreateTransaction(s)
  BY <1>6 DEF Store!PostCheckout, Store!CreateInstallment, Store!CreateCharge,
     Store!CreateTransaction, Store!Goto, Store!Steps, StoreOK
<1>7. CASE Store!Enqueue(s) \/ Store!Dispatch(s) \/ Store!NotifyCustomer(s)
  BY <1>7 DEF Store!Enqueue, Store!Dispatch, Store!NotifyCustomer, Store!Goto,
     Store!Leave, Store!Steps, StoreOK
<1>8. QED
  BY <1>1, <1>2, <1>3, <1>4, <1>5, <1>6, <1>7 DEF Store!Step

\* The plan adds a PENDING transaction, or none, to those of a charge.
LEMMA MadeRows ==
  ASSUME TypeOK, CheckoutStep, NEW c \in Charges
  PROVE  /\ txn'[c] \in {txn[c], Append(txn[c], "pending")}
         /\ txn'[c] \in Seq(TransactionStatus)
         /\ Len(txn[c]) <= Len(txn'[c])
<1>1. txn[c] \in Seq(TransactionStatus) /\ "pending" \in TransactionStatus
  BY DEF TypeOK, TransactionStatus
<1>2. txn'[c] \in {txn[c], Append(txn[c], "pending")}
  BY DEF CheckoutStep
<1> HIDE DEF CheckoutStep
<1>3. QED
  BY <1>1, <1>2

\* Rows that are made for Payments are well formed, and the transaction that a
\* process is about to mark stays where it is.
LEMMA CheckoutStepType ==
  ASSUME TypeOK, StoreOK, OfficeOK, CheckoutStep
  PROVE  TypeOK' /\ StoreOK' /\ OfficeOK'
<1>1. StoreStep /\ StoreOK' /\ crashes' = crashes
      /\ (UNCHANGED <<used, reserved>> \/ \E r \in Requests : Reserving(r))
  BY StoreStepKeeps DEF CheckoutStep, StoreStep
<1>2. used' \in [Customers -> Int]
  BY <1>1, LendingAssumption DEF Reserving, TypeOK
<1>3. /\ inst' \in [Installments -> InstallmentStatus]
      /\ charge' \in [Charges -> PixChargeStatus]
  BY DEF CheckoutStep, TypeOK, InstallmentStatus, PixChargeStatus
<1>4. /\ txn' \in [Charges -> Seq(TransactionStatus)]
      /\ \A c \in Charges : Len(txn[c]) <= Len(txn'[c])
  <2>1. txn' = [d \in Charges |-> txn'[d]]
    BY DEF CheckoutStep
  <2>2. \A c \in Charges : txn'[c] \in Seq(TransactionStatus) /\ Len(txn[c]) <= Len(txn'[c])
    BY MadeRows
  <2>3. QED
    BY <2>1, <2>2, Zenon
<1>5. /\ UNCHANGED <<cash, receivable, events, queued, pc, job, row, seen, calls, form>>
  BY DEF CheckoutStep, locals, office
<1>6. ASSUME NEW w \in Workers
      PROVE  Holding(w)'
  <2>1. Holding(w)
    BY DEF TypeOK
  <2>2. ASSUME pc[w] = "mark_txn"
        PROVE  row[w] \in 1..Len(txn'[job[w]])
    <3>1. job[w] \in Charges /\ row[w] \in 1..Len(txn[job[w]])
      BY <2>1, <2>2 DEF Holding, TypeOK
    <3>2. /\ Len(txn[job[w]]) \in Nat /\ Len(txn'[job[w]]) \in Nat
          /\ Len(txn[job[w]]) <= Len(txn'[job[w]])
      BY <1>4, <3>1 DEF TypeOK
    <3>3. QED
      BY <3>1, <3>2
  <2>3. QED
    BY <1>5, <2>1, <2>2 DEF Holding
<1>7. TypeOK'
  BY <1>1, <1>2, <1>3, <1>4, <1>5, <1>6 DEF TypeOK
<1>8. OfficeOK'
  <2>1. \A k \in Customers : used'[k] - used[k] \in Int
    BY <1>2 DEF TypeOK
  <2>2. overlapped' \in [Customers -> Int]
    BY <2>1 DEF CheckoutStep, OfficeOK
  <2>3. QED
    BY <1>5, <2>2 DEF OfficeOK
<1>9. QED
  BY <1>1, <1>7, <1>8

\* A reservation is lent at most once.
LEMMA LentGrows ==
  ASSUME StoreOK, NEW k \in Customers, NEW r \in Requests, reserved' = reserved \cup {r}
  PROVE  /\ Lent(k)' \in Int
         /\ Lent(k)' <= Lent(k) + (IF Buyer[r] = k THEN Total[r] ELSE 0)
<1> DEFINE S == ReservedBy(k)
           T == ReservedBy(k)'
<1>1. T = IF Buyer[r] = k THEN S \cup {r} ELSE S
  BY DEF ReservedBy
<1>2. IsFiniteSet(S) /\ IsFiniteSet(T) /\ S \subseteq Requests /\ T \subseteq Requests
  <2>1. IsFiniteSet(S) /\ S \subseteq Requests
    BY LentType DEF StoreOK, ReservedBy
  <2> HIDE DEF S, T
  <2>2. IsFiniteSet(S \cup {r})
    BY <2>1, FS_AddElement
  <2>3. QED
    BY <1>1, <2>1, <2>2
<1>3. \A x \in Requests : Total[x] \in Int /\ Total[x] >= 0
  BY LendingAssumption
<1>4. Lent(k) = SumFunctionOnSet(Total, S) /\ Lent(k) \in Int
  BY LentType
<1>5. Lent(k)' = SumFunctionOnSet(Total, T)
  <2> DEFINE f == [x \in T |-> Total[x]]
  <2>1. Lent(k)' = SumFunctionOnSet(f, T)
    BY DEF Lent, SumOver, SumFunction, ReservedBy
  <2>2. \A x \in T : f[x] = Total[x] /\ Total[x] \in Int
    BY <1>2, <1>3
  <2> HIDE DEF f, T
  <2>3. QED
    BY <1>2, <2>1, <2>2, SumAgree
<1> HIDE DEF S, T
<1>6. CASE Buyer[r] = k /\ r \notin S
  <2>1. SumFunctionOnSet(Total, S \cup {r}) = SumFunctionOnSet(Total, S) + Total[r]
    BY <1>2, <1>3, <1>6, SumAdd
  <2>2. QED
    BY <1>1, <1>3, <1>4, <1>5, <1>6, <2>1
<1>7. CASE ~(Buyer[r] = k /\ r \notin S)
  <2>1. T = S
    BY <1>1, <1>7
  <2>2. QED
    BY <1>3, <1>4, <1>5, <2>1
<1>8. QED
  BY <1>6, <1>7

\* Who holds an older value of used_limit has the reservation noted.
LEMMA CheckoutStepKeeps ==
  ASSUME LendingInv, CheckoutStep
  PROVE  DebtInv'
<1>1. TypeOK /\ StoreOK /\ OfficeOK /\ DebtInv
  BY DEF LendingInv
<1>2. /\ UNCHANGED <<cash, pc, job, seen, form>>
      /\ \A k \in Customers :
           overlapped'[k] = overlapped[k] + IF Holder(k) THEN used'[k] - used[k] ELSE 0
  BY DEF CheckoutStep, locals, office
<1>3. UNCHANGED <<used, reserved>> \/ \E r \in Requests : Reserving(r)
  BY <1>1, StoreStepKeeps DEF CheckoutStep, StoreStep
<1>4. \A k \in Customers : Received(k)' = Received(k) /\ Pending(k)' = Pending(k)
  BY <1>2 DEF Received, SumOver, Written, Pending, Share, Releasing
<1>5. ASSUME NEW k \in Customers
      PROVE  /\ used[k] \in Int /\ used'[k] \in Int /\ Lent(k)' \in Int
             /\ used[k] <= used'[k]
             /\ Lent(k)' <= Lent(k) + used'[k] - used[k]
  <2>1. used[k] \in Int /\ Lent(k) \in Int
    BY <1>1, LentType DEF TypeOK
  <2>2. CASE UNCHANGED <<used, reserved>>
    <3>1. Lent(k)' = Lent(k)
      BY <2>2 DEF Lent, SumOver
    <3>2. QED
      BY <2>1, <2>2, <3>1
  <2>3. ASSUME NEW r \in Requests, Reserving(r)
        PROVE  /\ used'[k] \in Int /\ Lent(k)' \in Int
               /\ used[k] <= used'[k]
               /\ Lent(k)' <= Lent(k) + used'[k] - used[k]
    <3>1. /\ Lent(k)' \in Int
          /\ Lent(k)' <= Lent(k) + (IF Buyer[r] = k THEN Total[r] ELSE 0)
      BY <1>1, <2>3, LentGrows DEF Reserving
    <3>2. /\ Total[r] \in Nat
          /\ used'[k] = used[k] + (IF Buyer[r] = k THEN Total[r] ELSE 0)
      BY <1>1, <2>1, <2>3, LendingAssumption DEF Reserving, TypeOK
    <3>3. QED
      BY <2>1, <3>1, <3>2
  <2>4. QED
    BY <1>3, <2>1, <2>2, <2>3
<1>6. ASSUME NEW k \in Customers
      PROVE  /\ Slack(k) \in Int /\ Slack(k)' \in Int
             /\ used'[k] + Slack(k)' >= used[k] + Slack(k)
             /\ Holder(k) => Slack(k)' >= Slack(k)
  <2>1. /\ Received(k) \in Int /\ Lent(k) \in Int /\ Pending(k) \in Int
        /\ overlapped[k] \in Int /\ Slack(k) \in Int
    BY <1>1, SlackType
  <2>2. Slack(k)' = Received(k) + overlapped'[k] - Lent(k)' - Pending(k)
    BY <1>4 DEF Slack
  <2>3. Slack(k) = Received(k) + overlapped[k] - Lent(k) - Pending(k)
    BY DEF Slack
  <2>4. CASE Holder(k)
    <3>1. overlapped'[k] = overlapped[k] + (used'[k] - used[k])
      BY <1>2, <2>4
    <3>2. QED
      BY <1>5, <2>1, <2>2, <2>3, <3>1
  <2>5. CASE ~Holder(k)
    <3>1. overlapped'[k] = overlapped[k]
      BY <1>2, <2>1, <2>5
    <3>2. QED
      BY <1>5, <2>1, <2>2, <2>3, <2>5, <3>1
  <2>6. QED
    BY <2>4, <2>5
<1>7. ASSUME NEW k \in Customers
      PROVE  used'[k] + Slack(k)' >= 0
  BY <1>1, <1>5, <1>6 DEF DebtInv, Covers
<1>8. ASSUME NEW k \in Customers, form[k] # NoForm
      PROVE  form[k].used + Slack(k)' >= 0
  BY <1>1, <1>6, <1>8 DEF DebtInv, Covers, OfficeOK, Holder
<1>9. ASSUME NEW k \in Customers, NEW v \in Workers, pc[v] = "release",
             CustomerOf[ChargeOf[job[v]]] = k
      PROVE  seen[v] + Slack(k)' >= 0
  <2>1. Holder(k) /\ seen[v] \in Int /\ seen[v] + Slack(k) >= 0
    BY <1>1, <1>9 DEF DebtInv, Covers, TypeOK, Holder
  <2>2. QED
    BY <1>6, <2>1
<1>10. QED
  BY <1>2, <1>7, <1>8, <1>9 DEF DebtInv, Covers

-----------------------------------------------------------------------------
(* The back office, and the theorem *)

\* The form takes the value that is stored, and stores the value it took.
LEMMA OfficeKeeps ==
  ASSUME LendingInv, NEW c \in Customers, OpenForm(c) \/ SaveForm(c)
  PROVE  LendingInv'
<1>1. TypeOK /\ StoreOK /\ OfficeOK /\ DebtInv
  BY DEF LendingInv
<1>2. /\ UNCHANGED <<inst, charge, txn, cash, receivable, events, queued,
                     pc, job, row, seen, calls, crashes, reserved, overlapped,
                     storePc, storeJob>>
      /\ form' = [k \in Customers |-> form'[k]]
      /\ used' \in [Customers -> Int]
      /\ \A k \in Customers :
           used'[k] = used[k] \/ (form[k] # NoForm /\ used'[k] = form[k].used)
      /\ \A k \in Customers : form'[k] # NoForm =>
           (form[k] # NoForm /\ form'[k] = form[k]) \/ form'[k].used = used[k]
  BY <1>1 DEF OpenForm, SaveForm, OfficeOK, TypeOK, vars, tables, locals, bounds, storeOnly
<1>3. TypeOK'
  BY <1>1, <1>2 DEF TypeOK, Holding
<1>4. StoreOK' /\ OfficeOK'
  <2>1. \A k \in Customers : used[k] \in Int
    BY <1>1 DEF TypeOK
  <2>2. OfficeOK'
    BY <1>1, <1>2, <2>1 DEF OfficeOK
  <2>3. QED
    BY <1>1, <1>2, <2>2 DEF StoreOK
<1>5. \A k \in Customers : Slack(k)' = Slack(k)
  BY <1>2 DEF Slack, Received, Lent, SumOver, Written, Pending, Share, Releasing
<1>6. DebtInv'
  BY <1>1, <1>2, <1>5 DEF DebtInv, Covers
<1>7. QED
  BY <1>3, <1>4, <1>6 DEF LendingInv

\* A notification or a statement of process_payment.
LEMMA PaymentStepKeeps ==
  ASSUME LendingInv, PaymentStep
  PROVE  LendingInv'
<1>1. TypeOK /\ StoreOK /\ OfficeOK /\ Next /\ UNCHANGED <<storeOnly, office, overlapped>>
  BY DEF LendingInv, PaymentStep
<1>2. TypeOK'
  BY <1>1, NextType
<1>3. StoreOK' /\ OfficeOK'
  BY <1>1 DEF StoreOK, OfficeOK, storeOnly, office
<1>4. PICK w \in Workers : OtherStatement(w) \/ PostCash(w) \/ ReleaseLimit(w)
  BY <1>1 DEF Next, Step, OtherStatement
<1>5. DebtInv'
  BY <1>1, <1>4, OtherStatementKeeps, PostCashKeeps, ReleaseKeeps
<1>6. QED
  BY <1>2, <1>3, <1>5 DEF LendingInv

LEMMA LendingInvNext == LendingInv /\ [LendingNext]_lendingVars => LendingInv'
<1> SUFFICES ASSUME LendingInv, [LendingNext]_lendingVars
             PROVE  LendingInv'
  OBVIOUS
<1>1. CASE CheckoutStep
  BY <1>1, CheckoutStepKeeps, CheckoutStepType DEF LendingInv
<1>2. CASE PaymentStep
  BY <1>2, PaymentStepKeeps
<1>3. CASE \E k \in Customers : OpenForm(k) \/ SaveForm(k)
  BY <1>3, OfficeKeeps
<1>4. CASE SuspendStep \/ UNCHANGED lendingVars
  <2>1. /\ UNCHANGED <<inst, charge, txn, cash, receivable, used, events, queued,
                       pc, job, row, seen, calls, crashes, reserved, overlapped, form,
                       storePc, storeJob>>
    BY <1>4 DEF SuspendStep, lendingVars, vars, tables, locals, bounds, storeOnly, office
  <2>2. TypeOK' /\ StoreOK' /\ OfficeOK'
    BY <2>1 DEF LendingInv, TypeOK, Holding, StoreOK, OfficeOK
  <2>3. DebtInv'
    BY <2>1 DEF LendingInv, DebtInv, Covers, Slack, Received, Lent, SumOver, Written,
       Pending, Share, Releasing
  <2>4. QED
    BY <2>2, <2>3 DEF LendingInv
<1>5. QED
  BY <1>1, <1>2, <1>3, <1>4 DEF LendingNext

\* Nothing is lent, received or pending at the start.
LEMMA LendingInvInit == LendingInit => LendingInv
<1> SUFFICES ASSUME LendingInit
             PROVE  LendingInv
  OBVIOUS
<1>1. TypeOK
  BY InitType DEF LendingInit
<1>2. StoreOK /\ OfficeOK /\ reserved = {}
  BY FS_EmptySet DEF LendingInit, Store!Init, StoreOK, OfficeOK
<1>3. ASSUME NEW k \in Customers
      PROVE  /\ used[k] = 0 /\ overlapped[k] = 0 /\ form[k] = NoForm
             /\ Received(k) = 0 /\ Lent(k) = 0 /\ Pending(k) = 0
  <2>1. used[k] = 0 /\ overlapped[k] = 0 /\ form[k] = NoForm
    BY LendingAssumption DEF LendingInit, Init
  <2>2. Lent(k) = 0
    <3>1. ReservedBy(k) = {}
      BY <1>2 DEF ReservedBy
    <3>2. QED
      BY <1>2, <3>1, LentType, SumEmpty
  <2>3. Pending(k) = 0
    <3>1. \A w \in Workers : Share(k)[w] = 0
      BY DEF LendingInit, Init, Share, Releasing
    <3>2. QED
      BY <3>1, PaymentsAssumption, SumZero DEF Pending
  <2>4. Received(k) = 0
    <3>1. \A c \in Charges : Written(cash, c) = 0
      <4>1. ASSUME NEW c \in Charges
            PROVE  Written(cash, c) = 0
        <5>1. DOMAIN cash[c] = Workers /\ \A w \in Workers : cash[c][w] = 0
          BY DEF LendingInit, Init, Zero
        <5>2. QED
          BY <5>1, PaymentsAssumption, SumZero DEF Written, SumFunction
      <4>2. QED
        BY <4>1
    <3>2. \A c \in ChargesOf(k) : Booked(k)[c] = 0
      BY <3>1, ChargesOfFinite, PaymentsAssumption DEF Booked
    <3>3. SumFunctionOnSet(Booked(k), ChargesOf(k)) = 0
      BY <3>2, ChargesOfFinite, SumZero
    <3>4. QED
      BY <1>1, <3>3, ReceivedType
  <2>5. QED
    BY <2>1, <2>2, <2>3, <2>4
<1>4. \A w \in Workers : pc[w] = "idle"
  BY DEF LendingInit, Init
<1>5. DebtInv
  BY <1>3, <1>4 DEF DebtInv, Covers, Slack
<1>6. QED
  BY <1>1, <1>2, <1>5 DEF LendingInv

\* A count of rows is not negative.
LEMMA WrittenIsNat ==
  ASSUME NEW counter \in Counters, NEW c \in Charges
  PROVE  Written(counter, c) \in Nat
<1> DEFINE zero == [w \in Workers |-> 0]
           f == counter[c]
<1>1. DOMAIN f = Workers /\ \A w \in Workers : f[w] \in Int /\ zero[w] \in Int
                                           /\ zero[w] <= f[w]
  BY DEF Counters
<1>2. SumFunctionOnSet(zero, Workers) = 0
  BY PaymentsAssumption, SumZero
<1>3. Written(counter, c) = SumFunctionOnSet(f, Workers)
  BY <1>1 DEF Written, SumFunction
<1> HIDE DEF f, zero
<1>4. SumFunctionOnSet(zero, Workers) <= SumFunctionOnSet(f, Workers)
  BY <1>1, PaymentsAssumption, SumMonotone
<1>5. QED
  BY <1>2, <1>3, <1>4, WrittenType

\* What was booked is what was paid, once each, and what was booked again.
LEMMA ReceivedSplits ==
  ASSUME TypeOK, NEW k \in Customers
  PROVE  /\ Received(k) = Repaid(k) + DoubleBooked(k)
         /\ Repaid(k) \in Int /\ DoubleBooked(k) \in Int
<1> DEFINE S == ChargesOf(k)
           once == [c \in S |-> IF Written(cash, c) > 0 THEN Amount[ChargeOf[c]] ELSE 0]
           again == [c \in S |-> IF Written(cash, c) > 1
                                 THEN Amount[ChargeOf[c]] * (Written(cash, c) - 1) ELSE 0]
           all == Booked(k)
<1>1. ASSUME NEW c \in S
      PROVE  /\ once[c] \in Int /\ again[c] \in Int
             /\ all[c] = once[c] + again[c]
  <2> DEFINE n == Written(cash, c)
             A == Amount[ChargeOf[c]]
  <2>1. n \in Nat /\ A \in Int
    <3>1. c \in Charges
      BY DEF ChargesOf
    <3> HIDE DEF S
    <3>2. QED
      BY <3>1, WrittenIsNat, PaymentsAssumption DEF TypeOK
  <2>2. /\ all[c] = A * n
        /\ once[c] = IF n > 0 THEN A ELSE 0
        /\ again[c] = IF n > 1 THEN A * (n - 1) ELSE 0
    BY DEF Booked
  <2> HIDE DEF n, A, once, again, all
  <2>3. A * 0 = 0 /\ A * 1 = A
    BY <2>1
  <2>4. A * n = A + A * (n - 1) /\ A * (n - 1) \in Int
    BY <2>1
  <2>5. CASE n = 0
    BY <2>1, <2>2, <2>3, <2>5
  <2>6. CASE n = 1
    BY <2>1, <2>2, <2>3, <2>6
  <2>7. CASE n > 1
    BY <2>1, <2>2, <2>4, <2>7
  <2>8. QED
    BY <2>1, <2>5, <2>6, <2>7
<1>2. /\ Repaid(k) = SumFunctionOnSet(once, S)
      /\ DoubleBooked(k) = SumFunctionOnSet(again, S)
      /\ Received(k) = SumFunctionOnSet(all, S)
  BY DEF Repaid, DoubleBooked, Received, Booked, SumOver, SumFunction
<1> HIDE DEF once, again, all
<1>3. IsFiniteSet(S)
  BY ChargesOfFinite
<1> HIDE DEF S
<1>4. SumFunctionOnSet(all, S) = SumFunctionOnSet(once, S) + SumFunctionOnSet(again, S)
  BY <1>1, <1>3, SumPlus
<1>5. SumFunctionOnSet(once, S) \in Int /\ SumFunctionOnSet(again, S) \in Int
  BY <1>1, <1>3, SumType
<1>6. QED
  BY <1>2, <1>4, <1>5

\* However checkouts, payments, suspensions, edits of the customer and deaths of workers
\* fall, used_limit covers what the customer owes, but for what was reserved while a
\* payment or the form held an older value, and what was booked twice.
THEOREM LimitCovers == LendingSpec => []LimitCoversDebt
<1>1. LendingInv => LimitCoversDebt
  <2> SUFFICES ASSUME LendingInv, NEW k \in Customers
               PROVE  used[k] + overlapped[k] + DoubleBooked(k) >= Owed(k)
    BY DEF LimitCoversDebt
  <2>1. TypeOK /\ StoreOK /\ OfficeOK /\ Covers(k, used[k])
    BY DEF LendingInv, DebtInv
  <2>2. used[k] \in Int /\ Pending(k) >= 0
    BY <2>1, PendingType DEF TypeOK
  <2>3. Owed(k) = Lent(k) - Repaid(k)
    BY DEF Owed, Lent, Repaid
  <2>4. used[k] + Received(k) + overlapped[k] >= Lent(k)
    BY <2>1, <2>2, SlackType DEF Covers, Slack
  <2>5. QED
    BY <2>1, <2>2, <2>3, <2>4, ReceivedSplits, SlackType
<1>2. QED
  BY <1>1, LendingInvInit, LendingInvNext, PTL DEF LendingSpec

-----------------------------------------------------------------------------
(* What Payments proves alone holds of the composition: the rows that appear  *)
(* while it runs, and the edits of the customer, leave its booking as it is.  *)

\* A step of a checkout or of the back office opens charges and writes PENDING
\* rows; nothing that says PAID changes, and no record of a process.
Apart ==
  /\ UNCHANGED <<cash, receivable, events, queued, pc, job, row, seen>>
  /\ PaidCharges' = PaidCharges
  /\ \A i \in Installments : inst[i] = "paid" => inst'[i] = "paid"
  /\ \A c \in Charges : TransactionPaid(c) => TransactionPaid(c)'

LEMMA OthersAreApart ==
  ASSUME TypeOK,
         CheckoutStep \/ SuspendStep \/ \E k \in Customers : OpenForm(k) \/ SaveForm(k)
  PROVE  Apart
<1>1. CASE CheckoutStep
  <2>1. UNCHANGED <<cash, receivable, events, queued, pc, job, row, seen>>
    BY <1>1 DEF CheckoutStep, locals
  <2>2. /\ PaidCharges' = PaidCharges
        /\ \A i \in Installments : inst[i] = "paid" => inst'[i] = "paid"
    BY <1>1 DEF CheckoutStep, PaidCharges
  <2>3. ASSUME NEW c \in Charges, TransactionPaid(c)
        PROVE  TransactionPaid(c)'
    <3>1. txn[c] \in Seq(TransactionStatus)
      BY DEF TypeOK
    <3>2. PICK n \in 1..Len(txn[c]) : txn[c][n] = "paid"
      BY <2>3 DEF TransactionPaid
    <3>3. txn'[c] \in {txn[c], Append(txn[c], "pending")}
      BY <1>1, MadeRows
    <3>4. n \in 1..Len(txn'[c]) /\ txn'[c][n] = "paid"
      BY <3>1, <3>2, <3>3, PaidRowStays
    <3>5. QED
      BY <3>4 DEF TransactionPaid
  <2>4. QED
    BY <2>1, <2>2, <2>3 DEF Apart
<1>2. CASE SuspendStep \/ \E k \in Customers : OpenForm(k) \/ SaveForm(k)
  BY <1>2 DEF SuspendStep, OpenForm, SaveForm, vars, tables, locals, Apart, PaidCharges, TransactionPaid
<1>3. QED
  BY <1>1, <1>2

LEMMA PaymentInvKept ==
  ASSUME PaymentInv, TypeOK', Apart
  PROVE  PaymentInv'
<1>1. \A c \in Charges : charge[c] = "paid" => charge'[c] = "paid"
  BY DEF Apart, PaidCharges
<1>2. \A w \in Workers : pc[w] # "idle" => job[w] \in Charges /\ ChargeOf[job[w]] \in Installments
  BY HeldCharge DEF PaymentInv
<1>3. PostedIsMarked' /\ OncePerProcess' /\ NoEventAheadOfLedger'
  BY <1>1, PaymentsAssumption DEF PaymentInv, Apart, PostedIsMarked, OncePerProcess,
     NoEventAheadOfLedger
<1>4. \A w \in Workers : Progress(w)'
  BY <1>1, <1>2 DEF PaymentInv, Apart, Progress
<1>5. QED
  BY <1>3, <1>4 DEF PaymentInv

LEMMA ComposedNext ==
  LendingInv /\ PaymentInv /\ [LendingNext]_lendingVars =>
    PaymentInv' /\ [Protocol!Next]_(Protocol!state)
<1> SUFFICES ASSUME LendingInv, PaymentInv, [LendingNext]_lendingVars
             PROVE  PaymentInv' /\ [Protocol!Next]_(Protocol!state)
  OBVIOUS
<1>1. CASE PaymentStep \/ UNCHANGED lendingVars
  <2>1. [Next]_vars
    BY <1>1 DEF PaymentStep, lendingVars
  <2>2. QED
    BY <2>1, PaymentInvNext, NextImplements
<1>2. CASE CheckoutStep \/ SuspendStep \/ \E k \in Customers : OpenForm(k) \/ SaveForm(k)
  <2>1. TypeOK'
    BY LendingInvNext DEF LendingInv
  <2>2. Apart
    BY <1>2, OthersAreApart DEF LendingInv
  <2>3. UNCHANGED Protocol!state
    BY <2>2, SameRecords DEF Apart, Protocol!state
  <2>4. QED
    BY <2>1, <2>2, <2>3, PaymentInvKept
<1>3. QED
  BY <1>1, <1>2 DEF LendingNext

\* While checkouts make the rows and the back office edits customers,
\* process_payment implements the booking protocol, and what enters the ledger
\* rests on rows that say PAID, at most once per process.
THEOREM BookingInContext ==
  LendingSpec => ImplementsBooking /\ [](PostedIsMarked /\ OncePerProcess)
<1>1. LendingInit => PaymentInv /\ Protocol!Init
  BY PaymentInvInit, InitImplements DEF LendingInit
<1>2. PaymentInv => PostedIsMarked /\ OncePerProcess
  BY DEF PaymentInv
<1>3. QED
  BY <1>1, <1>2, ComposedNext, LendingInvInit, LendingInvNext, PTL
     DEF LendingSpec, ImplementsBooking, Protocol!Spec
=============================================================================
