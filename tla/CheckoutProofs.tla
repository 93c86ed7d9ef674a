---------------------------- MODULE CheckoutProofs ----------------------------
(***************************************************************************)
(* Proofs about Checkout for every set of workers, requests, customers and *)
(* orders, every amount, number of installments and limit, and any number  *)
(* of crashes.                                                             *)
(***************************************************************************)
EXTENDS Checkout, SumTheorems, TLAPS

Undecided == {"idle", "velocity", "set_velocity"}

Booking == {"post", "installment", "charge", "transaction", "enqueue", "dispatch", "notify"}

Approved == {"convert_order", "reserve"} \cup Booking

\* What the rows of its request say when a worker is at a statement.
WorkerInv(w) ==
  LET r == job[w]
  IN  /\ pc[w] \in Undecided => decision[w] = "none"
      /\ pc[w] \in Approved =>
           decision[w] = "approve" /\ checkout[r] = "approved" /\ r \in risk
      /\ pc[w] = "create_order" => OrderOf[r] \notin Given
      /\ pc[w] = "create_risk" /\ decision[w] = "approve" => checkout[r] = "approved"
      /\ pc[w] \in Approved \ {"convert_order"} => order[OrderOf[r]] = "converted"
      /\ pc[w] # "idle" => r \in served /\ (r \in reserved <=> pc[w] \in Booking)
      /\ pc[w] = "post" => Len(ledger[r]) < 3
      /\ pc[w] \in Booking \ {"post"} => Len(ledger[r]) = 3
      /\ pc[w] = "installment" =>
           /\ Len(installments[r]) = Len(transactions[r])
           /\ Len(transactions[r]) < Count[r]
      /\ pc[w] = "charge" =>
           /\ Len(installments[r]) = Len(charges[r]) + 1
           /\ Len(charges[r]) = Len(transactions[r])
      /\ pc[w] = "transaction" =>
           /\ Len(installments[r]) = Len(charges[r])
           /\ Len(charges[r]) = Len(transactions[r]) + 1
      /\ pc[w] \in {"enqueue", "dispatch", "notify"} => Len(transactions[r]) = Count[r]
      /\ pc[w] = "dispatch" => r \in approvedRows

\* The rows of a plan are the amounts of create_installment_plan in their order.
Planned(rowsOf, r) ==
  \A n \in 1..Len(rowsOf[r]) : rowsOf[r][n] = InstallmentAmount(r, n)

\* The rows of a request, whoever works on it.
RequestInv(r) ==
  /\ r \in reserved => r \in served
  /\ installments[r] # <<>> => Len(ledger[r]) = 3
  /\ ledger[r] # <<>> => r \in reserved
  /\ r \in reserved => /\ checkout[r] = "approved"
                       /\ r \in risk
                       /\ order[OrderOf[r]] = "converted"
  /\ Planned(installments, r) /\ Planned(charges, r) /\ Planned(transactions, r)
  /\ Len(installments[r]) <= Count[r]
  /\ Len(charges[r]) <= Len(installments[r])
  /\ Len(transactions[r]) <= Len(charges[r])
  /\ r \in approvedRows \cup notified => Len(transactions[r]) = Count[r]

\* An application that found the counter at one is still to come.
CounterInv(k) ==
  /\ velocity[k] = 0 => admitted[k] = 0 /\ started[k] = 0
  /\ velocity[k] = 1 => admitted[k] + 1 <= 2 * started[k]
  /\ admitted[k] <= 2 * started[k]

\* No request is with two workers.
OneEach ==
  \A w, v \in Workers : job[w] = job[v] /\ job[w] # NoRequest => w = v

IInv ==
  /\ CheckoutTypeOK
  /\ OneEach
  /\ \A w \in Workers : WorkerInv(w)
  /\ \A r \in Requests : RequestInv(r)
  /\ \A k \in Customers : CounterInv(k)

\* A checkout the merchant or the customer is told of has the whole plan: Count
\* installments of the amounts computed, and the same charges and transactions.
PlanIsWhole ==
  \A r \in approvedRows \cup notified :
    /\ installments[r] = [n \in 1..Count[r] |-> InstallmentAmount(r, n)]
    /\ charges[r] = installments[r]
    /\ transactions[r] = installments[r]

\* An approval fits into the limit the worker saw.
CopyInv(w) ==
  decision[w] = "approve" =>
    Total[job[w]] + sawUsed[w] <= ApprovedLimit[CustomerOf[job[w]]]

\* Workers that may still add to what customer k uses.
Racing(k) ==
  {w \in Workers : /\ pc[w] # "idle"
                   /\ pc[w] \notin Booking
                   /\ decision[w] # "deny"
                   /\ CustomerOf[job[w]] = k
                   /\ sawUsed[w] <= ApprovedLimit[k]}

\* Each racing worker has room for one limit, less what the last of them to read
\* the customer saw in use.
RoomInv(k) ==
  LET room == (Cardinality(Workers) - Cardinality(Racing(k))) * ApprovedLimit[k]
  IN  \/ used[k] <= room
      \/ \E w \in Racing(k) : used[k] <= room + sawUsed[w]

RaceInv ==
  /\ \A w \in Workers : CopyInv(w)
  /\ \A k \in Customers : RoomInv(k)

-----------------------------------------------------------------------------
\* The last installment takes the rest of the division and is never negative.
LEMMA AmountType ==
  ASSUME NEW r \in Requests, NEW i \in Nat
  PROVE  InstallmentAmount(r, i) \in Nat
<1> DEFINE each == Total[r] \div Count[r]
<1>1. /\ Total[r] \in Nat /\ Count[r] \in Nat /\ Count[r] > 0
      /\ each \in Nat
      /\ Count[r] * each <= Total[r]
  BY CheckoutAssumption
<1> HIDE DEF each
<1>2. (Count[r] - 1) * each = Count[r] * each - each
  BY <1>1
<1>3. Count[r] * each \in Int
  BY <1>1
<1>4. Total[r] - (Count[r] - 1) * each \in Nat
  BY <1>1, <1>2, <1>3
<1>5. QED
  BY <1>1, <1>4 DEF InstallmentAmount, each

\* All installments but the last are the quotient and the last takes the rest, so the
\* plan adds up to the total of the checkout (payments/services.py 44-46).
THEOREM AmountsAddUp ==
  ASSUME NEW r \in Requests
  PROVE  LET each == Total[r] \div Count[r]
         IN  /\ \A i \in 1..(Count[r] - 1) : InstallmentAmount(r, i) = each
             /\ (Count[r] - 1) * each + InstallmentAmount(r, Count[r]) = Total[r]
<1> DEFINE each == Total[r] \div Count[r]
<1>1. Total[r] \in Nat /\ Count[r] \in Nat \ {0} /\ each \in Nat
  BY CheckoutAssumption
<1>2. InstallmentAmount(r, Count[r]) = Total[r] - (Count[r] - 1) * each
  BY <1>1 DEF InstallmentAmount
<1>3. \A i \in 1..(Count[r] - 1) : InstallmentAmount(r, i) = each
  BY <1>1 DEF InstallmentAmount
<1> HIDE DEF each
<1>4. (Count[r] - 1) * each \in Int
  BY <1>1
<1>5. (Count[r] - 1) * each + InstallmentAmount(r, Count[r]) = Total[r]
  BY <1>1, <1>2, <1>4
<1>6. QED
  BY <1>3, <1>5 DEF each

\* The next row of a plan is the next of its amounts.
LEMMA NextRow ==
  ASSUME NEW r \in Requests, NEW s \in Seq(Nat), NEW a \in Nat,
         a = InstallmentAmount(r, Len(s) + 1),
         \A n \in 1..Len(s) : s[n] = InstallmentAmount(r, n)
  PROVE  /\ Append(s, a) \in Seq(Nat)
         /\ Len(Append(s, a)) = Len(s) + 1
         /\ \A n \in 1..Len(Append(s, a)) : Append(s, a)[n] = InstallmentAmount(r, n)
<1>1. \A n \in 1..(Len(s) + 1) : n = Len(s) + 1 \/ n \in 1..Len(s)
  OBVIOUS
<1>2. QED
  BY <1>1

-----------------------------------------------------------------------------
\* Before the first request there are no rows and no worker is busy.
LEMMA InitInv == Init => IInv
<1> SUFFICES ASSUME Init PROVE IInv
  OBVIOUS
<1>1. CheckoutTypeOK
  <2>1. NoRows \in [Requests -> Seq(Int)] /\ NoRows \in [Requests -> Seq(Nat)]
    BY DEF NoRows
  <2>2. \A r \in Requests : Len(ledger[r]) <= 3
    BY DEF Init, NoRows
  <2>3. QED
    BY <2>1, <2>2, CheckoutAssumption DEF Init, NoCount, CheckoutTypeOK, Steps
<1>2. OneEach /\ \A w \in Workers : WorkerInv(w)
  BY DEF Init, OneEach, WorkerInv, Undecided, Approved, Booking
<1>3. ASSUME NEW r \in Requests PROVE RequestInv(r)
  BY CheckoutAssumption DEF Init, NoRows, RequestInv, Planned
<1>4. \A k \in Customers : CounterInv(k)
  BY DEF Init, NoCount, CounterInv
<1>5. QED
  BY <1>1, <1>2, <1>3, <1>4 DEF IInv

\* A step writes no row of request s, and its order stays converted.
RowsStay(s) ==
  /\ UNCHANGED <<checkout[s], ledger[s], installments[s], charges[s], transactions[s]>>
  /\ (s \in risk') = (s \in risk)
  /\ (s \in reserved') = (s \in reserved)
  /\ (s \in approvedRows') = (s \in approvedRows)
  /\ (s \in notified') = (s \in notified)
  /\ order[OrderOf[s]] = "converted" => order'[OrderOf[s]] = "converted"

\* What holds of a request keeps holding while nobody writes its rows.
LEMMA RequestRests ==
  ASSUME NEW s \in Requests, RequestInv(s), RowsStay(s), served \subseteq served'
  PROVE  RequestInv(s)'
BY DEF RequestInv, RowsStay, Planned

\* What holds of a worker keeps holding while it rests and nobody writes the rows
\* of its request.
LEMMA WorkerRests ==
  ASSUME NEW v \in Workers, WorkerInv(v), UNCHANGED <<pc[v], job[v], decision[v]>>,
         served \subseteq served',
         \A s : job[v] = s /\ pc[v] # "idle" => RowsStay(s)
  PROVE  WorkerInv(v)'
<1>1. CASE pc[v] = "idle"
  BY <1>1 DEF WorkerInv, Undecided, Approved, Booking
<1>2. CASE pc[v] # "idle"
  <2>1. PICK s : s = job[v]
    OBVIOUS
  <2>2. RowsStay(s) /\ job'[v] = s
    BY <1>2, <2>1
  <2>3. QED
    BY <1>2, <2>1, <2>2 DEF WorkerInv, RowsStay
<1>3. QED
  BY <1>1, <1>2

\* A worker's statement writes only rows of its own request: what is to be shown
\* of it is about that worker and that request.
LEMMA OwnStep ==
  ASSUME IInv, NEW w \in Workers, NEW r \in Requests, job[w] = r, CheckoutTypeOK',
         \A v \in Workers \ {w} : UNCHANGED <<pc[v], job[v], decision[v]>>,
         \A s \in Requests \ {r} : RowsStay(s),
         UNCHANGED served,
         job'[w] \in {r, NoRequest},
         WorkerInv(w)', RequestInv(r)',
         \A k \in Customers : CounterInv(k)'
  PROVE  IInv'
<1>1. OneEach'
  BY DEF IInv, OneEach
<1>2. ASSUME NEW v \in Workers \ {w} PROVE WorkerInv(v)'
  <2>1. CASE pc[v] = "idle"
    BY <2>1, <1>2, WorkerRests DEF IInv
  <2>2. CASE pc[v] # "idle"
    <3>1. job[v] \in Requests \ {r}
      BY <1>2, <2>2 DEF IInv, OneEach, CheckoutTypeOK
    <3>2. QED
      BY <1>2, <3>1, WorkerRests DEF IInv
  <2>3. QED
    BY <2>1, <2>2
<1>3. ASSUME NEW s \in Requests \ {r} PROVE RequestInv(s)'
  BY <1>3, RequestRests DEF IInv
<1>4. QED
  BY <1>1, <1>2, <1>3 DEF IInv

\* A worker that answers or dies is idle and holds nothing.
LEMMA LeftWorker ==
  ASSUME CheckoutTypeOK, NEW w \in Workers, Leave(w)
  PROVE  /\ pc' \in [Workers -> Steps \cup {"idle"}]
         /\ job' \in [Workers -> Requests \cup {NoRequest}]
         /\ sawUsed' \in [Workers -> Nat]
         /\ decision' \in [Workers -> {"none", "approve", "deny"}]
         /\ \A v \in Workers :
              /\ pc'[v] = "idle" <=> job'[v] = NoRequest
              /\ pc'[v] \in Steps \ {"velocity", "set_velocity"} => decision'[v] # "none"
         /\ \A v \in Workers \ {w} : UNCHANGED <<pc[v], job[v], decision[v]>>
         /\ job'[w] = NoRequest
         /\ WorkerInv(w)'
<1>1. /\ pc' = [pc EXCEPT ![w] = "idle"]
      /\ job' = [job EXCEPT ![w] = NoRequest]
      /\ sawUsed' = [sawUsed EXCEPT ![w] = 0]
      /\ decision' = [decision EXCEPT ![w] = "none"]
  BY DEF Leave
<1>2. pc'[w] = "idle" /\ job'[w] = NoRequest /\ decision'[w] = "none"
  BY <1>1 DEF CheckoutTypeOK
<1>3. \A v \in Workers \ {w} : UNCHANGED <<pc[v], job[v], decision[v]>>
  BY <1>1 DEF CheckoutTypeOK
<1>4. WorkerInv(w)'
  BY <1>2 DEF WorkerInv, Undecided, Approved, Booking
<1>5. \A v \in Workers :
        /\ pc'[v] = "idle" <=> job'[v] = NoRequest
        /\ pc'[v] \in Steps \ {"velocity", "set_velocity"} => decision'[v] # "none"
  BY <1>2, <1>3 DEF CheckoutTypeOK, Steps
<1>6. QED
  BY <1>1, <1>2, <1>3, <1>4, <1>5 DEF CheckoutTypeOK

-----------------------------------------------------------------------------
\* A worker that goes on to another statement is at it, with its request and decision.
LEMMA MovedWorker ==
  ASSUME CheckoutTypeOK, NEW w \in Workers, NEW p \in Steps, pc[w] # "idle",
         decision[w] # "none", pc' = [pc EXCEPT ![w] = p], UNCHANGED <<job, decision>>
  PROVE  /\ pc' \in [Workers -> Steps \cup {"idle"}]
         /\ pc'[w] = p
         /\ \A v \in Workers \ {w} : UNCHANGED <<pc[v], job[v], decision[v]>>
         /\ \A v \in Workers :
              /\ pc'[v] = "idle" <=> job'[v] = NoRequest
              /\ pc'[v] \in Steps \ {"velocity", "set_velocity"} => decision'[v] # "none"
<1>1. pc'[w] = p /\ \A v \in Workers \ {w} : pc'[v] = pc[v]
  BY DEF CheckoutTypeOK
<1>2. p # "idle"
  BY DEF Steps
<1>3. QED
  BY <1>1, <1>2 DEF CheckoutTypeOK

\* The counters of a window follow from the window alone.
LEMMA CountersRest ==
  ASSUME IInv, UNCHANGED window
  PROVE  \A k \in Customers : CounterInv(k)'
BY DEF IInv, CounterInv, window

\* The inserted order (services.py 100-109) is no other request's: an order that two
\* requests name was made by the merchant and is not inserted here.
LEMMA CreateOrderKeeps ==
  ASSUME IInv, NEW w \in Workers, NEW r \in Requests, job[w] = r, CreateOrder(w)
  PROVE  IInv'
<1> USE CheckoutAssumption
<1>1. /\ CheckoutTypeOK
      /\ WorkerInv(w)
      /\ RequestInv(r)
  BY DEF IInv
<1>2. CheckoutTypeOK'
  BY <1>1 DEF CreateOrder, Goto, Steps, CheckoutTypeOK, WorkerInv, plan, told, window
<1>3. WorkerInv(w)'
  BY <1>1
     DEF CreateOrder, Goto, CheckoutTypeOK, WorkerInv, RequestInv, Undecided, Approved,
         Booking, plan, told
<1>4. RequestInv(r)'
  BY <1>1
     DEF CreateOrder, Goto, CheckoutTypeOK, WorkerInv, RequestInv, Planned, Booking,
         Approved, plan, told
<1>5. ASSUME NEW s \in Requests \ {r} PROVE RowsStay(s)
  <2>1. OrderOf[s] # OrderOf[r]
    BY <1>1, <1>5 DEF CreateOrder, Goto, WorkerInv
  <2>2. QED
    BY <1>1, <2>1 DEF CreateOrder, RowsStay, CheckoutTypeOK, plan, told
<1>6. \A v \in Workers \ {w} : UNCHANGED <<pc[v], job[v], decision[v]>>
  BY <1>1 DEF CreateOrder, Goto, CheckoutTypeOK
<1>7. UNCHANGED <<job, served, window>>
  BY DEF CreateOrder
<1>8. QED
  BY <1>2, <1>3, <1>4, <1>5, <1>6, <1>7, OwnStep, CountersRest

\* The checkout row (services.py 111-126) carries the decision.
LEMMA CreateCheckoutKeeps ==
  ASSUME IInv, NEW w \in Workers, NEW r \in Requests, job[w] = r, CreateCheckout(w)
  PROVE  IInv'
<1> USE CheckoutAssumption
<1>1. /\ CheckoutTypeOK
      /\ WorkerInv(w)
      /\ RequestInv(r)
  BY DEF IInv
<1>2. CheckoutTypeOK'
  BY <1>1 DEF CreateCheckout, Goto, Steps, CheckoutTypeOK, WorkerInv, plan, told, window
<1>3. WorkerInv(w)'
  BY <1>1
     DEF CreateCheckout, Goto, CheckoutTypeOK, WorkerInv, RequestInv, Undecided,
         Approved, Booking, plan, told
<1>4. RequestInv(r)'
  BY <1>1
     DEF CreateCheckout, Goto, CheckoutTypeOK, WorkerInv, RequestInv, Planned, Booking,
         Approved, plan, told
<1>5. ASSUME NEW s \in Requests \ {r} PROVE RowsStay(s)
  BY <1>1 DEF CreateCheckout, RowsStay, CheckoutTypeOK, WorkerInv, plan, told
<1>6. \A v \in Workers \ {w} : UNCHANGED <<pc[v], job[v], decision[v]>>
  BY <1>1 DEF CreateCheckout, Goto, CheckoutTypeOK
<1>7. UNCHANGED <<job, served, window>>
  BY DEF CreateCheckout
<1>8. QED
  BY <1>2, <1>3, <1>4, <1>5, <1>6, <1>7, OwnStep, CountersRest

\* The order of an approved request is converted (services.py 143-144).
LEMMA ConvertOrderKeeps ==
  ASSUME IInv, NEW w \in Workers, NEW r \in Requests, job[w] = r, ConvertOrder(w)
  PROVE  IInv'
<1> USE CheckoutAssumption
<1>1. /\ CheckoutTypeOK
      /\ WorkerInv(w)
      /\ RequestInv(r)
  BY DEF IInv
<1>2. CheckoutTypeOK'
  BY <1>1 DEF ConvertOrder, Goto, Steps, CheckoutTypeOK, WorkerInv, plan, told, window
<1>3. WorkerInv(w)'
  BY <1>1
     DEF ConvertOrder, Goto, CheckoutTypeOK, WorkerInv, RequestInv, Undecided, Approved,
         Booking, plan, told
<1>4. RequestInv(r)'
  BY <1>1
     DEF ConvertOrder, Goto, CheckoutTypeOK, WorkerInv, RequestInv, Planned, Booking,
         Approved, plan, told
<1>5. ASSUME NEW s \in Requests \ {r} PROVE RowsStay(s)
  BY <1>1 DEF ConvertOrder, RowsStay, CheckoutTypeOK, WorkerInv, plan, told
<1>6. \A v \in Workers \ {w} : UNCHANGED <<pc[v], job[v], decision[v]>>
  BY <1>1 DEF ConvertOrder, Goto, CheckoutTypeOK
<1>7. UNCHANGED <<job, served, window>>
  BY DEF ConvertOrder
<1>8. QED
  BY <1>2, <1>3, <1>4, <1>5, <1>6, <1>7, OwnStep, CountersRest

\* refresh_limit (credit.py 146-158) follows the approval and the conversion.
LEMMA ReserveKeeps ==
  ASSUME IInv, NEW w \in Workers, NEW r \in Requests, job[w] = r, Reserve(w)
  PROVE  IInv'
<1> USE CheckoutAssumption
<1>1. /\ CheckoutTypeOK
      /\ WorkerInv(w)
      /\ RequestInv(r)
  BY DEF IInv
<1>2. CheckoutTypeOK'
  <2>1. used' \in [Customers -> Nat]
    BY <1>1 DEF Reserve, CheckoutTypeOK
  <2>2. QED
    BY <1>1, <2>1 DEF Reserve, Goto, Steps, CheckoutTypeOK, WorkerInv, plan, told, window
<1>3. WorkerInv(w)'
  BY <1>1
     DEF Reserve, Goto, CheckoutTypeOK, WorkerInv, RequestInv, Undecided, Approved,
         Booking, plan, told
<1>4. RequestInv(r)'
  BY <1>1
     DEF Reserve, Goto, CheckoutTypeOK, WorkerInv, RequestInv, Planned, Booking,
         Approved, plan, told
<1>5. ASSUME NEW s \in Requests \ {r} PROVE RowsStay(s)
  BY <1>1 DEF Reserve, RowsStay, CheckoutTypeOK, WorkerInv, plan, told
<1>6. \A v \in Workers \ {w} : UNCHANGED <<pc[v], job[v], decision[v]>>
  BY <1>1 DEF Reserve, Goto, CheckoutTypeOK
<1>7. UNCHANGED <<job, served, window>>
  BY DEF Reserve
<1>8. QED
  BY <1>2, <1>3, <1>4, <1>5, <1>6, <1>7, OwnStep, CountersRest

\* post_checkout (ledger/services.py 12-40) inserts one of three entries; the plan is
\* started after the third.
LEMMA PostCheckoutKeeps ==
  ASSUME IInv, NEW w \in Workers, NEW r \in Requests, job[w] = r, PostCheckout(w)
  PROVE  IInv'
<1>1. /\ CheckoutTypeOK
      /\ WorkerInv(w)
      /\ RequestInv(r)
  BY DEF IInv
<1>2. /\ Len(ledger[r]) \in Nat /\ Len(ledger[r]) < 3
      /\ ledger'[r] \in Seq(Int) /\ Len(ledger'[r]) = Len(ledger[r]) + 1
      /\ \A s \in Requests \ {r} : ledger'[s] = ledger[s]
      /\ ledger' \in [Requests -> Seq(Int)]
      /\ pc'[w] = IF Len(ledger'[r]) = 3 THEN "installment" ELSE "post"
  <2>0. pc[w] = "post" /\ ledger[r] \in Seq(Int) /\ Len(ledger[r]) < 3
    BY <1>1 DEF PostCheckout, Goto, CheckoutTypeOK, WorkerInv
  <2>1. Len(ledger[r]) \in Nat
    BY <2>0
  <2>2. PICK n : n = Len(ledger[r]) + 1
    OBVIOUS
  <2>3. n \in {1, 2, 3}
    BY <2>0, <2>1, <2>2
  <2>4. Entries(r)[n] \in Int
    BY <2>3, CheckoutAssumption DEF Entries
  <2>5. ledger' = [ledger EXCEPT ![r] = Append(ledger[r], Entries(r)[n])]
    BY <2>2 DEF PostCheckout
  <2>6. pc' = [pc EXCEPT ![w] = IF n = 3 THEN "installment" ELSE "post"]
    BY <2>2 DEF PostCheckout, Goto
  <2>7. Append(ledger[r], Entries(r)[n]) \in Seq(Int)
        /\ Len(Append(ledger[r], Entries(r)[n])) = n
    BY <2>0, <2>1, <2>2, <2>4
  <2>8. QED
    BY <1>1, <2>0, <2>1, <2>2, <2>5, <2>6, <2>7 DEF CheckoutTypeOK
<1>3. /\ pc[w] = "post"
      /\ \E to \in {"installment", "post"} : pc' = [pc EXCEPT ![w] = to]
      /\ UNCHANGED <<order, checkout, risk, used, blocked, installments, charges, transactions,
                     approvedRows, queued, notified, job, sawUsed, decision, velocity, admitted,
                     started, served, reserved, crashes>>
  BY <1>1 DEF PostCheckout, Goto, plan, told, window
<1>4. /\ pc' \in [Workers -> Steps \cup {"idle"}]
      /\ pc'[w] \in {"installment", "post"}
      /\ \A v \in Workers \ {w} : pc'[v] = pc[v]
  BY <1>1, <1>3 DEF CheckoutTypeOK, Steps
<1>5. /\ decision[w] = "approve" /\ checkout[r] = "approved" /\ r \in risk
      /\ order[OrderOf[r]] = "converted"
      /\ r \in served /\ r \in reserved
      /\ installments[r] = <<>>
  <2>1. pc[w] = "post"
    BY <1>3
  <2>2. /\ decision[w] = "approve" /\ checkout[r] = "approved" /\ r \in risk
        /\ order[OrderOf[r]] = "converted"
        /\ r \in served /\ r \in reserved
    BY <1>1, <2>1 DEF WorkerInv, Approved, Booking
  <2>3. installments[r] = <<>>
    <3>1. \A n \in Nat : n < 3 => n # 3
      OBVIOUS
    <3>2. Len(ledger[r]) # 3
      BY <1>2, <3>1
    <3>3. QED
      BY <1>1, <3>2 DEF RequestInv
  <2>4. QED
    BY <2>2, <2>3
<1>6. CheckoutTypeOK'
  <2>1. \A s \in Requests : Len(ledger'[s]) <= 3
    <3>1. Len(ledger'[r]) <= 3
      BY <1>2
    <3>2. QED
      BY <1>1, <1>2, <3>1 DEF CheckoutTypeOK
  <2>2. QED
    <3>1. \A v \in Workers :
            /\ pc'[v] = "idle" <=> job'[v] = NoRequest
            /\ pc'[v] \in Steps \ {"velocity", "set_velocity"} => decision'[v] # "none"
      BY <1>1, <1>3, <1>4, <1>5 DEF CheckoutTypeOK
    <3>2. QED
      BY <1>1, <1>2, <1>3, <1>4, <2>1, <3>1 DEF CheckoutTypeOK
<1>7. WorkerInv(w)'
  <2>1. /\ pc'[w] = "post" => Len(ledger'[r]) < 3
        /\ pc'[w] = "installment" => Len(ledger'[r]) = 3
        /\ Len(installments[r]) = 0
    BY <1>2, <1>5
  <2>2. Len(transactions[r]) = 0 /\ Count[r] > 0
    <3>1. charges[r] \in Seq(Nat) /\ transactions[r] \in Seq(Nat) /\ Count[r] \in Nat \ {0}
      BY <1>1, CheckoutAssumption DEF CheckoutTypeOK
    <3>2. Len(transactions[r]) <= Len(charges[r]) /\ Len(charges[r]) <= Len(installments[r])
      BY <1>1 DEF RequestInv
    <3>3. QED
      BY <2>1, <3>1, <3>2
  <2>3. job'[w] = r
    BY <1>3
  <2>4. QED
    BY <1>3, <1>4, <1>5, <2>1, <2>2, <2>3 DEF WorkerInv, Undecided, Approved, Booking
<1>8. RequestInv(r)'
  BY <1>1, <1>2, <1>3, <1>5 DEF CheckoutTypeOK, RequestInv, Planned
<1>9. ASSUME NEW s \in Requests \ {r} PROVE RowsStay(s)
  BY <1>1, <1>2 DEF PostCheckout, RowsStay, CheckoutTypeOK, WorkerInv, plan, told
<1>10. \A v \in Workers \ {w} : UNCHANGED <<pc[v], job[v], decision[v]>>
  BY <1>1 DEF PostCheckout, Goto, CheckoutTypeOK
<1>11. UNCHANGED <<job, served, window>>
  BY DEF PostCheckout
<1>12. QED
  BY <1>6, <1>7, <1>8, <1>9, <1>10, <1>11, OwnStep, CountersRest

\* An installment row (payments/services.py 44-55) is the next of the plan.
LEMMA CreateInstallmentKeeps ==
  ASSUME IInv, NEW w \in Workers, NEW r \in Requests, job[w] = r, CreateInstallment(w)
  PROVE  IInv'
<1>1. /\ CheckoutTypeOK
      /\ WorkerInv(w)
      /\ RequestInv(r)
  BY DEF IInv
<1>2. PICK rowsOf \in Seq(Nat), n \in Nat, a \in Nat :
        /\ rowsOf = installments[r] /\ n = Len(rowsOf)
        /\ a = InstallmentAmount(r, n + 1)
  <2>1. PICK rowsOf \in Seq(Nat) : rowsOf = installments[r]
    BY <1>1 DEF CheckoutTypeOK
  <2>2. Len(rowsOf) \in Nat /\ Len(rowsOf) + 1 \in Nat
    OBVIOUS
  <2>3. QED
    BY <2>1, <2>2, AmountType
<1>3. /\ pc[w] = "installment"
      /\ pc' = [pc EXCEPT ![w] = "charge"]
      /\ installments' = [installments EXCEPT ![r] = Append(rowsOf, a)]
      /\ UNCHANGED <<order, checkout, risk, used, blocked, ledger, charges, transactions,
                     told, job, sawUsed, decision, window, served, reserved, crashes>>
  BY <1>2 DEF CreateInstallment, Goto
<1>4. /\ Append(rowsOf, a) \in Seq(Nat)
      /\ Len(Append(rowsOf, a)) = n + 1
      /\ \A m \in 1..Len(Append(rowsOf, a)) :
           Append(rowsOf, a)[m] = InstallmentAmount(r, m)
  <2>1. \A m \in 1..Len(rowsOf) : rowsOf[m] = InstallmentAmount(r, m)
    BY <1>1, <1>2 DEF RequestInv, Planned
  <2>2. QED
    BY <1>2, <2>1, NextRow
<1>5. /\ installments' \in [Requests -> Seq(Nat)]
      /\ Len(installments'[r]) = n + 1
      /\ \A q \in Requests \ {r} : installments'[q] = installments[q]
      /\ Planned(installments, r)'
  <2>1. installments'[r] = Append(rowsOf, a)
    BY <1>1, <1>3 DEF CheckoutTypeOK
  <2>2. QED
    BY <1>1, <1>3, <1>4, <2>1 DEF CheckoutTypeOK, Planned
<1>6. PICK p \in {"charge"} : p = "charge"
  OBVIOUS
<1>7. /\ decision[w] = "approve" /\ checkout[r] = "approved" /\ r \in risk
      /\ order[OrderOf[r]] = "converted"
      /\ r \in served /\ r \in reserved /\ Len(ledger[r]) = 3
  BY <1>1, <1>3 DEF WorkerInv, Approved, Booking
<1>8. /\ pc' \in [Workers -> Steps \cup {"idle"}]
      /\ pc'[w] = p
      /\ \A v \in Workers \ {w} : UNCHANGED <<pc[v], job[v], decision[v]>>
      /\ \A v \in Workers :
           /\ pc'[v] = "idle" <=> job'[v] = NoRequest
           /\ pc'[v] \in Steps \ {"velocity", "set_velocity"} => decision'[v] # "none"
  <2>1. p \in Steps
    BY <1>6 DEF Steps
  <2>2. QED
    BY <1>1, <1>3, <1>6, <1>7, <2>1, MovedWorker
<1>9. CheckoutTypeOK'
  BY <1>1, <1>3, <1>5, <1>8 DEF CheckoutTypeOK, told, window
<1>10. /\ Len(installments[r]) \in Nat /\ Len(charges[r]) \in Nat
       /\ Len(transactions[r]) \in Nat /\ Count[r] \in Nat
  BY <1>1, CheckoutAssumption DEF CheckoutTypeOK
<1>11. /\ n = Len(transactions[r]) /\ n < Count[r]
       /\ Len(charges[r]) = n
  <2>1. n = Len(transactions[r]) /\ Len(transactions[r]) < Count[r]
    BY <1>1, <1>2, <1>3 DEF WorkerInv
  <2>2. /\ Len(installments[r]) <= Count[r]
        /\ Len(charges[r]) <= Len(installments[r])
        /\ Len(transactions[r]) <= Len(charges[r])
    BY <1>1 DEF RequestInv
  <2>3. QED
    BY <1>2, <1>10, <2>1, <2>2
<1>12. WorkerInv(w)'
  BY <1>2, <1>3, <1>5, <1>6, <1>7, <1>8, <1>10, <1>11
     DEF WorkerInv, Undecided, Approved, Booking
<1>13. RequestInv(r)'
  <2>1. Planned(installments, r)' /\ Planned(charges, r)' /\ Planned(transactions, r)'
    BY <1>1, <1>3, <1>5 DEF RequestInv, Planned
  <2>2. /\ Len(installments'[r]) <= Count[r]
        /\ Len(charges'[r]) <= Len(installments'[r])
        /\ Len(transactions'[r]) <= Len(charges'[r])
    BY <1>1, <1>2, <1>3, <1>5, <1>10, <1>11 DEF RequestInv
  <2>3. r \notin approvedRows \cup notified
    BY <1>1, <1>2, <1>10, <1>11 DEF RequestInv
  <2>4. QED
    BY <1>3, <1>7, <2>1, <2>2, <2>3 DEF RequestInv, told
<1>14. ASSUME NEW q \in Requests \ {r} PROVE RowsStay(q)
  BY <1>3, <1>5 DEF RowsStay, told
<1>15. QED
  BY <1>3, <1>8, <1>9, <1>12, <1>13, <1>14, OwnStep, CountersRest

\* The charge of the installment (payments/services.py 73-84) repeats its amount.
LEMMA CreateChargeKeeps ==
  ASSUME IInv, NEW w \in Workers, NEW r \in Requests, job[w] = r, CreateCharge(w)
  PROVE  IInv'
<1>1. /\ CheckoutTypeOK
      /\ WorkerInv(w)
      /\ RequestInv(r)
  BY DEF IInv
<1>2. PICK rowsOf \in Seq(Nat), n \in Nat, a \in Nat :
        /\ rowsOf = charges[r] /\ n = Len(rowsOf)
        /\ a = InstallmentAmount(r, n + 1)
  <2>1. PICK rowsOf \in Seq(Nat) : rowsOf = charges[r]
    BY <1>1 DEF CheckoutTypeOK
  <2>2. Len(rowsOf) \in Nat /\ Len(rowsOf) + 1 \in Nat
    OBVIOUS
  <2>3. QED
    BY <2>1, <2>2, AmountType
<1>3. /\ pc[w] = "charge"
      /\ pc' = [pc EXCEPT ![w] = "transaction"]
      /\ charges' = [charges EXCEPT ![r] = Append(rowsOf, a)]
      /\ UNCHANGED <<order, checkout, risk, used, blocked, ledger, installments, transactions,
                     told, job, sawUsed, decision, window, served, reserved, crashes>>
  BY <1>2 DEF CreateCharge, Goto
<1>4. /\ Append(rowsOf, a) \in Seq(Nat)
      /\ Len(Append(rowsOf, a)) = n + 1
      /\ \A m \in 1..Len(Append(rowsOf, a)) :
           Append(rowsOf, a)[m] = InstallmentAmount(r, m)
  <2>1. \A m \in 1..Len(rowsOf) : rowsOf[m] = InstallmentAmount(r, m)
    BY <1>1, <1>2 DEF RequestInv, Planned
  <2>2. QED
    BY <1>2, <2>1, NextRow
<1>5. /\ charges' \in [Requests -> Seq(Nat)]
      /\ Len(charges'[r]) = n + 1
      /\ \A q \in Requests \ {r} : charges'[q] = charges[q]
      /\ Planned(charges, r)'
  <2>1. charges'[r] = Append(rowsOf, a)
    BY <1>1, <1>3 DEF CheckoutTypeOK
  <2>2. QED
    BY <1>1, <1>3, <1>4, <2>1 DEF CheckoutTypeOK, Planned
<1>6. PICK p \in {"transaction"} : p = "transaction"
  OBVIOUS
<1>7. /\ decision[w] = "approve" /\ checkout[r] = "approved" /\ r \in risk
      /\ order[OrderOf[r]] = "converted"
      /\ r \in served /\ r \in reserved /\ Len(ledger[r]) = 3
  BY <1>1, <1>3 DEF WorkerInv, Approved, Booking
<1>8. /\ pc' \in [Workers -> Steps \cup {"idle"}]
      /\ pc'[w] = p
      /\ \A v \in Workers \ {w} : UNCHANGED <<pc[v], job[v], decision[v]>>
      /\ \A v \in Workers :
           /\ pc'[v] = "idle" <=> job'[v] = NoRequest
           /\ pc'[v] \in Steps \ {"velocity", "set_velocity"} => decision'[v] # "none"
  <2>1. p \in Steps
    BY <1>6 DEF Steps
  <2>2. QED
    BY <1>1, <1>3, <1>6, <1>7, <2>1, MovedWorker
<1>9. CheckoutTypeOK'
  BY <1>1, <1>3, <1>5, <1>8 DEF CheckoutTypeOK, told, window
<1>10. /\ Len(installments[r]) \in Nat /\ Len(charges[r]) \in Nat
       /\ Len(transactions[r]) \in Nat /\ Count[r] \in Nat
  BY <1>1, CheckoutAssumption DEF CheckoutTypeOK
<1>11. /\ Len(installments[r]) = n + 1 /\ n = Len(transactions[r])
       /\ n < Count[r]
  <2>1. Len(installments[r]) = n + 1 /\ n = Len(transactions[r])
    BY <1>1, <1>2, <1>3 DEF WorkerInv
  <2>2. /\ Len(installments[r]) <= Count[r]
        /\ Len(charges[r]) <= Len(installments[r])
        /\ Len(transactions[r]) <= Len(charges[r])
    BY <1>1 DEF RequestInv
  <2>3. QED
    BY <1>2, <1>10, <2>1, <2>2
<1>12. WorkerInv(w)'
  BY <1>2, <1>3, <1>5, <1>6, <1>7, <1>8, <1>10, <1>11
     DEF WorkerInv, Undecided, Approved, Booking
<1>13. RequestInv(r)'
  <2>1. Planned(installments, r)' /\ Planned(charges, r)' /\ Planned(transactions, r)'
    BY <1>1, <1>3, <1>5 DEF RequestInv, Planned
  <2>2. /\ Len(installments'[r]) <= Count[r]
        /\ Len(charges'[r]) <= Len(installments'[r])
        /\ Len(transactions'[r]) <= Len(charges'[r])
    BY <1>1, <1>2, <1>3, <1>5, <1>10, <1>11 DEF RequestInv
  <2>3. r \notin approvedRows \cup notified
    BY <1>1, <1>2, <1>10, <1>11 DEF RequestInv
  <2>4. QED
    BY <1>3, <1>7, <2>1, <2>2, <2>3 DEF RequestInv, told
<1>14. ASSUME NEW q \in Requests \ {r} PROVE RowsStay(q)
  BY <1>3, <1>5 DEF RowsStay, told
<1>15. QED
  BY <1>3, <1>8, <1>9, <1>12, <1>13, <1>14, OwnStep, CountersRest

\* The transaction of the charge (payments/services.py 85-98) ends one round of the
\* loop, and the last one ends the plan.
LEMMA CreateTransactionKeeps ==
  ASSUME IInv, NEW w \in Workers, NEW r \in Requests, job[w] = r, CreateTransaction(w)
  PROVE  IInv'
<1>1. /\ CheckoutTypeOK
      /\ WorkerInv(w)
      /\ RequestInv(r)
  BY DEF IInv
<1>2. PICK rowsOf \in Seq(Nat), n \in Nat, a \in Nat :
        /\ rowsOf = transactions[r] /\ n = Len(rowsOf)
        /\ a = InstallmentAmount(r, n + 1)
  <2>1. PICK rowsOf \in Seq(Nat) : rowsOf = transactions[r]
    BY <1>1 DEF CheckoutTypeOK
  <2>2. Len(rowsOf) \in Nat /\ Len(rowsOf) + 1 \in Nat
    OBVIOUS
  <2>3. QED
    BY <2>1, <2>2, AmountType
<1>3. /\ pc[w] = "transaction"
      /\ pc' = [pc EXCEPT ![w] = IF n + 1 < Count[r] THEN "installment" ELSE "enqueue"]
      /\ transactions' = [transactions EXCEPT ![r] = Append(rowsOf, a)]
      /\ UNCHANGED <<order, checkout, risk, used, blocked, ledger, installments, charges,
                     told, job, sawUsed, decision, window, served, reserved, crashes>>
  BY <1>2 DEF CreateTransaction, Goto
<1>4. /\ Append(rowsOf, a) \in Seq(Nat)
      /\ Len(Append(rowsOf, a)) = n + 1
      /\ \A m \in 1..Len(Append(rowsOf, a)) :
           Append(rowsOf, a)[m] = InstallmentAmount(r, m)
  <2>1. \A m \in 1..Len(rowsOf) : rowsOf[m] = InstallmentAmount(r, m)
    BY <1>1, <1>2 DEF RequestInv, Planned
  <2>2. QED
    BY <1>2, <2>1, NextRow
<1>5. /\ transactions' \in [Requests -> Seq(Nat)]
      /\ Len(transactions'[r]) = n + 1
      /\ \A q \in Requests \ {r} : transactions'[q] = transactions[q]
      /\ Planned(transactions, r)'
  <2>1. transactions'[r] = Append(rowsOf, a)
    BY <1>1, <1>3 DEF CheckoutTypeOK
  <2>2. QED
    BY <1>1, <1>3, <1>4, <2>1 DEF CheckoutTypeOK, Planned
<1>6. PICK p \in {"installment", "enqueue"} : p = IF n + 1 < Count[r] THEN "installment" ELSE "enqueue"
  OBVIOUS
<1>7. /\ decision[w] = "approve" /\ checkout[r] = "approved" /\ r \in risk
      /\ order[OrderOf[r]] = "converted"
      /\ r \in served /\ r \in reserved /\ Len(ledger[r]) = 3
  BY <1>1, <1>3 DEF WorkerInv, Approved, Booking
<1>8. /\ pc' \in [Workers -> Steps \cup {"idle"}]
      /\ pc'[w] = p
      /\ \A v \in Workers \ {w} : UNCHANGED <<pc[v], job[v], decision[v]>>
      /\ \A v \in Workers :
           /\ pc'[v] = "idle" <=> job'[v] = NoRequest
           /\ pc'[v] \in Steps \ {"velocity", "set_velocity"} => decision'[v] # "none"
  <2>1. p \in Steps
    BY <1>6 DEF Steps
  <2>2. QED
    BY <1>1, <1>3, <1>6, <1>7, <2>1, MovedWorker
<1>9. CheckoutTypeOK'
  BY <1>1, <1>3, <1>5, <1>8 DEF CheckoutTypeOK, told, window
<1>10. /\ Len(installments[r]) \in Nat /\ Len(charges[r]) \in Nat
       /\ Len(transactions[r]) \in Nat /\ Count[r] \in Nat
  BY <1>1, CheckoutAssumption DEF CheckoutTypeOK
<1>11. /\ Len(installments[r]) = n + 1 /\ Len(charges[r]) = n + 1
       /\ n < Count[r]
  <2>1. Len(charges[r]) = n + 1 /\ Len(installments[r]) = n + 1
    BY <1>1, <1>2, <1>3 DEF WorkerInv
  <2>2. /\ Len(installments[r]) <= Count[r]
        /\ Len(charges[r]) <= Len(installments[r])
        /\ Len(transactions[r]) <= Len(charges[r])
    BY <1>1 DEF RequestInv
  <2>3. QED
    BY <1>2, <1>10, <2>1, <2>2
<1>12. WorkerInv(w)'
  BY <1>2, <1>3, <1>5, <1>6, <1>7, <1>8, <1>10, <1>11
     DEF WorkerInv, Undecided, Approved, Booking
<1>13. RequestInv(r)'
  <2>1. Planned(installments, r)' /\ Planned(charges, r)' /\ Planned(transactions, r)'
    BY <1>1, <1>3, <1>5 DEF RequestInv, Planned
  <2>2. /\ Len(installments'[r]) <= Count[r]
        /\ Len(charges'[r]) <= Len(installments'[r])
        /\ Len(transactions'[r]) <= Len(charges'[r])
    BY <1>1, <1>2, <1>3, <1>5, <1>10, <1>11 DEF RequestInv
  <2>3. r \notin approvedRows \cup notified
    BY <1>1, <1>2, <1>10, <1>11 DEF RequestInv
  <2>4. QED
    BY <1>3, <1>7, <2>1, <2>2, <2>3 DEF RequestInv, told
<1>14. ASSUME NEW q \in Requests \ {r} PROVE RowsStay(q)
  BY <1>3, <1>5 DEF RowsStay, told
<1>15. QED
  BY <1>3, <1>8, <1>9, <1>12, <1>13, <1>14, OwnStep, CountersRest

\* The merchant's event is written (checkout/services.py 157-171) once the plan is
\* whole.
LEMMA EnqueueKeeps ==
  ASSUME IInv, NEW w \in Workers, NEW r \in Requests, job[w] = r, Enqueue(w)
  PROVE  IInv'
<1> USE CheckoutAssumption
<1>1. /\ CheckoutTypeOK
      /\ WorkerInv(w)
      /\ RequestInv(r)
  BY DEF IInv
<1>2. CheckoutTypeOK'
  BY <1>1 DEF Enqueue, Goto, Steps, CheckoutTypeOK, WorkerInv, plan, told, window
<1>3. WorkerInv(w)'
  BY <1>1
     DEF Enqueue, Goto, CheckoutTypeOK, WorkerInv, RequestInv, Undecided, Approved,
         Booking, plan, told
<1>4. RequestInv(r)'
  BY <1>1
     DEF Enqueue, Goto, CheckoutTypeOK, WorkerInv, RequestInv, Planned, Booking,
         Approved, plan, told
<1>5. ASSUME NEW s \in Requests \ {r} PROVE RowsStay(s)
  BY <1>1 DEF Enqueue, RowsStay, CheckoutTypeOK, WorkerInv, plan, told
<1>6. \A v \in Workers \ {w} : UNCHANGED <<pc[v], job[v], decision[v]>>
  BY <1>1 DEF Enqueue, Goto, CheckoutTypeOK
<1>7. UNCHANGED <<job, served, window>>
  BY DEF Enqueue
<1>8. QED
  BY <1>2, <1>3, <1>4, <1>5, <1>6, <1>7, OwnStep, CountersRest

\* The broker gets the task of a delivery that exists (webhooks/services.py 31-34).
LEMMA DispatchKeeps ==
  ASSUME IInv, NEW w \in Workers, NEW r \in Requests, job[w] = r, Dispatch(w)
  PROVE  IInv'
<1> USE CheckoutAssumption
<1>1. /\ CheckoutTypeOK
      /\ WorkerInv(w)
      /\ RequestInv(r)
  BY DEF IInv
<1>2. CheckoutTypeOK'
  BY <1>1 DEF Dispatch, Goto, Steps, CheckoutTypeOK, WorkerInv, plan, told, window
<1>3. WorkerInv(w)'
  BY <1>1
     DEF Dispatch, Goto, CheckoutTypeOK, WorkerInv, RequestInv, Undecided, Approved,
         Booking, plan, told
<1>4. RequestInv(r)'
  BY <1>1
     DEF Dispatch, Goto, CheckoutTypeOK, WorkerInv, RequestInv, Planned, Booking,
         Approved, plan, told
<1>5. ASSUME NEW s \in Requests \ {r} PROVE RowsStay(s)
  BY <1>1 DEF Dispatch, RowsStay, CheckoutTypeOK, WorkerInv, plan, told
<1>6. \A v \in Workers \ {w} : UNCHANGED <<pc[v], job[v], decision[v]>>
  BY <1>1 DEF Dispatch, Goto, CheckoutTypeOK
<1>7. UNCHANGED <<job, served, window>>
  BY DEF Dispatch
<1>8. QED
  BY <1>2, <1>3, <1>4, <1>5, <1>6, <1>7, OwnStep, CountersRest

\* CreditEngine.decide after the counter (credit.py 96-130) sends the request of
\* worker w to its first insert, with a decision.
LEMMA Decided ==
  ASSUME CheckoutTypeOK, NEW w \in Workers, NEW r \in Requests, job[w] = r,
         NEW k \in Customers, k = CustomerOf[r],
         NEW n \in Nat, Decide(w, n), UNCHANGED job
  PROVE  /\ pc'[w] \in {"create_checkout", "create_order"}
         /\ pc'[w] = "create_order" => OrderOf[r] \notin Given
         /\ decision'[w] \in {"approve", "deny"}
         /\ admitted' = [admitted EXCEPT ![k] = IF n <= 2 THEN @ + 1 ELSE @]
         /\ \A v \in Workers \ {w} : UNCHANGED <<pc[v], job[v], decision[v]>>
         /\ pc' \in [Workers -> Steps \cup {"idle"}]
         /\ decision' \in [Workers -> {"none", "approve", "deny"}]
         /\ \A v \in Workers :
              /\ pc'[v] = "idle" <=> job'[v] = NoRequest
              /\ pc'[v] \in Steps \ {"velocity", "set_velocity"} => decision'[v] # "none"
<1>1. PICK d \in {"approve", "deny"} : decision' = [decision EXCEPT ![w] = d]
  <2>1. CASE Approves(r, sawUsed[w], n)
    BY <2>1 DEF Decide
  <2>2. CASE ~Approves(r, sawUsed[w], n)
    BY <2>2 DEF Decide
  <2>3. QED
    BY <2>1, <2>2
<1>2. /\ pc' = [pc EXCEPT ![w] = FirstInsert(r)]
      /\ admitted' = [admitted EXCEPT ![k] = IF n <= 2 THEN @ + 1 ELSE @]
  BY DEF Decide, MAX_APPLICATIONS
<1>3. /\ FirstInsert(r) \in {"create_checkout", "create_order"}
      /\ FirstInsert(r) = "create_order" => OrderOf[r] \notin Given
  BY DEF FirstInsert
<1>4. /\ pc'[w] = FirstInsert(r) /\ decision'[w] = d
      /\ \A v \in Workers \ {w} : UNCHANGED <<pc[v], job[v], decision[v]>>
  BY <1>1, <1>2 DEF CheckoutTypeOK
<1>5. /\ pc' \in [Workers -> Steps \cup {"idle"}]
      /\ decision' \in [Workers -> {"none", "approve", "deny"}]
  BY <1>1, <1>2, <1>3 DEF CheckoutTypeOK, Steps
<1>6. job'[w] # NoRequest /\ pc'[w] # "idle"
  BY <1>3, <1>4, CheckoutAssumption
<1>7. QED
  BY <1>2, <1>3, <1>4, <1>5, <1>6 DEF CheckoutTypeOK

\* The ValueError branch (credit.py 91-93) starts a counter: one application more and
\* one counter more in the window.
LEMMA SetVelocityKeeps ==
  ASSUME IInv, NEW w \in Workers, NEW r \in Requests, job[w] = r, SetVelocity(w)
  PROVE  IInv'
<1>1. /\ CheckoutTypeOK
      /\ WorkerInv(w)
      /\ RequestInv(r)
  BY DEF IInv
<1>2. PICK k \in Customers : k = CustomerOf[r]
  BY CheckoutAssumption
<1>3. /\ pc[w] = "set_velocity"
      /\ velocity' = [velocity EXCEPT ![k] = 1]
      /\ started' = [started EXCEPT ![k] = @ + 1]
      /\ Decide(w, 1)
      /\ UNCHANGED <<rows, job, sawUsed, served, reserved, crashes>>
  BY <1>2 DEF SetVelocity
<1>4. /\ pc'[w] \in {"create_checkout", "create_order"}
      /\ pc'[w] = "create_order" => OrderOf[r] \notin Given
      /\ decision'[w] \in {"approve", "deny"}
      /\ admitted' = [admitted EXCEPT ![k] = IF 1 <= 2 THEN @ + 1 ELSE @]
      /\ \A v \in Workers \ {w} : UNCHANGED <<pc[v], job[v], decision[v]>>
      /\ pc' \in [Workers -> Steps \cup {"idle"}]
      /\ decision' \in [Workers -> {"none", "approve", "deny"}]
      /\ \A v \in Workers :
           /\ pc'[v] = "idle" <=> job'[v] = NoRequest
           /\ pc'[v] \in Steps \ {"velocity", "set_velocity"} => decision'[v] # "none"
  BY <1>1, <1>2, <1>3, Decided
<1>5. /\ velocity' \in [Customers -> Nat]
      /\ admitted' \in [Customers -> Nat]
      /\ started' \in [Customers -> Nat]
  <2>1. velocity' \in [Customers -> Nat] /\ started' \in [Customers -> Nat]
    BY <1>1, <1>3 DEF CheckoutTypeOK
  <2>2. admitted' = [admitted EXCEPT ![k] = @ + 1]
    BY <1>4
  <2>3. admitted \in [Customers -> Nat]
    BY <1>1 DEF CheckoutTypeOK
  <2>4. admitted' \in [Customers -> Nat]
    BY <2>2, <2>3
  <2>5. QED
    BY <2>1, <2>4
<1>6. CheckoutTypeOK'
  BY <1>1, <1>3, <1>4, <1>5 DEF CheckoutTypeOK, rows, plan, told
<1>7. WorkerInv(w)'
  BY <1>1, <1>3, <1>4 DEF WorkerInv, Undecided, Approved, Booking, rows, plan, told
<1>8. \A s \in Requests : RowsStay(s)
  BY <1>3 DEF RowsStay, rows, plan, told
<1>9. RequestInv(r)'
  BY <1>1, <1>3, <1>8, RequestRests
<1>10. ASSUME NEW c \in Customers PROVE CounterInv(c)'
  <2>1. CounterInv(c) /\ velocity[c] \in Nat /\ admitted[c] \in Nat /\ started[c] \in Nat
    BY <1>1 DEF IInv, CheckoutTypeOK
  <2>2. CASE c = k
    <3>1. velocity'[c] = 1 /\ admitted'[c] = admitted[c] + 1 /\ started'[c] = started[c] + 1
      BY <1>1, <1>3, <1>4, <2>2 DEF CheckoutTypeOK
    <3>2. QED
      BY <2>1, <3>1 DEF CounterInv
  <2>3. CASE c # k
    <3>1. UNCHANGED <<velocity[c], admitted[c], started[c]>>
      BY <1>1, <1>3, <1>4, <2>3 DEF CheckoutTypeOK
    <3>2. QED
      BY <2>1, <3>1 DEF CounterInv
  <2>4. QED
    BY <2>2, <2>3
<1>11. QED
  BY <1>3, <1>4, <1>6, <1>7, <1>8, <1>9, <1>10, OwnStep

\* cache.incr (credit.py 87-91): the request that finds a counter is decided on its new
\* value, and only the value two lets one more through.
LEMMA VelocityKeeps ==
  ASSUME IInv, NEW w \in Workers, NEW r \in Requests, job[w] = r, Velocity(w)
  PROVE  IInv'
<1>1. /\ CheckoutTypeOK
      /\ WorkerInv(w)
      /\ RequestInv(r)
  BY DEF IInv
<1>2. PICK k \in Customers : k = CustomerOf[r]
  BY CheckoutAssumption
<1>3. /\ pc[w] = "velocity"
      /\ UNCHANGED <<rows, job, sawUsed, started, served, reserved, crashes>>
  BY DEF Velocity
<1>4. \A s \in Requests : RowsStay(s)
  BY <1>3 DEF RowsStay, rows, plan, told
<1>5. RequestInv(r)'
  BY <1>1, <1>3, <1>4, RequestRests
<1>6. CASE velocity[k] = 0
  <2>1. /\ pc' = [pc EXCEPT ![w] = "set_velocity"]
        /\ UNCHANGED <<velocity, admitted, decision>>
    BY <1>2, <1>6 DEF Velocity, Goto
  <2>2. CheckoutTypeOK'
    BY <1>1, <1>3, <2>1 DEF Steps, CheckoutTypeOK, rows, plan, told
  <2>3. WorkerInv(w)'
    BY <1>1, <1>3, <2>1
       DEF CheckoutTypeOK, WorkerInv, Undecided, Approved, Booking, rows, plan, told
  <2>4. \A v \in Workers \ {w} : UNCHANGED <<pc[v], job[v], decision[v]>>
    BY <1>1, <1>3, <2>1 DEF CheckoutTypeOK
  <2>5. UNCHANGED window
    BY <1>3, <2>1 DEF window
  <2>6. QED
    BY <1>3, <1>4, <1>5, <2>2, <2>3, <2>4, <2>5, OwnStep, CountersRest
<1>7. CASE velocity[k] # 0
  <2>1. PICK n : n = velocity[k] + 1
    OBVIOUS
  <2>2. velocity[k] \in Nat \ {0} /\ n \in Nat
    BY <1>1, <1>7, <2>1 DEF CheckoutTypeOK
  <2>3. velocity' = [velocity EXCEPT ![k] = n] /\ Decide(w, n)
    BY <1>2, <1>7, <2>1 DEF Velocity
  <2>4. /\ pc'[w] \in {"create_checkout", "create_order"}
        /\ pc'[w] = "create_order" => OrderOf[r] \notin Given
        /\ decision'[w] \in {"approve", "deny"}
        /\ admitted' = [admitted EXCEPT ![k] = IF n <= 2 THEN @ + 1 ELSE @]
        /\ \A v \in Workers \ {w} : UNCHANGED <<pc[v], job[v], decision[v]>>
        /\ pc' \in [Workers -> Steps \cup {"idle"}]
        /\ decision' \in [Workers -> {"none", "approve", "deny"}]
        /\ \A v \in Workers :
             /\ pc'[v] = "idle" <=> job'[v] = NoRequest
             /\ pc'[v] \in Steps \ {"velocity", "set_velocity"} => decision'[v] # "none"
    BY <1>1, <1>2, <1>3, <2>2, <2>3, Decided
  <2>5. /\ velocity' \in [Customers -> Nat]
        /\ admitted' \in [Customers -> Nat]
    <3>1. velocity \in [Customers -> Nat] /\ admitted \in [Customers -> Nat]
      BY <1>1 DEF CheckoutTypeOK
    <3>2. velocity' \in [Customers -> Nat]
      BY <2>2, <2>3, <3>1
    <3>3. admitted' \in [Customers -> Nat]
      BY <2>2, <2>4, <3>1
    <3>4. QED
      BY <3>2, <3>3
  <2>6. CheckoutTypeOK'
    BY <1>1, <1>3, <2>4, <2>5 DEF CheckoutTypeOK, rows, plan, told
  <2>7. WorkerInv(w)'
    BY <1>1, <1>3, <2>4 DEF WorkerInv, Undecided, Approved, Booking, rows, plan, told
  <2>8. ASSUME NEW c \in Customers PROVE CounterInv(c)'
    <3>1. CounterInv(c) /\ velocity[c] \in Nat /\ admitted[c] \in Nat /\ started[c] \in Nat
      BY <1>1 DEF IInv, CheckoutTypeOK
    <3>2. CASE c = k
      <4>1. /\ velocity'[c] = n /\ started'[c] = started[c]
            /\ admitted'[c] = IF n <= 2 THEN admitted[c] + 1 ELSE admitted[c]
        BY <1>1, <1>3, <2>3, <2>4, <3>2 DEF CheckoutTypeOK
      <4>2. velocity[c] # 0 /\ n = velocity[c] + 1
        BY <1>7, <2>1, <3>2
      <4>3. QED
        BY <3>1, <4>1, <4>2 DEF CounterInv
    <3>3. CASE c # k
      <4>1. UNCHANGED <<velocity[c], admitted[c], started[c]>>
        BY <1>1, <1>3, <2>3, <2>4, <3>3 DEF CheckoutTypeOK
      <4>2. QED
        BY <3>1, <4>1 DEF CounterInv
    <3>4. QED
      BY <3>2, <3>3
  <2>9. QED
    BY <1>3, <1>4, <1>5, <2>4, <2>6, <2>7, <2>8, OwnStep
<1>8. QED
  BY <1>6, <1>7

\* The risk row (services.py 128-143) ends a denied request and lets an approved one on.
LEMMA CreateRiskKeeps ==
  ASSUME IInv, NEW w \in Workers, NEW r \in Requests, job[w] = r, CreateRisk(w)
  PROVE  IInv'
<1> USE CheckoutAssumption
<1>1. /\ CheckoutTypeOK
      /\ WorkerInv(w)
      /\ RequestInv(r)
  BY DEF IInv
<1>2. /\ pc[w] = "create_risk"
      /\ risk' = risk \cup {r}
      /\ UNCHANGED <<order, checkout, used, blocked, ledger, plan, told, window, served,
                     reserved, crashes>>
  BY DEF CreateRisk
<1>3. RequestInv(r)'
  BY <1>1, <1>2 DEF RequestInv, Planned, plan, told
<1>4. \A s \in Requests \ {r} : RowsStay(s)
  BY <1>2 DEF RowsStay, plan, told
<1>5. CASE decision[w] = "approve"
  <2>1. /\ pc' = [pc EXCEPT ![w] = "convert_order"]
        /\ UNCHANGED <<job, sawUsed, decision>>
    BY <1>5 DEF CreateRisk, Goto
  <2>2. CheckoutTypeOK'
    BY <1>1, <1>2, <1>5, <2>1 DEF Steps, CheckoutTypeOK, plan, told, window
  <2>3. WorkerInv(w)'
    BY <1>1, <1>2, <1>5, <2>1
       DEF CheckoutTypeOK, WorkerInv, Undecided, Approved, Booking, plan, told
  <2>4. \A v \in Workers \ {w} : UNCHANGED <<pc[v], job[v], decision[v]>>
    BY <1>1, <2>1 DEF CheckoutTypeOK
  <2>5. QED
    BY <1>2, <1>3, <1>4, <2>1, <2>2, <2>3, <2>4, OwnStep, CountersRest
<1>6. CASE decision[w] # "approve"
  <2>1. Leave(w)
    BY <1>6 DEF CreateRisk
  <2>2. CheckoutTypeOK'
    BY <1>1, <1>2, <2>1, LeftWorker DEF CheckoutTypeOK, plan, told, window
  <2>3. QED
    BY <1>1, <1>2, <1>3, <1>4, <2>1, <2>2, LeftWorker, OwnStep, CountersRest
<1>7. QED
  BY <1>5, <1>6

\* The customer is told (notifications/services.py 97-151) of a whole plan.
LEMMA NotifyCustomerKeeps ==
  ASSUME IInv, NEW w \in Workers, NEW r \in Requests, job[w] = r, NotifyCustomer(w)
  PROVE  IInv'
<1>1. /\ CheckoutTypeOK
      /\ WorkerInv(w)
      /\ RequestInv(r)
  BY DEF IInv
<1>2. /\ pc[w] = "notify"
      /\ Leave(w)
      /\ notified' = notified \cup {r}
      /\ UNCHANGED <<order, checkout, risk, used, blocked, ledger, plan, approvedRows,
                     queued, window, served, reserved, crashes>>
  BY DEF NotifyCustomer
<1>3. RequestInv(r)'
  BY <1>1, <1>2 DEF WorkerInv, RequestInv, Planned, plan
<1>4. \A s \in Requests \ {r} : RowsStay(s)
  BY <1>2 DEF RowsStay, plan
<1>5. CheckoutTypeOK'
  <2>1. /\ pc' \in [Workers -> Steps \cup {"idle"}]
        /\ job' \in [Workers -> Requests \cup {NoRequest}]
        /\ sawUsed' \in [Workers -> Nat]
        /\ decision' \in [Workers -> {"none", "approve", "deny"}]
        /\ \A v \in Workers :
             /\ pc'[v] = "idle" <=> job'[v] = NoRequest
             /\ pc'[v] \in Steps \ {"velocity", "set_velocity"} => decision'[v] # "none"
    BY <1>1, <1>2, LeftWorker
  <2>2. QED
    BY <1>1, <1>2, <2>1 DEF CheckoutTypeOK, plan, window
<1>6. QED
  BY <1>1, <1>2, <1>3, <1>4, <1>5, LeftWorker, OwnStep, CountersRest

\* A worker that dies leaves the rows as they are.
LEMMA CrashKeeps ==
  ASSUME IInv, NEW w \in Workers, NEW r \in Requests, job[w] = r, Crash(w)
  PROVE  IInv'
<1>1. /\ CheckoutTypeOK
      /\ RequestInv(r)
  BY DEF IInv
<1>2. /\ Leave(w)
      /\ crashes' = crashes + 1
      /\ UNCHANGED <<rows, window, served, reserved>>
  BY DEF Crash
<1>3. \A s \in Requests : RowsStay(s)
  BY <1>2 DEF RowsStay, rows, plan, told
<1>4. RequestInv(r)'
  BY <1>1, <1>2, <1>3, RequestRests
<1>5. CheckoutTypeOK'
  <2>1. /\ pc' \in [Workers -> Steps \cup {"idle"}]
        /\ job' \in [Workers -> Requests \cup {NoRequest}]
        /\ sawUsed' \in [Workers -> Nat]
        /\ decision' \in [Workers -> {"none", "approve", "deny"}]
        /\ \A v \in Workers :
             /\ pc'[v] = "idle" <=> job'[v] = NoRequest
             /\ pc'[v] \in Steps \ {"velocity", "set_velocity"} => decision'[v] # "none"
    BY <1>1, <1>2, LeftWorker
  <2>2. crashes' \in Nat
    BY <1>1, <1>2 DEF CheckoutTypeOK
  <2>3. QED
    BY <1>1, <1>2, <2>1, <2>2 DEF CheckoutTypeOK, rows, plan, told, window
<1>6. QED
  BY <1>1, <1>2, <1>3, <1>4, <1>5, LeftWorker, OwnStep, CountersRest

\* A request that arrives (services.py 74-98) is with no other worker and has reserved
\* nothing.
LEMMA ReceiveKeeps ==
  ASSUME IInv, NEW w \in Workers, NEW r \in Requests, Receive(w, r)
  PROVE  IInv'
<1> USE CheckoutAssumption
<1>1. /\ CheckoutTypeOK
      /\ OneEach
      /\ WorkerInv(w)
      /\ RequestInv(r)
  BY DEF IInv
<1>2. PICK k \in Customers : k = CustomerOf[r]
  OBVIOUS
<1>3. /\ pc[w] = "idle"
      /\ r \notin served
      /\ served' = served \cup {r}
      /\ job' = [job EXCEPT ![w] = r]
      /\ sawUsed' = [sawUsed EXCEPT ![w] = used[k]]
      /\ UNCHANGED <<rows, window, reserved, crashes>>
  BY <1>2 DEF Receive
<1>4. \/ /\ pc' = [pc EXCEPT ![w] = "velocity"]
         /\ decision' = [decision EXCEPT ![w] = "none"]
      \/ /\ pc' = [pc EXCEPT ![w] = FirstInsert(r)]
         /\ decision' = [decision EXCEPT ![w] = "deny"]
  <2>1. decision[w] = "none"
    BY <1>1, <1>3 DEF WorkerInv, Undecided
  <2>2. CASE Eligible(k)
    BY <1>1, <1>2, <2>1, <2>2 DEF Receive, CheckoutTypeOK
  <2>3. CASE ~Eligible(k)
    BY <1>1, <1>2, <2>1, <2>3 DEF Receive, CheckoutTypeOK
  <2>4. QED
    BY <2>2, <2>3
<1>5. /\ FirstInsert(r) \in {"create_checkout", "create_order"}
      /\ FirstInsert(r) = "create_order" => OrderOf[r] \notin Given
  BY DEF FirstInsert
<1>6. \A v \in Workers \ {w} : UNCHANGED <<pc[v], job[v], decision[v]>>
  BY <1>1, <1>3, <1>4 DEF CheckoutTypeOK
<1>7. CheckoutTypeOK'
  <2>1. PICK p \in Steps, d \in {"none", "deny"} :
          /\ pc' = [pc EXCEPT ![w] = p]
          /\ decision' = [decision EXCEPT ![w] = d]
          /\ p \notin {"velocity", "set_velocity"} => d # "none"
    BY <1>4, <1>5 DEF Steps
  <2>2. /\ pc' \in [Workers -> Steps \cup {"idle"}]
        /\ job' \in [Workers -> Requests \cup {NoRequest}]
        /\ decision' \in [Workers -> {"none", "approve", "deny"}]
    BY <1>1, <1>3, <2>1 DEF CheckoutTypeOK
  <2>3. sawUsed' \in [Workers -> Nat]
    BY <1>1, <1>3 DEF CheckoutTypeOK
  <2>4. pc'[w] = p /\ job'[w] = r /\ decision'[w] = d /\ p # "idle" /\ r # NoRequest
    BY <1>1, <1>3, <2>1 DEF CheckoutTypeOK, Steps
  <2>5. \A v \in Workers :
          /\ pc'[v] = "idle" <=> job'[v] = NoRequest
          /\ pc'[v] \in Steps \ {"velocity", "set_velocity"} => decision'[v] # "none"
    BY <1>1, <1>3, <1>6, <2>1, <2>4 DEF CheckoutTypeOK
  <2>6. QED
    BY <1>1, <1>3, <2>2, <2>3, <2>5 DEF CheckoutTypeOK, rows, plan, told, window
<1>8. \A s \in Requests : RowsStay(s)
  BY <1>3 DEF RowsStay, rows, plan, told
<1>9. \A v \in Workers \ {w} : job[v] # r
  BY <1>1, <1>3 DEF IInv, WorkerInv, CheckoutTypeOK
<1>10. OneEach'
  <2>1. job'[w] = r /\ \A v \in Workers \ {w} : job'[v] = job[v]
    BY <1>1, <1>3 DEF CheckoutTypeOK
  <2>2. QED
    BY <1>1, <1>9, <2>1 DEF OneEach
<1>11. WorkerInv(w)'
  <2>1. r \notin reserved
    BY <1>1, <1>3 DEF RequestInv
  <2>2. job'[w] = r /\ r \in served' /\ r \notin reserved'
    BY <1>1, <1>3, <2>1 DEF CheckoutTypeOK
  <2>3. \/ pc'[w] = "velocity" /\ decision'[w] = "none"
        \/ pc'[w] = FirstInsert(r) /\ decision'[w] = "deny"
    BY <1>1, <1>4 DEF CheckoutTypeOK
  <2>4. QED
    BY <1>5, <2>2, <2>3 DEF WorkerInv, Undecided, Approved, Booking
<1>12. ASSUME NEW v \in Workers \ {w} PROVE WorkerInv(v)'
  <2>1. pc[v] # "idle" => job[v] \in Requests
    BY <1>1 DEF CheckoutTypeOK
  <2>2. QED
    BY <1>3, <1>8, <1>6, <1>12, <2>1, WorkerRests DEF IInv
<1>13. ASSUME NEW s \in Requests PROVE RequestInv(s)'
  BY <1>3, <1>8, <1>13, RequestRests DEF IInv
<1>14. QED
  BY <1>3, <1>7, <1>10, <1>11, <1>12, <1>13, CountersRest DEF IInv

\* A step outside the workers moves none of them and writes no row of a request.
LEMMA OutsideStep ==
  ASSUME IInv, CheckoutTypeOK', UNCHANGED <<pc, job, decision, served>>,
         \A s \in Requests : RowsStay(s),
         \A k \in Customers : CounterInv(k)'
  PROVE  IInv'
<1>1. OneEach'
  BY DEF IInv, OneEach
<1>2. ASSUME NEW v \in Workers PROVE WorkerInv(v)'
  <2>1. pc[v] # "idle" => job[v] \in Requests
    BY DEF IInv, CheckoutTypeOK
  <2>2. QED
    BY <2>1, WorkerRests DEF IInv
<1>3. ASSUME NEW s \in Requests PROVE RequestInv(s)'
  BY RequestRests DEF IInv
<1>4. QED
  BY <1>1, <1>2, <1>3 DEF IInv

\* The key of the counter times out (credit.py 92): a new window.
LEMMA VelocityExpiresKeeps ==
  ASSUME IInv, NEW k \in Customers, VelocityExpires(k)
  PROVE  IInv'
<1>1. CheckoutTypeOK
  BY DEF IInv
<1>2. /\ velocity' = [velocity EXCEPT ![k] = 0]
      /\ admitted' = [admitted EXCEPT ![k] = 0]
      /\ started' = [started EXCEPT ![k] = 0]
      /\ UNCHANGED <<rows, locals, served, reserved, crashes>>
  BY DEF VelocityExpires
<1>3. CheckoutTypeOK'
  BY <1>1, <1>2 DEF CheckoutTypeOK, rows, plan, told, locals
<1>4. \A s \in Requests : RowsStay(s)
  BY <1>2 DEF RowsStay, rows, plan, told
<1>5. ASSUME NEW c \in Customers PROVE CounterInv(c)'
  BY <1>1, <1>2 DEF IInv, CounterInv, CheckoutTypeOK
<1>6. QED
  BY <1>2, <1>3, <1>4, <1>5, OutsideStep DEF locals

\* The overdue run (collections/services.py 51-56) sets is_blocked only.
LEMMA SuspendKeeps ==
  ASSUME IInv, NEW k \in Customers, Suspend(k)
  PROVE  IInv'
<1>1. /\ blocked' = [blocked EXCEPT ![k] = TRUE]
      /\ UNCHANGED <<order, checkout, risk, used, ledger, plan, told, locals, window,
                     served, reserved, crashes>>
  BY DEF Suspend
<1>2. blocked' \in [Customers -> BOOLEAN]
  BY <1>1 DEF IInv, CheckoutTypeOK
<1>3. CheckoutTypeOK'
  BY <1>1, <1>2 DEF IInv, CheckoutTypeOK, plan, told, locals, window
<1>4. \A s \in Requests : RowsStay(s)
  BY <1>1 DEF RowsStay, plan, told
<1>5. QED
  BY <1>1, <1>3, <1>4, OutsideStep, CountersRest DEF locals

\* The merchant makes an order (services.py 55-72) that did not exist.
LEMMA PlaceOrderKeeps ==
  ASSUME IInv, NEW o \in Orders, PlaceOrder(o)
  PROVE  IInv'
<1>1. /\ order[o] = "none"
      /\ order' = [order EXCEPT ![o] = "created"]
      /\ UNCHANGED <<checkout, risk, used, blocked, ledger, plan, told, locals, window,
                     served, reserved, crashes>>
  BY DEF PlaceOrder
<1>2. CheckoutTypeOK'
  BY <1>1 DEF IInv, CheckoutTypeOK, plan, told, locals, window
<1>3. \A s \in Requests : RowsStay(s)
  BY <1>1 DEF IInv, CheckoutTypeOK, RowsStay, plan, told
<1>4. QED
  BY <1>1, <1>2, <1>3, OutsideStep, CountersRest DEF locals

\* A worker that executes a statement, or dies, works on a request.
LEMMA BusyWorker ==
  ASSUME IInv, NEW w \in Workers, Step(w) \/ Crash(w)
  PROVE  \E r \in Requests : job[w] = r
<1>1. pc[w] # "idle"
  BY DEF Step, Crash, Goto, Velocity, SetVelocity, CreateOrder, CreateCheckout,
         CreateRisk, ConvertOrder, Reserve, PostCheckout, CreateInstallment,
         CreateCharge, CreateTransaction, Enqueue, Dispatch, NotifyCustomer
<1>2. QED
  BY <1>1 DEF IInv, CheckoutTypeOK

\* Every step keeps the invariant.
LEMMA NextInv == IInv /\ [Next]_vars => IInv'
<1> SUFFICES ASSUME IInv, [Next]_vars PROVE IInv'
  OBVIOUS
<1>1. ASSUME NEW w \in Workers, NEW r \in Requests, Receive(w, r) PROVE IInv'
  BY <1>1, ReceiveKeeps
<1>2. ASSUME NEW w \in Workers, Step(w) \/ Crash(w) PROVE IInv'
  <2>1. PICK r \in Requests : job[w] = r
    BY <1>2, BusyWorker
  <2>2. QED
    BY <1>2, <2>1, VelocityKeeps, SetVelocityKeeps, CreateOrderKeeps, CreateCheckoutKeeps,
       CreateRiskKeeps, ConvertOrderKeeps, ReserveKeeps, PostCheckoutKeeps,
       CreateInstallmentKeeps, CreateChargeKeeps, CreateTransactionKeeps, EnqueueKeeps,
       DispatchKeeps, NotifyCustomerKeeps, CrashKeeps
    DEF Step
<1>3. ASSUME NEW k \in Customers, VelocityExpires(k) \/ Suspend(k) PROVE IInv'
  BY <1>3, VelocityExpiresKeeps, SuspendKeeps
<1>4. ASSUME NEW o \in Orders, PlaceOrder(o) PROVE IInv'
  BY <1>4, PlaceOrderKeeps
<1>5. CASE UNCHANGED vars
  <2>1. CheckoutTypeOK'
    BY <1>5 DEF IInv, CheckoutTypeOK, vars, rows, plan, told, locals, window
  <2>2. \A s \in Requests : RowsStay(s)
    BY <1>5 DEF RowsStay, vars, rows, plan, told
  <2>3. QED
    BY <1>5, <2>1, <2>2, OutsideStep, CountersRest DEF vars, locals
<1>6. QED
  BY <1>1, <1>2, <1>3, <1>4, <1>5 DEF Next

\* The invariant holds in every reachable state.
LEMMA IInvAlways == Spec => []IInv
<1>1. QED
  BY InitInv, NextInv, PTL DEF Spec

-----------------------------------------------------------------------------
\* Room for one more worker is one limit more.
LEMMA OneMoreLimit ==
  ASSUME NEW n \in Nat, NEW limit \in Nat
  PROVE  /\ (n + 1) * limit = n * limit + limit
         /\ n * limit \in Nat
OBVIOUS

\* The number of racing workers, when none, one more or one less of them races.
LEMMA RacingCount ==
  ASSUME NEW k \in Customers
  PROVE  /\ IsFiniteSet(Racing(k))
         /\ Cardinality(Racing(k)) \in Nat
         /\ Cardinality(Workers) \in Nat
         /\ Cardinality(Racing(k)) <= Cardinality(Workers)
<1>1. Racing(k) \subseteq Workers /\ IsFiniteSet(Workers)
  BY CheckoutAssumption DEF Racing
<1>2. QED
  BY <1>1, FS_Subset, FS_CardinalityType

\* Nothing happens to the race for customer k.
LEMMA RaceRests ==
  ASSUME NEW k \in Customers, RoomInv(k), Racing(k)' = Racing(k), used'[k] = used[k],
         \A v \in Racing(k) : sawUsed'[v] = sawUsed[v]
  PROVE  RoomInv(k)'
BY DEF RoomInv

\* A worker reads the customer and enters the race.
LEMMA RaceJoined ==
  ASSUME NEW k \in Customers, NEW w \in Workers, IInv, Racing(k)' = Racing(k) \cup {w},
         used'[k] = used[k], sawUsed'[w] = used[k]
  PROVE  RoomInv(k)'
<1>1. Racing(k)' \subseteq Workers /\ IsFiniteSet(Workers)
  BY CheckoutAssumption DEF Racing
<1>2. PICK n \in Nat : n = Cardinality(Workers) - Cardinality(Racing(k)')
  BY <1>1, FS_Subset, FS_CardinalityType
<1>3. n * ApprovedLimit[k] \in Nat
  BY CheckoutAssumption, OneMoreLimit
<1>4. used[k] \in Nat
  BY DEF IInv, CheckoutTypeOK
<1>5. used[k] <= n * ApprovedLimit[k] + used[k]
  BY <1>3, <1>4
<1>6. w \in Racing(k)'
  OBVIOUS
<1>7. used'[k] <= (Cardinality(Workers) - Cardinality(Racing(k)')) * ApprovedLimit[k]
                    + sawUsed'[w]
  BY <1>2, <1>5
<1>8. QED
  BY <1>6, <1>7 DEF RoomInv

\* A worker leaves the race, having added at most what it saw free.
LEMMA RaceLeft ==
  ASSUME NEW k \in Customers, IInv, RoomInv(k), NEW w \in Racing(k),
         Racing(k)' = Racing(k) \ {w},
         used'[k] \in Nat, used'[k] <= used[k] + (ApprovedLimit[k] - sawUsed[w]),
         \A v \in Racing(k) \ {w} : sawUsed'[v] = sawUsed[v]
  PROVE  RoomInv(k)'
<1> DEFINE limit == ApprovedLimit[k]
           n == Cardinality(Workers) - Cardinality(Racing(k))
<1>1. /\ limit \in Nat /\ used[k] \in Nat
      /\ \A v \in Workers : sawUsed[v] \in Nat
      /\ Racing(k) \subseteq Workers
      /\ \A v \in Racing(k) : sawUsed[v] <= limit
  BY CheckoutAssumption DEF IInv, CheckoutTypeOK, Racing
<1>2. n \in Nat
  BY RacingCount
<1>3. Cardinality(Workers) - Cardinality(Racing(k)') = n + 1
  <2>1. Cardinality(Racing(k) \ {w}) = Cardinality(Racing(k)) - 1
    BY RacingCount, FS_RemoveElement
  <2>2. QED
    BY <2>1, RacingCount
<1>4. \/ used[k] <= n * limit
      \/ \E v \in Racing(k) : used[k] <= n * limit + sawUsed[v]
  BY DEF RoomInv
<1> HIDE DEF limit, n
<1>5. (n + 1) * limit = n * limit + limit /\ n * limit \in Nat
  BY <1>1, <1>2, OneMoreLimit
<1>6. used'[k] <= used[k] + (limit - sawUsed[w])
  BY DEF limit
<1>7. \/ used'[k] <= (n + 1) * limit
      \/ \E v \in Racing(k) \ {w} : used'[k] <= (n + 1) * limit + sawUsed'[v]
  <2>1. CASE used[k] <= n * limit \/ used[k] <= n * limit + sawUsed[w]
    <3>1. sawUsed[w] \in Nat
      BY <1>1
    <3>2. used'[k] <= n * limit + limit
      BY <1>1, <1>5, <1>6, <2>1, <3>1
    <3>3. QED
      BY <1>5, <3>2
  <2>2. ASSUME NEW v \in Racing(k) \ {w}, used[k] <= n * limit + sawUsed[v]
        PROVE  used'[k] <= (n + 1) * limit + sawUsed'[v]
    <3>1. sawUsed[w] \in Nat /\ sawUsed[v] \in Nat /\ sawUsed'[v] = sawUsed[v]
      BY <1>1
    <3>2. used'[k] <= n * limit + sawUsed[v] + limit
      BY <1>1, <1>5, <1>6, <2>2, <3>1
    <3>3. QED
      BY <1>1, <1>5, <3>1, <3>2
  <2>3. QED
    BY <1>4, <2>1, <2>2
<1>8. QED
  BY <1>3, <1>7 DEF RoomInv, limit

\* Of the racing workers only the one that moves can change.
LEMMA OneMoves ==
  ASSUME NEW k \in Customers, NEW w \in Workers,
         \A v \in Workers \ {w} : UNCHANGED <<pc[v], job[v], decision[v], sawUsed[v]>>
  PROVE  /\ w \in Racing(k)' => Racing(k)' = Racing(k) \cup {w}
         /\ w \notin Racing(k)' => Racing(k)' = Racing(k) \ {w}
BY DEF Racing

\* A statement of a worker keeps its copy and what it fits into, and takes no
\* worker into a race; only refresh_limit (credit.py 150-158) adds to what a
\* customer uses, and ends the race for its worker.
LEMMA StepRaces ==
  ASSUME IInv, RaceInv, NEW w \in Workers, NEW r \in Requests, job[w] = r,
         Step(w) \/ Crash(w), NEW k \in Customers
  PROVE  /\ \A v \in Workers \ {w} : UNCHANGED <<pc[v], job[v], decision[v], sawUsed[v]>>
         /\ CopyInv(w)'
         /\ w \in Racing(k)' => w \in Racing(k) /\ sawUsed'[w] = sawUsed[w]
         /\ \/ used'[k] = used[k]
            \/ /\ w \in Racing(k) /\ w \notin Racing(k)'
               /\ used'[k] <= used[k] + (ApprovedLimit[k] - sawUsed[w])
<1>1. CheckoutTypeOK /\ WorkerInv(w) /\ CopyInv(w)
  BY DEF IInv, RaceInv
<1>2. /\ pc \in [Workers -> Steps \cup {"idle"}]
      /\ job \in [Workers -> Requests \cup {NoRequest}]
      /\ decision \in [Workers -> {"none", "approve", "deny"}]
      /\ sawUsed \in [Workers -> Nat]
      /\ NoRequest # r
      /\ Total[r] \in Nat \ {0} /\ CustomerOf[r] \in Customers
      /\ ApprovedLimit \in [Customers -> Nat]
      /\ used \in [Customers -> Nat]
  BY <1>1, CheckoutAssumption DEF CheckoutTypeOK
<1>3. CASE Velocity(w) \/ SetVelocity(w)
  <2>1. /\ pc[w] \in {"velocity", "set_velocity"}
        /\ \E p : pc' = [pc EXCEPT ![w] = p]
        /\ UNCHANGED <<job, sawUsed, used>>
    BY <1>3 DEF Velocity, SetVelocity, Goto, Decide, rows
  <2>2. \/ UNCHANGED decision
        \/ \E n \in Nat : decision' = [decision EXCEPT ![w] =
                            IF Approves(r, sawUsed[w], n) THEN "approve" ELSE "deny"]
    <3>1. CASE SetVelocity(w)
      BY <3>1 DEF SetVelocity, Decide
    <3>2. CASE Velocity(w)
      <4>1. velocity[CustomerOf[r]] \in Nat
        BY <1>1, <1>2 DEF CheckoutTypeOK
      <4>2. velocity[CustomerOf[r]] + 1 \in Nat
        BY <4>1
      <4>3. QED
        BY <3>2, <4>2 DEF Velocity, Decide
    <3>3. QED
      BY <1>3, <3>1, <3>2
  <2>3. ASSUME NEW n \in Nat, Approves(r, sawUsed[w], n)
        PROVE  Total[r] + sawUsed[w] <= ApprovedLimit[CustomerOf[r]]
    <3>1. Total[r] <= Larger(0, ApprovedLimit[CustomerOf[r]] - sawUsed[w])
      BY <2>3 DEF Approves
    <3>2. QED
      BY <1>2, <3>1 DEF Larger
  <2>4. decision[w] = "none"
    BY <1>1, <2>1 DEF WorkerInv, Undecided
  <2>5. \A v \in Workers \ {w} : UNCHANGED <<pc[v], job[v], decision[v], sawUsed[v]>>
    BY <1>2, <2>1, <2>2
  <2>6. CopyInv(w)'
    <3>1. CASE UNCHANGED decision
      BY <2>4, <3>1 DEF CopyInv
    <3>2. ASSUME NEW n \in Nat, decision' = [decision EXCEPT ![w] =
                     IF Approves(r, sawUsed[w], n) THEN "approve" ELSE "deny"]
          PROVE  CopyInv(w)'
      <4>1. decision'[w] = "approve" => Approves(r, sawUsed[w], n)
        BY <1>2, <3>2
      <4>2. job'[w] = r /\ sawUsed'[w] = sawUsed[w]
        BY <2>1
      <4>3. QED
        BY <2>3, <4>1, <4>2 DEF CopyInv
    <3>3. QED
      BY <2>2, <3>1, <3>2
  <2>7. w \in Racing(k)' => w \in Racing(k)
    BY <2>1, <2>4 DEF Racing, Booking
  <2>8. QED
    BY <2>1, <2>5, <2>6, <2>7
<1>4. CASE CreateRisk(w) \/ NotifyCustomer(w) \/ Crash(w)
  <2>1. UNCHANGED used
    BY <1>4 DEF CreateRisk, NotifyCustomer, Crash, rows
  <2>2. CASE Leave(w)
    <3>1. /\ pc'[w] = "idle" /\ decision'[w] = "none"
          /\ \A v \in Workers \ {w} : UNCHANGED <<pc[v], job[v], decision[v], sawUsed[v]>>
      BY <1>2, <2>2 DEF Leave
    <3>2. QED
      BY <2>1, <3>1 DEF CopyInv, Racing
  <2>3. CASE ~Leave(w)
    <3>1. /\ pc[w] = "create_risk" /\ pc' = [pc EXCEPT ![w] = "convert_order"]
          /\ UNCHANGED <<job, sawUsed, decision>>
      BY <1>4, <2>3 DEF CreateRisk, NotifyCustomer, Crash, Goto
    <3>2. QED
      BY <1>1, <1>2, <2>1, <3>1 DEF CopyInv, Racing, Booking
  <2>4. QED
    BY <2>2, <2>3
<1>5. CASE Reserve(w)
  <2>1. /\ pc[w] = "reserve" /\ pc' = [pc EXCEPT ![w] = "post"]
        /\ used' = [used EXCEPT ![CustomerOf[r]] = @ + Total[r]]
        /\ UNCHANGED <<job, sawUsed, decision>>
    BY <1>5 DEF Reserve, Goto
  <2>2. decision[w] = "approve"
    BY <1>1, <2>1 DEF WorkerInv, Approved
  <2>3. Total[r] + sawUsed[w] <= ApprovedLimit[CustomerOf[r]]
    BY <1>1, <2>2 DEF CopyInv
  <2>4. w \notin Racing(k)'
    BY <1>2, <2>1 DEF Racing, Booking
  <2>5. CASE CustomerOf[r] = k
    <3>1. used'[k] = used[k] + Total[r]
      BY <1>2, <2>1, <2>5
    <3>2. used[k] \in Nat /\ sawUsed[w] \in Nat /\ ApprovedLimit[k] \in Nat
      BY <1>2
    <3>3. /\ used'[k] <= used[k] + (ApprovedLimit[k] - sawUsed[w])
          /\ sawUsed[w] <= ApprovedLimit[k]
      BY <1>2, <2>3, <2>5, <3>1, <3>2
    <3>4. w \in Racing(k)
      BY <2>1, <2>2, <2>5, <3>3 DEF Racing, Booking
    <3>5. QED
      BY <1>1, <1>2, <2>1, <2>4, <3>3, <3>4 DEF CopyInv
  <2>6. CASE CustomerOf[r] # k
    BY <1>1, <1>2, <2>1, <2>4, <2>6 DEF CopyInv
  <2>7. QED
    BY <2>5, <2>6
<1>6. CASE \/ CreateOrder(w) \/ CreateCheckout(w) \/ ConvertOrder(w) \/ PostCheckout(w)
           \/ CreateInstallment(w) \/ CreateCharge(w) \/ CreateTransaction(w)
           \/ Enqueue(w) \/ Dispatch(w)
  <2>1. \E p \in Steps : /\ pc' = [pc EXCEPT ![w] = p]
                         /\ pc[w] # "idle"
                         /\ pc[w] \in Booking => p \in Booking
    BY <1>6
       DEF Goto, Booking, Steps, CreateOrder, CreateCheckout, ConvertOrder,
           PostCheckout,
                CreateInstallment, CreateCharge, CreateTransaction, Enqueue, Dispatch
  <2>2. UNCHANGED <<job, sawUsed, decision, used>>
    BY <1>6 DEF CreateOrder, CreateCheckout, ConvertOrder, PostCheckout,
                CreateInstallment, CreateCharge, CreateTransaction, Enqueue, Dispatch
  <2>3. QED
    BY <1>1, <1>2, <2>1, <2>2 DEF CopyInv, Racing
<1>7. QED
  BY <1>3, <1>4, <1>5, <1>6 DEF Step

\* Every step leaves the racing workers within the room they have.
LEMMA RaceKept == IInv /\ IInv' /\ RaceInv /\ [Next]_vars => RaceInv'
<1> SUFFICES ASSUME IInv, IInv', RaceInv, [Next]_vars PROVE RaceInv'
  OBVIOUS
<1>1. CheckoutTypeOK /\ CheckoutTypeOK'
  BY DEF IInv
<1>2. ASSUME NEW w \in Workers, NEW r \in Requests, Receive(w, r) PROVE RaceInv'
  <2>1. /\ pc[w] = "idle"
        /\ job' = [job EXCEPT ![w] = r]
        /\ sawUsed' = [sawUsed EXCEPT ![w] = used[CustomerOf[r]]]
        /\ UNCHANGED used
    BY <1>2 DEF Receive, rows
  <2>2. \A v \in Workers \ {w} : UNCHANGED <<pc[v], job[v], decision[v], sawUsed[v]>>
    BY <1>1, <1>2 DEF Receive, CheckoutTypeOK
  <2>3. decision'[w] # "approve"
    <3>1. decision[w] = "none"
      BY <2>1 DEF IInv, WorkerInv, Undecided
    <3>2. QED
      BY <1>1, <1>2, <3>1 DEF Receive, CheckoutTypeOK
  <2>4. \A v \in Workers : CopyInv(v)'
    BY <2>2, <2>3 DEF RaceInv, CopyInv
  <2>5. ASSUME NEW k \in Customers PROVE RoomInv(k)'
    <3>1. w \notin Racing(k)
      BY <2>1 DEF Racing
    <3>2. CASE w \in Racing(k)'
      <4>1. job'[w] = r /\ sawUsed'[w] = used[CustomerOf[r]]
        BY <1>1, <2>1 DEF CheckoutTypeOK
      <4>2. CustomerOf[r] = k
        BY <3>2, <4>1 DEF Racing
      <4>3. QED
        BY <2>1, <2>2, <3>2, <4>1, <4>2, OneMoves, RaceJoined
    <3>3. CASE w \notin Racing(k)'
      <4>1. Racing(k)' = Racing(k)
        BY <2>2, <3>1, <3>3, OneMoves
      <4>2. \A v \in Racing(k) : sawUsed'[v] = sawUsed[v]
        BY <2>2, <3>1 DEF Racing
      <4>3. QED
        BY <2>1, <4>1, <4>2, RaceRests DEF RaceInv
    <3>4. QED
      BY <3>2, <3>3
  <2>6. QED
    BY <2>4, <2>5 DEF RaceInv
<1>3. ASSUME NEW w \in Workers, NEW r \in Requests, job[w] = r, Step(w) \/ Crash(w)
      PROVE  RaceInv'
  <2>1. ASSUME NEW k \in Customers PROVE RoomInv(k)'
    <3>1. /\ \A v \in Workers \ {w} : UNCHANGED <<pc[v], job[v], decision[v], sawUsed[v]>>
          /\ w \in Racing(k)' => w \in Racing(k) /\ sawUsed'[w] = sawUsed[w]
          /\ \/ used'[k] = used[k]
             \/ /\ w \in Racing(k) /\ w \notin Racing(k)'
                /\ used'[k] <= used[k] + (ApprovedLimit[k] - sawUsed[w])
      BY <1>3, StepRaces
    <3>2. CASE w \in Racing(k) /\ w \notin Racing(k)'
      <4>1. used'[k] \in Nat /\ used[k] \in Nat
        BY <1>1 DEF CheckoutTypeOK
      <4>2. sawUsed[w] \in Nat /\ sawUsed[w] <= ApprovedLimit[k] /\ ApprovedLimit[k] \in Nat
        BY <1>1, <3>2, CheckoutAssumption DEF CheckoutTypeOK, Racing
      <4>3. used'[k] <= used[k] + (ApprovedLimit[k] - sawUsed[w])
        BY <3>1, <4>1, <4>2
      <4>4. \A v \in Racing(k) \ {w} : sawUsed'[v] = sawUsed[v]
        BY <3>1 DEF Racing
      <4>5. Racing(k)' = Racing(k) \ {w}
        BY <3>1, <3>2, OneMoves
      <4>6. QED
        BY <3>2, <4>1, <4>3, <4>4, <4>5, RaceLeft DEF RaceInv
    <3>3. CASE ~(w \in Racing(k) /\ w \notin Racing(k)')
      <4>1. Racing(k)' = Racing(k)
        BY <3>1, <3>3, OneMoves
      <4>2. \A v \in Racing(k) : sawUsed'[v] = sawUsed[v]
        BY <3>1, <4>1 DEF Racing
      <4>3. QED
        BY <3>1, <3>3, <4>1, <4>2, RaceRests DEF RaceInv
    <3>4. QED
      BY <3>2, <3>3
  <2>2. ASSUME NEW v \in Workers PROVE CopyInv(v)'
    <3>1. PICK k \in Customers : k = CustomerOf[r]
      BY CheckoutAssumption
    <3>2. /\ CopyInv(w)'
          /\ v # w => UNCHANGED <<job[v], decision[v], sawUsed[v]>>
      BY <1>3, <3>1, StepRaces
    <3>3. QED
      BY <3>2 DEF RaceInv, CopyInv
  <2>3. QED
    BY <2>1, <2>2 DEF RaceInv
<1>4. CASE UNCHANGED <<locals, used>>
  <2>1. \A k \in Customers : Racing(k)' = Racing(k)
    BY <1>4 DEF Racing, locals
  <2>2. \A k \in Customers : RoomInv(k)'
    BY <1>4, <2>1, RaceRests DEF RaceInv, locals
  <2>3. \A v \in Workers : CopyInv(v)'
    BY <1>4 DEF RaceInv, CopyInv, locals
  <2>4. QED
    BY <2>2, <2>3 DEF RaceInv
<1>5. ASSUME NEW w \in Workers, Step(w) \/ Crash(w) PROVE RaceInv'
  BY <1>3, <1>5, BusyWorker
<1>6. QED
  BY <1>2, <1>4, <1>5 DEF Next, VelocityExpires, Suspend, PlaceOrder, vars, rows

\* The room of the racing workers is never exceeded.
LEMMA RaceAlways == Spec => []RaceInv
<1>1. IInv /\ Init => RaceInv
  <2> SUFFICES ASSUME IInv, Init PROVE RaceInv
    OBVIOUS
  <2>1. \A w \in Workers : CopyInv(w)
    BY DEF Init, CopyInv
  <2>2. ASSUME NEW k \in Customers PROVE RoomInv(k)
    <3>1. PICK n \in Nat : n = Cardinality(Workers) - Cardinality(Racing(k))
      BY RacingCount
    <3>2. ApprovedLimit[k] \in Nat
      BY CheckoutAssumption
    <3>3. used[k] = 0 /\ n * ApprovedLimit[k] \in Nat
      BY <3>2, OneMoreLimit DEF Init, NoCount
    <3>4. QED
      BY <3>1, <3>3 DEF RoomInv
  <2>3. QED
    BY <2>1, <2>2 DEF RaceInv
<1>2. QED
  BY <1>1, InitInv, NextInv, RaceKept, PTL DEF Spec

-----------------------------------------------------------------------------
\* Rows, counters and worker processes stay well typed: an ill-typed value would be a
\* statement of create_session (checkout/services.py 74-186) run out of its order.
THEOREM TypeCorrect == Spec => []CheckoutTypeOK
<1>1. IInv => CheckoutTypeOK
  BY DEF IInv
<1>2. QED
  BY <1>1, IInvAlways, PTL

\* The order of the statements of create_session (checkout/services.py 98-155) survives
\* crashes and overlapping requests: whatever rows a request has left behind, a charge
\* rests on a complete posting, that on a reservation, that on a recorded approval.
THEOREM NothingOwedUnreserved == Spec => []OwedIsReserved
<1>1. IInv => OwedIsReserved
  BY DEF IInv, RequestInv, OwedIsReserved
<1>2. QED
  BY <1>1, IInvAlways, PTL

\* However the incr and set of overlapping requests fall (credit.py 87-93), two
\* applications per counter started are let through in a window.
THEOREM VelocityIsBounded == Spec => []VelocityBound
<1>1. IInv => VelocityBound
  BY DEF IInv, CounterInv, VelocityBound, MAX_APPLICATIONS
<1>2. QED
  BY <1>1, IInvAlways, PTL

\* A checkout the merchant or the customer has been told of (checkout/services.py
\* 145-186) has every installment, charge and transaction of create_installment_plan,
\* at the amounts computed.
THEOREM AnnouncedPlans == Spec => []PlanIsWhole
<1>1. ASSUME IInv, NEW r \in approvedRows \cup notified
      PROVE  /\ installments[r] = [n \in 1..Count[r] |-> InstallmentAmount(r, n)]
             /\ charges[r] = installments[r]
             /\ transactions[r] = installments[r]
  <2>1. r \in Requests
    BY <1>1 DEF IInv, CheckoutTypeOK
  <2>2. /\ installments[r] \in Seq(Nat) /\ charges[r] \in Seq(Nat)
        /\ transactions[r] \in Seq(Nat) /\ Count[r] \in Nat
    BY <1>1, <2>1, CheckoutAssumption DEF IInv, CheckoutTypeOK
  <2>3. /\ Planned(installments, r) /\ Planned(charges, r) /\ Planned(transactions, r)
        /\ Len(installments[r]) <= Count[r]
        /\ Len(charges[r]) <= Len(installments[r])
        /\ Len(transactions[r]) <= Len(charges[r])
        /\ Len(transactions[r]) = Count[r]
    BY <1>1, <2>1 DEF IInv, RequestInv
  <2>4. Len(installments[r]) = Count[r] /\ Len(charges[r]) = Count[r]
    <3>1. /\ Len(installments[r]) \in Nat /\ Len(charges[r]) \in Nat
          /\ Len(transactions[r]) \in Nat
      BY <2>2
    <3>2. QED
      BY <2>2, <2>3, <3>1
  <2>5. ASSUME NEW s \in Seq(Nat), Len(s) = Count[r],
               \A n \in 1..Len(s) : s[n] = InstallmentAmount(r, n)
        PROVE  s = [n \in 1..Count[r] |-> InstallmentAmount(r, n)]
    BY <2>5
  <2>6. QED
    BY <2>2, <2>3, <2>4, <2>5 DEF Planned
<1>2. IInv => PlanIsWhole
  BY <1>1 DEF PlanIsWhole
<1>3. QED
  BY <1>2, IInvAlways, PTL

\* A blocked customer with no undecided or approved request in flight (credit.py 64-85)
\* stays shut off, and used_limit does not move.
THEOREM BlockedTakesNoCredit == Spec => SuspensionHolds
<1> DEFINE Holds == \A k \in Customers : ShutOff(k) => ShutOff(k)' /\ used'[k] = used[k]
<1>1. IInv /\ [Next]_vars => [Holds]_vars
  <2> SUFFICES ASSUME IInv, Next, NEW k \in Customers, ShutOff(k)
               PROVE  ShutOff(k)' /\ used'[k] = used[k]
    OBVIOUS
  <2> USE CheckoutAssumption
  <2>1. CheckoutTypeOK
    BY DEF IInv
  <2>2. ASSUME NEW w \in Workers, NEW r \in Requests, Receive(w, r)
        PROVE  ShutOff(k)' /\ used'[k] = used[k]
    <3>1. /\ job'[w] = r
          /\ \A v \in Workers \ {w} : UNCHANGED <<pc[v], job[v], decision[v]>>
          /\ UNCHANGED <<used, blocked>>
      BY <2>1, <2>2 DEF Receive, CheckoutTypeOK, rows
    <3>2. CustomerOf[r] = k => decision'[w] = "deny"
      <4> SUFFICES ASSUME CustomerOf[r] = k PROVE decision'[w] = "deny"
        OBVIOUS
      <4>1. ~Eligible(CustomerOf[r])
        BY DEF ShutOff, Eligible
      <4>2. decision' = [decision EXCEPT ![w] = "deny"]
        BY <2>2, <4>1 DEF Receive
      <4>3. QED
        BY <2>1, <4>2 DEF CheckoutTypeOK
    <3>3. QED
      BY <3>1, <3>2 DEF ShutOff
  <2>3. ASSUME NEW w \in Workers, Step(w) \/ Crash(w)
        PROVE  ShutOff(k)' /\ used'[k] = used[k]
    <3>1. PICK r \in Requests : job[w] = r
      BY <2>3, BusyWorker
    <3>2. pc[w] # "idle"
      BY <2>1, <3>1, CheckoutAssumption DEF CheckoutTypeOK
    <3>3. WorkerInv(w)
      BY DEF IInv
    <3>4. w \in Workers /\ pc \in [Workers -> Steps \cup {"idle"}]
          /\ job \in [Workers -> Requests \cup {NoRequest}]
          /\ DOMAIN decision = Workers /\ NoRequest # r
      BY <2>1 DEF CheckoutTypeOK
    <3>5. /\ UNCHANGED blocked
          /\ \A v \in Workers \ {w} : UNCHANGED <<pc[v], job[v], decision[v]>>
          /\ job'[w] \in {r, NoRequest}
          /\ job'[w] = NoRequest => pc'[w] = "idle"
      <4>1. CASE Velocity(w) \/ SetVelocity(w)
        BY <3>1, <3>4, <4>1 DEF Velocity, SetVelocity, Goto, Decide, rows
      <4>2. CASE \/ CreateOrder(w) \/ CreateCheckout(w) \/ ConvertOrder(w) \/ Reserve(w)
                 \/ PostCheckout(w) \/ CreateInstallment(w) \/ CreateCharge(w)
                 \/ CreateTransaction(w) \/ Enqueue(w) \/ Dispatch(w)
        BY <3>1, <3>4, <4>2
           DEF Goto, CreateOrder, CreateCheckout, ConvertOrder, Reserve, PostCheckout,
               CreateInstallment, CreateCharge, CreateTransaction, Enqueue, Dispatch
      <4>3. CASE CreateRisk(w) \/ NotifyCustomer(w) \/ Crash(w)
        BY <3>1, <3>4, <4>3 DEF Goto, Leave, CreateRisk, NotifyCustomer, Crash, rows
      <4>4. QED
        BY <2>3, <4>1, <4>2, <4>3 DEF Step
    <3>6. CustomerOf[r] = k => decision[w] = "deny" /\ pc[w] \notin Undecided
      BY <3>2, <3>1, <3>3 DEF ShutOff, WorkerInv
    <3>7. CustomerOf[r] = k => used'[k] = used[k] /\ (pc'[w] # "idle" => decision'[w] = "deny")
      BY <2>1, <2>3, <3>1, <3>3, <3>6
         DEF Step, Crash, Goto, Leave, Velocity, SetVelocity, CreateOrder, CreateCheckout,
             CreateRisk, ConvertOrder, Reserve, PostCheckout, CreateInstallment,
             CreateCharge, CreateTransaction, Enqueue, Dispatch, NotifyCustomer,
             CheckoutTypeOK, WorkerInv, Undecided, Approved, rows
    <3>8. CustomerOf[r] # k => used'[k] = used[k]
      BY <2>1, <2>3, <3>1
         DEF Step, Crash, Goto, Leave, Velocity, SetVelocity, CreateOrder, CreateCheckout,
             CreateRisk, ConvertOrder, Reserve, PostCheckout, CreateInstallment,
             CreateCharge, CreateTransaction, Enqueue, Dispatch, NotifyCustomer,
             CheckoutTypeOK, rows
    <3>9. QED
      BY <3>1, <3>5, <3>7, <3>8 DEF ShutOff
  <2>4. ASSUME NEW c \in Customers, VelocityExpires(c) \/ Suspend(c)
        PROVE  ShutOff(k)' /\ used'[k] = used[k]
    <3>1. UNCHANGED <<pc, job, decision, used>>
      BY <2>4 DEF VelocityExpires, Suspend, locals, rows
    <3>2. blocked'[k] = blocked[k] \/ blocked'[k] = TRUE
      BY <2>1, <2>4 DEF VelocityExpires, Suspend, CheckoutTypeOK, rows
    <3>3. QED
      BY <3>1, <3>2 DEF ShutOff
  <2>5. ASSUME NEW o \in Orders, PlaceOrder(o)
        PROVE  ShutOff(k)' /\ used'[k] = used[k]
    BY <2>5 DEF PlaceOrder, ShutOff, locals
  <2>6. QED
    BY <2>2, <2>3, <2>4, <2>5 DEF Next
<1>2. SuspensionHolds <=> [][Holds]_vars
  BY DEF SuspensionHolds
<1>3. QED
  BY <1>1, <1>2, IInvAlways, PTL DEF Spec

\* The limit is checked on a copy (credit.py 126) and reserved later (145): it can be
\* exceeded, but never by more than one limit per worker process, whatever the amounts.
THEOREM OvercommitIsBounded == Spec => []OvercommitBounded
<1>1. ASSUME IInv, RaceInv, NEW k \in Customers
      PROVE  used[k] <= Cardinality(Workers) * ApprovedLimit[k]
  <2> DEFINE limit == ApprovedLimit[k]
             racing == Cardinality(Racing(k))
             n == Cardinality(Workers) - racing
  <2>1. /\ limit \in Nat /\ used[k] \in Nat /\ n \in Nat /\ racing \in Nat
        /\ Cardinality(Workers) = n + racing
    BY <1>1, CheckoutAssumption, RacingCount DEF IInv, CheckoutTypeOK
  <2>2. \/ used[k] <= n * limit
        \/ racing >= 1 /\ used[k] <= n * limit + limit
    <3>1. CASE used[k] <= n * limit
      BY <3>1
    <3>2. ASSUME NEW w \in Racing(k), used[k] <= n * limit + sawUsed[w]
          PROVE  racing >= 1 /\ used[k] <= n * limit + limit
      <4>1. sawUsed[w] <= limit /\ sawUsed[w] \in Nat
        BY <1>1 DEF Racing, IInv, CheckoutTypeOK
      <4>2. racing # 0
        BY RacingCount, FS_EmptySet
      <4>3. n * limit \in Nat
        BY <2>1, OneMoreLimit
      <4>4. QED
        BY <2>1, <3>2, <4>1, <4>2, <4>3
    <3>3. QED
      BY <1>1, <3>1, <3>2 DEF RaceInv, RoomInv
  <2> HIDE DEF limit, racing, n
  <2>3. (n + racing) * limit = n * limit + racing * limit
    BY <2>1
  <2>4. racing * limit \in Nat /\ n * limit \in Nat
    BY <2>1, OneMoreLimit
  <2>5. racing >= 1 => limit <= racing * limit
    <3> SUFFICES ASSUME racing >= 1 PROVE limit <= racing * limit
      OBVIOUS
    <3>1. PICK m \in Nat : racing = m + 1
      BY <2>1
    <3>2. QED
      BY <2>1, <3>1, OneMoreLimit
  <2>6. used[k] <= (n + racing) * limit
    BY <2>1, <2>2, <2>3, <2>4, <2>5
  <2>7. QED
    BY <2>1, <2>6 DEF limit
<1>2. IInv /\ RaceInv => OvercommitBounded
  BY <1>1 DEF OvercommitBounded
<1>3. QED
  BY <1>2, IInvAlways, RaceAlways, PTL

-----------------------------------------------------------------------------
\* What customer k has reserved.
ReservedBy(k) == reserved \cap RequestsOf(k)

\* Only the UPDATE of Reserve changes used_limit, for a request not yet reserved.
LEMMA ReserveOnly ==
  ASSUME IInv, [Next]_vars
  PROVE  \/ UNCHANGED <<used, reserved>>
         \/ \E r \in Requests \ reserved :
              /\ used' = [used EXCEPT ![CustomerOf[r]] = @ + Total[r]]
              /\ reserved' = reserved \cup {r}
<1>1. ASSUME NEW w \in Workers, Reserve(w)
      PROVE  \E r \in Requests \ reserved :
               /\ used' = [used EXCEPT ![CustomerOf[r]] = @ + Total[r]]
               /\ reserved' = reserved \cup {r}
  <2>1. PICK r \in Requests : job[w] = r
    BY <1>1, BusyWorker DEF Step
  <2>2. r \notin reserved
    BY <1>1, <2>1 DEF IInv, WorkerInv, Reserve, Goto, Booking
  <2>3. QED
    BY <1>1, <2>1, <2>2 DEF Reserve
<1>2. ASSUME NEW w \in Workers, Step(w), ~Reserve(w)
      PROVE  UNCHANGED <<used, reserved>>
  BY <1>2 DEF Step, Velocity, SetVelocity, CreateOrder, CreateCheckout, CreateRisk,
     ConvertOrder, PostCheckout, CreateInstallment, CreateCharge, CreateTransaction,
     Enqueue, Dispatch, NotifyCustomer, rows
<1>3. ASSUME Next, ~ \E w \in Workers : Step(w)
      PROVE  UNCHANGED <<used, reserved>>
  BY <1>3 DEF Next, Receive, Crash, VelocityExpires, Suspend, PlaceOrder, rows
<1>4. CASE UNCHANGED vars
  BY <1>4 DEF vars, rows
<1>5. QED
  BY <1>1, <1>2, <1>3, <1>4

\* Finitely many requests have reserved, and their amounts add up to what is used.
SumInv ==
  /\ IsFiniteSet(reserved)
  /\ \A k \in Customers : used[k] = SumFunctionOnSet(Total, ReservedBy(k))

\* The sum is over the amounts, whatever function holds them.
LEMMA ReservedSum ==
  ASSUME IsFiniteSet(reserved), NEW k \in Customers
  PROVE  /\ IsFiniteSet(ReservedBy(k))
         /\ SumFunction([r \in ReservedBy(k) |-> Total[r]])
              = SumFunctionOnSet(Total, ReservedBy(k))
<1> DEFINE S == ReservedBy(k)
           f == [r \in S |-> Total[r]]
<1>1. S \in SUBSET reserved /\ \A r \in S : Total[r] \in Int
  BY CheckoutAssumption DEF ReservedBy, RequestsOf
<1>2. IsFiniteSet(S)
  BY <1>1, FS_Subset
<1>3. \A r \in S : f[r] = Total[r]
  OBVIOUS
<1> HIDE DEF S
<1>4. SumFunctionOnSet(f, S) = SumFunctionOnSet(Total, S)
  BY <1>1, <1>2, <1>3, SumAgree
<1>5. QED
  BY <1>2, <1>4 DEF S, SumFunction

\* A reservation adds the same to both sides.
LEMMA SumKept == IInv /\ SumInv /\ [Next]_vars => SumInv'
<1> SUFFICES ASSUME IInv, SumInv, [Next]_vars
             PROVE  SumInv'
  OBVIOUS
<1>1. CASE UNCHANGED <<used, reserved>>
  BY <1>1 DEF SumInv, ReservedBy
<1>2. ASSUME NEW r \in Requests \ reserved,
             used' = [used EXCEPT ![CustomerOf[r]] = @ + Total[r]],
             reserved' = reserved \cup {r}
      PROVE  SumInv'
  <2>1. IsFiniteSet(reserved')
    BY <1>2, FS_AddElement DEF SumInv
  <2>2. ASSUME NEW k \in Customers
        PROVE  used'[k] = SumFunctionOnSet(Total, ReservedBy(k)')
    <3>1. /\ IsFiniteSet(ReservedBy(k)) /\ r \notin ReservedBy(k)
          /\ used[k] = SumFunctionOnSet(Total, ReservedBy(k))
          /\ used \in [Customers -> Nat]
      BY ReservedSum DEF SumInv, ReservedBy, IInv, CheckoutTypeOK
    <3>2. Total[r] \in Int /\ \A s \in ReservedBy(k) : Total[s] \in Int
      BY CheckoutAssumption DEF ReservedBy, RequestsOf
    <3>3. CASE CustomerOf[r] = k
      <4>1. ReservedBy(k)' = ReservedBy(k) \cup {r}
        BY <1>2, <3>3 DEF ReservedBy, RequestsOf
      <4>2. SumFunctionOnSet(Total, ReservedBy(k) \cup {r})
              = SumFunctionOnSet(Total, ReservedBy(k)) + Total[r]
        BY <3>1, <3>2, SumAdd
      <4>3. QED
        BY <1>2, <3>1, <3>3, <4>1, <4>2
    <3>4. CASE CustomerOf[r] # k
      <4>1. ReservedBy(k)' = ReservedBy(k)
        BY <1>2, <3>4 DEF ReservedBy, RequestsOf
      <4>2. QED
        BY <1>2, <3>1, <3>4, <4>1
    <3>5. QED
      BY <3>3, <3>4
  <2>3. QED
    BY <2>1, <2>2 DEF SumInv
<1>3. QED
  BY <1>1, <1>2, ReserveOnly

\* No reservation is lost: used_limit is the sum of the amounts reserved, for any number
\* of requests that overlap in refresh_limit (credit.py 150-158).
THEOREM NoReservationLost == Spec => []UsedIsReserved
<1>1. Init => SumInv
  <2> SUFFICES ASSUME Init
               PROVE  SumInv
    OBVIOUS
  <2>1. \A k \in Customers : ReservedBy(k) = {} /\ used[k] = 0
    BY DEF Init, ReservedBy, NoCount
  <2>2. QED
    BY <2>1, SumEmpty, FS_EmptySet DEF Init, SumInv
<1>2. SumInv => UsedIsReserved
  BY ReservedSum DEF SumInv, UsedIsReserved, ReservedBy
<1>3. QED
  BY <1>1, <1>2, IInvAlways, InitInv, NextInv, SumKept, PTL DEF Spec

\* The installments of a whole plan add up to the total.
LEMMA PlanAddsUp ==
  ASSUME NEW r \in Requests
  PROVE  SumFunctionOnSet([n \in 1..Count[r] |-> InstallmentAmount(r, n)], 1..Count[r])
           = Total[r]
<1> DEFINE N == Count[r]
           each == Total[r] \div N
           f == [n \in 1..N |-> InstallmentAmount(r, n)]
           R == (1..N) \ {N}
<1>1. N \in Nat \ {0} /\ Total[r] \in Nat /\ each \in Nat
  BY CheckoutAssumption
<1>2. IsFiniteSet(1..N) /\ Cardinality(1..N) = N /\ N \in 1..N
  <2> HIDE DEF N, each
  <2>1. IsFiniteSet(1..N) /\ Cardinality(1..N) = IF 1 > N THEN 0 ELSE N - 1 + 1
    BY <1>1, FS_Interval
  <2>2. QED
    BY <1>1, <2>1
<1>3. IsFiniteSet(R) /\ Cardinality(R) = N - 1
  BY <1>2, FS_RemoveElement
<1>4. \A n \in 1..N : f[n] \in Int
  BY AmountType
<1>5. \A n \in R : f[n] = each
  BY <1>1 DEF InstallmentAmount
<1>6. (N - 1) * each + f[N] = Total[r]
  BY <1>1, <1>2, AmountsAddUp
<1> HIDE DEF N, each, f
<1>7. SumFunctionOnSet(f, 1..N) = f[N] + SumFunctionOnSet(f, R)
  BY <1>2, <1>4, SumRemove
<1>8. SumFunctionOnSet(f, R) = (N - 1) * each
  BY <1>1, <1>3, <1>5, SumConstant
<1>9. (N - 1) * each \in Int /\ f[N] \in Int
  BY <1>1, <1>2, <1>4
<1>10. SumFunctionOnSet(f, 1..N) = Total[r]
  BY <1>6, <1>7, <1>8, <1>9
<1>11. QED
  BY <1>10 DEF N, f

\* What the merchant or the customer was told of (checkout/services.py 145-186) can be
\* collected to the cent, whatever the amount and the number of installments.
THEOREM AnnouncedAddsUp == Spec => []AnnouncedIsCollectable
<1>1. ASSUME IInv, PlanIsWhole, NEW r \in approvedRows \cup notified
      PROVE  /\ SumFunction(installments[r]) = Total[r]
             /\ charges[r] = installments[r]
             /\ transactions[r] = installments[r]
  <2>1. r \in Requests
    BY <1>1 DEF IInv, CheckoutTypeOK
  <2>2. /\ installments[r] = [n \in 1..Count[r] |-> InstallmentAmount(r, n)]
        /\ charges[r] = installments[r]
        /\ transactions[r] = installments[r]
    BY <1>1 DEF PlanIsWhole
  <2>3. SumFunction(installments[r]) = SumFunctionOnSet(installments[r], 1..Count[r])
    BY <2>2 DEF SumFunction
  <2>4. QED
    BY <2>1, <2>2, <2>3, PlanAddsUp
<1>2. IInv /\ PlanIsWhole => AnnouncedIsCollectable
  BY <1>1 DEF AnnouncedIsCollectable
<1>3. QED
  BY <1>2, IInvAlways, AnnouncedPlans, PTL
=============================================================================
