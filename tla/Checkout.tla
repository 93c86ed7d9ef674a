------------------------------ MODULE Checkout ------------------------------
(***************************************************************************)
(* CheckoutService (apps/checkout/services.py): create_order, and          *)
(* create_session with the CreditEngine (credit.py) and the                *)
(* LedgerService.post_checkout and PaymentService.create_installment_plan  *)
(* it calls.                                                               *)
(*                                                                         *)
(* The customer row is read once, early; the decision is taken on that     *)
(* copy; the rows that follow are inserted one autocommitted statement     *)
(* after the other, and a worker may die between any two.                  *)
(*                                                                         *)
(* Requests refused before the decision (bad API key, foreign order,       *)
(* unknown customer) change nothing and are left out.                      *)
(***************************************************************************)
EXTENDS Integers, Sequences, FiniteSets, Functions

CONSTANTS
  Workers,        \* worker processes of the web server
  Requests,       \* POST /checkout/ requests, each sent once
  Customers,      \* customer rows
  Orders,         \* order rows
  CustomerOf,     \* the customer a request names
  OrderOf,        \* the order a request names, or the one it will create
  Given,          \* orders the merchant makes with POST /orders/
  Total,          \* amount of a request, in cents
  Mdr,            \* the merchant's discount on it, whatever the rate rounds to
  Count,          \* installment_count of a request
  Clear,          \* KYC approved, with cpf and phone
  SerasaScore,    \* Customer.serasa_score, 0 while there is none
  ApprovedLimit,  \* Customer.approved_limit
  HasWebhookUrl,  \* the merchant configured a webhook_url
  NoRequest,      \* not a request
  MaxCrashes      \* bound: workers that die in the middle of a request

MAX_APPLICATIONS == 2   \* _MAX_APPLICATIONS_PER_DAY

ASSUME CheckoutAssumption ==
  /\ IsFiniteSet(Workers)
  /\ CustomerOf \in [Requests -> Customers]
  /\ OrderOf \in [Requests -> Orders]
  /\ Given \subseteq Orders
  /\ Total \in [Requests -> Nat \ {0}]
  /\ Mdr \in [Requests -> Nat]
  /\ \A r \in Requests : Mdr[r] <= Total[r]
  /\ Count \in [Requests -> Nat \ {0}]
  /\ \A r \in Requests : Count[r] <= Total[r]
  /\ Clear \in [Customers -> BOOLEAN]
  /\ SerasaScore \in [Customers -> Nat]
  /\ ApprovedLimit \in [Customers -> Nat]
  /\ HasWebhookUrl \in BOOLEAN
  /\ NoRequest \notin Requests
  /\ MaxCrashes \in Nat
  /\ \A r, s \in Requests : r # s /\ OrderOf[r] = OrderOf[s] => OrderOf[r] \in Given

VARIABLES
  \* the cache
  velocity,     \* credit:velocity:<cpf>, 0 while the key does not exist
  \* the database
  order,        \* Order.status, "none" while the row does not exist
  checkout,     \* CheckoutSession.status of a request, likewise
  risk,         \* requests with a RiskAnalysis row
  used,         \* Customer.used_limit
  blocked,      \* Customer.is_blocked
  ledger,       \* amounts post_checkout entered for a request, in its order
  installments, \* amounts of the installment rows of a request
  charges,      \* amounts of its Pix charges
  transactions, \* amounts of its payment transactions
  approvedRows, \* requests with a "checkout.approved" WebhookDelivery
  queued,       \* of these, the ones whose task the broker has
  notified,     \* requests whose customer was sent the approval
  \* the worker processes
  pc, job, sawUsed, decision,
  \* history: which requests were received and which reserved their amount;
  \* per customer, applications let through and counters started in a window
  served, reserved, admitted, started,
  \* bound
  crashes

plan == <<installments, charges, transactions>>
told == <<approvedRows, queued, notified>>
rows == <<order, checkout, risk, used, blocked, ledger, plan, told>>
locals == <<pc, job, sawUsed, decision>>
window == <<velocity, admitted, started>>
vars == <<rows, locals, window, served, reserved, crashes>>

Steps == {"velocity", "set_velocity", "create_order", "create_checkout",
          "create_risk", "convert_order", "reserve", "post", "installment",
          "charge", "transaction", "enqueue", "dispatch", "notify"}

CheckoutTypeOK ==
  /\ velocity \in [Customers -> Nat]
  /\ order \in [Orders -> {"none", "created", "converted"}]
  /\ checkout \in [Requests -> {"none", "approved", "denied"}]
  /\ risk \subseteq Requests
  /\ used \in [Customers -> Nat]
  /\ blocked \in [Customers -> BOOLEAN]
  /\ ledger \in [Requests -> Seq(Int)]
  /\ \A r \in Requests : Len(ledger[r]) <= 3
  /\ installments \in [Requests -> Seq(Nat)]
  /\ charges \in [Requests -> Seq(Nat)]
  /\ transactions \in [Requests -> Seq(Nat)]
  /\ approvedRows \subseteq Requests
  /\ queued \subseteq approvedRows
  /\ notified \subseteq Requests
  /\ pc \in [Workers -> Steps \cup {"idle"}]
  /\ job \in [Workers -> Requests \cup {NoRequest}]
  /\ sawUsed \in [Workers -> Nat]
  /\ decision \in [Workers -> {"none", "approve", "deny"}]
  /\ served \subseteq Requests
  /\ reserved \subseteq Requests
  /\ admitted \in [Customers -> Nat]
  /\ started \in [Customers -> Nat]
  /\ crashes \in Nat
  /\ \A w \in Workers :
       /\ pc[w] = "idle" <=> job[w] = NoRequest
       /\ pc[w] \in Steps \ {"velocity", "set_velocity"} => decision[w] # "none"

NoRows == [r \in Requests |-> <<>>]

NoCount == [k \in Customers |-> 0]

Init ==
  /\ velocity = NoCount
  /\ order = [o \in Orders |-> "none"]
  /\ checkout = [r \in Requests |-> "none"]
  /\ risk = {}
  /\ used = NoCount
  /\ blocked = [k \in Customers |-> FALSE]
  /\ ledger = NoRows
  /\ installments = NoRows
  /\ charges = NoRows
  /\ transactions = NoRows
  /\ approvedRows = {}
  /\ queued = {}
  /\ notified = {}
  /\ pc = [w \in Workers |-> "idle"]
  /\ job = [w \in Workers |-> NoRequest]
  /\ sawUsed = [w \in Workers |-> 0]
  /\ decision = [w \in Workers |-> "none"]
  /\ served = {}
  /\ reserved = {}
  /\ admitted = NoCount
  /\ started = NoCount
  /\ crashes = 0

-----------------------------------------------------------------------------
Goto(w, from, to) ==
  /\ pc[w] = from
  /\ pc' = [pc EXCEPT ![w] = to]

\* Worker w answers, or dies.
Leave(w) ==
  /\ pc' = [pc EXCEPT ![w] = "idle"]
  /\ job' = [job EXCEPT ![w] = NoRequest]
  /\ sawUsed' = [sawUsed EXCEPT ![w] = 0]
  /\ decision' = [decision EXCEPT ![w] = "none"]

Larger(a, b) == IF a > b THEN a ELSE b

\* StubBureauClient.check; it never reports a negative record.
BureauScore(k) == IF SerasaScore[k] # 0 THEN SerasaScore[k] ELSE 750

\* The first row of _LIMITS_BY_SCORE that the score reaches.
ScoreLimit(k) ==
  CASE BureauScore(k) >= 700 -> 50000
    [] BureauScore(k) \in 600..699 -> 30000
    [] BureauScore(k) \in 500..599 -> 15000
    [] OTHER -> 0

\* Mutation: the check of the available limit is dropped.
ApprovesAnyUse(r, seen, applications) ==
  LET k == CustomerOf[r]
  IN  /\ applications <= MAX_APPLICATIONS
      /\ ScoreLimit(k) > 0
      /\ Total[r] <= ScoreLimit(k)
      /\ seen >= 0

\* CreditEngine.decide after the velocity counter, on the copy of the customer.
Approves(r, seen, applications) ==
  LET k == CustomerOf[r]
      available == Larger(0, ApprovedLimit[k] - seen)
  IN  /\ applications <= MAX_APPLICATIONS
      /\ ScoreLimit(k) > 0
      /\ Total[r] <= ScoreLimit(k)
      /\ Total[r] <= available

\* An order that exists is taken as it is, whatever its status.
FirstInsert(r) == IF OrderOf[r] \in Given THEN "create_checkout" ELSE "create_order"

\* create_order: one insert; the merchant then names the order in a checkout.
PlaceOrder(o) ==
  /\ o \in Given
  /\ order[o] = "none"
  /\ order' = [order EXCEPT ![o] = "created"]
  /\ UNCHANGED <<checkout, risk, used, blocked, ledger, plan, told, locals, window,
                 served, reserved, crashes>>

\* Mutation: is_blocked is not looked at.
ReceiveBlocked(w, r) ==
  /\ pc[w] = "idle"
  /\ r \notin served
  /\ OrderOf[r] \in Given => order[OrderOf[r]] # "none"
  /\ served' = served \cup {r}
  /\ job' = [job EXCEPT ![w] = r]
  /\ sawUsed' = [sawUsed EXCEPT ![w] = used[CustomerOf[r]]]
  /\ pc' = [pc EXCEPT ![w] = "velocity"]
  /\ UNCHANGED <<rows, decision, window, reserved, crashes>>

\* CreditEngine.decide before the velocity counter.
Eligible(k) == Clear[k] /\ ~blocked[k]

\* A request arrives and the customer row is read.  A customer who is blocked or
\* not clear is denied before the velocity counter.
Receive(w, r) ==
  LET k == CustomerOf[r]
  IN  /\ pc[w] = "idle"
      /\ r \notin served
      /\ OrderOf[r] \in Given => order[OrderOf[r]] # "none"
      /\ served' = served \cup {r}
      /\ job' = [job EXCEPT ![w] = r]
      /\ sawUsed' = [sawUsed EXCEPT ![w] = used[k]]
      /\ pc' = [pc EXCEPT ![w] = IF Eligible(k) THEN "velocity" ELSE FirstInsert(r)]
      /\ decision' = [decision EXCEPT ![w] = IF Eligible(k) THEN @ ELSE "deny"]
      /\ UNCHANGED <<rows, window, reserved, crashes>>

Decide(w, applications) ==
  LET r == job[w]
  IN  /\ decision' = [decision EXCEPT ![w] =
                        IF Approves(r, sawUsed[w], applications)
                        THEN "approve" ELSE "deny"]
      /\ pc' = [pc EXCEPT ![w] = FirstInsert(r)]
      /\ admitted' = [admitted EXCEPT ![CustomerOf[r]] =
                        IF applications <= MAX_APPLICATIONS THEN @ + 1 ELSE @]

\* cache.incr: an existing counter goes up by one, a missing one is a ValueError.
Velocity(w) ==
  LET k == CustomerOf[job[w]]
  IN  /\ pc[w] = "velocity"
      /\ IF velocity[k] = 0
         THEN /\ Goto(w, "velocity", "set_velocity")
              /\ UNCHANGED <<velocity, admitted, decision>>
         ELSE /\ velocity' = [velocity EXCEPT ![k] = @ + 1]
              /\ Decide(w, velocity[k] + 1)
      /\ UNCHANGED <<rows, job, sawUsed, started, served, reserved, crashes>>

\* Mutation: the first application is let through and not stored.
SetVelocityForgotten(w) ==
  /\ pc[w] = "set_velocity"
  /\ Decide(w, 1)
  /\ UNCHANGED <<rows, velocity, started, job, sawUsed, served, reserved, crashes>>

\* The ValueError is handled: the counter is set to one, over whatever another
\* worker has stored since.
SetVelocity(w) ==
  LET k == CustomerOf[job[w]]
  IN  /\ pc[w] = "set_velocity"
      /\ velocity' = [velocity EXCEPT ![k] = 1]
      /\ started' = [started EXCEPT ![k] = @ + 1]
      /\ Decide(w, 1)
      /\ UNCHANGED <<rows, job, sawUsed, served, reserved, crashes>>

\* 24 hours after it was set, the counter is gone.
VelocityExpires(k) ==
  /\ velocity[k] > 0
  /\ velocity' = [velocity EXCEPT ![k] = 0]
  /\ admitted' = [admitted EXCEPT ![k] = 0]
  /\ started' = [started EXCEPT ![k] = 0]
  /\ UNCHANGED <<rows, locals, served, reserved, crashes>>

\* The overdue run (module Collections) blocks the customer meanwhile.
Suspend(k) ==
  /\ ~blocked[k]
  /\ blocked' = [blocked EXCEPT ![k] = TRUE]
  /\ UNCHANGED <<order, checkout, risk, used, ledger, plan, told, locals, window,
                 served, reserved, crashes>>

CreateOrder(w) ==
  /\ Goto(w, "create_order", "create_checkout")
  /\ order' = [order EXCEPT ![OrderOf[job[w]]] = "created"]
  /\ UNCHANGED <<checkout, risk, used, blocked, ledger, plan, told, job, sawUsed,
                 decision, window, served, reserved, crashes>>

CreateCheckout(w) ==
  /\ Goto(w, "create_checkout", "create_risk")
  /\ checkout' = [checkout EXCEPT ![job[w]] =
                    IF decision[w] = "approve" THEN "approved" ELSE "denied"]
  /\ UNCHANGED <<order, risk, used, blocked, ledger, plan, told, job, sawUsed,
                 decision, window, served, reserved, crashes>>

\* Mutation: a denied request goes on like an approved one.
CreateRiskGoOn(w) ==
  /\ Goto(w, "create_risk", "convert_order")
  /\ risk' = risk \cup {job[w]}
  /\ UNCHANGED <<order, checkout, used, blocked, ledger, plan, told, job, sawUsed,
                 decision, window, served, reserved, crashes>>

\* The decision is recorded; a denial is answered.
CreateRisk(w) ==
  /\ pc[w] = "create_risk"
  /\ risk' = risk \cup {job[w]}
  /\ IF decision[w] = "approve"
     THEN Goto(w, "create_risk", "convert_order") /\ UNCHANGED <<job, sawUsed, decision>>
     ELSE Leave(w)
  /\ UNCHANGED <<order, checkout, used, blocked, ledger, plan, told, window, served,
                 reserved, crashes>>

ConvertOrder(w) ==
  /\ Goto(w, "convert_order", "reserve")
  /\ order' = [order EXCEPT ![OrderOf[job[w]]] = "converted"]
  /\ UNCHANGED <<checkout, risk, used, blocked, ledger, plan, told, job, sawUsed,
                 decision, window, served, reserved, crashes>>

\* Mutation: the new value is computed from the copy read at the start.
ReserveFromCopy(w) ==
  /\ Goto(w, "reserve", "post")
  /\ used' = [used EXCEPT ![CustomerOf[job[w]]] = sawUsed[w] + Total[job[w]]]
  /\ reserved' = reserved \cup {job[w]}
  /\ UNCHANGED <<order, checkout, risk, blocked, ledger, plan, told, job, sawUsed,
                 decision, window, served, crashes>>

\* Mutation: the amount is given back instead of taken.
ReserveMinus(w) ==
  /\ Goto(w, "reserve", "post")
  /\ used' = [used EXCEPT ![CustomerOf[job[w]]] = @ - Total[job[w]]]
  /\ reserved' = reserved \cup {job[w]}
  /\ UNCHANGED <<order, checkout, risk, blocked, ledger, plan, told, job, sawUsed,
                 decision, window, served, crashes>>

\* refresh_limit: SET used_limit = used_limit + amount, without a condition.
Reserve(w) ==
  /\ Goto(w, "reserve", "post")
  /\ used' = [used EXCEPT ![CustomerOf[job[w]]] = @ + Total[job[w]]]
  /\ reserved' = reserved \cup {job[w]}
  /\ UNCHANGED <<order, checkout, risk, blocked, ledger, plan, told, job, sawUsed,
                 decision, window, served, crashes>>

\* RECEIVABLE, MERCHANT_PAYABLE and MDR_REVENUE of a checkout.
Entries(r) == <<Total[r], -(Total[r] - Mdr[r]), -Mdr[r]>>

\* LedgerService.post_checkout: three inserts, one at a time.
PostCheckout(w) ==
  LET r == job[w]
      n == Len(ledger[r]) + 1
  IN  /\ Goto(w, "post", IF n = 3 THEN "installment" ELSE "post")
      /\ ledger' = [ledger EXCEPT ![r] = Append(@, Entries(r)[n])]
      /\ UNCHANGED <<order, checkout, risk, used, blocked, plan, told, job, sawUsed,
                     decision, window, served, reserved, crashes>>

\* create_installment_plan: the last installment absorbs the rounding.
InstallmentAmount(r, i) ==
  LET each == Total[r] \div Count[r]
  IN  IF i < Count[r] THEN each ELSE Total[r] - (Count[r] - 1) * each

CreateInstallment(w) ==
  LET r == job[w]
      i == Len(installments[r]) + 1
  IN  /\ Goto(w, "installment", "charge")
      /\ installments' = [installments EXCEPT ![r] =
                            Append(@, InstallmentAmount(r, i))]
      /\ UNCHANGED <<order, checkout, risk, used, blocked, ledger, charges, transactions,
                     told, job, sawUsed, decision, window, served, reserved, crashes>>

\* _create_charge: the provider is asked for a Pix charge, then two inserts.
CreateCharge(w) ==
  LET r == job[w]
      i == Len(charges[r]) + 1
  IN  /\ Goto(w, "charge", "transaction")
      /\ charges' = [charges EXCEPT ![r] = Append(@, InstallmentAmount(r, i))]
      /\ UNCHANGED <<order, checkout, risk, used, blocked, ledger, installments,
                     transactions, told, job, sawUsed, decision, window, served,
                     reserved, crashes>>

\* Mutation: the loop stops one installment early.
CreateTransactionShort(w) ==
  LET r == job[w]
      i == Len(transactions[r]) + 1
  IN  /\ Goto(w, "transaction", IF i + 1 < Count[r] THEN "installment" ELSE "enqueue")
      /\ transactions' = [transactions EXCEPT ![r] =
                            Append(@, InstallmentAmount(r, i))]
      /\ UNCHANGED <<order, checkout, risk, used, blocked, ledger, installments, charges,
                     told, job, sawUsed, decision, window, served, reserved, crashes>>

CreateTransaction(w) ==
  LET r == job[w]
      i == Len(transactions[r]) + 1
  IN  /\ Goto(w, "transaction", IF i < Count[r] THEN "installment" ELSE "enqueue")
      /\ transactions' = [transactions EXCEPT ![r] =
                            Append(@, InstallmentAmount(r, i))]
      /\ UNCHANGED <<order, checkout, risk, used, blocked, ledger, installments, charges,
                     told, job, sawUsed, decision, window, served, reserved, crashes>>

\* WebhookService.enqueue for "checkout.approved".
Enqueue(w) ==
  /\ Goto(w, "enqueue", IF HasWebhookUrl THEN "dispatch" ELSE "notify")
  /\ approvedRows' = IF HasWebhookUrl THEN approvedRows \cup {job[w]} ELSE approvedRows
  /\ UNCHANGED <<order, checkout, risk, used, blocked, ledger, plan, queued, notified,
                 job, sawUsed, decision, window, served, reserved, crashes>>

\* Mutation: a denied broker call ends the request before the customer is told.
DispatchLast(w) ==
  /\ pc[w] = "dispatch"
  /\ Leave(w)
  /\ queued' = queued \cup {job[w]}
  /\ UNCHANGED <<order, checkout, risk, used, blocked, ledger, plan, approvedRows,
                 notified, window, served, reserved, crashes>>

Dispatch(w) ==
  /\ Goto(w, "dispatch", "notify")
  /\ queued' = queued \cup {job[w]}
  /\ UNCHANGED <<order, checkout, risk, used, blocked, ledger, plan, approvedRows,
                 notified, job, sawUsed, decision, window, served, reserved, crashes>>

\* The customer is told; a message that cannot be sent does not fail the request.
NotifyCustomer(w) ==
  /\ pc[w] = "notify"
  /\ Leave(w)
  /\ notified' = notified \cup {job[w]}
  /\ UNCHANGED <<order, checkout, risk, used, blocked, ledger, plan, approvedRows, queued,
                 window, served, reserved, crashes>>

\* The worker dies, or a statement, the cache, the provider or the broker
\* raises: the rows written so far stay.
Crash(w) ==
  /\ pc[w] # "idle"
  /\ crashes < MaxCrashes
  /\ crashes' = crashes + 1
  /\ Leave(w)
  /\ UNCHANGED <<rows, window, served, reserved>>

Step(w) ==
  \/ Velocity(w)
  \/ SetVelocity(w)
  \/ CreateOrder(w)
  \/ CreateCheckout(w)
  \/ CreateRisk(w)
  \/ ConvertOrder(w)
  \/ Reserve(w)
  \/ PostCheckout(w)
  \/ CreateInstallment(w)
  \/ CreateCharge(w)
  \/ CreateTransaction(w)
  \/ Enqueue(w)
  \/ Dispatch(w)
  \/ NotifyCustomer(w)

Next ==
  \/ \E w \in Workers :
       \/ \E r \in Requests : Receive(w, r)
       \/ Step(w)
       \/ Crash(w)
  \/ \E k \in Customers : VelocityExpires(k) \/ Suspend(k)
  \/ \E o \in Orders : PlaceOrder(o)

Spec == Init /\ [][Next]_vars

\* A live worker runs its request to the end.
FairSpec == Spec /\ \A w \in Workers : WF_vars(Step(w))
-----------------------------------------------------------------------------
InFlight(r) == \E w \in Workers : job[w] = r

RequestsOf(k) == {r \in Requests : CustomerOf[r] = k}

\* No reservation is lost: used_limit is the sum of what was reserved, however
\* the UPDATEs of overlapping requests fall (credit.py 150-158).
UsedIsReserved ==
  \A k \in Customers :
    used[k] = SumFunction([r \in reserved \cap RequestsOf(k) |-> Total[r]])

\* The limit is checked on a copy (credit.py 126) and reserved later (145), so
\* it can be exceeded, but only by requests in flight together: never by more
\* than one limit per worker process.
OvercommitBounded ==
  \A k \in Customers : used[k] <= Cardinality(Workers) * ApprovedLimit[k]

\* A customer is shut off: blocked, and no request in flight can still be approved.
ShutOff(k) ==
  /\ blocked[k]
  /\ \A w \in Workers :
       pc[w] # "idle" /\ CustomerOf[job[w]] = k => decision[w] = "deny"

\* Requests that read the customer before the suspension may still be approved;
\* once they have been answered, a blocked customer takes no more credit.  Only
\* the admin form, of module Lending, lifts a suspension.
SuspensionHolds ==
  [][\A k \in Customers :
       ShutOff(k) => ShutOff(k)' /\ used'[k] = used[k]]_vars

\* The customer owes nothing that was not approved and reserved: installments
\* and their charges rest on a complete ledger posting, that on a reservation,
\* that on a converted order and a recorded approval.
OwedIsReserved ==
  \A r \in Requests :
    /\ installments[r] # <<>> => Len(ledger[r]) = 3
    /\ ledger[r] # <<>> => r \in reserved
    /\ r \in reserved => /\ checkout[r] = "approved"
                         /\ r \in risk
                         /\ order[OrderOf[r]] = "converted"

\* A checkout the merchant or the customer is told of can be collected in full:
\* its installments, charges and transactions are all there and add up to the
\* total, whatever the rounding.
AnnouncedIsCollectable ==
  \A r \in approvedRows \cup notified :
    /\ SumFunction(installments[r]) = Total[r]
    /\ charges[r] = installments[r]
    /\ transactions[r] = installments[r]

\* docs/BUSINESS_RULES.md 35 allows two credit applications per CPF in 24 hours.
\* The code does not keep to it: two workers that both find no counter start one
\* each (credit.py 90-92), and what was admitted under the first is forgotten.
\* The excess is bounded by that: two applications per counter started in the
\* window, so the rule holds in a window whose counter was started once.
VelocityBound == \A k \in Customers : admitted[k] <= MAX_APPLICATIONS * started[k]

\* An approval is carried through to the merchant's event and the customer's
\* message, unless a worker died.
ApprovalCompletes ==
  \A r \in Requests :
    checkout[r] = "approved" ~>
      \/ r \in notified /\ (HasWebhookUrl => r \in queued)
      \/ crashes > 0
=============================================================================
