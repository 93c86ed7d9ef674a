------------------------------ MODULE Payments ------------------------------
(***************************************************************************)
(* PaymentService.process_payment (apps/payments/services.py), run by the  *)
(* web server's worker processes on the provider's Pix notifications.      *)
(*                                                                         *)
(* The code opens no database transaction and takes no row lock, so every  *)
(* ORM statement is an action of its own: two workers interleave between   *)
(* any two statements and a worker may die after any of them.  A provider  *)
(* repeats a notification whenever it likes.                               *)
(***************************************************************************)
EXTENDS Integers, Sequences, FiniteSets, Functions

CONSTANTS
  Workers,        \* worker processes of the web server
  Installments,   \* installment rows
  Charges,        \* Pix charge rows, named by their txid
  Customers,      \* customer rows
  ChargeOf,       \* the installment a charge collects
  CustomerOf,     \* the customer who owes an installment
  Amount,         \* the amount of an installment, in cents
  PlanCharges,    \* charges the plan made before the start
  Reissued,       \* charges an overdue run made before the start
  InitialUsed,    \* used_limit of a customer at the start
  HasWebhookUrl,  \* the merchant configured a webhook_url
  PaidAtForms,    \* "sent": notifications carry paid_at, "now": they do not
  NoCharge,       \* not a charge
  MaxCalls,       \* bound: notifications delivered per charge
  MaxCrashes      \* bound: workers that die in the middle of a request

ASSUME PaymentsAssumption ==
  /\ IsFiniteSet(Workers) /\ IsFiniteSet(Charges)
  /\ ChargeOf \in [Charges -> Installments]
  /\ CustomerOf \in [Installments -> Customers]
  /\ Amount \in [Installments -> Nat \ {0}]
  /\ PlanCharges \subseteq Charges
  /\ Reissued \subseteq Charges \ PlanCharges
  /\ InitialUsed \in [Customers -> Nat]
  /\ HasWebhookUrl \in BOOLEAN
  /\ PaidAtForms \in (SUBSET {"sent", "now"}) \ {{}}
  /\ NoCharge \notin Charges
  /\ MaxCalls \in Nat
  /\ MaxCrashes \in Nat

VARIABLES
  \* the database: rows shared by all processes
  inst,       \* Installment.status, "none" while the row does not exist
  charge,     \* PixCharge.status, "none" while the row does not exist
  txn,        \* statuses of the PaymentTransaction rows of a txid, newest last
  cash,       \* CASH ledger entries of a charge, by the process that wrote them
  receivable, \* RECEIVABLE credit entries, likewise
  used,       \* Customer.used_limit
  events,     \* "installment.paid" WebhookDelivery rows, likewise by process
  queued,     \* "installment.paid" deliver_webhook tasks handed to the broker
  \* the worker processes: where they are and what they have read
  pc, job, row, seen,
  \* bounds
  calls, crashes

tables == <<inst, charge, txn, cash, receivable, used, events, queued>>
locals == <<pc, job, row, seen>>
bounds == <<calls, crashes>>
vars == <<tables, locals, bounds>>

InstallmentStatus == {"none", "pending", "paid", "overdue"}
PixChargeStatus == {"none", "active", "paid", "expired"}
TransactionStatus == {"pending", "paid"}

\* The statements of process_payment, in the order the code runs them.
Steps == {"mark_charge", "mark_installment", "find_txn", "create_txn",
          "mark_txn", "post_cash", "post_receivable", "read_customer",
          "release", "enqueue", "dispatch"}

Counters == [Charges -> [Workers -> Nat]]

\* A process holds a charge exactly while it is in a request, and the
\* transaction row it is about to mark exists.
Holding(w) ==
  /\ pc[w] = "idle" <=> job[w] = NoCharge
  /\ pc[w] = "mark_txn" => row[w] \in 1..Len(txn[job[w]])

TypeOK ==
  /\ inst \in [Installments -> InstallmentStatus]
  /\ charge \in [Charges -> PixChargeStatus]
  /\ txn \in [Charges -> Seq(TransactionStatus)]
  /\ cash \in Counters
  /\ receivable \in Counters
  /\ used \in [Customers -> Int]
  /\ events \in Counters
  /\ queued \in Counters
  /\ pc \in [Workers -> Steps \cup {"idle"}]
  /\ job \in [Workers -> Charges \cup {NoCharge}]
  /\ row \in [Workers -> Nat]
  /\ seen \in [Workers -> Int]
  /\ calls \in [Charges -> Nat]
  /\ crashes \in Nat
  /\ \A w \in Workers : Holding(w)

Zero == [c \in Charges |-> [w \in Workers |-> 0]]

\* The installments whose plan charge an overdue run has replaced, and the
\* other installments with a charge.
Replaced == {ChargeOf[c] : c \in Reissued}

Planned == {ChargeOf[c] : c \in PlanCharges}

\* A charge made by the plan has a transaction, a reissued one has none.
Init ==
  /\ inst = [i \in Installments |->
               IF i \in Replaced THEN "overdue"
               ELSE IF i \in Planned THEN "pending" ELSE "none"]
  /\ charge = [c \in Charges |->
                 IF c \in PlanCharges /\ ChargeOf[c] \in Replaced THEN "expired"
                 ELSE IF c \in PlanCharges \cup Reissued THEN "active" ELSE "none"]
  /\ txn = [c \in Charges |-> IF c \in PlanCharges THEN <<"pending">> ELSE <<>>]
  /\ cash = Zero
  /\ receivable = Zero
  /\ used = InitialUsed
  /\ events = Zero
  /\ queued = Zero
  /\ pc = [w \in Workers |-> "idle"]
  /\ job = [w \in Workers |-> NoCharge]
  /\ row = [w \in Workers |-> 0]
  /\ seen = [w \in Workers |-> 0]
  /\ calls = [c \in Charges |-> 0]
  /\ crashes = 0

-----------------------------------------------------------------------------
\* Worker w ends one statement and goes to the next.
Goto(w, from, to) ==
  /\ pc[w] = from
  /\ pc' = [pc EXCEPT ![w] = to]

\* Worker w answers, or dies: what it had read is gone.
Leave(w) ==
  /\ pc' = [pc EXCEPT ![w] = "idle"]
  /\ job' = [job EXCEPT ![w] = NoCharge]
  /\ row' = [row EXCEPT ![w] = 0]
  /\ seen' = [seen EXCEPT ![w] = 0]

\* One more row, written by w on behalf of charge c.
Inserted(counter, c, w) == [counter EXCEPT ![c][w] = @ + 1]

\* Mutation: the already_paid answer is forgotten.
NotifyWithoutPaidCheck(w, c) ==
  /\ pc[w] = "idle"
  /\ calls[c] < MaxCalls
  /\ charge[c] # "none"
  /\ calls' = [calls EXCEPT ![c] = @ + 1]
  /\ pc' = [pc EXCEPT ![w] = "mark_charge"]
  /\ job' = [job EXCEPT ![w] = c]
  /\ UNCHANGED <<row, seen, tables, crashes>>

\* A notification for txid c reaches worker w.  get_by_txid reads the charge
\* and its installment; an unknown txid and a PAID charge end the request.
Notify(w, c) ==
  /\ pc[w] = "idle"
  /\ calls[c] < MaxCalls
  /\ calls' = [calls EXCEPT ![c] = @ + 1]
  /\ IF charge[c] \in {"none", "paid"}
     THEN UNCHANGED locals
     ELSE /\ pc' = [pc EXCEPT ![w] = "mark_charge"]
          /\ job' = [job EXCEPT ![w] = c]
          /\ UNCHANGED <<row, seen>>
  /\ UNCHANGED <<tables, crashes>>

\* Mutation: the charge is marked and its installment is not.
MarkChargeOnly(w) ==
  /\ Goto(w, "mark_charge", "find_txn")
  /\ charge' = [charge EXCEPT ![job[w]] = "paid"]
  /\ UNCHANGED <<inst, txn, cash, receivable, used, events, queued,
                 job, row, seen, bounds>>

MarkCharge(w) ==
  /\ Goto(w, "mark_charge", "mark_installment")
  /\ charge' = [charge EXCEPT ![job[w]] = "paid"]
  /\ UNCHANGED <<inst, txn, cash, receivable, used, events, queued,
                 job, row, seen, bounds>>

MarkInstallment(w) ==
  /\ Goto(w, "mark_installment", "find_txn")
  /\ inst' = [inst EXCEPT ![ChargeOf[job[w]]] = "paid"]
  /\ UNCHANGED <<charge, txn, cash, receivable, used, events, queued,
                 job, row, seen, bounds>>

\* Mutation: the lookup is taken to succeed always.
FindTransactionUnchecked(w) ==
  /\ Goto(w, "find_txn", "mark_txn")
  /\ row' = [row EXCEPT ![w] = Len(txn[job[w]])]
  /\ UNCHANGED <<tables, job, seen, bounds>>

\* _get_transaction_for_txid: the newest transaction whose payload has the txid.
FindTransaction(w) ==
  /\ pc[w] = "find_txn"
  /\ IF txn[job[w]] = <<>>
     THEN Goto(w, "find_txn", "create_txn") /\ UNCHANGED row
     ELSE /\ Goto(w, "find_txn", "mark_txn")
          /\ row' = [row EXCEPT ![w] = Len(txn[job[w]])]
  /\ UNCHANGED <<tables, job, seen, bounds>>

CreateTransaction(w) ==
  /\ Goto(w, "create_txn", "mark_txn")
  /\ txn' = [txn EXCEPT ![job[w]] = Append(@, "pending")]
  /\ row' = [row EXCEPT ![w] = Len(txn[job[w]]) + 1]
  /\ UNCHANGED <<inst, charge, cash, receivable, used, events, queued,
                 job, seen, bounds>>

\* Mutation: the merchant is told before the ledger is posted.
MarkTransactionTellFirst(w) ==
  /\ Goto(w, "mark_txn", "enqueue")
  /\ txn' = [txn EXCEPT ![job[w]][row[w]] = "paid"]
  /\ UNCHANGED <<inst, charge, cash, receivable, used, events, queued,
                 job, row, seen, bounds>>

MarkTransaction(w) ==
  /\ Goto(w, "mark_txn", "post_cash")
  /\ txn' = [txn EXCEPT ![job[w]][row[w]] = "paid"]
  /\ UNCHANGED <<inst, charge, cash, receivable, used, events, queued,
                 job, row, seen, bounds>>

\* Mutation: the credit of the receivable is skipped.
PostCashOnly(w) ==
  /\ Goto(w, "post_cash", "read_customer")
  /\ cash' = Inserted(cash, job[w], w)
  /\ UNCHANGED <<inst, charge, txn, receivable, used, events, queued,
                 job, row, seen, bounds>>

\* LedgerService.post_installment_payment: two inserts.
PostCash(w) ==
  /\ Goto(w, "post_cash", "post_receivable")
  /\ cash' = Inserted(cash, job[w], w)
  /\ UNCHANGED <<inst, charge, txn, receivable, used, events, queued,
                 job, row, seen, bounds>>

PostReceivable(w) ==
  /\ Goto(w, "post_receivable", "read_customer")
  /\ receivable' = Inserted(receivable, job[w], w)
  /\ UNCHANGED <<inst, charge, txn, cash, used, events, queued,
                 job, row, seen, bounds>>

\* installment.checkout.customer is loaded only now, and only once.
ReadCustomer(w) ==
  /\ Goto(w, "read_customer", "release")
  /\ seen' = [seen EXCEPT ![w] = used[CustomerOf[ChargeOf[job[w]]]]]
  /\ UNCHANGED <<tables, job, row, bounds>>

\* Mutation: one payment frees the whole limit.
ReleasedAll(u, a) == 0

\* used_limit = max(0, used_limit - amount), computed on the value read above
\* and saved over whatever the column holds now.
Released(u, a) == IF u > a THEN u - a ELSE 0

ReleaseLimit(w) ==
  LET i == ChargeOf[job[w]]
  IN  /\ Goto(w, "release", "enqueue")
      /\ used' = [used EXCEPT ![CustomerOf[i]] = Released(seen[w], Amount[i])]
      /\ UNCHANGED <<inst, charge, txn, cash, receivable, events, queued,
                     job, row, seen, bounds>>

\* Whether the payload can be stored depends on the notification: with the
\* paid_at it carried it can; a paid_at that process_payment took from
\* timezone.now() is a datetime, which a JSON column cannot hold.
Storable(form) == HasWebhookUrl /\ form = "sent"

\* Mutation: the row is stored and the task is never handed over.
EnqueueRowOnly(w) ==
  /\ pc[w] = "enqueue"
  /\ Leave(w)
  /\ \E form \in PaidAtForms :
       events' = IF Storable(form) THEN Inserted(events, job[w], w) ELSE events
  /\ UNCHANGED <<inst, charge, txn, cash, receivable, used, queued, bounds>>

\* WebhookService.enqueue returns at once without a webhook_url; with one it
\* inserts the delivery, or the insert raises and the request ends in an error.
\* No statement before this one depends on the form of the notification.
Enqueue(w) ==
  /\ pc[w] = "enqueue"
  /\ \E form \in PaidAtForms :
       IF Storable(form)
       THEN /\ Goto(w, "enqueue", "dispatch")
            /\ events' = Inserted(events, job[w], w)
            /\ UNCHANGED <<job, row, seen>>
       ELSE Leave(w) /\ UNCHANGED events
  /\ UNCHANGED <<inst, charge, txn, cash, receivable, used, queued, bounds>>

\* deliver_webhook.delay hands the task to the broker.
Dispatch(w) ==
  /\ pc[w] = "dispatch"
  /\ Leave(w)
  /\ queued' = Inserted(queued, job[w], w)
  /\ UNCHANGED <<inst, charge, txn, cash, receivable, used, events, bounds>>

\* The worker dies, or a statement (or the broker) raises: the rest of the
\* request is lost and what it wrote stays.
Crash(w) ==
  /\ pc[w] # "idle"
  /\ crashes < MaxCrashes
  /\ crashes' = crashes + 1
  /\ Leave(w)
  /\ UNCHANGED <<tables, calls>>

Step(w) ==
  \/ MarkCharge(w)
  \/ MarkInstallment(w)
  \/ FindTransaction(w)
  \/ CreateTransaction(w)
  \/ MarkTransaction(w)
  \/ PostCash(w)
  \/ PostReceivable(w)
  \/ ReadCustomer(w)
  \/ ReleaseLimit(w)
  \/ Enqueue(w)
  \/ Dispatch(w)

Next ==
  \E w \in Workers :
    \/ \E c \in Charges : Notify(w, c)
    \/ Step(w)
    \/ Crash(w)

Spec == Init /\ [][Next]_vars
-----------------------------------------------------------------------------
\* How often process w, and all processes, wrote an entry for charge c.
Written(counter, c) == SumFunction(counter[c])

InFlight(c) == {w \in Workers : job[w] = c}

TransactionPaid(c) == \E k \in 1..Len(txn[c]) : txn[c][k] = "paid"

\* An amount enters the ledger, and the merchant hears of it, only on top of
\* rows that already say PAID: charge, installment and transaction are durable
\* before the first ledger entry (services.py 110-138), so that a notification
\* repeated after any crash finds the charge PAID.
PostedIsMarked ==
  \A c \in Charges, w \in Workers :
    cash[c][w] > 0 =>
      /\ charge[c] = "paid"
      /\ inst[ChargeOf[c]] = "paid"
      /\ TransactionPaid(c)

\* What the check on a stale charge (services.py 106) does guarantee: a process
\* posts a charge at most once, however often the provider notifies and
\* whatever crashes.  Duplicates come from overlapping processes only.
OncePerProcess ==
  \A c \in Charges, w \in Workers : cash[c][w] <= 1

\* A merchant never has more "installment.paid" events than reductions of the
\* receivable, nor those more than cash: services.py 138 before 143, and in
\* the ledger CASH before RECEIVABLE.
NoEventAheadOfLedger ==
  \A c \in Charges, w \in Workers :
    queued[c][w] <= events[c][w] /\ events[c][w] <= receivable[c][w]
                                /\ receivable[c][w] <= cash[c][w]

\* What process w has already made durable, statement by statement: with the
\* three properties above, the inductive invariant of Spec.
Progress(w) ==
  LET c == job[w]
  IN  /\ pc[w] \notin {"idle", "mark_charge"} => charge[c] = "paid"
      /\ pc[w] \notin {"idle", "mark_charge", "mark_installment"} =>
           inst[ChargeOf[c]] = "paid"
      /\ pc[w] = "post_cash" => TransactionPaid(c)
      /\ pc[w] \in {"mark_charge", "mark_installment", "find_txn",
                    "create_txn", "mark_txn", "post_cash"} => cash[c][w] = 0
      /\ pc[w] = "post_receivable" => receivable[c][w] < cash[c][w]
      /\ pc[w] \in {"read_customer", "release", "enqueue"} =>
           events[c][w] < receivable[c][w]
      /\ pc[w] = "dispatch" => queued[c][w] < events[c][w]

PaymentInv ==
  /\ TypeOK
  /\ PostedIsMarked
  /\ OncePerProcess
  /\ NoEventAheadOfLedger
  /\ \A w \in Workers : Progress(w)

\* What the tables say of the abstract protocol: the settled charges, and how
\* often each process wrote each record of a charge.
PaidCharges == {c \in Charges : charge[c] = "paid"}

Table(a, b, e, q) ==
  [c \in Charges |-> [w \in Workers |-> [n \in 1..4 |->
     CASE n = 1 -> a[c][w]
       [] n = 2 -> b[c][w]
       [] n = 3 -> e[c][w]
       [] OTHER -> q[c][w]]]]

Records == Table(cash, receivable, events, queued)

\* A claim of the protocol is a request past the status check.
Protocol == INSTANCE Booking WITH
  Processes <- Workers,
  Nothing <- NoCharge,
  claim <- job,
  settled <- PaidCharges,
  book <- Records

\* process_payment (services.py 100-157), interleaved and cut short anywhere,
\* is an implementation of the booking protocol.
ImplementsBooking == Protocol!Spec

\* Double entry: CASH and RECEIVABLE differ by one entry for a process between
\* the two inserts, and beyond that only where a process died.
ImbalanceExplained ==
  LET gap == [c \in Charges |-> Written(cash, c) - Written(receivable, c)]
      between == {w \in Workers : pc[w] = "post_receivable"}
  IN  SumFunction(gap) <= Cardinality(between) + crashes

Settled(c) == charge[c] = "paid" /\ InFlight(c) = {}

\* The idempotence the code has: once a charge is PAID and no process is inside
\* a request for it, no number of repeated notifications opens it again or
\* touches its rows.
SettledIsFrozen ==
  [][\A c \in Charges :
       Settled(c) =>
         /\ Settled(c)'
         /\ UNCHANGED <<cash[c], receivable[c], events[c], queued[c], txn[c]>>]_vars

\* docs/SECURITY.md 44: provider notifications are idempotent by txid, so an
\* amount enters the ledger once however often it is notified.
PostedAtMostOnce == \A c \in Charges : Written(cash, c) <= 1
=============================================================================
