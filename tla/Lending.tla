------------------------------- MODULE Lending -------------------------------
(***************************************************************************)
(* The life of a credit limit: Checkout reserves it and writes the plan,   *)
(* Payments books the Pix payments of that plan and gives the limit back,  *)
(* and the back office edits the customer in the Django admin, whose form  *)
(* has used_limit and is_blocked among its editable fields                 *)
(* (apps/customers/admin.py) and saves them as they were displayed.        *)
(*                                                                         *)
(* The three write one column.  Reserve adds to it, ReleaseLimit and the   *)
(* form store a value computed from an earlier read.  A form that is saved *)
(* after a suspension lifts it.  What else the form saves (approved_limit, *)
(* the KYC status, the score) nothing changes here.  The end of a velocity *)
(* window, which only module Checkout's own properties tell apart, does    *)
(* not happen either.                                                      *)
(***************************************************************************)
EXTENDS Payments

CONSTANTS
  Clerks,         \* worker processes that serve checkouts
  Requests, Orders, Buyer, OrderOf, Given, Total, Mdr, Count, Clear,
  SerasaScore, ApprovedLimit, NoRequest,
  PlanOf,         \* the checkout an installment belongs to
  NumberOf,       \* its number in the plan
  UrlAtCheckout,  \* the merchant had a webhook_url when the checkouts were made
  NoForm,         \* the form of a customer is not open
  MaxEdits        \* bound: edits of a customer in the back office

VARIABLES
  \* module Checkout's, by their names there or with "store" before them
  velocity, order, checkout, risk, blocked, ledger, installments, charges,
  transactions, approvedRows, storeQueued, notified,
  storePc, storeJob, sawUsed, decision,
  served, reserved, admitted, started,
  \* the back office: used_limit and is_blocked as displayed in the open form
  form, edits,
  \* history: reserved while somebody held an older value of used_limit
  overlapped

Store == INSTANCE Checkout WITH
  Workers <- Clerks, CustomerOf <- Buyer, HasWebhookUrl <- UrlAtCheckout,
  queued <- storeQueued, pc <- storePc, job <- storeJob

ASSUME LendingAssumption ==
  /\ PlanCharges = {} /\ Reissued = {}
  \* a plan has one charge per installment, and nothing reissues it here
  /\ \A c, d \in Charges : ChargeOf[c] = ChargeOf[d] => c = d
  /\ \A k \in Customers : InitialUsed[k] = 0
  /\ Buyer \in [Requests -> Customers]
  /\ Total \in [Requests -> Nat \ {0}]
  /\ PlanOf \in [Installments -> Requests]
  /\ NumberOf \in [Installments -> Nat \ {0}]
  /\ \A i \in Installments :
       /\ NumberOf[i] <= Count[PlanOf[i]]
       /\ Amount[i] = Store!InstallmentAmount(PlanOf[i], NumberOf[i])
       /\ CustomerOf[i] = Buyer[PlanOf[i]]
  /\ UrlAtCheckout \in BOOLEAN
  /\ MaxEdits \in Nat

\* What only Checkout changes.
storeOnly == <<velocity, order, checkout, risk, ledger, installments, charges,
               transactions, approvedRows, storeQueued, notified,
               storePc, storeJob, sawUsed, decision,
               served, reserved, admitted, started>>
office == <<form, edits>>
lendingVars == <<vars, storeOnly, blocked, office, overlapped>>

LendingInit ==
  /\ Init
  /\ Store!Init
  /\ form = [k \in Customers |-> NoForm]
  /\ edits = 0
  /\ overlapped = [k \in Customers |-> 0]

-----------------------------------------------------------------------------
\* Somebody is about to store a value of used_limit read before.
Holder(k) ==
  \/ form[k] # NoForm
  \/ \E w \in Workers : pc[w] = "release" /\ CustomerOf[ChargeOf[job[w]]] = k

\* The rows of a plan as Payments finds them, made as the plan's rows are.
Made(rows, i) == Len(rows[PlanOf[i]]) >= NumberOf[i]

\* A step of create_session, with the rows it adds for Payments.  A death of a
\* clerk, which module Checkout has, can here only leave limit reserved for good.
CheckoutStep ==
  /\ \E w \in Clerks :
       \/ \E r \in Requests : Store!Receive(w, r)
       \/ Store!Step(w)
  /\ inst' = [i \in Installments |->
                IF inst[i] = "none" /\ Made(installments', i)
                THEN "pending" ELSE inst[i]]
  /\ charge' = [c \in Charges |->
                  IF charge[c] = "none" /\ Made(charges', ChargeOf[c])
                  THEN "active" ELSE charge[c]]
  /\ txn' = [c \in Charges |->
               IF ~Made(transactions, ChargeOf[c]) /\ Made(transactions', ChargeOf[c])
               THEN Append(txn[c], "pending") ELSE txn[c]]
  /\ overlapped' = [k \in Customers |->
                      overlapped[k] + IF Holder(k) THEN used'[k] - used[k] ELSE 0]
  /\ UNCHANGED <<cash, receivable, events, queued, locals, calls, office>>

\* A notification or a statement of process_payment.
PaymentStep ==
  /\ Next
  /\ UNCHANGED <<storeOnly, blocked, office, overlapped>>

\* The overdue run suspends a customer.  Bound: while the form is open; at any other
\* time nothing can lift the suspension, and module Checkout has it.
SuspendStep ==
  /\ \E k \in Customers : form[k] # NoForm /\ Store!Suspend(k)
  /\ UNCHANGED <<vars, storeOnly, office, overlapped>>

\* The back office opens a customer...
OpenForm(k) ==
  /\ form[k] = NoForm
  /\ edits < MaxEdits
  /\ form' = [form EXCEPT ![k] = [used |-> used[k], blocked |-> blocked[k]]]
  /\ edits' = edits + 1
  /\ UNCHANGED <<vars, storeOnly, blocked, overlapped>>

\* ... and saves the form, if ever.
SaveForm(k) ==
  /\ form[k] # NoForm
  /\ used' = [used EXCEPT ![k] = form[k].used]
  /\ blocked' = [blocked EXCEPT ![k] = form[k].blocked]
  /\ form' = [form EXCEPT ![k] = NoForm]
  /\ UNCHANGED <<inst, charge, txn, cash, receivable, events, queued, locals,
                 bounds, storeOnly, edits, overlapped>>

LendingNext ==
  \/ CheckoutStep
  \/ PaymentStep
  \/ SuspendStep
  \/ \E k \in Customers : OpenForm(k) \/ SaveForm(k)

\* Live workers run their requests to the end; the back office need not.
LendingSpec ==
  /\ LendingInit
  /\ [][LendingNext]_lendingVars
  /\ \A w \in Workers :
       WF_lendingVars(Step(w) /\ UNCHANGED <<storeOnly, blocked, office, overlapped>>)
-----------------------------------------------------------------------------
SumOver(S, value(_)) == SumFunction([x \in S |-> value(x)])

ChargesOf(k) == {c \in Charges : CustomerOf[ChargeOf[c]] = k}

\* What customer k owes: the totals that were reserved, less each installment that was
\* paid, once ("a cada parcela paga", docs/BUSINESS_RULES.md 34).
Owed(k) ==
  SumOver({r \in reserved : Buyer[r] = k}, LAMBDA r : Total[r])
    - SumOver(ChargesOf(k),
              LAMBDA c : IF Written(cash, c) > 0 THEN Amount[ChargeOf[c]] ELSE 0)

\* What was booked for payments that had been booked before, and frees limit again.
DoubleBooked(k) ==
  SumOver(ChargesOf(k),
          LAMBDA c : IF Written(cash, c) > 1
                     THEN Amount[ChargeOf[c]] * (Written(cash, c) - 1) ELSE 0)

\* used_limit covers what the customer owes, with two exceptions: what was reserved
\* while a payment (payments/services.py 139-141) or the form (customers/admin.py)
\* held an older value, and what notifications that overlap booked more than once,
\* each of which frees the amount once more (payments/services.py 106, 138-141).  No
\* other order of checkouts, payments, edits and deaths leaves debt uncovered.
LimitCoversDebt ==
  \A k \in Customers : used[k] + overlapped[k] + DoubleBooked(k) >= Owed(k)

\* A charge that is marked PAID gets booked on both accounts, also when its
\* requests overlap, unless a worker died.
PaidIsBooked ==
  \A c \in Charges :
    charge[c] = "paid" ~>
      \/ Written(cash, c) > 0 /\ Written(receivable, c) > 0 /\ InFlight(c) = {}
      \/ crashes > 0

\* docs/API.md 133: the merchant is sent installment.paid.  The event of a PAID
\* charge is handed to the broker if there is a webhook_url, unless a worker died, and
\* provided that notifications carry paid_at: without it the event's insert raises
\* (services.py 153), and the event of a charge that is PAID is lost.
PaidEventIsSent ==
  PaidAtForms = {"sent"} =>
    \A c \in Charges :
      charge[c] = "paid" ~>
        (HasWebhookUrl => Written(queued, c) > 0) \/ crashes > 0
=============================================================================
