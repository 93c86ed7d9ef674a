----------------------------- MODULE Settlements -----------------------------
(***************************************************************************)
(* SettlementService (apps/settlements/services.py): a merchant asks, per  *)
(* checkout, for a payout; a completed payout is linked to, and posted     *)
(* for, every checkout of the merchant that has no settlement yet.         *)
(*                                                                         *)
(* One merchant; each request is served by a worker process of its own and *)
(* makes a settlement of its own, so requests name both.  As everywhere in *)
(* this backend, each statement commits by itself.                         *)
(***************************************************************************)
EXTENDS Integers, FiniteSets, Functions

CONSTANTS
  Requests,      \* POST /settlements/ requests of the merchant
  Checkouts,     \* checkouts of the merchant
  CheckoutOf,    \* the checkout a request names
  Net,           \* CheckoutSession.net_amount
  HasWebhookUrl, \* the merchant configured a webhook_url
  NoSettlement,  \* not a request
  NoCheckout,    \* not a checkout
  MaxCrashes     \* bound: workers that die in the middle of a request

ASSUME SettlementsAssumption ==
  /\ CheckoutOf \in [Requests -> Checkouts]
  /\ Net \in [Checkouts -> Nat]
  /\ HasWebhookUrl \in BOOLEAN
  /\ NoSettlement \notin Requests
  /\ NoCheckout \notin Checkouts
  /\ MaxCrashes \in Nat

VARIABLES
  \* the database
  exists,      \* checkouts that have been created
  status,      \* Settlement.status of a request, "none" while there is no row
  settlement,  \* CheckoutSession.settlement
  payable,     \* MERCHANT_PAYABLE debits of a checkout, by request
  cashOut,     \* CASH credits of a checkout, by request
  events,      \* requests with a "settlement.completed" WebhookDelivery
  queued,      \* of these, the ones whose task the broker has
  \* the provider
  sent,        \* requests whose Pix was paid out
  \* the worker processes
  pc, todo, current,
  \* history: what was unsettled when a request listed the checkouts
  listed,
  \* bound
  crashes

tables == <<exists, status, settlement, payable, cashOut, events, queued>>
locals == <<pc, todo, current>>
vars == <<tables, sent, locals, listed, crashes>>

Steps == {"process", "pay", "complete", "fail", "list", "next", "post_payable",
          "post_cash", "enqueue", "dispatch"}

Entries == [Checkouts -> [Requests -> Nat]]

SettlementsTypeOK ==
  /\ exists \subseteq Checkouts
  /\ status \in [Requests ->
                   {"none", "pending", "processing", "completed", "failed"}]
  /\ settlement \in [exists -> Requests \cup {NoSettlement}]
  /\ payable \in Entries
  /\ cashOut \in Entries
  /\ events \subseteq Requests
  /\ queued \subseteq events
  /\ sent \subseteq Requests
  /\ pc \in [Requests -> Steps \cup {"start", "end", "dead"}]
  /\ todo \in [Requests -> SUBSET exists]
  /\ current \in [Requests -> exists \cup {NoCheckout}]
  /\ listed \in [Requests -> SUBSET exists]
  /\ crashes \in 0..MaxCrashes

Zero == [c \in Checkouts |-> [s \in Requests |-> 0]]

Init ==
  /\ exists = {}
  /\ status = [s \in Requests |-> "none"]
  /\ settlement = [c \in {} |-> NoSettlement]
  /\ payable = Zero
  /\ cashOut = Zero
  /\ events = {}
  /\ queued = {}
  /\ sent = {}
  /\ pc = [s \in Requests |-> "start"]
  /\ todo = [s \in Requests |-> {}]
  /\ current = [s \in Requests |-> NoCheckout]
  /\ listed = [s \in Requests |-> {}]
  /\ crashes = 0

-----------------------------------------------------------------------------
\* A checkout comes into being, unsettled (module Checkout).
CreateCheckout(c) ==
  /\ c \notin exists
  /\ exists' = exists \cup {c}
  /\ settlement' = [d \in exists' |-> IF d = c THEN NoSettlement ELSE settlement[d]]
  /\ UNCHANGED <<status, payable, cashOut, events, queued, sent, locals, listed, crashes>>

Goto(s, from, to) ==
  /\ pc[s] = from
  /\ pc' = [pc EXCEPT ![s] = to]

\* create_for_checkout: a new settlement, whatever the state of the checkout.
CreateForCheckout(s) ==
  /\ CheckoutOf[s] \in exists
  /\ Goto(s, "start", "process")
  /\ status' = [status EXCEPT ![s] = "pending"]
  /\ UNCHANGED <<exists, settlement, payable, cashOut, events, queued, sent, todo,
                 current, listed, crashes>>

Process(s) ==
  /\ Goto(s, "process", "pay")
  /\ status' = [status EXCEPT ![s] = "processing"]
  /\ UNCHANGED <<exists, settlement, payable, cashOut, events, queued, sent, todo,
                 current, listed, crashes>>

\* Mutation: the answer of the provider is not looked at.
OutboundPixUnchecked(s) ==
  /\ Goto(s, "pay", "complete")
  /\ sent' \in {sent, sent \cup {s}}
  /\ UNCHANGED <<tables, todo, current, listed, crashes>>

\* The provider pays, or answers that it did not.
OutboundPix(s) ==
  /\ \/ Goto(s, "pay", "complete") /\ sent' = sent \cup {s}
     \/ Goto(s, "pay", "fail") /\ UNCHANGED sent
  /\ UNCHANGED <<tables, todo, current, listed, crashes>>

Fail(s) ==
  /\ Goto(s, "fail", "end")
  /\ status' = [status EXCEPT ![s] = "failed"]
  /\ UNCHANGED <<exists, settlement, payable, cashOut, events, queued, sent, todo,
                 current, listed, crashes>>

Complete(s) ==
  /\ Goto(s, "complete", "list")
  /\ status' = [status EXCEPT ![s] = "completed"]
  /\ UNCHANGED <<exists, settlement, payable, cashOut, events, queued, sent, todo,
                 current, listed, crashes>>

Unsettled == {c \in exists : settlement[c] = NoSettlement}

\* Mutation: the filter on unsettled checkouts is dropped.
ListAll(s) ==
  /\ Goto(s, "list", "next")
  /\ todo' = [todo EXCEPT ![s] = exists]
  /\ listed' = [listed EXCEPT ![s] = Unsettled]
  /\ UNCHANGED <<tables, sent, current, crashes>>

\* The query of the loop, evaluated once: all checkouts of the merchant without a
\* settlement, DENIED ones too.
List(s) ==
  /\ Goto(s, "list", "next")
  /\ todo' = [todo EXCEPT ![s] = Unsettled]
  /\ listed' = [listed EXCEPT ![s] = Unsettled]
  /\ UNCHANGED <<tables, sent, current, crashes>>

\* Mutation: the ledger is posted and the link forgotten.
LinkNothing(s, c) ==
  /\ c \in todo[s]
  /\ Goto(s, "next", "post_payable")
  /\ todo' = [todo EXCEPT ![s] = @ \ {c}]
  /\ current' = [current EXCEPT ![s] = c]
  /\ UNCHANGED <<tables, sent, listed, crashes>>

\* Mutation: the checkout is linked, and neither account is posted.
LinkOnly(s, c) ==
  /\ c \in todo[s]
  /\ Goto(s, "next", "next")
  /\ settlement' = [settlement EXCEPT ![c] = s]
  /\ todo' = [todo EXCEPT ![s] = @ \ {c}]
  /\ UNCHANGED <<exists, status, payable, cashOut, events, queued, sent, current, listed,
                 crashes>>

\* The next checkout of the list gets the settlement, also if another request
\* has linked it since.
Link(s, c) ==
  /\ c \in todo[s]
  /\ Goto(s, "next", "post_payable")
  /\ settlement' = [settlement EXCEPT ![c] = s]
  /\ todo' = [todo EXCEPT ![s] = @ \ {c}]
  /\ current' = [current EXCEPT ![s] = c]
  /\ UNCHANGED <<exists, status, payable, cashOut, events, queued, sent, listed, crashes>>

\* LedgerService.post_settlement: two inserts.
PostPayable(s) ==
  /\ Goto(s, "post_payable", "post_cash")
  /\ payable' = [payable EXCEPT ![current[s]][s] = @ + 1]
  /\ UNCHANGED <<exists, status, settlement, cashOut, events, queued, sent, todo,
                 current, listed, crashes>>

PostCash(s) ==
  /\ Goto(s, "post_cash", "next")
  /\ cashOut' = [cashOut EXCEPT ![current[s]][s] = @ + 1]
  /\ current' = [current EXCEPT ![s] = NoCheckout]
  /\ UNCHANGED <<exists, status, settlement, payable, events, queued, sent, todo,
                 listed, crashes>>

\* Mutation: the task is handed over without a stored event.
EnqueueNoRow(s) ==
  /\ todo[s] = {}
  /\ Goto(s, "next", "dispatch")
  /\ UNCHANGED <<tables, sent, todo, current, listed, crashes>>

\* The loop is over; WebhookService.enqueue inserts the event if there is a URL.
Enqueue(s) ==
  /\ todo[s] = {}
  /\ Goto(s, "next", IF HasWebhookUrl THEN "dispatch" ELSE "end")
  /\ events' = IF HasWebhookUrl THEN events \cup {s} ELSE events
  /\ UNCHANGED <<exists, status, settlement, payable, cashOut, queued, sent, todo,
                 current, listed, crashes>>

Dispatch(s) ==
  /\ Goto(s, "dispatch", "end")
  /\ queued' = queued \cup {s}
  /\ UNCHANGED <<exists, status, settlement, payable, cashOut, events, sent, todo,
                 current, listed, crashes>>

\* The worker dies, or a statement, the provider or the broker raises; a Pix
\* that was sent stays sent.
Crash(s) ==
  /\ pc[s] \in Steps
  /\ crashes < MaxCrashes
  /\ crashes' = crashes + 1
  /\ pc' = [pc EXCEPT ![s] = "dead"]
  /\ todo' = [todo EXCEPT ![s] = {}]
  /\ current' = [current EXCEPT ![s] = NoCheckout]
  /\ UNCHANGED <<tables, sent, listed>>

Step(s) ==
  \/ Process(s)
  \/ OutboundPix(s)
  \/ Fail(s)
  \/ Complete(s)
  \/ List(s)
  \/ \E c \in Checkouts : Link(s, c)
  \/ PostPayable(s)
  \/ PostCash(s)
  \/ Enqueue(s)
  \/ Dispatch(s)

Next ==
  \/ \E c \in Checkouts : CreateCheckout(c)
  \/ \E s \in Requests : CreateForCheckout(s) \/ Step(s) \/ Crash(s)

Spec == Init /\ [][Next]_vars
-----------------------------------------------------------------------------
PostedBy(c) == {s \in Requests : payable[c][s] > 0}

\* The merchant's books move, and its event is stored, only for a payout the
\* provider made and the database knows of (services.py 44 before 53).
PostedWasPaidOut ==
  \A s \in Requests :
    (s \in events \/ \E c \in Checkouts : payable[c][s] > 0) =>
      s \in sent /\ status[s] = "completed"

\* A checkout settled by somebody, and on nobody's list, is never posted again
\* and keeps its settlement: only requests whose lists overlap settle it twice.
Closed(c) ==
  /\ c \in exists
  /\ settlement[c] # NoSettlement
  /\ \A s \in Requests : c \notin todo[s] /\ current[s] # c

SettledIsClosed ==
  [][\A c \in Checkouts :
       Closed(c) => /\ Closed(c)'
                    /\ settlement'[c] = settlement[c]
                    /\ UNCHANGED <<payable[c], cashOut[c]>>]_vars

\* One request posts a checkout once, payable before cash; what is posted has a
\* settlement.
PostedOncePerPayout ==
  \A c \in Checkouts, s \in Requests :
    /\ cashOut[c][s] <= payable[c][s]
    /\ payable[c][s] <= 1
    /\ payable[c][s] > 0 => c \in exists /\ settlement[c] # NoSettlement

\* A request that told the merchant left nothing open: whatever was unsettled when it
\* listed the checkouts has a settlement and was posted by the request, once on either
\* account, and the checkout it was asked for is settled.
AnnouncedIsPosted ==
  \A s \in events :
    /\ \A c \in listed[s] :
         settlement[c] # NoSettlement /\ payable[c][s] = 1 /\ cashOut[c][s] = 1
    /\ CheckoutOf[s] \in exists
    /\ settlement[CheckoutOf[s]] # NoSettlement

\* services.py 52 and 56: a payout settles its checkouts, so the cash booked out is
\* the cash that was paid out.
CashMatchesPayout ==
  (\A s \in Requests : pc[s] \in {"start", "end"}) =>
    SumFunction([c \in Checkouts |-> Net[c] * Cardinality(PostedBy(c))])
      = SumFunction([s \in sent |-> Net[CheckoutOf[s]]])
=============================================================================
