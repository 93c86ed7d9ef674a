--------------------------- MODULE WebhookDelivery ---------------------------
(***************************************************************************)
(* Events for a merchant: WebhookService.enqueue (apps/webhooks/services   *)
(* .py) inserts a WebhookDelivery and hands its id to the broker; the      *)
(* Celery task deliver_webhook (tasks.py) posts it and retries.            *)
(*                                                                         *)
(* Celery acknowledges a task when it starts it, so a task whose worker    *)
(* dies is gone.  A retry is a new message with the same delivery id.      *)
(***************************************************************************)
EXTENDS Integers, FiniteSets

CONSTANTS
  Deliveries,  \* events: WebhookDelivery rows and their tasks
  MaxCrashes,  \* bound: processes that die between two statements
  MaxEdits     \* bound: times the merchant sets or clears webhook_url

MAX_RETRIES == 5   \* max_retries of deliver_webhook

ASSUME WebhookAssumption == MaxCrashes \in Nat /\ MaxEdits \in Nat

VARIABLES
  \* the database
  url,       \* Merchant.webhook_url is set
  status,    \* WebhookDelivery.status, "none" while the row does not exist
  attempts,  \* WebhookDelivery.attempts
  \* the broker and its workers: the task of a delivery
  task,      \* where the task is
  retries,   \* self.request.retries
  saw,       \* the attempts column when the task read the row
  \* the merchant's server
  received,  \* posts of a delivery that reached the merchant
  accepted,  \* of these, the ones answered with success
  \* bounds
  edits, crashes

rows == <<status, attempts>>
work == <<task, retries, saw>>
merchant == <<received, accepted>>
vars == <<url, rows, work, merchant, edits, crashes>>

\* "none": the event has not happened; "delay": the row is stored and the task
\* not yet handed over; "waiting": with the broker; then the statements of the
\* task; "done": it returned; "failed": retry gave up; "lost": a process died.
TaskStates == {"none", "delay", "waiting", "no_url", "post", "save_delivered",
               "save_failed", "retry", "done", "failed", "lost"}

Running == {"no_url", "post", "save_delivered", "save_failed", "retry"}

WebhookTypeOK ==
  /\ url \in BOOLEAN
  /\ status \in [Deliveries -> {"none", "pending", "delivered", "exhausted"}]
  /\ attempts \in [Deliveries -> 0..MAX_RETRIES + 1]
  /\ task \in [Deliveries -> TaskStates]
  /\ retries \in [Deliveries -> 0..MAX_RETRIES]
  /\ saw \in [Deliveries -> 0..MAX_RETRIES]
  /\ received \in [Deliveries -> Nat]
  /\ accepted \in [Deliveries -> Nat]
  /\ edits \in 0..MaxEdits
  /\ crashes \in 0..MaxCrashes

Zero == [d \in Deliveries |-> 0]

Init ==
  /\ url = TRUE
  /\ status = [d \in Deliveries |-> "none"]
  /\ attempts = Zero
  /\ task = [d \in Deliveries |-> "none"]
  /\ retries = Zero
  /\ saw = Zero
  /\ received = Zero
  /\ accepted = Zero
  /\ edits = 0
  /\ crashes = 0

-----------------------------------------------------------------------------
\* MerchantService and the portal set or clear the URL.
EditUrl ==
  /\ edits < MaxEdits
  /\ edits' = edits + 1
  /\ url' = ~url
  /\ UNCHANGED <<rows, work, merchant, crashes>>

Goto(d, from, to) ==
  /\ task[d] = from
  /\ task' = [task EXCEPT ![d] = to]

\* enqueue: without a URL there is no row and no event.
Enqueue(d) ==
  /\ Goto(d, "none", IF url THEN "delay" ELSE "done")
  /\ status' = [status EXCEPT ![d] = IF url THEN "pending" ELSE @]
  /\ UNCHANGED <<url, attempts, retries, saw, merchant, edits, crashes>>

\* deliver_webhook.delay
Delay(d) ==
  /\ Goto(d, "delay", "waiting")
  /\ UNCHANGED <<url, rows, retries, saw, merchant, edits, crashes>>

\* A worker takes the task and reads the delivery with its merchant.
Start(d) ==
  /\ Goto(d, "waiting", IF url THEN "post" ELSE "no_url")
  /\ saw' = [saw EXCEPT ![d] = attempts[d]]
  /\ UNCHANGED <<url, rows, retries, merchant, edits, crashes>>

GiveUpWithoutUrl(d) ==
  /\ Goto(d, "no_url", "done")
  /\ status' = [status EXCEPT ![d] = "exhausted"]
  /\ saw' = [saw EXCEPT ![d] = 0]
  /\ UNCHANGED <<url, attempts, retries, merchant, edits, crashes>>

\* Mutation: any answer of the merchant counts as success.
PostAnyAnswer(d) ==
  /\ Goto(d, "post", "save_delivered")
  /\ \E arrives, success \in BOOLEAN :
       /\ success => arrives
       /\ received' = [received EXCEPT ![d] = IF arrives THEN @ + 1 ELSE @]
       /\ accepted' = [accepted EXCEPT ![d] = IF success THEN @ + 1 ELSE @]
  /\ UNCHANGED <<url, rows, retries, saw, edits, crashes>>

\* requests.post: the merchant answers with success; or with an HTTP error; or
\* the connection fails or times out, before or after the merchant got the event.
Post(d) ==
  /\ \/ /\ Goto(d, "post", "save_delivered")
        /\ received' = [received EXCEPT ![d] = @ + 1]
        /\ accepted' = [accepted EXCEPT ![d] = @ + 1]
     \/ /\ Goto(d, "post", "save_failed")
        /\ \E arrives \in BOOLEAN :
             received' = [received EXCEPT ![d] = IF arrives THEN @ + 1 ELSE @]
        /\ UNCHANGED accepted
  /\ UNCHANGED <<url, rows, retries, saw, edits, crashes>>

\* Mutation: a delivered event is retried like a failed one.
SaveDeliveredRetry(d) ==
  /\ Goto(d, "save_delivered", IF retries[d] < MAX_RETRIES THEN "waiting" ELSE "failed")
  /\ status' = [status EXCEPT ![d] = "delivered"]
  /\ attempts' = [attempts EXCEPT ![d] = saw[d] + 1]
  /\ retries' = [retries EXCEPT ![d] = IF @ < MAX_RETRIES THEN @ + 1 ELSE @]
  /\ saw' = [saw EXCEPT ![d] = 0]
  /\ UNCHANGED <<url, merchant, edits, crashes>>

SaveDelivered(d) ==
  /\ Goto(d, "save_delivered", "done")
  /\ status' = [status EXCEPT ![d] = "delivered"]
  /\ attempts' = [attempts EXCEPT ![d] = saw[d] + 1]
  /\ saw' = [saw EXCEPT ![d] = 0]
  /\ UNCHANGED <<url, retries, merchant, edits, crashes>>

\* The attempt is counted; the status is not touched.
SaveFailed(d) ==
  /\ Goto(d, "save_failed", "retry")
  /\ attempts' = [attempts EXCEPT ![d] = saw[d] + 1]
  /\ saw' = [saw EXCEPT ![d] = 0]
  /\ UNCHANGED <<url, status, retries, merchant, edits, crashes>>

\* Mutation: the retry is allowed once too often.
RetryOnceMore(d) ==
  /\ Goto(d, "retry", IF retries[d] <= MAX_RETRIES THEN "waiting" ELSE "failed")
  /\ retries' = [retries EXCEPT ![d] = IF @ <= MAX_RETRIES THEN @ + 1 ELSE @]
  /\ UNCHANGED <<url, rows, saw, merchant, edits, crashes>>

\* Mutation: the task ends without a retry.
RetryNever(d) ==
  /\ Goto(d, "retry", "failed")
  /\ UNCHANGED <<url, rows, retries, saw, merchant, edits, crashes>>

\* self.retry hands the task to the broker again, or raises when the retries are
\* used up.
Retry(d) ==
  /\ Goto(d, "retry", IF retries[d] < MAX_RETRIES THEN "waiting" ELSE "failed")
  /\ retries' = [retries EXCEPT ![d] = IF @ < MAX_RETRIES THEN @ + 1 ELSE @]
  /\ UNCHANGED <<url, rows, saw, merchant, edits, crashes>>

\* The web process dies before delay, or the Celery worker dies in the task; or
\* the broker refuses the message of delay or retry.
Crash(d) ==
  /\ task[d] \in Running \cup {"delay"}
  /\ crashes < MaxCrashes
  /\ crashes' = crashes + 1
  /\ task' = [task EXCEPT ![d] = "lost"]
  /\ saw' = [saw EXCEPT ![d] = 0]
  /\ UNCHANGED <<url, rows, retries, merchant, edits>>

Step(d) ==
  \/ Delay(d)
  \/ Start(d)
  \/ GiveUpWithoutUrl(d)
  \/ Post(d)
  \/ SaveDelivered(d)
  \/ SaveFailed(d)
  \/ Retry(d)

Next ==
  \/ EditUrl
  \/ \E d \in Deliveries : Enqueue(d) \/ Step(d) \/ Crash(d)

Spec == Init /\ [][Next]_vars

\* Live processes finish what they started and the broker delivers its messages.
FairSpec == Spec /\ \A d \in Deliveries : WF_vars(Step(d))
-----------------------------------------------------------------------------
\* DELIVERED is only said of events the merchant has accepted, exactly once:
\* success ends the task, so no retry repeats an accepted event.
DeliveredOnce ==
  \A d \in Deliveries :
    /\ status[d] = "delivered" => accepted[d] = 1
    /\ accepted[d] <= 1

\* No event is forgotten in silence: while a row is PENDING its task is under
\* way, or used up all its attempts, or a process died.
PendingIsExplained ==
  \A d \in Deliveries :
    status[d] = "pending" =>
      \/ task[d] \in {"delay", "waiting"} \cup Running
      \/ task[d] = "failed" /\ attempts[d] = MAX_RETRIES + 1
      \/ task[d] = "lost" /\ crashes > 0

\* A row that is DELIVERED or EXHAUSTED is final, and nothing more is posted for it.
ClosedIsFinal ==
  [][\A d \in Deliveries :
       status[d] \in {"delivered", "exhausted"} =>
         /\ status'[d] = status[d]
         /\ attempts'[d] = attempts[d]
         /\ received'[d] = received[d]]_vars

\* What the merchant's list and server say of the abstract delivery.
Taken == {d \in Deliveries : accepted[d] > 0}

Promise == INSTANCE Delivery WITH
  Events <- Deliveries, MaxPosts <- MAX_RETRIES + 1,
  phase <- status, copies <- received, taken <- Taken

\* The row and the task (services.py 16-33, tasks.py 16-62), retried, lost or out
\* of step with the URL, deliver as promised: at most six posts of an event, none
\* after the merchant accepted one, and a row that is closed once and truly.
ImplementsDelivery == Promise!Spec

\* The retries come to an end: an event stored for a merchant is delivered,
\* given up, or has failed six times, unless a process died.
EventSettles ==
  \A d \in Deliveries :
    status[d] = "pending" ~>
      \/ status[d] \in {"delivered", "exhausted"}
      \/ task[d] = "failed" /\ attempts[d] = MAX_RETRIES + 1
      \/ crashes > 0

\* docs/SECURITY.md 23: after the maximum number of attempts a delivery is marked
\* as exhausted.
FailedIsExhausted ==
  \A d \in Deliveries : task[d] = "failed" => status[d] = "exhausted"
=============================================================================
