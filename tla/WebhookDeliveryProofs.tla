------------------------ MODULE WebhookDeliveryProofs ------------------------
(***************************************************************************)
(* Proofs about WebhookDelivery for every set of events and every bound on *)
(* crashes and edits of the URL.  Each event has a row, a task and a       *)
(* history of its own, so the inductive invariant is one of a single       *)
(* event: what its row says for each place its task can be in.             *)
(***************************************************************************)
EXTENDS WebhookDelivery, TLAPS

\* Nothing was accepted before success is saved, and one post after that.
AcceptedByTask(d) ==
  /\ accepted[d] <= 1
  /\ task[d] \in {"none", "delay", "waiting", "no_url", "post", "save_failed", "retry",
                 "failed"}
       => accepted[d] = 0
  /\ task[d] = "save_delivered" => accepted[d] = 1

\* The row is PENDING until the task ends well.
StatusByTask(d) ==
  /\ task[d] = "none" => status[d] = "none"
  /\ task[d] = "done" => status[d] # "pending"
  /\ task[d] \in TaskStates \ {"none", "done"} => status[d] = "pending"
  /\ status[d] = "delivered" => accepted[d] = 1
  /\ task[d] = "lost" => crashes > 0

\* A task that has not ended was retried once per attempt that was counted, but for
\* the one it is about to retry.
AttemptsByTask(d) ==
  /\ task[d] \in {"none", "delay", "waiting"} \cup (Running \ {"retry"})
       => attempts[d] = retries[d]
  /\ task[d] = "retry" => attempts[d] = retries[d] + 1
  /\ task[d] \in Running \ {"retry"} => saw[d] = attempts[d]
  /\ task[d] = "failed" => attempts[d] = MAX_RETRIES + 1

EventInv(d) == AcceptedByTask(d) /\ StatusByTask(d) /\ AttemptsByTask(d)

IInv == WebhookTypeOK /\ \A d \in Deliveries : EventInv(d)

\* Before the first event there are no rows, tasks and posts.
LEMMA InitInv == Init => IInv
BY WebhookAssumption
   DEF Init, Zero, IInv, WebhookTypeOK, TaskStates, MAX_RETRIES, EventInv,
       AcceptedByTask, StatusByTask, AttemptsByTask, Running

\* A step on one event leaves what is known of the others, if no crash is undone.
LEMMA OtherEvents ==
  ASSUME IInv, NEW d \in Deliveries, NEW e \in Deliveries \ {d},
         crashes' \in Nat, crashes' >= crashes,
         UNCHANGED <<status[e], attempts[e], task[e], retries[e], saw[e], accepted[e]>>
  PROVE  EventInv(e)'
BY WebhookAssumption
   DEF IInv, WebhookTypeOK, EventInv, AcceptedByTask, StatusByTask, AttemptsByTask

\* Every statement of the service and of the task keeps the rows well-formed and in
\* step with the tasks.
LEMMA NextInv == IInv /\ [Next]_vars => IInv'
<1> SUFFICES ASSUME IInv, [Next]_vars PROVE IInv'
  OBVIOUS
<1> USE WebhookAssumption DEF MAX_RETRIES
<1>1. CASE EditUrl
  BY <1>1 DEF EditUrl, IInv, WebhookTypeOK, EventInv, AcceptedByTask, StatusByTask,
              AttemptsByTask, rows, work, merchant
<1>2. ASSUME NEW d \in Deliveries, Enqueue(d) PROVE IInv'
  <2>1. WebhookTypeOK'
    BY <1>2 DEF Enqueue, Goto, IInv, WebhookTypeOK, TaskStates, merchant
  <2>2. EventInv(d)'
    BY <1>2 DEF Enqueue, Goto, IInv, WebhookTypeOK, TaskStates, Running, EventInv,
                AcceptedByTask, StatusByTask, AttemptsByTask, merchant
  <2>3. QED
    BY <1>2, <2>1, <2>2, OtherEvents DEF Enqueue, Goto, IInv, WebhookTypeOK, merchant
<1>3. ASSUME NEW d \in Deliveries, Delay(d) PROVE IInv'
  <2>1. WebhookTypeOK'
    BY <1>3 DEF Delay, Goto, IInv, WebhookTypeOK, TaskStates, rows, merchant
  <2>2. EventInv(d)'
    BY <1>3 DEF Delay, Goto, IInv, WebhookTypeOK, TaskStates, Running, EventInv,
                AcceptedByTask, StatusByTask, AttemptsByTask, rows, merchant
  <2>3. QED
    BY <1>3, <2>1, <2>2, OtherEvents DEF Delay, Goto, IInv, WebhookTypeOK, rows, merchant
<1>4. ASSUME NEW d \in Deliveries, Start(d) PROVE IInv'
  <2>1. attempts[d] \in 0..5
    BY <1>4 DEF Start, Goto, IInv, WebhookTypeOK, EventInv, AttemptsByTask
  <2>2. WebhookTypeOK'
    BY <1>4, <2>1 DEF Start, Goto, IInv, WebhookTypeOK, TaskStates, rows, merchant
  <2>3. EventInv(d)'
    BY <1>4 DEF Start, Goto, IInv, WebhookTypeOK, TaskStates, Running, EventInv,
                AcceptedByTask, StatusByTask, AttemptsByTask, rows, merchant
  <2>4. QED
    BY <1>4, <2>2, <2>3, OtherEvents DEF Start, Goto, IInv, WebhookTypeOK, rows, merchant
<1>5. ASSUME NEW d \in Deliveries, GiveUpWithoutUrl(d) PROVE IInv'
  <2>1. WebhookTypeOK'
    BY <1>5 DEF GiveUpWithoutUrl, Goto, IInv, WebhookTypeOK, TaskStates, merchant
  <2>2. EventInv(d)'
    BY <1>5 DEF GiveUpWithoutUrl, Goto, IInv, WebhookTypeOK, TaskStates, Running,
                EventInv, AcceptedByTask, StatusByTask, AttemptsByTask, merchant
  <2>3. QED
    BY <1>5, <2>1, <2>2, OtherEvents
       DEF GiveUpWithoutUrl, Goto, IInv, WebhookTypeOK, merchant
<1>6. ASSUME NEW d \in Deliveries, Post(d) PROVE IInv'
  <2>1. /\ task[d] = "post" /\ accepted[d] = 0
        /\ received' \in [Deliveries -> Nat]
        /\ \/ /\ task' = [task EXCEPT ![d] = "save_delivered"]
              /\ accepted' = [accepted EXCEPT ![d] = 1]
           \/ /\ task' = [task EXCEPT ![d] = "save_failed"]
              /\ accepted' = accepted
        /\ UNCHANGED <<url, rows, retries, saw, edits, crashes>>
    BY <1>6 DEF Post, Goto, IInv, WebhookTypeOK, EventInv, AcceptedByTask
  <2>2. WebhookTypeOK'
    BY <2>1 DEF IInv, WebhookTypeOK, TaskStates, rows
  <2>3. EventInv(d)'
    BY <2>1 DEF IInv, WebhookTypeOK, TaskStates, Running, EventInv, AcceptedByTask,
                StatusByTask, AttemptsByTask, rows
  <2>4. QED
    BY <2>1, <2>2, <2>3, OtherEvents DEF IInv, WebhookTypeOK, rows
<1>7. ASSUME NEW d \in Deliveries, SaveDelivered(d) PROVE IInv'
  <2>1. WebhookTypeOK'
    BY <1>7 DEF SaveDelivered, Goto, IInv, WebhookTypeOK, TaskStates, merchant
  <2>2. EventInv(d)'
    BY <1>7 DEF SaveDelivered, Goto, IInv, WebhookTypeOK, TaskStates, Running,
                EventInv, AcceptedByTask, StatusByTask, AttemptsByTask, merchant
  <2>3. QED
    BY <1>7, <2>1, <2>2, OtherEvents
       DEF SaveDelivered, Goto, IInv, WebhookTypeOK, merchant
<1>8. ASSUME NEW d \in Deliveries, SaveFailed(d) PROVE IInv'
  <2>1. WebhookTypeOK'
    BY <1>8 DEF SaveFailed, Goto, IInv, WebhookTypeOK, TaskStates, merchant
  <2>2. EventInv(d)'
    BY <1>8 DEF SaveFailed, Goto, IInv, WebhookTypeOK, TaskStates, Running,
                EventInv, AcceptedByTask, StatusByTask, AttemptsByTask, merchant
  <2>3. QED
    BY <1>8, <2>1, <2>2, OtherEvents
       DEF SaveFailed, Goto, IInv, WebhookTypeOK, merchant
<1>9. ASSUME NEW d \in Deliveries, Retry(d) PROVE IInv'
  <2>1. WebhookTypeOK'
    BY <1>9 DEF Retry, Goto, IInv, WebhookTypeOK, TaskStates, rows, merchant
  <2>2. EventInv(d)'
    BY <1>9 DEF Retry, Goto, IInv, WebhookTypeOK, TaskStates, Running, EventInv,
                AcceptedByTask, StatusByTask, AttemptsByTask, rows, merchant
  <2>3. QED
    BY <1>9, <2>1, <2>2, OtherEvents DEF Retry, Goto, IInv, WebhookTypeOK, rows, merchant
<1>10. ASSUME NEW d \in Deliveries, Crash(d) PROVE IInv'
  <2>1. WebhookTypeOK'
    BY <1>10 DEF Crash, IInv, WebhookTypeOK, TaskStates, rows, merchant
  <2>2. EventInv(d)'
    BY <1>10 DEF Crash, IInv, WebhookTypeOK, TaskStates, Running, EventInv,
                AcceptedByTask, StatusByTask, AttemptsByTask, rows, merchant
  <2>3. QED
    BY <1>10, <2>1, <2>2, OtherEvents DEF Crash, IInv, WebhookTypeOK, rows, merchant
<1>11. CASE UNCHANGED vars
  BY <1>11 DEF vars, IInv, WebhookTypeOK, EventInv, AcceptedByTask, StatusByTask,
               AttemptsByTask, rows, work, merchant
<1>12. QED
  BY <1>1, <1>2, <1>3, <1>4, <1>5, <1>6, <1>7, <1>8, <1>9, <1>10,
     <1>11 DEF Next, Step

LEMMA Invariant == Spec => []IInv
BY InitInv, NextInv, PTL DEF Spec

-----------------------------------------------------------------------------
\* The rows, the tasks and the counters stay in their ranges: no event is attempted
\* more than six times.
THEOREM TypeCorrect == Spec => []WebhookTypeOK
<1>1. IInv => WebhookTypeOK
  BY DEF IInv
<1>2. QED
  BY <1>1, Invariant, PTL

\* DELIVERED is only said of an event the merchant accepted, and none is accepted
\* twice, however tasks are retried and workers die.
THEOREM NeverDeliveredTwice == Spec => []DeliveredOnce
<1>1. IInv => DeliveredOnce
  BY DEF IInv, EventInv, AcceptedByTask, StatusByTask, DeliveredOnce
<1>2. QED
  BY <1>1, Invariant, PTL

\* A row that is PENDING has its task under way, or used up its attempts, or lost
\* its process.
THEOREM NoneForgotten == Spec => []PendingIsExplained
<1>1. IInv => PendingIsExplained
  BY DEF IInv, WebhookTypeOK, TaskStates, Running, EventInv, StatusByTask,
         AttemptsByTask, PendingIsExplained
<1>2. QED
  BY <1>1, Invariant, PTL

\* Once a row is DELIVERED or EXHAUSTED no step changes it or posts it again.
THEOREM Final == Spec => ClosedIsFinal
<1> DEFINE Kept == \A d \in Deliveries :
                     status[d] \in {"delivered", "exhausted"} =>
                       /\ status'[d] = status[d]
                       /\ attempts'[d] = attempts[d]
                       /\ received'[d] = received[d]
<1>1. ASSUME IInv, [Next]_vars, NEW d \in Deliveries,
             status[d] \in {"delivered", "exhausted"}
      PROVE  UNCHANGED <<status[d], attempts[d], received[d]>>
  <2>1. task[d] = "done"
    BY <1>1 DEF IInv, WebhookTypeOK, TaskStates, EventInv, StatusByTask
  <2>2. CASE EditUrl \/ UNCHANGED vars
    BY <2>2 DEF EditUrl, vars, rows, merchant
  <2>3. ASSUME NEW e \in Deliveries, Enqueue(e) \/ Step(e) \/ Crash(e)
        PROVE  UNCHANGED <<status[d], attempts[d], received[d]>>
    <3>1. e # d
      BY <2>1, <2>3 DEF Enqueue, Step, Delay, Start, GiveUpWithoutUrl, Post,
                        SaveDelivered, SaveFailed, Retry, Crash, Goto,
                        Running
    <3>2. QED
      BY <1>1, <2>3, <3>1 DEF Enqueue, Step, Delay, Start, GiveUpWithoutUrl, Post,
                        SaveDelivered, SaveFailed, Retry, Crash, IInv, WebhookTypeOK,
                        rows, merchant
  <2>4. QED
    BY <1>1, <2>2, <2>3 DEF Next
<1>2. IInv /\ [Next]_vars => [Kept]_vars
  BY <1>1
<1>3. QED
  BY <1>2, Invariant, PTL DEF Spec, ClosedIsFinal

-----------------------------------------------------------------------------
(* WebhookDelivery implements Delivery *)

\* A post that reached the merchant is counted, at the latest when it is saved.
ArrivedByTask(d) ==
  /\ received[d] <= MAX_RETRIES + 1
  /\ task[d] \in {"none", "delay", "waiting", "no_url", "post", "retry"}
       => received[d] <= attempts[d]
  /\ task[d] \in {"save_delivered", "save_failed"} => received[d] <= attempts[d] + 1

ArrivedInv == \A d \in Deliveries : ArrivedByTask(d)

\* Only a post changes what arrived, and it counts one more than the row before it.
LEMMA ArrivedNext == IInv /\ ArrivedInv /\ [Next]_vars => ArrivedInv'
<1> SUFFICES ASSUME IInv, ArrivedInv, [Next]_vars, NEW e \in Deliveries
             PROVE  ArrivedByTask(e)'
  BY DEF ArrivedInv
<1> USE DEF MAX_RETRIES
<1>1. /\ WebhookTypeOK /\ EventInv(e) /\ ArrivedByTask(e)
      /\ received[e] \in Nat /\ attempts[e] \in 0..6 /\ retries[e] \in 0..5
  BY DEF IInv, ArrivedInv, WebhookTypeOK
<1>2. CASE EditUrl \/ UNCHANGED vars
  BY <1>1, <1>2 DEF EditUrl, vars, rows, work, merchant, ArrivedByTask
<1>3. ASSUME NEW d \in Deliveries \ {e}, Enqueue(d) \/ Step(d) \/ Crash(d)
      PROVE  ArrivedByTask(e)'
  <2>1. UNCHANGED <<received[e], attempts[e], task[e]>>
    BY <1>1, <1>3 DEF Enqueue, Step, Delay, Start, GiveUpWithoutUrl, Post, SaveDelivered,
       SaveFailed, Retry, Crash, Goto, WebhookTypeOK, rows, merchant
  <2>2. QED
    BY <1>1, <2>1 DEF ArrivedByTask
<1>4. CASE \/ Enqueue(e) \/ Delay(e) \/ Start(e) \/ GiveUpWithoutUrl(e)
           \/ Retry(e) \/ Crash(e)
  BY <1>1, <1>4 DEF Enqueue, Delay, Start, GiveUpWithoutUrl, Retry, Crash, Goto, WebhookTypeOK,
     rows, merchant, Running, EventInv, AttemptsByTask, ArrivedByTask
<1>5. CASE Post(e)
  <2>1. /\ task[e] = "post" /\ attempts[e] = retries[e]
        /\ received'[e] \in {received[e], received[e] + 1}
        /\ task'[e] \in {"save_delivered", "save_failed"}
        /\ attempts' = attempts
    BY <1>1, <1>5 DEF Post, Goto, WebhookTypeOK, rows, Running, EventInv, AttemptsByTask
  <2>2. QED
    BY <1>1, <2>1 DEF ArrivedByTask
<1>6. CASE SaveDelivered(e) \/ SaveFailed(e)
  <2>1. /\ task[e] \in {"save_delivered", "save_failed"}
        /\ attempts'[e] = attempts[e] + 1 /\ received' = received
        /\ task'[e] \in {"retry", "done"}
        /\ received[e] <= attempts[e] + 1
    BY <1>1, <1>6 DEF SaveDelivered, SaveFailed, Goto, WebhookTypeOK, merchant, Running,
       EventInv, AttemptsByTask, ArrivedByTask
  <2>2. QED
    BY <1>1, <2>1 DEF ArrivedByTask
<1>7. QED
  BY <1>2, <1>3, <1>4, <1>5, <1>6 DEF Next, Step

\* Before the first event nothing was promised or sent.
LEMMA DeliveryInit == Init => Promise!Init /\ ArrivedInv
BY DEF Init, Zero, Promise!Init, Taken, ArrivedInv, ArrivedByTask, MAX_RETRIES

\* Each statement is a step of the promise or none: an insert is the event, a post
\* that reaches the merchant an arrival, and two of the saves close the row.
LEMMA DeliveryNext ==
  IInv /\ ArrivedInv /\ [Next]_vars => [Promise!Next]_(Promise!state)
<1> SUFFICES ASSUME IInv, ArrivedInv, [Next]_vars
             PROVE  [Promise!Next]_(Promise!state)
  OBVIOUS
<1> USE DEF Promise!state
<1>1. ASSUME UNCHANGED accepted
      PROVE  Taken' = Taken
  BY <1>1 DEF Taken
<1>2. CASE EditUrl \/ UNCHANGED vars
  BY <1>1, <1>2 DEF EditUrl, vars, rows, merchant
<1>3. ASSUME NEW d \in Deliveries, Enqueue(d)
      PROVE  [Promise!Next]_(Promise!state)
  <2>1. status[d] = "none" /\ UNCHANGED <<received, accepted>>
    BY <1>3 DEF Enqueue, Goto, IInv, EventInv, StatusByTask, merchant
  <2>2. CASE url
    BY <1>1, <1>3, <2>1, <2>2 DEF Enqueue, Promise!Happen, Promise!Next
  <2>3. CASE ~url
    BY <1>1, <1>3, <2>1, <2>3 DEF Enqueue, IInv, WebhookTypeOK
  <2>4. QED
    BY <2>2, <2>3
<1>4. ASSUME NEW d \in Deliveries,
             Delay(d) \/ Start(d) \/ SaveFailed(d) \/ Retry(d) \/ Crash(d)
      PROVE  [Promise!Next]_(Promise!state)
  BY <1>1, <1>4 DEF Delay, Start, SaveFailed, Retry, Crash, rows, merchant
<1>5. ASSUME NEW d \in Deliveries, Post(d)
      PROVE  [Promise!Next]_(Promise!state)
  <2>1. /\ status[d] = "pending" /\ accepted[d] = 0
        /\ received[d] \in Nat /\ attempts[d] \in 0..5 /\ received[d] <= attempts[d]
        /\ accepted \in [Deliveries -> Nat] /\ received \in [Deliveries -> Nat]
    BY <1>5 DEF Post, Goto, IInv, WebhookTypeOK, TaskStates, Running, EventInv,
       AcceptedByTask, StatusByTask, AttemptsByTask, ArrivedInv, ArrivedByTask, MAX_RETRIES
  <2>2. UNCHANGED status /\ d \notin Taken /\ received[d] < MAX_RETRIES + 1
    BY <1>5, <2>1 DEF Post, rows, Taken, MAX_RETRIES
  <2>3. \/ /\ received' = [received EXCEPT ![d] = @ + 1]
           /\ Taken' \in {Taken, Taken \cup {d}}
        \/ received' = received /\ Taken' = Taken
    <3>1. CASE accepted' = [accepted EXCEPT ![d] = @ + 1]
               /\ received' = [received EXCEPT ![d] = @ + 1]
      <4>1. Taken' = Taken \cup {d}
        BY <2>1, <3>1 DEF Taken
      <4>2. QED
        BY <3>1, <4>1
    <3>2. CASE UNCHANGED accepted /\ received' = [received EXCEPT ![d] = @ + 1]
      BY <1>1, <3>2
    <3>3. CASE UNCHANGED <<accepted, received>>
      BY <1>1, <3>3
    <3>4. QED
      BY <1>5, <2>1, <3>1, <3>2, <3>3 DEF Post
  <2>4. QED
    BY <2>1, <2>2, <2>3 DEF Promise!Arrive, Promise!Next
<1>6. ASSUME NEW d \in Deliveries, GiveUpWithoutUrl(d) \/ SaveDelivered(d)
      PROVE  [Promise!Next]_(Promise!state)
  <2>1. status[d] = "pending" /\ UNCHANGED <<received, accepted>>
    BY <1>6 DEF GiveUpWithoutUrl, SaveDelivered, Goto, IInv, WebhookTypeOK, TaskStates,
       EventInv, StatusByTask, merchant
  <2>2. CASE GiveUpWithoutUrl(d)
    <3>1. d \notin Taken /\ status' = [status EXCEPT ![d] = "exhausted"]
      BY <2>2 DEF GiveUpWithoutUrl, Goto, IInv, EventInv, AcceptedByTask, Taken
    <3>2. QED
      BY <1>1, <2>1, <3>1 DEF Promise!Close, Promise!Next
  <2>3. CASE SaveDelivered(d)
    <3>1. d \in Taken /\ status' = [status EXCEPT ![d] = "delivered"]
      BY <2>3 DEF SaveDelivered, Goto, IInv, EventInv, AcceptedByTask, Taken
    <3>2. QED
      BY <1>1, <2>1, <3>1 DEF Promise!Close, Promise!Next
  <2>4. QED
    BY <1>6, <2>2, <2>3
<1>7. QED
  BY <1>2, <1>3, <1>4, <1>5, <1>6 DEF Next, Step

\* For any number of events, retries, deaths and edits of the URL, the merchant gets
\* what Delivery promises.
THEOREM DeliveryImplemented == Spec => ImplementsDelivery
<1>1. Spec => []ArrivedInv
  BY DeliveryInit, ArrivedNext, Invariant, PTL DEF Spec
<1>2. QED
  BY <1>1, DeliveryInit, DeliveryNext, Invariant, PTL
     DEF Spec, ImplementsDelivery, Promise!Spec
=============================================================================
