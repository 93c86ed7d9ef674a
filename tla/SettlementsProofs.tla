-------------------------- MODULE SettlementsProofs --------------------------
(***************************************************************************)
(* Proofs about Settlements for every set of checkouts and of payout       *)
(* requests, whatever the requests name and the checkouts are worth.       *)
(***************************************************************************)
EXTENDS Settlements, TLAPS

Looping == {"next", "post_payable", "post_cash"}

\* Where a request stands with the provider and with its own row.
PaidByStep(s) ==
  /\ pc[s] \in {"complete", "list", "dispatch"} \cup Looping => s \in sent
  /\ pc[s] \in {"list", "dispatch"} \cup Looping => status[s] = "completed"
  /\ s \in events => s \in sent /\ status[s] = "completed"

\* The list and the checkout in hand exist in the loop only.
ListByStep(s) ==
  /\ todo[s] # {} => pc[s] \in Looping
  /\ current[s] # NoCheckout <=> pc[s] \in {"post_payable", "post_cash"}
  /\ current[s] \notin todo[s]
  /\ current[s] # NoCheckout => settlement[current[s]] # NoSettlement

\* The event comes after the loop; until then the checkout that was named is on the
\* list or settled.
EventByStep(s) ==
  /\ pc[s] # "start" /\ pc[s] # "dead" => CheckoutOf[s] \in exists
  /\ pc[s] \in Looping =>
       CheckoutOf[s] \in todo[s] \/ settlement[CheckoutOf[s]] # NoSettlement
  /\ pc[s] = "dispatch" => s \in events
  /\ s \in events =>
       /\ pc[s] \in {"dispatch", "end", "dead"}
       /\ CheckoutOf[s] \in exists
       /\ settlement[CheckoutOf[s]] # NoSettlement

\* The two sides of the posting of a checkout, by a request that is not in the middle
\* of it, or is.
PostingByStep(c, s) ==
  /\ cashOut[c][s] <= payable[c][s] /\ payable[c][s] <= 1
  /\ payable[c][s] > 0 =>
       /\ c \in exists /\ settlement[c] # NoSettlement
       /\ s \in sent /\ status[s] = "completed"
  /\ pc[s] \in {"start", "process", "pay", "complete", "fail", "list"}
       => payable[c][s] = 0
  /\ c \in todo[s] => payable[c][s] = 0
  /\ pc[s] = "post_payable" /\ current[s] = c => payable[c][s] = 0
  /\ pc[s] = "post_cash" /\ current[s] = c => payable[c][s] = 1 /\ cashOut[c][s] = 0
  /\ c \in listed[s] /\ (pc[s] \in Looping \/ s \in events)
       => c \in todo[s] \/ current[s] = c \/ (payable[c][s] = 1 /\ cashOut[c][s] = 1)
  /\ pc[s] \in Looping /\ ~(pc[s] = "post_cash" /\ current[s] = c)
       => cashOut[c][s] = payable[c][s]

RequestInv(s) ==
  /\ PaidByStep(s)
  /\ ListByStep(s)
  /\ EventByStep(s)
  /\ \A c \in Checkouts : PostingByStep(c, s)

IInv == SettlementsTypeOK /\ \A s \in Requests : RequestInv(s)

-----------------------------------------------------------------------------
\* Before the first request there is nothing to relate.
LEMMA InitInv == Init => IInv
BY SettlementsAssumption
   DEF Init, Zero, IInv, SettlementsTypeOK, Entries, Steps, Looping, RequestInv,
       PaidByStep, ListByStep, EventByStep, PostingByStep

\* What is known of a request stays true when its own state stays and the others
\* only create and settle checkouts.
LEMMA OtherRequests ==
  ASSUME IInv, NEW u \in Requests,
         exists \subseteq exists',
         \A c \in exists : settlement[c] # NoSettlement => settlement'[c] # NoSettlement,
         UNCHANGED <<status[u], pc[u], todo[u], current[u], listed[u]>>,
         u \in sent <=> u \in sent',
         u \in events <=> u \in events',
         \A c \in Checkouts : UNCHANGED <<payable[c][u], cashOut[c][u]>>
  PROVE  RequestInv(u)'
<1>1. PaidByStep(u)' /\ ListByStep(u)'
  BY DEF IInv, SettlementsTypeOK, RequestInv, PaidByStep, ListByStep
<1>2. EventByStep(u)'
  BY SettlementsAssumption DEF IInv, SettlementsTypeOK, Looping, RequestInv, EventByStep
<1>3. ASSUME NEW c \in Checkouts PROVE PostingByStep(c, u)'
  BY DEF IInv, SettlementsTypeOK, RequestInv, PostingByStep
<1>4. QED
  BY <1>1, <1>2, <1>3 DEF RequestInv

\* Every statement of the service keeps the tables well-formed and each request in
\* step with its rows.
LEMMA NextInv == IInv /\ [Next]_vars => IInv'
<1> SUFFICES ASSUME IInv, [Next]_vars PROVE IInv'
  OBVIOUS
<1> USE SettlementsAssumption
<1>1. ASSUME NEW d \in Checkouts, CreateCheckout(d) PROVE IInv'
  <2>1. SettlementsTypeOK'
    BY <1>1 DEF CreateCheckout, locals, IInv, SettlementsTypeOK
  <2>2. ASSUME NEW u \in Requests PROVE RequestInv(u)'
    BY <1>1, OtherRequests DEF CreateCheckout, locals, IInv, SettlementsTypeOK
  <2>3. QED
    BY <2>1, <2>2 DEF IInv
<1>2. ASSUME NEW s \in Requests, CreateForCheckout(s) PROVE IInv'
  <2>1. SettlementsTypeOK'
    BY <1>2 DEF CreateForCheckout, Goto, tables, IInv, SettlementsTypeOK, Steps, Entries
  <2>2. PaidByStep(s)' /\ ListByStep(s)'
    BY <1>2
       DEF CreateForCheckout, Goto, tables, IInv, SettlementsTypeOK, Steps, Looping,
           RequestInv,
                PaidByStep, ListByStep, EventByStep
  <2>3. EventByStep(s)'
    BY <1>2
       DEF CreateForCheckout, Goto, tables, IInv, SettlementsTypeOK, Steps, Looping,
           RequestInv,
                EventByStep, PaidByStep, ListByStep
  <2>4. ASSUME NEW c \in Checkouts PROVE PostingByStep(c, s)'
    BY <1>2
       DEF CreateForCheckout, Goto, tables, IInv, SettlementsTypeOK, Steps, Entries,
           Looping,
                RequestInv, PaidByStep, ListByStep, PostingByStep
  <2>5. ASSUME NEW u \in Requests \ {s} PROVE RequestInv(u)'
    BY <1>2, OtherRequests
       DEF CreateForCheckout, Goto, tables, IInv, SettlementsTypeOK, Entries
  <2>6. QED
    BY <2>1, <2>2, <2>3, <2>4, <2>5 DEF IInv, RequestInv
<1>3. ASSUME NEW s \in Requests, Process(s) PROVE IInv'
  <2>1. SettlementsTypeOK'
    BY <1>3 DEF Process, Goto, tables, IInv, SettlementsTypeOK, Steps, Entries
  <2>2. PaidByStep(s)' /\ ListByStep(s)'
    BY <1>3
       DEF Process, Goto, tables, IInv, SettlementsTypeOK, Steps, Looping, RequestInv,
                PaidByStep, ListByStep, EventByStep
  <2>3. EventByStep(s)'
    BY <1>3
       DEF Process, Goto, tables, IInv, SettlementsTypeOK, Steps, Looping, RequestInv,
                EventByStep, PaidByStep, ListByStep
  <2>4. ASSUME NEW c \in Checkouts PROVE PostingByStep(c, s)'
    BY <1>3 DEF Process, Goto, tables, IInv, SettlementsTypeOK, Steps, Entries, Looping,
                RequestInv, PaidByStep, ListByStep, PostingByStep
  <2>5. ASSUME NEW u \in Requests \ {s} PROVE RequestInv(u)'
    BY <1>3, OtherRequests DEF Process, Goto, tables, IInv, SettlementsTypeOK, Entries
  <2>6. QED
    BY <2>1, <2>2, <2>3, <2>4, <2>5 DEF IInv, RequestInv
<1>4. ASSUME NEW s \in Requests, OutboundPix(s) PROVE IInv'
  <2>1. SettlementsTypeOK'
    BY <1>4 DEF OutboundPix, Goto, tables, IInv, SettlementsTypeOK, Steps, Entries
  <2>2. PaidByStep(s)' /\ ListByStep(s)'
    BY <1>4
       DEF OutboundPix, Goto, tables, IInv, SettlementsTypeOK, Steps, Looping,
           RequestInv,
                PaidByStep, ListByStep, EventByStep
  <2>3. EventByStep(s)'
    BY <1>4
       DEF OutboundPix, Goto, tables, IInv, SettlementsTypeOK, Steps, Looping,
           RequestInv,
                EventByStep, PaidByStep, ListByStep
  <2>4. ASSUME NEW c \in Checkouts PROVE PostingByStep(c, s)'
    BY <1>4
       DEF OutboundPix, Goto, tables, IInv, SettlementsTypeOK, Steps, Entries, Looping,
                RequestInv, PaidByStep, ListByStep, PostingByStep
  <2>5. ASSUME NEW u \in Requests \ {s} PROVE RequestInv(u)'
    BY <1>4, OtherRequests DEF OutboundPix, Goto, tables, IInv, SettlementsTypeOK, Entries
  <2>6. QED
    BY <2>1, <2>2, <2>3, <2>4, <2>5 DEF IInv, RequestInv
<1>5. ASSUME NEW s \in Requests, Fail(s) PROVE IInv'
  <2>1. SettlementsTypeOK'
    BY <1>5 DEF Fail, Goto, tables, IInv, SettlementsTypeOK, Steps, Entries
  <2>2. PaidByStep(s)' /\ ListByStep(s)'
    BY <1>5 DEF Fail, Goto, tables, IInv, SettlementsTypeOK, Steps, Looping, RequestInv,
                PaidByStep, ListByStep, EventByStep
  <2>3. EventByStep(s)'
    BY <1>5 DEF Fail, Goto, tables, IInv, SettlementsTypeOK, Steps, Looping, RequestInv,
                EventByStep, PaidByStep, ListByStep
  <2>4. ASSUME NEW c \in Checkouts PROVE PostingByStep(c, s)'
    BY <1>5 DEF Fail, Goto, tables, IInv, SettlementsTypeOK, Steps, Entries, Looping,
                RequestInv, PaidByStep, ListByStep, PostingByStep
  <2>5. ASSUME NEW u \in Requests \ {s} PROVE RequestInv(u)'
    BY <1>5, OtherRequests DEF Fail, Goto, tables, IInv, SettlementsTypeOK, Entries
  <2>6. QED
    BY <2>1, <2>2, <2>3, <2>4, <2>5 DEF IInv, RequestInv
<1>6. ASSUME NEW s \in Requests, Complete(s) PROVE IInv'
  <2>1. SettlementsTypeOK'
    BY <1>6 DEF Complete, Goto, tables, IInv, SettlementsTypeOK, Steps, Entries
  <2>2. PaidByStep(s)' /\ ListByStep(s)'
    BY <1>6
       DEF Complete, Goto, tables, IInv, SettlementsTypeOK, Steps, Looping, RequestInv,
                PaidByStep, ListByStep, EventByStep
  <2>3. EventByStep(s)'
    BY <1>6
       DEF Complete, Goto, tables, IInv, SettlementsTypeOK, Steps, Looping, RequestInv,
                EventByStep, PaidByStep, ListByStep
  <2>4. ASSUME NEW c \in Checkouts PROVE PostingByStep(c, s)'
    BY <1>6 DEF Complete, Goto, tables, IInv, SettlementsTypeOK, Steps, Entries, Looping,
                RequestInv, PaidByStep, ListByStep, PostingByStep
  <2>5. ASSUME NEW u \in Requests \ {s} PROVE RequestInv(u)'
    BY <1>6, OtherRequests DEF Complete, Goto, tables, IInv, SettlementsTypeOK, Entries
  <2>6. QED
    BY <2>1, <2>2, <2>3, <2>4, <2>5 DEF IInv, RequestInv
<1>7. ASSUME NEW s \in Requests, List(s) PROVE IInv'
  <2>1. SettlementsTypeOK'
    BY <1>7 DEF List, Unsettled, Goto, tables, IInv, SettlementsTypeOK, Steps, Entries
  <2>2. PaidByStep(s)' /\ ListByStep(s)'
    BY <1>7 DEF List, Unsettled, Goto, tables, IInv, SettlementsTypeOK, Steps, Looping, RequestInv,
                PaidByStep, ListByStep, EventByStep
  <2>3. EventByStep(s)'
    BY <1>7 DEF List, Unsettled, Goto, tables, IInv, SettlementsTypeOK, Steps, Looping, RequestInv,
                EventByStep, PaidByStep, ListByStep
  <2>4. ASSUME NEW c \in Checkouts PROVE PostingByStep(c, s)'
    BY <1>7 DEF List, Unsettled, Goto, tables, IInv, SettlementsTypeOK, Steps, Entries, Looping,
                RequestInv, PaidByStep, ListByStep, PostingByStep
  <2>5. ASSUME NEW u \in Requests \ {s} PROVE RequestInv(u)'
    BY <1>7, OtherRequests DEF List, Goto, tables, IInv, SettlementsTypeOK, Entries
  <2>6. QED
    BY <2>1, <2>2, <2>3, <2>4, <2>5 DEF IInv, RequestInv
<1>8. ASSUME NEW s \in Requests, NEW d \in Checkouts, Link(s, d) PROVE IInv'
  <2>1. SettlementsTypeOK'
    BY <1>8 DEF Link, Goto, tables, IInv, SettlementsTypeOK, Steps, Entries
  <2>2. PaidByStep(s)' /\ ListByStep(s)'
    BY <1>8 DEF Link, Goto, tables, IInv, SettlementsTypeOK, Steps, Looping, RequestInv,
                PaidByStep, ListByStep, EventByStep
  <2>3. EventByStep(s)'
    BY <1>8 DEF Link, Goto, tables, IInv, SettlementsTypeOK, Steps, Looping, RequestInv,
                EventByStep, PaidByStep, ListByStep
  <2>4. ASSUME NEW c \in Checkouts PROVE PostingByStep(c, s)'
    BY <1>8 DEF Link, Goto, tables, IInv, SettlementsTypeOK, Steps, Entries, Looping,
                RequestInv, PaidByStep, ListByStep, PostingByStep
  <2>5. ASSUME NEW u \in Requests \ {s} PROVE RequestInv(u)'
    BY <1>8, OtherRequests DEF Link, Goto, tables, IInv, SettlementsTypeOK, Entries
  <2>6. QED
    BY <2>1, <2>2, <2>3, <2>4, <2>5 DEF IInv, RequestInv
<1>9. ASSUME NEW s \in Requests, PostPayable(s) PROVE IInv'
  <2>0. /\ current[s] \in exists /\ current[s] \in Checkouts
        /\ payable' = [payable EXCEPT ![current[s]] =
                          [payable[current[s]] EXCEPT ![s] = payable[current[s]][s] + 1]]
        /\ payable'  \in Entries
        /\ payable'[current[s]][s] = payable[current[s]][s] + 1
        /\ \A c \in Checkouts \ {current[s]} : payable'[c][s] = payable[c][s]
        /\ \A c \in Checkouts, u \in Requests \ {s} : payable'[c][u] = payable[c][u]
    BY <1>9
       DEF PostPayable, Goto, IInv, SettlementsTypeOK, Entries, RequestInv, ListByStep
  <2>1. SettlementsTypeOK'
    BY <1>9, <2>0 DEF PostPayable, Goto, IInv, SettlementsTypeOK, Steps
  <2>2. PaidByStep(s)' /\ ListByStep(s)'
    BY <1>9
       DEF PostPayable, Goto, tables, IInv, SettlementsTypeOK, Steps, Looping,
           RequestInv,
                PaidByStep, ListByStep, EventByStep
  <2>3. EventByStep(s)'
    BY <1>9
       DEF PostPayable, Goto, tables, IInv, SettlementsTypeOK, Steps, Looping,
           RequestInv,
                EventByStep, PaidByStep, ListByStep
  <2>4. ASSUME NEW c \in Checkouts PROVE PostingByStep(c, s)'
    <3>1. /\ pc[s] = "post_payable" /\ pc'[s] = "post_cash" /\ s \notin events
          /\ UNCHANGED <<exists, status, settlement, cashOut, events, sent, todo, current, listed>>
      BY <1>9 DEF PostPayable, Goto, IInv, SettlementsTypeOK, RequestInv, EventByStep
    <3>2. /\ payable[c][s] \in Nat /\ cashOut[c][s] \in Nat
          /\ PaidByStep(s) /\ ListByStep(s) /\ PostingByStep(c, s)
      BY DEF IInv, SettlementsTypeOK, Entries, RequestInv
    <3>3. CASE c = current[s]
      BY <2>0, <3>1, <3>2, <3>3 DEF Looping, PaidByStep, ListByStep, PostingByStep
    <3>4. CASE c # current[s]
      BY <2>0, <3>1, <3>2, <3>4 DEF Looping, PostingByStep
    <3>5. QED
      BY <3>3, <3>4
  <2>5. ASSUME NEW u \in Requests \ {s} PROVE RequestInv(u)'
    BY <1>9, <2>0, OtherRequests DEF PostPayable, Goto, IInv, SettlementsTypeOK, Entries
  <2>6. QED
    BY <2>1, <2>2, <2>3, <2>4, <2>5 DEF IInv, RequestInv
<1>10. ASSUME NEW s \in Requests, PostCash(s) PROVE IInv'
  <2>0. /\ current[s] \in exists /\ current[s] \in Checkouts
        /\ cashOut' = [cashOut EXCEPT ![current[s]] =
                          [cashOut[current[s]] EXCEPT ![s] = cashOut[current[s]][s] + 1]]
        /\ cashOut'  \in Entries
        /\ cashOut'[current[s]][s] = cashOut[current[s]][s] + 1
        /\ \A c \in Checkouts \ {current[s]} : cashOut'[c][s] = cashOut[c][s]
        /\ \A c \in Checkouts, u \in Requests \ {s} : cashOut'[c][u] = cashOut[c][u]
    BY <1>10 DEF PostCash, Goto, IInv, SettlementsTypeOK, Entries, RequestInv, ListByStep
  <2>1. SettlementsTypeOK'
    BY <1>10, <2>0 DEF PostCash, Goto, IInv, SettlementsTypeOK, Steps
  <2>2. PaidByStep(s)' /\ ListByStep(s)'
    BY <1>10
       DEF PostCash, Goto, tables, IInv, SettlementsTypeOK, Steps, Looping, RequestInv,
                PaidByStep, ListByStep, EventByStep
  <2>3. EventByStep(s)'
    BY <1>10
       DEF PostCash, Goto, tables, IInv, SettlementsTypeOK, Steps, Looping, RequestInv,
                EventByStep, PaidByStep, ListByStep
  <2>4. ASSUME NEW c \in Checkouts PROVE PostingByStep(c, s)'
    BY <1>10, <2>0 DEF PostCash, Goto, IInv, SettlementsTypeOK, Steps, Entries, Looping,
                RequestInv, PaidByStep, ListByStep, EventByStep, PostingByStep
  <2>5. ASSUME NEW u \in Requests \ {s} PROVE RequestInv(u)'
    BY <1>10, <2>0, OtherRequests DEF PostCash, Goto, IInv, SettlementsTypeOK, Entries
  <2>6. QED
    BY <2>1, <2>2, <2>3, <2>4, <2>5 DEF IInv, RequestInv
<1>11. ASSUME NEW s \in Requests, Enqueue(s) PROVE IInv'
  <2>1. SettlementsTypeOK'
    BY <1>11 DEF Enqueue, Goto, tables, IInv, SettlementsTypeOK, Steps, Entries
  <2>2. PaidByStep(s)' /\ ListByStep(s)'
    BY <1>11
       DEF Enqueue, Goto, tables, IInv, SettlementsTypeOK, Steps, Looping, RequestInv,
                PaidByStep, ListByStep, EventByStep
  <2>3. EventByStep(s)'
    BY <1>11
       DEF Enqueue, Goto, tables, IInv, SettlementsTypeOK, Steps, Looping, RequestInv,
                EventByStep, PaidByStep, ListByStep
  <2>4. ASSUME NEW c \in Checkouts PROVE PostingByStep(c, s)'
    BY <1>11 DEF Enqueue, Goto, tables, IInv, SettlementsTypeOK, Steps, Entries, Looping,
                RequestInv, PaidByStep, ListByStep, PostingByStep
  <2>5. ASSUME NEW u \in Requests \ {s} PROVE RequestInv(u)'
    BY <1>11, OtherRequests DEF Enqueue, Goto, tables, IInv, SettlementsTypeOK, Entries
  <2>6. QED
    BY <2>1, <2>2, <2>3, <2>4, <2>5 DEF IInv, RequestInv
<1>12. ASSUME NEW s \in Requests, Dispatch(s) PROVE IInv'
  <2>1. SettlementsTypeOK'
    BY <1>12 DEF Dispatch, Goto, tables, IInv, SettlementsTypeOK, Steps, RequestInv,
                EventByStep
  <2>2. PaidByStep(s)' /\ ListByStep(s)'
    BY <1>12
       DEF Dispatch, Goto, tables, IInv, SettlementsTypeOK, Steps, Looping, RequestInv,
                PaidByStep, ListByStep, EventByStep
  <2>3. EventByStep(s)'
    BY <1>12
       DEF Dispatch, Goto, tables, IInv, SettlementsTypeOK, Steps, Looping, RequestInv,
                EventByStep, PaidByStep, ListByStep
  <2>4. ASSUME NEW c \in Checkouts PROVE PostingByStep(c, s)'
    BY <1>12 DEF Dispatch, Goto, tables, IInv, SettlementsTypeOK, Steps, Entries, Looping,
                RequestInv, PaidByStep, ListByStep, PostingByStep
  <2>5. ASSUME NEW u \in Requests \ {s} PROVE RequestInv(u)'
    BY <1>12, OtherRequests DEF Dispatch, Goto, tables, IInv, SettlementsTypeOK, Entries
  <2>6. QED
    BY <2>1, <2>2, <2>3, <2>4, <2>5 DEF IInv, RequestInv
<1>13. ASSUME NEW s \in Requests, Crash(s) PROVE IInv'
  <2>1. SettlementsTypeOK'
    BY <1>13 DEF Crash, tables, IInv, SettlementsTypeOK, Steps, Entries
  <2>2. PaidByStep(s)' /\ ListByStep(s)'
    BY <1>13 DEF Crash, tables, IInv, SettlementsTypeOK, Steps, Looping, RequestInv,
                PaidByStep, ListByStep, EventByStep
  <2>3. EventByStep(s)'
    BY <1>13 DEF Crash, tables, IInv, SettlementsTypeOK, Steps, Looping, RequestInv,
                EventByStep, PaidByStep, ListByStep
  <2>4. ASSUME NEW c \in Checkouts PROVE PostingByStep(c, s)'
    <3>1. /\ pc[s] \in Steps /\ pc'[s] = "dead" /\ todo'[s] = {} /\ current'[s] = NoCheckout
          /\ UNCHANGED <<exists, status, settlement, payable, cashOut, events, sent, listed>>
      BY <1>13 DEF Crash, tables, IInv, SettlementsTypeOK
    <3>2. PaidByStep(s) /\ ListByStep(s) /\ EventByStep(s) /\ PostingByStep(c, s)
      BY DEF IInv, RequestInv
    <3>3. s \in events => c \notin todo[s] /\ current[s] # c
      BY <3>1, <3>2 DEF Steps, Looping, ListByStep, EventByStep
    <3>4. QED
      BY <3>1, <3>2, <3>3 DEF Looping, PostingByStep
  <2>5. ASSUME NEW u \in Requests \ {s} PROVE RequestInv(u)'
    BY <1>13, OtherRequests DEF Crash, tables, IInv, SettlementsTypeOK, Entries
  <2>6. QED
    BY <2>1, <2>2, <2>3, <2>4, <2>5 DEF IInv, RequestInv
<1>14. CASE UNCHANGED vars
  BY <1>14 DEF vars, tables, locals, IInv, SettlementsTypeOK, RequestInv, PaidByStep,
              ListByStep, EventByStep, PostingByStep
<1>15. QED
  BY <1>1, <1>2, <1>3, <1>4, <1>5, <1>6, <1>7, <1>8, <1>9, <1>10, <1>11, <1>12, <1>13,
     <1>14 DEF Next, Step

LEMMA Invariant == Spec => []IInv
BY InitInv, NextInv, PTL DEF Spec

-----------------------------------------------------------------------------
\* The tables and the workers' local state stay well-formed.
THEOREM TypeCorrect == Spec => []SettlementsTypeOK
<1>1. IInv => SettlementsTypeOK
  BY DEF IInv
<1>2. QED
  BY <1>1, Invariant, PTL

\* The merchant's books move, and its event is stored, only for a payout the
\* provider made, in whatever order requests overlap and die.
THEOREM OnlyPaidIsPosted == Spec => []PostedWasPaidOut
<1>1. IInv => PostedWasPaidOut
  BY DEF IInv, RequestInv, PaidByStep, PostingByStep, PostedWasPaidOut
<1>2. QED
  BY <1>1, Invariant, PTL

\* One payout never posts a checkout twice, nor its cash before its payable.
THEOREM NeverPostedTwice == Spec => []PostedOncePerPayout
<1>1. IInv => PostedOncePerPayout
  BY DEF IInv, RequestInv, PostingByStep, PostedOncePerPayout
<1>2. QED
  BY <1>1, Invariant, PTL

\* A payout that was announced to the merchant is linked to, and posted on both accounts
\* for, every checkout that was unsettled when it was listed, however many there are.
THEOREM AnnouncedWasPosted == Spec => []AnnouncedIsPosted
<1>1. IInv => AnnouncedIsPosted
  <2> SUFFICES ASSUME IInv, NEW s \in events PROVE
                 /\ \A c \in listed[s] :
                      settlement[c] # NoSettlement /\ payable[c][s] = 1 /\ cashOut[c][s] = 1
                 /\ CheckoutOf[s] \in exists
                 /\ settlement[CheckoutOf[s]] # NoSettlement
    BY DEF AnnouncedIsPosted
  <2>1. s \in Requests /\ exists \subseteq Checkouts /\ listed[s] \subseteq exists
    BY DEF IInv, SettlementsTypeOK
  <2>2. ListByStep(s) /\ EventByStep(s) /\ \A c \in Checkouts : PostingByStep(c, s)
    BY <2>1 DEF IInv, RequestInv
  <2>3. todo[s] = {} /\ current[s] = NoCheckout
    BY <2>2 DEF Looping, ListByStep, EventByStep
  <2>4. ASSUME NEW c \in listed[s]
        PROVE  settlement[c] # NoSettlement /\ payable[c][s] = 1 /\ cashOut[c][s] = 1
    BY <2>1, <2>2, <2>3, <2>4, SettlementsAssumption DEF PostingByStep
  <2>5. QED
    BY <2>2, <2>4 DEF EventByStep
<1>2. QED
  BY <1>1, Invariant, PTL

\* No step touches a checkout that is settled and on nobody's list: a request lists
\* unsettled checkouts only, and links and posts what it listed.
THEOREM ClosedForGood == Spec => SettledIsClosed
<1> DEFINE Kept == \A c \in Checkouts :
                     Closed(c) => /\ Closed(c)'
                                  /\ settlement'[c] = settlement[c]
                                  /\ UNCHANGED <<payable[c], cashOut[c]>>
<1>1. ASSUME SettlementsTypeOK, [Next]_vars, NEW c \in Checkouts, Closed(c)
      PROVE  /\ Closed(c)'
             /\ settlement'[c] = settlement[c]
             /\ UNCHANGED <<payable[c], cashOut[c]>>
  <2> USE SettlementsAssumption, <1>1
  <2>1. ASSUME NEW d \in Checkouts, CreateCheckout(d)
        PROVE  Closed(c)' /\ settlement'[c] = settlement[c]
               /\ UNCHANGED <<payable[c], cashOut[c]>>
    BY <2>1 DEF CreateCheckout, Closed, SettlementsTypeOK, locals
  <2>2. ASSUME NEW s \in Requests, CreateForCheckout(s) \/ Step(s) \/ Crash(s)
        PROVE  Closed(c)' /\ settlement'[c] = settlement[c]
               /\ UNCHANGED <<payable[c], cashOut[c]>>
    <3>1. exists' = exists
      BY <2>2 DEF CreateForCheckout, Step, Crash, Process, OutboundPix, Fail, Complete,
                  List, Link, PostPayable, PostCash, Enqueue, Dispatch, tables
    <3>2. settlement'[c] = settlement[c]
      BY <2>2 DEF CreateForCheckout, Step, Crash, Process, OutboundPix, Fail, Complete,
                  List, Link, PostPayable, PostCash, Enqueue, Dispatch, tables,
                  Closed, SettlementsTypeOK
    <3>3. UNCHANGED <<payable[c], cashOut[c]>>
      BY <2>2 DEF CreateForCheckout, Step, Crash, Process, OutboundPix, Fail, Complete,
                  List, Link, PostPayable, PostCash, Enqueue, Dispatch, tables,
                  Closed, SettlementsTypeOK, Entries
    <3>4. ASSUME NEW u \in Requests PROVE c \notin todo'[u] /\ current'[u] # c
      BY <2>2 DEF CreateForCheckout, Step, Crash, Process, OutboundPix, Fail, Complete,
                  List, Unsettled, Link, PostPayable, PostCash, Enqueue, Dispatch, tables,
                  Closed, SettlementsTypeOK
    <3>5. QED
      BY <3>1, <3>2, <3>3, <3>4 DEF Closed
  <2>3. CASE UNCHANGED vars
    BY <2>3 DEF vars, tables, locals, Closed
  <2>4. QED
    BY <2>1, <2>2, <2>3 DEF Next
<1>2. SettlementsTypeOK /\ [Next]_vars => [Kept]_vars
  BY <1>1
<1>3. QED
  BY <1>2, TypeCorrect, PTL DEF Spec, SettledIsClosed
=============================================================================
