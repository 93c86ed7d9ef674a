--------------------------- MODULE PaymentsProofs ---------------------------
(***************************************************************************)
(* Proofs about Payments for every set of processes, charges, customers    *)
(* and every bound on notifications and crashes: its invariants, its       *)
(* balance, and that it implements Booking.                                *)
(***************************************************************************)
EXTENDS Payments, SumTheorems, TLAPS

\* The program starts with well-formed rows and idle processes.
LEMMA InitType == Init => TypeOK
<1> SUFFICES ASSUME Init PROVE TypeOK
  OBVIOUS
<1>1. /\ inst \in [Installments -> InstallmentStatus]
      /\ charge \in [Charges -> PixChargeStatus]
  BY DEF Init, InstallmentStatus, PixChargeStatus
<1>2. txn \in [Charges -> Seq(TransactionStatus)]
  <2>1. <<"pending">> \in Seq(TransactionStatus) /\ <<>> \in Seq(TransactionStatus)
    BY DEF TransactionStatus
  <2>2. QED
    BY <2>1 DEF Init
<1>3. /\ cash \in Counters /\ receivable \in Counters
      /\ events \in Counters /\ queued \in Counters
  BY DEF Init, Zero, Counters
<1>4. QED
  BY <1>1, <1>2, <1>3, PaymentsAssumption DEF Init, TypeOK, Holding, Steps

\* One more row keeps a table of counters a table of counters.
LEMMA InsertedType ==
  ASSUME NEW counter \in Counters, NEW c \in Charges, NEW w \in Workers
  PROVE  Inserted(counter, c, w) \in Counters
BY DEF Inserted, Counters

\* Marking a row of a sequence of statuses leaves a sequence of that length.
LEMMA MarkedType ==
  ASSUME NEW s \in Seq(TransactionStatus), NEW k \in 1..Len(s)
  PROVE  /\ [s EXCEPT ![k] = "paid"] \in Seq(TransactionStatus)
         /\ Len([s EXCEPT ![k] = "paid"]) = Len(s)
BY DEF TransactionStatus

\* A process that answers or dies leaves well-formed local state behind, if
\* the tables stay well-formed and no transaction row disappears.
LEMMA LeaveKeepsType ==
  ASSUME TypeOK, NEW w \in Workers, Leave(w), UNCHANGED txn,
         inst' \in [Installments -> InstallmentStatus],
         charge' \in [Charges -> PixChargeStatus],
         cash' \in Counters, receivable' \in Counters,
         used' \in [Customers -> Int],
         events' \in Counters, queued' \in Counters,
         calls' \in [Charges -> Nat], crashes' \in Nat
  PROVE  TypeOK'
<1>1. /\ pc' \in [Workers -> Steps \cup {"idle"}]
      /\ job' \in [Workers -> Charges \cup {NoCharge}]
      /\ row' \in [Workers -> Nat]
      /\ seen' \in [Workers -> Int]
  BY DEF Leave, TypeOK
<1>2. ASSUME NEW v \in Workers PROVE Holding(v)'
  <2>1. CASE v = w
    BY <2>1 DEF Leave, TypeOK, Holding
  <2>2. CASE v # w
    <3>1. pc'[v] = pc[v] /\ job'[v] = job[v] /\ row'[v] = row[v]
      BY <2>2 DEF Leave, TypeOK
    <3>2. QED
      BY <3>1 DEF TypeOK, Holding
  <2>3. QED
    BY <2>1, <2>2
<1>3. QED
  BY <1>1, <1>2 DEF TypeOK

\* Every statement of process_payment, every notification and every crash keeps
\* the tables and the processes' local state well-formed.
LEMMA NextType == TypeOK /\ [Next]_vars => TypeOK'
<1> SUFFICES ASSUME TypeOK, [Next]_vars PROVE TypeOK'
  OBVIOUS
<1> USE PaymentsAssumption
<1>1. ASSUME NEW w \in Workers, NEW c \in Charges, Notify(w, c)
      PROVE  TypeOK'
  <2>1. CASE charge[c] \in {"none", "paid"}
    BY <1>1, <2>1 DEF Notify, TypeOK, Holding, tables, locals
  <2>2. CASE charge[c] \notin {"none", "paid"}
    <3>1. /\ pc' \in [Workers -> Steps \cup {"idle"}]
          /\ job' \in [Workers -> Charges \cup {NoCharge}]
              /\ calls' \in [Charges -> Nat]
      <4>1. /\ pc' = [pc EXCEPT ![w] = "mark_charge"]
            /\ job' = [job EXCEPT ![w] = c]
            /\ calls' = [calls EXCEPT ![c] = @ + 1]
        BY <1>1, <2>2 DEF Notify
      <4>2. QED
        BY <4>1 DEF TypeOK, Steps
    <3>2. ASSUME NEW v \in Workers PROVE Holding(v)'
      <4>1. CASE v = w
        <5>1. pc'[v] = "mark_charge" /\ job'[v] = c
          BY <1>1, <2>2, <4>1 DEF Notify, TypeOK
        <5>2. QED
          BY <5>1 DEF Holding
      <4>2. CASE v # w
        <5>1. pc'[v] = pc[v] /\ job'[v] = job[v] /\ row'[v] = row[v] /\ txn' = txn
          BY <1>1, <2>2, <4>2 DEF Notify, TypeOK, tables
        <5>2. QED
          BY <5>1 DEF TypeOK, Holding
      <4>3. QED
        BY <4>1, <4>2
    <3>3. QED
      BY <1>1, <2>2, <3>1, <3>2 DEF Notify, TypeOK, tables
  <2>3. QED
    BY <2>1, <2>2
<1>2. ASSUME NEW w \in Workers, MarkCharge(w) PROVE TypeOK'
  BY <1>2 DEF MarkCharge, Goto, TypeOK, Holding, Steps, PixChargeStatus, bounds
<1>3. ASSUME NEW w \in Workers, MarkInstallment(w) PROVE TypeOK'
  BY <1>3 DEF MarkInstallment, Goto, TypeOK, Holding, Steps, InstallmentStatus, bounds
<1>4. ASSUME NEW w \in Workers, FindTransaction(w) PROVE TypeOK'
  <2>1. job[w] \in Charges /\ txn[job[w]] \in Seq(TransactionStatus)
    BY <1>4 DEF FindTransaction, TypeOK, Holding
  <2>2. CASE txn[job[w]] = <<>>
    BY <1>4, <2>2 DEF FindTransaction, Goto, TypeOK, Holding, Steps, tables, bounds
  <2>3. CASE txn[job[w]] # <<>>
    <3>1. Len(txn[job[w]]) \in Nat /\ Len(txn[job[w]]) \in 1..Len(txn[job[w]])
      BY <2>1, <2>3
    <3>2. /\ pc' = [pc EXCEPT ![w] = "mark_txn"]
          /\ row' = [row EXCEPT ![w] = Len(txn[job[w]])]
          /\ UNCHANGED <<txn, job>>
      BY <1>4, <2>3 DEF FindTransaction, Goto, tables
    <3>3. \A v \in Workers : Holding(v)'
      BY <1>4, <3>1, <3>2 DEF FindTransaction, TypeOK, Holding
    <3>4. pc' \in [Workers -> Steps \cup {"idle"}] /\ row' \in [Workers -> Nat]
      BY <3>1, <3>2 DEF TypeOK, Steps
    <3>5. QED
      BY <1>4, <3>3, <3>4 DEF FindTransaction, TypeOK, tables, bounds
  <2>4. QED
    BY <2>2, <2>3
<1>5. ASSUME NEW w \in Workers, CreateTransaction(w) PROVE TypeOK'
  BY <1>5 DEF CreateTransaction, Goto, TypeOK, Holding, Steps, TransactionStatus, bounds
<1>6. ASSUME NEW w \in Workers, MarkTransaction(w) PROVE TypeOK'
  BY <1>6, MarkedType DEF MarkTransaction, Goto, TypeOK, Holding, Steps, bounds
<1>7. ASSUME NEW w \in Workers, PostCash(w) PROVE TypeOK'
  BY <1>7, InsertedType DEF PostCash, Goto, TypeOK, Holding, Steps, bounds
<1>8. ASSUME NEW w \in Workers, PostReceivable(w) PROVE TypeOK'
  BY <1>8, InsertedType DEF PostReceivable, Goto, TypeOK, Holding, Steps, bounds
<1>9. ASSUME NEW w \in Workers, ReadCustomer(w) PROVE TypeOK'
  BY <1>9 DEF ReadCustomer, Goto, TypeOK, Holding, Steps, tables, bounds
<1>10. ASSUME NEW w \in Workers, ReleaseLimit(w) PROVE TypeOK'
  BY <1>10 DEF ReleaseLimit, Released, Goto, TypeOK, Holding, Steps, bounds
<1>11. ASSUME NEW w \in Workers, Enqueue(w) PROVE TypeOK'
  <2>0. PICK form \in PaidAtForms :
          IF Storable(form)
          THEN /\ Goto(w, "enqueue", "dispatch")
               /\ events' = Inserted(events, job[w], w)
               /\ UNCHANGED <<job, row, seen>>
          ELSE Leave(w) /\ UNCHANGED events
    BY <1>11 DEF Enqueue
  <2>1. CASE Storable(form)
    <3>1. /\ pc[w] = "enqueue" /\ job[w] \in Charges
          /\ pc' = [pc EXCEPT ![w] = "dispatch"]
          /\ events' = Inserted(events, job[w], w)
          /\ UNCHANGED <<inst, charge, txn, cash, receivable, used, queued,
                         job, row, seen, calls, crashes>>
      BY <1>11, <2>0, <2>1 DEF Enqueue, Goto, TypeOK, Holding, bounds
    <3>2. events' \in Counters
      BY <3>1, InsertedType DEF TypeOK
    <3>3. QED
      BY <3>1, <3>2 DEF TypeOK, Holding, Steps
  <2>2. CASE ~Storable(form)
    <3>1. Leave(w) /\ UNCHANGED <<tables, bounds>>
      BY <1>11, <2>0, <2>2 DEF Enqueue, tables
    <3>2. UNCHANGED <<inst, charge, txn, cash, receivable, used, events, queued,
                      calls, crashes>>
      BY <3>1 DEF tables, bounds
    <3>3. /\ inst' \in [Installments -> InstallmentStatus]
          /\ charge' \in [Charges -> PixChargeStatus]
          /\ cash' \in Counters /\ receivable' \in Counters
          /\ used' \in [Customers -> Int]
          /\ events' \in Counters /\ queued' \in Counters
          /\ calls' \in [Charges -> Nat] /\ crashes' \in Nat
      BY <3>2 DEF TypeOK
    <3>4. QED
      BY <3>1, <3>2, <3>3, LeaveKeepsType
  <2>3. QED
    BY <2>1, <2>2
<1>12. ASSUME NEW w \in Workers, Dispatch(w) PROVE TypeOK'
  <2>1. Leave(w) /\ job[w] \in Charges
    BY <1>12 DEF Dispatch, TypeOK, Holding
  <2>2. queued' \in Counters
    BY <1>12, <2>1, InsertedType DEF Dispatch, TypeOK
  <2>3. QED
    BY <1>12, <2>1, <2>2, LeaveKeepsType DEF Dispatch, TypeOK, bounds
<1>13. ASSUME NEW w \in Workers, Crash(w) PROVE TypeOK'
  <2>1. Leave(w) /\ crashes' \in Nat
    BY <1>13 DEF Crash, TypeOK
  <2>2. QED
    BY <1>13, <2>1, LeaveKeepsType DEF Crash, TypeOK, tables
<1>14. CASE UNCHANGED vars
  BY <1>14 DEF vars, tables, locals, bounds, TypeOK, Holding
<1>15. QED
  BY <1>1, <1>2, <1>3, <1>4, <1>5, <1>6, <1>7, <1>8, <1>9, <1>10, <1>11,
     <1>12, <1>13, <1>14 DEF Next, Step

\* The rows and the processes' local state are always of their types.
THEOREM TypeCorrect == Spec => []TypeOK
BY InitType, NextType, PTL DEF Spec

-----------------------------------------------------------------------------
\* The three safety properties, for the entries process w wrote for charge c.
Entries(c, w) ==
  /\ cash[c][w] > 0 => /\ charge[c] = "paid"
                       /\ inst[ChargeOf[c]] = "paid"
                       /\ TransactionPaid(c)
  /\ cash[c][w] <= 1
  /\ queued[c][w] <= events[c][w]
  /\ events[c][w] <= receivable[c][w]
  /\ receivable[c][w] <= cash[c][w]

\* The inductive invariant, row by row: what the tables say of each charge and
\* process, and how far each process has come.
LEMMA EntriesInv ==
  PaymentInv <=> /\ TypeOK
                 /\ \A c \in Charges, w \in Workers : Entries(c, w)
                 /\ \A w \in Workers : Progress(w)
BY DEF PaymentInv, PostedIsMarked, OncePerProcess, NoEventAheadOfLedger, Entries

\* What a step of process w leaves alone: rows that say PAID, and everything
\* the other processes wrote and hold.
Kept(w) ==
  /\ \A c \in Charges : charge[c] = "paid" => charge'[c] = "paid"
  /\ \A i \in Installments : inst[i] = "paid" => inst'[i] = "paid"
  /\ \A c \in Charges : TransactionPaid(c) => TransactionPaid(c)'
  /\ \A v \in Workers \ {w} :
       /\ pc'[v] = pc[v] /\ job'[v] = job[v]
       /\ \A c \in Charges :
            /\ cash'[c][v] = cash[c][v] /\ receivable'[c][v] = receivable[c][v]
            /\ events'[c][v] = events[c][v] /\ queued'[c][v] = queued[c][v]

\* An insert adds one to the counter of its charge and process.
LEMMA InsertedValue ==
  ASSUME NEW counter \in Counters, NEW c \in Charges, NEW w \in Workers,
         NEW d \in Charges, NEW v \in Workers
  PROVE  Inserted(counter, c, w)[d][v]
           = IF d = c /\ v = w THEN counter[d][v] + 1 ELSE counter[d][v]
BY DEF Inserted, Counters

\* Every entry of a counter table is a natural number.
LEMMA CounterNat ==
  ASSUME TypeOK, NEW c \in Charges, NEW w \in Workers
  PROVE  /\ cash[c][w] \in Nat /\ receivable[c][w] \in Nat
         /\ events[c][w] \in Nat /\ queued[c][w] \in Nat
BY DEF TypeOK, Counters

\* A transaction stays PAID when a row is added and when another is marked.
LEMMA PaidRowStays ==
  ASSUME NEW s \in Seq(TransactionStatus), NEW k \in 1..Len(s), s[k] = "paid"
  PROVE  /\ k \in 1..Len(Append(s, "pending")) /\ Append(s, "pending")[k] = "paid"
         /\ \A j \in 1..Len(s) : /\ k \in 1..Len([s EXCEPT ![j] = "paid"])
                                 /\ [s EXCEPT ![j] = "paid"][k] = "paid"
BY DEF TransactionStatus

\* No statement of process_payment makes a PAID transaction anything else.
LEMMA TransactionStaysPaid ==
  ASSUME TypeOK, NEW w \in Workers, NEW c \in Charges, TransactionPaid(c),
         \/ UNCHANGED txn
         \/ CreateTransaction(w)
         \/ MarkTransaction(w)
  PROVE  TransactionPaid(c)'
<1>1. PICK k \in 1..Len(txn[c]) : txn[c][k] = "paid"
  BY DEF TransactionPaid
<1>2. txn[c] \in Seq(TransactionStatus)
  BY DEF TypeOK
<1>3. CASE UNCHANGED txn
  BY <1>3 DEF TransactionPaid
<1>4. CASE CreateTransaction(w)
  <2>1. txn'[c] = txn[c] \/ txn'[c] = Append(txn[c], "pending")
    BY <1>4 DEF CreateTransaction, TypeOK
  <2>2. k \in 1..Len(txn'[c]) /\ txn'[c][k] = "paid"
    BY <1>1, <1>2, <2>1, PaidRowStays
  <2>3. QED
    BY <2>2 DEF TransactionPaid
<1>5. CASE MarkTransaction(w)
  <2>1. row[w] \in 1..Len(txn[job[w]])
    BY <1>5 DEF MarkTransaction, Goto, TypeOK, Holding
  <2>2. \/ txn'[c] = txn[c]
        \/ c = job[w] /\ txn'[c] = [txn[c] EXCEPT ![row[w]] = "paid"]
    BY <1>5 DEF MarkTransaction, TypeOK
  <2>3. k \in 1..Len(txn'[c]) /\ txn'[c][k] = "paid"
    BY <1>1, <1>2, <2>1, <2>2, PaidRowStays
  <2>4. QED
    BY <2>3 DEF TransactionPaid
<1>6. QED
  BY <1>3, <1>4, <1>5

\* The other processes do not notice a step that keeps their rows.
LEMMA OthersKeep ==
  ASSUME PaymentInv, NEW w \in Workers, Kept(w), NEW v \in Workers \ {w}
  PROVE  Progress(v)' /\ \A c \in Charges : Entries(c, v)'
<1> USE PaymentsAssumption
<1>1. ASSUME NEW c \in Charges PROVE Entries(c, v)'
  <2>1. Entries(c, v) /\ ChargeOf[c] \in Installments
    BY EntriesInv
  <2>2. QED
    BY <2>1 DEF Entries, Kept
<1>2. Progress(v)'
  <2>1. Progress(v) /\ TypeOK /\ Holding(v) /\ v \in Workers
    BY DEF PaymentInv, TypeOK
  <2>2. CASE pc[v] = "idle"
    BY <2>2 DEF Kept, Progress
  <2>3. CASE pc[v] # "idle"
    <3>1. job[v] \in Charges /\ ChargeOf[job[v]] \in Installments
      BY <2>1, <2>3 DEF TypeOK, Holding
    <3>2. QED
      BY <2>1, <2>3, <3>1 DEF Kept, Progress
  <2>4. QED
    BY <2>2, <2>3
<1>3. QED
  BY <1>1, <1>2

-----------------------------------------------------------------------------
\* Every step of process w keeps what the others rely on.
LEMMA StepKeeps ==
  ASSUME PaymentInv, NEW w \in Workers, Step(w)
  PROVE  Kept(w)
<1> USE PaymentsAssumption
<1>0. TypeOK
  BY DEF PaymentInv
<1>1. CASE UNCHANGED <<cash, receivable, events, queued>>
           /\ ~CreateTransaction(w) /\ ~MarkTransaction(w)
  <2>1. UNCHANGED txn
    BY <1>1 DEF Step, MarkCharge, MarkInstallment, FindTransaction, PostCash,
       PostReceivable, ReadCustomer, ReleaseLimit, Enqueue, Dispatch, tables
  <2>2. \A c \in Charges : charge[c] = "paid" => charge'[c] = "paid"
    BY <1>0, <1>1 DEF Step, MarkCharge, MarkInstallment, FindTransaction, PostCash,
       PostReceivable, ReadCustomer, ReleaseLimit, Enqueue, Dispatch, tables, TypeOK
  <2>3. \A i \in Installments : inst[i] = "paid" => inst'[i] = "paid"
    BY <1>0, <1>1 DEF Step, MarkCharge, MarkInstallment, FindTransaction, PostCash,
       PostReceivable, ReadCustomer, ReleaseLimit, Enqueue, Dispatch, tables, TypeOK
  <2>4. \A v \in Workers \ {w} : pc'[v] = pc[v] /\ job'[v] = job[v]
    BY <1>0, <1>1 DEF Step, MarkCharge, MarkInstallment, FindTransaction, PostCash,
       PostReceivable, ReadCustomer, ReleaseLimit, Enqueue, Dispatch, tables,
       Goto, Leave, TypeOK
  <2>5. \A c \in Charges : TransactionPaid(c) => TransactionPaid(c)'
    BY <1>0, <2>1, TransactionStaysPaid
  <2>6. QED
    BY <1>1, <2>2, <2>3, <2>4, <2>5 DEF Kept
<1>2. CASE CreateTransaction(w) \/ MarkTransaction(w)
  <2>1. \A c \in Charges : TransactionPaid(c) => TransactionPaid(c)'
    BY <1>0, <1>2, TransactionStaysPaid
  <2>2. QED
    BY <1>0, <1>2, <2>1 DEF CreateTransaction, MarkTransaction, Goto, Kept, TypeOK
<1>3. ASSUME UNCHANGED <<inst, charge, txn>>,
             \A v \in Workers \ {w} : pc'[v] = pc[v] /\ job'[v] = job[v],
             NEW d \in Charges,
             cash' = cash \/ cash' = Inserted(cash, d, w),
             receivable' = receivable \/ receivable' = Inserted(receivable, d, w),
             events' = events \/ events' = Inserted(events, d, w),
             queued' = queued \/ queued' = Inserted(queued, d, w)
      PROVE  Kept(w)
  <2>1. \A c \in Charges : TransactionPaid(c) => TransactionPaid(c)'
    BY <1>0, <1>3, TransactionStaysPaid
  <2>2. ASSUME NEW c \in Charges, NEW v \in Workers \ {w}
        PROVE  /\ cash'[c][v] = cash[c][v] /\ receivable'[c][v] = receivable[c][v]
               /\ events'[c][v] = events[c][v] /\ queued'[c][v] = queued[c][v]
    BY <1>0, <1>3, <2>2, InsertedValue DEF TypeOK
  <2>3. QED
    BY <1>3, <2>1, <2>2 DEF Kept
<1>4. CASE PostCash(w)
  BY <1>0, <1>3, <1>4 DEF PostCash, Goto, TypeOK, Holding
<1>5. CASE PostReceivable(w)
  BY <1>0, <1>3, <1>5 DEF PostReceivable, Goto, TypeOK, Holding
<1>6. CASE Enqueue(w)
  BY <1>0, <1>1, <1>3, <1>6 DEF Enqueue, Goto, Leave, TypeOK, Holding
<1>7. CASE Dispatch(w)
  BY <1>0, <1>3, <1>7 DEF Dispatch, Leave, TypeOK, Holding
<1>8. QED
  BY <1>1, <1>2, <1>4, <1>5, <1>6, <1>7 DEF Step, MarkCharge, MarkInstallment,
     FindTransaction, ReadCustomer, ReleaseLimit, tables

-----------------------------------------------------------------------------
\* The step itself keeps the invariant for the process that takes it.
LEMMA OwnStep ==
  ASSUME PaymentInv, NEW w \in Workers, Step(w)
  PROVE  Progress(w)' /\ \A d \in Charges : Entries(d, w)'
<1> USE PaymentsAssumption
<1>a. /\ TypeOK /\ Progress(w) /\ Kept(w)
      /\ \A d \in Charges : Entries(d, w)
      /\ job[w] \in Charges
  <2>1. TypeOK /\ Progress(w) /\ \A d \in Charges : Entries(d, w)
    BY EntriesInv
  <2>2. job[w] \in Charges
    BY <2>1 DEF Step, MarkCharge, MarkInstallment, FindTransaction, CreateTransaction,
       MarkTransaction, PostCash, PostReceivable, ReadCustomer, ReleaseLimit,
       Enqueue, Dispatch, Goto, TypeOK, Holding
  <2>3. QED
    BY <2>1, <2>2, StepKeeps
<1>b. PICK c \in Charges : c = job[w]
  BY <1>a
<1>0. /\ TypeOK /\ Progress(w) /\ Kept(w)
      /\ \A d \in Charges : Entries(d, w)
      /\ c = job[w] /\ ChargeOf[c] \in Installments
  BY <1>a, <1>b
<1>1. \A d \in Charges : /\ cash[d][w] \in Nat /\ receivable[d][w] \in Nat
                         /\ events[d][w] \in Nat /\ queued[d][w] \in Nat
  BY <1>0, CounterNat
\* A step that writes no entry keeps Entries, because PAID rows stay PAID.
<1>2. ASSUME UNCHANGED <<cash, receivable, events, queued>>
      PROVE  \A d \in Charges : Entries(d, w)'
  BY <1>0, <1>2 DEF Entries, Kept
<1>3. CASE MarkCharge(w)
  <2>1. charge'[c] = "paid" /\ pc'[w] = "mark_installment" /\ job'[w] = c
    BY <1>0, <1>3 DEF MarkCharge, Goto, TypeOK
  <2>2. UNCHANGED <<cash, receivable, events, queued>> /\ cash[c][w] = 0
    BY <1>0, <1>3 DEF MarkCharge, Goto, Progress
  <2>3. QED
    BY <1>2, <2>1, <2>2 DEF Progress
<1>4. CASE MarkInstallment(w)
  <2>1. /\ inst'[ChargeOf[c]] = "paid" /\ pc'[w] = "find_txn" /\ job'[w] = c
    BY <1>0, <1>4 DEF MarkInstallment, Goto, TypeOK
  <2>2. /\ UNCHANGED <<cash, receivable, events, queued, charge>>
        /\ cash[c][w] = 0 /\ charge[c] = "paid"
    BY <1>0, <1>4 DEF MarkInstallment, Goto, Progress
  <2>3. QED
    BY <1>2, <2>1, <2>2 DEF Progress
<1>5. CASE FindTransaction(w)
  <2>1. pc'[w] \in {"create_txn", "mark_txn"} /\ job'[w] = c
    BY <1>0, <1>5 DEF FindTransaction, Goto, TypeOK
  <2>2. /\ UNCHANGED <<cash, receivable, events, queued, charge, inst>>
        /\ cash[c][w] = 0 /\ charge[c] = "paid" /\ inst[ChargeOf[c]] = "paid"
    BY <1>0, <1>5 DEF FindTransaction, Progress, tables
  <2>3. QED
    BY <1>2, <2>1, <2>2 DEF Progress
<1>6. CASE CreateTransaction(w)
  <2>1. pc'[w] = "mark_txn" /\ job'[w] = c
    BY <1>0, <1>6 DEF CreateTransaction, Goto, TypeOK
  <2>2. /\ UNCHANGED <<cash, receivable, events, queued, charge, inst>>
        /\ cash[c][w] = 0 /\ charge[c] = "paid" /\ inst[ChargeOf[c]] = "paid"
    BY <1>0, <1>6 DEF CreateTransaction, Goto, Progress
  <2>3. QED
    BY <1>2, <2>1, <2>2 DEF Progress
<1>7. CASE MarkTransaction(w)
  <2>1. pc'[w] = "post_cash" /\ job'[w] = c
    BY <1>0, <1>7 DEF MarkTransaction, Goto, TypeOK
  <2>2. /\ UNCHANGED <<cash, receivable, events, queued, charge, inst>>
        /\ cash[c][w] = 0 /\ charge[c] = "paid" /\ inst[ChargeOf[c]] = "paid"
    BY <1>0, <1>7 DEF MarkTransaction, Goto, Progress
  <2>3. TransactionPaid(c)'
    <3>1. row[w] \in 1..Len(txn[c]) /\ txn[c] \in Seq(TransactionStatus)
      BY <1>0, <1>7 DEF MarkTransaction, Goto, TypeOK, Holding
    <3>2. txn'[c] = [txn[c] EXCEPT ![row[w]] = "paid"]
      BY <1>0, <1>7 DEF MarkTransaction, TypeOK
    <3>3. row[w] \in 1..Len(txn'[c]) /\ txn'[c][row[w]] = "paid"
      BY <3>1, <3>2, MarkedType
    <3>4. QED
      BY <3>3 DEF TransactionPaid
  <2>4. QED
    BY <1>2, <2>1, <2>2, <2>3 DEF Progress
<1>8. CASE PostCash(w)
  <2>1. /\ pc[w] = "post_cash" /\ pc'[w] = "post_receivable" /\ job'[w] = c
        /\ cash' = Inserted(cash, c, w)
        /\ UNCHANGED <<receivable, events, queued, charge, inst, txn>>
    BY <1>0, <1>8 DEF PostCash, Goto, TypeOK
  <2>2. /\ cash[c][w] = 0 /\ receivable[c][w] = 0 /\ events[c][w] = 0
        /\ charge[c] = "paid" /\ inst[ChargeOf[c]] = "paid" /\ TransactionPaid(c)
    BY <1>0, <1>1, <2>1 DEF Progress, Entries
  <2>3. cash'[c][w] = 1 /\ \A d \in Charges \ {c} : cash'[d][w] = cash[d][w]
    BY <1>0, <2>1, <2>2, InsertedValue DEF TypeOK
  <2>4. TransactionPaid(c)'
    BY <1>0, <2>2 DEF Kept
  <2>5. Progress(w)'
    BY <2>1, <2>2, <2>3 DEF Progress
  <2>6. ASSUME NEW d \in Charges PROVE Entries(d, w)'
    <3>1. CASE d = c
      BY <1>0, <2>1, <2>2, <2>3, <2>4, <3>1 DEF Entries
    <3>2. CASE d # c
      BY <1>0, <2>1, <2>3, <3>2 DEF Entries, Kept
    <3>3. QED
      BY <3>1, <3>2
  <2>7. QED
    BY <2>5, <2>6
<1>9. CASE PostReceivable(w)
  <2>1. /\ pc[w] = "post_receivable" /\ pc'[w] = "read_customer" /\ job'[w] = c
        /\ receivable' = Inserted(receivable, c, w)
        /\ UNCHANGED <<cash, events, queued, charge, inst, txn>>
    BY <1>0, <1>9 DEF PostReceivable, Goto, TypeOK
  <2>2. /\ receivable[c][w] < cash[c][w]
        /\ charge[c] = "paid" /\ inst[ChargeOf[c]] = "paid"
    BY <1>0, <2>1 DEF Progress
  <2>3. /\ receivable'[c][w] = receivable[c][w] + 1
        /\ \A d \in Charges \ {c} : receivable'[d][w] = receivable[d][w]
    BY <1>0, <2>1, InsertedValue DEF TypeOK
  <2>4. Progress(w)'
    BY <1>0, <1>1, <2>1, <2>2, <2>3 DEF Progress, Entries
  <2>5. ASSUME NEW d \in Charges PROVE Entries(d, w)'
    BY <1>0, <1>1, <2>1, <2>2, <2>3 DEF Entries, Kept
  <2>6. QED
    BY <2>4, <2>5
<1>10. CASE ReadCustomer(w)
  <2>1. /\ pc[w] = "read_customer" /\ pc'[w] = "release" /\ job'[w] = c
        /\ UNCHANGED <<cash, receivable, events, queued, charge, inst>>
    BY <1>0, <1>10 DEF ReadCustomer, Goto, TypeOK, tables
  <2>2. QED
    BY <1>0, <1>2, <2>1 DEF Progress
<1>11. CASE ReleaseLimit(w)
  <2>1. /\ pc[w] = "release" /\ pc'[w] = "enqueue" /\ job'[w] = c
        /\ UNCHANGED <<cash, receivable, events, queued, charge, inst>>
    BY <1>0, <1>11 DEF ReleaseLimit, Goto, TypeOK
  <2>2. QED
    BY <1>0, <1>2, <2>1 DEF Progress
<1>12. CASE Enqueue(w)
  <2>0. PICK form \in PaidAtForms :
          IF Storable(form)
          THEN /\ Goto(w, "enqueue", "dispatch")
               /\ events' = Inserted(events, job[w], w)
               /\ UNCHANGED <<job, row, seen>>
          ELSE Leave(w) /\ UNCHANGED events
    BY <1>12 DEF Enqueue
  <2>1. CASE Storable(form)
    <3>1. /\ pc[w] = "enqueue" /\ pc'[w] = "dispatch" /\ job'[w] = c
          /\ events' = Inserted(events, c, w)
          /\ UNCHANGED <<cash, receivable, queued, charge, inst, txn>>
      BY <1>0, <1>12, <2>0, <2>1 DEF Enqueue, Goto, TypeOK
    <3>2. /\ events[c][w] < receivable[c][w]
          /\ charge[c] = "paid" /\ inst[ChargeOf[c]] = "paid"
      BY <1>0, <3>1 DEF Progress
    <3>3. /\ events'[c][w] = events[c][w] + 1
          /\ \A d \in Charges \ {c} : events'[d][w] = events[d][w]
      BY <1>0, <3>1, InsertedValue DEF TypeOK
    <3>4. Progress(w)'
      BY <1>0, <1>1, <3>1, <3>2, <3>3 DEF Progress, Entries
    <3>5. ASSUME NEW d \in Charges PROVE Entries(d, w)'
      BY <1>0, <1>1, <3>1, <3>2, <3>3 DEF Entries, Kept
    <3>6. QED
      BY <3>4, <3>5
  <2>2. CASE ~Storable(form)
    <3>1. pc'[w] = "idle" /\ UNCHANGED <<cash, receivable, events, queued>>
      BY <1>0, <1>12, <2>0, <2>2 DEF Enqueue, Leave, TypeOK
    <3>2. QED
      BY <1>2, <3>1 DEF Progress
  <2>3. QED
    BY <2>1, <2>2
<1>13. CASE Dispatch(w)
  <2>1. /\ pc[w] = "dispatch" /\ pc'[w] = "idle"
        /\ queued' = Inserted(queued, c, w)
        /\ UNCHANGED <<cash, receivable, events, charge, inst, txn>>
    BY <1>0, <1>13 DEF Dispatch, Leave, TypeOK
  <2>2. queued[c][w] < events[c][w]
    BY <1>0, <2>1 DEF Progress
  <2>3. /\ queued'[c][w] = queued[c][w] + 1
        /\ \A d \in Charges \ {c} : queued'[d][w] = queued[d][w]
    BY <1>0, <2>1, InsertedValue DEF TypeOK
  <2>4. ASSUME NEW d \in Charges PROVE Entries(d, w)'
    BY <1>0, <1>1, <2>1, <2>2, <2>3 DEF Entries, Kept
  <2>5. QED
    BY <2>1, <2>4 DEF Progress
<1>14. QED
  BY <1>3, <1>4, <1>5, <1>6, <1>7, <1>8, <1>9, <1>10, <1>11, <1>12, <1>13 DEF Step

-----------------------------------------------------------------------------
\* Before any notification nothing is written and no process is in a request.
LEMMA PaymentInvInit == Init => PaymentInv
<1> SUFFICES ASSUME Init PROVE PaymentInv
  OBVIOUS
<1>1. \A c \in Charges, w \in Workers :
        /\ cash[c][w] = 0 /\ receivable[c][w] = 0
        /\ events[c][w] = 0 /\ queued[c][w] = 0
  BY DEF Init, Zero
<1>2. \A w \in Workers : pc[w] = "idle"
  BY DEF Init
<1>3. QED
  BY <1>1, <1>2, InitType
  DEF PaymentInv, PostedIsMarked, OncePerProcess, NoEventAheadOfLedger, Progress

\* A notification starts a request only for a charge nobody has marked yet, so
\* this process has no entry for it; a crash forgets the request and no row.
LEMMA NotifyKeeps ==
  ASSUME PaymentInv, NEW w \in Workers, NEW c \in Charges,
         Notify(w, c)
  PROVE  /\ \A v \in Workers : Progress(v)'
         /\ \A d \in Charges, v \in Workers : Entries(d, v)'
<1>1. /\ TypeOK /\ \A d \in Charges, v \in Workers : Entries(d, v)
      /\ \A v \in Workers : Progress(v)
  BY EntriesInv
<1>2. UNCHANGED <<inst, charge, txn, cash, receivable, events, queued>>
  BY DEF Notify, tables
<1>3. \A d \in Charges, v \in Workers : Entries(d, v)'
  BY <1>1, <1>2 DEF Entries, TransactionPaid
<1>4. ASSUME NEW v \in Workers, UNCHANGED <<pc[v], job[v]>> PROVE Progress(v)'
  BY <1>1, <1>2, <1>4 DEF Progress, TransactionPaid
<1>5. CASE charge[c] \in {"none", "paid"}
  <2>1. \A v \in Workers : UNCHANGED <<pc[v], job[v]>>
    BY <1>5 DEF Notify, locals
  <2>2. QED
    BY <1>3, <1>4, <2>1
<1>6. CASE charge[c] \notin {"none", "paid"}
  <2>1. pc'[w] = "mark_charge" /\ job'[w] = c
    BY <1>1, <1>6 DEF Notify, TypeOK
  <2>2. cash[c][w] = 0
    BY <1>1, <1>6, CounterNat DEF Entries
  <2>3. Progress(w)'
    BY <1>2, <2>1, <2>2 DEF Progress
  <2>4. ASSUME NEW v \in Workers \ {w} PROVE Progress(v)'
    <3>1. UNCHANGED <<pc[v], job[v]>>
      BY <1>1, <1>6 DEF Notify, TypeOK
    <3>2. QED
      BY <1>4, <3>1
  <2>5. QED
    BY <1>3, <2>3, <2>4
<1>7. QED
  BY <1>3, <1>5, <1>6

\* A crash loses the process's place and no row, so what the rows say still holds.
LEMMA CrashKeeps ==
  ASSUME PaymentInv, NEW w \in Workers, Crash(w)
  PROVE  /\ \A v \in Workers : Progress(v)'
         /\ \A d \in Charges, v \in Workers : Entries(d, v)'
<1>1. /\ TypeOK /\ \A d \in Charges, v \in Workers : Entries(d, v)
      /\ \A v \in Workers : Progress(v)
  BY EntriesInv
<1>2. UNCHANGED <<inst, charge, txn, cash, receivable, events, queued>>
  BY DEF Crash, tables
<1>3. \A d \in Charges, v \in Workers : Entries(d, v)'
  BY <1>1, <1>2 DEF Entries, TransactionPaid
<1>4. Progress(w)'
  BY <1>1 DEF Crash, Leave, TypeOK, Progress
<1>5. ASSUME NEW v \in Workers \ {w} PROVE Progress(v)'
  <2>1. pc'[v] = pc[v] /\ job'[v] = job[v]
    BY <1>1 DEF Crash, Leave, TypeOK
  <2>2. QED
    BY <1>1, <1>2, <2>1 DEF Progress, TransactionPaid
<1>6. QED
  BY <1>3, <1>4, <1>5

\* The invariant is inductive: a step keeps it for its own process by OwnStep and
\* for the others because PAID rows stay PAID.
LEMMA PaymentInvNext == PaymentInv /\ [Next]_vars => PaymentInv'
<1> SUFFICES ASSUME PaymentInv, [Next]_vars PROVE PaymentInv'
  OBVIOUS
<1>1. TypeOK'
  BY NextType DEF PaymentInv
<1>2. SUFFICES /\ \A v \in Workers : Progress(v)'
               /\ \A c \in Charges, v \in Workers : Entries(c, v)'
  BY <1>1 DEF PaymentInv, PostedIsMarked, OncePerProcess, NoEventAheadOfLedger,
     Entries
<1>3. ASSUME NEW w \in Workers, Step(w)
      PROVE  /\ \A v \in Workers : Progress(v)'
             /\ \A c \in Charges, v \in Workers : Entries(c, v)'
  <2>1. Kept(w)
    BY <1>3, StepKeeps
  <2>2. Progress(w)' /\ \A c \in Charges : Entries(c, w)'
    BY <1>3, OwnStep
  <2>3. \A v \in Workers \ {w} : Progress(v)' /\ \A c \in Charges : Entries(c, v)'
    BY <2>1, OthersKeep
  <2>4. QED
    BY <2>2, <2>3
<1>4. CASE UNCHANGED vars
  BY <1>4, EntriesInv
  DEF vars, tables, locals, bounds, Progress, Entries, TransactionPaid
<1>5. QED
  BY <1>3, <1>4, NotifyKeeps, CrashKeeps DEF Next

\* The inductive invariant holds in every reachable state.
LEMMA PaymentInvAlways == Spec => []PaymentInv
BY PaymentInvInit, PaymentInvNext, PTL DEF Spec

\* Whatever the overlaps, repetitions and crashes, an amount in the ledger
\* rests on a charge, an installment and a transaction marked PAID.
THEOREM PostingsAreMarked == Spec => []PostedIsMarked
BY PaymentInvAlways, PTL DEF PaymentInv

\* A process posts a charge at most once, for any number of notifications.
THEOREM DuplicatesBounded == Spec => []OncePerProcess
BY PaymentInvAlways, PTL DEF PaymentInv

\* The merchant is never told of a payment the ledger does not have.
THEOREM EventsFollowLedger == Spec => []NoEventAheadOfLedger
BY PaymentInvAlways, PTL DEF PaymentInv

\* Once a charge is PAID and no request for it is in flight, no step changes
\* its rows: a repeated notification is harmless from then on.
THEOREM SettledStaysFrozen == Spec => SettledIsFrozen
<1> USE PaymentsAssumption
<1>1. ASSUME TypeOK, [Next]_vars, NEW c \in Charges, Settled(c)
      PROVE  /\ Settled(c)'
             /\ UNCHANGED <<cash[c], receivable[c], events[c], queued[c], txn[c]>>
  <2>1. charge[c] = "paid" /\ \A w \in Workers : job[w] # c
    BY <1>1 DEF Settled, InFlight
  <2>2. SUFFICES /\ charge'[c] = "paid"
                 /\ \A w \in Workers : job'[w] # c
                 /\ UNCHANGED <<cash[c], receivable[c], events[c], queued[c],
                               txn[c]>>
    BY DEF Settled, InFlight
  <2>3. ASSUME NEW w \in Workers, Step(w)
        PROVE  /\ charge'[c] = "paid"
               /\ UNCHANGED <<cash[c], receivable[c], events[c], queued[c], txn[c]>>
    <3>1. job[w] # c
      BY <2>1
    <3>2. QED
      BY <1>1, <2>1, <2>3, <3>1 DEF Step, MarkCharge, MarkInstallment,
         FindTransaction, CreateTransaction, MarkTransaction, PostCash,
         PostReceivable, ReadCustomer, ReleaseLimit, Enqueue, Dispatch, Inserted,
         tables, TypeOK, Counters
  <2>4. ASSUME NEW w \in Workers, Step(w)
        PROVE  \A v \in Workers : job'[v] # c
    <3>1. c # NoCharge
      OBVIOUS
    <3>2. UNCHANGED job \/ Leave(w)
      BY <2>4 DEF Step, MarkCharge, MarkInstallment, FindTransaction,
         CreateTransaction, MarkTransaction, PostCash, PostReceivable,
         ReadCustomer, ReleaseLimit, Enqueue, Dispatch
    <3>3. QED
      BY <1>1, <2>1, <3>1, <3>2 DEF Leave, TypeOK
  <2>5. ASSUME NEW w \in Workers, NEW d \in Charges, Notify(w, d)
        PROVE  UNCHANGED tables /\ \A v \in Workers : job'[v] # c
    <3>1. CASE charge[d] \in {"none", "paid"}
      BY <2>1, <2>5, <3>1 DEF Notify, locals
    <3>2. CASE charge[d] \notin {"none", "paid"}
      BY <1>1, <2>1, <2>5, <3>2 DEF Notify, TypeOK
    <3>3. QED
      BY <3>1, <3>2
  <2>6. ASSUME NEW w \in Workers, Crash(w)
        PROVE  UNCHANGED tables /\ \A v \in Workers : job'[v] # c
    BY <1>1, <2>1, <2>6 DEF Crash, Leave, TypeOK
  <2>7. ASSUME UNCHANGED tables
        PROVE  /\ charge'[c] = "paid"
               /\ UNCHANGED <<cash[c], receivable[c], events[c], queued[c], txn[c]>>
    BY <2>1, <2>7 DEF tables
  <2>8. CASE UNCHANGED vars
    BY <2>1, <2>7, <2>8 DEF vars, locals
  <2>9. QED
    BY <1>1, <2>3, <2>4, <2>5, <2>6, <2>7, <2>8 DEF Next
<1>2. TypeOK /\ [Next]_vars =>
        [\A c \in Charges :
           Settled(c) =>
             /\ Settled(c)'
             /\ UNCHANGED <<cash[c], receivable[c], events[c], queued[c], txn[c]>>]_vars
  BY <1>1
<1>3. QED
  BY <1>2, TypeCorrect, PTL DEF Spec, SettledIsFrozen
-----------------------------------------------------------------------------
(* Sums over the counters *)

\* How often all processes wrote an entry is a number.
LEMMA WrittenType ==
  ASSUME NEW counter \in Counters, NEW c \in Charges
  PROVE  Written(counter, c) \in Int
<1>1. DOMAIN counter[c] = Workers /\ \A w \in Workers : counter[c][w] \in Int
  BY DEF Counters
<1>2. SumFunctionOnSet(counter[c], Workers) \in Int
  BY <1>1, PaymentsAssumption, SumType
<1>3. QED
  BY <1>1, <1>2 DEF Written, SumFunction

\* An insert adds one to what was written for its charge.
LEMMA WrittenInserted ==
  ASSUME NEW counter \in Counters, NEW c \in Charges, NEW w \in Workers,
         NEW d \in Charges
  PROVE  Written(Inserted(counter, c, w), d)
           = Written(counter, d) + (IF d = c THEN 1 ELSE 0)
<1> DEFINE f == counter[d]
           g == Inserted(counter, c, w)[d]
<1>1. /\ DOMAIN f = Workers /\ DOMAIN g = Workers
      /\ \A v \in Workers : f[v] \in Int /\ g[v] \in Int
      /\ \A v \in Workers \ {w} : g[v] = f[v]
      /\ g[w] = f[w] + (IF d = c THEN 1 ELSE 0)
  BY InsertedType, InsertedValue DEF Counters, Inserted
<1>2. Written(counter, d) = SumFunctionOnSet(f, Workers)
      /\ Written(Inserted(counter, c, w), d) = SumFunctionOnSet(g, Workers)
  BY <1>1 DEF Written, SumFunction
<1> HIDE DEF f, g
<1>3. SumFunctionOnSet(g, Workers) = SumFunctionOnSet(f, Workers) + g[w] - f[w]
  BY <1>1, PaymentsAssumption, SumChange
<1>4. SumFunctionOnSet(f, Workers) \in Int /\ f[w] \in Int /\ g[w] \in Int
  BY <1>1, PaymentsAssumption, SumType
<1>5. QED
  BY <1>1, <1>2, <1>3, <1>4

\* The two accounts of each charge, and the processes between the two inserts.
Gap == [c \in Charges |-> Written(cash, c) - Written(receivable, c)]

Between == {w \in Workers : pc[w] = "post_receivable"}

\* A set of processes has as many members as it is counted to have.
LEMMA BetweenCounted ==
  /\ IsFiniteSet(Between) /\ Cardinality(Between) \in Nat
  /\ IsFiniteSet(Between') /\ Cardinality(Between') \in Nat
  /\ \A w \in Workers : Between' = Between \cup {w} /\ w \notin Between =>
       Cardinality(Between') = Cardinality(Between) + 1
  /\ \A w \in Workers : Between' = Between \ {w} /\ w \in Between =>
       Cardinality(Between') = Cardinality(Between) - 1
<1>1. Between \in SUBSET Workers /\ Between' \in SUBSET Workers
  BY DEF Between
<1>2. /\ IsFiniteSet(Between) /\ Cardinality(Between) \in Nat
      /\ IsFiniteSet(Between') /\ Cardinality(Between') \in Nat
  BY <1>1, PaymentsAssumption, SubsetsAreFinite
<1>3. QED
  BY <1>2, FS_AddElement, FS_RemoveElement

\* The gap of a charge is a number.
LEMMA GapType ==
  ASSUME TypeOK
  PROVE  \A d \in Charges :
           /\ Written(cash, d) \in Int /\ Written(receivable, d) \in Int
           /\ Gap[d] \in Int
<1>1. cash \in Counters /\ receivable \in Counters
  BY DEF TypeOK
<1>2. \A d \in Charges : Written(cash, d) \in Int /\ Written(receivable, d) \in Int
  BY <1>1, WrittenType
<1>3. QED
  BY <1>2 DEF Gap

\* The sum of the gaps follows the gap of one charge.
LEMMA GapChange ==
  ASSUME TypeOK, TypeOK', NEW c \in Charges, NEW n \in Int,
         Gap'[c] = Gap[c] + n, \A d \in Charges \ {c} : Gap'[d] = Gap[d]
  PROVE  SumFunction(Gap') = SumFunction(Gap) + n
<1>1. \A d \in Charges : Gap[d] \in Int /\ Gap'[d] \in Int
  <2>1. cash' \in Counters /\ receivable' \in Counters
    BY DEF TypeOK
  <2>2. \A d \in Charges : Written(cash', d) \in Int /\ Written(receivable', d) \in Int
    BY <2>1, WrittenType
  <2>3. QED
    BY <2>2, GapType DEF Gap
<1>2. DOMAIN Gap = Charges /\ DOMAIN Gap' = Charges
  BY DEF Gap
<1> DEFINE g == Gap
           h == Gap'
<1> HIDE DEF g, h
<1>3. SumFunctionOnSet(h, Charges) = SumFunctionOnSet(g, Charges) + h[c] - g[c]
  BY <1>1, PaymentsAssumption, SumChange DEF g, h
<1>4. SumFunctionOnSet(g, Charges) \in Int
  BY <1>1, PaymentsAssumption, SumType DEF g
<1>5. QED
  BY <1>1, <1>2, <1>3, <1>4 DEF SumFunction, g, h

\* A process is between the inserts from the one to the other, and leaves that
\* place otherwise only by dying.
LEMMA BalanceStep ==
  ASSUME TypeOK, TypeOK', [Next]_vars
  PROVE  \E n \in Int :
           /\ SumFunction(Gap') = SumFunction(Gap) + n
           /\ Cardinality(Between') + crashes' >= Cardinality(Between) + crashes + n
<1> USE PaymentsAssumption
<1>0. crashes \in Nat /\ Cardinality(Between) \in Nat /\ SumFunction(Gap) \in Int
  <2>2. SumFunctionOnSet(Gap, Charges) \in Int
    BY GapType, SumType
  <2>3. QED
    BY <2>2, BetweenCounted DEF TypeOK, SumFunction, Gap
<1>1. ASSUME UNCHANGED <<cash, receivable>>
      PROVE  SumFunction(Gap') = SumFunction(Gap)
  BY <1>1 DEF Gap, Written
<1>2. ASSUME UNCHANGED <<cash, receivable, crashes>>, Between' = Between
      PROVE  \E n \in Int :
           /\ SumFunction(Gap') = SumFunction(Gap) + n
           /\ Cardinality(Between') + crashes' >= Cardinality(Between) + crashes + n
  BY <1>0, <1>1, <1>2
<1>3. ASSUME NEW w \in Workers, PostCash(w)
      PROVE  /\ SumFunction(Gap') = SumFunction(Gap) + 1
             /\ Cardinality(Between') = Cardinality(Between) + 1
             /\ crashes' = crashes
  <2>1. /\ job[w] \in Charges /\ cash' = Inserted(cash, job[w], w)
        /\ UNCHANGED receivable
    BY <1>3 DEF PostCash, Goto, TypeOK, Holding
  <2>2. Gap'[job[w]] = Gap[job[w]] + 1
        /\ \A d \in Charges \ {job[w]} : Gap'[d] = Gap[d]
    <3>1. ASSUME NEW d \in Charges
          PROVE  /\ Written(cash, d) \in Int /\ Written(receivable, d) \in Int
                 /\ Written(cash', d) = Written(cash, d) + (IF d = job[w] THEN 1 ELSE 0)
                 /\ Written(receivable', d) = Written(receivable, d)
      <4>1. cash \in Counters /\ receivable \in Counters
        BY DEF TypeOK
      <4>2. QED
        BY <2>1, <4>1, GapType, WrittenInserted
    <3>2. QED
      BY <2>1, <3>1 DEF Gap
  <2>3. Between' = Between \cup {w} /\ w \notin Between
    BY <1>3 DEF PostCash, Goto, TypeOK, Between
  <2>4. SumFunction(Gap') = SumFunction(Gap) + 1
    BY <2>1, <2>2, GapChange
  <2>5. QED
    BY <1>0, <1>3, <2>3, <2>4, BetweenCounted DEF PostCash, bounds
<1>4. ASSUME NEW w \in Workers, PostReceivable(w)
      PROVE  /\ SumFunction(Gap') = SumFunction(Gap) - 1
             /\ Cardinality(Between') = Cardinality(Between) - 1
             /\ crashes' = crashes
  <2>1. /\ job[w] \in Charges /\ receivable' = Inserted(receivable, job[w], w)
        /\ UNCHANGED cash
    BY <1>4 DEF PostReceivable, Goto, TypeOK, Holding
  <2>2. Gap'[job[w]] = Gap[job[w]] + (-1)
        /\ \A d \in Charges \ {job[w]} : Gap'[d] = Gap[d]
    <3>1. ASSUME NEW d \in Charges
          PROVE  /\ Written(cash, d) \in Int /\ Written(receivable, d) \in Int
                 /\ Written(receivable', d)
                      = Written(receivable, d) + (IF d = job[w] THEN 1 ELSE 0)
                 /\ Written(cash', d) = Written(cash, d)
      <4>1. cash \in Counters /\ receivable \in Counters
        BY DEF TypeOK
      <4>2. QED
        BY <2>1, <4>1, GapType, WrittenInserted
    <3>2. QED
      BY <2>1, <3>1 DEF Gap
  <2>3. Between' = Between \ {w} /\ w \in Between
    BY <1>4 DEF PostReceivable, Goto, TypeOK, Between
  <2>4. SumFunction(Gap') = SumFunction(Gap) + (-1)
    BY <2>1, <2>2, GapChange
  <2>5. QED
    BY <1>0, <1>4, <2>3, <2>4, BetweenCounted DEF PostReceivable, bounds
<1>5. ASSUME NEW w \in Workers, Crash(w)
      PROVE  /\ SumFunction(Gap') = SumFunction(Gap)
             /\ crashes' = crashes + 1
             /\ Cardinality(Between') >= Cardinality(Between) - 1
  <2>1. Between' = Between \/ (Between' = Between \ {w} /\ w \in Between)
    BY <1>5 DEF Crash, Leave, TypeOK, Between
  <2>2. QED
    BY <1>0, <1>1, <1>5, <2>1, BetweenCounted DEF Crash, tables
<1>6. ASSUME NEW w \in Workers, Step(w), ~PostCash(w), ~PostReceivable(w)
      PROVE  UNCHANGED <<cash, receivable, crashes>> /\ Between' = Between
  BY <1>6 DEF Step, MarkCharge, MarkInstallment, FindTransaction, CreateTransaction,
     MarkTransaction, ReadCustomer, ReleaseLimit, Enqueue, Dispatch, Goto, Leave,
     tables, bounds, TypeOK, Between
<1>7. ASSUME NEW w \in Workers, NEW c \in Charges, Notify(w, c)
      PROVE  UNCHANGED <<cash, receivable, crashes>> /\ Between' = Between
  BY <1>7 DEF Notify, locals, tables, TypeOK, Between
<1>8. CASE UNCHANGED vars
  BY <1>2, <1>8 DEF vars, tables, locals, bounds, Between
<1>9. ASSUME NEW w \in Workers, PostCash(w) \/ PostReceivable(w) \/ Crash(w)
      PROVE  \E n \in Int :
           /\ SumFunction(Gap') = SumFunction(Gap) + n
           /\ Cardinality(Between') + crashes' >= Cardinality(Between) + crashes + n
  <2>1. CASE PostCash(w)
    BY <1>0, <1>3, <2>1
  <2>2. CASE PostReceivable(w)
    <3>1. /\ SumFunction(Gap') = SumFunction(Gap) + (-1)
          /\ Cardinality(Between') + crashes' >= Cardinality(Between) + crashes + (-1)
      BY <1>0, <1>4, <2>2
    <3>2. QED
      BY <3>1
  <2>3. CASE Crash(w)
    BY <1>0, <1>5, <2>3, BetweenCounted
  <2>4. QED
    BY <1>9, <2>1, <2>2, <2>3
<1>10. QED
  BY <1>2, <1>6, <1>7, <1>8, <1>9 DEF Next

\* Before any notification both accounts are empty.
LEMMA BalancedInit == Init => ImbalanceExplained
<1> SUFFICES ASSUME Init
             PROVE  ImbalanceExplained
  OBVIOUS
<1>1. cash = receivable /\ crashes = 0 /\ cash \in Counters
  BY InitType DEF Init, TypeOK
<1>2. \A d \in Charges : Gap[d] = 0
  BY <1>1, WrittenType DEF Gap
<1>3. SumFunction(Gap) = 0
  BY <1>2, PaymentsAssumption, SumZero DEF SumFunction, Gap
<1>4. SumFunction(Gap) <= Cardinality(Between) + crashes
  BY <1>1, <1>3, BetweenCounted
<1>5. QED
  BY <1>4 DEF ImbalanceExplained, Gap, Between

\* The books balance, for any number of charges and of overlapping requests, but
\* for one entry per process between the two inserts or dead.
THEOREM BooksBalance == Spec => []ImbalanceExplained
<1>1. /\ ImbalanceExplained <=> SumFunction(Gap) <= Cardinality(Between) + crashes
      /\ ImbalanceExplained' <=> SumFunction(Gap') <= Cardinality(Between') + crashes'
  BY DEF ImbalanceExplained, Gap, Between
<1>2. TypeOK /\ TypeOK' /\ ImbalanceExplained /\ [Next]_vars => ImbalanceExplained'
  <2> SUFFICES ASSUME TypeOK, TypeOK', ImbalanceExplained, [Next]_vars
               PROVE  ImbalanceExplained'
    OBVIOUS
  <2>1. PICK n \in Int :
           /\ SumFunction(Gap') = SumFunction(Gap) + n
           /\ Cardinality(Between') + crashes' >= Cardinality(Between) + crashes + n
    BY BalanceStep
  <2>2. /\ SumFunction(Gap) \in Int /\ SumFunction(Gap') \in Int
        /\ Cardinality(Between) \in Nat /\ Cardinality(Between') \in Nat
        /\ crashes \in Nat /\ crashes' \in Nat
    <3>1. SumFunctionOnSet(Gap, Charges) \in Int
      BY GapType, PaymentsAssumption, SumType
    <3>2. SumFunction(Gap) \in Int
      BY <3>1 DEF SumFunction, Gap
    <3>3. QED
      BY <2>1, <3>2, BetweenCounted DEF TypeOK
  <2>3. QED
    BY <1>1, <2>1, <2>2
<1>3. QED
  BY <1>2, BalancedInit, TypeCorrect, PTL DEF Spec

-----------------------------------------------------------------------------
(* Payments implements Booking: every statement of process_payment, every  *)
(* notification and every death of a worker is one step of the protocol or *)
(* leaves it where it is.                                                  *)
\* The tables start with nothing settled and nothing booked.
LEMMA InitImplements == Init => Protocol!Init
<1> SUFFICES ASSUME Init PROVE Protocol!Init
  OBVIOUS
<1>1. PaidCharges = {}
  BY DEF Init, PaidCharges
<1>2. Records = [c \in Charges |-> [p \in Workers |-> [n \in 1..4 |-> 0]]]
  BY DEF Init, Records, Table, Zero
<1>3. QED
  BY <1>1, <1>2 DEF Init, Protocol!Init, Protocol!Chain

\* The records of the protocol change only with the four counters.
LEMMA SameRecords ==
  ASSUME UNCHANGED <<cash, receivable, events, queued>>
  PROVE  Records' = Records
BY DEF Records, Table

RecordTables == [Charges -> [Workers -> [1..4 -> Nat]]]

\* Tables of counters make tables of records.
LEMMA RecordsType ==
  ASSUME NEW a \in Counters, NEW b \in Counters, NEW e \in Counters,
         NEW q \in Counters
  PROVE  Table(a, b, e, q) \in RecordTables
<1>1. ASSUME NEW c \in Charges, NEW w \in Workers
      PROVE  a[c][w] \in Nat /\ b[c][w] \in Nat /\ e[c][w] \in Nat /\ q[c][w] \in Nat
  BY DEF Counters
<1>2. ASSUME NEW c \in Charges, NEW w \in Workers
      PROVE  [n \in 1..4 |-> CASE n = 1 -> a[c][w]
                              [] n = 2 -> b[c][w]
                              [] n = 3 -> e[c][w]
                              [] OTHER -> q[c][w]] \in [1..4 -> Nat]
  BY <1>1
<1>3. QED
  BY <1>2 DEF RecordTables, Table

\* The first row a process inserts for a charge is one record of the protocol.
LEMMA RecordWritten ==
  ASSUME TypeOK, NEW c \in Charges, NEW w \in Workers, NEW n \in 1..4,
         Records[c][w][n] = 0,
         cash' = IF n = 1 THEN Inserted(cash, c, w) ELSE cash,
         receivable' = IF n = 2 THEN Inserted(receivable, c, w) ELSE receivable,
         events' = IF n = 3 THEN Inserted(events, c, w) ELSE events,
         queued' = IF n = 4 THEN Inserted(queued, c, w) ELSE queued
  PROVE  Records' = [Records EXCEPT ![c][w][n] = 1]
<1> DEFINE New == [Records EXCEPT ![c][w][n] = 1]
<1>1. ASSUME NEW d \in Charges, NEW v \in Workers, NEW m \in 1..4
      PROVE  Records'[d][v][m] = New[d][v][m]
  <2>1. /\ n = 1 => cash[c][w] = 0
        /\ n = 2 => receivable[c][w] = 0
        /\ n = 3 => events[c][w] = 0
        /\ n = 4 => queued[c][w] = 0
    BY DEF Records, Table
  <2>2. /\ cash'[d][v] = IF n = 1 /\ d = c /\ v = w THEN 1 ELSE cash[d][v]
        /\ receivable'[d][v] =
             IF n = 2 /\ d = c /\ v = w THEN 1 ELSE receivable[d][v]
        /\ events'[d][v] = IF n = 3 /\ d = c /\ v = w THEN 1 ELSE events[d][v]
        /\ queued'[d][v] = IF n = 4 /\ d = c /\ v = w THEN 1 ELSE queued[d][v]
    BY <2>1, InsertedValue DEF TypeOK
  <2>3. Records'[d][v][m] =
          CASE m = 1 -> cash'[d][v]
            [] m = 2 -> receivable'[d][v]
            [] m = 3 -> events'[d][v]
            [] OTHER -> queued'[d][v]
    BY DEF Records, Table
  <2>4. New[d][v][m] = IF d = c /\ v = w /\ m = n THEN 1 ELSE Records[d][v][m]
    BY DEF Records, Table
  <2>5. QED
    BY <2>2, <2>3, <2>4 DEF Records, Table
<1>2. New \in RecordTables
  <2>1. Records \in RecordTables
    BY RecordsType DEF TypeOK, Records
  <2>2. QED
    BY <2>1 DEF RecordTables
<1>3. Records' \in RecordTables
  <2>1. cash' \in Counters /\ receivable' \in Counters /\ events' \in Counters
        /\ queued' \in Counters
    BY InsertedType DEF TypeOK
  <2>2. QED
    BY <2>1, RecordsType DEF Records
<1>4. ASSUME NEW d \in Charges PROVE Records'[d] = New[d]
  <2>1. ASSUME NEW v \in Workers PROVE Records'[d][v] = New[d][v]
    <3>1. Records'[d][v] \in [1..4 -> Nat] /\ New[d][v] \in [1..4 -> Nat]
      BY <1>2, <1>3 DEF RecordTables
    <3>2. QED
      BY <1>1, <3>1
  <2>2. Records'[d] \in [Workers -> [1..4 -> Nat]]
        /\ New[d] \in [Workers -> [1..4 -> Nat]]
    BY <1>2, <1>3 DEF RecordTables
  <2>3. QED
    BY <2>1, <2>2
<1>5. QED
  BY <1>2, <1>3, <1>4 DEF RecordTables

\* One step of process_payment is one step of the protocol or none.
LEMMA StepImplements ==
  ASSUME PaymentInv, NEW w \in Workers, Step(w)
  PROVE  [Protocol!Next]_(Protocol!state)
<1> USE PaymentsAssumption
<1> DEFINE c == job[w]
<1>1. /\ TypeOK
      /\ Progress(w)
      /\ pc[w] # "idle"
      /\ c \in Charges
      /\ Entries(c, w)
      /\ cash[c][w] \in Nat /\ receivable[c][w] \in Nat
      /\ events[c][w] \in Nat /\ queued[c][w] \in Nat
  <2>1. pc[w] # "idle" /\ TypeOK /\ Progress(w)
    BY EntriesInv DEF Step, MarkCharge, MarkInstallment, FindTransaction,
       CreateTransaction, MarkTransaction, PostCash, PostReceivable,
       ReadCustomer, ReleaseLimit, Enqueue, Dispatch, Goto
  <2>2. c \in Charges
    BY <2>1 DEF TypeOK, Holding
  <2>3. QED
    BY <2>1, <2>2, EntriesInv, CounterNat
<1>2. /\ Records[c][w][1] = cash[c][w] /\ Records[c][w][2] = receivable[c][w]
      /\ Records[c][w][3] = events[c][w] /\ Records[c][w][4] = queued[c][w]
  BY <1>1 DEF Records, Table
<1>3. CASE MarkCharge(w)
  <2>1. UNCHANGED <<job, Records>>
    BY <1>3, SameRecords DEF MarkCharge
  <2>2. PaidCharges' = PaidCharges \cup {c}
    BY <1>1, <1>3 DEF MarkCharge, PaidCharges, TypeOK
  <2>3. Protocol!Settle(w)
    BY <1>1, <2>1, <2>2 DEF Protocol!Settle
  <2>4. QED
    BY <2>3 DEF Protocol!Next
<1>4. CASE \/ MarkInstallment(w) \/ FindTransaction(w) \/ CreateTransaction(w)
           \/ MarkTransaction(w) \/ ReadCustomer(w) \/ ReleaseLimit(w)
  <2>1. UNCHANGED <<job, charge, cash, receivable, events, queued>>
    BY <1>4 DEF MarkInstallment, FindTransaction, CreateTransaction,
       MarkTransaction, ReadCustomer, ReleaseLimit, tables
  <2>2. QED
    BY <2>1, SameRecords DEF Protocol!state, PaidCharges
<1>5. CASE PostCash(w)
  <2>1. cash[c][w] = 0 /\ charge[c] = "paid"
    BY <1>1, <1>5 DEF PostCash, Goto, Progress
  <2>2. Records' = [Records EXCEPT ![c][w][1] = 1]
    BY <1>1, <1>2, <1>5, <2>1, RecordWritten DEF PostCash
  <2>3. UNCHANGED <<job, PaidCharges>>
    BY <1>5 DEF PostCash, PaidCharges
  <2>4. Protocol!Write(w, c, 1)
    BY <1>1, <1>2, <2>1, <2>2, <2>3 DEF Protocol!Write, PaidCharges
  <2>5. QED
    BY <1>1, <2>4 DEF Protocol!Next, Protocol!Chain
<1>6. CASE PostReceivable(w)
  <2>1. cash[c][w] = 1 /\ receivable[c][w] = 0 /\ charge[c] = "paid"
    BY <1>1, <1>6 DEF PostReceivable, Goto, Progress, Entries
  <2>2. Records' = [Records EXCEPT ![c][w][2] = 1]
    BY <1>1, <1>2, <1>6, <2>1, RecordWritten DEF PostReceivable
  <2>3. UNCHANGED <<job, PaidCharges>>
    BY <1>6 DEF PostReceivable, PaidCharges
  <2>4. Protocol!Write(w, c, 2)
    BY <1>1, <1>2, <2>1, <2>2, <2>3 DEF Protocol!Write, PaidCharges
  <2>5. QED
    BY <1>1, <2>4 DEF Protocol!Next, Protocol!Chain
<1>7. CASE Enqueue(w)
  <2>1. /\ cash[c][w] = 1 /\ receivable[c][w] = 1 /\ events[c][w] = 0
        /\ charge[c] = "paid"
    BY <1>1, <1>7 DEF Enqueue, Goto, Progress, Entries
  <2>2. CASE events' = Inserted(events, c, w) /\ UNCHANGED job
    <3>1. Records' = [Records EXCEPT ![c][w][3] = 1]
      BY <1>1, <1>2, <1>7, <2>1, <2>2, RecordWritten DEF Enqueue
    <3>2. UNCHANGED PaidCharges
      BY <1>7 DEF Enqueue, PaidCharges
    <3>3. Protocol!Write(w, c, 3)
      BY <1>1, <1>2, <2>1, <2>2, <3>1, <3>2 DEF Protocol!Write, PaidCharges
    <3>4. QED
      BY <1>1, <3>3 DEF Protocol!Next, Protocol!Chain
  <2>3. CASE Leave(w) /\ UNCHANGED events
    <3>1. UNCHANGED <<PaidCharges, Records>>
      BY <1>7, <2>3, SameRecords DEF Enqueue, PaidCharges
    <3>2. Protocol!GiveUp(w)
      BY <2>3, <3>1 DEF Leave, Protocol!GiveUp
    <3>3. QED
      BY <3>2 DEF Protocol!Next
  <2>4. QED
    BY <1>7, <2>2, <2>3 DEF Enqueue
<1>8. CASE Dispatch(w)
  <2>1. /\ cash[c][w] = 1 /\ receivable[c][w] = 1 /\ events[c][w] = 1
        /\ queued[c][w] = 0 /\ charge[c] = "paid"
    BY <1>1, <1>8 DEF Dispatch, Goto, Progress, Entries
  <2>2. Records' = [Records EXCEPT ![c][w][4] = 1]
    BY <1>1, <1>2, <1>8, <2>1, RecordWritten DEF Dispatch
  <2>3. job' = [job EXCEPT ![w] = NoCharge] /\ UNCHANGED PaidCharges
    BY <1>8 DEF Dispatch, Leave, PaidCharges
  <2>4. Protocol!Write(w, c, 4)
    BY <1>1, <1>2, <2>1, <2>2, <2>3 DEF Protocol!Write, PaidCharges
  <2>5. QED
    BY <1>1, <2>4 DEF Protocol!Next, Protocol!Chain
<1>9. QED
  BY <1>3, <1>4, <1>5, <1>6, <1>7, <1>8 DEF Step

\* Neither a notification nor a death leaves the protocol.
LEMMA NextImplements ==
  PaymentInv /\ [Next]_vars => [Protocol!Next]_(Protocol!state)
<1> SUFFICES ASSUME PaymentInv, [Next]_vars
             PROVE  [Protocol!Next]_(Protocol!state)
  OBVIOUS
<1>1. TypeOK
  BY DEF PaymentInv
<1>2. ASSUME NEW w \in Workers, NEW c \in Charges, Notify(w, c)
      PROVE  [Protocol!Next]_(Protocol!state)
  <2>1. UNCHANGED <<PaidCharges, Records>>
    BY <1>2, SameRecords DEF Notify, tables, PaidCharges
  <2>2. CASE charge[c] \in {"none", "paid"}
    BY <1>2, <2>1, <2>2 DEF Notify, locals, Protocol!state
  <2>3. CASE charge[c] \notin {"none", "paid"}
    <3>1. job[w] = NoCharge /\ c \notin PaidCharges
      BY <1>1, <1>2, <2>3 DEF Notify, TypeOK, Holding, PaidCharges
    <3>2. Protocol!Claim(w, c)
      BY <1>2, <2>1, <2>3, <3>1 DEF Notify, Protocol!Claim
    <3>3. QED
      BY <3>2 DEF Protocol!Next
  <2>4. QED
    BY <2>2, <2>3
<1>3. ASSUME NEW w \in Workers, Crash(w)
      PROVE  [Protocol!Next]_(Protocol!state)
  <2>1. UNCHANGED <<PaidCharges, Records>> /\ job' = [job EXCEPT ![w] = NoCharge]
    BY <1>3, SameRecords DEF Crash, Leave, tables, PaidCharges
  <2>2. QED
    BY <2>1 DEF Protocol!GiveUp, Protocol!Next
<1>4. CASE UNCHANGED vars
  BY <1>4, SameRecords DEF vars, tables, locals, PaidCharges, Protocol!state
<1>5. QED
  BY <1>2, <1>3, <1>4, StepImplements DEF Next

\* process_payment books each payment as the protocol promises: a charge is
\* claimed only while it is open, settled before anything is written, and each
\* process writes its records once and in order, whatever overlaps and dies.
THEOREM PaymentsImplementBooking == Spec => ImplementsBooking
<1>1. QED
  BY InitImplements, NextImplements, PaymentInvAlways, PTL
     DEF Spec, ImplementsBooking, Protocol!Spec
=============================================================================
