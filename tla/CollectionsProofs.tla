-------------------------- MODULE CollectionsProofs --------------------------
(***************************************************************************)
(* Proofs about Collections for every set of installments, customers,      *)
(* charges and web workers, every calendar and every number of crashes.    *)
(***************************************************************************)
EXTENDS Collections, PaymentsProofs, FiniteSetTheorems

\* What a run lists or works on is past due, and a run that is not going on holds neither
\* a list nor a message.
Listed ==
  /\ \A i \in todo : Due[i] < day
  /\ current # NoInstallment => Due[current] < day
  /\ jobpc = "idle" => todo = {} /\ outbox["daily"] = <<>>
  /\ soonpc = "idle" => soon = {} /\ outbox["soon"] = <<>>

CalendarInv == CollectionsTypeOK /\ Listed

-----------------------------------------------------------------------------
\* An active charge is the only one of its installment; between expiring and
\* reissuing there is none, and the charge a run is about to expire is the one.
ChargeInv ==
  /\ \A c, d \in Charges :
       charge[c] = "active" /\ charge[d] = "active" /\ ChargeOf[c] = ChargeOf[d]
         => c = d
  /\ jobpc = "create_qr" => ActiveCharges(current) = {}
  /\ jobpc = "expire" =>
       /\ ChargeOf[found] = current
       /\ ActiveCharges(current) \subseteq {found}

-----------------------------------------------------------------------------
\* The run that sends a reminder.
Sender(event) == IF event = "due" THEN "soon" ELSE "daily"

Tried(m) == notices[m] \in {<<"sent">>, <<"failed">>}

InCall(r, m) == \E n \in 1..Len(outbox[r]) : outbox[r][n] = m

\* The n-th message of a call: sent by the run it belongs to, by an address the
\* customer has, once, and, if it is a reminder, before it has a row.
MessageInv(r, n) ==
  LET m == outbox[r][n]
  IN  /\ Sender(m[2]) = r
      /\ m[2] = outbox[r][1][2]
      /\ \A l \in 1..Len(outbox[r]) : outbox[r][l] = m => l = n
      /\ m[2] # "suspended" =>
           /\ IF n = 1 /\ drafted[r] THEN Len(notices[m]) = 1 ELSE notices[m] = <<>>
           /\ \A channel \in Contacts[m[1]] :
                \/ Tried(<<m[1], m[2], channel>>)
                \/ InCall(r, <<m[1], m[2], channel>>)

\* A reminded customer's messages were tried or are in the call.
Reached(k, event) ==
  HasRecent(k, event) =>
    \A channel \in Contacts[k] :
      \/ Tried(<<k, event, channel>>)
      \/ InCall(Sender(event), <<k, event, channel>>)

MailInv ==
  /\ OneReminderADay
  /\ \A r \in Runs : \A n \in 1..Len(outbox[r]) : MessageInv(r, n)
  /\ crashes = 0 => \A k \in Customers, event \in {"overdue", "due"} : Reached(k, event)

-----------------------------------------------------------------------------
\* Every rule orders a new Pix code, so no late installment is left without.
LEMMA LateIsReissued ==
  ASSUME NEW d \in Nat, d >= 1
  PROVE  "generate_new_qr" \in get_action(d).orders
<1>1. \E r \in DPD_RULES \cup {NoAction} :
        /\ r.from <= d
        /\ \A s \in DPD_RULES : s.from <= d => s.from <= r.from
  <2>1. CASE d < 3
    BY <2>1 DEF DPD_RULES
  <2>2. CASE d >= 3 /\ d < 7
    BY <2>2 DEF DPD_RULES
  <2>3. CASE d >= 7
    BY <2>3 DEF DPD_RULES
  <2>4. QED
    BY <2>1, <2>2, <2>3
<1>2. /\ get_action(d) \in DPD_RULES \cup {NoAction}
      /\ \A s \in DPD_RULES : s.from <= d => s.from <= get_action(d).from
  BY <1>1 DEF get_action
<1>3. get_action(d) # NoAction
  BY <1>2 DEF DPD_RULES, NoAction
<1>4. QED
  BY <1>2, <1>3 DEF DPD_RULES

-----------------------------------------------------------------------------
\* A row of a sequence of statuses can be overwritten.
LEMMA OverwrittenType ==
  ASSUME NEW S, NEW s \in Seq(S), NEW k \in Nat, NEW e \in S
  PROVE  [s EXCEPT ![k] = e] \in Seq(S) /\ Len([s EXCEPT ![k] = e]) = Len(s)
<1>1. CASE k \in 1..Len(s)
  BY <1>1
<1>2. CASE k \notin 1..Len(s)
  <2>1. s = [n \in 1..Len(s) |-> s[n]]
    OBVIOUS
  <2>2. [s EXCEPT ![k] = e] = [n \in 1..Len(s) |-> s[n]]
    BY <1>2
  <2>3. QED
    BY <2>1, <2>2
<1>3. QED
  BY <1>1, <1>2

\* What a notify method sends: to this customer, about this event, each message
\* once, and a reminder by every channel there is an address for.
CallTo(s, k, event) ==
  /\ s \in Seq(Messages)
  /\ \A n \in 1..Len(s) : s[n][1] = k /\ s[n][2] = event
  /\ \A n, l \in 1..Len(s) : s[n] = s[l] => n = l
  /\ event # "suspended" =>
       \A channel \in Contacts[k] : \E n \in 1..Len(s) : s[n] = <<k, event, channel>>

LEMMA MessagesToIs ==
  ASSUME NEW k \in Customers, NEW event \in {"suspended", "overdue", "due"}
  PROVE  CallTo(MessagesTo(k, event), k, event)
<1> SUFFICES ASSUME NEW s, s = MessagesTo(k, event)
             PROVE  CallTo(s, k, event)
  OBVIOUS
<1> DEFINE By(channel) == IF channel \in Contacts[k] THEN << <<k, event, channel>> >> ELSE <<>>
<1>1. s = By("whatsapp") \o (IF event = "suspended" THEN <<>> ELSE By("email"))
  BY DEF MessagesTo
<1>2. /\ <<k, event, "whatsapp">> \in Messages
      /\ <<k, event, "email">> \in Messages
      /\ <<k, event, "whatsapp">> # <<k, event, "email">>
  BY DEF Messages
<1>3. Contacts[k] \subseteq {"whatsapp", "email"}
  BY CollectionsAssumption
<1>4. CASE event = "suspended"
  BY <1>1, <1>2, <1>4 DEF CallTo
<1>5. CASE event # "suspended" /\ "whatsapp" \in Contacts[k] /\ "email" \in Contacts[k]
  <2> DEFINE a == <<k, event, "whatsapp">>
             b == <<k, event, "email">>
  <2>1. s = <<a>> \o <<b>>
    BY <1>1, <1>5
  <2> HIDE DEF a, b
  <2>2. /\ s \in Seq({a, b})
        /\ Len(s) = 2
        /\ s[1] = a
        /\ s[2] = b
    BY <2>1
  <2>3. \A n \in 1..2 : n = 1 \/ n = 2
    OBVIOUS
  <2>4. /\ a \in Messages /\ b \in Messages /\ a # b
        /\ \A m \in {a, b} : m[1] = k /\ m[2] = event
        /\ \A channel \in Contacts[k] : <<k, event, channel>> \in {a, b}
    BY <1>2, <1>3 DEF a, b
  <2>5. s \in Seq(Messages)
    BY <2>2, <2>4
  <2>6. \A n \in 1..Len(s) : s[n][1] = k /\ s[n][2] = event
    BY <2>2, <2>3, <2>4
  <2>7. \A n, l \in 1..Len(s) : s[n] = s[l] => n = l
    BY <2>2, <2>3, <2>4
  <2>8. \A channel \in Contacts[k] : \E n \in 1..Len(s) : s[n] = <<k, event, channel>>
    BY <2>2, <2>4
  <2>9. QED
    BY <2>5, <2>6, <2>7, <2>8 DEF CallTo
<1>6. CASE event # "suspended" /\ "whatsapp" \notin Contacts[k]
  <2>1. s = By("email")
    BY <1>1, <1>2, <1>6
  <2>2. QED
    BY <1>2, <1>3, <1>6, <2>1 DEF CallTo
<1>7. CASE event # "suspended" /\ "email" \notin Contacts[k]
  <2>1. s = By("whatsapp")
    BY <1>1, <1>2, <1>7
  <2>2. QED
    BY <1>2, <1>3, <1>7, <2>1 DEF CallTo
<1>8. QED
  BY <1>4, <1>5, <1>6, <1>7

-----------------------------------------------------------------------------
\* The first morning: nothing is listed and nothing is to be sent.
LEMMA CalendarInit == CollectionsInit => CalendarInv
<1> SUFFICES ASSUME CollectionsInit PROVE CalendarInv
  OBVIOUS
<1>1. TypeOK
  BY InitType DEF CollectionsInit
<1>2. /\ notices \in [Messages -> Seq({"pending", "sent", "failed"})]
      /\ outbox \in [Runs -> Seq(Messages)]
  BY DEF CollectionsInit
<1>3. QED
  BY <1>1, <1>2, CollectionsAssumption
     DEF CollectionsInit, CalendarInv, CollectionsTypeOK, Listed, Runs

\* A statement of the runs that writes one column of the payments' tables keeps
\* the payments well-formed.
LEMMA OtherTablesStay ==
  ASSUME TypeOK,
         UNCHANGED <<txn, cash, receivable, used, events, queued, locals, calls>>,
         inst' \in [Installments -> InstallmentStatus],
         charge' \in [Charges -> PixChargeStatus],
         crashes' \in Nat
  PROVE  TypeOK'
BY DEF TypeOK, Holding, locals

\* Every statement of the two runs, every message, every crash and every step of
\* the payments beside them keeps the rows and the runs' objects well-formed.
LEMMA CalendarNext == CalendarInv /\ [CollectionsNext]_allVars => CalendarInv'
<1> SUFFICES ASSUME CalendarInv, [CollectionsNext]_allVars PROVE CalendarInv'
  OBVIOUS
<1> USE CollectionsAssumption, PaymentsAssumption
<1>a. ASSUME UNCHANGED vars PROVE TypeOK'
  BY <1>a, NextType DEF CalendarInv, CollectionsTypeOK
<1>1. CASE Next /\ UNCHANGED <<collected, mail, day, run, soonRun>>
  <2>1. TypeOK'
    BY <1>1, NextType DEF CalendarInv, CollectionsTypeOK
  <2>2. QED
    BY <1>1, <2>1
       DEF CalendarInv, CollectionsTypeOK, Listed, collected, mail, run, soonRun
<1>2. CASE NextDay
  <2>1. [m \in Messages |-> <<>>] \in [Messages -> Seq({"pending", "sent", "failed"})]
    OBVIOUS
  <2>2. QED
    BY <1>2, <1>a, <2>1
       DEF NextDay, CalendarInv, CollectionsTypeOK, Listed, collected, run, soonRun
<1>3. CASE StartRun
  BY <1>3, <1>a
     DEF StartRun, Move, CalendarInv, CollectionsTypeOK, Listed, collected, mail,
         soonRun
<1>4. ASSUME NEW i \in Installments, MarkOverdue(i) PROVE CalendarInv'
  <2>1. inst' \in [Installments -> InstallmentStatus] /\ day - Due[i] \in Nat
    BY <1>4
       DEF MarkOverdue, CalendarInv, CollectionsTypeOK, Listed, TypeOK,
           InstallmentStatus
  <2>2. TypeOK'
    BY <1>4, <2>1, OtherTablesStay
       DEF MarkOverdue, CalendarInv, CollectionsTypeOK, TypeOK, bounds
  <2>3. QED
    BY <1>4, <2>1, <2>2
       DEF MarkOverdue, Move, CalendarInv, CollectionsTypeOK, Listed, mail, soonRun
<1>5. CASE Suspend
  <2>1. MessagesTo(CustomerOf[current], "suspended") \in Seq(Messages)
    BY <1>5, MessagesToIs DEF CallTo, Suspend, Move, CalendarInv, CollectionsTypeOK
  <2>2. outbox' \in [Runs -> Seq(Messages)] /\ outbox'["soon"] = outbox["soon"]
    BY <1>5, <2>1 DEF Suspend, Tell, Runs, CalendarInv, CollectionsTypeOK
  <2>3. QED
    BY <1>5, <1>a, <2>2
       DEF Suspend, Move, CalendarInv, CollectionsTypeOK, Listed, soonRun, Runs
<1>6. CASE Remind
  <2>a. /\ jobpc = "check_recent"
        /\ outbox["daily"] = <<>>
        /\ current \in Installments
        /\ Due[current] < day
    BY <1>6 DEF Remind, GoOn, Move, CalendarInv, CollectionsTypeOK, Listed
  <2>b. \/ jobpc' = "find_active" /\ current' = current
        \/ jobpc' = "next" /\ current' = NoInstallment
    BY <1>6 DEF Remind, GoOn, Move
  <2>1. MessagesTo(CustomerOf[current], "overdue") \in Seq(Messages)
    BY <2>a, MessagesToIs DEF CallTo, CollectionsTypeOK
  <2>2. outbox' \in [Runs -> Seq(Messages)] /\ outbox'["soon"] = outbox["soon"]
    BY <1>6, <2>1 DEF Remind, Tell, Runs, CalendarInv, CollectionsTypeOK
  <2>3. QED
    BY <1>6, <1>a, <2>a, <2>b, <2>2
       DEF Remind, CalendarInv, CollectionsTypeOK, Listed, collected, soonRun, Runs
<1>7. CASE FindActive
  BY <1>7, <1>a
     DEF FindActive, ActiveCharges, Move, CalendarInv, CollectionsTypeOK, Listed, collected, mail, soonRun
<1>8. CASE ExpireCharge
  <2>1. TypeOK'
    BY <1>8, OtherTablesStay
       DEF ExpireCharge, CalendarInv, CollectionsTypeOK, TypeOK, PixChargeStatus, bounds
  <2>2. QED
    BY <1>8, <2>1
       DEF ExpireCharge, Move, CalendarInv, CollectionsTypeOK, Listed, collected, mail, soonRun
<1>9. CASE CreateQr
  <2>1. PICK c \in Charges : charge' = [charge EXCEPT ![c] = "active"]
    BY <1>9 DEF CreateQr, FreshQr
  <2>2. TypeOK'
    BY <1>9, <2>1, OtherTablesStay
       DEF CreateQr, CalendarInv, CollectionsTypeOK, TypeOK, PixChargeStatus, bounds
  <2>3. QED
    BY <1>9, <2>2
       DEF CreateQr, Move, CalendarInv, CollectionsTypeOK, Listed, collected, mail, soonRun
<1>10. CASE FinishRun
  BY <1>10, <1>a
     DEF FinishRun, EndRun, Move, CalendarInv, CollectionsTypeOK, Listed, collected, mail, soonRun
<1>11. CASE CrashRun
  <2>1. TypeOK'
    <3>1. UNCHANGED <<inst, charge, txn, cash, receivable, used, events, queued, locals, calls>>
      BY <1>11 DEF CrashRun, tables
    <3>2. /\ inst' \in [Installments -> InstallmentStatus]
          /\ charge' \in [Charges -> PixChargeStatus]
          /\ crashes' \in Nat
      BY <1>11, <3>1 DEF CrashRun, CalendarInv, CollectionsTypeOK, TypeOK
    <3>3. QED
      BY <3>1, <3>2, OtherTablesStay DEF CalendarInv, CollectionsTypeOK
  <2>2. outbox' = [outbox EXCEPT !["daily"] = <<>>] /\ outbox' \in [Runs -> Seq(Messages)]
    BY <1>11 DEF CrashRun, Hush, Runs, CalendarInv, CollectionsTypeOK
  <2>3. QED
    BY <1>11, <2>1, <2>2
       DEF CrashRun, EndRun, Hush, CalendarInv, CollectionsTypeOK, Listed, collected, soonRun, Runs
<1>12. ASSUME NEW r \in Runs, CreateNotice(r) PROVE CalendarInv'
  <2>1. Head(outbox[r]) \in Messages
    BY <1>12 DEF CreateNotice, CalendarInv, CollectionsTypeOK
  <2>2. notices' \in [Messages -> Seq({"pending", "sent", "failed"})]
    BY <1>12, <2>1 DEF CreateNotice, CalendarInv, CollectionsTypeOK
  <2>3. QED
    BY <1>12, <1>a, <2>2
       DEF CreateNotice, CalendarInv, CollectionsTypeOK, Listed, collected, run, soonRun
<1>13. ASSUME NEW r \in Runs, SendNotice(r) PROVE CalendarInv'
  <2> DEFINE m == Head(outbox[r])
  <2>1. outbox[r] # <<>> /\ m \in Messages /\ Tail(outbox[r]) \in Seq(Messages)
    BY <1>13 DEF SendNotice, CalendarInv, CollectionsTypeOK
  <2>2. PICK outcome \in {"sent", "failed"} :
          notices' = [notices EXCEPT ![m][Len(notices[m])] = outcome]
    BY <1>13 DEF SendNotice
  <2>3. /\ notices[m] \in Seq({"pending", "sent", "failed"})
        /\ Len(notices[m]) \in Nat
        /\ outcome \in {"pending", "sent", "failed"}
    BY <2>1 DEF CalendarInv, CollectionsTypeOK
  <2>4. [notices[m] EXCEPT ![Len(notices[m])] = outcome] \in Seq({"pending", "sent", "failed"})
    BY <2>3, OverwrittenType
  <2>5. notices' \in [Messages -> Seq({"pending", "sent", "failed"})]
    BY <2>1, <2>2, <2>4 DEF CalendarInv, CollectionsTypeOK
  <2>6. /\ outbox' \in [Runs -> Seq(Messages)]
        /\ \A q \in Runs : outbox[q] = <<>> => outbox'[q] = <<>>
    BY <1>13, <2>1 DEF SendNotice, CalendarInv, CollectionsTypeOK
  <2>7. drafted' \in [Runs -> BOOLEAN]
        /\ \A q \in Runs : drafted'[q] => drafted[q] /\ outbox'[q] = outbox[q]
    BY <1>13 DEF SendNotice, CalendarInv, CollectionsTypeOK
  <2>8. QED
    BY <1>13, <1>a, <2>5, <2>6, <2>7
       DEF SendNotice, CalendarInv, CollectionsTypeOK, Listed, collected, run, soonRun, Runs
<1>14. CASE StartSoonRun
  BY <1>14, <1>a
     DEF StartSoonRun, CalendarInv, CollectionsTypeOK, Listed, collected, mail, run
<1>15. ASSUME NEW i \in Installments, RemindDueSoon(i) PROVE CalendarInv'
  <2>1. MessagesTo(CustomerOf[i], "due") \in Seq(Messages)
    BY MessagesToIs DEF CallTo
  <2>2. outbox' \in [Runs -> Seq(Messages)] /\ outbox'["daily"] = outbox["daily"]
    BY <1>15, <2>1 DEF RemindDueSoon, Tell, Runs, CalendarInv, CollectionsTypeOK
  <2>3. QED
    BY <1>15, <1>a, <2>2
       DEF RemindDueSoon, CalendarInv, CollectionsTypeOK, Listed, collected, run, Runs
<1>16. CASE FinishSoonRun
  BY <1>16, <1>a
     DEF FinishSoonRun, CalendarInv, CollectionsTypeOK, Listed, collected, mail, run
<1>17. CASE CrashSoonRun
  <2>1. TypeOK'
    <3>1. UNCHANGED <<inst, charge, txn, cash, receivable, used, events, queued, locals, calls>>
      BY <1>17 DEF CrashSoonRun, tables
    <3>2. /\ inst' \in [Installments -> InstallmentStatus]
          /\ charge' \in [Charges -> PixChargeStatus]
          /\ crashes' \in Nat
      BY <1>17, <3>1 DEF CrashSoonRun, CalendarInv, CollectionsTypeOK, TypeOK
    <3>3. QED
      BY <3>1, <3>2, OtherTablesStay DEF CalendarInv, CollectionsTypeOK
  <2>2. outbox' = [outbox EXCEPT !["soon"] = <<>>] /\ outbox' \in [Runs -> Seq(Messages)]
    BY <1>17 DEF CrashSoonRun, Hush, Runs, CalendarInv, CollectionsTypeOK
  <2>3. QED
    BY <1>17, <2>1, <2>2
       DEF CrashSoonRun, Hush, CalendarInv, CollectionsTypeOK, Listed, collected, run, Runs
<1>18. CASE UNCHANGED allVars
  BY <1>18, <1>a
     DEF allVars, CalendarInv, CollectionsTypeOK, Listed, collected, mail, run, soonRun
<1>19. QED
  BY <1>1, <1>2, <1>3, <1>4, <1>5, <1>6, <1>7, <1>8, <1>9, <1>10, <1>11, <1>12, <1>13,
     <1>14, <1>15, <1>16, <1>17, <1>18 DEF CollectionsNext, RunStep, SoonRunStep

LEMMA CalendarAlways == CollectionsSpec => []CalendarInv
<1>1. CollectionsInit => CalendarInv
  BY CalendarInit
<1>2. CalendarInv /\ [CollectionsNext]_allVars => CalendarInv'
  BY CalendarNext
<1>3. QED
  BY <1>1, <1>2, PTL DEF CollectionsSpec

\* The rows, the list of a run and its call in hand are well-formed whatever runs,
\* payments and crashes interleave (collections/services.py 32-122).
THEOREM RunsTypeCorrect == CollectionsSpec => []CollectionsTypeOK
<1>1. CalendarInv => CollectionsTypeOK
  BY DEF CalendarInv
<1>2. QED
  BY <1>1, CalendarAlways, PTL

-----------------------------------------------------------------------------
\* What process_payment does to the rows the runs share with it: charges and
\* installments become PAID and nothing else.
LEMMA PaymentsOnlyPay ==
  ASSUME TypeOK, Next
  PROVE  /\ \A c \in Charges : charge'[c] \in {charge[c], "paid"}
         /\ \A i \in Installments : inst'[i] \in {inst[i], "paid"}
         /\ crashes' = 0 => crashes = 0
<1> USE PaymentsAssumption
<1>1. PICK w \in Workers : (\E c \in Charges : Notify(w, c)) \/ Step(w) \/ Crash(w)
  BY DEF Next
<1>2. CASE \E c \in Charges : Notify(w, c)
  BY <1>2 DEF Notify, tables
<1>3. CASE MarkCharge(w)
  BY <1>3 DEF MarkCharge, TypeOK, bounds
<1>4. CASE MarkInstallment(w)
  BY <1>4 DEF MarkInstallment, TypeOK, bounds
<1>5. CASE FindTransaction(w) \/ ReadCustomer(w)
  BY <1>5 DEF FindTransaction, ReadCustomer, tables, bounds
<1>6. CASE CreateTransaction(w) \/ MarkTransaction(w) \/ PostCash(w) \/ PostReceivable(w)
  BY <1>6 DEF CreateTransaction, MarkTransaction, PostCash, PostReceivable, bounds
<1>7. CASE ReleaseLimit(w) \/ Enqueue(w) \/ Dispatch(w)
  BY <1>7 DEF ReleaseLimit, Enqueue, Dispatch, bounds
<1>8. CASE Crash(w)
  BY <1>8 DEF Crash, tables, TypeOK
<1>9. QED
  BY <1>1, <1>2, <1>3, <1>4, <1>5, <1>6, <1>7, <1>8 DEF Step

\* The plan and earlier runs left one active charge per installment at most.
LEMMA ChargeInit == CollectionsInit => ChargeInv /\ OverdueIsPayable
<1> SUFFICES ASSUME CollectionsInit PROVE ChargeInv /\ OverdueIsPayable
  OBVIOUS
<1> USE PaymentsAssumption
<1>1. ASSUME NEW c \in Charges, NEW d \in Charges,
             charge[c] = "active", charge[d] = "active", ChargeOf[c] = ChargeOf[d]
      PROVE  c = d
  <2>1. ASSUME NEW b \in Charges, charge[b] = "active"
        PROVE  b \in Reissued \/ (b \in PlanCharges /\ ChargeOf[b] \notin Replaced)
    BY <2>1 DEF CollectionsInit, Init
  <2>2. {c, d} \subseteq Reissued \/ {c, d} \subseteq PlanCharges
    BY <1>1, <2>1 DEF Replaced
  <2>3. QED
    BY <1>1, <2>2, OneChargeAtStart
<1>2. OverdueIsPayable
  <2> SUFFICES ASSUME NEW i \in Installments, inst[i] = "overdue"
               PROVE  \E c \in Charges : ChargeOf[c] = i /\ charge[c] \in {"active", "paid"}
    BY DEF OverdueIsPayable
  <2>1. PICK c \in Reissued : ChargeOf[c] = i
    BY DEF CollectionsInit, Init, Replaced
  <2>2. QED
    BY <2>1 DEF CollectionsInit, Init
<1>3. QED
  BY <1>1, <1>2 DEF CollectionsInit, ChargeInv

\* A step that neither makes a charge active nor is one of the reissue.
LEMMA ChargesRest ==
  ASSUME ChargeInv,
         \A c \in Charges : charge'[c] = "active" => charge[c] = "active",
         UNCHANGED <<jobpc, current, found>>
         \/ jobpc' \notin {"expire", "create_qr"}
  PROVE  ChargeInv'
BY DEF ChargeInv, ActiveCharges

\* _refresh_qr retires before it inserts, and what payments do meanwhile only
\* takes charges out of the active ones.
LEMMA ChargeNext ==
  CalendarInv /\ ChargeInv /\ [CollectionsNext]_allVars => ChargeInv'
<1> SUFFICES ASSUME CalendarInv, ChargeInv, [CollectionsNext]_allVars PROVE ChargeInv'
  OBVIOUS
<1> USE PaymentsAssumption
<1>1. CASE Next /\ UNCHANGED <<collected, mail, day, run, soonRun>>
  BY <1>1, PaymentsOnlyPay, ChargesRest DEF CalendarInv, CollectionsTypeOK, run
<1>2. CASE NextDay \/ StartSoonRun \/ FinishSoonRun \/ UNCHANGED allVars
  BY <1>2, ChargesRest
     DEF NextDay, StartSoonRun, FinishSoonRun, allVars, vars, tables, run
<1>3. CASE StartRun \/ Suspend \/ Remind \/ FinishRun
  BY <1>3, ChargesRest
     DEF StartRun, Suspend, Remind, FinishRun, EndRun, GoOn, Move, vars, tables
<1>4. CASE CrashRun \/ CrashSoonRun
  BY <1>4, ChargesRest DEF CrashRun, CrashSoonRun, EndRun, tables, run
<1>5. ASSUME NEW i \in Installments, MarkOverdue(i) \/ RemindDueSoon(i) PROVE ChargeInv'
  BY <1>5, ChargesRest DEF MarkOverdue, RemindDueSoon, Move, vars, tables, run
<1>6. ASSUME NEW r \in Runs, CreateNotice(r) \/ SendNotice(r) PROVE ChargeInv'
  BY <1>6, ChargesRest DEF CreateNotice, SendNotice, vars, tables, run
<1>7. CASE FindActive
  BY <1>7 DEF FindActive, Move, ActiveCharges, ChargeInv, vars, tables
<1>8. CASE ExpireCharge
  BY <1>8
     DEF ExpireCharge, Move, ActiveCharges, ChargeInv, CalendarInv, CollectionsTypeOK,
         TypeOK
<1>9. CASE CreateQr
  <2>1. PICK c \in Charges :
          ChargeOf[c] = current /\ charge' = [charge EXCEPT ![c] = "active"]
    BY <1>9 DEF CreateQr, FreshQr
  <2>2. QED
    BY <1>9, <2>1
       DEF CreateQr, Move, ActiveCharges, ChargeInv, CalendarInv, CollectionsTypeOK,
           TypeOK
<1>10. QED
  BY <1>1, <1>2, <1>3, <1>4, <1>5, <1>6, <1>7, <1>8, <1>9
     DEF CollectionsNext, RunStep, SoonRunStep

\* The reissue of a charge is over when the run leaves the installment, and only
\* its own installment's charge is retired before.
LEMMA PayableNext ==
  CalendarInv /\ ChargeInv /\ OverdueIsPayable /\ [CollectionsNext]_allVars
    => OverdueIsPayable'
<1> SUFFICES ASSUME CalendarInv, ChargeInv, OverdueIsPayable, [CollectionsNext]_allVars,
                    NEW i \in Installments,
                    inst'[i] = "overdue", current' # i, crashes' = 0
             PROVE  \E c \in Charges : ChargeOf[c] = i /\ charge'[c] \in {"active", "paid"}
  BY DEF OverdueIsPayable
<1> USE PaymentsAssumption
<1>a. ASSUME inst[i] = "overdue", current # i, crashes = 0,
             \A c \in Charges : ChargeOf[c] = i => charge'[c] \in {charge[c], "paid"}
      PROVE  \E c \in Charges : ChargeOf[c] = i /\ charge'[c] \in {"active", "paid"}
  BY <1>a DEF OverdueIsPayable
<1>1. CASE Next /\ UNCHANGED <<collected, mail, day, run, soonRun>>
  BY <1>1, <1>a, PaymentsOnlyPay DEF CalendarInv, CollectionsTypeOK, run
<1>2. CASE NextDay \/ StartSoonRun \/ FinishSoonRun \/ UNCHANGED allVars
  BY <1>2, <1>a
     DEF NextDay, StartSoonRun, FinishSoonRun, allVars, vars, tables, run, bounds
<1>3. CASE StartRun \/ Suspend
  BY <1>3, <1>a DEF StartRun, Suspend, vars, tables, bounds
<1>4. CASE Remind
  <2>1. /\ current \in Installments
        /\ day - Due[current] \in Nat
        /\ day - Due[current] >= 1
    BY <1>4, CollectionsAssumption
       DEF Remind, GoOn, Move, CalendarInv, CollectionsTypeOK, Listed
  <2>2. "generate_new_qr" \in Orders(current)
    BY <2>1, LateIsReissued DEF Orders
  <2>3. current' = current
    BY <1>4, <2>2 DEF Remind, GoOn
  <2>4. QED
    BY <1>4, <1>a, <2>3 DEF Remind, vars, tables, bounds
<1>5. CASE FinishRun
  BY <1>5, <1>a, CollectionsAssumption
     DEF FinishRun, Move, CalendarInv, CollectionsTypeOK, vars, tables, bounds
<1>6. CASE CrashRun \/ CrashSoonRun
  BY <1>6 DEF CrashRun, CrashSoonRun, CalendarInv, CollectionsTypeOK, TypeOK
<1>7. ASSUME NEW j \in Installments, MarkOverdue(j)
      PROVE  \E c \in Charges : ChargeOf[c] = i /\ charge'[c] \in {"active", "paid"}
  BY <1>7, <1>a, CollectionsAssumption
     DEF MarkOverdue, Move, CalendarInv, CollectionsTypeOK, TypeOK, bounds
<1>8. ASSUME NEW j \in Installments, RemindDueSoon(j)
      PROVE  \E c \in Charges : ChargeOf[c] = i /\ charge'[c] \in {"active", "paid"}
  BY <1>8, <1>a DEF RemindDueSoon, vars, tables, run, bounds
<1>9. ASSUME NEW r \in Runs, CreateNotice(r) \/ SendNotice(r)
      PROVE  \E c \in Charges : ChargeOf[c] = i /\ charge'[c] \in {"active", "paid"}
  BY <1>9, <1>a DEF CreateNotice, SendNotice, vars, tables, run, bounds
<1>10. CASE FindActive
  BY <1>10, <1>a DEF FindActive, vars, tables, bounds
<1>11. CASE ExpireCharge
  BY <1>11, <1>a
     DEF ExpireCharge, Move, ChargeInv, CalendarInv, CollectionsTypeOK, TypeOK, bounds
<1>12. CASE CreateQr
  <2>1. PICK c \in Charges :
          /\ ChargeOf[c] = current /\ charge[c] = "none"
          /\ charge' = [charge EXCEPT ![c] = "active"]
    BY <1>12 DEF CreateQr, FreshQr
  <2>2. CASE current = i
    BY <2>1, <2>2 DEF CalendarInv, CollectionsTypeOK, TypeOK
  <2>3. CASE current # i
    BY <1>12, <1>a, <2>1, <2>3
       DEF CreateQr, CalendarInv, CollectionsTypeOK, TypeOK, bounds
  <2>4. QED
    BY <2>2, <2>3
<1>13. QED
  BY <1>1, <1>2, <1>3, <1>4, <1>5, <1>6, <1>7, <1>8, <1>9, <1>10, <1>11, <1>12
     DEF CollectionsNext, RunStep, SoonRunStep

LEMMA ChargeAlways == CollectionsSpec => [](ChargeInv /\ OverdueIsPayable)
<1>1. CollectionsInit => ChargeInv /\ OverdueIsPayable
  BY ChargeInit
<1>2. CalendarInv /\ (ChargeInv /\ OverdueIsPayable) /\ [CollectionsNext]_allVars
        => (ChargeInv /\ OverdueIsPayable)'
  BY ChargeNext, PayableNext
<1>3. QED
  BY <1>1, <1>2, CalendarAlways, PTL DEF CollectionsSpec

\* An installment never has two ACTIVE charges, however payments, reissues, crashes
\* and repeated runs interleave (collections/services.py 100-122).
THEOREM OneCodeToPay == CollectionsSpec => []OneActiveCharge
<1>1. ChargeInv => OneActiveCharge
  <2> SUFFICES ASSUME ChargeInv, NEW i \in Installments
               PROVE  Cardinality(ActiveCharges(i)) <= 1
    BY DEF OneActiveCharge
  <2>1. CASE ActiveCharges(i) = {}
    BY <2>1, FS_EmptySet
  <2>2. CASE ActiveCharges(i) # {}
    <3>1. PICK c \in ActiveCharges(i) : TRUE
      BY <2>2
    <3>2. ActiveCharges(i) = {c}
      BY <3>1 DEF ChargeInv, ActiveCharges
    <3>3. Cardinality({c}) = 1
      BY FS_Singleton
    <3>4. QED
      BY <3>2, <3>3
  <2>3. QED
    BY <2>1, <2>2
<1>2. QED
  BY <1>1, ChargeAlways, PTL

\* Unless a process died, whoever is overdue finds a charge to pay or has paid, but
\* for the installment a run is working on (collections/services.py 43-72).
THEOREM OverdueFindsCode == CollectionsSpec => []OverdueIsPayable
BY ChargeAlways, PTL

\* Only a run that read the installment as pending before the payment un-pays it: a
\* PAID installment on no such list stays PAID (collections/services.py 38-45).
THEOREM PaymentsStay == CollectionsSpec => PaidStaysPaid
<1>1. CalendarInv /\ [CollectionsNext]_allVars
        => [\A i \in Installments : PaidForGood(i) => PaidForGood(i)']_allVars
  <2> SUFFICES ASSUME CalendarInv, CollectionsNext, NEW i \in Installments, PaidForGood(i)
               PROVE  PaidForGood(i)'
    BY DEF PaidForGood, allVars, run
  <2>1. CASE Next /\ UNCHANGED <<collected, mail, day, run, soonRun>>
    BY <2>1, PaymentsOnlyPay DEF PaidForGood, CalendarInv, CollectionsTypeOK, run
  <2>2. CASE NextDay \/ StartSoonRun \/ FinishSoonRun
    BY <2>2 DEF NextDay, StartSoonRun, FinishSoonRun, PaidForGood, vars, tables, run
  <2>3. CASE StartRun \/ Suspend \/ Remind \/ FindActive \/ FinishRun
    BY <2>3
       DEF StartRun, Suspend, Remind, FindActive, FinishRun, EndRun, PaidForGood, vars, tables
  <2>4. CASE CrashRun \/ CrashSoonRun
    BY <2>4 DEF CrashRun, CrashSoonRun, EndRun, PaidForGood, tables, run
  <2>5. CASE ExpireCharge \/ CreateQr
    BY <2>5 DEF ExpireCharge, CreateQr, PaidForGood
  <2>6. ASSUME NEW j \in Installments, MarkOverdue(j) PROVE PaidForGood(i)'
    BY <2>6 DEF MarkOverdue, PaidForGood, CalendarInv, CollectionsTypeOK, TypeOK
  <2>7. ASSUME NEW j \in Installments, RemindDueSoon(j) PROVE PaidForGood(i)'
    BY <2>7 DEF RemindDueSoon, PaidForGood, vars, tables, run
  <2>8. ASSUME NEW r \in Runs, CreateNotice(r) \/ SendNotice(r) PROVE PaidForGood(i)'
    BY <2>8 DEF CreateNotice, SendNotice, PaidForGood, vars, tables, run
  <2>9. QED
    BY <2>1, <2>2, <2>3, <2>4, <2>5, <2>6, <2>7, <2>8
       DEF CollectionsNext, RunStep, SoonRunStep
<1>2. QED
  BY <1>1, CalendarAlways, PTL DEF CollectionsSpec, PaidStaysPaid

-----------------------------------------------------------------------------
\* The first morning has no notice.
LEMMA MailInit == CollectionsInit => MailInv
<1> SUFFICES ASSUME CollectionsInit PROVE MailInv
  OBVIOUS
<1>1. \A k \in Customers, event \in {"overdue", "due"}, channel \in {"whatsapp", "email"} :
        <<k, event, channel>> \in Messages
  BY DEF Messages
<1>2. QED
  BY <1>1 DEF CollectionsInit, MailInv, OneReminderADay, Reached, HasRecent

\* Steps that send nothing, and the morning.
LEMMA MailRests ==
  ASSUME MailInv, UNCHANGED mail, crashes' = 0 => crashes = 0
  PROVE  MailInv'
<1>1. UNCHANGED <<notices, outbox, drafted>>
  BY DEF mail
<1>2. \A r \in Runs : \A n \in 1..Len(outbox[r]) : MessageInv(r, n) => MessageInv(r, n)'
  <2> SUFFICES ASSUME NEW r \in Runs, NEW n \in 1..Len(outbox[r]), MessageInv(r, n)
               PROVE  MessageInv(r, n)'
    OBVIOUS
  <2>1. \A m : (Tried(m) => Tried(m)') /\ (InCall(r, m) => InCall(r, m)')
    BY <1>1 DEF Tried, InCall
  <2>2. QED
    BY <1>1, <2>1 DEF MessageInv
<1>3. \A k \in Customers, event \in {"overdue", "due"} : Reached(k, event) => Reached(k, event)'
  BY <1>1 DEF Reached, HasRecent, Tried, InCall
<1>4. QED
  BY <1>1, <1>2, <1>3 DEF MailInv, OneReminderADay

LEMMA MailOfNextDay ==
  ASSUME CalendarInv, NextDay
  PROVE  MailInv'
<1>1. \A k \in Customers, event \in {"overdue", "due"}, channel \in {"whatsapp", "email"} :
        <<k, event, channel>> \in Messages
  BY DEF Messages
<1>2. \A r \in Runs : outbox'[r] = <<>>
  BY DEF NextDay, CalendarInv, Listed, Runs
<1>3. QED
  BY <1>1, <1>2 DEF NextDay, MailInv, OneReminderADay, Reached, HasRecent

\* A run that dies forgets what it had not sent; the other goes on.
LEMMA MailOfCrash ==
  ASSUME CollectionsTypeOK, MailInv, NEW r \in Runs, Hush(r), UNCHANGED notices, crashes' # 0
  PROVE  MailInv'
<1>1. \A q \in Runs :
        IF q = r THEN outbox'[q] = <<>>
                 ELSE outbox'[q] = outbox[q] /\ drafted'[q] = drafted[q]
  BY DEF Hush, CollectionsTypeOK
<1>2. ASSUME NEW q \in Runs, NEW n \in 1..Len(outbox'[q]) PROVE MessageInv(q, n)'
  <2>1. q # r /\ outbox'[q] = outbox[q] /\ drafted'[q] = drafted[q]
    BY <1>1, <1>2
  <2>2. MessageInv(q, n)
    BY <2>1, <1>2 DEF MailInv
  <2>3. QED
    BY <2>1, <2>2 DEF MessageInv, Tried, InCall
<1>3. QED
  BY <1>2 DEF MailInv, OneReminderADay

\* A customer's address is one of the channels.
LEMMA AddressedMessage ==
  ASSUME NEW k \in Customers, NEW event \in {"suspended", "overdue", "due"},
         NEW channel \in Contacts[k]
  PROVE  <<k, event, channel>> \in Messages /\ channel \in {"whatsapp", "email"}
BY CollectionsAssumption DEF Messages

\* A notify call starts with an empty outbox and, for a reminder, only if none of
\* this morning has a row.
LEMMA MailOfTell ==
  ASSUME CollectionsTypeOK, MailInv,
         NEW r \in Runs, NEW k \in Customers, NEW event \in {"suspended", "overdue", "due"},
         Sender(event) = r, outbox[r] = <<>>, Tell(r, k, event),
         UNCHANGED <<notices, drafted, crashes>>,
         event # "suspended" => ~HasRecent(k, event)
  PROVE  MailInv'
<1> DEFINE s == MessagesTo(k, event)
<1> HIDE DEF s
<1>1. /\ \A q \in Runs : outbox'[q] = IF q = r THEN s ELSE outbox[q]
      /\ ~drafted[r]
  BY DEF Tell, CollectionsTypeOK, s
<1>2. CallTo(s, k, event)
  BY MessagesToIs DEF s
<1>3. ASSUME NEW q \in Runs, NEW n \in 1..Len(outbox'[q]) PROVE MessageInv(q, n)'
  <2>1. CASE q = r
    <3>1. outbox'[q] = s /\ n \in 1..Len(s) /\ 1 \in 1..Len(s) /\ s[n] \in Messages
      BY <1>1, <1>2, <1>3, <2>1 DEF CallTo
    <3>2. s[n][2] = event /\ s[1][2] = event /\ s[n][1] = k
      BY <1>2, <3>1 DEF CallTo
    <3>3. event # "suspended" => notices[s[n]] = <<>>
      <4>1. s[n] = <<k, event, s[n][3]>> /\ s[n][3] \in {"whatsapp", "email"}
        BY <3>1, <3>2 DEF Messages
      <4>2. QED
        BY <4>1 DEF HasRecent
    <3>4. event # "suspended" =>
            \A channel \in Contacts[k] : InCall(r, <<k, event, channel>>)'
      BY <1>1, <1>2, <2>1, <3>1 DEF CallTo, InCall
    <3>5. \A l \in 1..Len(s) : s[l] = s[n] => l = n
      BY <1>2, <3>1 DEF CallTo
    <3>6. QED
      BY <1>1, <2>1, <3>1, <3>2, <3>3, <3>4, <3>5 DEF MessageInv
  <2>2. CASE q # r
    <3>1. outbox'[q] = outbox[q] /\ MessageInv(q, n)
      BY <1>1, <1>3, <2>2 DEF MailInv
    <3>2. QED
      BY <3>1 DEF MessageInv, Tried, InCall
  <2>3. QED
    BY <2>1, <2>2
<1>4. ASSUME NEW j \in Customers, NEW e \in {"overdue", "due"}, Reached(j, e)
      PROVE  Reached(j, e)'
  <2>1. Sender(e) \in Runs
    BY DEF Sender, Runs
  <2>2. \A m : InCall(Sender(e), m) => InCall(Sender(e), m)'
    BY <1>1, <2>1 DEF InCall
  <2>3. QED
    BY <1>4, <2>2 DEF Reached, HasRecent, Tried
<1>5. QED
  BY <1>3, <1>4 DEF MailInv, OneReminderADay

\* The row of the next message: only now, and only once if it is a reminder.
LEMMA MailOfCreateNotice ==
  ASSUME CollectionsTypeOK, MailInv, NEW r \in Runs, CreateNotice(r)
  PROVE  MailInv'
<1> DEFINE m == outbox[r][1]
<1> HIDE DEF m
<1>1. /\ outbox[r] \in Seq(Messages) /\ 1 \in 1..Len(outbox[r])
      /\ m \in Messages
      /\ m = Head(outbox[r])
  BY DEF CreateNotice, CollectionsTypeOK, m
<1>2. /\ \A x \in Messages :
           notices'[x] = IF x = m THEN Append(notices[m], "pending") ELSE notices[x]
      /\ notices[m] \in Seq({"pending", "sent", "failed"})
      /\ \A q \in Runs : drafted'[q] = IF q = r THEN TRUE ELSE drafted[q]
      /\ ~drafted[r]
      /\ UNCHANGED <<outbox, crashes>>
  BY <1>1 DEF CreateNotice, CollectionsTypeOK, vars, bounds
<1>3. MessageInv(r, 1)
  BY <1>1 DEF MailInv
<1>4. /\ Sender(m[2]) = r
      /\ \A l \in 1..Len(outbox[r]) : outbox[r][l] = m => l = 1
      /\ m[2] # "suspended" => notices[m] = <<>> /\ Len(notices'[m]) = 1
  <2>1. /\ Sender(m[2]) = r
        /\ \A l \in 1..Len(outbox[r]) : outbox[r][l] = m => l = 1
        /\ m[2] # "suspended" => notices[m] = <<>>
    BY <1>2, <1>3 DEF MessageInv, m
  <2>2. notices'[m] = Append(notices[m], "pending")
    BY <1>1, <1>2
  <2>3. Len(notices'[m]) = Len(notices[m]) + 1
    BY <1>2, <2>2
  <2>4. QED
    BY <2>1, <2>3
<1>5. ASSUME NEW x \in Messages, x[2] # "suspended", Tried(x) PROVE Tried(x)'
  BY <1>2, <1>4, <1>5 DEF Tried
<1>6. OneReminderADay'
  <2> SUFFICES ASSUME NEW x \in Messages, x[2] # "suspended" PROVE Len(notices'[x]) <= 1
    BY DEF OneReminderADay
  <2>1. CASE x = m
    <3>1. Len(notices'[x]) = 1
      BY <1>4, <2>1
    <3>2. QED
      BY <3>1
  <2>2. CASE x # m
    BY <1>2, <2>2 DEF MailInv, OneReminderADay
  <2>3. QED
    BY <2>1, <2>2
<1>7. ASSUME NEW q \in Runs, NEW n \in 1..Len(outbox'[q]) PROVE MessageInv(q, n)'
  <2>0. PICK x : x = outbox[q][n]
    OBVIOUS
  <2>1. n \in 1..Len(outbox[q]) /\ MessageInv(q, n) /\ x \in Messages
    BY <1>2, <1>7, <2>0 DEF MailInv, CollectionsTypeOK
  <2>2. /\ Sender(x[2]) = q
        /\ x[2] = outbox[q][1][2]
        /\ \A l \in 1..Len(outbox[q]) : outbox[q][l] = x => l = n
        /\ x[2] # "suspended" =>
             /\ IF n = 1 /\ drafted[q] THEN Len(notices[x]) = 1 ELSE notices[x] = <<>>
             /\ \A channel \in Contacts[x[1]] :
                  \/ Tried(<<x[1], x[2], channel>>)
                  \/ InCall(q, <<x[1], x[2], channel>>)
    BY <2>0, <2>1 DEF MessageInv
  <2>3. x[2] # "suspended" =>
          IF n = 1 /\ drafted'[q] THEN Len(notices'[x]) = 1 ELSE notices'[x] = <<>>
    <3>1. CASE x = m
      <4>1. q = r /\ n = 1
        BY <1>4, <2>0, <2>1, <2>2, <3>1
      <4>2. QED
        BY <1>2, <1>4, <2>1, <3>1, <4>1
    <3>2. CASE x # m
      <4>1. q = r => n # 1
        BY <2>0, <3>2 DEF m
      <4>2. QED
        BY <1>2, <2>1, <2>2, <3>2, <4>1
    <3>3. QED
      BY <3>1, <3>2
  <2>4. ASSUME x[2] # "suspended", NEW channel \in Contacts[x[1]]
        PROVE  \/ Tried(<<x[1], x[2], channel>>)'
               \/ InCall(q, <<x[1], x[2], channel>>)'
    <3>1. x[1] \in Customers /\ x[2] \in {"overdue", "due"}
      BY <2>1, <2>4 DEF Messages
    <3>2. <<x[1], x[2], channel>> \in Messages
      BY <2>4, <3>1, AddressedMessage
    <3>3. Tried(<<x[1], x[2], channel>>) \/ InCall(q, <<x[1], x[2], channel>>)
      BY <2>2, <2>4
    <3>4. CASE Tried(<<x[1], x[2], channel>>)
      BY <1>5, <2>4, <3>2, <3>4
    <3>5. CASE InCall(q, <<x[1], x[2], channel>>)
      BY <1>2, <3>5 DEF InCall
    <3>6. QED
      BY <3>3, <3>4, <3>5
  <2>5. QED
    BY <1>2, <2>0, <2>2, <2>3, <2>4 DEF MessageInv
<1>8. ASSUME NEW j \in Customers, NEW e \in {"overdue", "due"}, Reached(j, e)
      PROVE  Reached(j, e)'
  <2> SUFFICES ASSUME HasRecent(j, e)', NEW channel \in Contacts[j]
               PROVE  \/ Tried(<<j, e, channel>>)'
                      \/ InCall(Sender(e), <<j, e, channel>>)'
    BY DEF Reached
  <2>1. <<j, e, channel>> \in Messages
    BY AddressedMessage
  <2>2. \A c \in {"whatsapp", "email"} : <<j, e, c>> \in Messages
    BY DEF Messages
  <2>3. HasRecent(j, e) \/ (m[1] = j /\ m[2] = e)
    BY <1>2, <2>2 DEF HasRecent
  <2>4. Tried(<<j, e, channel>>) \/ InCall(Sender(e), <<j, e, channel>>)
    <3>1. CASE HasRecent(j, e)
      BY <1>8, <3>1 DEF Reached
    <3>2. CASE m[1] = j /\ m[2] = e
      BY <1>3, <1>4, <3>2 DEF MessageInv, m
    <3>3. QED
      BY <2>3, <3>1, <3>2
  <2>5. QED
    BY <1>2, <1>5, <2>1, <2>4 DEF InCall
<1>9. QED
  BY <1>2, <1>6, <1>7, <1>8 DEF MailInv

\* The answer: the row is no longer pending, and the next message has its turn.
LEMMA MailOfSendNotice ==
  ASSUME CollectionsTypeOK, MailInv, NEW r \in Runs, SendNotice(r)
  PROVE  MailInv'
<1>1. PICK m : m = outbox[r][1]
  OBVIOUS
<1>2. /\ outbox[r] \in Seq(Messages) /\ outbox[r] # <<>> /\ 1 \in 1..Len(outbox[r])
      /\ m \in Messages
      /\ m = Head(outbox[r])
  BY <1>1 DEF SendNotice, CollectionsTypeOK
<1>3. /\ drafted[r]
      /\ \A q \in Runs : drafted'[q] = IF q = r THEN FALSE ELSE drafted[q]
      /\ \A q \in Runs : outbox'[q] = IF q = r THEN Tail(outbox[r]) ELSE outbox[q]
      /\ UNCHANGED crashes
  BY DEF SendNotice, CollectionsTypeOK, vars, bounds
<1>a. \A n \in 1..Len(outbox'[r]) :
        n \in Nat /\ n + 1 \in 2..Len(outbox[r]) /\ outbox'[r][n] = outbox[r][n + 1]
  <2>1. outbox'[r] = Tail(outbox[r])
    BY <1>3
  <2>2. /\ Len(Tail(outbox[r])) = Len(outbox[r]) - 1
        /\ \A n \in 1..Len(outbox[r]) - 1 : Tail(outbox[r])[n] = outbox[r][n + 1]
        /\ Len(outbox[r]) \in Nat
    BY <1>2
  <2>3. QED
    BY <2>1, <2>2
<1>4. PICK outcome \in {"sent", "failed"} :
        notices' = [notices EXCEPT ![m][Len(notices[m])] = outcome]
  BY <1>2 DEF SendNotice
<1>5. /\ notices[m] \in Seq({"pending", "sent", "failed"})
      /\ Len(notices[m]) \in Nat
      /\ outcome \in {"pending", "sent", "failed"}
  BY <1>2 DEF CollectionsTypeOK
<1>6. /\ notices'[m] \in Seq({"pending", "sent", "failed"})
      /\ Len(notices'[m]) = Len(notices[m])
      /\ \A x \in Messages : x # m => notices'[x] = notices[x]
  <2>1. notices'[m] = [notices[m] EXCEPT ![Len(notices[m])] = outcome]
    BY <1>2, <1>4 DEF CollectionsTypeOK
  <2>2. QED
    BY <1>2, <1>4, <1>5, <2>1, OverwrittenType DEF CollectionsTypeOK
<1>7. MessageInv(r, 1)
  BY <1>2 DEF MailInv
<1>8. /\ Sender(m[2]) = r
      /\ \A l \in 1..Len(outbox[r]) : outbox[r][l] = m => l = 1
      /\ m[2] # "suspended" => Len(notices[m]) = 1
  BY <1>1, <1>3, <1>7 DEF MessageInv
<1>9. m[2] # "suspended" => Tried(m)'
  <2> SUFFICES ASSUME m[2] # "suspended" PROVE Tried(m)'
    OBVIOUS
  <2>1. Len(notices[m]) = 1 /\ Len(notices'[m]) = 1
    BY <1>6, <1>8
  <2>2. notices'[m] = [notices[m] EXCEPT ![1] = outcome]
    BY <1>2, <1>4, <2>1 DEF CollectionsTypeOK
  <2>3. notices'[m][1] = outcome
    BY <1>5, <2>1, <2>2
  <2>4. notices'[m] = <<outcome>>
    BY <1>6, <2>1, <2>3
  <2>5. QED
    BY <2>4 DEF Tried
<1>10. ASSUME NEW x \in Messages, NEW q \in Runs, x[2] # "suspended",
              Tried(x) \/ InCall(q, x)
       PROVE  Tried(x)' \/ InCall(q, x)'
  <2>1. CASE x = m
    BY <1>9, <1>10, <2>1
  <2>2. CASE x # m /\ Tried(x)
    BY <1>6, <2>2 DEF Tried
  <2>3. CASE x # m /\ InCall(q, x)
    <3>1. PICK n \in 1..Len(outbox[q]) : outbox[q][n] = x
      BY <2>3 DEF InCall
    <3>2. CASE q = r
      <4>1. /\ n - 1 \in 1..Len(Tail(outbox[r]))
            /\ Tail(outbox[r])[n - 1] = x
        BY <1>1, <1>2, <2>3, <3>1, <3>2
      <4>2. QED
        BY <1>3, <3>2, <4>1 DEF InCall
    <3>3. CASE q # r
      BY <1>3, <3>1, <3>3 DEF InCall
    <3>4. QED
      BY <3>2, <3>3
  <2>4. QED
    BY <1>10, <2>1, <2>2, <2>3
<1>11. OneReminderADay'
  <2> SUFFICES ASSUME NEW x \in Messages, x[2] # "suspended" PROVE Len(notices'[x]) <= 1
    BY DEF OneReminderADay
  <2>1. Len(notices'[x]) = Len(notices[x])
    BY <1>6
  <2>2. QED
    BY <2>1 DEF MailInv, OneReminderADay
<1>12. ASSUME NEW q \in Runs, NEW n \in 1..Len(outbox'[q]) PROVE MessageInv(q, n)'
  <2>1. PICK p : p = IF q = r THEN n + 1 ELSE n
    OBVIOUS
  <2>2. /\ p \in 1..Len(outbox[q])
        /\ outbox'[q][n] = outbox[q][p]
        /\ outbox[q] \in Seq(Messages)
    <3>1. CASE q = r
      BY <1>2, <1>a, <1>12, <2>1, <3>1
    <3>2. CASE q # r
      BY <1>3, <1>12, <2>1, <3>2 DEF CollectionsTypeOK
    <3>3. QED
      BY <3>1, <3>2
  <2>3. PICK x : x = outbox[q][p]
    OBVIOUS
  <2>4. /\ x \in Messages
        /\ Sender(x[2]) = q
        /\ x[2] = outbox[q][1][2]
        /\ \A l \in 1..Len(outbox[q]) : outbox[q][l] = x => l = p
        /\ x[2] # "suspended" =>
             /\ IF p = 1 /\ drafted[q] THEN Len(notices[x]) = 1 ELSE notices[x] = <<>>
             /\ \A channel \in Contacts[x[1]] :
                  \/ Tried(<<x[1], x[2], channel>>)
                  \/ InCall(q, <<x[1], x[2], channel>>)
    BY <2>2, <2>3 DEF MailInv, MessageInv
  <2>5. x # m
    <3>1. CASE q = r
      BY <1>2, <1>8, <1>12, <2>1, <2>2, <2>3, <3>1
    <3>2. CASE q # r
      BY <1>8, <2>4, <3>2
    <3>3. QED
      BY <3>1, <3>2
  <2>6. x[2] = outbox'[q][1][2]
    <3>1. CASE q = r
      <4>1. 2 \in 1..Len(outbox[r]) /\ outbox'[r][1] = outbox[r][2]
        BY <1>a, <1>12, <3>1
      <4>2. MessageInv(r, 2)
        BY <4>1 DEF MailInv
      <4>3. QED
        BY <2>4, <3>1, <4>1, <4>2 DEF MessageInv
    <3>2. CASE q # r
      BY <1>3, <2>4, <3>2
    <3>3. QED
      BY <3>1, <3>2
  <2>7. ASSUME NEW l \in 1..Len(outbox'[q]), outbox'[q][l] = x PROVE l = n
    <3>1. CASE q = r
      <4>1. l + 1 \in 1..Len(outbox[r]) /\ outbox[r][l + 1] = x
        BY <1>a, <2>7, <3>1
      <4>2. QED
        BY <1>12, <2>1, <2>4, <3>1, <4>1
    <3>2. CASE q # r
      BY <1>3, <2>1, <2>4, <2>7, <3>2
    <3>3. QED
      BY <3>1, <3>2
  <2>8. x[2] # "suspended" =>
          IF n = 1 /\ drafted'[q] THEN Len(notices'[x]) = 1 ELSE notices'[x] = <<>>
    <3>1. CASE q = r
      <4>1. p # 1
        BY <1>a, <1>12, <2>1, <3>1
      <4>2. ~drafted'[q]
        BY <1>3, <3>1
      <4>3. QED
        BY <1>6, <2>4, <2>5, <4>1, <4>2
    <3>2. CASE q # r
      BY <1>3, <1>6, <2>1, <2>4, <2>5, <3>2
    <3>3. QED
      BY <3>1, <3>2
  <2>9. ASSUME x[2] # "suspended", NEW channel \in Contacts[x[1]]
        PROVE  \/ Tried(<<x[1], x[2], channel>>)'
               \/ InCall(q, <<x[1], x[2], channel>>)'
    <3>1. PICK y : y = <<x[1], x[2], channel>>
      OBVIOUS
    <3>2. x[1] \in Customers /\ x[2] \in {"overdue", "due"}
      BY <2>4, <2>9 DEF Messages
    <3>3. y \in Messages /\ y[2] # "suspended"
      BY <2>9, <3>1, <3>2, AddressedMessage
    <3>4. Tried(y) \/ InCall(q, y)
      BY <2>4, <2>9, <3>1
    <3>5. QED
      BY <1>10, <3>1, <3>3, <3>4
  <2>10. QED
    BY <2>2, <2>3, <2>4, <2>6, <2>7, <2>8, <2>9 DEF MessageInv
<1>13. ASSUME NEW j \in Customers, NEW e \in {"overdue", "due"}, Reached(j, e)
       PROVE  Reached(j, e)'
  <2> SUFFICES ASSUME HasRecent(j, e)', NEW channel \in Contacts[j]
               PROVE  \/ Tried(<<j, e, channel>>)'
                      \/ InCall(Sender(e), <<j, e, channel>>)'
    BY DEF Reached
  <2>1. PICK y : y = <<j, e, channel>>
    OBVIOUS
  <2>2. y \in Messages /\ y[2] # "suspended" /\ Sender(e) \in Runs
    BY <2>1, AddressedMessage DEF Sender, Runs
  <2>3. \A x \in Messages : notices'[x] # <<>> => notices[x] # <<>>
    BY <1>5, <1>6
  <2>4. \A c \in {"whatsapp", "email"} : <<j, e, c>> \in Messages
    BY DEF Messages
  <2>5. HasRecent(j, e)
    BY <2>3, <2>4 DEF HasRecent
  <2>6. Tried(y) \/ InCall(Sender(e), y)
    BY <1>13, <2>1, <2>5 DEF Reached
  <2>7. QED
    BY <1>10, <2>1, <2>2, <2>6
<1>14. QED
  BY <1>3, <1>11, <1>12, <1>13 DEF MailInv

\* Between a call's first and last message, between the two runs and across a crash
\* and a restart, a reminder keeps being sent once.
LEMMA MailNext ==
  CalendarInv /\ MailInv /\ [CollectionsNext]_allVars => MailInv'
<1> SUFFICES ASSUME CalendarInv, MailInv, [CollectionsNext]_allVars PROVE MailInv'
  OBVIOUS
<1> USE CollectionsAssumption DEF CalendarInv
<1>1. CASE Next /\ UNCHANGED <<collected, mail, day, run, soonRun>>
  BY <1>1, PaymentsOnlyPay, MailRests DEF CollectionsTypeOK
<1>2. CASE NextDay
  BY <1>2, MailOfNextDay
<1>3. CASE StartRun \/ FindActive \/ ExpireCharge \/ CreateQr \/ FinishRun
  BY <1>3, MailRests
     DEF StartRun, FindActive, ExpireCharge, CreateQr, FinishRun, vars, bounds
<1>4. CASE StartSoonRun \/ FinishSoonRun \/ UNCHANGED allVars
  BY <1>4, MailRests DEF StartSoonRun, FinishSoonRun, allVars, vars, bounds
<1>5. ASSUME NEW i \in Installments, MarkOverdue(i) PROVE MailInv'
  BY <1>5, MailRests DEF MarkOverdue, bounds
<1>6. CASE Suspend
  <2>1. /\ CustomerOf[current] \in Customers
        /\ "daily" \in Runs /\ Sender("suspended") = "daily"
        /\ outbox["daily"] = <<>>
    BY <1>6, PaymentsAssumption DEF Suspend, Move, CollectionsTypeOK, Runs, Sender
  <2>2. QED
    BY <1>6, <2>1, MailOfTell DEF Suspend, vars, bounds
<1>7. CASE Remind
  <2>1. /\ CustomerOf[current] \in Customers
        /\ "daily" \in Runs /\ Sender("overdue") = "daily"
        /\ outbox["daily"] = <<>>
    BY <1>7, PaymentsAssumption DEF Remind, GoOn, Move, CollectionsTypeOK, Runs, Sender
  <2>2. CASE UNCHANGED outbox
    BY <1>7, <2>2, MailRests DEF Remind, mail, vars, bounds
  <2>3. CASE /\ ~HasRecent(CustomerOf[current], "overdue")
             /\ Tell("daily", CustomerOf[current], "overdue")
    BY <1>7, <2>1, <2>3, MailOfTell DEF Remind, vars, bounds
  <2>4. QED
    BY <1>7, <2>2, <2>3 DEF Remind
<1>8. ASSUME NEW i \in Installments, RemindDueSoon(i) PROVE MailInv'
  <2>1. /\ CustomerOf[i] \in Customers
        /\ "soon" \in Runs /\ Sender("due") = "soon"
        /\ outbox["soon"] = <<>>
    BY <1>8, PaymentsAssumption DEF RemindDueSoon, Runs, Sender
  <2>2. CASE HasRecent(CustomerOf[i], "due")
    BY <1>8, <2>2, MailRests DEF RemindDueSoon, mail, vars, bounds
  <2>3. CASE ~HasRecent(CustomerOf[i], "due")
    BY <1>8, <2>1, <2>3, MailOfTell DEF RemindDueSoon, vars, bounds
  <2>4. QED
    BY <2>2, <2>3
<1>9. CASE CrashRun
  BY <1>9, MailOfCrash DEF CrashRun, Runs, CollectionsTypeOK, TypeOK
<1>10. CASE CrashSoonRun
  BY <1>10, MailOfCrash DEF CrashSoonRun, Runs, CollectionsTypeOK, TypeOK
<1>11. ASSUME NEW r \in Runs, CreateNotice(r) \/ SendNotice(r) PROVE MailInv'
  BY <1>11, MailOfCreateNotice, MailOfSendNotice
<1>12. QED
  BY <1>1, <1>2, <1>3, <1>4, <1>5, <1>6, <1>7, <1>8, <1>9, <1>10, <1>11
     DEF CollectionsNext, RunStep, SoonRunStep

LEMMA MailAlways == CollectionsSpec => []MailInv
<1>1. CollectionsInit => MailInv
  BY MailInit
<1>2. CalendarInv /\ MailInv /\ [CollectionsNext]_allVars => MailInv'
  BY MailNext
<1>3. QED
  BY <1>1, <1>2, CalendarAlways, PTL DEF CollectionsSpec

\* has_recent keeps both runs to one row per customer, reminder, channel and morning,
\* however many installments a customer has and however often a run is started
\* (notifications/repositories.py 21-28).
THEOREM RemindedOnce == CollectionsSpec => []OneReminderADay
BY MailAlways, PTL DEF MailInv

\* A failed channel stops no other: who has a row of a reminder was tried on each
\* channel there is an address for, when the call is over and no process has died
\* (notifications/services.py 97-151).
THEOREM AllChannelsTried == CollectionsSpec => []EveryChannelTried
<1>1. CalendarInv /\ MailInv => EveryChannelTried
  <2> DEFINE Going(e) == \E r \in Runs : outbox[r] # <<>> /\ Head(outbox[r])[2] = e
  <2> SUFFICES ASSUME CalendarInv, MailInv,
                      NEW k \in Customers, NEW event \in {"overdue", "due"},
                      HasRecent(k, event), ~Going(event), ~(crashes > 0)
               PROVE  \A channel \in Contacts[k] : Tried(<<k, event, channel>>)
    BY DEF EveryChannelTried, Tried
  <2>1. Sender(event) \in Runs
    BY DEF Sender, Runs
  <2>2. ASSUME NEW m, InCall(Sender(event), m) PROVE m[2] # event
    <3>1. PICK n \in 1..Len(outbox[Sender(event)]) : outbox[Sender(event)][n] = m
      BY <2>2 DEF InCall
    <3>2. outbox[Sender(event)] \in Seq(Messages)
      BY <2>1 DEF CalendarInv, CollectionsTypeOK
    <3>3. outbox[Sender(event)] # <<>> /\ Head(outbox[Sender(event)]) = outbox[Sender(event)][1]
      BY <3>1, <3>2
    <3>4. m[2] = outbox[Sender(event)][1][2]
      BY <2>1, <3>1 DEF MailInv, MessageInv
    <3>5. QED
      BY <2>1, <3>3, <3>4
  <2>3. crashes = 0
    BY DEF CalendarInv, CollectionsTypeOK, TypeOK
  <2>4. QED
    BY <2>2, <2>3 DEF MailInv, Reached
<1>2. QED
  BY <1>1, CalendarAlways, MailAlways, PTL
=============================================================================
