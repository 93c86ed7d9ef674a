----------------------------- MODULE Collections -----------------------------
(***************************************************************************)
(* CollectionsService (apps/collections/services.py): the daily task that  *)
(* marks installments overdue, suspends customers, sends reminders and     *)
(* reissues Pix charges, and the one that reminds of what is due tomorrow, *)
(* running beside the payments of module Payments on the same rows; with   *)
(* the NotificationService (apps/notifications/services.py) both call,     *)
(* which keeps a Notification row per message and channel.                 *)
(*                                                                         *)
(* The first task reads the list of installments once, each with its       *)
(* customer, and then works from these objects for as long as the run      *)
(* takes; its writes replace whatever the columns hold by then.  Celery    *)
(* beat starts each task once a day, so one run of each goes on at a time; *)
(* a day on which the worker was down has none, and one on which somebody  *)
(* calls a task by hand has more.                                          *)
(***************************************************************************)
EXTENDS Payments

CONSTANTS
  Due,           \* day an installment is due
  Days,          \* bound: the days the model looks at
  Contacts,      \* the channels a customer has an address for
  NoInstallment  \* not an installment

ASSUME CollectionsAssumption ==
  /\ Due \in [Installments -> Nat]
  /\ Days \subseteq Nat
  /\ 0 \in Days
  /\ Contacts \in [Customers -> SUBSET {"whatsapp", "email"}]
  /\ NoInstallment \notin Installments

\* The plan makes one charge per installment (payments/services.py 44-57), and
\* of those the runs reissued one is the last.
ASSUME OneChargeAtStart ==
  \A c, d \in Charges :
    \/ {c, d} \subseteq PlanCharges
    \/ {c, d} \subseteq Reissued
    => (ChargeOf[c] = ChargeOf[d] => c = d)

VARIABLES
  \* the database
  dpd,         \* Installment.days_past_due
  blocked,     \* Customer.is_blocked
  notices,     \* statuses of the notifications of today: customer, event, channel
  \* the calendar
  day,
  \* the run: the objects it works from and where it is
  jobpc, todo, sawBlocked, current, found,
  \* the due-soon run, likewise
  soonpc, soon,
  \* per run, the messages its call of a notify method still has to send, and
  \* whether the first of them has its row
  outbox, drafted

collected == <<dpd, blocked>>
mail == <<notices, outbox, drafted>>
run == <<jobpc, todo, sawBlocked, current, found>>
soonRun == <<soonpc, soon>>
allVars == <<vars, collected, mail, day, run, soonRun>>

Messages == Customers \X {"suspended", "overdue", "due"} \X {"whatsapp", "email"}
Runs == {"daily", "soon"}

CollectionsTypeOK ==
  /\ TypeOK
  /\ dpd \in [Installments -> Nat]
  /\ blocked \in [Customers -> BOOLEAN]
  /\ notices \in [Messages -> Seq({"pending", "sent", "failed"})]
  /\ day \in Days
  /\ jobpc \in {"idle", "next", "suspend", "check_recent", "find_active",
                 "expire", "create_qr"}
  /\ todo \subseteq Installments
  /\ sawBlocked \in [Installments -> BOOLEAN]
  /\ current \in Installments \cup {NoInstallment}
  /\ found \in Charges \cup {NoCharge}
  /\ current = NoInstallment <=> jobpc \in {"idle", "next"}
  /\ jobpc = "expire" <=> found # NoCharge
  /\ soonpc \in {"idle", "next"}
  /\ soon \subseteq Installments
  /\ outbox \in [Runs -> Seq(Messages)]
  /\ drafted \in [Runs -> BOOLEAN]
  /\ \A r \in Runs : drafted[r] => outbox[r] # <<>>

CollectionsInit ==
  /\ Init
  /\ dpd = [i \in Installments |-> 0]
  /\ blocked = [k \in Customers |-> FALSE]
  /\ notices = [m \in Messages |-> <<>>]
  /\ day = 0
  /\ jobpc = "idle"
  /\ todo = {}
  /\ sawBlocked = [i \in Installments |-> FALSE]
  /\ current = NoInstallment
  /\ found = NoCharge
  /\ soonpc = "idle"
  /\ soon = {}
  /\ outbox = [r \in Runs |-> <<>>]
  /\ drafted = [r \in Runs |-> FALSE]

-----------------------------------------------------------------------------
\* DPD_RULES and get_action: the rule with the highest threshold reached, and
\* what it orders.
DPD_RULES ==
  {[from |-> 1, orders |-> {"send_whatsapp", "generate_new_qr"}],
   [from |-> 3, orders |-> {"send_whatsapp", "send_email", "generate_new_qr"}],
   [from |-> 7,
    orders |-> {"send_whatsapp", "send_email", "generate_new_qr", "suspend_limit"}]}

NoAction == [from |-> 0, orders |-> {}]

get_action(d) ==
  CHOOSE r \in DPD_RULES \cup {NoAction} :
    /\ r.from <= d
    /\ \A s \in DPD_RULES : s.from <= d => s.from <= r.from

Orders(i) == get_action(day - Due[i]).orders

-----------------------------------------------------------------------------
\* A later morning; a run ends on the day it started.
NextDay ==
  /\ jobpc = "idle"
  /\ soonpc = "idle"
  /\ day' \in {d \in Days : d > day}
  /\ notices' = [m \in Messages |-> <<>>]
  /\ UNCHANGED <<vars, collected, outbox, drafted, run, soonRun>>

\* The daily run goes on when its notify call has returned.
Move(from, to) ==
  /\ outbox["daily"] = <<>>
  /\ jobpc = from
  /\ jobpc' = to

-----------------------------------------------------------------------------
\* What a notify method sends, in its order: the suspension by WhatsApp, the
\* reminders also by e-mail; a channel without an address is skipped.
MessagesTo(k, event) ==
  LET By(channel) ==
        IF channel \in Contacts[k] THEN << <<k, event, channel>> >> ELSE <<>>
  IN  By("whatsapp") \o (IF event = "suspended" THEN <<>> ELSE By("email"))

\* _send_whatsapp, _send_email: a PENDING row...
CreateNotice(r) ==
  LET m == Head(outbox[r])
  IN  /\ outbox[r] # <<>>
      /\ ~drafted[r]
      /\ notices' = [notices EXCEPT ![m] = Append(@, "pending")]
      /\ drafted' = [drafted EXCEPT ![r] = TRUE]
      /\ UNCHANGED <<vars, collected, outbox, day, run, soonRun>>

\* Mutation: a failed message ends the call.
SendNoticeStop(r) ==
  LET m == Head(outbox[r])
  IN  /\ drafted[r]
      /\ \E outcome \in {"sent", "failed"} :
           /\ notices' = [notices EXCEPT ![m][Len(notices[m])] = outcome]
           /\ outbox' = [outbox EXCEPT ![r] = IF outcome = "sent" THEN Tail(@) ELSE <<>>]
      /\ drafted' = [drafted EXCEPT ![r] = FALSE]
      /\ UNCHANGED <<vars, collected, day, run, soonRun>>

\* ... that the client's answer or exception makes SENT or FAILED.
SendNotice(r) ==
  LET m == Head(outbox[r])
  IN  /\ drafted[r]
      /\ \E outcome \in {"sent", "failed"} :
           notices' = [notices EXCEPT ![m][Len(notices[m])] = outcome]
      /\ outbox' = [outbox EXCEPT ![r] = Tail(@)]
      /\ drafted' = [drafted EXCEPT ![r] = FALSE]
      /\ UNCHANGED <<vars, collected, day, run, soonRun>>

\* has_recent: a row created within 20 hours, whatever its status and channel,
\* is one of the same morning.
HasRecent(k, event) ==
  \E channel \in {"whatsapp", "email"} : notices[<<k, event, channel>>] # <<>>

Tell(r, k, event) == outbox' = [outbox EXCEPT ![r] = MessagesTo(k, event)]

Hush(r) ==
  /\ outbox' = [outbox EXCEPT ![r] = <<>>]
  /\ drafted' = [drafted EXCEPT ![r] = FALSE]

-----------------------------------------------------------------------------
\* Mutation: the list is not restricted to PENDING installments.
StartRunAnyStatus ==
  /\ Move("idle", "next")
  /\ todo' = {i \in Installments : Due[i] < day}
  /\ sawBlocked' = [i \in Installments |-> blocked[CustomerOf[i]]]
  /\ UNCHANGED <<vars, collected, mail, day, current, found, soonRun>>

\* The one query of the run: PENDING installments past due, with
\* their customers.
StartRun ==
  /\ Move("idle", "next")
  /\ todo' = {i \in Installments : Due[i] < day /\ inst[i] = "pending"}
  /\ sawBlocked' = [i \in Installments |-> blocked[CustomerOf[i]]]
  /\ UNCHANGED <<vars, collected, mail, day, current, found, soonRun>>

\* The next installment of the list is saved as OVERDUE, whatever it is by now.
MarkOverdue(i) ==
  /\ i \in todo
  /\ Move("next", IF "suspend_limit" \in Orders(i) /\ ~sawBlocked[i]
                  THEN "suspend" ELSE "check_recent")
  /\ inst' = [inst EXCEPT ![i] = "overdue"]
  /\ dpd' = [dpd EXCEPT ![i] = day - Due[i]]
  /\ todo' = todo \ {i}
  /\ current' = i
  /\ UNCHANGED <<charge, txn, cash, receivable, used, events, queued, locals,
                 bounds, blocked, mail, day, sawBlocked, found, soonRun>>

\* The customer is blocked and told so.
Suspend ==
  /\ Move("suspend", "check_recent")
  /\ blocked' = [blocked EXCEPT ![CustomerOf[current]] = TRUE]
  /\ Tell("daily", CustomerOf[current], "suspended")
  /\ UNCHANGED <<vars, dpd, notices, drafted, day, todo, sawBlocked, current,
                 found, soonRun>>

\* The rest of the loop body is for an action that orders a new Pix code.
GoOn(from) ==
  LET refresh == "generate_new_qr" \in Orders(current)
  IN  /\ Move(from, IF refresh THEN "find_active" ELSE "next")
      /\ current' = IF refresh THEN current ELSE NoInstallment

\* Mutation: has_recent is not asked.
RemindAlways ==
  /\ GoOn("check_recent")
  /\ Tell("daily", CustomerOf[current], "overdue")
  /\ UNCHANGED <<vars, collected, notices, drafted, day, todo, sawBlocked, found,
                 soonRun>>

\* One overdue reminder, if the action orders a message on any channel and there
\* is no recent one.  The call is not told which channels were ordered.
Remind ==
  /\ GoOn("check_recent")
  /\ IF \/ Orders(current) \cap {"send_whatsapp", "send_email"} = {}
        \/ HasRecent(CustomerOf[current], "overdue")
     THEN UNCHANGED outbox
     ELSE Tell("daily", CustomerOf[current], "overdue")
  /\ UNCHANGED <<vars, collected, notices, drafted, day, todo, sawBlocked, found,
                 soonRun>>

ActiveCharges(i) == {c \in Charges : ChargeOf[c] = i /\ charge[c] = "active"}

\* Mutation: an ACTIVE charge is taken to exist always.
FindActiveUnchecked ==
  /\ Move("find_active", "expire")
  /\ IF ActiveCharges(current) = {}
     THEN UNCHANGED found
     ELSE found' \in ActiveCharges(current)
  /\ UNCHANGED <<vars, collected, mail, day, todo, sawBlocked, current, soonRun>>

\* _refresh_qr reads the ACTIVE charge of the installment...
FindActive ==
  /\ IF ActiveCharges(current) = {}
     THEN Move("find_active", "create_qr") /\ UNCHANGED found
     ELSE Move("find_active", "expire") /\ found' \in ActiveCharges(current)
  /\ UNCHANGED <<vars, collected, mail, day, todo, sawBlocked, current, soonRun>>

\* Mutation: the old charge is left as it is.
ExpireNothing ==
  /\ Move("expire", "create_qr")
  /\ found' = NoCharge
  /\ UNCHANGED <<vars, collected, mail, day, todo, sawBlocked, current, soonRun>>

\* ...saves it as EXPIRED, even if it was paid in between...
ExpireCharge ==
  /\ Move("expire", "create_qr")
  /\ charge' = [charge EXCEPT ![found] = "expired"]
  /\ found' = NoCharge
  /\ UNCHANGED <<inst, txn, cash, receivable, used, events, queued, locals,
                 bounds, collected, mail, day, todo, sawBlocked, current, soonRun>>

\* Mutation: no new charge is stored.
CreateNoQr ==
  /\ Move("create_qr", "next")
  /\ current' = NoInstallment
  /\ UNCHANGED <<vars, collected, mail, day, todo, sawBlocked, found, soonRun>>

\* create_dynamic_qr: a txid that no charge has.
FreshQr(i) == {c \in Charges : ChargeOf[c] = i /\ charge[c] = "none"}

\* ...and inserts a new one, with no PaymentTransaction.
CreateQr ==
  /\ Move("create_qr", "next")
  /\ \E c \in FreshQr(current) : charge' = [charge EXCEPT ![c] = "active"]
  /\ current' = NoInstallment
  /\ UNCHANGED <<inst, txn, cash, receivable, used, events, queued, locals,
                 bounds, collected, mail, day, todo, sawBlocked, found, soonRun>>

\* The run forgets its objects.
EndRun ==
  /\ jobpc' = "idle"
  /\ todo' = {}
  /\ sawBlocked' = [i \in Installments |-> FALSE]
  /\ current' = NoInstallment
  /\ found' = NoCharge

FinishRun ==
  /\ Move("next", "idle")
  /\ todo = {}
  /\ EndRun
  /\ UNCHANGED <<vars, collected, mail, day, soonRun>>

\* The Celery worker dies, or a statement or the provider's QR call raises; the
\* task was acknowledged when it started, so nothing runs it again that day.
CrashRun ==
  /\ jobpc # "idle"
  /\ crashes < MaxCrashes
  /\ crashes' = crashes + 1
  /\ EndRun
  /\ Hush("daily")
  /\ UNCHANGED <<tables, locals, calls, collected, notices, day, soonRun>>

RunStep ==
  \/ \E i \in Installments : MarkOverdue(i)
  \/ Suspend
  \/ Remind
  \/ FindActive
  \/ ExpireCharge
  \/ CreateQr
  \/ FinishRun

-----------------------------------------------------------------------------
\* run_due_soon_reminders, an hour later: PENDING installments due tomorrow.
StartSoonRun ==
  /\ soonpc = "idle"
  /\ soonpc' = "next"
  /\ soon' = {i \in Installments : Due[i] = day + 1 /\ inst[i] = "pending"}
  /\ UNCHANGED <<vars, collected, mail, day, run>>

\* One due-tomorrow reminder for the customer of the next one, if there is no
\* recent one.
RemindDueSoon(i) ==
  /\ soonpc = "next"
  /\ outbox["soon"] = <<>>
  /\ i \in soon
  /\ soon' = soon \ {i}
  /\ IF HasRecent(CustomerOf[i], "due")
     THEN UNCHANGED outbox
     ELSE Tell("soon", CustomerOf[i], "due")
  /\ UNCHANGED <<vars, collected, notices, drafted, day, run, soonpc>>

FinishSoonRun ==
  /\ soonpc = "next"
  /\ outbox["soon"] = <<>>
  /\ soon = {}
  /\ soonpc' = "idle"
  /\ UNCHANGED <<vars, collected, mail, day, run, soon>>

CrashSoonRun ==
  /\ soonpc # "idle"
  /\ crashes < MaxCrashes
  /\ crashes' = crashes + 1
  /\ soonpc' = "idle"
  /\ soon' = {}
  /\ Hush("soon")
  /\ UNCHANGED <<tables, locals, calls, collected, notices, day, run>>

SoonRunStep ==
  \/ \E i \in Installments : RemindDueSoon(i)
  \/ FinishSoonRun

CollectionsNext ==
  \/ Next /\ UNCHANGED <<collected, mail, day, run, soonRun>>
  \/ NextDay
  \/ StartRun
  \/ RunStep
  \/ CrashRun
  \/ \E r \in Runs : CreateNotice(r) \/ SendNotice(r)
  \/ StartSoonRun
  \/ SoonRunStep
  \/ CrashSoonRun

CollectionsSpec == CollectionsInit /\ [][CollectionsNext]_allVars
-----------------------------------------------------------------------------
\* A customer looking for a Pix code finds one: _refresh_qr retires the old
\* charge before it stores the new one, so an installment never has two ACTIVE
\* charges, however payments interleave.
OneActiveCharge ==
  \A i \in Installments : Cardinality(ActiveCharges(i)) <= 1

\* After a complete run an installment that is OVERDUE can still be paid, or
\* has been: a charge of it is ACTIVE or PAID.
OverdueIsPayable ==
  \A i \in Installments :
    inst[i] = "overdue" /\ current # i /\ crashes = 0 =>
      \E c \in Charges : ChargeOf[c] = i /\ charge[c] \in {"active", "paid"}

\* has_recent keeps the runs to one overdue and one due-tomorrow reminder per
\* customer, channel and morning, for customers with several installments and
\* across restarted runs.
OneReminderADay ==
  \A m \in Messages : m[2] # "suspended" => Len(notices[m]) <= 1

\* A message that fails on one channel neither stops the other nor stays
\* PENDING: who is reminded at all was tried on every channel there is an
\* address for, once the call is over, unless a process died.  That includes the
\* e-mail of the first days late, which DPD_RULES leaves out (rules.py 20) and the
\* test test_dpd_3_adds_email has join only on day 3: services.py 67 sends both.
EveryChannelTried ==
  \A k \in Customers, event \in {"overdue", "due"} :
    HasRecent(k, event) =>
      \/ \A channel \in Contacts[k] :
           notices[<<k, event, channel>>] \in {<<"sent">>, <<"failed">>}
      \/ \E r \in Runs : outbox[r] # <<>> /\ Head(outbox[r])[2] = event
      \/ crashes > 0

PaidForGood(i) == inst[i] = "paid" /\ i \notin todo

\* A payment is undone only by a run that listed the installment before it was
\* paid (services.py 38-45): PAID and not on such a list lasts, whatever runs
\* and crashes follow.
PaidStaysPaid ==
  [][\A i \in Installments : PaidForGood(i) => PaidForGood(i)']_allVars

\* BUSINESS_RULES.md 33: installments in status overdue suspend the limit
\* automatically.  In its weakest reading: when the loop of a day's run is over,
\* nobody is a week past due and still unblocked.
OverdueSuspends ==
  jobpc = "next" /\ todo = {} =>
    \A i \in Installments :
      inst[i] = "overdue" /\ day - Due[i] >= 7 => blocked[CustomerOf[i]]
=============================================================================
