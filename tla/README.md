# Pagaê: models and proofs of the lending backend

Pagaê sells on Pix installments: a merchant sends a customer to a checkout, a
credit engine decides, the customer owes installments, each with a Pix charge;
the payment provider reports payments; a daily run chases what is overdue; the
merchant is paid out and told of events by webhooks. The backend is Django with
PostgreSQL, Redis (cache and broker) and Celery. This directory models its money
paths, its identity services and the session of its merchant portal in TLA+, checks them
with TLC and proves every safety property and both refinements with TLAPS.

Paths below are relative to `src/backend/apps/` unless they start with `docs/` or
`frontend/` (which is `src/frontend/merchant-portal/src/`).

## What the models assume about the platform

- **Every ORM statement commits by itself.** The code has no `transaction.atomic`, no
  `ATOMIC_REQUESTS` and no `select_for_update`. A statement is one action; other
  processes run between any two, and a process may die (gunicorn's 60 s timeout, a
  deploy, an exception) after any of them.
- **Several processes serve requests** (`docker/start.sh` starts four gunicorn
  workers); Celery workers and beat run beside them.
- **Repositories save single columns** (`update_fields`) of an object read
  earlier: a save replaces the column, whatever it holds by then. The exceptions
  are `refresh_limit` (`SET used_limit = used_limit + x`) and Redis `incr`.
- **Celery acknowledges a task when it starts it** (no `acks_late`): a task whose
  worker dies is lost. Beat starts each daily task once a day.
- **JavaScript runs one callback at a time**: in the portal a step is what runs
  between two awaits.

## Inventory

| Part | State it keeps | Operations | Talks to | What is hard |
|---|---|---|---|---|
| payments | Installment, PixCharge, PaymentTransaction | create_installment_plan, process_payment | ledger, webhooks, customer row | repeated and overlapping notifications, crashes half way |
| checkout, credit | Order, CheckoutSession, RiskAnalysis; velocity counter in Redis | create_order, create_session, decide, refresh_limit | customers, ledger, payments, webhooks, notifications | decision on a stale copy, counter races, partial plans |
| collections | days past due, OVERDUE, is_blocked, reissued charges | run_daily_overdue_check, run_due_soon_reminders | payments' rows, notifications, provider | works from a list read once, beside payments |
| ledger | LedgerEntry | post_checkout, post_installment_payment, post_settlement | called by the others | entries of one posting are separate inserts |
| webhooks | WebhookDelivery, broker messages | enqueue, deliver_webhook | merchant's server | lost tasks, retries, unknown outcome of a post |
| settlements | Settlement, CheckoutSession.settlement | create_for_checkout, settle | provider's payout, ledger, webhooks | overlapping payouts, crash around the payout |
| notifications | Notification | notify_*, has_recent | messaging clients | not reminding twice, a channel that fails |
| customers | Customer (limits, block, KYC) | registration, profile, KYC stub, admin form | read and written by the above | shared `used_limit` |
| merchants | Merchant, MerchantApiKey | registration, keys, admin form, webhook settings, reports | webhooks, checkout | a key changed while in use |
| accounts | User; OTP in Redis | register, generate_otp, verify_otp, tokens | | races on attempts and on unique values |
| providers | none (stubs) | create_charge, parse_webhook, payout | payments, settlements | repeats, order, refusals |
| merchant portal | a store per tab, tokens in localStorage | login, profile, logout, views over the API | accounts, merchants | late answers, two tabs, a form that stays disabled |

What makes each correct: **payments** book what was paid, once, on both accounts,
on top of rows that say PAID, and then tell the merchant; **checkout** never lets
a customer owe what was not approved and reserved, within the limit, and never
announces a plan that cannot be collected; the **limit** covers what is owed,
whoever writes it; **collections** leave an overdue installment payable, a paid one
alone, and remind on every channel once; **webhooks** deliver or say that they did
not; **settlements** move the books only for money that moved; **accounts and
merchants** hold the number of guesses down, refuse for cause and keep a revoked
key revoked; the **portal** shows the merchant whose token it uses.

## Modules

| Module | Models | State and actions |
|---|---|---|
| `Payments` | `payments/services.py` process_payment, `ledger` post_installment_payment | The tables of a payment and, per worker process, the statement it is at (`pc`), the charge (`job`) and what it has read (`row`, `seen`). `Notify` is the request up to the already_paid answer; `MarkCharge` ... `Dispatch` are the statements in order; `Crash` loses the rest. |
| `Booking` | what process_payment promises | Claim an open charge, settle it, write its chain of records once and in order. `Payments` instantiates it as `Protocol`. |
| `Checkout` | `checkout/services.py` create_order, create_session, `credit.py`, post_checkout, create_installment_plan | Per worker the statement, the copy of `used_limit` and the decision; `Velocity`/`SetVelocity` are the two cache calls; `Reserve` is the SQL update; the plan is a loop of three inserts per installment. |
| `Lending` | the life of a credit limit | Composes `Checkout` and `Payments` on one `used_limit`: the rows of a plan appear in `Payments`' tables as `Checkout` inserts them. `OpenForm`/`SaveForm` are the Django admin over the customer, which saves `used_limit` and `is_blocked` as displayed; `SuspendStep` is a suspension made meanwhile. |
| `Collections` | `collections/services.py`, `rules.py`, `notifications/services.py` | EXTENDS `Payments` and writes the same `inst` and `charge`, so the run interleaves with payments. `StartRun` is the one query, `MarkOverdue` ... `CreateQr` the loop body, on the objects of the list (`todo`, `sawBlocked`) and as the rule for the days past due orders (`Orders`); a notify call is an `outbox` that `CreateNotice` and `SendNotice` work off row by row; `StartSoonRun` and `RemindDueSoon` are the due-soon run. |
| `WebhookDelivery` | `webhooks/services.py` enqueue, `tasks.py` deliver_webhook | Per delivery the row and the whereabouts of its task; `SaveFailed` and `Retry` are the row and the hand-over after a failed post; the merchant's server as what it received and accepted. |
| `Delivery` | what a merchant may expect of an event | It happens, copies of it arrive, it is closed. `WebhookDelivery` instantiates it as `Promise`. |
| `Settlements` | `settlements/services.py`, post_settlement | Per request its settlement, its list of open checkouts and the entries it wrote; `listed` remembers the list. |
| `Otp` | `accounts/services.py` generate_otp, verify_otp | The two cache keys and, per worker, the code it read and its guess; one action per cache call. `guesses` and `accepted` remember what was compared and which code was accepted. |
| `Registration` | `accounts`, `customers` and `merchants` services' register | A user, or a profile of a user who exists and has the role for it (another is refused). One query per unique value (an e-mail address as it was sent and in its normal form), in the order of the service, then the insert behind the unique indexes of the table. |
| `ApiKeys` | `merchants/services.py` generate_api_key, verify_api_key, `admin.py` | Rows of keys, the object a request holds, the form the back office holds. |
| `WebServer` | `docker/start.sh` | The worker processes the three share, finitely many. |
| `Identity` | | `Otp`, `Registration` and `ApiKeys`, which share no state: a behaviour is one of a single service. |
| `PortalSession` | `frontend/stores/auth.js`, `services/api.js`, `router/index.js` | Per tab its store, its view and the requests it waits for; the storage the tabs share; the server's logins and expired tokens. |
| `PaymentsProofs` | | Theorems about `Payments`, and that it implements `Booking`. |
| `CheckoutProofs`, `LendingProofs`, `CollectionsProofs`, `WebhookDeliveryProofs`, `SettlementsProofs` | | Theorems about the module each is named for. |
| `IdentityProofs` | | Theorems about `Identity`, and about `PortalSession`. |
| `SumTheorems` | | What a sum over a finite set does when a summand or an element changes; the amounts of the models are such sums. |
| `MC*` | | Values for TLC. |

How they meet: `Lending` composes `Checkout` with `Payments`, `Collections` composes
with `Payments` on shared rows. `Payments`, `Checkout` and `Settlements` end with
`WebhookService.enqueue`, as an insert and a hand-over; from there on
`WebhookDelivery` takes the event. `Checkout!Suspend` and `Settlements!CreateCheckout`
stand for what the neighbouring module does.

Abstractions: ids are model values; messages have no text; properties about sums
hold or fail at any scale, so most amounts are small numbers, and the division of
an installment plan is kept. A notification differs from another only by its txid
and by whether it carries `paid_at`, which no statement before the event depends
on, so that choice is made there. The merchant's discount is an input: whatever
`int(total * float(rate))` gives, entries are built from total and discount. Ledger
entries are counted by charge and by the process that wrote them; the process is
not a column, but separates one request's duplicates from another's. A worker that
dies is replaced by one with the same name. One-time codes are numbered, a guess
is any number issued or none of them. A token is the number of its login. Redis'
`incr` is one step; a key of the cache may expire between any two calls.

## Runs

| Run | Properties |
|---|---|
| `payments` | `TypeOK`; `PostedIsMarked`, `OncePerProcess`, `ImbalanceExplained`, `SettledIsFrozen`; the refinement `ImplementsBooking` |
| `lending` | `LimitCoversDebt`, `PaidIsBooked`, `PaidEventIsSent` |
| `collections` | `CollectionsTypeOK`; `OneActiveCharge`, `OverdueIsPayable`, `OneReminderADay`, `EveryChannelTried`, `PaidStaysPaid` |
| `checkout` | `CheckoutTypeOK`; `UsedIsReserved`, `OvercommitBounded`, `OwedIsReserved`, `AnnouncedIsCollectable`, `VelocityBound`, `SuspensionHolds`, `ApprovalCompletes` |
| `webhooks` | `WebhookTypeOK`; `DeliveredOnce`, `PendingIsExplained`, `EventSettles`; the refinement `ImplementsDelivery` |
| `settlements` | `SettlementsTypeOK`; `PostedWasPaidOut`, `PostedOncePerPayout`, `AnnouncedIsPosted`, `SettledIsClosed` |
| `identity` | `IdentityTypeOK`; `GuessesBounded`, `LockoutHolds`, `RefusedForCause`, `StaysInactive` |
| `portal` | `ProfileIsOwn`, `LoginSettles` |

Each property is stated in words above its definition. Four more runs show where
the code and its documents part:

| Run | Property | What happens | What is written |
|---|---|---|---|
| `duplicates` | `PostedAtMostOnce` | two overlapping notifications both pass the already_paid check | `docs/SECURITY.md:44`: provider webhooks are validated by txid and idempotent |
| `overdue` | `OverdueSuspends` | an OVERDUE installment is never listed again, so it never reaches seven days | `docs/BUSINESS_RULES.md:33`: overdue installments suspend the limit automatically |
| `exhausted` | `FailedIsExhausted` | when the retries are used up nothing updates the row | `docs/SECURITY.md:23`: a maximum number of attempts before it is marked `exhausted` |
| `payout` | `CashMatchesPayout` | one checkout is paid out, all open ones are linked and booked, DENIED ones too | `docs/journeys.md:736-737`: a settlement is the sum of its checkouts less their fees |

The passing properties of the same parts say what *does* hold around each of
these: `OncePerProcess` and `SettledIsFrozen` confine duplicates to overlapping
processes; `SettledIsClosed` confines double settlement to overlapping lists. Four
more properties bound what the code does not prevent, so that their passing is no
agreement with the document they are about:

- `OvercommitBounded`: the limit is checked on a copy and reserved later, although
  `credit.py:147` says "atomically". Requests in flight together exceed the limit, by
  no more than one limit per worker.
- `VelocityBound`: `docs/BUSINESS_RULES.md:35` allows two credit applications per CPF in 24
  hours. Two workers that both find no counter start one each, so that more than two
  go through in one window; the property bounds them by two per counter started. (And a
  window starts with its first application: two at the end of one and two at the start
  of the next fall into the same 24 hours.)
- `LimitCoversDebt`: `docs/BUSINESS_RULES.md:34` frees the amount of an installment when
  it is paid. `used_limit` falls short of what is owed in two ways: a payment or the
  admin form saves an older value over a reservation (`overlapped`), and notifications
  that overlap free the amount of one payment once each (`DoubleBooked`). The property
  says that these are the only ones.
- `GuessesBounded`: the docstring of `verify_otp` (`accounts/services.py:42`) has a maximum
  of attempts. Guesses in flight together exceed it by at most the other processes,
  and by those of processes that died before counting.

Other gaps met on the way have no run of their own:

- Without `paid_at` in a notification the event's payload holds a datetime; its insert
  raises after the payment is booked, and a repeat is already_paid, so
  `installment.paid` is lost, although `docs/API.md:133` lists it. `payments` and
  `collections` include such notifications (`PaidAtForms`); `PaidEventIsSent` names a
  `paid_at` in every notification as its precondition, and `lending` gives it.
- The rule for the first days late orders no e-mail (`collections/rules.py:20`, and
  `test_dpd_3_adds_email`, `src/backend/tests/collections/test_collections.py:27`, adds it on
  day 3), but `run_daily_overdue_check` asks only whether any channel was ordered (61)
  and `notify_installment_overdue` sends on both, so the e-mail goes out on day 1.
  `EveryChannelTried` says what is sent, not what the rule orders.
- A one-time code may stand without its counter: a death between `accounts/services.py`
  36 and 37, a counter older than its code that expires, a call for an older code that
  ends with 60. `incr` then raises and nothing is counted, so wrong guesses are
  unlimited; `GuessesBounded` speaks of codes that have a counter.
- A call of `verify_otp` that read the code and not yet the counter is let through by
  the counter of a newer code, or by none: a code that was locked out is then
  accepted once more. `LockoutHolds` names this way out and shows that it is the only one.
- The admin form saves `is_blocked` as displayed, over a suspension made meanwhile.
  `Lending` has the behaviour; `SuspensionHolds` of `Checkout` speaks of a system in which
  nobody saves that form.
- `docs/API.md` lists an `installment.overdue` event that no code sends; a charge that
  was replaced is still accepted when paid; an order may be used by several checkouts;
  a run that dies between expiring a charge and creating its successor leaves an
  OVERDUE installment without an active charge; two late installments of one
  customer can send two suspension messages, because each object of the list has a
  customer copy of its own.
- The payout's answer has no `paid_at`: `settled_at` stays NULL, and the dashboard
  counts settled checkouts as pending for good.
- `MerchantWebhookTestView` calls `WebhookService.send`, which does not exist.
- `deactivate` of a key, and the one-time codes, have no caller over HTTP.
- In the portal a wrong password is a 401, on which the interceptor loads `/login`
  anew, so the error message is lost; a logout that fails leaves the refresh token
  valid and the tab in its view; an access token is never refreshed; a late 401
  for an old token removes a newer login of another tab from the storage.

### Bounds and why they are enough

- `payments`: two processes, two notifications per charge, one death, three
  charges of one customer: a charge of its plan, an expired one and its
  replacement. Two processes on one charge show every pairwise race; two charges of
  one customer, the races on `used_limit`; both forms of notification occur. Processes
  are interchangeable, so the run uses symmetry (no liveness is checked under it).
- `lending`: two checkouts of one installment each, one process for them, two for
  payments, one edit, and suspensions while its form is open (at another time a
  suspension meets nothing here that could undo it). The merchant's URL exists when
  payments arrive and not yet when the checkouts are made (`UrlAtCheckout`), whose
  events are the business of `checkout`. The first checkout is paid and its charge
  notified twice, so that two payments overlap, with each other and with the second
  checkout: a reservation under a payment's save and under an open form, and a payment
  freed twice, are the shortest losses. Deaths are left to the other runs: one in
  `Checkout` only keeps limit reserved. `LimitCovers` holds for every number of
  checkouts, charges, processes and edits, whichever payments die.
- `collections`: installments due on the days 1 and 7, seen on the days 0 and 8. On day 0
  the first is due tomorrow, on day 8 it is a week late and the other a day, so both
  rules that act differently apply on one morning to one customer with two channels.
  A task called again the same day (by hand, or after a crash) meets the
  reminders of the first. One payment process, one notification per charge, one
  spare charge per installment (a run reissues an installment once, see `overdue`),
  and a merchant without webhooks.
- `checkout`: a customer whose score and approved limit both stand for 150.00, and
  totals of which any two exceed it; two requests share an order, three exceed the
  daily bound of two; a plan of two installments of an odd total has a remainder.
- `webhooks`: all six attempts are taken; two deliveries, one death, and a URL that is
  cleared and set again.
- `settlements`: two requests for the same checkout and one for another, with
  checkouts that appear before, between and after; one death.
- `identity`: three processes (symmetric), two codes, so that an old counter meets a new
  code, one death, and wrong guesses up to one more than the property allows (three, two
  more processes, one death: `MaxGuesses` is 7); two users with one e-mail address, sent
  in two ways, and a third, three customer profiles that share a user or a document
  pairwise, two merchant profiles, one of them of a user with the wrong role; two keys.
- `portal`: two tabs, two logins (in one tab or in both), two other requests per tab
  in flight. Deadlock is checked here: a page can always be loaded.

`MaxCalls`, `MaxCrashes`, `MaxEdits`, `MaxCodes`, `MaxGuesses`, `MaxLogins`, `Days` and
the guard of `SuspendStep` are the only bounds on behaviours; `Checkout` needs none but
deaths, since each request is sent once.

Deadlock is not checked in the other runs: those systems come to rest when nobody
asks them anything and the bounds are used up.

### Fairness

Weak fairness of each process's (or task's) next statement: a live worker runs its
request to the end, and the broker delivers what it holds (`FairSpec` of `Checkout`
and `WebhookDelivery`; `LendingSpec` has it for the processes that book payments).
`EventSettles` needs no fairness of the merchant, since `requests.post` has a timeout
and any answer is an outcome; `PortalSession` has it of the answers of a login, since
axios gives up after 30 seconds. Nothing is assumed of those who start things:
providers, merchants, customers, the back office, the calendar and crashes. Under a
crash nothing can be promised, because no code resumes half-done work; so the
liveness properties of the backend say "or a process died".

## The booking protocol

`Booking` is what a reader of `process_payment` would like to rely on: a process
claims a charge that is open, settles it, and only then writes CASH, RECEIVABLE, the
event and its task, each once and in this order; a claim may be given up anywhere.
It allows two claims on one open charge, because the code does. `Payments`
implements it with the refinement mapping `claim <- job`, `settled <- PaidCharges`,
`book <- Records` (the four counters per charge and process): `Notify` is a claim or
a stutter, `MarkCharge` settles, the two inserts, `Enqueue` and `Dispatch` write, the
other statements stutter, a death or a failed event insert gives up. TLC checks
it in `payments`, with repeated notifications and a death; `PaymentsImplementBooking`
proves it, and `BookingInContext` that it stays true in `Lending`.

## The delivery of an event

`Delivery` is the merchant's view of an event: it happens or not; while it is pending at
most six copies arrive, none after one that the merchant accepted; it is closed once, as
delivered exactly if a copy was accepted; it may stay pending for good, because a task
may be lost and because nothing closes a row whose retries are used up.
`WebhookDelivery` implements it with `phase <- status`, `copies <- received`, `taken <-
Taken` (the events accepted): `Enqueue` of a merchant with a URL is `Happen`, a `Post`
that reaches the merchant is `Arrive`, `GiveUpWithoutUrl` and `SaveDelivered` are
`Close`, the hand-overs, the read, the failed attempt and a death stutter. TLC checks it
in `webhooks`; `DeliveryImplemented` proves it.

## Proofs

Every safety invariant, every action property and both refinements of the passing runs are
proved, for every value of the constants; only the properties that need fairness are
not. The eight proof modules rest on the named assumptions of the constants and nothing
else. Those say how data of the program hang together (a charge has an installment, no
installment has more parts than cents, a plan's customer is the checkout's), that there
are finitely many worker processes and charges, and, for `Collections`,
`OneChargeAtStart`: in the initial state a plan has one charge per installment and an
installment has at most one reissued charge, which is what the plan loop and the runs
before the start leave behind.

| Module | Theorem | Property |
|---|---|---|
| `PaymentsProofs` | `TypeCorrect` | `TypeOK` |
| | `PostingsAreMarked` | `PostedIsMarked` |
| | `DuplicatesBounded` | `OncePerProcess` |
| | `EventsFollowLedger` | `NoEventAheadOfLedger`: the counters of a process are ordered; contained in `ImplementsBooking` and used on the way |
| | `SettledStaysFrozen` | `SettledIsFrozen` |
| | `BooksBalance` | `ImbalanceExplained` |
| | `PaymentsImplementBooking` | `ImplementsBooking` |
| `CheckoutProofs` | `TypeCorrect` | `CheckoutTypeOK` |
| | `NothingOwedUnreserved` | `OwedIsReserved` |
| | `VelocityIsBounded` | `VelocityBound` |
| | `OvercommitIsBounded` | `OvercommitBounded` |
| | `BlockedTakesNoCredit` | `SuspensionHolds` |
| | `NoReservationLost` | `UsedIsReserved` |
| | `AnnouncedAddsUp` | `AnnouncedIsCollectable`; it rests on the next two |
| | `AnnouncedPlans`, `AmountsAddUp` | `PlanIsWhole`, and the arithmetic of a plan: all but the last installment are the quotient, the last takes the rest |
| `LendingProofs` | `LimitCovers` | `LimitCoversDebt` |
| | `BookingInContext` | of `Lending`: `ImplementsBooking`, `PostedIsMarked`, `OncePerProcess` |
| `CollectionsProofs` | `RunsTypeCorrect` | `CollectionsTypeOK` |
| | `OneCodeToPay` | `OneActiveCharge` |
| | `OverdueFindsCode` | `OverdueIsPayable` |
| | `PaymentsStay` | `PaidStaysPaid` |
| | `RemindedOnce` | `OneReminderADay` |
| | `AllChannelsTried` | `EveryChannelTried` |
| `WebhookDeliveryProofs` | `TypeCorrect` | `WebhookTypeOK` |
| | `NeverDeliveredTwice` | `DeliveredOnce` |
| | `NoneForgotten` | `PendingIsExplained` |
| | `Final` | `ClosedIsFinal`: a closed row keeps its attempts as well |
| | `DeliveryImplemented` | `ImplementsDelivery` |
| `SettlementsProofs` | `TypeCorrect` | `SettlementsTypeOK` |
| | `OnlyPaidIsPosted` | `PostedWasPaidOut` |
| | `NeverPostedTwice` | `PostedOncePerPayout` |
| | `AnnouncedWasPosted` | `AnnouncedIsPosted` |
| | `ClosedForGood` | `SettledIsClosed` |
| `IdentityProofs` | `TypeCorrect` | `IdentityTypeOK` |
| | `GuessesAreFew` | `GuessesBounded` |
| | `LockedOut` | `LockoutHolds` |
| | `RefusalsHaveCause` | `RefusedForCause` |
| | `KeysStayInactive` | `StaysInactive` |
| | `OwnProfile` | `ProfileIsOwn`, of `PortalSession` |
| `SumTheorems` | `SumRemove`, `SumAdd`, `SumChange`, `SumAgree`, `SumMonotone`, `SumPlus`, ... | |

None of the invariants is inductive: what the rows say depends on which statement
each process is at. Each proof module therefore states an invariant that says, for
every place in the code, what has been made durable so far. TLC checked each of
them on its module's run before it was proved.

**Payments.** `PaymentInv` adds `Progress(w)`: past `MarkCharge` the charge of
process w is PAID; up to `PostCash` it has no entry for it; between the inserts
exactly one counter is ahead. A process enters a request only when the charge is not
PAID, and by `PostedIsMarked` it then has no entry for it. `OwnStep` shows that a
step keeps this for the process that takes it, `StepKeeps` and `OthersKeep` that a
step changes only its own process's counters and that PAID rows stay PAID, which is
all the others rely on. `SettledStaysFrozen` needs types only: no process holds a
settled charge, so no statement touches it, and `Notify` turns it away. The
refinement uses the same invariant: `Progress` gives each writing statement the
guard of `Booking!Write`, and `RecordWritten` turns one insert into one record of the
mapped table.

**Sums.** `SumFunction` of the community modules is a fold, which takes the elements of
a set in an order that `CHOOSE` fixes. What the models need is that the order does not
matter. The library's induction theorems take an operator as a parameter, which the
provers cannot instantiate, so `SumTheorems` argues with sets: among the subsets a claim
fails for, one has the fewest elements (`SmallestSet`, from the well-foundedness of `<`
on Nat), and the claim holds for it without the element the fold takes first.
`FoldExists` shows that the fold's recursive definition has a solution, `FoldIsUnique`
that it has one only; `SumRemove` and the others follow.

`BooksBalance` follows the gap between the two accounts charge by charge: the first
insert opens it and puts the process between the inserts, the second closes it and
takes the process away, a death takes it away and is counted.

**Checkout.** `WorkerInv(w)` says for each statement of `create_session` which rows of
the request exist (past the approval, the checkout and risk rows; in `Booking`, the
reservation; while the plan is written, how the lengths of the three lists are offset),
`RequestInv(r)` what is left of that when the worker has died. The two meet because no
request is with two workers (`OneEach`). `OwnStep` reduces every statement to its own
worker and request. `NoReservationLost` needs beside it that no request is reserved
twice, since its worker is past the reservation for good. `CounterInv` strengthens
`VelocityBound` by the value the counter has: at one, the second application is still to
come. `OvercommitBounded` is proved by a second invariant, `RaceInv`. Let `Racing(k)` be
the workers that read customer k and may still reserve. What is used exceeds one limit
per worker that does *not* race by no more than what the last reader saw. A reader joins
with what is used now; a reservation adds at most the limit less what its own worker
saw, and takes that worker out of the race. Only cardinalities and no sum are needed,
and the bound holds for every mix of amounts.

**Lending.** `LimitCoversDebt` speaks of the `used_limit` that is stored, and others may
store theirs: a payment that has read it, the open form. `DebtInv` says of each of these
values that it covers the debt as well. It counts every booking as received
(`Received`), since every booking releases its amount, and the amounts that were booked
and not yet released (`Pending`) as if they were released already. Then a booking moves
an amount from one sum to another, a release stores at least what it read less an amount
that is no longer pending, a read or a form copies a value that covers, a reservation
raises the stored value and the loan alike and, if somebody holds an older value, what
counts as overlapped. `ReceivedSplits` then takes `Received` apart into each payment
once, which is what the customer no longer owes, and what was booked again (`SumPlus`).
`Checkout` enters this proof by one lemma (`StoreStepKeeps`): a clerk's step reserves
one total or leaves the limit alone. `BookingInContext` rests on `Apart`: checkouts and
the office leave rows that say PAID, the entries and the events of payments, and the
processes that book them as they are.

**Collections.** Three invariants. `CalendarInv` (types, and that what a run lists or
works on is past due, so that its rule orders a new code: `LateIsReissued`);
`ChargeInv`: an ACTIVE charge is the only one of its installment, and between expiring
and reissuing there is none; `MailInv`: for every message still in a notify call, that
it was not sent before, and that each channel of a reminded customer was tried or is
further on in the same call. The first message of a call decides for `has_recent`, so
the proof follows the call to its end. `Payments`' actions keep them by the lemmas of
`PaymentsProofs`, which the module extends.

**WebhookDelivery, Settlements, PortalSession.** One event, one payout request, one tab
at a time: the invariant relates a row to where its task (request, login) stands, and a
lemma shows that steps of the others leave it alone. In `Settlements` the list of a
request (`todo`) is what ties it to the others: a checkout on the list is not yet posted
by this request, and one off the list has a settlement. `AnnouncedIsPosted` follows the
list as it was read (`listed`): each of its checkouts is still on the list, or the
current one, or posted on both accounts. In `PortalSession` the form is disabled exactly
while a login is under way, so the profile asked for is the token's. Between
`SaveFailed` and `Retry` a task has counted one attempt more than it was retried. For
the refinement `ArrivedInv` ties what arrived to the attempts: no more copies than
attempts counted, and one for the post whose outcome is still to be saved.

**Identity.** Each service keeps an invariant while the others stay at their start. For
`GuessesBounded` it counts: attempts plus the calls let past the check are at most two
plus the number of workers (`Headroom`), and the guesses compared are at most the
attempts, those calls and the deaths (`GuessesCounted`). `LockoutHolds` needs types
only, since it names everything that could still let a code through: a code that is shut
out stays so, or leaves the cache, and then only a call that has read it can bring it
on. For `RefusedForCause`, values that were looked for in vain can only have been taken
since.

Only model-checked is everything that needs fairness: `PaidIsBooked`, `PaidEventIsSent`,
`ApprovalCompletes`, `EventSettles` and `LoginSettles`. TLAPS has no rules for ENABLED.
The four runs that show a gap are counterexamples, and need no proof.

## Not modelled

- The dashboard, the merchant's reports and lists: reads of many queries, whose
  figures may not fit together, and no state.
- `update_profile` of customers and merchants, the KYC stub: one row, one statement.
- Check digits and other rules of the serializers, which refuse without a change.
- The refresh of a token, which is a library's, and which the portal never asks for.
- Messaging clients and provider stubs, beyond their outcomes; signatures, e-mail
  texts, logging, privacy helpers, throttling, migrations, settings that only configure.
- The views of the portal other than login and layout, which show what the API returns.

## State of the work

Every part with a protocol has a module; the two protocols that others rely on, the
booking of a payment and the delivery of an event, have an abstract specification; every
safety property that a run checks is a theorem. What is open:

1. Liveness has been seen in the runs only. For `EventSettles` a measure exists (the
   retries left and the statements to the end of an attempt), but the leads-to rules need
   ENABLED.
2. `BookingInContext` carries results about `Payments` over to `Lending`. For the theorems
   of `Checkout` this is not done: its `used_limit` is written by others there, so that
   `UsedIsReserved` does not hold as it stands, and `LimitCoversDebt` takes its place.
