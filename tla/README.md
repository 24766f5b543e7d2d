# Formal models of Shevaani

Shevaani sells seats in small-group discussions and one-to-one lessons, for
credits bought through Razorpay or Stripe. It is a FastAPI application over
PostgreSQL, with Redis queues for a worker (ARQ) and a Next.js frontend. This
directory models what the program does where order matters. On the server: which
requests hold which row locks, what they read before they hold them, and what the
database and the payment providers do in between. In the browser: which calls are
under way, what each page showed when it sent them, and what their handlers do with
an answer that comes late, out of order, to another page, or never.

Paths below are relative to `src/backend/app/` unless they start with `src/` or
`frontend/`. `PROJECT.json` maps every definition to the lines it models.

## The system

| Part | State | Operations | What is hard | Here |
|---|---|---|---|---|
| Booking of group discussions (`services/booking.py`, `services/credits.py`) | `sessions`, `bookings`, `credit_ledger` | book, join the waitlist, cancel, promote | locks taken one after another, ORM copies that are stale under the lock, savepoints inside the promotion loop | `Booking`, `SeatLedger` |
| Superuser and worker operations on discussions (`services/session_admin.py`, `workers/jobs.py`, `api/routes/admin.py`) | the same tables | cancel, delete, capacity, price, reschedule, publish, complete, attendance, credit adjustment | almost none of them takes the session's lock before it reads | `SessionAdmin` |
| Payments and referrals (`services/billing.py`, `services/referrals.py`, `api/routes/webhooks.py`) | `payments`, `webhook_events`, `credit_ledger`, `referrals` | checkout, return, webhook, reward | two routes settle one payment; events are replayed, reordered, lost; the response leaves before the commit | `Payments` |
| One-to-ones and instructors' calendars (`services/scheduling.py`, `services/booking.py`, `services/session_admin.py`) | `one_on_one_sessions`, `sessions`, `instructor_engagements`, `instructor_blocks`, `users.is_active` | book (named or pooled), cancel, create, reschedule, publish, block, deactivate; four read-only views of what is free | rules no exclusion constraint can express, checked under a row lock; several formulas for one question | `Scheduling` |
| Feedback and transcripts (`services/feedback.py`, `services/transcripts.py`, `workers/jobs.py`, `api/routes/feedback.py`) | `session_transcripts`, `transcript_speakers`, `meet_aliases`, `session_feedback`, the queue in Redis | ingest, resolve speakers, sweep, generate, finalise, map a speaker, publish by hand | a model call of minutes inside a transaction while people edit what it works on; jobs that overtake each other, fail, or run again after their commit | `Feedback` |
| Checkout (`frontend/app/checkout/`, `frontend/app/discussions/[id]/checkout/`, `frontend/lib/pending-booking.ts`, `frontend/lib/razorpay.ts`) | the balance in AuthProvider, the currency, the pending record in session storage, Razorpay's windows | choose, confirm, pay, dismiss, go to Stripe and back, poll, take the seat | handlers that outlive their page, two calls in flight, a price on screen that is older than the currency | `Checkout` |
| Accounts and sign-in (`frontend/app/login/`, `register/`, `account/`, ..., `frontend/components/recaptcha.tsx`) | the cookie, the user, the captcha box, the referral code in local storage | every form, Google's button, signing out | a captcha token that may be used once and expires by itself | `Accounts` |
| My bookings (`frontend/app/dashboard/page.tsx`, `frontend/app/discussions/[id]/page.tsx`) | copies of the bookings and the session | cancel with a dialog, book | what a page promises from a copy that ages | `MyBookings` |
| Desk pages (`frontend/app/admin/`, `frontend/app/instructor/`, lists elsewhere) | the rows read, a filter, what is busy | load, filter, press, read again | reads that overlap; fourteen pages that each disable and re-read a little differently | `Desk` |
| One-to-one calendar (`frontend/app/one-on-one/page.tsx`, `frontend/lib/timezones.ts`) | zone, month, day, times | turn, choose, confirm | days counted in two time zones; reads that are called off | `Calendar` |
| Session desk (`frontend/app/admin/sessions/[id]/page.tsx` and its dialog) | a copy of the session, two busy flags | publish, cancel, delete, reschedule, roster | a deletion that refunds or not, decided from a copy and a clock | `SessionDesk` |
| Impromptu trainer (`frontend/components/tools/impromptu-trainer.tsx`) | settings, topic, phase, countdown | draw, prepare, speak, pause | a clock in a throttled tab; callbacks that captured old settings | `Trainer` |
| Meet links, reminders and e-mail, accounts on the server, pure algorithms, rate limiter, backups, analytics, back office, serializers, external clients, static pages | | | | left out, with reasons below and in `PROJECT.json` |

How they meet. A learner's checkout (Payments) adds credits to the ledger that
Booking spends. Booking, SessionAdmin and Scheduling write the same `sessions`
rows; they are kept in two state machines because the properties separate
cleanly: Booking and SessionAdmin are about seats and money in one session,
Scheduling is about the hours of one instructor. Feedback begins when a discussion
is over and reads the roster Booking leaves. The pages call the server by fetch and
share little with each other: AuthProvider's user and balance, session and local
storage, the currency. Each group of pages is a module whose server is reduced to
what those pages can tell apart, since the server's own races are the subject of
the first five. Every request is one database
transaction (`core/db.py`): it commits when the handler returns and is rolled
back on any exception.

## The modules

| Module | What it is |
|---|---|
| `SeatLedger` | the abstract promise of booking: take a seat, join the queue, leave; one step each. A queue is who is in it (`line`) and who is ahead of whom (`ahead`) |
| `Booking` | learners' requests as transactions; implements `SeatLedger` |
| `SessionAdmin` | extends `Booking` with the superuser's and the worker's operations |
| `Payments` | checkout, return, webhook, referral reward, and the provider |
| `Scheduling` | the calendars of instructors |
| `Feedback` | transcripts, their speakers, and the learners' reports |
| `Checkout`, `Accounts`, `MyBookings`, `Desk`, `Calendar`, `SessionDesk`, `Trainer` | one tab each: the groups of pages named above |
| `Frontend` | composes them: an instance of each over variables of its own, one of which is open |
| `MCBooking`, `MCSeats`, `MCSessionAdmin`, `MCPayments`, `MCScheduling`, `MCFeedback`, `MCFrontend` | instances for TLC: symmetry, the shapes `MCSeats` and `MCFrontend` start in, time zones and months |
| `BookingProofs`, `SeatProofs`, `PaymentsProofs`, `SchedulingProofs`, `FeedbackProofs`, `PurchaseProofs` (checkout, accounts), `TrainerProofs`, `PagesProofs` (my bookings, desk, calendar, session desk; the types of all the pages) | theorems and proofs |

### Transactions, common to the server's modules

PostgreSQL runs at READ COMMITTED. A request is a record `tx[t]` with an
operation `op` and a step `pc`; a step ends where another transaction can get
in, that is at each `SELECT ... FOR UPDATE` and after each unlocked read that is
used later. A lock is a variable from rows to holders; who cannot take it has no
step. Writes take effect in the commit step, together with the release of the
locks, and what a transaction reads of its own writes before that is kept in its
record (`SeenBy`, `BalanceSeenBy`). That a flushed but uncommitted row blocks a
conflicting insert is part of the commit step too: constraints are evaluated
against committed rows when the later one commits. `Rollback` may end a request
at any moment; it stands for refusals, errors, the victim of a deadlock and a
process that dies.

The ORM does not refresh an object it has already loaded (`autoflush=False`,
`expire_on_commit=False`, no `populate_existing`), so a request that locks a row
after having read it still decides by its copy. `Booking` keeps those copies
(`Copy`), `Scheduling` keeps the hour a session was read with (`copy`), and
writes only the columns that differ from it (`Rescheduled`).

### Booking and SessionAdmin

`BookLockSession`, `BookLockUser`, `BookTakeSeat`/`BookWaitlist` and `BookCommit`
are the statements of `book_group_session`. `CancelLoad` is the route's unlocked
read, then come the two locks, the refund decision (`Refund`, by the copy) and
the promotion loop: `PromoteTake`, `PromoteSkip` (the savepoint is rolled back)
and `PromoteDeadlock` (PostgreSQL fails one statement of a cycle of waits, and
the loop's `except` skips that candidate). `SessionAdmin` has a Load and a
Commit action per operation, because what lies between them is unlocked; the
bookings `cancel_session` has read are refunded one learner at a time.

Abstractions: sessions exist from the start as drafts or published ones; a row
that is deleted keeps its id with status "deleted"; `min_seats` is left out
(`auto_cancel_underfilled` is `cancel_session` chosen by a count, and any session
may be cancelled at any time); `release_expired_holds` finds nothing, because no
code creates a PENDING booking.

### Payments

`CheckoutOpen` opens the provider's order before `CheckoutCommit` inserts the
row. `VerifyLoad`, `VerifyAsk` and `VerifyLock` are the buyer's return,
`WebhookInsert` and `WebhookLock` the provider's message; both end in
`settle_paid`, whose decision is `LockPayment`, whose reward is
`RewardReferrer`/`NoReward`, and whose writes are `SettleCommit`. `Respond` comes
before the commit, as FastAPI runs the exit code of a dependency with `yield`
after the response. `Pay`, `Decline`, `Expire` and the repeated `Deliver` are the
provider, modelled from how the code uses it.

Abstractions: signatures and the choice of provider and currency are data;
REFUNDED is a status nothing sets; the locks foreign keys take are left out.

### Scheduling

Time is a row of slots of one local day, all of it ahead. `Available` is
`assert_instructor_available`, the pages are `AvailableSlots` and `OpenSlots`,
the prefilter of the pool is `FreeAt`, and the constraints of the first migration
are `EngagementsDisjoint`, `BuffersDisjoint` and `LearnerFree`. Credits are
Booking's subject: a learner who cannot pay is a `Rollback`, and so is a learner
whom one of their group bookings keeps. `Move` keeps a session's length, `Resize`
gives it another: the code is one (`Reschedule`), the difference is what
`duration_minutes` carries.

### Feedback

The scope is one session. A job is a record `job[w]` of a worker's slot: its kind,
its step, the copies it has read (`read`) and changed (`copy`), and the rows its
transaction has written and so keeps locked (`holds`). An UPDATE carries the
columns in which the two copies differ (`Patch`). `IngestRead` to `IngestAnnounce`
are `ingest_fireflies_transcript`, with `Resolved` for `resolve_speakers` (best
first, the margin between the first and the second candidate, elimination);
`SweepRead` to `SweepCommit` the cron job; `GenerateRead`, `GenerateDraft` (the
model has answered, the rows are read) and `GenerateWrite` the automatic drafts;
`FinaliseRead` to `FinaliseCommit` the instructor's button, with a step wherever it
waits for the database or the model. `MapRead` and `MapCommit` are the speaker
dropdown, `BackOfficeMap` and `BackOfficeStatus` the edits of sqladmin. `Fail` ends
a job without a trace, as ARQ does not run a job again that has raised; `Interrupt`
puts it back on the queue, possibly after its commit.

Abstractions: a report is who its text takes each speaker for and which job wrote
it; name similarity is a table of scores (`Score`), aliases score 98; the roster
does not change; the transcript's text is the same at every fetch. Rows of one flush
are locked together, so a circle of waits between jobs is not explored: PostgreSQL
would fail one of them, which is `Fail`. Mailing a report, `last_error`, and
deleting aliases in the back office are left out.

### Pages, common to the frontend's modules

A call to the API is a record in `calls`: sent, answered (or failed) by the server,
and applied by the code after its `await`. These are three steps, so that anything
can happen in between: another answer, another click, another page. A handler goes
on after its page is left; what it sets there has no effect (`mine`, `Orphaned`),
what it does to storage, the router and AuthProvider has. React runs an effect after
the render that changed its dependencies, and no event of the page comes between:
the effect is part of the step (`GoTo`, `Resumed`, `Superseded`). A button that is
`disabled` on screen has no step; `Shown` and the operators named after the pages
(`CheckoutShown`, `SettingsButton`, `Drawn`, ...) are the conditions of the JSX.
`left` counts what is bounded: visits, clicks, troubles. Pushing a route is taken as the
moment the old page is unmounted; that it stays on screen until the navigation commits,
its button freed again by the handler's `finally`, and that going from
`/checkout?slot` to `/checkout` keeps the component, is not modelled (`GoTo`).

`Checkout`: `Visit` opens a page and what it reads; `Pay` and `ApplyStart` lead to
Razorpay's window (`modals`, `PayInWindow`, `Dismiss`, `ApplyHandOver`) or Stripe's
page (`PayAway`, `Abandon`); `PollTimer` and `ApplyVerify` are the success page,
`ApplySeat` the booking it makes from the pending record. `Answer` is the server,
external here and modelled in `Booking` and `Payments`.

`Accounts`: the forms differ in which fields, captcha and buttons they have
(`Boxed`, `LoginButton`, ...) and in what an answer does (`ApplySignIn`, `ApplyError`,
`ApplyDone`, `ApplyVerify`). The captcha box has a token: `DropToken` is
its expiry, `ResetBox` what empties it after an attempt.

`MyBookings`: `server` has the session, the seat and the balance, `page` the copies.
The dialog is about an id (`asking`) and shows the list's current booking (`Open`); what
it says of the refund deadline it says by the clock of its last drawing (`drawn`), and
only a change of state draws it again (`Shows`), never the passing of time (`Hours`).
`Cancel` and `Book` take along with the call what the page said at the click (`told`),
`AnswerCancel` and `AnswerBook` add what the server did (`delta`) and whether what was
said had become untrue (`PlaceMoved`, `OfferMoved`), and `NeverWorseThanShown` compares.
Time is hours to the start, around the refund deadline.

`Desk`: fourteen pages as `Kinds`, with sets that say in what each differs
(`OneAtATime`, `SpinsAgain`, `LoadClears`, `PressClears`, `AnswersItself`, ...) and an
operator for each page's buttons. A row is on or off (done, blocked, published);
`seen` is how many of the page's own presses a reading had taken in. `Finalize` and `Poll` are the transcript page's wait for reports.

`Calendar`: times are numbers, `DateKey` is the date in a zone, `Availability` the
API's days in the booking zone, `From`/`Days` the range the page asks for, `Landed`
what it selects by itself.

`SessionDesk`: `page.copy` is the session last read, `page.card` what the delete card
said and asked for when the page was last drawn (`Drawn`, by the clock of that moment);
`Delete` takes the card along with the call, and `Answer` settles what the deletion does
(`fate`).

`Trainer`: `timer` has the deadline and what the screen last showed; `Pass` is time,
at most `Gap` units between two ticks of a running countdown; `Pause` counts from the
shown value, as the code does.

Abstractions: text that is typed, notices, sound, animation and what only a reader
sees; `MyBookings` leaves out joining a call and past bookings, `SessionDesk` the
details form. One tab: session storage is a tab's own, and two tabs meet only at the
server, whose copies change under the page in every module (`OthersAct`, `SeatMoves`,
`Reprice`, `CallOff`, `OthersBook`, `Webhook`).

## What is checked

Twelve runs. `CHECK_DEADLOCK FALSE` everywhere: the bounds (row ids, clock,
copies) let a small instance come to its end.

| Run | Instance | Question |
|---|---|---|
| `SeatsAndWaitlist` | 3 learners at 1 session of 1 seat with clock 0..1 around the refund deadline, or 2 learners with credits for one seat at 2 sessions; 4 booking ids, 2 requests | seats, charges, queue and promotions in every interleaving; Booking implements SeatLedger; one credit is never spent twice, lock cycles included |
| `CancelAndDelete` | 2 learners, 1 session, 2 requests, clock 0..3 | the invariants of the proofs under cancellation, deletion, publication, completion, adjustment; a cancelled booking stays cancelled |
| `SessionEdits` | 2 learners, 1 session of 1 or 2 seats, prices 0 and 1 | what a request remembers of the rows it has read (`ClaimInv`) under edits and attendance; a refund is the price paid or nothing |
| `Settlement` | 2 payments of one referred user, 2 requests, one failure at any point | granted once, rewarded once, paid is final, recorded means applied, and the invariant behind the last (`AInv`) |
| `Backstop` | 1 payment, 2 events, no return | liveness: a paid order ends in credits |
| `InstructorCalendars` | 2 instructors who also book lessons, 2 sessions, 2 requests, 2 slots and a buffer of one | the calendar's rules, blocks (in `CInv`), who can wait for whom in a circle, and what the pages offer |
| `OpenCalendar` | 1 instructor, 2 sessions of length 1 or 2, 3 slots | what the constraints still promise when unlocked publications and resizings have broken the buffers |
| `FeedbackReview` | 1 learner and the host, 2 speakers of whom the resolver places one, 2 jobs at once, 1 arrival, 1 finalisation, 1 mapping, 1 back-office edit, 1 failure | nothing published is withdrawn or leaves a speaker unattributed; the resolver respects earlier answers; a reviewed transcript is taken up |
| `Frontend` | any one of the seven groups of pages; 1 discussion, 1 payment, 2 currencies (alike, so one to start with), 2 captcha tokens, 2 bookings, 2 rows, 3 time zones, months of 2 days, 2 topics, 1 pause; 1 or 2 visits, clicks and polls, 1 trouble | what a page said is what happens, nothing that was to be kept is lost, no page is stuck |
| `RefundedTwice`, `AnsweredBeforeCommit`, `OfferedSlotRefused` | as small as shows it | a statement of the repository the code does not keep, see below |

Why the bounds are enough. Two requests at once exhibit every pairwise race of
lock, read and write; a third learner is there because promotion order needs two
learners waiting. The second shape of `SeatsAndWaitlist` (two sessions, `Crossed`) is
where locks form a circle: two cancellations that promote into each other's learners.
`FreedSeatIsRefilled` and `PromotedInOrder` speak of the session alone in the first
shape (`Sole`), since a refund at another session may arrive after the walk. One failure
suffices since the code keeps no count of failures. The bound on the clock lets a request begin before and commit after
the refund deadline, the start and the end of a session. `MaxNet` and `MaxBalance` stop
unbounded refunds and grants; nothing the properties say depends on them. In the
calendars two slots and a buffer of one slot are the smallest day on which an
hour can be free of overlap and too close; two instructors who are each other's learners
are the smallest circle of bookings. In `OpenCalendar`, with one instructor, the
learner's half of `NobodyTwiceAtOnce` follows from the instructor's: what it says of
several instructors is the theorem's. In `FeedbackReview` both labels resemble
the learner and the second resembles the host too little for elimination, so that
the transcript needs a person; the mapping and the back-office edit are one to answer
and one to take an answer back while a job runs, and the failure may be the job that
runs twice. The notetaker's own label is not in this instance. `Ops` and `AdminOps` choose which
operations a run has, so that each run stays small and each operation is in one.

In `Frontend` one group of pages is open, chosen at the start: the groups share
nothing but the user, and each reads what others change from its own server. A learner
has two bookings, whose cancellations overlap, while nothing else goes wrong, or one
while something does. Two calls of each kind in flight show every overtaking; one trouble per behaviour
(a call that fails) is enough as no handler counts failures; two polls of the success
page are a first and a last one. Two rows and two filters tell "mine" from "another".
Months of two days of three hours, with zones one hour ahead and two behind, have days
at both ends of a month that another zone counts in the neighbouring one; the visitor
starts abroad with at most one time taken, and goes on to other zones and other
times. In the
trainer `Gap` two and one pause give a tick that comes late before and after it.

Fairness is assumed in three runs. `Backstop`: weak fairness of each request that has
begun (uvicorn serves what it has accepted) and strong fairness of each event's
delivery until a 200 (both providers retry). `FeedbackReview`: weak fairness of the
worker as a whole, which goes on with its jobs, its queue and its cron. `Frontend`:
weak fairness of `Goes`, that is of the program as a whole: while calls, handlers or
timers are due, one of them happens (fetch answers or fails, the event loop runs
handlers and timers, time passes). The modules' own `FairSpec` ask it of each kind; the
run assumes the weaker. Nothing is assumed of buyers, learners, instructors or the
back office.

### Where the code differs from what it says

* `RefundedTwice`: `cancel_booking` tests the status on the copy it loaded before
  the locks; two cancellations at once both refund.
* `AnsweredBeforeCommit`: a webhook whose commit fails has been answered 200, so
  the provider does not send it again; "the one case where a retry helps" is lost.
* `OfferedSlotRefused`: the buffer constraint widens both ranges, so the database
  asks two hours between two one-to-ones where the pages and the check ask one.

Two more are in the models, where a property names the exception, and have no run:

* "The policy, said before the button rather than after"
  (`frontend/app/dashboard/page.tsx:287`): the cancel dialog computes the hours to the
  start when it is drawn and no timer draws it again. Left open across the deadline it
  still says "Cancel and get it back", and the server gives nothing back.
  `NeverWorseThanShown` excepts the calls whose deadline passed between the drawing and
  the answer, and no others; without that exception TLC finds them.
* "Lock ordering, to keep deadlocks out" (`services/booking.py:3`): a one-to-one takes
  the instructor's row and then the learner's, both in `users`, and nothing keeps an
  instructor from booking. Two who book one another wait for each other, and PostgreSQL
  fails one of the bookings. `OnlyInstructorsDeadlock` says that this is the only kind of
  circle.

Seen in the models and not kept as runs, because they are the same unlocked read
in other places: attendance marked on a waitlisted booking, or a capacity lowered
beside a booking, oversells a session; a booking in flight survives
`cancel_session`, keeps its old hour through `reschedule_session`, and goes with
its charge in `delete_group_session`; a session cancelled between the read and
the write of `publish_session` is published again; a learner promoted while the
session is being cancelled is charged and not refunded; `cancel_session` locks
learners in an order of its own and can be the victim of a deadlock. The hazards
in `PROJECT.json` name the lines.

Seen in the code and in no property (the list in `PROJECT.json` is kept to what the
runs are about): capacity counted outside the session's lock (`services/session_admin.py:128`),
publication over a cancellation (`:220`) and deletion on an unlocked count (`:256`);
promotion after the session began (`services/booking.py:361`), a pooled booking's locks
over several instructors (`:262`), a candidate's `is_active` read before the lock
(`:258`); an event about an order not yet committed, recorded as unknown
(`services/billing.py:592`), and a duplicate event flushed outside its savepoint
(`:567`); a session cancelled or moved
while a sync job waits for Google (`workers/jobs.py:120`);
reset tokens tested on an unlocked copy (`services/passwords.py:115`). Under `frontend/`:
two refreshes of AuthProvider, or two loads of the dashboard, whose first answer comes
last (`components/auth-provider.tsx:30`, `app/dashboard/page.tsx:327`); the roster of a
session closed meanwhile (`app/admin/my-sessions/page.tsx:39`); a details form that
sends all its fields over someone else's edit, and a reload that drops what was typed
(`app/admin/sessions/[id]/page.tsx:299` and `:56`); a second finalisation that is
reported done at once (`app/admin/feedback/[id]/page.tsx:89`); a credit adjustment sent again
after its answer was lost (`app/admin/learners/[id]/page.tsx:56`); both forms of the
new-session page in flight at once (`app/admin/new/page.tsx:77`); a reCAPTCHA script that failed once and
is never loaded again (`components/recaptcha.tsx:47`); a confirmation that arrives late
and clears the pending record of another session
(`app/discussions/[id]/checkout/page.tsx:141`), which `RecordKept` allows: the booking that
drops a record must have its place, not the record's.

Read in the code and visible without a run: cancelling a one-to-one never cancels its
session row, so the hour "goes back to the open calendar" (`services/booking.py:357`)
only in the comment. The success page books the pending record after whatever payment
it settles, though "the payment was for exactly this seat"
(`frontend/app/checkout/success/page.tsx:51`): a top-up in the tab where a discussion's
checkout was left takes that seat. In Feedback:

* "regeneration never touches a published row" (`services/feedback.py:20`) holds of the
  status, which is what `PublishedStaysPublished` says. The text is another matter: a
  generation that has read a row as a draft overwrites it after somebody publishes it.
* Two finalisations that overlap can ship "stale reports from before a remap": the
  later one skips the rows the earlier one has just published.
* The sweep is said to queue RESOLVED transcripts without reports again
  (`workers/jobs.py:536`) but asks only for those under review; a generation that dies
  is not repeated, as ARQ retries only what asks for it ("let ARQ retry with backoff").
* The sweep queues generation before it commits, against `workers/queue.py:3`.
* Correcting a wrongly learned alias adds a second one; from then on both people
  score alike for the label and the resolver leaves it to a human for ever.
* Two edits at once can map two speakers to one person; the check is on copies.

## What is proved

For any number of learners, sessions, instructors, payments, events and
requests, from the named assumptions on the constants (`None` is not a row and
not an event, numbers are numbers, booking ids are finitely many):

| Theorem | Says | Rests on |
|---|---|---|
| `BookingProofs!TypeCorrect`, `FundingInvariant`, `CreditsNeverNegative` | types; no ledger sums below zero, all administrative operations included | `IInv` |
| `BookingProofs!ClaimInvariant`, `WaitlistOrder`, `RefundExact` | no place in a queue is given twice; a refund is what was spent or nothing; all operations included | `ClaimInv` over `IInv` |
| `BookingProofs!PaidInvariant`, `SeatsPaidFor`, `CancelledStaysCancelled` | every seat is paid for, a cancelled booking stays cancelled, without attendance | `PaidInv` over both |
| `SeatProofs!SeatInvariant`, `SeatsSafe` | seats are never oversold without attendance and capacity changes | `SeatInv` over `IInv` |
| `SeatProofs!LedgerInvariant`, `BookingImplementsLedger` | learners' requests implement `SeatLedger`: every commit is one of its steps, every other step is none | `LedgerInv` over the four |
| `SeatProofs!WalkInvariant`, `FreedSeatsRefilled`, `PromotionsInOrder` | with one session open a freed seat is refilled while somebody waiting can pay, and in order | `WalkInv` over the five |
| `PaymentsProofs!PaymentsInvariant`, `GrantedExactlyOnce`, `RewardedExactlyOnce`, `PaidStaysPaid` | a paid payment is granted once, a referral rewarded once, paid is final | `PInv` |
| `PaymentsProofs!AppliesInvariant`, `RecordedIsApplied` | no event of a paid order is recorded without its credits | `AInv`, which has `PInv` in it |
| `SchedulingProofs!CalendarTypes` | types, with every operation | `TInv` |
| `SchedulingProofs!OnlyInstructorsWaitInCircles` | "instructor, then learner": a circle of waits has only bookings of instructors in it, each waiting for the row of the next one's instructor | `LInv` over `TInv` |
| `SchedulingProofs!CalendarInvariant`, `CalendarSafe`, `BlocksSafe` | no overlap, buffers kept, nothing in blocked time, without publications and resizings | `CInv` over both |
| `SchedulingProofs!OffersSafe` | the pages, the prefilter and the check agree about every hour, with every operation | `TInv` |
| `SchedulingProofs!NobodyTwice` | no instructor and no learner is in two sessions at once, with every operation | `NInv` over `TInv` |
| `FeedbackProofs!FeedbackInvariant` | a finalised report leaves no speaker unattributed | `FInv` itself |
| `FeedbackProofs!PublishedKept` | only the back office withdraws a published report | `FInv` |
| `FeedbackProofs!SpeakersKeptApart` | the resolver overwrites no answer and takes no two speakers for one person | `JobsApart`, `Spread` of every pass |
| `PurchaseProofs!NoButtonIsStuck`, `OrdersAreAsShown` | a disabled button of the checkout has something to wait for; an order is in the currency its button quoted | `CheckoutInv` |
| `PurchaseProofs!RecordsAreKept` | the pending record goes only by a booking that has its place | `KeptInv` over `CheckoutInv` |
| `PurchaseProofs!TokensAreSpentOnce` | a captcha token the server has seen is never ticked in a form again | `TokenInv` |
| `PagesProofs!NothingIsWorse` | a cancellation or a booking takes no more than the page said when it was drawn, unless place, price, last seat or deadline have passed since | `MyInv` |
| `PagesProofs!DeskIsCurrent` | a desk page at rest shows what its person did | `DeskInv` |
| `PagesProofs!MonthsAreWhole` | a month on screen is the whole month | `CalInv` |
| `PagesProofs!DeleteIsHonest` | a deletion does what its card said | `SessionInv` |
| `PagesProofs!PagesTyped` | the types of whichever pages are open, with numbers that tell requests apart and one live read of the calendar | `CheckoutInv`, `AcTypeInv`, `MyTypes`, `DeskTypes`, `CalTypes`, `SessionTypes`, `TypeOK` of the trainer |
| `PagesProofs!TrainerAmongPages` | the trainer's two properties, among the other pages | the trainer's own |
| `TrainerProofs!TrainerTypes`, `RoundConsistent`, `ExtraTimeBounded` | clock, settings and topic agree with the phase; no phase is stretched by more than a late tick per wait | `TypeOK`, `RoundIsConsistent`, `TimeInv` |

The invariants share one idea, which is also the program's: what a request has
found out and is about to act on is protected by a lock it holds. `IInv` says that
a learner is being charged only by the holder of the learner's lock, within the
balance. `SeatInv` says that who counts seats holds the session's lock and has
room for what it is about to write. `PInv` says that who grants holds the
payment's lock over an unpaid row, and who rewards the referral's over an open
one. `CInv` says that between check and commit a request holds the instructor's
row and the check is still true; the step lemmas show that a calendar fills up
only by the commit of the request that holds its row. None of the properties is
inductive without these: the moment between the check and the write is a state
of its own.

Where a copy is stale, the invariant says what of it is still right. `ClaimInv`:
what a cancellation's copy says was spent is what the row says or nothing, since
only a promotion changes it, from nothing, under the session's lock, and a
cancellation promotes others only. `PaidInv`: those on a walk's list are waiting until the
walk commits. `AInv`: the event a webhook is at is its alone, and from the
payment's lock on either it grants what the event says or the payment is paid
already. In Feedback the copy takes the place of the lock: `FInv` says that a
finalisation carries a complete mapping of its own from check to commit (edits of the
table cannot reach it), and that a generation about to write knows of no published
row among those it writes; the UPDATE of changed columns does the rest. In the browser it is what a
call took along: `TokenInv` says that a token which is on its way and still in the box
belongs to a call whose page is still there, so that its handler takes the box away;
`SessionInv` that a card which asks for refunds says so, and a call to delete carries what
its card said; `MyInv` that a call carries what its page told the learner of the very row
it was drawn from, or knows that the row has moved; `CalInv` that a call asks for the whole
of the month it is for, a day to either side, and its answer holds whatever was open then;
`DeskInv` that on a page where nothing has overlapped the one call under way, if any, was
made under the filter that is chosen, and that pages which disable their buttons never
overlap; `CheckoutInv` that every order is being opened in the currency it was quoted in,
and that each disabled button has its window, its call, or the refresh that follows the
call; `KeptInv` that a call told of its place is right about it; `TimeInv` that the time spent and the time left exceed the phase's by one
late tick for each pause at most.

The refinement maps a row that holds a seat to a seated learner, a waitlisted one to a
place in line, and the order of positions to who is ahead of whom. `LedgerInv` has what
it takes: a learner has one live booking of a session (so that counting rows is counting
learners), and what a request will charge is the price, or its refund and the price for
each learner who moves up. A cancellation whose booking was cancelled meanwhile is a
`Leave` with nobody leaving: `SeatLedger` allows the second refund that `RefundedTwice`
shows. `WalkInv` is about the promotion loop. With one session open, its lock leaves
the walk alone: whoever holds a learner's lock has a session's first (`LockedInOrder`),
so no other request holds one, none can fail it by a circle of waits, and nothing it has
counted or read changes. Then only the balance decides, the count of free seats is exact,
and nobody it has passed gets richer.

`IInv`, `ClaimInv`, `SeatInv`, `AInv` (with `PInv`), `CInv` and `FInv` are also
invariants of runs; `PaidInv`, `LedgerInv`, `WalkInv` and `NInv` are what the proofs of
properties of the runs need besides.

Each proof goes operation by operation: lemmas about the common steps (a request
that proceeds, releases, takes a lock, writes a row), one step per action of the
next-state relation, a `QED` by PTL.

The restrictions of `SeatsSafe`, `SeatsPaidFor`, `CancelledStaysCancelled`, `CalendarSafe`
and `BlocksSafe` are not conveniences: with
the excluded operations the statements are false, for the reasons above. The refinement
and the walk are about learners' requests (`Spec`): the superuser's edits are no steps of
`SeatLedger`. With a second session open, a refund that arrives there after the walk has
passed leaves its learner waiting beside a free seat.
`OnlyInstructorsWaitInCircles` assumes nothing of who is what: instructors may be
learners. That no circle exists if they are disjoint is a special case of it. It is about
the rows of `users` in one-to-ones, discussions and blocks; a session's own row is
Booking's subject.

Types are seldom inductive either. That two requests of one kind never share a number
is a counting argument: among one more number than there are requests one is free
(`FreshNumber`: the requests under way are a finite set, and have no more numbers than
members), so the number a new request chooses is; answers keep it, and closing the
session's dialog, which marks every request of the dialog, takes a set of requests to
one with the same kinds and numbers (`SdDisowns`). `MyTypes` adds that the server charges
what there is, so that no balance is less than nothing; `DeskTypes` that one request at a time is
about a transcript and none during a pause, which is why the polls stay within their
limit, and that nobody has seen more presses than there were; `CalTypes` that a read
calls off the one before, and that a day on the page has an open time, so that the
earliest of them, which the page lands on, exists (`Least`); `SessionTypes` that every row an answer
carries is a session's; `AcTypeInv` that only a refresh, a logout and a verification
name nobody, so that signing in signs in somebody.

Only model-checked: liveness (`PaidIsCredited`, `ReviewLoopCloses`, `NoPageIsStuck`): this
prover has no rule for fairness. Every invariant, action property and refinement of the
runs that pass is stated by a theorem, some with the restrictions above.

The resolver is the one recursive definition a theorem is about. `SpeakersKeptApart`
needs to know what its greedy pass computes, and that it computes anything: `Greedy` is
some function that satisfies its equation only if there is one. `GreedyUnfolds` shows that
there is. The outcomes of a pass are those in every set closed under its rounds, each has a
reason (`OutcomeHasReason`), and so each pass has exactly one (`OneOutcome`). The
induction, there and in `GreedySpreads`, is from a least counterexample: a round leaves
fewer labels open (`RoundShrinks`), and a set of numbers has a least one (`Least`, from the
library's `WFMin`, which takes a set and no operator). `Spread` is what goes through the
induction: a pass changes only labels still open, each to somebody nobody was taken for
and no other label gets.

The theorems about the pages are about `FrontSpec`, the composition that `MCFrontend`
checks from fewer initial states: a lemma for each group says that whatever moves while the group is open is a step
of the group, another that such a step keeps the group's invariant, and the property
follows by PTL. What they assume of the constants is `FrontendAssumption`: numbers are
numbers, times are whole numbers, zones are less than a day apart, what is sold in is
among the currencies, and `None` is not a session, a time or an answer.

## Not modelled

* Meet links and the jobs that keep them (`workers/jobs.py`,
  `integrations/google_calendar.py`): what a lost answer leaves behind is Google's
  calendar to say. Their own races are unlocked reads like those of `SessionAdmin`.
* Reminders and e-mail: wording, delivery and time windows.
* The server's side of accounts: links that are replaced by newer ones, the resend
  interval, the signup bonus, the cutoff that ends older logins. `Accounts` has the
  forms that use them and chooses the answers freely.
* Pure functions without state: prices, slugs, the discussion score, backup retention.
* The rate limiter: one atomic counter and one comparison.
* Site settings, analytics, the back office, serializers, migrations, the command
  line, clients of external services: reads, forms and I/O without decisions of their
  own. The constraints of the migrations that decide something are definitions of
  `Booking` and `Scheduling`.
* Static pages, layout and widgets: no state that outlives a render.
