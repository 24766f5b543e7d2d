------------------------------ MODULE Booking ------------------------------
(***************************************************************************)
(* Seats, waitlist and credits of group discussions, as the learner's      *)
(* requests drive them: services/booking.py over services/credits.py.      *)
(*                                                                         *)
(* Every request is one database transaction (core/db.py: commit when the  *)
(* handler returns, rollback on any exception).  A transaction runs in     *)
(* steps, one per SELECT ... FOR UPDATE or unlocked read after which       *)
(* another transaction may get in.  Postgres runs at READ COMMITTED: a     *)
(* statement reads what is committed when it runs, plus the transaction's  *)
(* own writes.  Those writes are applied here in the commit step; until    *)
(* then the ones a later step reads back are kept in the transaction.      *)
(*                                                                         *)
(* An object the ORM has already loaded is not refreshed by a later        *)
(* SELECT (core/db.py: autoflush=False, expire_on_commit=False and no      *)
(* populate_existing), so a transaction keeps its own copy of the booking  *)
(* rows it has read, and decides by that copy.                             *)
(***************************************************************************)
EXTENDS Integers, FiniteSets

CONSTANTS
  Learners,     \* users with the learner role
  Sessions,     \* rows of the sessions table (group discussions)
  BookingIds,   \* primary keys available to the bookings table
  Txns,         \* requests that may be in flight at once
  None,         \* no holder, no learner, no session
  Starts,       \* hours a session may start at
  Duration,     \* length of a session, in hours
  RefundHours,  \* settings.cancellation_full_refund_hours
  MaxNow,       \* bound: the clock stops here
  MaxNet,       \* bound: a booking whose ledger sum is above this is not cancelled again
  Seats,        \* values of sessions.max_seats
  Prices,       \* values of sessions.price_credits
  Balances      \* credits a learner may start with

ASSUME NoneAssumption ==
  /\ None \notin Learners /\ None \notin Sessions /\ None \notin Txns
ASSUME NumberAssumption ==
  /\ Starts \subseteq Nat /\ Seats \subseteq Nat /\ Prices \subseteq Nat
  /\ Balances \subseteq Nat
  /\ Duration \in Nat \ {0} /\ RefundHours \in Nat
  /\ MaxNow \in Nat /\ MaxNet \in Int
ASSUME FiniteAssumption ==
  /\ IsFiniteSet(BookingIds)

VARIABLES
  now,          \* the clock, in hours
  sessions,     \* the sessions table
  bookings,     \* the bookings table
  balance,      \* per learner, SUM(delta) of the credit ledger
  net,          \* per booking, SUM(delta) of the ledger rows that name it
  sessionLock,  \* holder of the FOR UPDATE lock on each session row
  userLock,     \* holder of the FOR UPDATE lock on each user row
  tx            \* what each transaction is doing and has read

tables == <<sessions, bookings, balance, net>>
vars == <<now, sessions, bookings, balance, net, sessionLock, userLock, tx>>

(***************************************************************************)
(* Rows                                                                    *)
(***************************************************************************)
\* "deleted" stands for a row that is gone (its id is never used again).
SessionStatus == {"draft", "published", "cancelled", "completed", "deleted"}
BookingStatus == {"pending", "confirmed", "waitlisted", "cancelled",
                  "attended", "no_show", "deleted"}

SEAT_HOLDING == {"pending", "confirmed", "attended", "no_show"}
Live == SEAT_HOLDING \cup {"waitlisted"}

SessionRow == [status: SessionStatus, start: Nat, max: Nat, price: Nat]
\* An id that no row has yet.
NoBooking == [status |-> "none", s |-> None, l |-> None,
              start |-> 0, spent |-> 0, pos |-> 0]
Row == [status: BookingStatus, s: Sessions, l: Learners,
        start: Nat, spent: Nat, pos: Nat]
BookingRow == Row \cup {NoBooking}

\* A booking as the ORM's identity map holds it: a copy that may be stale.
Copy == [id: BookingIds, row: Row]
CopyOf(b) == [id |-> b, row |-> bookings[b]]
Ids(copies) == {c.id : c \in copies}

SeatsTaken(rows, s) ==
  Cardinality({b \in BookingIds : rows[b].s = s /\ rows[b].status \in SEAT_HOLDING})

Waitlist(rows, s) ==
  {b \in BookingIds : rows[b].s = s /\ rows[b].status = "waitlisted"}

Overlaps(x, y) == x < y + Duration /\ y < x + Duration

\* uq_bookings_session_learner_active and ex_bookings_learner_no_overlap.
OneActivePerSession(rows) ==
  \A b1, b2 \in BookingIds :
    /\ b1 # b2
    /\ rows[b1].status \in Live /\ rows[b2].status \in Live
    /\ rows[b1].l = rows[b2].l
    => rows[b1].s # rows[b2].s
NoOverlap(rows) ==
  \A b1, b2 \in BookingIds :
    /\ b1 # b2
    /\ rows[b1].status \in SEAT_HOLDING /\ rows[b2].status \in SEAT_HOLDING
    /\ rows[b1].l = rows[b2].l
    => ~Overlaps(rows[b1].start, rows[b2].start)
Accepted(rows) == OneActivePerSession(rows) /\ NoOverlap(rows)

(***************************************************************************)
(* Transactions                                                            *)
(***************************************************************************)
Ops == {"none", "book", "cancel", "cancel_session", "delete", "attended",
        "no_show", "capacity", "price", "reschedule", "publish", "complete", "adjust"}
Steps == {"idle", "lock_session", "lock_user", "count", "promote", "pick", "commit"}

Idle == [op |-> "none", pc |-> "idle", s |-> None, l |-> None,
         own |-> {}, todo |-> {}, won |-> {}, free |-> 0, arg |-> 0,
         delta |-> [l \in Learners |-> 0]]

At(t, op, pc) == tx[t].op = op /\ tx[t].pc = pc
\* The transaction goes on with what it has read; the others do not move.
Proceed(t, r) == tx' = [tx EXCEPT ![t] = r]

\* Mutants: a row read without FOR UPDATE.
SessionUnlocked(s) == TRUE
UserUnlocked(t, l) == TRUE

SessionFree(s) == sessionLock[s] = None
UserFree(t, l) == userLock[l] \in {None, t}

\* What SUM(delta) says inside transaction t: its own rows are included.
BalanceSeenBy(t, l) == balance[l] + tx[t].delta[l]

ReleaseLocks(t) ==
  /\ sessionLock' = [s \in Sessions |-> IF sessionLock[s] = t THEN None ELSE sessionLock[s]]
  /\ userLock' = [l \in Learners |-> IF userLock[l] = t THEN None ELSE userLock[l]]

\* The end of get_db: the ledger rows become visible and the locks go.
Commit(t) ==
  /\ balance' = [l \in Learners |-> BalanceSeenBy(t, l)]
  /\ ReleaseLocks(t)
  /\ Proceed(t, Idle)

\* Any exception (a refused check, a constraint, a deadlock, a lost
\* connection, a killed process) ends the transaction with nothing written.
Rollback(t) ==
  /\ tx[t].pc # "idle"
  /\ ReleaseLocks(t)
  /\ Proceed(t, Idle)
  /\ UNCHANGED <<now, tables>>

(***************************************************************************)
(* book_group_session                                                      *)
(***************************************************************************)
\* lock_session, then the checks made under the session's lock.
BookLockSession(t, l, s) ==
  /\ tx[t].pc = "idle"
  /\ SessionFree(s)
  /\ sessions[s].status = "published"
  /\ sessions[s].start > now
  /\ \A b \in BookingIds :
       bookings[b].s = s /\ bookings[b].l = l => bookings[b].status \notin Live
  /\ sessionLock' = [sessionLock EXCEPT ![s] = t]
  /\ Proceed(t, [Idle EXCEPT !.op = "book", !.pc = "lock_user", !.s = s, !.l = l])
  /\ UNCHANGED <<now, tables, userLock>>

\* Mutant: lock_user forgotten.
BookWithoutUserLock(t) ==
  /\ At(t, "book", "lock_user")
  /\ Proceed(t, [tx[t] EXCEPT !.pc = "count"])
  /\ UNCHANGED <<now, tables, sessionLock, userLock>>

BookLockUser(t) ==
  /\ At(t, "book", "lock_user")
  /\ userLock[tx[t].l] = None
  /\ userLock' = [userLock EXCEPT ![tx[t].l] = t]
  /\ Proceed(t, [tx[t] EXCEPT !.pc = "count"])
  /\ UNCHANGED <<now, tables, sessionLock>>

\* Mutant: the ledger's sign on the booking.
SignedBooking(t, status, spent, pos) ==
  [status |-> status, s |-> tx[t].s, l |-> tx[t].l,
   start |-> sessions[tx[t].s].start, spent |-> -spent, pos |-> pos]

NewBooking(t, status, spent, pos) ==
  [status |-> status, s |-> tx[t].s, l |-> tx[t].l,
   start |-> sessions[tx[t].s].start, spent |-> spent, pos |-> pos]

\* Mutant: no balance check.
TakeSeatOnCredit(t) ==
  /\ At(t, "book", "count")
  /\ SeatsTaken(bookings, tx[t].s) < sessions[tx[t].s].max
  /\ Proceed(t, [tx[t] EXCEPT !.pc = "commit", !.delta[tx[t].l] = @ - sessions[tx[t].s].price])
  /\ UNCHANGED <<now, tables, sessionLock, userLock>>

\* The seat count and credits.spend's balance check.
BookTakeSeat(t) ==
  LET s == tx[t].s  l == tx[t].l  price == sessions[s].price IN
  /\ At(t, "book", "count")
  /\ SeatsTaken(bookings, s) < sessions[s].max
  /\ BalanceSeenBy(t, l) >= price
  /\ Proceed(t, [tx[t] EXCEPT !.pc = "commit", !.delta[l] = @ - price])
  /\ UNCHANGED <<now, tables, sessionLock, userLock>>

BookCommit(t) ==
  LET price == sessions[tx[t].s].price IN
  /\ At(t, "book", "commit")
  /\ \E b \in BookingIds :
       /\ bookings[b].status = "none"
       /\ bookings' = [bookings EXCEPT ![b] = NewBooking(t, "confirmed", price, 0)]
       /\ net' = [net EXCEPT ![b] = -price]
  /\ Accepted(bookings')
  /\ Commit(t)
  /\ UNCHANGED <<now, sessions>>

\* Mutant: the number waiting, plus one.
CountedPositions(s) == {Cardinality(Waitlist(bookings, s)) + 1}

\* max(waitlist_position) + 1, or 1: a set of one number.
NextPositions(s) ==
  LET taken == {bookings[b].pos : b \in Waitlist(bookings, s)} IN
  {p \in {1} \cup {q + 1 : q \in taken} : \A q \in taken : q < p}

\* _add_to_waitlist: no charge, the position after the last one.
BookWaitlist(t) ==
  LET s == tx[t].s IN
  /\ At(t, "book", "count")
  /\ SeatsTaken(bookings, s) >= sessions[s].max
  /\ \E b \in BookingIds, p \in NextPositions(s) :
       /\ bookings[b].status = "none"
       /\ bookings' = [bookings EXCEPT ![b] = NewBooking(t, "waitlisted", 0, p)]
  /\ Accepted(bookings')
  /\ Commit(t)
  /\ UNCHANGED <<now, sessions, net>>

(***************************************************************************)
(* cancel_booking and promote_from_waitlist                                *)
(***************************************************************************)
Cancelled(row) == [row EXCEPT !.status = "cancelled", !.pos = 0]
\* Mutant: credits_spent left at what the waitlist paid.
PromotedUnbilled(row, price) == [row EXCEPT !.status = "confirmed", !.pos = 0]

Promoted(row, price) ==
  [row EXCEPT !.status = "confirmed", !.pos = 0, !.spent = price]

\* The bookings table with what transaction t has flushed so far.
SeenBy(t) ==
  [b \in BookingIds |->
     IF b \in Ids(tx[t].own) THEN Cancelled(bookings[b])
     ELSE IF b \in Ids(tx[t].won) THEN Promoted(bookings[b], sessions[tx[t].s].price)
     ELSE bookings[b]]

\* The route's db.get(Booking), without a lock, and cancel_booking's first
\* test.  From here on the transaction decides by this copy.
CancelLoad(t, b) ==
  /\ tx[t].pc = "idle"
  /\ bookings[b].status \in Live
  /\ net[b] <= MaxNet
  /\ Proceed(t, [Idle EXCEPT !.op = "cancel", !.pc = "lock_session",
                             !.s = bookings[b].s, !.l = bookings[b].l,
                             !.own = {CopyOf(b)}])
  /\ UNCHANGED <<now, tables, sessionLock, userLock>>

CancelLockSession(t) ==
  /\ At(t, "cancel", "lock_session")
  /\ SessionFree(tx[t].s)
  /\ sessions[tx[t].s].status # "deleted"
  /\ sessionLock' = [sessionLock EXCEPT ![tx[t].s] = t]
  /\ Proceed(t, [tx[t] EXCEPT !.pc = "lock_user"])
  /\ UNCHANGED <<now, tables, userLock>>

RefundDue(s) == now + RefundHours <= sessions[s].start
\* Mutant: the session's price of today instead of what was spent.
RefundAtTodaysPrice(s, row) == IF RefundDue(s) THEN sessions[s].price ELSE 0
Refund(s, row) == IF RefundDue(s) THEN row.spent ELSE 0

\* lock_user; the row is cancelled and refunded by the copy; then
\* promote_from_waitlist counts the seats and reads the candidates.
CancelLockUser(t) ==
  LET s == tx[t].s  l == tx[t].l  rows == SeenBy(t)
      free == sessions[s].max - SeatsTaken(rows, s) IN
  /\ At(t, "cancel", "lock_user")
  /\ userLock[l] = None
  /\ userLock' = [userLock EXCEPT ![l] = t]
  /\ \E c \in tx[t].own :
       LET refund == Refund(s, c.row) IN
       Proceed(t, [tx[t] EXCEPT
                     !.pc = "promote", !.arg = refund, !.delta[l] = @ + refund,
                     !.free = IF sessions[s].status = "published" THEN free ELSE 0,
                     !.todo = {CopyOf(b) : b \in Waitlist(rows, s)}])
  /\ UNCHANGED <<now, tables, sessionLock>>

\* The waitlist is walked in order while a seat is free.
Promoting(t) == At(t, "cancel", "promote") /\ tx[t].free > 0 /\ tx[t].todo # {}
\* Mutant: no ORDER BY.
AnyCandidate(t) == tx[t].todo
Candidates(t) ==
  {c \in tx[t].todo : \A d \in tx[t].todo : c.row.pos <= d.row.pos}

CanPromote(t, c) ==
  LET price == sessions[tx[t].s].price IN
  /\ BalanceSeenBy(t, c.row.l) >= price
  /\ Accepted([SeenBy(t) EXCEPT ![c.id] = Promoted(@, price)])

PromoteTake(t) ==
  /\ Promoting(t)
  /\ \E c \in Candidates(t) :
       LET l == c.row.l IN
       /\ UserFree(t, l)
       /\ CanPromote(t, c)
       /\ userLock' = [userLock EXCEPT ![l] = t]
       /\ Proceed(t, [tx[t] EXCEPT !.todo = @ \ {c}, !.won = @ \cup {c}, !.free = @ - 1,
                                   !.delta[l] = @ - sessions[tx[t].s].price])
  /\ UNCHANGED <<now, tables, sessionLock>>

\* Mutant: the first candidate who fails ends the walk.
PromoteStop(t) ==
  /\ Promoting(t)
  /\ \E c \in Candidates(t) : UserFree(t, c.row.l) /\ ~CanPromote(t, c)
  /\ Proceed(t, [tx[t] EXCEPT !.todo = {}])
  /\ UNCHANGED <<now, tables, sessionLock, userLock>>

\* No credits, or booked elsewhere at that hour: the savepoint is rolled back
\* (and with it the candidate's lock) and the next one is tried.
PromoteSkip(t) ==
  /\ Promoting(t)
  /\ \E c \in Candidates(t) :
       /\ UserFree(t, c.row.l)
       /\ ~CanPromote(t, c)
       /\ Proceed(t, [tx[t] EXCEPT !.todo = @ \ {c}])
  /\ UNCHANGED <<now, tables, sessionLock, userLock>>

CancelCommit(t) ==
  LET price == sessions[tx[t].s].price IN
  /\ At(t, "cancel", "promote")
  /\ ~Promoting(t)
  /\ bookings' = SeenBy(t)
  /\ net' = [b \in BookingIds |->
               net[b] + (IF b \in Ids(tx[t].own) THEN tx[t].arg ELSE 0)
                      - (IF b \in Ids(tx[t].won) THEN price ELSE 0)]
  /\ Commit(t)
  /\ UNCHANGED <<now, sessions>>

(***************************************************************************)
(* Lock waits                                                              *)
(***************************************************************************)
\* The transaction whose lock t is waiting for, or None.
Blocker(t) ==
  LET holder == CASE tx[t].pc = "lock_session" -> sessionLock[tx[t].s]
                  [] tx[t].pc = "lock_user"    -> userLock[tx[t].l]
                  [] Promoting(t)              ->
                       userLock[(CHOOSE c \in Candidates(t) : TRUE).row.l]
                  [] OTHER                     -> None
  IN IF holder = t THEN None ELSE holder

\* A cycle of waits: every member waits for a member.
Cycle(C) == C # {} /\ {Blocker(t) : t \in C} = C

\* Postgres breaks a cycle by failing one member's statement.  In the
\* promotion loop that is an exception like any other: the candidate is
\* skipped.  Anywhere else it ends the transaction (Rollback).
PromoteDeadlock(t) ==
  /\ Promoting(t)
  /\ \E C \in SUBSET Txns : t \in C /\ Cycle(C)
  /\ \E c \in Candidates(t) : Proceed(t, [tx[t] EXCEPT !.todo = @ \ {c}])
  /\ UNCHANGED <<now, tables, sessionLock, userLock>>

(***************************************************************************)
(* Specification                                                           *)
(***************************************************************************)
Init ==
  /\ now = 0
  /\ sessions \in [Sessions -> [status: {"draft", "published"}, start: Starts,
                                max: Seats, price: Prices]]
  /\ bookings = [b \in BookingIds |-> NoBooking]
  /\ balance \in [Learners -> Balances]
  /\ net = [b \in BookingIds |-> 0]
  /\ sessionLock = [s \in Sessions |-> None]
  /\ userLock = [l \in Learners |-> None]
  /\ tx = [t \in Txns |-> Idle]

Tick ==
  /\ now < MaxNow
  /\ now' = now + 1
  /\ UNCHANGED <<tables, sessionLock, userLock, tx>>

Book(t) ==
  \/ \E l \in Learners, s \in Sessions : BookLockSession(t, l, s)
  \/ BookLockUser(t)
  \/ BookTakeSeat(t)
  \/ BookCommit(t)
  \/ BookWaitlist(t)

Cancel(t) ==
  \/ \E b \in BookingIds : CancelLoad(t, b)
  \/ CancelLockSession(t)
  \/ CancelLockUser(t)
  \/ PromoteTake(t)
  \/ PromoteSkip(t)
  \/ PromoteDeadlock(t)
  \/ CancelCommit(t)

Next == Tick \/ \E t \in Txns : Book(t) \/ Cancel(t) \/ Rollback(t)

Spec == Init /\ [][Next]_vars

(***************************************************************************)
(* Properties                                                              *)
(***************************************************************************)
Transaction ==
  [op: Ops, pc: Steps, s: Sessions \cup {None}, l: Learners \cup {None},
   own: SUBSET Copy, todo: SUBSET Copy, won: SUBSET Copy,
   free: Int, arg: Nat, delta: [Learners -> Int]]

\* A request is about the session, or the learner, that its operation is for.
Addressed(r) ==
  /\ r.op \notin {"none", "adjust"} => r.s \in Sessions
  /\ r.op \in {"book", "cancel", "adjust"} => r.l \in Learners

\* The type of every variable.
TypeOK ==
  /\ now \in Nat
  /\ sessions \in [Sessions -> SessionRow]
  /\ bookings \in [BookingIds -> BookingRow]
  /\ balance \in [Learners -> Int]
  /\ net \in [BookingIds -> Int]
  /\ sessionLock \in [Sessions -> Txns \cup {None}]
  /\ userLock \in [Learners -> Txns \cup {None}]
  /\ tx \in [Txns -> Transaction]
  /\ \A t \in Txns : Addressed(tx[t])

\* credits.spend refuses to go negative: whatever runs at once, no learner's
\* ledger ever sums to less than zero.
BalanceNeverNegative == \A l \in Learners : balance[l] >= 0

\* "Seats never oversell" (docs/PLAN.md): bookings that hold a seat of a
\* session are at most its max_seats.
SeatsNeverOversell ==
  \A s \in Sessions : SeatsTaken(bookings, s) <= sessions[s].max

\* A booking that holds a seat has been charged for exactly once: its ledger
\* rows sum to what the booking says was spent.  A waitlisted one is uncharged.
SeatIsPaidFor ==
  \A b \in BookingIds :
    bookings[b].status \in Live =>
      net[b] = - bookings[b].spent /\ (bookings[b].status = "waitlisted" => net[b] = 0)

\* Two learners waiting for one session never share a position, so "in order"
\* is a total order.
WaitlistIsOrdered ==
  \A s \in Sessions : \A b1, b2 \in Waitlist(bookings, s) :
    bookings[b1].pos = bookings[b2].pos => b1 = b2

Freed(s) ==
  \E b \in BookingIds : /\ bookings[b].s = s /\ bookings[b].status \in SEAT_HOLDING
                       /\ bookings'[b].status = "cancelled"
CanPay(b, s) == balance'[bookings[b].l] >= sessions[s].price

\* The learners of a session have their hours and credits for it alone.
Sole(s) == \A r \in Sessions \ {s} : sessions[r].status # "published"

\* A cancellation leaves no seat idle: when it has freed one, the session is
\* full again or nobody still waiting can pay for it.  With other sessions to
\* go to this fails: a learner whose refund elsewhere arrives after the walk
\* along the queue has passed waits on beside the free seat.
FreedSeatIsRefilled ==
  [][\A s \in Sessions :
       Freed(s) /\ sessions[s].status = "published" /\ Sole(s) =>
         \/ SeatsTaken(bookings', s) >= sessions[s].max
         \/ \A b \in Waitlist(bookings', s) : ~CanPay(b, s)]_vars

\* "Fill freed seats from the waitlist, in order": nobody is promoted over a
\* learner further up who could have paid.
PromotedInOrder ==
  [][\A s \in {r \in Sessions : Sole(r)} : \A b1 \in Waitlist(bookings, s), b2 \in Waitlist(bookings', s) :
       bookings'[b1].status = "confirmed" /\ bookings[b2].pos < bookings[b1].pos
         => ~CanPay(b2, s)]_vars

\* A learner who leaves a seat is given back what it cost, at the price of the
\* day it was booked or promoted, or nothing: never the price of today.
RefundIsAllOrNothing ==
  [][\A b \in BookingIds :
       bookings[b].status \in SEAT_HOLDING /\ bookings'[b].status = "cancelled"
         => net'[b] - net[b] \in {0, bookings[b].spent}]_vars

\* A refund never returns more than the booking cost.
RefundedAtMostOnce == \A b \in BookingIds : net[b] <= 0

(***************************************************************************)
(* Booking implements SeatLedger: every commit is one of its steps, and    *)
(* every other step of a transaction is none.                              *)
(***************************************************************************)
LearnersOf(ids) == {bookings[b].l : b \in ids}
Holders(s) ==
  LearnersOf({b \in BookingIds : bookings[b].s = s /\ bookings[b].status \in SEAT_HOLDING})
Before(s) ==
  {p \in Waitlist(bookings, s) \X Waitlist(bookings, s) :
     bookings[p[1]].pos < bookings[p[2]].pos}

Abstract == INSTANCE SeatLedger WITH
  capacity <- [s \in Sessions |-> sessions[s].max],
  price    <- [s \in Sessions |-> sessions[s].price],
  seated   <- [s \in Sessions |-> Holders(s)],
  line     <- [s \in Sessions |-> LearnersOf(Waitlist(bookings, s))],
  ahead    <- [s \in Sessions |-> {<<bookings[p[1]].l, bookings[p[2]].l>> : p \in Before(s)}],
  credit   <- balance

\* Requests in flight take effect as if one at a time, each in one step.
Implements == Abstract!Spec

(***************************************************************************)
(* What the learners' requests keep besides, for that proof                *)
(***************************************************************************)
Promotees(t) == {c.row.l : c \in tx[t].won}

\* What a request will add to the ledger is what its step of SeatLedger says:
\* a price, or a refund and the price for each learner who moves up.
ExactlyCharged(t) ==
  LET price == sessions[tx[t].s].price IN
  /\ tx[t].op \in {"none", "book", "cancel"}
  /\ tx[t].op = "book" =>
       tx[t].delta = [l \in Learners |->
                        IF tx[t].pc = "commit" /\ l = tx[t].l THEN -price ELSE 0]
  /\ tx[t].op = "cancel" =>
       tx[t].delta = [l \in Learners |->
                        (IF tx[t].pc = "promote" /\ l = tx[t].l THEN tx[t].arg ELSE 0)
                        - (IF l \in Promotees(t) THEN price ELSE 0)]
  /\ \A c \in tx[t].own : c.row.l = tx[t].l
  /\ \A c, d \in tx[t].todo \cup tx[t].won : c.row.l = d.row.l => c = d
  /\ tx[t].todo \cap tx[t].won = {}

LedgerInv ==
  /\ OneActivePerSession(bookings)
  /\ \A b \in BookingIds :
       bookings[b].status # "none" => bookings[b].spent \in {0, sessions[bookings[b].s].price}
  /\ \A t \in Txns : ExactlyCharged(t)

(***************************************************************************)
(* And what the walk along a waitlist keeps, for FreedSeatIsRefilled and   *)
(* PromotedInOrder                                                         *)
(***************************************************************************)
\* Learners have bookings, and requests, in published sessions only.
OnPublished ==
  /\ \A b \in BookingIds :
       bookings[b].status # "none" => sessions[bookings[b].s].status = "published"
  /\ \A t \in Txns : tx[t].op # "none" => sessions[tx[t].s].status = "published"

\* A learner's lock is held only by a request that has the session's already.
LockedInOrder ==
  \A l \in Learners, t \in Txns :
    userLock[l] = t => /\ tx[t].op \in {"book", "cancel"}
                       /\ tx[t].pc \in {"count", "commit", "promote"}

\* With one session to go to, a walk finds the candidates as they are, leaves
\* no seat out of its count, promotes nobody before those it has promoted, and
\* passes only those who cannot pay.
WalksTheQueue(t) ==
  LET s == tx[t].s IN
  At(t, "cancel", "promote") /\ Sole(s) =>
    /\ \A c \in tx[t].todo \cup tx[t].won : c.row = bookings[c.id]
    /\ \A c \in tx[t].won, d \in tx[t].todo : c.row.pos <= d.row.pos
    /\ SeatsTaken(SeenBy(t), s) + tx[t].free >= sessions[s].max
    /\ \A b \in Waitlist(SeenBy(t), s) :
         b \in Ids(tx[t].todo) \/ BalanceSeenBy(t, bookings[b].l) < sessions[s].price

WalkInv == OnPublished /\ LockedInOrder /\ \A t \in Txns : WalksTheQueue(t)
=============================================================================
