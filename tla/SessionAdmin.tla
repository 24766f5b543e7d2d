---------------------------- MODULE SessionAdmin ----------------------------
(***************************************************************************)
(* The superuser's and the worker's operations on group discussions        *)
(* (services/session_admin.py, cancel_session and record_attendance of     *)
(* services/booking.py, the completion job of workers/jobs.py, the credit  *)
(* adjustment of api/routes/admin.py), running beside the learners'        *)
(* requests of Booking.                                                    *)
(*                                                                         *)
(* Except for the credit adjustment none of them takes the session's lock  *)
(* when it reads: the session, or the booking, is loaded without a lock,   *)
(* checked, and written by an UPDATE that waits for whoever holds the row. *)
(*                                                                         *)
(* Whether the instructor is free at the new hour and has a Google account *)
(* is decided outside this module: a refusal there is a Rollback.          *)
(***************************************************************************)
EXTENDS Booking

CONSTANTS
  AdminOps,     \* bound: the operations the superuser and the worker use
  MaxBalance,   \* bound: no adjustment takes a balance above this
  Adjustments   \* credits an adjustment may add or take away

ASSUME AdminAssumption ==
  /\ AdminOps \subseteq Ops
  /\ MaxBalance \in Nat
  /\ Adjustments \subseteq Int

Request(op, pc, s) == [Idle EXCEPT !.op = op, !.pc = pc, !.s = s]
Begin(t, op, r) == op \in AdminOps /\ tx[t].pc = "idle" /\ Proceed(t, r)

LiveIn(s) == {b \in BookingIds : bookings[b].s = s /\ bookings[b].status \in Live}

(***************************************************************************)
(* cancel_session                                                          *)
(***************************************************************************)
\* The session is marked in memory and the live bookings are read; nothing is
\* locked and nothing written yet (autoflush is off).
CancelSessionLoad(t, s) ==
  /\ sessions[s].status # "deleted"
  /\ LET affected == {CopyOf(b) : b \in LiveIn(s)} IN
     Begin(t, "cancel_session",
           [Request("cancel_session", "pick", s) EXCEPT !.own = affected,
                                                           !.todo = affected])
  /\ UNCHANGED <<now, tables, sessionLock, userLock>>

Cancelling(t, pc) == tx[t].op \in {"cancel_session", "delete"} /\ tx[t].pc = pc

\* The next booking of the loop, in the order the database returned them.
AffectedPick(t) ==
  /\ Cancelling(t, "pick")
  /\ \E c \in tx[t].todo :
       Proceed(t, [tx[t] EXCEPT !.l = c.row.l, !.pc = "lock_user"])
  /\ UNCHANGED <<now, tables, sessionLock, userLock>>

\* lock_user, and the refund by the copy; granting it flushes, which writes
\* the session row and so waits for its lock.
AffectedRefund(t) ==
  LET l == tx[t].l IN
  /\ Cancelling(t, "lock_user")
  /\ UserFree(t, l)
  /\ userLock' = [userLock EXCEPT ![l] = t]
  /\ \E c \in tx[t].todo :
       /\ c.row.l = l
       /\ Proceed(t, [tx[t] EXCEPT
                        !.todo = @ \ {c}, !.delta[l] = @ + c.row.spent,
                        !.pc = IF c.row.spent > 0 /\ sessionLock[tx[t].s] # t
                               THEN "lock_session" ELSE "pick"])
  /\ UNCHANGED <<now, tables, sessionLock>>

\* The last flush writes the session row if no grant has done so.
AffectedDone(t) ==
  /\ Cancelling(t, "pick")
  /\ tx[t].todo = {}
  /\ sessionLock[tx[t].s] # t
  /\ Proceed(t, [tx[t] EXCEPT !.pc = "lock_session"])
  /\ UNCHANGED <<now, tables, sessionLock, userLock>>

WriteSession(t) ==
  /\ Cancelling(t, "lock_session")
  /\ SessionFree(tx[t].s)
  /\ sessions[tx[t].s].status # "deleted"
  /\ sessionLock' = [sessionLock EXCEPT ![tx[t].s] = t]
  /\ Proceed(t, [tx[t] EXCEPT !.pc = "pick"])
  /\ UNCHANGED <<now, tables, userLock>>

Written(t) == tx[t].todo = {} /\ sessionLock[tx[t].s] = t /\ tx[t].pc = "pick"

\* What the loop granted for booking b.
Granted(t, b) ==
  IF \E c \in tx[t].own : c.id = b THEN (CHOOSE c \in tx[t].own : c.id = b).row.spent ELSE 0

CancelSessionCommit(t) ==
  /\ tx[t].op = "cancel_session" /\ Written(t)
  /\ sessions' = [sessions EXCEPT ![tx[t].s].status = "cancelled"]
  /\ bookings' = SeenBy(t)
  /\ net' = [b \in BookingIds |-> net[b] + Granted(t, b)]
  /\ Commit(t)
  /\ UNCHANGED now

(***************************************************************************)
(* delete_group_session                                                    *)
(***************************************************************************)
\* The count of bookings that are not cancelled, read without a lock.  With
\* some and the session ahead, force cancels them first; otherwise refused.
DeleteLoad(t, s, force) ==
  LET blocked == LiveIn(s) # {} /\ sessions[s].start >= now
      affected == IF blocked THEN {CopyOf(b) : b \in LiveIn(s)} ELSE {} IN
  /\ sessions[s].status # "deleted"
  /\ blocked => force
  /\ Begin(t, "delete",
           [Request("delete", "pick", s) EXCEPT !.own = affected, !.todo = affected])
  /\ UNCHANGED <<now, tables, sessionLock, userLock>>

\* ON DELETE CASCADE takes every booking of the session; the ledger stays.
DeleteCommit(t) ==
  LET s == tx[t].s IN
  /\ tx[t].op = "delete" /\ Written(t)
  /\ sessions' = [sessions EXCEPT ![s].status = "deleted"]
  /\ bookings' = [b \in BookingIds |-> IF bookings[b].s = s
                                       THEN [bookings[b] EXCEPT !.status = "deleted"]
                                       ELSE bookings[b]]
  /\ net' = [b \in BookingIds |-> net[b] + Granted(t, b)]
  /\ Commit(t)
  /\ UNCHANGED now

(***************************************************************************)
(* Operations that read once and write once                                *)
(***************************************************************************)
\* An UPDATE of the session row: waits for its lock, then commits.
UpdateSession(t, op, column) ==
  /\ At(t, op, "lock_session")
  /\ SessionFree(tx[t].s)
  /\ sessions[tx[t].s].status # "deleted"
  /\ sessions' = [sessions EXCEPT ![tx[t].s] = column]
  /\ Commit(t)
  /\ UNCHANGED <<now, net>>

\* update_group_session: not cancelled, and max_seats not below the seats
\* taken, counted without the session's lock.
CapacityLoad(t, s, max) ==
  /\ sessions[s].status \notin {"cancelled", "deleted"}
  /\ max # sessions[s].max
  /\ max >= SeatsTaken(bookings, s)
  /\ Begin(t, "capacity", [Request("capacity", "lock_session", s) EXCEPT !.arg = max])
  /\ UNCHANGED <<now, tables, sessionLock, userLock>>

CapacityCommit(t) ==
  /\ UpdateSession(t, "capacity", [sessions[tx[t].s] EXCEPT !.max = tx[t].arg])
  /\ UNCHANGED bookings

\* Changing the price touches no booking.
PriceLoad(t, s, price) ==
  /\ sessions[s].status \notin {"cancelled", "deleted"}
  /\ price # sessions[s].price
  /\ Begin(t, "price", [Request("price", "lock_session", s) EXCEPT !.arg = price])
  /\ UNCHANGED <<now, tables, sessionLock, userLock>>

PriceCommit(t) ==
  /\ UpdateSession(t, "price", [sessions[tx[t].s] EXCEPT !.price = tx[t].arg])
  /\ UNCHANGED bookings

PublishLoad(t, s) ==
  /\ sessions[s].status \in {"draft", "completed"}
  /\ Begin(t, "publish", Request("publish", "lock_session", s))
  /\ UNCHANGED <<now, tables, sessionLock, userLock>>

PublishCommit(t) ==
  /\ UpdateSession(t, "publish", [sessions[tx[t].s] EXCEPT !.status = "published"])
  /\ UNCHANGED bookings

\* mark_sessions_completed, one session of its batch.
CompleteLoad(t, s) ==
  /\ sessions[s].status = "published"
  /\ sessions[s].start + Duration < now
  /\ Begin(t, "complete", Request("complete", "lock_session", s))
  /\ UNCHANGED <<now, tables, sessionLock, userLock>>

CompleteCommit(t) ==
  /\ UpdateSession(t, "complete", [sessions[tx[t].s] EXCEPT !.status = "completed"])
  /\ UNCHANGED bookings

\* reschedule_session: the live bookings are read without a lock and moved
\* with the session; the learner-overlap constraint is checked again.
RescheduleLoad(t, s, start) ==
  /\ sessions[s].status \notin {"cancelled", "deleted"}
  /\ start # sessions[s].start
  /\ Begin(t, "reschedule",
           [Request("reschedule", "lock_session", s) EXCEPT
              !.arg = start, !.own = {CopyOf(b) : b \in LiveIn(s)}])
  /\ UNCHANGED <<now, tables, sessionLock, userLock>>

\* Rows another transaction has flushed are in the constraint's index before
\* they are committed: a write that meets one waits for that transaction.
Unsettled(rows) ==
  \E u \in Txns : \E c \in tx[u].won : \E b \in BookingIds :
    /\ b # c.id /\ rows[b] # bookings[b]
    /\ rows[b].l = c.row.l /\ rows[b].status \in SEAT_HOLDING

RescheduleCommit(t) ==
  LET moved == [b \in BookingIds |-> IF b \in Ids(tx[t].own)
                                     THEN [bookings[b] EXCEPT !.start = tx[t].arg]
                                     ELSE bookings[b]] IN
  /\ ~Unsettled(moved)
  /\ Accepted(moved)
  /\ bookings' = moved
  /\ UpdateSession(t, "reschedule", [sessions[tx[t].s] EXCEPT !.start = tx[t].arg])

\* record_attendance: a booking loaded without a lock and not cancelled then.
AttendanceLoad(t, b, status) ==
  /\ bookings[b].status \in Live \ {status}
  /\ Begin(t, status, [Request(status, "commit", bookings[b].s) EXCEPT
                         !.own = {CopyOf(b)}])
  /\ UNCHANGED <<now, tables, sessionLock, userLock>>

AttendanceCommit(t) ==
  /\ tx[t].op \in {"attended", "no_show"} /\ tx[t].pc = "commit"
  /\ \E c \in tx[t].own :
       LET marked == [bookings EXCEPT ![c.id].status = tx[t].op] IN
       /\ bookings[c.id].status # "deleted"
       /\ ~Unsettled(marked)
       /\ Accepted(marked)
       /\ bookings' = marked
  /\ Commit(t)
  /\ UNCHANGED <<now, sessions, net>>

\* Mutant: lock_user forgotten.
AdjustWithoutLock(t, l, amount) ==
  /\ balance[l] + amount \in 0..MaxBalance
  /\ Begin(t, "adjust", [Idle EXCEPT !.op = "adjust", !.pc = "commit", !.l = l,
                                     !.delta[l] = amount])
  /\ UNCHANGED <<now, tables, sessionLock, userLock>>

\* The route's _apply_credit_adjustment: lock_user, then grant or spend.
AdjustLock(t, l, amount) ==
  /\ userLock[l] = None
  /\ balance[l] + amount \in 0..MaxBalance
  /\ Begin(t, "adjust", [Idle EXCEPT !.op = "adjust", !.pc = "commit", !.l = l,
                                     !.delta[l] = amount])
  /\ userLock' = [userLock EXCEPT ![l] = t]
  /\ UNCHANGED <<now, tables, sessionLock>>

AdjustCommit(t) ==
  /\ At(t, "adjust", "commit")
  /\ Commit(t)
  /\ UNCHANGED <<now, sessions, bookings, net>>

(***************************************************************************)
(* Specification                                                           *)
(***************************************************************************)
Admin(t) ==
  \/ \E s \in Sessions : CancelSessionLoad(t, s)
  \/ AffectedPick(t)
  \/ AffectedRefund(t)
  \/ AffectedDone(t)
  \/ WriteSession(t)
  \/ CancelSessionCommit(t)
  \/ \E s \in Sessions, force \in BOOLEAN : DeleteLoad(t, s, force)
  \/ DeleteCommit(t)
  \/ \E s \in Sessions, max \in Seats : CapacityLoad(t, s, max)
  \/ CapacityCommit(t)
  \/ \E s \in Sessions, price \in Prices : PriceLoad(t, s, price)
  \/ PriceCommit(t)
  \/ \E s \in Sessions : PublishLoad(t, s)
  \/ PublishCommit(t)
  \/ \E s \in Sessions : CompleteLoad(t, s)
  \/ CompleteCommit(t)
  \/ \E s \in Sessions, start \in Starts : RescheduleLoad(t, s, start)
  \/ RescheduleCommit(t)
  \/ \E b \in BookingIds, status \in {"attended", "no_show"} : AttendanceLoad(t, b, status)
  \/ AttendanceCommit(t)
  \/ \E l \in Learners, amount \in Adjustments : AdjustLock(t, l, amount)
  \/ AdjustCommit(t)

AdminNext == Next \/ \E t \in Txns : Admin(t)

AdminSpec == Init /\ [][AdminNext]_vars

(***************************************************************************)
(* Properties                                                              *)
(***************************************************************************)
\* "A cancelled booking is never resurrected by it", says record_attendance of
\* itself (booking.py), by the copy it has read; here of every other operation,
\* none of which may bring a cancelled booking back.  With attendance among the
\* operations this is false: it writes over a cancellation made since it read.
CancelledIsFinal ==
  [][\A b \in BookingIds :
       bookings[b].status = "cancelled" => bookings'[b].status \in {"cancelled", "deleted"}]_vars

(***************************************************************************)
(* The inductive invariant behind TypeOK and BalanceNeverNegative          *)
(***************************************************************************)
\* A copy is of a row that exists; its session and learner never change.
Known(r) ==
  \A c \in r.own \cup r.todo \cup r.won :
    /\ bookings[c.id].status # "none"
    /\ bookings[c.id].s = c.row.s /\ bookings[c.id].l = c.row.l
CopiesKnown == \A t \in Txns : Known(tx[t])

\* A learner is being charged only by the transaction that holds the learner's
\* lock, and only what the balance covers.
Funded ==
  \A t \in Txns, l \in Learners :
    tx[t].delta[l] < 0 => userLock[l] = t /\ BalanceSeenBy(t, l) >= 0

\* The seat count and the balance check are made under the learner's lock.
LockedBeforeSpend ==
  \A t \in Txns : At(t, "book", "count") => userLock[tx[t].l] = t

IInv == TypeOK /\ CopiesKnown /\ Funded /\ LockedBeforeSpend /\ BalanceNeverNegative

(***************************************************************************)
(* The inductive invariant behind SeatsNeverOversell, for a superuser who  *)
(* uses none of the operations that touch seats without the session's lock *)
(***************************************************************************)
SeatOps == {"attended", "no_show", "capacity"}

\* Whoever counts seats holds the session's lock, and has room for what it is
\* about to write: the seat it takes, the seats it may still fill.
SeatsGuarded(t) ==
  /\ tx[t].op \in AdminOps \cup {"none", "book", "cancel"}
  /\ tx[t].op = "book" \/ (tx[t].op = "cancel" /\ tx[t].pc # "lock_session")
       => sessionLock[tx[t].s] = t
  /\ At(t, "book", "commit") => SeatsTaken(bookings, tx[t].s) < sessions[tx[t].s].max
  /\ At(t, "cancel", "promote") =>
       /\ tx[t].free >= 0
       /\ SeatsTaken(SeenBy(t), tx[t].s) + tx[t].free <= sessions[tx[t].s].max
       /\ \A c \in tx[t].todo \cup tx[t].won : c.row.s = tx[t].s
  /\ ~At(t, "cancel", "promote") => tx[t].won = {}

SeatInv == SeatsNeverOversell /\ \A t \in Txns : SeatsGuarded(t)

(***************************************************************************)
(* The inductive invariant behind RefundIsAllOrNothing: what a transaction *)
(* goes by, a copy that may be stale, is still right about the money       *)
(***************************************************************************)
\* A copy is of a booking of the transaction's session.  What it says was
\* spent is what the row says, or nothing: only a promotion changes a row's
\* credits_spent, from 0, and it is made under the session's lock.
CopiesHonest(t) ==
  /\ \A c \in tx[t].own \cup tx[t].todo \cup tx[t].won : c.row.s = tx[t].s
  /\ \A c \in tx[t].own : c.row.spent \in {0, bookings[c.id].spent}

\* A cancellation has one booking of its own and, from its second step on, the
\* session's lock; those it may promote are others, who have paid nothing.
PromotesOthers(t) ==
  /\ tx[t].op = "cancel" => \E c \in tx[t].own : tx[t].own = {c}
  /\ tx[t].op = "cancel" /\ tx[t].pc # "lock_session" => sessionLock[tx[t].s] = t
  /\ ~At(t, "cancel", "promote") => tx[t].won = {}
  /\ At(t, "cancel", "promote") =>
       /\ \A c \in tx[t].own : tx[t].arg \in {0, c.row.spent}
       /\ \A c \in tx[t].todo \cup tx[t].won :
            c.id \notin Ids(tx[t].own) /\ bookings[c.id].spent = 0

ClaimInv ==
  /\ WaitlistIsOrdered
  /\ \A b \in BookingIds : bookings[b].status = "waitlisted" => bookings[b].spent = 0
  /\ \A t \in Txns : CopiesHonest(t) /\ PromotesOthers(t)

(***************************************************************************)
(* The inductive invariant behind SeatIsPaidFor and CancelledIsFinal, for  *)
(* a superuser who does not record attendance                              *)
(***************************************************************************)
\* Those a cancellation may promote are waiting until it commits.
StillWaiting(t) ==
  /\ tx[t].op \in AdminOps \cup {"none", "book", "cancel"}
  /\ At(t, "cancel", "promote") =>
       \A c \in tx[t].todo \cup tx[t].won : bookings[c.id].status = "waitlisted"

PaidInv ==
  /\ SeatIsPaidFor
  /\ \A b \in BookingIds : bookings[b].status = "none" => net[b] = 0
  /\ \A t \in Txns : StillWaiting(t)
=============================================================================
