----------------------------- MODULE SeatProofs -----------------------------
(***************************************************************************)
(* Seats, for every number of learners, sessions and requests.             *)
(*                                                                         *)
(* They are never oversold, as long as the superuser neither records       *)
(* attendance nor changes max_seats: the two operations that touch seats   *)
(* without the session's lock.                                             *)
(*                                                                         *)
(* And booking implements SeatLedger: what the learners' requests do in    *)
(* steps, under locks and from stale copies, is what they would do if each *)
(* took effect at once.                                                    *)
(*                                                                         *)
(* With one session open, the walk along its waitlist refills what a       *)
(* cancellation frees, and in order.                                       *)
(***************************************************************************)
EXTENDS BookingProofs

(***************************************************************************)
(* Counting seats                                                          *)
(***************************************************************************)
HoldsSeat(row, s) == row.s = s /\ row.status \in SEAT_HOLDING
Holding(rows, s) == {b \in BookingIds : HoldsSeat(rows[b], s)}

LEMMA HoldingIsFinite ==
  ASSUME NEW rows, NEW s
  PROVE  /\ IsFiniteSet(Holding(rows, s))
         /\ SeatsTaken(rows, s) = Cardinality(Holding(rows, s))
         /\ SeatsTaken(rows, s) \in Nat
<1>1. Holding(rows, s) \subseteq BookingIds
  BY DEF Holding
<1>2. IsFiniteSet(Holding(rows, s))
  BY <1>1, FiniteAssumption, FS_Subset
<1>3. SeatsTaken(rows, s) = Cardinality(Holding(rows, s))
  BY DEF SeatsTaken, Holding, HoldsSeat
<1> QED
  BY <1>2, <1>3, FS_CardinalityType

\* A table in which no further row holds a seat has no more seats taken.
LEMMA SeatsDoNotRise ==
  ASSUME NEW rows, NEW after, NEW s,
         \A b \in BookingIds : HoldsSeat(after[b], s) => HoldsSeat(rows[b], s)
  PROVE  SeatsTaken(after, s) <= SeatsTaken(rows, s)
<1>1. Holding(after, s) \subseteq Holding(rows, s)
  BY DEF Holding
<1> QED
  BY <1>1, HoldingIsFinite, FS_Subset

\* One row that may hold a seat now takes at most one.
LEMMA OneSeatTaken ==
  ASSUME NEW rows, NEW after, NEW s, NEW x,
         \A b \in BookingIds : HoldsSeat(after[b], s) => HoldsSeat(rows[b], s) \/ b = x
  PROVE  SeatsTaken(after, s) <= SeatsTaken(rows, s) + 1
<1>1. Holding(after, s) \subseteq Holding(rows, s) \cup {x}
  BY DEF Holding
<1>2. /\ IsFiniteSet(Holding(rows, s) \cup {x})
      /\ Cardinality(Holding(rows, s) \cup {x}) <= Cardinality(Holding(rows, s)) + 1
  <2>1. IsFiniteSet(Holding(rows, s)) /\ Cardinality(Holding(rows, s)) \in Nat
    BY HoldingIsFinite, FS_CardinalityType
  <2>2. /\ IsFiniteSet(Holding(rows, s) \cup {x})
        /\ \/ Cardinality(Holding(rows, s) \cup {x}) = Cardinality(Holding(rows, s))
           \/ Cardinality(Holding(rows, s) \cup {x}) = Cardinality(Holding(rows, s)) + 1
    BY <2>1, FS_AddElement, Zenon
  <2> QED
    BY <2>1, <2>2
<1>3. Cardinality(Holding(after, s)) <= Cardinality(Holding(rows, s) \cup {x})
  BY <1>1, <1>2, FS_Subset
<1>4. Cardinality(Holding(rows, s) \cup {x}) \in Nat
  BY <1>2, FS_CardinalityType
<1> QED
  BY <1>2, <1>3, <1>4, HoldingIsFinite

(***************************************************************************)
(* What a transaction sees of another's changes                            *)
(***************************************************************************)
\* A step of t takes seats only in sessions it has locked.
SeatsUnderLock(t) ==
  \A s \in Sessions : sessionLock[s] # t =>
    \A b \in BookingIds : HoldsSeat(bookings'[b], s) => HoldsSeat(bookings[b], s)
SameSeats == \A s \in Sessions : sessions'[s].max = sessions[s].max

\* The seats a transaction sees do not rise while it holds the session's lock.
LEMMA SeenDoesNotRise ==
  ASSUME IInv, IInv', RowsKept, NEW u \in Txns, NEW s \in Sessions,
         tx'[u] = tx[u],
         \A b \in BookingIds : HoldsSeat(bookings'[b], s) => HoldsSeat(bookings[b], s)
  PROVE  SeatsTaken(SeenBy(u)', s) <= SeatsTaken(SeenBy(u), s)
<1> SUFFICES ASSUME NEW b \in BookingIds, HoldsSeat(SeenBy(u)'[b], s)
             PROVE  HoldsSeat(SeenBy(u)[b], s)
  BY SeatsDoNotRise
<1> DEFINE old == sessions[tx[u].s].price
           new == sessions'[tx'[u].s].price
<1>1. b \in Ids(tx[u].own) \cup Ids(tx[u].won) => bookings[b] \in Row /\ bookings'[b] \in Row
  <2>1. b \in Ids(tx[u].own) \cup Ids(tx[u].won) => bookings[b].status # "none"
    BY DEF IInv, CopiesKnown, Known, Ids
  <2>2. bookings'[b] \in BookingRow /\ bookings[b] \in BookingRow
    BY DEF IInv, TypeOK
  <2> QED
    BY <2>1, <2>2 DEF RowsKept, BookingRow, NoBooking
<1>2. CASE b \in Ids(tx[u].own)
  <2>1. SeenBy(u)'[b] = Cancelled(bookings'[b])
    BY <1>2 DEF SeenBy
  <2> QED
    BY <1>1, <1>2, <2>1 DEF Cancelled, Row, HoldsSeat, SEAT_HOLDING
<1>3. CASE b \notin Ids(tx[u].own) /\ b \in Ids(tx[u].won)
  <2>1. SeenBy(u)'[b] = Promoted(bookings'[b], new) /\ SeenBy(u)[b] = Promoted(bookings[b], old)
    BY <1>3 DEF SeenBy
  <2>2. bookings'[b].s = bookings[b].s
    BY <1>1, <1>3 DEF RowsKept, Row, BookingStatus
  <2> HIDE DEF old, new
  <2> QED
    BY <1>1, <1>3, <2>1, <2>2 DEF Promoted, Row, HoldsSeat, SEAT_HOLDING
<1>4. CASE b \notin Ids(tx[u].own) /\ b \notin Ids(tx[u].won)
  BY <1>4 DEF SeenBy
<1> QED
  BY <1>2, <1>3, <1>4

\* What the other transactions have counted stays true.
LEMMA OthersGuarded ==
  ASSUME IInv, IInv', RowsKept, SameSeats, NEW t \in Txns, NEW u \in Txns \ {t},
         SeatsUnderLock(t), SeatsGuarded(u), tx'[u] = tx[u],
         \A s \in Sessions : sessionLock[s] = u => sessionLock'[s] = u
  PROVE  SeatsGuarded(u)'
<1> DEFINE s == tx[u].s
<1>1. tx[u].op \in {"book", "cancel"} => s \in Sessions /\ sessions[s].max \in Nat
  BY DEF IInv, TypeOK, Addressed, SessionRow
<1>2. /\ tx'[u].op \in AdminOps \cup {"none", "book", "cancel"}
      /\ tx'[u].op = "book" \/ (tx'[u].op = "cancel" /\ tx'[u].pc # "lock_session")
           => sessionLock'[tx'[u].s] = u
  BY <1>1 DEF SeatsGuarded
<1>3. At(u, "book", "commit")' => SeatsTaken(bookings', s) < sessions'[s].max
  <2> SUFFICES ASSUME At(u, "book", "commit")
               PROVE  SeatsTaken(bookings', s) < sessions'[s].max
    BY DEF At
  <2>1. s \in Sessions /\ sessionLock[s] = u /\ SeatsTaken(bookings, s) < sessions[s].max
        /\ sessions'[s].max = sessions[s].max /\ sessions[s].max \in Nat
    BY <1>1 DEF At, SeatsGuarded, SameSeats
  <2>2. SeatsTaken(bookings', s) <= SeatsTaken(bookings, s)
    BY <2>1, SeatsDoNotRise DEF SeatsUnderLock
  <2> HIDE DEF s
  <2> QED
    BY <2>1, <2>2, HoldingIsFinite
<1>4. At(u, "cancel", "promote")' =>
        /\ tx'[u].free >= 0
        /\ SeatsTaken(SeenBy(u)', s) + tx'[u].free <= sessions'[s].max
        /\ \A c \in tx'[u].todo \cup tx'[u].won : c.row.s = s
  <2> SUFFICES ASSUME At(u, "cancel", "promote")
               PROVE  /\ tx[u].free >= 0
                      /\ SeatsTaken(SeenBy(u)', s) + tx[u].free <= sessions'[s].max
                      /\ \A c \in tx[u].todo \cup tx[u].won : c.row.s = s
    BY DEF At
  <2>1. /\ s \in Sessions /\ sessionLock[s] = u /\ tx[u].free >= 0
        /\ SeatsTaken(SeenBy(u), s) + tx[u].free <= sessions[s].max
        /\ \A c \in tx[u].todo \cup tx[u].won : c.row.s = s
        /\ sessions'[s].max = sessions[s].max /\ sessions[s].max \in Nat
    BY <1>1 DEF At, SeatsGuarded, SameSeats
  <2>2. SeatsTaken(SeenBy(u)', s) <= SeatsTaken(SeenBy(u), s)
    BY <2>1, SeenDoesNotRise DEF SeatsUnderLock
  <2>3. tx[u].free \in Int
    BY DEF IInv, TypeOK, Transaction
  <2> HIDE DEF s
  <2>4. SeatsTaken(SeenBy(u)', s) \in Nat /\ SeatsTaken(SeenBy(u), s) \in Nat
    BY HoldingIsFinite
  <2> QED
    BY <2>1, <2>2, <2>3, <2>4
<1>5. ~At(u, "cancel", "promote")' => tx'[u].won = {}
  BY DEF At, SeatsGuarded
<1> QED
  BY <1>2, <1>3, <1>4, <1>5 DEF SeatsGuarded, At

\* A step of t keeps the invariant when it keeps its own part of it, oversells
\* nothing and takes seats only under the session's lock.
LEMMA StepGuarded ==
  ASSUME IInv, IInv', SeatInv, NEW t \in Txns, RowsKept, SameSeats, SeatsUnderLock(t),
         \A u \in Txns \ {t} : tx'[u] = tx[u],
         \A s \in Sessions, u \in Txns \ {t} : sessionLock[s] = u => sessionLock'[s] = u,
         SeatsNeverOversell', SeatsGuarded(t)'
  PROVE  SeatInv'
<1>1. ASSUME NEW u \in Txns \ {t} PROVE SeatsGuarded(u)'
  BY OthersGuarded DEF SeatInv
<1> QED
  BY <1>1 DEF SeatInv

\* A step that writes no table.
LEMMA ReadGuarded ==
  ASSUME IInv, IInv', SeatInv, NEW t \in Txns, UNCHANGED <<now, tables>>,
         \A u \in Txns \ {t} : tx'[u] = tx[u],
         \A s \in Sessions, u \in Txns \ {t} : sessionLock[s] = u => sessionLock'[s] = u,
         SeatsGuarded(t)'
  PROVE  SeatInv'
<1>1. RowsKept /\ SameSeats /\ SeatsUnderLock(t) /\ SeatsNeverOversell'
  BY DEF tables, RowsKept, SameSeats, SeatsUnderLock, SeatInv, SeatsNeverOversell, SeatsTaken
<1> QED
  BY <1>1, StepGuarded

\* The end of a transaction.
LEMMA CommitGuarded ==
  ASSUME IInv, IInv', SeatInv, NEW t \in Txns, Commit(t), RowsKept, SameSeats,
         SeatsUnderLock(t), SeatsNeverOversell'
  PROVE  SeatInv'
<1>1. \A u \in Txns : tx'[u] = IF u = t THEN Idle ELSE tx[u]
  BY DEF Commit, Proceed, IInv, TypeOK
<1>2. \A s \in Sessions, u \in Txns \ {t} : sessionLock[s] = u => sessionLock'[s] = u
  BY DEF Commit, ReleaseLocks
<1>3. SeatsGuarded(t)'
  BY <1>1 DEF SeatsGuarded, At, Idle
<1> QED
  BY <1>1, <1>2, <1>3, StepGuarded

\* A commit that lets no further row hold a seat.
LEMMA NoSeatTaken ==
  ASSUME IInv, IInv', SeatInv, NEW t \in Txns, Commit(t), RowsKept, SameSeats,
         \A b \in BookingIds, s \in Sessions :
           HoldsSeat(bookings'[b], s) => HoldsSeat(bookings[b], s)
  PROVE  SeatInv'
<1>1. ASSUME NEW s \in Sessions PROVE SeatsTaken(bookings', s) <= sessions'[s].max
  <2>1. SeatsTaken(bookings', s) <= SeatsTaken(bookings, s)
    BY SeatsDoNotRise
  <2>2. SeatsTaken(bookings, s) <= sessions[s].max /\ sessions[s].max \in Nat
        /\ sessions'[s].max = sessions[s].max
    BY DEF SeatInv, SeatsNeverOversell, SameSeats, IInv, TypeOK, SessionRow
  <2> QED
    BY <2>1, <2>2, HoldingIsFinite
<1> QED
  BY <1>1, CommitGuarded DEF SeatsNeverOversell, SeatsUnderLock

(***************************************************************************)
(* Booking a seat                                                          *)
(***************************************************************************)
LEMMA BookGuarded ==
  ASSUME IInv, IInv', SeatInv, NEW t \in Txns, Book(t)
  PROVE  SeatInv'
<1> DEFINE s == tx[t].s
<1>1. /\ tx \in [Txns -> Transaction] /\ tx[t] \in Transaction
      /\ sessionLock \in [Sessions -> Txns \cup {None}]
      /\ bookings \in [BookingIds -> BookingRow]
      /\ tx[t].op = "book" => s \in Sessions /\ sessions[s].max \in Nat
  BY DEF IInv, TypeOK, Addressed, SessionRow
<1>2. SeatsGuarded(t) /\ SeatsNeverOversell
  BY DEF SeatInv
<1>3. ASSUME NEW l \in Learners, NEW z \in Sessions, BookLockSession(t, l, z) PROVE SeatInv'
  <2> DEFINE r == [Idle EXCEPT !.op = "book", !.pc = "lock_user", !.s = z, !.l = l]
  <2>1. r.op = "book" /\ r.pc = "lock_user" /\ r.s = z /\ r.won = {}
    BY DEF Idle
  <2> HIDE DEF r
  <2>2. tx' = [tx EXCEPT ![t] = r]
    BY <1>3 DEF BookLockSession, Proceed, r
  <2>3. sessionLock[z] = None /\ sessionLock' = [sessionLock EXCEPT ![z] = t]
    BY <1>3 DEF BookLockSession, SessionFree
  <2>4. SeatsGuarded(t)'
    BY <1>1, <2>1, <2>2, <2>3 DEF SeatsGuarded, At
  <2> QED
    BY <1>1, <1>3, <2>2, <2>3, <2>4, ReadGuarded, NoneAssumption DEF BookLockSession
<1>4. CASE BookLockUser(t)
  <2>1. tx' = [tx EXCEPT ![t] = [tx[t] EXCEPT !.pc = "count"]] /\ tx[t].op = "book"
    BY <1>4 DEF BookLockUser, Proceed, At
  <2>2. /\ tx'[t].op = "book" /\ tx'[t].pc = "count" /\ tx'[t].s = s
        /\ tx'[t].won = tx[t].won
    BY <1>1, <2>1 DEF Transaction
  <2>3. SeatsGuarded(t)'
    BY <1>2, <1>4, <2>1, <2>2 DEF SeatsGuarded, At, BookLockUser
  <2> QED
    BY <1>1, <1>4, <2>1, <2>3, ReadGuarded DEF BookLockUser
<1>5. CASE BookTakeSeat(t)
  <2> DEFINE r == [tx[t] EXCEPT !.pc = "commit", !.delta[tx[t].l] = @ - sessions[s].price]
  <2>1. r.op = tx[t].op /\ r.pc = "commit" /\ r.s = s /\ r.won = tx[t].won
    BY <1>1 DEF Transaction
  <2>2. tx' = [tx EXCEPT ![t] = r] /\ tx[t].op = "book" /\ tx[t].pc = "count"
    BY <1>5 DEF BookTakeSeat, Proceed, At
  <2> HIDE DEF r
  <2>3. /\ tx'[t].op = "book" /\ tx'[t].pc = "commit" /\ tx'[t].s = s
        /\ tx'[t].won = tx[t].won
    BY <1>1, <2>1, <2>2
  <2>4. SeatsTaken(bookings', s) < sessions'[s].max
    BY <1>5 DEF BookTakeSeat, tables, SeatsTaken
  <2>5. SeatsGuarded(t)'
    BY <1>2, <1>5, <2>2, <2>3, <2>4 DEF SeatsGuarded, At, BookTakeSeat
  <2> QED
    BY <1>1, <1>5, <2>2, <2>5, ReadGuarded DEF BookTakeSeat
<1>6. CASE BookCommit(t)
  <2>1. PICK x \in BookingIds :
          /\ bookings[x].status = "none"
          /\ bookings' = [bookings EXCEPT ![x] = NewBooking(t, "confirmed", sessions[s].price, 0)]
    BY <1>6 DEF BookCommit
  <2>2. /\ s \in Sessions /\ sessions[s].max \in Nat /\ sessionLock[s] = t
        /\ SeatsTaken(bookings, s) < sessions[s].max
        /\ sessions' = sessions
    BY <1>1, <1>2, <1>6 DEF BookCommit, At, SeatsGuarded
  <2>3. ASSUME NEW b \in BookingIds, NEW z \in Sessions, HoldsSeat(bookings'[b], z)
        PROVE  HoldsSeat(bookings[b], z) \/ (b = x /\ z = s)
    BY <1>1, <2>1, <2>3 DEF HoldsSeat, NewBooking
  <2>4. RowsKept
    BY <1>1, <2>1 DEF RowsKept
  <2>5. SameSeats /\ SeatsUnderLock(t)
    BY <2>2, <2>3 DEF SameSeats, SeatsUnderLock
  <2>6. ASSUME NEW z \in Sessions PROVE SeatsTaken(bookings', z) <= sessions'[z].max
    <3>1. CASE z = s
      <4> HIDE DEF s
      <4>1. \A b \in BookingIds : HoldsSeat(bookings'[b], s) => HoldsSeat(bookings[b], s) \/ b = x
        BY <2>2, <2>3
      <4>2. SeatsTaken(bookings', s) <= SeatsTaken(bookings, s) + 1
        BY <4>1, OneSeatTaken
      <4> QED
        BY <2>2, <3>1, <4>2, HoldingIsFinite
    <3>2. CASE z # s
      <4>1. SeatsTaken(bookings', z) <= SeatsTaken(bookings, z)
        BY <2>3, <3>2, SeatsDoNotRise
      <4>2. sessions[z].max \in Nat /\ SeatsTaken(bookings, z) <= sessions[z].max
        BY <1>2 DEF SeatsNeverOversell, IInv, TypeOK, SessionRow
      <4> QED
        BY <2>2, <4>1, <4>2, HoldingIsFinite
    <3> QED
      BY <3>1, <3>2
  <2> QED
    BY <1>6, <2>4, <2>5, <2>6, CommitGuarded DEF BookCommit, SeatsNeverOversell
<1>7. CASE BookWaitlist(t)
  <2>1. PICK x \in BookingIds, p \in NextPositions(s) :
          /\ bookings[x].status = "none"
          /\ bookings' = [bookings EXCEPT ![x] = NewBooking(t, "waitlisted", 0, p)]
    BY <1>7 DEF BookWaitlist
  <2>2. RowsKept /\ SameSeats
    BY <1>1, <1>7, <2>1 DEF RowsKept, SameSeats, BookWaitlist
  <2>3. ASSUME NEW b \in BookingIds, NEW z \in Sessions, HoldsSeat(bookings'[b], z)
        PROVE  HoldsSeat(bookings[b], z)
    BY <1>1, <2>1, <2>3 DEF HoldsSeat, NewBooking, SEAT_HOLDING
  <2> QED
    BY <1>7, <2>2, <2>3, NoSeatTaken DEF BookWaitlist
<1> QED
  BY <1>3, <1>4, <1>5, <1>6, <1>7 DEF Book

(***************************************************************************)
(* Cancelling and promoting                                                *)
(***************************************************************************)
\* Nobody a transaction cancels keeps a seat, and it promotes into one session.
LEMMA SeenHolds ==
  ASSUME IInv, NEW t \in Txns, SeatsGuarded(t), NEW b \in BookingIds, NEW z,
         HoldsSeat(SeenBy(t)[b], z)
  PROVE  HoldsSeat(bookings[b], z) \/ (b \in Ids(tx[t].won) /\ z = tx[t].s)
<1> TypeOK /\ CopiesKnown
  BY DEF IInv
<1>1. CASE bookings[b] \in Row /\ SeenBy(t)[b] = Cancelled(bookings[b])
  BY <1>1 DEF Cancelled, Row, HoldsSeat, SEAT_HOLDING
<1>2. CASE /\ b \in Ids(tx[t].won) /\ bookings[b] \in Row
           /\ SeenBy(t)[b] = Promoted(bookings[b], sessions[tx[t].s].price)
  <2>1. PICK c \in tx[t].won : c.id = b
    BY <1>2 DEF Ids
  <2>2. bookings[b].s = tx[t].s
    BY <2>1 DEF SeatsGuarded, At, CopiesKnown, Known
  <2>3. z = bookings[b].s
    BY <1>2 DEF Promoted, Row, HoldsSeat
  <2> QED
    BY <1>2, <2>2, <2>3
<1>3. CASE SeenBy(t)[b] = bookings[b]
  BY <1>3
<1> QED
  BY <1>1, <1>2, <1>3, SeenCases

LEMMA CancelGuarded ==
  ASSUME IInv, IInv', SeatInv, NEW t \in Txns, Cancel(t)
  PROVE  SeatInv'
<1> DEFINE s == tx[t].s
<1>1. /\ tx \in [Txns -> Transaction] /\ tx[t] \in Transaction
      /\ sessionLock \in [Sessions -> Txns \cup {None}]
      /\ bookings \in [BookingIds -> BookingRow]
      /\ tx[t].op = "cancel" => s \in Sessions /\ sessions[s].max \in Nat
  BY DEF IInv, TypeOK, Addressed, SessionRow
<1>2. SeatsGuarded(t) /\ SeatsNeverOversell
  BY DEF SeatInv
<1> TypeOK /\ CopiesKnown
  BY DEF IInv
<1>3. ASSUME NEW b \in BookingIds, CancelLoad(t, b) PROVE SeatInv'
  <2> DEFINE r == [Idle EXCEPT !.op = "cancel", !.pc = "lock_session", !.s = bookings[b].s,
                               !.l = bookings[b].l, !.own = {CopyOf(b)}]
  <2>1. r.op = "cancel" /\ r.pc = "lock_session" /\ r.won = {}
    BY DEF Idle
  <2> HIDE DEF r
  <2>2. tx' = [tx EXCEPT ![t] = r]
    BY <1>3 DEF CancelLoad, Proceed, r
  <2>3. SeatsGuarded(t)'
    BY <1>1, <2>1, <2>2 DEF SeatsGuarded, At
  <2> QED
    BY <1>1, <1>3, <2>2, <2>3, ReadGuarded DEF CancelLoad
<1>4. CASE CancelLockSession(t)
  <2>1. tx' = [tx EXCEPT ![t] = [tx[t] EXCEPT !.pc = "lock_user"]] /\ tx[t].op = "cancel"
        /\ tx[t].won = {} /\ sessionLock[s] = None
        /\ sessionLock' = [sessionLock EXCEPT ![s] = t]
    BY <1>2, <1>4 DEF CancelLockSession, Proceed, At, SeatsGuarded, SessionFree
  <2>2. tx'[t].op = "cancel" /\ tx'[t].pc = "lock_user" /\ tx'[t].s = s /\ tx'[t].won = {}
    BY <1>1, <2>1 DEF Transaction
  <2>3. SeatsGuarded(t)'
    BY <1>1, <1>2, <2>1, <2>2 DEF SeatsGuarded, At
  <2> QED
    BY <1>1, <1>4, <2>1, <2>3, ReadGuarded, NoneAssumption DEF CancelLockSession
<1>5. CASE CancelLockUser(t)
  <2> DEFINE l == tx[t].l
             rows == SeenBy(t)
             free == sessions[s].max - SeatsTaken(rows, s)
             left == IF sessions[s].status = "published" THEN free ELSE 0
             queue == {CopyOf(b) : b \in Waitlist(rows, s)}
  <2>1. PICK c \in tx[t].own :
          Proceed(t, [tx[t] EXCEPT !.pc = "promote", !.arg = Refund(s, c.row),
                                   !.delta[l] = @ + Refund(s, c.row),
                                   !.free = left, !.todo = queue])
    BY <1>5 DEF CancelLockUser
  <2> DEFINE r == [tx[t] EXCEPT !.pc = "promote", !.arg = Refund(s, c.row),
                                !.delta[l] = @ + Refund(s, c.row),
                                !.free = left, !.todo = queue]
  <2>2. tx[t].op = "cancel" /\ tx[t].pc = "lock_user" /\ sessionLock[s] = t /\ tx[t].won = {}
    BY <1>2, <1>5 DEF CancelLockUser, At, SeatsGuarded
  <2>3. r.op = "cancel" /\ r.pc = "promote" /\ r.s = s /\ r.won = {} /\ r.own = tx[t].own
        /\ r.todo = queue /\ r.free = left
    BY <1>1, <2>2 DEF Transaction
  <2>4. SeatsTaken(rows, s) <= sessions[s].max
    <3>1. \A b \in BookingIds : HoldsSeat(rows[b], s) => HoldsSeat(bookings[b], s)
      BY <1>2, <2>2, SeenHolds DEF Ids
    <3>2. SeatsTaken(rows, s) <= SeatsTaken(bookings, s)
      BY <3>1, SeatsDoNotRise
    <3>3. SeatsTaken(bookings, s) <= sessions[s].max
      BY <1>1, <1>2, <2>2 DEF SeatsNeverOversell
    <3> HIDE DEF s, rows
    <3> QED
      BY <1>1, <2>2, <3>2, <3>3, HoldingIsFinite
  <2>5. left >= 0 /\ SeatsTaken(rows, s) + left <= sessions[s].max
    <3> HIDE DEF s, rows
    <3> QED
      BY <1>1, <2>2, <2>4, HoldingIsFinite
  <2>6. \A q \in queue : q.row.s = s
    <3>1. \A b \in Waitlist(rows, s) : b \in BookingIds /\ bookings[b].s = s
      BY WaitlistSeen DEF Waitlist
    <3> QED
      BY <3>1 DEF CopyOf
  <2>7. tx' = [tx EXCEPT ![t] = r]
    BY <2>1 DEF Proceed
  <2> HIDE DEF r
  <2>8. tx'[t] = r
    BY <1>1, <2>7
  <2>9. SeenBy(t)' = rows /\ UNCHANGED <<now, tables, sessionLock>>
    BY <1>5, <2>2, <2>3, <2>8 DEF SeenBy, CancelLockUser, tables
  <2>10. sessions' = sessions
    BY <2>9 DEF tables
  <2> HIDE DEF rows, left, queue, s
  <2>11. SeatsGuarded(t)'
    BY <1>2, <2>2, <2>3, <2>5, <2>6, <2>8, <2>9, <2>10 DEF SeatsGuarded, At
  <2> QED
    BY <1>1, <2>7, <2>9, <2>11, ReadGuarded
<1>6. CASE PromoteTake(t)
  <2>1. PICK c \in Candidates(t) :
          Proceed(t, [tx[t] EXCEPT !.todo = @ \ {c}, !.won = @ \cup {c}, !.free = @ - 1,
                                   !.delta[c.row.l] = @ - sessions[tx[t].s].price])
    BY <1>6 DEF PromoteTake
  <2> DEFINE r == [tx[t] EXCEPT !.todo = @ \ {c}, !.won = @ \cup {c}, !.free = @ - 1,
                                !.delta[c.row.l] = @ - sessions[tx[t].s].price]
             rows == SeenBy(t)
             after == SeenBy(t)'
  <2>2. /\ At(t, "cancel", "promote") /\ c \in tx[t].todo /\ tx[t].free > 0 /\ tx[t].free \in Int
    BY <1>1, <1>6, <2>1 DEF PromoteTake, Promoting, Candidates, Transaction
  <2>3. r.op = "cancel" /\ r.pc = "promote" /\ r.s = s /\ r.won = tx[t].won \cup {c}
        /\ r.own = tx[t].own /\ r.todo = tx[t].todo \ {c} /\ r.free = tx[t].free - 1
    BY <1>1, <2>2 DEF Transaction, At
  <2>4. tx' = [tx EXCEPT ![t] = r] /\ UNCHANGED <<now, tables, sessionLock>>
    BY <1>6, <2>1 DEF Proceed, PromoteTake
  <2> HIDE DEF r
  <2>5. tx'[t] = r /\ bookings' = bookings /\ sessions' = sessions
    BY <1>1, <2>4 DEF tables
  <2>6. sessionLock[s] = t /\ SeatsTaken(rows, s) + tx[t].free <= sessions[s].max
        /\ \A d \in tx[t].todo \cup tx[t].won : d.row.s = s
    BY <1>2, <2>2 DEF SeatsGuarded, At
  <2>7. \A b \in BookingIds : b # c.id => after[b] = rows[b]
    BY <2>3, <2>5 DEF SeenBy, Ids
  <2>8. SeatsTaken(after, s) <= SeatsTaken(rows, s) + 1
    <3> HIDE DEF after, rows, s
    <3>1. \A b \in BookingIds : HoldsSeat(after[b], s) => HoldsSeat(rows[b], s) \/ b = c.id
      BY <2>7
    <3> QED
      BY <3>1, OneSeatTaken
  <2>9. r.free >= 0 /\ SeatsTaken(after, s) + r.free <= sessions[s].max
    <3>1. s \in Sessions /\ sessions[s].max \in Nat
      BY <1>1, <2>2 DEF At
    <3> HIDE DEF after, rows, s
    <3> QED
      BY <2>2, <2>3, <2>6, <2>8, <3>1, HoldingIsFinite
  <2>10. SeatsGuarded(t)'
    <3>1. \A d \in r.todo \cup r.won : d.row.s = s
      BY <2>2, <2>3, <2>6
    <3> HIDE DEF s
    <3>2. SeatsTaken(SeenBy(t)', r.s) + r.free <= sessions[s].max
      BY <2>3, <2>9
    <3> HIDE DEF after
    <3> QED
      BY <2>3, <2>4, <2>5, <2>6, <2>9, <3>1, <3>2 DEF SeatsGuarded, At
  <2> QED
    BY <1>1, <2>4, <2>10, ReadGuarded
<1>7. CASE PromoteSkip(t) \/ PromoteDeadlock(t)
  <2>1. PICK c \in Candidates(t) : Proceed(t, [tx[t] EXCEPT !.todo = @ \ {c}])
    BY <1>7 DEF PromoteSkip, PromoteDeadlock
  <2> DEFINE r == [tx[t] EXCEPT !.todo = @ \ {c}]
  <2>2. At(t, "cancel", "promote") /\ UNCHANGED <<now, tables, sessionLock>>
    BY <1>7 DEF PromoteSkip, PromoteDeadlock, Promoting
  <2>3. r.op = "cancel" /\ r.pc = "promote" /\ r.s = s /\ r.won = tx[t].won
        /\ r.own = tx[t].own /\ r.todo = tx[t].todo \ {c} /\ r.free = tx[t].free
    BY <1>1, <2>2 DEF Transaction, At
  <2>4. tx' = [tx EXCEPT ![t] = r]
    BY <2>1 DEF Proceed
  <2> HIDE DEF r
  <2>5. tx'[t] = r /\ bookings' = bookings /\ sessions' = sessions
    BY <1>1, <2>2, <2>4 DEF tables
  <2>6. SeenBy(t)' = SeenBy(t)
    BY <2>3, <2>5 DEF SeenBy
  <2>7. SeatsGuarded(t)'
    BY <1>2, <2>2, <2>3, <2>5, <2>6 DEF SeatsGuarded, At
  <2> QED
    BY <1>1, <2>2, <2>4, <2>7, ReadGuarded
<1>8. CASE CancelCommit(t)
  <2>1. /\ At(t, "cancel", "promote") /\ sessionLock[s] = t /\ tx[t].free >= 0
        /\ tx[t].free \in Int /\ SeatsTaken(SeenBy(t), s) + tx[t].free <= sessions[s].max
        /\ bookings' = SeenBy(t) /\ sessions' = sessions
    BY <1>1, <1>2, <1>8 DEF CancelCommit, SeatsGuarded, At, Transaction
  <2>2. s \in Sessions /\ sessions[s].max \in Nat
    BY <1>1, <2>1 DEF At
  <2>3. RowsKept /\ SameSeats
    BY <2>1, SeenTyped DEF RowsKept, SameSeats, At
  <2>4. ASSUME NEW b \in BookingIds, NEW z \in Sessions, z # s, HoldsSeat(bookings'[b], z)
        PROVE  HoldsSeat(bookings[b], z)
    BY <1>2, <2>1, <2>4, SeenHolds
  <2>5. SeatsUnderLock(t)
    BY <2>1, <2>4 DEF SeatsUnderLock
  <2>6. ASSUME NEW z \in Sessions PROVE SeatsTaken(bookings', z) <= sessions'[z].max
    <3>1. CASE z = s
      <4> HIDE DEF s
      <4> QED
        BY <2>1, <2>2, <3>1, HoldingIsFinite
    <3>2. CASE z # s
      <4>1. \A b \in BookingIds : HoldsSeat(bookings'[b], z) => HoldsSeat(bookings[b], z)
        BY <2>4, <3>2
      <4>2. SeatsTaken(bookings', z) <= SeatsTaken(bookings, z)
        BY <4>1, SeatsDoNotRise
      <4>3. sessions[z].max \in Nat /\ SeatsTaken(bookings, z) <= sessions[z].max
        BY <1>2 DEF SeatsNeverOversell, TypeOK, SessionRow
      <4> QED
        BY <2>1, <4>2, <4>3, HoldingIsFinite
    <3> QED
      BY <3>1, <3>2
  <2> QED
    BY <1>8, <2>3, <2>5, <2>6, CommitGuarded DEF CancelCommit, SeatsNeverOversell
<1> QED
  BY <1>3, <1>4, <1>5, <1>6, <1>7, <1>8 DEF Cancel

LEMMA RollbackGuarded ==
  ASSUME IInv, IInv', SeatInv, NEW t \in Txns, Rollback(t)
  PROVE  SeatInv'
<1>1. \A u \in Txns : tx'[u] = IF u = t THEN Idle ELSE tx[u]
  BY DEF Rollback, Proceed, IInv, TypeOK
<1>2. \A s \in Sessions, u \in Txns \ {t} : sessionLock[s] = u => sessionLock'[s] = u
  BY DEF Rollback, ReleaseLocks
<1>3. SeatsGuarded(t)'
  BY <1>1 DEF SeatsGuarded, At, Idle
<1> QED
  BY <1>1, <1>2, <1>3, ReadGuarded DEF Rollback

(***************************************************************************)
(* The superuser and the worker                                            *)
(***************************************************************************)
\* A step of an administrative request that writes no table.
AdminReads(t) ==
  /\ \E r : Proceed(t, r) /\ r.op \in AdminOps \ {"book", "cancel"} /\ r.won = {}
  /\ UNCHANGED <<now, tables>>
  /\ \A s \in Sessions, u \in Txns \ {t} : sessionLock[s] = u => sessionLock'[s] = u

LEMMA AdminReadGuarded ==
  ASSUME IInv, IInv', SeatInv, NEW t \in Txns, AdminReads(t)
  PROVE  SeatInv'
<1>1. tx \in [Txns -> Transaction]
  BY DEF IInv, TypeOK
<1>2. PICK r : Proceed(t, r) /\ r.op \in AdminOps \ {"book", "cancel"} /\ r.won = {}
  BY DEF AdminReads
<1>3. tx'[t] = r /\ \A u \in Txns \ {t} : tx'[u] = tx[u]
  BY <1>1, <1>2 DEF Proceed
<1>4. SeatsGuarded(t)'
  BY <1>2, <1>3 DEF SeatsGuarded, At
<1> QED
  BY <1>3, <1>4, ReadGuarded DEF AdminReads

LEMMA BeginReads ==
  ASSUME NEW t, NEW op, NEW r, Begin(t, op, r), op \notin {"book", "cancel"},
         r.op = op, r.won = {}, UNCHANGED <<now, tables, sessionLock>>
  PROVE  AdminReads(t)
  BY DEF Begin, AdminReads

\* The reads that begin a request, the adjustment's lock among them.
LEMMA LoadGuarded ==
  ASSUME IInv, IInv', SeatInv, NEW t \in Txns,
         \/ \E s \in Sessions : \/ CancelSessionLoad(t, s) \/ PublishLoad(t, s)
                                \/ CompleteLoad(t, s)
         \/ \E s \in Sessions, force \in BOOLEAN : DeleteLoad(t, s, force)
         \/ \E s \in Sessions, max \in Seats : CapacityLoad(t, s, max)
         \/ \E s \in Sessions, price \in Prices : PriceLoad(t, s, price)
         \/ \E s \in Sessions, start \in Starts : RescheduleLoad(t, s, start)
         \/ \E b \in BookingIds, status \in {"attended", "no_show"} : AttendanceLoad(t, b, status)
         \/ \E l \in Learners, amount \in Adjustments : AdjustLock(t, l, amount)
  PROVE  SeatInv'
<1>1. ASSUME NEW s \in Sessions, CancelSessionLoad(t, s) PROVE AdminReads(t)
  <2> DEFINE copies == {CopyOf(b) : b \in LiveIn(s)}
             r == [Request("cancel_session", "pick", s) EXCEPT !.own = copies, !.todo = copies]
  <2>1. r.op = "cancel_session" /\ r.won = {}
    BY DEF Request, Idle
  <2>2. Begin(t, "cancel_session", r) /\ UNCHANGED <<now, tables, sessionLock>>
    BY <1>1 DEF CancelSessionLoad
  <2> HIDE DEF r
  <2> QED
    BY <2>1, <2>2, BeginReads
<1>2. ASSUME NEW s \in Sessions, PublishLoad(t, s) PROVE AdminReads(t)
  <2> DEFINE r == Request("publish", "lock_session", s)
  <2>1. r.op = "publish" /\ r.won = {}
    BY DEF Request, Idle
  <2>2. Begin(t, "publish", r) /\ UNCHANGED <<now, tables, sessionLock>>
    BY <1>2 DEF PublishLoad
  <2> HIDE DEF r
  <2> QED
    BY <2>1, <2>2, BeginReads
<1>3. ASSUME NEW s \in Sessions, CompleteLoad(t, s) PROVE AdminReads(t)
  <2> DEFINE r == Request("complete", "lock_session", s)
  <2>1. r.op = "complete" /\ r.won = {}
    BY DEF Request, Idle
  <2>2. Begin(t, "complete", r) /\ UNCHANGED <<now, tables, sessionLock>>
    BY <1>3 DEF CompleteLoad
  <2> HIDE DEF r
  <2> QED
    BY <2>1, <2>2, BeginReads
<1>4. ASSUME NEW s \in Sessions, NEW force \in BOOLEAN, DeleteLoad(t, s, force)
      PROVE  AdminReads(t)
  <2> DEFINE copies == IF LiveIn(s) # {} /\ sessions[s].start >= now
                       THEN {CopyOf(b) : b \in LiveIn(s)} ELSE {}
             r == [Request("delete", "pick", s) EXCEPT !.own = copies, !.todo = copies]
  <2>1. r.op = "delete" /\ r.won = {}
    BY DEF Request, Idle
  <2>2. Begin(t, "delete", r) /\ UNCHANGED <<now, tables, sessionLock>>
    BY <1>4 DEF DeleteLoad
  <2> HIDE DEF r
  <2> QED
    BY <2>1, <2>2, BeginReads
<1>5. ASSUME NEW s \in Sessions, NEW max \in Seats, CapacityLoad(t, s, max) PROVE AdminReads(t)
  <2> DEFINE r == [Request("capacity", "lock_session", s) EXCEPT !.arg = max]
  <2>1. r.op = "capacity" /\ r.won = {}
    BY DEF Request, Idle
  <2>2. Begin(t, "capacity", r) /\ UNCHANGED <<now, tables, sessionLock>>
    BY <1>5 DEF CapacityLoad
  <2> HIDE DEF r
  <2> QED
    BY <2>1, <2>2, BeginReads
<1>6. ASSUME NEW s \in Sessions, NEW price \in Prices, PriceLoad(t, s, price) PROVE AdminReads(t)
  <2> DEFINE r == [Request("price", "lock_session", s) EXCEPT !.arg = price]
  <2>1. r.op = "price" /\ r.won = {}
    BY DEF Request, Idle
  <2>2. Begin(t, "price", r) /\ UNCHANGED <<now, tables, sessionLock>>
    BY <1>6 DEF PriceLoad
  <2> HIDE DEF r
  <2> QED
    BY <2>1, <2>2, BeginReads
<1>7. ASSUME NEW s \in Sessions, NEW start \in Starts, RescheduleLoad(t, s, start)
      PROVE  AdminReads(t)
  <2> DEFINE copies == {CopyOf(b) : b \in LiveIn(s)}
             r == [Request("reschedule", "lock_session", s) EXCEPT !.arg = start, !.own = copies]
  <2>1. r.op = "reschedule" /\ r.won = {}
    BY DEF Request, Idle
  <2>2. Begin(t, "reschedule", r) /\ UNCHANGED <<now, tables, sessionLock>>
    BY <1>7 DEF RescheduleLoad
  <2> HIDE DEF r
  <2> QED
    BY <2>1, <2>2, BeginReads
<1>8. ASSUME NEW b \in BookingIds, NEW status \in {"attended", "no_show"},
             AttendanceLoad(t, b, status)
      PROVE  AdminReads(t)
  <2> DEFINE r == [Request(status, "commit", bookings[b].s) EXCEPT !.own = {CopyOf(b)}]
  <2>1. r.op = status /\ r.won = {}
    BY DEF Request, Idle
  <2>2. Begin(t, status, r) /\ UNCHANGED <<now, tables, sessionLock>>
    BY <1>8 DEF AttendanceLoad
  <2> HIDE DEF r
  <2> QED
    BY <2>1, <2>2, BeginReads
<1>9. ASSUME NEW l \in Learners, NEW amount \in Adjustments, AdjustLock(t, l, amount)
      PROVE  AdminReads(t)
  <2> DEFINE r == [Idle EXCEPT !.op = "adjust", !.pc = "commit", !.l = l,
                                    !.delta[l] = amount]
  <2>1. r.op = "adjust" /\ r.won = {}
    BY DEF Request, Idle
  <2>2. Begin(t, "adjust", r) /\ UNCHANGED <<now, tables, sessionLock>>
    BY <1>9 DEF AdjustLock
  <2> HIDE DEF r
  <2> QED
    BY <2>1, <2>2, BeginReads
<1> QED
  BY <1>1, <1>2, <1>3, <1>4, <1>5, <1>6, <1>7, <1>8, <1>9, AdminReadGuarded

LEMMA CancellingGuarded ==
  ASSUME IInv, IInv', SeatInv, NEW t \in Txns,
         \/ AffectedPick(t) \/ AffectedRefund(t) \/ AffectedDone(t) \/ WriteSession(t)
  PROVE  SeatInv'
<1>1. tx[t] \in Transaction /\ sessionLock \in [Sessions -> Txns \cup {None}]
  BY DEF IInv, TypeOK
<1>2. tx[t].op \in AdminOps \ {"book", "cancel"} /\ tx[t].won = {}
  BY DEF AffectedPick, AffectedRefund, AffectedDone, WriteSession, Cancelling, SeatInv,
         SeatsGuarded, At
<1>3. CASE AffectedPick(t)
  <2>1. PICK c \in tx[t].todo : Proceed(t, [tx[t] EXCEPT !.l = c.row.l, !.pc = "lock_user"])
    BY <1>3 DEF AffectedPick
  <2>2. /\ [tx[t] EXCEPT !.l = c.row.l, !.pc = "lock_user"].op = tx[t].op
        /\ [tx[t] EXCEPT !.l = c.row.l, !.pc = "lock_user"].won = tx[t].won
    BY <1>1 DEF Transaction
  <2> QED
    BY <1>2, <1>3, <2>1, <2>2, AdminReadGuarded DEF AffectedPick, AdminReads
<1>4. CASE AffectedRefund(t)
  <2>1. PICK c \in tx[t].todo :
          Proceed(t, [tx[t] EXCEPT
                        !.todo = @ \ {c}, !.delta[tx[t].l] = @ + c.row.spent,
                        !.pc = IF c.row.spent > 0 /\ sessionLock[tx[t].s] # t
                               THEN "lock_session" ELSE "pick"])
    BY <1>4 DEF AffectedRefund
  <2> DEFINE r == [tx[t] EXCEPT
                        !.todo = @ \ {c}, !.delta[tx[t].l] = @ + c.row.spent,
                        !.pc = IF c.row.spent > 0 /\ sessionLock[tx[t].s] # t
                               THEN "lock_session" ELSE "pick"]
  <2>2. r.op = tx[t].op /\ r.won = tx[t].won /\ Proceed(t, r)
    BY <1>1, <2>1 DEF Transaction
  <2> HIDE DEF r
  <2> QED
    BY <1>2, <1>4, <2>2, AdminReadGuarded DEF AffectedRefund, AdminReads
<1>5. CASE AffectedDone(t)
  <2>1. Proceed(t, [tx[t] EXCEPT !.pc = "lock_session"])
    BY <1>5 DEF AffectedDone
  <2>2. /\ [tx[t] EXCEPT !.pc = "lock_session"].op = tx[t].op
        /\ [tx[t] EXCEPT !.pc = "lock_session"].won = tx[t].won
    BY <1>1 DEF Transaction
  <2> QED
    BY <1>2, <1>5, <2>1, <2>2, AdminReadGuarded DEF AffectedDone, AdminReads
<1>6. CASE WriteSession(t)
  <2> DEFINE r == [tx[t] EXCEPT !.pc = "pick"]
  <2>1. Proceed(t, r) /\ UNCHANGED <<now, tables>>
    BY <1>6 DEF WriteSession
  <2>2. r.op = tx[t].op /\ r.won = tx[t].won
    BY <1>1 DEF Transaction
  <2>3. sessionLock[tx[t].s] = None /\ sessionLock' = [sessionLock EXCEPT ![tx[t].s] = t]
    BY <1>6 DEF WriteSession, SessionFree
  <2>4. \A s \in Sessions, u \in Txns \ {t} : sessionLock[s] = u => sessionLock'[s] = u
    BY <1>1, <2>3, NoneAssumption
  <2> HIDE DEF r
  <2>5. AdminReads(t)
    BY <1>2, <2>1, <2>2, <2>4 DEF AdminReads
  <2> QED
    BY <2>5, AdminReadGuarded
<1> QED
  BY <1>3, <1>4, <1>5, <1>6

LEMMA AdminCommitGuarded ==
  ASSUME IInv, IInv', SeatInv, NEW t \in Txns, AdminOps \cap SeatOps = {},
         \/ CancelSessionCommit(t) \/ DeleteCommit(t) \/ CapacityCommit(t) \/ PriceCommit(t)
         \/ PublishCommit(t) \/ CompleteCommit(t) \/ RescheduleCommit(t) \/ AttendanceCommit(t)
         \/ AdjustCommit(t)
  PROVE  SeatInv'
<1> DEFINE s == tx[t].s
<1> TypeOK /\ CopiesKnown
  BY DEF IInv
<1>1. tx[t] \in Transaction /\ Addressed(tx[t]) /\ sessions \in [Sessions -> SessionRow]
      /\ bookings \in [BookingIds -> BookingRow]
  BY DEF TypeOK
<1>2. SeatsGuarded(t) /\ tx[t].op \notin SeatOps
  BY DEF SeatInv, SeatsGuarded, SeatOps
<1>3. \A status, b \in BookingIds : bookings[b] \in Row =>
        [bookings[b] EXCEPT !.status = status].s = bookings[b].s
  BY DEF Row
<1>4. CASE CancelSessionCommit(t)
  <2>1. tx[t].op = "cancel_session" /\ tx[t].won = {} /\ bookings' = SeenBy(t)
        /\ sessions' = [sessions EXCEPT ![s].status = "cancelled"]
    BY <1>2, <1>4 DEF CancelSessionCommit, SeatsGuarded, At
  <2>2. RowsKept
    BY <2>1, SeenTyped DEF RowsKept
  <2>3. SameSeats
    BY <1>1, <2>1 DEF SameSeats, SessionRow
  <2>4. \A b \in BookingIds, z \in Sessions :
          HoldsSeat(bookings'[b], z) => HoldsSeat(bookings[b], z)
    BY <1>2, <2>1, SeenHolds DEF Ids
  <2> QED
    BY <1>4, <2>2, <2>3, <2>4, NoSeatTaken DEF CancelSessionCommit
<1>5. CASE DeleteCommit(t)
  <2>1. tx[t].op = "delete" /\ s \in Sessions
    BY <1>1, <1>5 DEF DeleteCommit, Addressed
  <2>2. SameSeats
    BY <1>1, <1>5 DEF DeleteCommit, SameSeats, SessionRow
  <2>3. ASSUME NEW b \in BookingIds
        PROVE  /\ bookings[b].status # "none" =>
                    /\ bookings'[b].status # "none"
                    /\ bookings'[b].s = bookings[b].s /\ bookings'[b].l = bookings[b].l
               /\ \A z : HoldsSeat(bookings'[b], z) => HoldsSeat(bookings[b], z)
    <3>1. CASE bookings[b].s = s
      <4>1. bookings[b] \in Row
        BY <1>1, <2>1, <3>1, NoneAssumption DEF BookingRow, NoBooking
      <4>2. bookings'[b] = [bookings[b] EXCEPT !.status = "deleted"]
        BY <1>5, <3>1 DEF DeleteCommit
      <4> QED
        BY <4>1, <4>2 DEF Row, HoldsSeat, SEAT_HOLDING
    <3>2. CASE bookings[b].s # s
      BY <1>5, <3>2 DEF DeleteCommit
    <3> QED
      BY <3>1, <3>2
  <2>4. RowsKept
    BY <2>3 DEF RowsKept
  <2> QED
    BY <1>5, <2>2, <2>3, <2>4, NoSeatTaken DEF DeleteCommit
<1>6. CASE PriceCommit(t) \/ PublishCommit(t) \/ CompleteCommit(t)
  <2>1. Commit(t) /\ UNCHANGED bookings /\
        \/ sessions' = [sessions EXCEPT ![s] = [sessions[s] EXCEPT !.price = tx[t].arg]]
        \/ sessions' = [sessions EXCEPT ![s] = [sessions[s] EXCEPT !.status = "published"]]
        \/ sessions' = [sessions EXCEPT ![s] = [sessions[s] EXCEPT !.status = "completed"]]
    BY <1>6 DEF PriceCommit, PublishCommit, CompleteCommit, UpdateSession
  <2>2. RowsKept
    BY <2>1 DEF RowsKept
  <2>3. SameSeats
    BY <1>1, <2>1 DEF SameSeats, SessionRow
  <2> QED
    BY <2>1, <2>2, <2>3, NoSeatTaken
<1>7. CASE RescheduleCommit(t)
  <2>1. Commit(t) /\ sessions' = [sessions EXCEPT ![s] = [sessions[s] EXCEPT !.start = tx[t].arg]]
    BY <1>7 DEF RescheduleCommit, UpdateSession
  <2>2. SameSeats
    BY <1>1, <2>1 DEF SameSeats, SessionRow
  <2>3. ASSUME NEW b \in BookingIds
        PROVE  /\ bookings[b].status # "none" =>
                    /\ bookings'[b].status # "none"
                    /\ bookings'[b].s = bookings[b].s /\ bookings'[b].l = bookings[b].l
               /\ \A z : HoldsSeat(bookings'[b], z) => HoldsSeat(bookings[b], z)
    <3>1. CASE b \in Ids(tx[t].own)
      <4>1. bookings[b] \in Row
        BY <3>1, RowTyped DEF CopiesKnown, Known, Ids
      <4>2. bookings'[b] = [bookings[b] EXCEPT !.start = tx[t].arg]
        BY <1>7, <3>1 DEF RescheduleCommit
      <4> QED
        BY <4>1, <4>2 DEF Row, HoldsSeat
    <3>2. CASE b \notin Ids(tx[t].own)
      BY <1>7, <3>2 DEF RescheduleCommit
    <3> QED
      BY <3>1, <3>2
  <2>4. RowsKept
    BY <2>3 DEF RowsKept
  <2> QED
    BY <2>1, <2>2, <2>3, <2>4, NoSeatTaken
<1>8. CASE AdjustCommit(t)
  <2>1. Commit(t) /\ RowsKept /\ SameSeats /\ bookings' = bookings
    BY <1>8 DEF AdjustCommit, RowsKept, SameSeats
  <2> QED
    BY <2>1, NoSeatTaken
<1>9. ~CapacityCommit(t) /\ ~AttendanceCommit(t)
  BY <1>2 DEF CapacityCommit, UpdateSession, At, AttendanceCommit, SeatOps
<1> QED
  BY <1>4, <1>5, <1>6, <1>7, <1>8, <1>9

(***************************************************************************)
(* Theorem                                                                 *)
(***************************************************************************)
LEMMA InitGuarded == Init => SeatInv
<1> SUFFICES ASSUME Init PROVE SeatInv
  OBVIOUS
<1>1. \A t \in Txns : tx[t] = Idle
  BY DEF Init
<1>2. \A t \in Txns : SeatsGuarded(t)
  BY <1>1 DEF SeatsGuarded, At, Idle
<1>3. ASSUME NEW s \in Sessions PROVE SeatsTaken(bookings, s) <= sessions[s].max
  <2>1. Holding(bookings, s) = {}
    BY DEF Init, Holding, HoldsSeat, NoBooking, SEAT_HOLDING
  <2>2. SeatsTaken(bookings, s) = 0
    BY <2>1, HoldingIsFinite, FS_EmptySet
  <2>3. sessions[s].max \in Nat
    BY NumberAssumption DEF Init
  <2> QED
    BY <2>2, <2>3
<1> QED
  BY <1>2, <1>3 DEF SeatInv, SeatsNeverOversell

LEMMA SeatsStutter ==
  ASSUME SeatInv, UNCHANGED <<sessions, bookings, sessionLock, tx>>
  PROVE  SeatInv'
<1>1. SeatsNeverOversell'
  BY DEF SeatInv, SeatsNeverOversell, SeatsTaken
<1>2. ASSUME NEW t \in Txns PROVE SeatsGuarded(t)'
  <2>1. SeatsGuarded(t)
    BY DEF SeatInv
  <2>2. SeenBy(t)' = SeenBy(t)
    BY DEF SeenBy
  <2> QED
    BY <2>1, <2>2 DEF SeatsGuarded, At, SeatsTaken
<1> QED
  BY <1>1, <1>2 DEF SeatInv

LEMMA StepIsGuarded ==
  ASSUME AdminOps \cap SeatOps = {}
  PROVE  IInv /\ SeatInv /\ [AdminNext]_vars => SeatInv'
<1> SUFFICES ASSUME IInv, SeatInv, [AdminNext]_vars PROVE SeatInv'
  OBVIOUS
<1>1. IInv'
  BY StepSound
<1>2. CASE UNCHANGED vars \/ Tick
  <2>1. UNCHANGED <<tables, sessionLock, tx>>
    BY <1>2 DEF vars, Tick, tables
  <2> QED
    BY <2>1, SeatsStutter DEF tables
<1>3. ASSUME NEW t \in Txns, Book(t) \/ Cancel(t) \/ Rollback(t) PROVE SeatInv'
  BY <1>1, <1>3, BookGuarded, CancelGuarded, RollbackGuarded
<1>4. ASSUME NEW t \in Txns, Admin(t) PROVE SeatInv'
  BY <1>1, <1>4, LoadGuarded, CancellingGuarded, AdminCommitGuarded DEF Admin
<1> QED
  BY <1>2, <1>3, <1>4 DEF AdminNext, Next

\* The invariant of seats: whoever counts them holds the session's lock, and
\* has room for what it is about to write.
THEOREM SeatInvariant ==
  ASSUME AdminOps \cap SeatOps = {}
  PROVE  AdminSpec => []SeatInv
<1>1. Init => IInv /\ SeatInv
  BY InitSound, InitGuarded
<1>2. IInv /\ SeatInv /\ [AdminNext]_vars => IInv' /\ SeatInv'
  BY StepSound, StepIsGuarded
<1> QED
  BY <1>1, <1>2, PTL DEF AdminSpec

\* "Seats never oversell": learners booking, cancelling and being promoted,
\* sessions cancelled, deleted, repriced, published, completed and moved, in
\* any number and any order, leave no session with more bookings that hold a
\* seat than it has seats.  record_attendance and a change of max_seats are
\* left out, and must be: the first turns a place in the queue into a seat that
\* nobody counts, and a change of max_seats compares with a count it reads
\* without a lock.
THEOREM SeatsSafe ==
  ASSUME AdminOps \cap SeatOps = {}
  PROVE  AdminSpec => []SeatsNeverOversell
<1>1. SeatInv => SeatsNeverOversell
  BY DEF SeatInv
<1> QED
  BY <1>1, SeatInvariant, PTL

(***************************************************************************)
(* What the learners' requests have charged                                *)
(***************************************************************************)
LearnerActs(t) == Book(t) \/ Cancel(t) \/ Rollback(t)

LInv == IInv /\ ClaimInv /\ PaidInv /\ SeatInv /\ LedgerInv

\* The transaction of a learner's request is none of the superuser's.
LEMMA LearnersOnly ==
  ASSUME LInv, NEW t \in Txns
  PROVE  tx[t].op \notin Attendance
  BY DEF LInv, LedgerInv, ExactlyCharged, Attendance

\* An idle transaction charges nobody.
LEMMA IdleCharged ==
  ASSUME NEW t \in Txns, tx'[t] = Idle
  PROVE  ExactlyCharged(t)'
  BY DEF ExactlyCharged, Idle

LEMMA BookCharged ==
  ASSUME LInv, NEW t \in Txns, Book(t)
  PROVE  ExactlyCharged(t)'
<1> ExactlyCharged(t) /\ TypeOK /\ tx[t] \in Transaction
  BY DEF LInv, LedgerInv, IInv, TypeOK
<1>1. ASSUME NEW l \in Learners, NEW s \in Sessions, BookLockSession(t, l, s)
      PROVE  ExactlyCharged(t)'
  <2> DEFINE r == [Idle EXCEPT !.op = "book", !.pc = "lock_user", !.s = s, !.l = l]
  <2>1. tx'[t] = r
    BY <1>1 DEF BookLockSession, Proceed, TypeOK
  <2>2. /\ r.op = "book" /\ r.pc = "lock_user" /\ r.own = {} /\ r.todo = {} /\ r.won = {}
        /\ r.delta = [x \in Learners |-> 0]
    BY DEF Idle
  <2> HIDE DEF r
  <2> QED
    BY <2>1, <2>2 DEF ExactlyCharged
<1>2. CASE BookLockUser(t)
  <2>1. /\ tx'[t] = [tx[t] EXCEPT !.pc = "count"] /\ sessions' = sessions
        /\ tx[t].op = "book" /\ tx[t].pc = "lock_user"
    BY <1>2 DEF BookLockUser, Proceed, TypeOK, At, tables
  <2>2. /\ tx'[t].op = "book" /\ tx'[t].pc = "count" /\ tx'[t].own = tx[t].own
        /\ tx'[t].todo = tx[t].todo /\ tx'[t].won = tx[t].won /\ tx'[t].delta = tx[t].delta
        /\ tx'[t].l = tx[t].l
    BY <2>1 DEF Transaction
  <2>3. tx[t].delta = [l \in Learners |-> 0]
    BY <2>1 DEF ExactlyCharged
  <2>4. tx'[t].delta = [l \in Learners |-> 0]
    BY <2>2, <2>3
  <2> QED
    BY <2>1, <2>2, <2>4 DEF ExactlyCharged
<1>3. CASE BookTakeSeat(t)
  <2> DEFINE price == sessions[tx[t].s].price
  <2>1. /\ tx'[t] = [tx[t] EXCEPT !.pc = "commit", !.delta[tx[t].l] = @ - price]
        /\ sessions' = sessions /\ tx[t].op = "book" /\ tx[t].pc = "count"
    BY <1>3 DEF BookTakeSeat, Proceed, TypeOK, At, tables
  <2>2. /\ tx'[t].op = "book" /\ tx'[t].pc = "commit" /\ tx'[t].own = tx[t].own
        /\ tx'[t].todo = tx[t].todo /\ tx'[t].won = tx[t].won /\ tx'[t].l = tx[t].l
        /\ tx'[t].s = tx[t].s
        /\ tx'[t].delta = [tx[t].delta EXCEPT ![tx[t].l] = @ - price]
    BY <2>1 DEF Transaction
  <2>3. tx[t].delta = [l \in Learners |-> 0] /\ price \in Int
    BY <2>1 DEF ExactlyCharged, TypeOK, Addressed, SessionRow
  <2>4. tx'[t].delta = [l \in Learners |-> IF l = tx[t].l THEN -price ELSE 0]
    <3> HIDE DEF price
    <3> QED
      BY <2>2, <2>3
  <2>5. sessions'[tx'[t].s].price = price
    BY <2>1, <2>2
  <2> HIDE DEF price
  <2> QED
    BY <2>2, <2>4, <2>5 DEF ExactlyCharged
<1>4. CASE BookCommit(t) \/ BookWaitlist(t)
  BY <1>4, EndStep, IdleCharged DEF BookCommit, BookWaitlist, Commit
<1> QED
  BY <1>1, <1>2, <1>3, <1>4 DEF Book

\* No learner waits twice for one session.
LEMMA WaitOnce ==
  ASSUME LInv, NEW s \in Sessions, NEW b \in Waitlist(bookings, s), NEW d \in Waitlist(bookings, s),
         bookings[b].l = bookings[d].l
  PROVE  b = d
  BY DEF LInv, LedgerInv, OneActivePerSession, Waitlist, Live

LEMMA CancelCharged ==
  ASSUME LInv, NEW t \in Txns, Cancel(t)
  PROVE  ExactlyCharged(t)'
<1> ExactlyCharged(t) /\ TypeOK /\ CopiesKnown /\ tx[t] \in Transaction /\ PromotesOthers(t)
  BY DEF LInv, LedgerInv, IInv, TypeOK, ClaimInv
<1> DEFINE price == sessions[tx[t].s].price
<1>1. ASSUME NEW b \in BookingIds, CancelLoad(t, b) PROVE ExactlyCharged(t)'
  <2> DEFINE r == [Idle EXCEPT !.op = "cancel", !.pc = "lock_session", !.s = bookings[b].s,
                               !.l = bookings[b].l, !.own = {CopyOf(b)}]
  <2>1. tx'[t] = r
    BY <1>1 DEF CancelLoad, Proceed, TypeOK
  <2>2. /\ r.op = "cancel" /\ r.pc = "lock_session" /\ r.own = {CopyOf(b)} /\ r.todo = {}
        /\ r.won = {} /\ r.delta = [x \in Learners |-> 0] /\ r.l = bookings[b].l
    BY DEF Idle
  <2>3. CopyOf(b).row.l = bookings[b].l
    BY DEF CopyOf
  <2> HIDE DEF r
  <2>4. tx'[t].delta = [x \in Learners |-> 0 - 0]
    BY <2>1, <2>2
  <2> QED
    BY <2>1, <2>2, <2>3, <2>4 DEF ExactlyCharged, Promotees
<1>2. CASE CancelLockSession(t)
  <2>1. /\ tx'[t] = [tx[t] EXCEPT !.pc = "lock_user"] /\ sessions' = sessions
        /\ tx[t].op = "cancel" /\ tx[t].pc = "lock_session"
    BY <1>2 DEF CancelLockSession, Proceed, TypeOK, At, tables
  <2>2. /\ tx'[t].op = "cancel" /\ tx'[t].pc = "lock_user" /\ tx'[t].own = tx[t].own
        /\ tx'[t].todo = tx[t].todo /\ tx'[t].won = tx[t].won /\ tx'[t].delta = tx[t].delta
        /\ tx'[t].l = tx[t].l /\ tx'[t].s = tx[t].s
    BY <2>1 DEF Transaction
  <2> QED
    BY <2>1, <2>2 DEF ExactlyCharged, Promotees
<1>3. CASE CancelLockUser(t)
  <2> DEFINE s == tx[t].s
             free == sessions[s].max - SeatsTaken(SeenBy(t), s)
             left == IF sessions[s].status = "published" THEN free ELSE 0
             queue == {CopyOf(b) : b \in Waitlist(SeenBy(t), s)}
  <2>1. PICK c \in tx[t].own :
          Proceed(t, [tx[t] EXCEPT !.pc = "promote", !.arg = Refund(s, c.row),
                                   !.delta[tx[t].l] = @ + Refund(s, c.row),
                                   !.free = left, !.todo = queue])
    BY <1>3 DEF CancelLockUser
  <2> DEFINE refund == Refund(s, c.row)
  <2>2. /\ tx'[t] = [tx[t] EXCEPT !.pc = "promote", !.arg = refund,
                                  !.delta[tx[t].l] = @ + refund,
                                  !.free = left, !.todo = queue]
        /\ tx[t].op = "cancel" /\ tx[t].pc = "lock_user"
    BY <1>3, <2>1 DEF Proceed, TypeOK, CancelLockUser, At
  <2>3. c.row.spent \in Nat
    BY DEF Transaction, Copy, Row
  <2>4. refund \in Int
    BY <2>3 DEF Refund
  <2>5. s \in Sessions /\ \A b \in Waitlist(SeenBy(t), s) : b \in Waitlist(bookings, s)
    BY <2>2, WaitlistSeen DEF TypeOK, Addressed
  <2>6. \A x, y \in queue : x.row.l = y.row.l => x = y
    <3>1. \A b \in BookingIds : CopyOf(b).row = bookings[b]
      BY DEF CopyOf
    <3> QED
      BY <2>5, <3>1, WaitOnce DEF Waitlist
  <2> HIDE DEF refund, left, queue, s
  <2>7. /\ tx'[t].op = "cancel" /\ tx'[t].pc = "promote" /\ tx'[t].own = tx[t].own
        /\ tx'[t].todo = queue /\ tx'[t].won = tx[t].won /\ tx'[t].l = tx[t].l
        /\ tx'[t].arg = refund
        /\ tx'[t].delta = [tx[t].delta EXCEPT ![tx[t].l] = @ + refund]
    BY <2>2 DEF Transaction
  <2>8. tx[t].won = {} /\ tx[t].delta = [l \in Learners |-> 0 - 0]
    BY <2>2 DEF PromotesOthers, At, ExactlyCharged, Promotees
  <2>9. tx'[t].delta = [l \in Learners |-> (IF l = tx[t].l THEN refund ELSE 0) - 0]
    BY <2>4, <2>7, <2>8
  <2> QED
    BY <2>6, <2>7, <2>8, <2>9 DEF ExactlyCharged, Promotees
<1>4. CASE PromoteTake(t)
  <2>1. PICK c \in Candidates(t) :
          Proceed(t, [tx[t] EXCEPT !.todo = @ \ {c}, !.won = @ \cup {c}, !.free = @ - 1,
                                   !.delta[c.row.l] = @ - price])
    BY <1>4 DEF PromoteTake
  <2>2. /\ tx'[t] = [tx[t] EXCEPT !.todo = @ \ {c}, !.won = @ \cup {c}, !.free = @ - 1,
                                  !.delta[c.row.l] = @ - price]
        /\ sessions' = sessions /\ tx[t].op = "cancel" /\ tx[t].pc = "promote" /\ c \in tx[t].todo
    BY <1>4, <2>1 DEF Proceed, TypeOK, PromoteTake, Promoting, At, Candidates, tables
  <2>3. price \in Int /\ tx[t].arg \in Int
    BY <2>2 DEF TypeOK, Addressed, SessionRow, Transaction
  <2>4. sessions'[tx[t].s].price = price
    BY <2>2
  <2> HIDE DEF price
  <2>5. /\ tx'[t].op = "cancel" /\ tx'[t].pc = "promote" /\ tx'[t].own = tx[t].own
        /\ tx'[t].todo = tx[t].todo \ {c} /\ tx'[t].won = tx[t].won \cup {c}
        /\ tx'[t].l = tx[t].l /\ tx'[t].s = tx[t].s /\ tx'[t].arg = tx[t].arg
        /\ tx'[t].delta = [tx[t].delta EXCEPT ![c.row.l] = @ - price]
    BY <2>2 DEF Transaction
  <2>6. c.row.l \notin Promotees(t)
    BY <2>2 DEF ExactlyCharged, Promotees
  <2>7. Promotees(t)' = Promotees(t) \cup {c.row.l}
    BY <2>5 DEF Promotees
  <2>8. tx[t].delta = [l \in Learners |-> (IF l = tx[t].l THEN tx[t].arg ELSE 0)
                                          - (IF l \in Promotees(t) THEN price ELSE 0)]
    BY <2>2 DEF ExactlyCharged, price
  <2>9. tx'[t].delta = [l \in Learners |-> (IF l = tx[t].l THEN tx[t].arg ELSE 0)
                                           - (IF l \in Promotees(t)' THEN price ELSE 0)]
    BY <2>3, <2>5, <2>6, <2>7, <2>8
  <2>10. /\ \A x, y \in tx'[t].todo \cup tx'[t].won : x.row.l = y.row.l => x = y
         /\ tx'[t].todo \cap tx'[t].won = {}
    BY <2>2, <2>5 DEF ExactlyCharged
  <2>11. \A x \in tx'[t].own : x.row.l = tx'[t].l
    BY <2>5 DEF ExactlyCharged
  <2> QED
    BY <2>4, <2>5, <2>9, <2>10, <2>11 DEF ExactlyCharged
<1>5. CASE PromoteSkip(t) \/ PromoteDeadlock(t)
  <2>1. PICK c \in Candidates(t) : Proceed(t, [tx[t] EXCEPT !.todo = @ \ {c}])
    BY <1>5 DEF PromoteSkip, PromoteDeadlock
  <2>2. /\ tx'[t] = [tx[t] EXCEPT !.todo = @ \ {c}] /\ sessions' = sessions
    BY <1>5, <2>1 DEF Proceed, TypeOK, PromoteSkip, PromoteDeadlock, tables
  <2>3. /\ tx'[t].op = tx[t].op /\ tx'[t].pc = tx[t].pc /\ tx'[t].own = tx[t].own
        /\ tx'[t].todo = tx[t].todo \ {c} /\ tx'[t].won = tx[t].won /\ tx'[t].l = tx[t].l
        /\ tx'[t].s = tx[t].s /\ tx'[t].arg = tx[t].arg /\ tx'[t].delta = tx[t].delta
    BY <2>2 DEF Transaction
  <2> QED
    BY <2>2, <2>3 DEF ExactlyCharged, Promotees
<1>6. CASE CancelCommit(t)
  BY <1>6, EndStep, IdleCharged DEF CancelCommit, Commit
<1> QED
  BY <1>1, <1>2, <1>3, <1>4, <1>5, <1>6 DEF Cancel

LEMMA StepCharged ==
  ASSUME LInv, NEW t \in Txns, LearnerActs(t)
  PROVE  \A u \in Txns : ExactlyCharged(u)'
<1> TypeOK
  BY DEF LInv, IInv
<1>1. sessions' = sessions
  BY DEF LearnerActs, Book, Cancel, Rollback, BookLockSession, BookLockUser, BookTakeSeat,
         BookCommit, BookWaitlist, CancelLoad, CancelLockSession, CancelLockUser, PromoteTake,
         PromoteSkip, PromoteDeadlock, CancelCommit, tables
<1>2. \A u \in Txns \ {t} : tx'[u] = tx[u]
  BY TxnStep DEF OthersStay, TxnActs, LearnerActs
<1>3. ASSUME NEW u \in Txns \ {t} PROVE ExactlyCharged(u)'
  BY <1>1, <1>2 DEF LInv, LedgerInv, ExactlyCharged, Promotees
<1>4. ExactlyCharged(t)'
  BY BookCharged, CancelCharged, EndStep, IdleCharged DEF LearnerActs, Rollback
<1> QED
  BY <1>3, <1>4

\* What a request of a learner does to a row that exists.
LEMMA LearnersRow ==
  ASSUME LInv, NEW t \in Txns, LearnerActs(t), NEW b \in BookingIds
  PROVE  \/ Untouched(b)
         \/ Created(b)
         \/ bookings[b] \in Row /\ (Released(b) \/ Removed(b) \/ Moved(t, b))
         \/ bookings[b] \in Row /\ bookings[b].status = "waitlisted" /\ Raised(t, b)
  BY LearnersOnly, PaidRow DEF LInv, LearnerActs, TxnActs

LEMMA StepSingle ==
  ASSUME LInv, NEW t \in Txns, LearnerActs(t)
  PROVE  OneActivePerSession(bookings')
<1>1. CASE BookCommit(t) \/ BookWaitlist(t)
  BY <1>1 DEF BookCommit, BookWaitlist, Accepted
<1>2. CASE UNCHANGED tables
  BY <1>2 DEF tables, LInv, LedgerInv
<1>3. CASE Cancel(t)
  <2>1. ASSUME NEW b \in BookingIds, bookings'[b].status \in Live
        PROVE  bookings[b].status \in Live /\ bookings'[b].s = bookings[b].s
               /\ bookings'[b].l = bookings[b].l
    <3>1. RowChange(t, b)
      BY <1>3, CancelRows DEF LInv, ClaimInv
    <3>2. ~Created(b)
      BY <3>1 DEF RowChange, Untouched, Created, Row, BookingStatus, Live, SEAT_HOLDING
    <3>3. \/ Untouched(b)
          \/ bookings[b] \in Row /\ (Released(b) \/ Removed(b) \/ Moved(t, b))
          \/ bookings[b] \in Row /\ bookings[b].status = "waitlisted" /\ Raised(t, b)
      BY <1>3, <3>2, LearnersRow DEF LearnerActs
    <3> QED
      BY <2>1, <3>3 DEF Untouched, Released, Removed, Moved, Raised, Cancelled, Promoted, Row,
                        Live, SEAT_HOLDING
  <2> QED
    BY <2>1 DEF OneActivePerSession, LInv, LedgerInv
<1> QED
  BY <1>1, <1>2, <1>3 DEF LearnerActs, Book, BookLockSession, BookLockUser, BookTakeSeat, Rollback

LEMMA StepPriced ==
  ASSUME LInv, NEW t \in Txns, LearnerActs(t), NEW b \in BookingIds, bookings'[b].status # "none"
  PROVE  bookings'[b].spent \in {0, sessions'[bookings'[b].s].price}
<1> TypeOK /\ PromotesOthers(t) /\ CopiesHonest(t)
  BY DEF LInv, IInv, ClaimInv
<1>1. bookings[b].status # "none" => bookings[b].spent \in {0, sessions[bookings[b].s].price}
  BY DEF LInv, LedgerInv
<1>2. sessions' = sessions
  BY DEF LearnerActs, Book, Cancel, Rollback, BookLockSession, BookLockUser, BookTakeSeat,
         BookCommit, BookWaitlist, CancelLoad, CancelLockSession, CancelLockUser, PromoteTake,
         PromoteSkip, PromoteDeadlock, CancelCommit, tables
<1>3. CASE BookCommit(t)
  <2>1. PICK x \in BookingIds :
          bookings' = [bookings EXCEPT ![x] =
                         NewBooking(t, "confirmed", sessions[tx[t].s].price, 0)]
    BY <1>3 DEF BookCommit
  <2> QED
    BY <1>1, <1>2, <2>1 DEF NewBooking, TypeOK
<1>4. CASE UNCHANGED tables
  BY <1>1, <1>4 DEF tables
<1>5. CASE BookWaitlist(t)
  <2>1. PICK x \in BookingIds, p \in NextPositions(tx[t].s) :
          bookings' = [bookings EXCEPT ![x] = NewBooking(t, "waitlisted", 0, p)]
    BY <1>5 DEF BookWaitlist
  <2> QED
    BY <1>1, <1>2, <2>1 DEF NewBooking, TypeOK
<1>6. CASE Cancel(t)
  <2>1. RowChange(t, b)
    BY <1>6, CancelRows DEF LInv, ClaimInv
  <2>2. ~Created(b)
    BY <2>1 DEF RowChange, Untouched, Created, Row, BookingStatus
  <2>3. CASE Untouched(b)
    BY <1>1, <1>2, <2>3 DEF Untouched
  <2>4. CASE bookings[b] \in Row /\ (Released(b) \/ Removed(b) \/ Moved(t, b))
    BY <1>1, <1>2, <2>4 DEF Released, Removed, Moved, Cancelled, Row, BookingStatus
  <2>5. CASE bookings[b] \in Row /\ Raised(t, b)
    <3>1. bookings[b].s = tx[t].s
      BY <2>5, OwnRow DEF LInv, Raised, Ids
    <3> QED
      BY <1>2, <2>5, <3>1 DEF Raised, Promoted, Row
  <2> QED
    BY <1>6, <2>2, <2>3, <2>4, <2>5, LearnersRow DEF LearnerActs
<1> QED
  BY <1>3, <1>4, <1>5, <1>6 DEF LearnerActs, Book, BookLockSession, BookLockUser, BookTakeSeat,
                                 Rollback

LEMMA InitLedger == Init => LInv
<1> SUFFICES ASSUME Init PROVE LInv
  OBVIOUS
<1>1. IInv /\ ClaimInv /\ PaidInv /\ SeatInv
  BY InitSound, InitClaims, InitPaid, InitGuarded
<1>2. \A t \in Txns : tx[t] = Idle
  BY DEF Init
<1>3. \A t \in Txns : ExactlyCharged(t)
  BY <1>2 DEF ExactlyCharged, Idle
<1>4. \A b \in BookingIds : bookings[b].status = "none"
  BY DEF Init, NoBooking
<1> QED
  BY <1>1, <1>3, <1>4 DEF LInv, LedgerInv, OneActivePerSession, Live, SEAT_HOLDING

LEMMA StepLedger == LInv /\ [Next]_vars => LInv'
<1> SUFFICES ASSUME LInv, [Next]_vars PROVE LInv'
  OBVIOUS
<1>1. [AdminNext]_vars
  BY DEF AdminNext
<1>2. IInv' /\ ClaimInv'
  BY <1>1, StepSound, StepClaims DEF LInv
<1>3. CASE UNCHANGED vars \/ Tick
  <2>1. UNCHANGED <<sessions, bookings, net, sessionLock, tx>>
    BY <1>3 DEF vars, Tick, tables
  <2>2. PaidInv'
    BY <2>1 DEF LInv, PaidInv, SeatIsPaidFor, StillWaiting, At
  <2>3. SeatInv'
    BY <2>1, SeatsStutter DEF LInv
  <2>4. LedgerInv'
    BY <2>1 DEF LInv, LedgerInv, ExactlyCharged, Promotees
  <2> QED
    BY <1>2, <2>2, <2>3, <2>4 DEF LInv
<1>4. ASSUME NEW t \in Txns, LearnerActs(t) PROVE LInv'
  <2>1. PaidInv'
    BY <1>4, LearnersOnly, PaidStep DEF LInv, LearnerActs, TxnActs
  <2>2. SeatInv'
    BY <1>2, <1>4, BookGuarded, CancelGuarded, RollbackGuarded DEF LInv, LearnerActs
  <2>3. LedgerInv'
    BY <1>4, StepCharged, StepSingle, StepPriced DEF LedgerInv
  <2> QED
    BY <1>2, <2>1, <2>2, <2>3 DEF LInv
<1> QED
  BY <1>3, <1>4 DEF Next, LearnerActs

(***************************************************************************)
(* Booking implements SeatLedger                                           *)
(***************************************************************************)
\* A learner holds at most one seat of a session: as many are seated as seats
\* are taken.
LEMMA HoldersCount ==
  ASSUME NEW rows, OneActivePerSession(rows), NEW s
  PROVE  Cardinality({rows[b].l : b \in Holding(rows, s)}) = SeatsTaken(rows, s)
<1> DEFINE S == Holding(rows, s)
           T == {rows[b].l : b \in S}
           f == [b \in S |-> rows[b].l]
<1>1. f \in [S -> T]
  OBVIOUS
<1>2. f \in Surjection(S, T)
  BY <1>1 DEF Surjection
<1>3. \A b, d \in S : rows[b].l = rows[d].l => b = d
  BY DEF OneActivePerSession, Holding, HoldsSeat, Live
<1>4. f \in Injection(S, T)
  BY <1>1, <1>3 DEF Injection, IsInjective
<1> HIDE DEF S, T, f
<1>5. IsFiniteSet(S) /\ SeatsTaken(rows, s) = Cardinality(S)
  BY HoldingIsFinite DEF S
<1> QED
  <2>1. Cardinality(T) = SeatsTaken(rows, s)
    BY <1>2, <1>4, <1>5, FS_Surjection
  <2> QED
    BY <2>1 DEF S, T

LEMMA SeatedCount ==
  ASSUME LInv, NEW s
  PROVE  Cardinality(Holders(s)) = SeatsTaken(bookings, s)
<1>1. Holders(s) = {bookings[b].l : b \in Holding(bookings, s)}
  BY DEF Holders, LearnersOf, Holding, HoldsSeat
<1> QED
  BY <1>1, HoldersCount DEF LInv, LedgerInv

\* A learner among the holders, and one in the queue, has a booking.
LEMMA HasBooking ==
  ASSUME NEW s, NEW l
  PROVE  /\ l \in Holders(s) <=> \E b \in BookingIds : HoldsSeat(bookings[b], s) /\ bookings[b].l = l
         /\ l \in LearnersOf(Waitlist(bookings, s)) <=>
              \E b \in Waitlist(bookings, s) : bookings[b].l = l
  BY DEF Holders, LearnersOf, HoldsSeat

\* The variables of SeatLedger.
Capacity == [s \in Sessions |-> sessions[s].max]
Price == [s \in Sessions |-> sessions[s].price]
Seated == [s \in Sessions |-> Holders(s)]
Line == [s \in Sessions |-> LearnersOf(Waitlist(bookings, s))]
Ahead == [s \in Sessions |-> {<<bookings[p[1]].l, bookings[p[2]].l>> : p \in Before(s)}]

\* The queues stay as they are when the waiting rows do.
LEMMA QueueKept ==
  ASSUME \A b \in BookingIds :
           /\ bookings'[b].status = "waitlisted" <=> bookings[b].status = "waitlisted"
           /\ bookings[b].status = "waitlisted" => bookings'[b] = bookings[b]
  PROVE  UNCHANGED <<Line, Ahead>>
<1>1. ASSUME NEW s \in Sessions
      PROVE  /\ Waitlist(bookings, s)' = Waitlist(bookings, s)
             /\ \A b \in Waitlist(bookings, s) : bookings'[b] = bookings[b]
  BY DEF Waitlist
<1>2. \A s \in Sessions : LearnersOf(Waitlist(bookings, s))' = LearnersOf(Waitlist(bookings, s))
  BY <1>1 DEF LearnersOf
<1>3. ASSUME NEW s \in Sessions
      PROVE  {<<bookings[p[1]].l, bookings[p[2]].l>> : p \in Before(s)}' =
             {<<bookings[p[1]].l, bookings[p[2]].l>> : p \in Before(s)}
  <2>1. Before(s)' = Before(s)
    BY <1>1 DEF Before
  <2>2. \A p \in Before(s) : bookings'[p[1]] = bookings[p[1]] /\ bookings'[p[2]] = bookings[p[2]]
    BY <1>1 DEF Before
  <2> QED
    BY <2>1, <2>2
<1> QED
  BY <1>2, <1>3 DEF Line, Ahead

\* Both modules count in the same way.
LEMMA SameCount == \A S : Abstract!Cardinality(S) = Cardinality(S)
  BY DEF Abstract!Cardinality, Cardinality

LEMMA TakesSeat ==
  ASSUME LInv, LInv', NEW t \in Txns, BookCommit(t),
         NEW l, NEW s, l = tx[t].l, s = tx[t].s
  PROVE  Abstract!TakeSeat(l, s)
<1> DEFINE price == sessions[s].price
<1> TypeOK /\ tx[t] \in Transaction /\ ExactlyCharged(t) /\ SeatsGuarded(t)
  BY DEF LInv, IInv, TypeOK, LedgerInv, SeatInv
<1>1. At(t, "book", "commit") /\ l \in Learners /\ s \in Sessions /\ price \in Nat
  BY DEF BookCommit, TypeOK, Addressed, SessionRow, At
<1>2. PICK x \in BookingIds :
        /\ bookings[x].status = "none"
        /\ bookings' = [bookings EXCEPT ![x] = NewBooking(t, "confirmed", price, 0)]
  BY DEF BookCommit
<1>3. /\ bookings'[x].status = "confirmed" /\ bookings'[x].s = s /\ bookings'[x].l = l
      /\ \A b \in BookingIds \ {x} : bookings'[b] = bookings[b]
  BY <1>2 DEF TypeOK, NewBooking
<1>4. \A b \in BookingIds : bookings[b].s = s /\ bookings[b].l = l => bookings[b].status \notin Live
  <2>1. OneActivePerSession(bookings')
    BY DEF LInv, LedgerInv
  <2> QED
    BY <1>2, <1>3, <2>1 DEF OneActivePerSession, Live, SEAT_HOLDING
<1>5. l \notin Holders(s) \cup LearnersOf(Waitlist(bookings, s))
  <2>1. l \notin Holders(s)
    BY <1>4, HasBooking DEF HoldsSeat, Live
  <2>2. \A b \in Waitlist(bookings, s) : bookings[b].l # l
    BY <1>4 DEF Waitlist, Live
  <2>3. l \notin LearnersOf(Waitlist(bookings, s))
    BY <2>2 DEF LearnersOf
  <2> QED
    BY <2>1, <2>3
<1>6. Cardinality(Holders(s)) < sessions[s].max
  BY <1>1, SeatedCount DEF SeatsGuarded, At
<1>7. /\ tx[t].delta = [z \in Learners |-> IF z = l THEN -price ELSE 0]
      /\ balance \in [Learners -> Int]
  BY <1>1 DEF ExactlyCharged, At, TypeOK
<1>8. balance[l] >= price
  <2>1. tx[t].delta[l] = -price /\ balance[l] \in Int /\ balance[l] >= 0
    BY <1>1, <1>7 DEF LInv, IInv, BalanceNeverNegative
  <2>2. tx[t].delta[l] < 0 => balance[l] + tx[t].delta[l] >= 0
    BY <1>1 DEF LInv, IInv, Funded, BalanceSeenBy
  <2> HIDE DEF price
  <2> QED
    BY <1>1, <2>1, <2>2
<1>9. balance' = [balance EXCEPT ![l] = @ - price]
  <2>1. balance' = [z \in Learners |-> balance[z] + tx[t].delta[z]]
    BY DEF BookCommit, Commit, BalanceSeenBy
  <2> HIDE DEF price
  <2>2. \A z \in Learners :
          balance[z] + tx[t].delta[z] = IF z = l THEN balance[l] - price ELSE balance[z]
    BY <1>1, <1>7
  <2>3. [balance EXCEPT ![l] = @ - price]
          = [z \in Learners |-> IF z = l THEN balance[l] - price ELSE balance[z]]
    BY <1>1, <1>7
  <2> QED
    BY <2>1, <2>2, <2>3
<1>10. ASSUME NEW z \in Sessions
       PROVE  Holders(z)' = IF z = s THEN Holders(z) \cup {l} ELSE Holders(z)
  <2> QED
    BY <1>2, <1>3 DEF Holders, LearnersOf, SEAT_HOLDING
<1>11. UNCHANGED <<Line, Ahead>>
  <2> QED
    BY <1>2, <1>3, QueueKept
<1>12. Seated' = [Seated EXCEPT ![s] = @ \cup {l}]
  <2> QED
    BY <1>1, <1>10 DEF Seated
<1>13. UNCHANGED <<Capacity, Price>>
  BY DEF BookCommit, Capacity, Price
<1> QED
  BY <1>1, <1>5, <1>6, <1>8, <1>9, <1>11, <1>12, <1>13, SameCount
     DEF Abstract!TakeSeat, Seated, Line, Ahead, Capacity, Price

LEMMA JoinsQueue ==
  ASSUME LInv, LInv', NEW t \in Txns, BookWaitlist(t),
         NEW l, NEW s, l = tx[t].l, s = tx[t].s
  PROVE  Abstract!JoinQueue(l, s)
<1> TypeOK /\ tx[t] \in Transaction /\ ExactlyCharged(t)
  BY DEF LInv, IInv, TypeOK, LedgerInv
<1>1. At(t, "book", "count") /\ l \in Learners /\ s \in Sessions
  BY DEF BookWaitlist, TypeOK, Addressed, At
<1>2. PICK x \in BookingIds, p \in NextPositions(s) :
        /\ bookings[x].status = "none"
        /\ bookings' = [bookings EXCEPT ![x] = NewBooking(t, "waitlisted", 0, p)]
  BY DEF BookWaitlist
<1>3. /\ bookings'[x].status = "waitlisted" /\ bookings'[x].s = s /\ bookings'[x].l = l
      /\ bookings'[x].pos = p
      /\ \A b \in BookingIds \ {x} : bookings'[b] = bookings[b]
  BY <1>2 DEF TypeOK, NewBooking
<1>4. \A b \in BookingIds : bookings[b].s = s /\ bookings[b].l = l => bookings[b].status \notin Live
  <2>1. OneActivePerSession(bookings')
    BY DEF LInv, LedgerInv
  <2> QED
    BY <1>2, <1>3, <2>1 DEF OneActivePerSession, Live, SEAT_HOLDING
<1>5. l \notin Holders(s) \cup LearnersOf(Waitlist(bookings, s))
  <2>1. l \notin Holders(s)
    BY <1>4, HasBooking DEF HoldsSeat, Live
  <2>2. \A b \in Waitlist(bookings, s) : bookings[b].l # l
    BY <1>4 DEF Waitlist, Live
  <2>3. l \notin LearnersOf(Waitlist(bookings, s))
    BY <2>2 DEF LearnersOf
  <2> QED
    BY <2>1, <2>3
<1>6. Cardinality(Holders(s)) >= sessions[s].max
  BY <1>1, SeatedCount DEF BookWaitlist
<1>7. balance' = balance
  <2>1. balance \in [Learners -> Int] /\ tx[t].delta = [z \in Learners |-> 0]
    BY <1>1 DEF ExactlyCharged, At, TypeOK
  <2>2. balance' = [z \in Learners |-> balance[z] + tx[t].delta[z]]
    BY DEF BookWaitlist, Commit, BalanceSeenBy
  <2> QED
    BY <2>1, <2>2
<1>8. UNCHANGED Seated
  <2>1. ASSUME NEW z \in Sessions PROVE Holders(z)' = Holders(z)
    BY <1>2, <1>3 DEF Holders, LearnersOf, SEAT_HOLDING
  <2> QED
    BY <2>1 DEF Seated
<1>9. ASSUME NEW z \in Sessions
      PROVE  Waitlist(bookings, z)' = IF z = s THEN Waitlist(bookings, z) \cup {x}
                                      ELSE Waitlist(bookings, z)
  <2> QED
    BY <1>2, <1>3 DEF Waitlist
<1>10. ASSUME NEW z \in Sessions
       PROVE  /\ x \notin Waitlist(bookings, z)
              /\ \A b \in Waitlist(bookings, z) : bookings'[b] = bookings[b]
  BY <1>2, <1>3 DEF Waitlist
<1>11. Line' = [Line EXCEPT ![s] = @ \cup {l}]
  <2>1. ASSUME NEW z \in Sessions
        PROVE  LearnersOf(Waitlist(bookings, z))' =
               IF z = s THEN LearnersOf(Waitlist(bookings, z)) \cup {l}
               ELSE LearnersOf(Waitlist(bookings, z))
    <3> QED
      BY <1>3, <1>9, <1>10 DEF LearnersOf
  <2> QED
    BY <1>1, <2>1 DEF Line
<1>12. \A b \in Waitlist(bookings, s) : bookings[b].pos < p
  BY DEF NextPositions
<1>13. p \in Int /\ \A b \in Waitlist(bookings, s) : bookings[b].pos \in Nat
  BY <1>1 DEF NextPositions, Waitlist, TypeOK, BookingRow, Row, NoBooking
<1>14. ASSUME NEW z \in Sessions
       PROVE  Before(z)' = IF z = s THEN Before(z) \cup (Waitlist(bookings, z) \X {x}) ELSE Before(z)
  <2>1. CASE z # s
    BY <1>9, <1>10, <2>1 DEF Before
  <2>2. CASE z = s
    BY <1>3, <1>9, <1>10, <1>12, <1>13, <2>2 DEF Before
  <2> QED
    BY <2>1, <2>2
<1>15. Ahead' = [Ahead EXCEPT ![s] = @ \cup (Line[s] \X {l})]
  <2> DEFINE Pairs(z) == {<<bookings[q[1]].l, bookings[q[2]].l>> : q \in Before(z)}
  <2>1. ASSUME NEW z \in Sessions, NEW q \in Before(z)
        PROVE  bookings'[q[1]] = bookings[q[1]] /\ bookings'[q[2]] = bookings[q[2]]
    BY <1>10 DEF Before
  <2>2. ASSUME NEW z \in Sessions, z # s PROVE Pairs(z)' = Pairs(z)
    BY <1>14, <2>1, <2>2
  <2>3. ASSUME NEW z \in Sessions, z = s
        PROVE  Pairs(z)' = Pairs(z) \cup (LearnersOf(Waitlist(bookings, z)) \X {l})
    <3>1. Before(z)' = Before(z) \cup (Waitlist(bookings, z) \X {x})
      BY <1>14, <2>3
    <3>2. \A q \in Before(z) : bookings'[q[1]] = bookings[q[1]] /\ bookings'[q[2]] = bookings[q[2]]
      BY <2>1
    <3>3. \A b \in Waitlist(bookings, z) : bookings'[b] = bookings[b]
      BY <1>10
    <3>4. {<<bookings'[q[1]].l, bookings'[q[2]].l>> : q \in Before(z)} = Pairs(z)
      BY <3>2
    <3>5. {<<bookings'[q[1]].l, bookings'[q[2]].l>> : q \in Waitlist(bookings, z) \X {x}} =
          LearnersOf(Waitlist(bookings, z)) \X {l}
      <4> DEFINE W == Waitlist(bookings, z)
      <4>1. ASSUME NEW q \in W \X {x}
            PROVE  <<bookings'[q[1]].l, bookings'[q[2]].l>> \in LearnersOf(W) \X {l}
        BY <1>3, <3>3 DEF LearnersOf
      <4>2. ASSUME NEW y \in LearnersOf(W) \X {l}
            PROVE  \E q \in W \X {x} : y = <<bookings'[q[1]].l, bookings'[q[2]].l>>
        <5>1. PICK b \in W : y = <<bookings[b].l, l>>
          BY DEF LearnersOf
        <5>2. <<b, x>> \in W \X {x} /\ y = <<bookings'[b].l, bookings'[x].l>>
          BY <1>3, <3>3, <5>1
        <5> QED
          BY <5>2
      <4> QED
        BY <4>1, <4>2
    <3> QED
      BY <3>1, <3>4, <3>5
  <2>4. Ahead = [z \in Sessions |-> Pairs(z)] /\ Ahead' = [z \in Sessions |-> Pairs(z)']
    BY DEF Ahead
  <2>5. Line[s] = LearnersOf(Waitlist(bookings, s))
    BY <1>1 DEF Line
  <2> HIDE DEF Pairs
  <2> QED
    BY <1>1, <2>2, <2>3, <2>4, <2>5
<1>16. UNCHANGED <<Capacity, Price>>
  BY DEF BookWaitlist, Capacity, Price
<1> QED
  BY <1>1, <1>5, <1>6, <1>7, <1>8, <1>11, <1>15, <1>16, SameCount
     DEF Abstract!JoinQueue, Seated, Line, Ahead, Capacity, Price

(***************************************************************************)
(* A cancellation                                                          *)
(***************************************************************************)
\* Who leaves: the learner, unless the booking was no longer live.
Leaving(t) ==
  {l \in {tx[t].l} : \E c \in tx[t].own : bookings[c.id].status \in Live}

\* What the cancellation leaves of the rows of the session it is about.
LEMMA CancelRow ==
  ASSUME LInv, NEW t \in Txns, CancelCommit(t), NEW c, tx[t].own = {c}, NEW b \in BookingIds
  PROVE  /\ b = c.id => bookings[b] \in Row /\ bookings'[b] = Cancelled(bookings[b])
         /\ b \in Ids(tx[t].won) =>
              /\ b # c.id /\ bookings[b] \in Row /\ bookings[b].status = "waitlisted"
              /\ bookings'[b] = Promoted(bookings[b], sessions[tx[t].s].price)
         /\ b # c.id /\ b \notin Ids(tx[t].won) => bookings'[b] = bookings[b]
<1> TypeOK /\ PromotesOthers(t) /\ CopiesHonest(t) /\ StillWaiting(t)
  BY DEF LInv, IInv, ClaimInv, PaidInv
<1>1. At(t, "cancel", "promote") /\ bookings' = SeenBy(t)
  BY DEF CancelCommit
<1>2. Ids(tx[t].own) = {c.id}
  BY DEF Ids
<1>3. b = c.id => bookings[b] \in Row
  BY OwnRow DEF LInv
<1>4. b \in Ids(tx[t].won) => b # c.id /\ bookings[b] \in Row /\ bookings[b].status = "waitlisted"
  BY <1>1, <1>2, OwnRow DEF LInv, Ids, PromotesOthers, StillWaiting
<1> QED
  BY <1>1, <1>2, <1>3, <1>4 DEF SeenBy

LEMMA Leaves ==
  ASSUME LInv, LInv', NEW t \in Txns, CancelCommit(t),
         NEW l, NEW s, NEW gone, NEW up, NEW refund,
         l = tx[t].l, s = tx[t].s, gone = Leaving(t), up = Promotees(t), refund = tx[t].arg
  PROVE  /\ l \in Learners /\ s \in Sessions
         /\ gone \subseteq {l} /\ up \subseteq Line[s] /\ refund \in 0 .. Price[s]
         /\ Abstract!Leave(l, s, gone, up, refund)
<1> DEFINE price == sessions[s].price
<1> TypeOK /\ CopiesKnown /\ tx[t] \in Transaction /\ ExactlyCharged(t) /\ PromotesOthers(t)
    /\ CopiesHonest(t) /\ OneActivePerSession(bookings)
  BY DEF LInv, IInv, TypeOK, LedgerInv, ClaimInv
<1>1. At(t, "cancel", "promote") /\ l \in Learners /\ s \in Sessions /\ price \in Nat
  BY DEF CancelCommit, TypeOK, Addressed, SessionRow, At
<1>2. PICK c \in tx[t].own : tx[t].own = {c}
  BY <1>1 DEF PromotesOthers, At
<1> DEFINE x == c.id
<1>3. x \in BookingIds /\ bookings[x] \in Row /\ bookings[x].s = s /\ bookings[x].l = l
  BY <1>2, OwnRow DEF LInv, CopiesKnown, Known, ExactlyCharged
<1>4. gone = IF bookings[x].status \in Live THEN {l} ELSE {}
  BY <1>2 DEF Leaving
<1>5. ASSUME NEW b \in Ids(tx[t].won)
      PROVE  b \in Waitlist(bookings, s) /\ bookings[b].l \in up
  <2>1. PICK d \in tx[t].won : d.id = b
    BY DEF Ids
  <2>2. b \in BookingIds /\ bookings[b].s = s /\ bookings[b].l = d.row.l
    BY <2>1, OwnRow DEF LInv, CopiesKnown, Known
  <2>3. bookings[b].status = "waitlisted"
    BY <1>2, <2>2, CancelRow
  <2> QED
    BY <2>1, <2>2, <2>3 DEF Waitlist, Promotees
<1>6. ASSUME NEW z \in up
      PROVE  \E b \in Ids(tx[t].won) : bookings[b].l = z
  <2>1. PICK d \in tx[t].won : d.row.l = z
    BY DEF Promotees
  <2>2. d.id \in Ids(tx[t].won) /\ bookings[d.id].l = z
    BY <2>1 DEF Ids, CopiesKnown, Known
  <2> QED
    BY <2>2
\* At most one row of the session is live for each learner.
<1>7. ASSUME NEW b \in BookingIds, NEW d \in BookingIds,
             bookings[b].s = s, bookings[d].s = s, bookings[b].status \in Live,
             bookings[d].status \in Live, bookings[b].l = bookings[d].l
      PROVE  b = d
  BY <1>7 DEF OneActivePerSession
<1> HIDE DEF price, x
<1>8. up \subseteq LearnersOf(Waitlist(bookings, s)) \ gone
  <2>1. ASSUME NEW z \in up PROVE z \in LearnersOf(Waitlist(bookings, s)) /\ z \notin gone
    <3>1. PICK b \in Ids(tx[t].won) : bookings[b].l = z
      BY <1>6
    <3>2. b \in Waitlist(bookings, s)
      BY <1>5
    <3>3. b # x
      BY <1>2, <3>2, CancelRow DEF Waitlist, x
    <3>4. z \notin gone
      BY <1>3, <1>4, <1>7, <3>1, <3>2, <3>3 DEF Waitlist, Live
    <3> QED
      BY <3>1, <3>2, <3>4 DEF LearnersOf
  <2> QED
    BY <2>1
<1>9. refund \in 0 .. price
  <2>1. refund \in {0, c.row.spent} /\ c.row.spent \in {0, bookings[x].spent}
    BY <1>1, <1>2 DEF PromotesOthers, CopiesHonest, x
  <2>2. bookings[x].spent \in {0, price}
    BY <1>3 DEF LInv, LedgerInv, price, Row, BookingStatus
  <2> QED
    BY <1>1, <2>1, <2>2
\* Row by row.
<1>10. ASSUME NEW b \in BookingIds
       PROVE  /\ b = x => bookings'[b].status = "cancelled"
              /\ b \in Ids(tx[t].won) =>
                   /\ bookings[b].status = "waitlisted" /\ bookings'[b].status = "confirmed"
                   /\ bookings'[b].s = bookings[b].s /\ bookings'[b].l = bookings[b].l
              /\ b # x /\ b \notin Ids(tx[t].won) => bookings'[b] = bookings[b]
  <2>1. CASE b = x
    <3>1. bookings'[b] = Cancelled(bookings[b]) /\ bookings[b] \in Row /\ b \notin Ids(tx[t].won)
      BY <1>2, <2>1, CancelRow DEF x
    <3> QED
      BY <2>1, <3>1 DEF Cancelled, Row
  <2>2. CASE b \in Ids(tx[t].won)
    <3>1. bookings'[b] = Promoted(bookings[b], sessions[tx[t].s].price) /\ bookings[b] \in Row
          /\ b # x /\ bookings[b].status = "waitlisted"
      BY <1>2, <2>2, CancelRow DEF x
    <3> QED
      BY <2>2, <3>1 DEF Promoted, Row
  <2>3. CASE b # x /\ b \notin Ids(tx[t].won)
    BY <1>2, <2>3, CancelRow DEF x
  <2> QED
    BY <2>1, <2>2, <2>3
<1>11. ASSUME NEW z \in Sessions
       PROVE  Holders(z)' = IF z = s THEN (Holders(z) \ gone) \cup up ELSE Holders(z)
  <2>1. \A y : y \in Holders(z)' <=>
                 \E b \in BookingIds : HoldsSeat(bookings'[b], z) /\ bookings'[b].l = y
    BY DEF Holders, LearnersOf, HoldsSeat
  <2>2. CASE z # s
    <3>1. \A b \in BookingIds : HoldsSeat(bookings[b], z) => bookings'[b] = bookings[b]
      BY <1>3, <1>5, <1>10, <2>2 DEF HoldsSeat, Waitlist
    <3>2. \A b \in BookingIds : HoldsSeat(bookings'[b], z) => bookings'[b] = bookings[b]
      BY <1>5, <1>10, <2>2 DEF HoldsSeat, Waitlist, SEAT_HOLDING
    <3>3. \A y : y \in Holders(z)' <=> y \in Holders(z)
      BY <2>1, <3>1, <3>2, HasBooking
    <3> QED
      BY <2>2, <3>3
  <2>3. CASE z = s
    <3>1. ASSUME NEW y, y \in Holders(z)' PROVE y \in (Holders(z) \ gone) \cup up
      <4>1. PICK b \in BookingIds : HoldsSeat(bookings'[b], z) /\ bookings'[b].l = y
        BY <2>1, <3>1
      <4>2. CASE b \in Ids(tx[t].won)
        BY <1>5, <1>10, <4>1, <4>2
      <4>3. CASE b \notin Ids(tx[t].won)
        <5>1. b # x /\ bookings'[b] = bookings[b]
          BY <1>10, <4>1, <4>3 DEF HoldsSeat, SEAT_HOLDING
        <5>2. y \notin gone
          BY <1>3, <1>4, <1>7, <2>3, <4>1, <5>1 DEF HoldsSeat, Live
        <5> QED
          BY <4>1, <5>1, <5>2, HasBooking
      <4> QED
        BY <4>2, <4>3
    <3>2. ASSUME NEW y \in Holders(z) \ gone PROVE y \in Holders(z)'
      <4>1. PICK b \in BookingIds : HoldsSeat(bookings[b], z) /\ bookings[b].l = y
        BY HasBooking
      <4>2. b # x
        BY <1>3, <1>4, <4>1 DEF HoldsSeat, Live
      <4>3. bookings'[b] = bookings[b]
        BY <1>10, <4>1, <4>2 DEF HoldsSeat, SEAT_HOLDING
      <4> QED
        BY <2>1, <4>1, <4>3
    <3>3. ASSUME NEW y \in up PROVE y \in Holders(z)'
      <4>1. PICK b \in Ids(tx[t].won) : bookings[b].l = y
        BY <1>6
      <4>2. b \in BookingIds /\ HoldsSeat(bookings'[b], z) /\ bookings'[b].l = y
        BY <1>5, <1>10, <2>3, <4>1 DEF Waitlist, HoldsSeat, SEAT_HOLDING
      <4> QED
        BY <2>1, <4>2
    <3> QED
      BY <2>3, <3>1, <3>2, <3>3
  <2> QED
    BY <2>2, <2>3
\* The queue loses the rows of those who leave it, and keeps the others' places.
<1>12. ASSUME NEW z \in Sessions, NEW b \in BookingIds
       PROVE  /\ b \in Waitlist(bookings, z)' <=>
                   /\ b \in Waitlist(bookings, z)
                   /\ z = s => bookings[b].l \notin gone \cup up
              /\ b \in Waitlist(bookings, z)' => bookings'[b] = bookings[b]
  <2>1. b \in Waitlist(bookings, z)' => b # x /\ b \notin Ids(tx[t].won)
    BY <1>10 DEF Waitlist
  <2>2. ASSUME b \in Waitlist(bookings, z), b # x, b \notin Ids(tx[t].won), z = s
        PROVE  bookings[b].l \notin gone \cup up
    <3>1. bookings[b].l \notin gone
      BY <1>3, <1>4, <1>7, <2>2 DEF Waitlist, Live
    <3>2. ASSUME NEW d \in Ids(tx[t].won), bookings[d].l = bookings[b].l PROVE FALSE
      BY <1>5, <1>7, <2>2, <3>2 DEF Waitlist, Live
    <3> QED
      BY <1>6, <3>1, <3>2
  <2>3. ASSUME b \in Waitlist(bookings, z), b = x \/ b \in Ids(tx[t].won)
        PROVE  z = s /\ bookings[b].l \in gone \cup up
    BY <1>3, <1>4, <1>5, <2>3 DEF Waitlist, Live
  <2>4. b # x /\ b \notin Ids(tx[t].won) => bookings'[b] = bookings[b]
    BY <1>10
  <2>5. b # x /\ b \notin Ids(tx[t].won) =>
          (b \in Waitlist(bookings, z)' <=> b \in Waitlist(bookings, z))
    BY <2>4 DEF Waitlist
  <2> QED
    BY <2>1, <2>2, <2>3, <2>4, <2>5
<1>13. \A z \in Sessions : \A b \in Waitlist(bookings, z)' : b \in BookingIds
  BY DEF Waitlist
<1>14. Line' = [Line EXCEPT ![s] = @ \ (gone \cup up)]
  <2>1. ASSUME NEW z \in Sessions
        PROVE  LearnersOf(Waitlist(bookings, z))' =
               IF z = s THEN LearnersOf(Waitlist(bookings, z)) \ (gone \cup up)
               ELSE LearnersOf(Waitlist(bookings, z))
    <3>1. \A b \in Waitlist(bookings, z) : b \in BookingIds
      BY DEF Waitlist
    <3>2. \A y : y \in LearnersOf(Waitlist(bookings, z))' <=>
                   \E b \in Waitlist(bookings, z)' : bookings'[b].l = y
      BY DEF LearnersOf
    <3>3. \A y : y \in LearnersOf(Waitlist(bookings, z)) <=>
                   \E b \in Waitlist(bookings, z) : bookings[b].l = y
      BY DEF LearnersOf
    <3>4. ASSUME NEW y
          PROVE  y \in LearnersOf(Waitlist(bookings, z))' <=>
                   /\ y \in LearnersOf(Waitlist(bookings, z))
                   /\ z = s => y \notin gone \cup up
      BY <1>12, <1>13, <3>1, <3>2, <3>3
    <3> QED
      BY <3>4
  <2> QED
    BY <1>1, <2>1 DEF Line
<1>15. Ahead' = [Ahead EXCEPT ![s] = {p \in @ : p[1] \notin gone \cup up /\ p[2] \notin gone \cup up}]
  <2> DEFINE Pairs(z) == {<<bookings[q[1]].l, bookings[q[2]].l>> : q \in Before(z)}
             out == gone \cup up
             Kept(z) == {p \in Pairs(z) : p[1] \notin out /\ p[2] \notin out}
  <2>1. ASSUME NEW z \in Sessions, NEW y
        PROVE  /\ y \in Pairs(z) <=>
                    \E b, d \in Waitlist(bookings, z) :
                       bookings[b].pos < bookings[d].pos /\ y = <<bookings[b].l, bookings[d].l>>
               /\ y \in Pairs(z)' <=>
                    \E b, d \in Waitlist(bookings, z)' :
                       bookings'[b].pos < bookings'[d].pos /\ y = <<bookings'[b].l, bookings'[d].l>>
    <3>1. \A b, d : <<b, d>> \in Before(z) <=>
             /\ b \in Waitlist(bookings, z) /\ d \in Waitlist(bookings, z)
             /\ bookings[b].pos < bookings[d].pos
      BY DEF Before
    <3>2. \A b, d : <<b, d>> \in Before(z)' <=>
             /\ b \in Waitlist(bookings, z)' /\ d \in Waitlist(bookings, z)'
             /\ bookings'[b].pos < bookings'[d].pos
      BY DEF Before
    <3>3. /\ \A q \in Before(z) : q = <<q[1], q[2]>>
          /\ \A q \in Before(z)' : q = <<q[1], q[2]>>
      BY DEF Before
    <3>4. y \in Pairs(z) <=> \E b, d : <<b, d>> \in Before(z) /\ y = <<bookings[b].l, bookings[d].l>>
      BY <3>3
    <3>5. y \in Pairs(z)' <=>
            \E b, d : <<b, d>> \in Before(z)' /\ y = <<bookings'[b].l, bookings'[d].l>>
      BY <3>3
    <3> QED
      BY <3>1, <3>2, <3>4, <3>5
  <2> HIDE DEF Pairs
  <2>2. ASSUME NEW z \in Sessions, NEW y
        PROVE  y \in Pairs(z)' <=> y \in Pairs(z) /\ (z = s => y[1] \notin out /\ y[2] \notin out)
    <3>1. \A b \in Waitlist(bookings, z) : b \in BookingIds
      BY DEF Waitlist
    <3>2. ASSUME y \in Pairs(z)'
          PROVE  y \in Pairs(z) /\ (z = s => y[1] \notin out /\ y[2] \notin out)
      <4>1. PICK b \in Waitlist(bookings, z)', d \in Waitlist(bookings, z)' :
              bookings'[b].pos < bookings'[d].pos /\ y = <<bookings'[b].l, bookings'[d].l>>
        BY <2>1, <3>2
      <4>2. /\ b \in Waitlist(bookings, z) /\ bookings'[b] = bookings[b]
            /\ d \in Waitlist(bookings, z) /\ bookings'[d] = bookings[d]
            /\ z = s => bookings[b].l \notin out /\ bookings[d].l \notin out
        BY <1>12, <1>13
      <4> HIDE DEF out
      <4> QED
        BY <2>1, <4>1, <4>2
    <3>3. ASSUME y \in Pairs(z), z = s => y[1] \notin out /\ y[2] \notin out
          PROVE  y \in Pairs(z)'
      <4>1. PICK b \in Waitlist(bookings, z), d \in Waitlist(bookings, z) :
              bookings[b].pos < bookings[d].pos /\ y = <<bookings[b].l, bookings[d].l>>
        BY <2>1, <3>3
      <4>2. z = s => bookings[b].l \notin out /\ bookings[d].l \notin out
        BY <3>3, <4>1
      <4>3. /\ b \in Waitlist(bookings, z)' /\ bookings'[b] = bookings[b]
            /\ d \in Waitlist(bookings, z)' /\ bookings'[d] = bookings[d]
        BY <1>12, <3>1, <4>2
      <4> QED
        BY <2>1, <4>1, <4>3
    <3> QED
      BY <3>2, <3>3
  <2>3. Ahead = [z \in Sessions |-> Pairs(z)] /\ Ahead' = [z \in Sessions |-> Pairs(z)']
    BY DEF Ahead, Pairs
  <2>4. ASSUME NEW z \in Sessions PROVE Pairs(z)' = IF z = s THEN Kept(z) ELSE Pairs(z)
    <3> HIDE DEF out
    <3> QED
      BY <2>2
  <2> HIDE DEF out, Kept
  <2>5. Ahead' = [Ahead EXCEPT ![s] = Kept(s)]
    BY <1>1, <2>3, <2>4
  <2>6. Kept(s) = {p \in Ahead[s] : p[1] \notin gone \cup up /\ p[2] \notin gone \cup up}
    BY <1>1, <2>3 DEF Kept, out
  <2> QED
    BY <2>5, <2>6
<1>16. balance' = [y \in Learners |-> balance[y] + (IF y = l THEN refund ELSE 0)
                                                 - (IF y \in up THEN price ELSE 0)]
  <2>1. balance' = [y \in Learners |-> balance[y] + tx[t].delta[y]]
    BY DEF CancelCommit, Commit, BalanceSeenBy
  <2>2. tx[t].delta = [y \in Learners |-> (IF y = l THEN refund ELSE 0)
                                          - (IF y \in up THEN price ELSE 0)]
    BY <1>1 DEF ExactlyCharged, At, price
  <2>3. balance \in [Learners -> Int] /\ refund \in Int /\ price \in Int
    BY <1>1 DEF TypeOK, Transaction
  <2> QED
    BY <2>1, <2>2, <2>3
<1>17. Seated' = [Seated EXCEPT ![s] = (@ \ gone) \cup up]
  BY <1>1, <1>11 DEF Seated
<1>18. Cardinality(Seated'[s]) <= Capacity[s]
  <2>1. \A z \in Sessions : Cardinality(Holders(z)') <= sessions'[z].max
    <3>1. \A z \in Sessions : SeatsTaken(bookings', z) <= sessions'[z].max
      BY DEF LInv, SeatInv, SeatsNeverOversell
    <3>2. OneActivePerSession(bookings')
      BY DEF LInv, LedgerInv
    <3>3. \A z \in Sessions : Holders(z)' = {bookings'[b].l : b \in Holding(bookings', z)}
      BY DEF Holders, LearnersOf, Holding, HoldsSeat
    <3> QED
      BY <3>1, <3>2, <3>3, HoldersCount
  <2>2. Seated' = [z \in Sessions |-> Holders(z)'] /\ sessions' = sessions
    BY DEF Seated, CancelCommit
  <2> QED
    BY <1>1, <2>1, <2>2 DEF Capacity
<1>19. \A y \in up : balance'[y] >= 0
  <2>1. up \subseteq Learners
    BY DEF Promotees, Transaction, Copy, Row
  <2>2. \A y \in Learners : balance'[y] >= 0
    BY DEF LInv, IInv, BalanceNeverNegative
  <2> QED
    BY <2>1, <2>2
<1>20. UNCHANGED <<Capacity, Price>>
  BY DEF CancelCommit, Capacity, Price
<1>21. gone \subseteq {l} /\ up \subseteq Line[s] \ gone /\ refund \in 0 .. Price[s]
  BY <1>1, <1>4, <1>8, <1>9 DEF Line, Price, price
<1>22. Abstract!Leave(l, s, gone, up, refund)
  BY <1>1, <1>14, <1>15, <1>16, <1>17, <1>18, <1>19, <1>20, <1>21, SameCount
     DEF Abstract!Leave, Seated, Line, Ahead, Capacity, Price, price
<1> QED
  BY <1>1, <1>21, <1>22

\* A step that writes no table, and one that only marks time, is no step of it.
LEMMA NoCommitNoStep ==
  ASSUME UNCHANGED tables
  PROVE  UNCHANGED Abstract!vars
<1>1. UNCHANGED <<sessions, bookings, balance>>
  BY DEF tables
<1>2. \A s \in Sessions : Holders(s)' = Holders(s)
  BY <1>1 DEF Holders, LearnersOf
<1>3. UNCHANGED <<Line, Ahead>>
  BY <1>1, QueueKept
<1>4. UNCHANGED <<Capacity, Price, Seated>>
  BY <1>1, <1>2 DEF Capacity, Price, Seated
<1> QED
  BY <1>1, <1>3, <1>4 DEF Abstract!vars, Capacity, Price, Seated, Line, Ahead

LEMMA InitImplements == Init => Abstract!Init
<1> SUFFICES ASSUME Init PROVE Abstract!Init
  OBVIOUS
<1>1. Capacity \in [Sessions -> Nat] /\ Price \in [Sessions -> Nat]
  BY NumberAssumption DEF Init, Capacity, Price
<1>2. \A b \in BookingIds : bookings[b].status = "none"
  BY DEF Init, NoBooking
<1>3. ASSUME NEW s \in Sessions
      PROVE  Holders(s) = {} /\ Waitlist(bookings, s) = {} /\ Before(s) = {}
  BY <1>2 DEF Holders, LearnersOf, SEAT_HOLDING, Waitlist, Before
<1>4. Seated = [s \in Sessions |-> {}] /\ Line = [s \in Sessions |-> {}]
      /\ Ahead = [s \in Sessions |-> {}]
  BY <1>3 DEF Seated, Line, Ahead, LearnersOf
<1>5. balance \in [Learners -> Nat]
  BY NumberAssumption DEF Init
<1> QED
  BY <1>1, <1>4, <1>5 DEF Abstract!Init, Capacity, Price, Seated, Line, Ahead

LEMMA IsAStep ==
  /\ \A l \in Learners, s \in Sessions : Abstract!TakeSeat(l, s) => Abstract!Next
  /\ \A l \in Learners, s \in Sessions : Abstract!JoinQueue(l, s) => Abstract!Next
  /\ \A l \in Learners, s \in Sessions :
       \A gone \in SUBSET {l}, up \in SUBSET Line[s], refund \in 0 .. Price[s] :
         Abstract!Leave(l, s, gone, up, refund) => Abstract!Next
<1>1. ASSUME NEW l \in Learners, NEW s \in Sessions, Abstract!TakeSeat(l, s) PROVE Abstract!Next
  BY <1>1, Zenon DEF Abstract!Next
<1>2. ASSUME NEW l \in Learners, NEW s \in Sessions, Abstract!JoinQueue(l, s) PROVE Abstract!Next
  BY <1>2, Zenon DEF Abstract!Next
<1>3. ASSUME NEW l \in Learners, NEW s \in Sessions, NEW gone \in SUBSET {l},
             NEW up \in SUBSET Line[s], NEW refund \in 0 .. Price[s],
             Abstract!Leave(l, s, gone, up, refund)
      PROVE  Abstract!Next
  BY <1>3, Zenon DEF Abstract!Next, Line, Price
<1> QED
  BY <1>1, <1>2, <1>3

LEMMA StepImplements == LInv /\ LInv' /\ [Next]_vars => [Abstract!Next]_(Abstract!vars)
<1> SUFFICES ASSUME LInv, LInv', [Next]_vars PROVE Abstract!Next \/ UNCHANGED Abstract!vars
  OBVIOUS
<1>1. CASE UNCHANGED vars \/ Tick
  <2>1. UNCHANGED tables
    BY <1>1 DEF vars, Tick, tables
  <2> QED
    BY <2>1, NoCommitNoStep
<1>2. ASSUME NEW t \in Txns, BookCommit(t) PROVE Abstract!Next
  <2>1. PICK l \in Learners, s \in Sessions : l = tx[t].l /\ s = tx[t].s
    BY <1>2 DEF BookCommit, At, LInv, IInv, TypeOK, Addressed
  <2> QED
    BY <1>2, <2>1, TakesSeat, IsAStep
<1>3. ASSUME NEW t \in Txns, BookWaitlist(t) PROVE Abstract!Next
  <2>1. PICK l \in Learners, s \in Sessions : l = tx[t].l /\ s = tx[t].s
    BY <1>3 DEF BookWaitlist, At, LInv, IInv, TypeOK, Addressed
  <2> QED
    BY <1>3, <2>1, JoinsQueue, IsAStep
<1>4. ASSUME NEW t \in Txns, CancelCommit(t) PROVE Abstract!Next
  <2>1. PICK l, s, gone, up, refund :
          /\ l = tx[t].l /\ s = tx[t].s /\ gone = Leaving(t) /\ up = Promotees(t)
          /\ refund = tx[t].arg
    OBVIOUS
  <2>2. /\ l \in Learners /\ s \in Sessions
        /\ gone \subseteq {l} /\ up \subseteq Line[s] /\ refund \in 0 .. Price[s]
        /\ Abstract!Leave(l, s, gone, up, refund)
    BY <1>4, <2>1, Leaves
  <2> QED
    BY <2>2, IsAStep
<1>5. ASSUME NEW t \in Txns, LearnerActs(t)
      PROVE  BookCommit(t) \/ BookWaitlist(t) \/ CancelCommit(t) \/ UNCHANGED tables
  BY <1>5 DEF LearnerActs, Book, BookLockSession, BookLockUser, BookTakeSeat, Cancel, CancelLoad,
              CancelLockSession, CancelLockUser, PromoteTake, PromoteSkip, PromoteDeadlock,
              Rollback
<1> QED
  BY <1>1, <1>2, <1>3, <1>4, <1>5, NoCommitNoStep DEF Next, LearnerActs

\* The invariant of the refinement: what every request in flight will charge
\* is the price, or the refund and the prices, that its commit is about.
THEOREM LedgerInvariant == Spec => []LedgerInv
<1>1. Init => LInv
  BY InitLedger
<1>2. LInv /\ [Next]_vars => LInv'
  BY StepLedger
<1>3. LInv => LedgerInv
  BY DEF LInv
<1> QED
  BY <1>1, <1>2, <1>3, PTL DEF Spec

\* Booking, cancelling and promoting, in any number of transactions with their
\* locks, stale copies and rollbacks, do to seats, queues and balances what the
\* requests would do if each took effect at once: every commit is one step of
\* SeatLedger, and no other step of a transaction is seen there.
THEOREM BookingImplementsLedger == Spec => Implements
<1>1. Init => LInv /\ Abstract!Init
  BY InitLedger, InitImplements
<1>2. LInv /\ [Next]_vars => LInv'
  BY StepLedger
<1>3. LInv /\ LInv' /\ [Next]_vars => [Abstract!Next]_(Abstract!vars)
  BY StepImplements
<1> QED
  BY <1>1, <1>2, <1>3, PTL DEF Spec, Implements, Abstract!Spec

(***************************************************************************)
(* The walk along a waitlist                                               *)
(***************************************************************************)
WInv == LInv /\ WalkInv

\* What there is to count and charge, to a request of a learner.
LEMMA SessionStays ==
  ASSUME NEW t \in Txns, LearnerActs(t)
  PROVE  sessions' = sessions
  BY DEF LearnerActs, Book, Cancel, Rollback, BookLockSession, BookLockUser, BookTakeSeat,
         BookCommit, BookWaitlist, CancelLoad, CancelLockSession, CancelLockUser, PromoteTake,
         PromoteSkip, PromoteDeadlock, CancelCommit, tables

\* A cancellation as it reads the waitlist, as it promotes a candidate and as it
\* passes one over, field by field.
LEMMA QueueIsRead ==
  ASSUME TypeOK, NEW t \in Txns, CancelLockUser(t)
  PROVE  LET s == tx[t].s
             r == tx'[t] IN
         /\ At(t, "cancel", "lock_user") /\ UNCHANGED <<now, tables, sessionLock>>
         /\ userLock' = [userLock EXCEPT ![tx[t].l] = t]
         /\ r.op = "cancel" /\ r.pc = "promote" /\ r.s = s /\ r.own = tx[t].own
         /\ r.won = tx[t].won
         /\ r.free = IF sessions[s].status = "published"
                     THEN sessions[s].max - SeatsTaken(SeenBy(t), s) ELSE 0
         /\ r.todo = {CopyOf(b) : b \in Waitlist(SeenBy(t), s)}
<1> DEFINE s == tx[t].s
           left == IF sessions[s].status = "published"
                   THEN sessions[s].max - SeatsTaken(SeenBy(t), s) ELSE 0
           queue == {CopyOf(b) : b \in Waitlist(SeenBy(t), s)}
<1>1. PICK c \in tx[t].own :
        Proceed(t, [tx[t] EXCEPT !.pc = "promote", !.arg = Refund(s, c.row),
                                 !.delta[tx[t].l] = @ + Refund(s, c.row),
                                 !.free = left, !.todo = queue])
  BY DEF CancelLockUser
<1> DEFINE refund == Refund(s, c.row)
<1> HIDE DEF left, queue, refund, s
<1>2. tx'[t] = [tx[t] EXCEPT !.pc = "promote", !.arg = refund, !.delta[tx[t].l] = @ + refund,
                             !.free = left, !.todo = queue]
  BY <1>1 DEF Proceed, TypeOK, refund
<1>3. /\ At(t, "cancel", "lock_user") /\ UNCHANGED <<now, tables, sessionLock>>
      /\ userLock' = [userLock EXCEPT ![tx[t].l] = t]
  BY DEF CancelLockUser
<1>4. tx[t] \in Transaction
  BY DEF TypeOK
<1>5. /\ tx'[t].op = "cancel" /\ tx'[t].pc = "promote" /\ tx'[t].s = tx[t].s
      /\ tx'[t].own = tx[t].own /\ tx'[t].won = tx[t].won /\ tx'[t].free = left
      /\ tx'[t].todo = queue
  BY <1>2, <1>3, <1>4 DEF Transaction, At
<1> QED
  BY <1>3, <1>5 DEF left, queue, s

LEMMA CandidateIsTaken ==
  ASSUME TypeOK, NEW t \in Txns, PromoteTake(t)
  PROVE  /\ At(t, "cancel", "promote") /\ UNCHANGED <<now, tables, sessionLock>>
         /\ \E c \in Candidates(t) :
              LET r == tx'[t] IN
              /\ c \in tx[t].todo /\ c.row.l \in Learners
              /\ userLock' = [userLock EXCEPT ![c.row.l] = t]
              /\ r.op = "cancel" /\ r.pc = "promote" /\ r.s = tx[t].s /\ r.own = tx[t].own
              /\ r.todo = tx[t].todo \ {c} /\ r.won = tx[t].won \cup {c}
              /\ r.free = tx[t].free - 1
              /\ r.delta = [tx[t].delta EXCEPT ![c.row.l] = @ - sessions[tx[t].s].price]
<1> DEFINE price == sessions[tx[t].s].price
<1>1. PICK c \in Candidates(t) :
        /\ userLock' = [userLock EXCEPT ![c.row.l] = t]
        /\ Proceed(t, [tx[t] EXCEPT !.todo = @ \ {c}, !.won = @ \cup {c}, !.free = @ - 1,
                                    !.delta[c.row.l] = @ - price])
  BY DEF PromoteTake
<1> HIDE DEF price
<1>2. tx'[t] = [tx[t] EXCEPT !.todo = @ \ {c}, !.won = @ \cup {c}, !.free = @ - 1,
                             !.delta[c.row.l] = @ - price]
  BY <1>1 DEF Proceed, TypeOK
<1>3. At(t, "cancel", "promote") /\ UNCHANGED <<now, tables, sessionLock>>
  BY DEF PromoteTake, Promoting
<1>4. tx[t] \in Transaction
  BY DEF TypeOK
<1>5. c \in tx[t].todo /\ c.row.l \in Learners
  BY <1>4 DEF Candidates, Transaction, Copy, Row
<1>6. /\ tx'[t].op = "cancel" /\ tx'[t].pc = "promote" /\ tx'[t].s = tx[t].s
      /\ tx'[t].own = tx[t].own /\ tx'[t].todo = tx[t].todo \ {c}
      /\ tx'[t].won = tx[t].won \cup {c} /\ tx'[t].free = tx[t].free - 1
      /\ tx'[t].delta = [tx[t].delta EXCEPT ![c.row.l] = @ - price]
  BY <1>2, <1>3, <1>4 DEF Transaction, At
<1> QED
  BY <1>1, <1>3, <1>5, <1>6 DEF price

LEMMA CandidateIsPassed ==
  ASSUME TypeOK, NEW t \in Txns, PromoteSkip(t) \/ PromoteDeadlock(t)
  PROVE  /\ At(t, "cancel", "promote") /\ UNCHANGED <<now, tables, sessionLock, userLock>>
         /\ \E c \in Candidates(t) :
              LET r == tx'[t] IN
              /\ c \in tx[t].todo /\ c.row.l \in Learners
              /\ ~CanPromote(t, c) \/ PromoteDeadlock(t)
              /\ r.op = "cancel" /\ r.pc = "promote" /\ r.s = tx[t].s /\ r.own = tx[t].own
              /\ r.todo = tx[t].todo \ {c} /\ r.won = tx[t].won /\ r.free = tx[t].free
              /\ r.delta = tx[t].delta
<1>1. PICK c \in Candidates(t) :
        /\ ~CanPromote(t, c) \/ PromoteDeadlock(t)
        /\ Proceed(t, [tx[t] EXCEPT !.todo = @ \ {c}])
  BY DEF PromoteSkip, PromoteDeadlock
<1>2. tx'[t] = [tx[t] EXCEPT !.todo = @ \ {c}]
  BY <1>1 DEF Proceed, TypeOK
<1>3. At(t, "cancel", "promote") /\ UNCHANGED <<now, tables, sessionLock, userLock>>
  BY DEF PromoteSkip, PromoteDeadlock, Promoting
<1>4. tx[t] \in Transaction
  BY DEF TypeOK
<1>5. c \in tx[t].todo /\ c.row.l \in Learners
  BY <1>4 DEF Candidates, Transaction, Copy, Row
<1>6. /\ tx'[t].op = "cancel" /\ tx'[t].pc = "promote" /\ tx'[t].s = tx[t].s
      /\ tx'[t].own = tx[t].own /\ tx'[t].todo = tx[t].todo \ {c}
      /\ tx'[t].won = tx[t].won /\ tx'[t].free = tx[t].free
      /\ tx'[t].delta = tx[t].delta
  BY <1>2, <1>3, <1>4 DEF Transaction, At
<1> QED
  BY <1>1, <1>3, <1>5, <1>6

\* A request of a learner is addressed when it begins, or as it was before.
LEMMA SameAddress ==
  ASSUME TypeOK, NEW t \in Txns, LearnerActs(t)
  PROVE  \/ tx'[t] = Idle
         \/ tx'[t].op = tx[t].op /\ tx'[t].s = tx[t].s /\ tx[t].op # "none"
         \/ \E l \in Learners, s \in Sessions : BookLockSession(t, l, s) /\ tx'[t].s = s
         \/ \E b \in BookingIds : CancelLoad(t, b) /\ tx'[t].s = bookings[b].s
<1> tx[t] \in Transaction
  BY DEF TypeOK
<1>1. ASSUME NEW l \in Learners, NEW s \in Sessions, BookLockSession(t, l, s)
      PROVE  tx'[t].s = s
  BY <1>1 DEF BookLockSession, Proceed, TypeOK, Idle
<1>2. ASSUME NEW b \in BookingIds, CancelLoad(t, b)
      PROVE  tx'[t].s = bookings[b].s
  BY <1>2 DEF CancelLoad, Proceed, TypeOK, Idle
<1>3. CASE BookLockUser(t) \/ BookTakeSeat(t)
  <2>1. tx[t].op = "book"
    BY <1>3 DEF BookLockUser, BookTakeSeat, At
  <2>2. \/ tx'[t] = [tx[t] EXCEPT !.pc = "count"]
        \/ tx'[t] = [tx[t] EXCEPT !.pc = "commit",
                                  !.delta[tx[t].l] = @ - sessions[tx[t].s].price]
    BY <1>3 DEF BookLockUser, BookTakeSeat, Proceed, TypeOK
  <2> QED
    BY <2>1, <2>2 DEF Transaction
<1>4. CASE CancelLockSession(t) \/ PromoteSkip(t) \/ PromoteDeadlock(t)
  <2>1. tx[t].op = "cancel"
    BY <1>4 DEF CancelLockSession, PromoteSkip, PromoteDeadlock, Promoting, At
  <2>2. \/ tx'[t] = [tx[t] EXCEPT !.pc = "lock_user"]
        \/ \E c \in Candidates(t) : tx'[t] = [tx[t] EXCEPT !.todo = @ \ {c}]
    BY <1>4 DEF CancelLockSession, PromoteSkip, PromoteDeadlock, Proceed, TypeOK
  <2> QED
    BY <2>1, <2>2 DEF Transaction
<1>5. CASE CancelLockUser(t) \/ PromoteTake(t)
  <2>1. tx[t].op = "cancel"
    BY <1>5 DEF CancelLockUser, PromoteTake, Promoting, At
  <2>2. tx'[t].op = tx[t].op /\ tx'[t].s = tx[t].s
    BY <1>5, <2>1, QueueIsRead, CandidateIsTaken
  <2> QED
    BY <2>1, <2>2
<1>6. CASE BookCommit(t) \/ BookWaitlist(t) \/ CancelCommit(t) \/ Rollback(t)
  BY <1>6, EndStep DEF BookCommit, BookWaitlist, CancelCommit, Rollback, Commit
<1> QED
  BY <1>1, <1>2, <1>3, <1>4, <1>5, <1>6 DEF LearnerActs, Book, Cancel

\* Bookings and requests are of published sessions.
LEMMA PublishedStep ==
  ASSUME LInv, OnPublished, NEW t \in Txns, LearnerActs(t)
  PROVE  OnPublished'
<1> TypeOK /\ CopiesKnown
  BY DEF LInv, IInv
<1> sessions' = sessions
  BY SessionStays
<1>1. ASSUME NEW b \in BookingIds, bookings'[b].status # "none"
      PROVE  sessions[bookings'[b].s].status = "published"
  <2>1. CASE Created(b)
    <3>1. BookCommit(t) \/ BookWaitlist(t)
      <4>1. CASE UNCHANGED tables
        BY <4>1, <2>1 DEF tables, Created
      <4>2. CASE CancelCommit(t)
        <5>1. RowChange(t, b)
          BY <4>2, CancelRows DEF LInv, ClaimInv, Cancel
        <5> QED
          BY <2>1, <5>1 DEF RowChange, Untouched, Created, Row, BookingStatus
      <4> QED
        BY <4>1, <4>2 DEF LearnerActs, Book, Cancel, Rollback, BookLockSession, BookLockUser,
                          BookTakeSeat, CancelLoad, CancelLockSession, CancelLockUser,
                          PromoteTake, PromoteSkip, PromoteDeadlock
    <3>2. tx[t].op = "book"
      BY <3>1 DEF BookCommit, BookWaitlist, At
    <3>3. bookings'[b].s = tx[t].s
      BY <2>1, <3>1 DEF BookCommit, BookWaitlist, NewBooking, Created, TypeOK
    <3> QED
      BY <3>2, <3>3 DEF OnPublished
  <2>2. CASE ~Created(b)
    <3>1. CASE Untouched(b)
      BY <1>1, <3>1 DEF Untouched, OnPublished
    <3>2. CASE bookings[b] \in Row /\ (Released(b) \/ Removed(b) \/ Moved(t, b))
      BY <3>2 DEF Released, Removed, Moved, Cancelled, Row, BookingStatus, OnPublished
    <3>3. CASE bookings[b] \in Row /\ Raised(t, b)
      BY <3>3 DEF Raised, Promoted, Row, BookingStatus, OnPublished
    <3> QED
      BY <2>2, <3>1, <3>2, <3>3, LearnersRow
  <2> QED
    BY <2>1, <2>2
<1>2. ASSUME NEW u \in Txns, tx'[u].op # "none"
      PROVE  sessions[tx'[u].s].status = "published"
  <2>1. CASE u = t
    <3>1. ASSUME NEW b \in BookingIds, CancelLoad(t, b)
          PROVE  sessions[bookings[b].s].status = "published"
      BY <3>1 DEF CancelLoad, OnPublished, Live, SEAT_HOLDING
    <3>2. tx'[t] # Idle
      BY <1>2, <2>1 DEF Idle
    <3>3. tx[t].op # "none" => sessions[tx[t].s].status = "published"
      BY DEF OnPublished
    <3>4. ASSUME NEW l \in Learners, NEW s \in Sessions, BookLockSession(t, l, s)
          PROVE  sessions[s].status = "published"
      BY <3>4 DEF BookLockSession
    <3> QED
      BY <2>1, <3>1, <3>2, <3>3, <3>4, SameAddress
  <2>2. CASE u # t
    BY <1>2, <2>2, TxnStep DEF OthersStay, TxnActs, LearnerActs, OnPublished
  <2> QED
    BY <2>1, <2>2
<1> QED
  BY <1>1, <1>2 DEF OnPublished

\* A learner's lock is taken under the session's and released with it.
LEMMA LockStep ==
  ASSUME LInv, LockedInOrder, NEW t \in Txns, LearnerActs(t)
  PROVE  LockedInOrder'
<1> TypeOK /\ tx[t] \in Transaction
  BY DEF LInv, IInv, TypeOK
<1> DEFINE Kept(r) == r.op \in {"book", "cancel"} /\ r.pc \in {"count", "commit", "promote"}
<1>1. \A u \in Txns \ {t} : tx'[u] = tx[u]
  BY TxnStep DEF OthersStay, TxnActs, LearnerActs
<1> SUFFICES ASSUME NEW l \in Learners, NEW u \in Txns, userLock'[l] = u
             PROVE  Kept(tx'[u])
  BY DEF LockedInOrder
<1>2. CASE ReleaseLocks(t)
  <2>1. userLock[l] = u /\ u # t
    BY <1>2, NoneAssumption DEF ReleaseLocks
  <2> QED
    BY <1>1, <2>1 DEF LockedInOrder
<1>3. CASE UNCHANGED userLock /\ tx[t].pc \in {"idle", "lock_session", "lock_user"}
  <2>1. userLock[l] = u /\ u # t
    BY <1>3 DEF LockedInOrder
  <2> QED
    BY <1>1, <2>1 DEF LockedInOrder
<1>4. CASE /\ \E x \in Learners : userLock' = [userLock EXCEPT ![x] = t]
           /\ Kept(tx'[t])
  <2>1. u # t => userLock[l] = u
    BY <1>4 DEF TypeOK
  <2> QED
    BY <1>1, <1>4, <2>1 DEF LockedInOrder
<1>5. CASE UNCHANGED userLock /\ Kept(tx'[t])
  BY <1>1, <1>5 DEF LockedInOrder
<1>6. CASE BookLockUser(t) \/ BookTakeSeat(t)
  <2>1. tx[t].op = "book"
    BY <1>6 DEF BookLockUser, BookTakeSeat, At
  <2>2. \/ tx'[t] = [tx[t] EXCEPT !.pc = "count"]
        \/ tx'[t] = [tx[t] EXCEPT !.pc = "commit",
                                  !.delta[tx[t].l] = @ - sessions[tx[t].s].price]
    BY <1>6 DEF BookLockUser, BookTakeSeat, Proceed, TypeOK
  <2>3. Kept(tx'[t])
    BY <2>1, <2>2 DEF Transaction
  <2>4. \/ UNCHANGED userLock
        \/ \E x \in Learners : userLock' = [userLock EXCEPT ![x] = t]
    BY <1>6 DEF BookLockUser, BookTakeSeat, At, TypeOK, Addressed
  <2> HIDE DEF Kept
  <2> QED
    BY <1>4, <1>5, <2>3, <2>4
<1>7. CASE CancelLockUser(t) \/ PromoteTake(t) \/ PromoteSkip(t) \/ PromoteDeadlock(t)
  <2>1. tx'[t].op = "cancel" /\ tx'[t].pc = "promote"
    BY <1>7, QueueIsRead, CandidateIsTaken, CandidateIsPassed
  <2>2. \/ UNCHANGED userLock
        \/ \E x \in Learners : userLock' = [userLock EXCEPT ![x] = t]
    <3>1. At(t, "cancel", "lock_user") => tx[t].l \in Learners
      BY DEF At, TypeOK, Addressed
    <3> QED
      BY <1>7, <3>1, QueueIsRead, CandidateIsTaken, CandidateIsPassed
  <2> QED
    BY <1>4, <1>5, <2>1, <2>2
<1> HIDE DEF Kept
<1> QED
  BY <1>2, <1>3, <1>6, <1>7
     DEF LearnerActs, Book, Cancel, Rollback, BookLockSession, BookCommit, BookWaitlist,
         CancelLoad, CancelLockSession, CancelCommit, Commit, At

\* With one session to go to, whoever walks its waitlist is alone: the other
\* requests wait for the session's lock and hold nobody's.
LEMMA WalksAlone ==
  ASSUME WInv, NEW t \in Txns, At(t, "cancel", "promote"), Sole(tx[t].s), NEW u \in Txns \ {t}
  PROVE  /\ tx[u].op # "book" /\ (tx[u].op = "cancel" => tx[u].pc = "lock_session")
         /\ \A l \in Learners : userLock[l] # u
<1> TypeOK /\ OnPublished /\ LockedInOrder /\ SeatsGuarded(t) /\ SeatsGuarded(u)
  BY DEF WInv, LInv, IInv, WalkInv, SeatInv
<1>1. sessionLock[tx[t].s] = t
  BY DEF SeatsGuarded, At
<1>2. tx[u].op = "book" \/ (tx[u].op = "cancel" /\ tx[u].pc # "lock_session") => FALSE
  <2> SUFFICES ASSUME tx[u].op = "book" \/ (tx[u].op = "cancel" /\ tx[u].pc # "lock_session")
               PROVE  FALSE
    OBVIOUS
  <2>1. sessionLock[tx[u].s] = u
    BY DEF SeatsGuarded
  <2>2. tx[u].s \in Sessions /\ sessions[tx[u].s].status = "published"
    BY DEF TypeOK, Addressed, OnPublished
  <2>3. tx[u].s = tx[t].s
    BY <2>2 DEF Sole
  <2> QED
    BY <1>1, <2>1, <2>3
<1> QED
  BY <1>2 DEF LockedInOrder

\* Nothing is committed but what the walk itself commits.
LEMMA OthersWalk ==
  ASSUME WInv, NEW u \in Txns, LearnerActs(u), NEW t \in Txns \ {u}
  PROVE  WalksTheQueue(t)'
<1> TypeOK
  BY DEF WInv, LInv, IInv
<1>1. tx'[t] = tx[t] /\ sessions' = sessions
  BY TxnStep, SessionStays DEF OthersStay, TxnActs, LearnerActs
<1> SUFFICES ASSUME At(t, "cancel", "promote"), Sole(tx[t].s) PROVE WalksTheQueue(t)'
  BY <1>1 DEF WalksTheQueue, At, Sole
<1>2. tx[u].op # "book" /\ (tx[u].op = "cancel" => tx[u].pc = "lock_session")
  BY WalksAlone
<1>3. UNCHANGED <<bookings, balance>>
  BY <1>2 DEF LearnerActs, Book, Cancel, Rollback, BookLockSession, BookLockUser, BookTakeSeat,
              BookCommit, BookWaitlist, CancelLoad, CancelLockSession, CancelLockUser,
              PromoteTake, PromoteSkip, PromoteDeadlock, CancelCommit, Promoting, At, tables
<1>4. SeenBy(t)' = SeenBy(t)
  BY <1>1, <1>3 DEF SeenBy
<1>5. \A l : BalanceSeenBy(t, l)' = BalanceSeenBy(t, l)
  BY <1>1, <1>3 DEF BalanceSeenBy
<1>6. WalksTheQueue(t)
  BY DEF WInv, WalkInv
<1> QED
  BY <1>1, <1>3, <1>4, <1>5, <1>6 DEF WalksTheQueue, Waitlist, At, Sole

\* A candidate is waiting, and is not among those the walk has dealt with.
LEMMA CandidateWaits ==
  ASSUME LInv, NEW t \in Txns, At(t, "cancel", "promote"), NEW c \in tx[t].todo
  PROVE  /\ c.id \in BookingIds /\ bookings[c.id] \in Row
         /\ bookings[c.id].status = "waitlisted" /\ bookings[c.id].s = tx[t].s
         /\ bookings[c.id].l = c.row.l
         /\ c.id \notin Ids(tx[t].own) /\ c.id \notin Ids(tx[t].won)
         /\ SeenBy(t)[c.id] = bookings[c.id]
<1> IInv /\ CopiesHonest(t) /\ PromotesOthers(t) /\ StillWaiting(t) /\ ExactlyCharged(t)
    /\ CopiesKnown
  BY DEF LInv, IInv, ClaimInv, PaidInv, LedgerInv
<1>1. c.id \in BookingIds /\ bookings[c.id] \in Row /\ bookings[c.id].s = tx[t].s
  BY OwnRow
<1>2. bookings[c.id].status = "waitlisted" /\ c.id \notin Ids(tx[t].own)
  BY DEF StillWaiting, PromotesOthers
<1>3. \A d \in tx[t].todo \cup tx[t].won : bookings[d.id].l = d.row.l
  BY DEF CopiesKnown, Known
<1>4. c.id \notin Ids(tx[t].won)
  <2> SUFFICES ASSUME NEW d \in tx[t].won, d.id = c.id PROVE FALSE
    BY DEF Ids
  <2>1. d.row.l = c.row.l
    BY <1>3
  <2> QED
    BY <2>1 DEF ExactlyCharged
<1> QED
  BY <1>1, <1>2, <1>3, <1>4 DEF SeenBy

\* Only the balance can stand in a candidate's way: there is no other session
\* to be booked at the same hour.
LEMMA BalanceDecides ==
  ASSUME WInv, NEW t \in Txns, At(t, "cancel", "promote"), Sole(tx[t].s), NEW c \in tx[t].todo,
         BalanceSeenBy(t, c.row.l) >= sessions[tx[t].s].price
  PROVE  CanPromote(t, c)
<1> TypeOK /\ CopiesKnown /\ OnPublished /\ OneActivePerSession(bookings)
  BY DEF WInv, LInv, IInv, LedgerInv, WalkInv
<1> DEFINE price == sessions[tx[t].s].price
           rows == [SeenBy(t) EXCEPT ![c.id] = Promoted(@, price)]
<1>1. ASSUME NEW b \in BookingIds, rows[b].status \in Live
      PROVE  /\ bookings[b] \in Row /\ bookings[b].status \in Live
             /\ rows[b].s = bookings[b].s /\ rows[b].l = bookings[b].l
  <2>1. CASE b = c.id
    <3>1. /\ bookings[b] \in Row /\ bookings[b].status = "waitlisted"
          /\ SeenBy(t)[b] = bookings[b]
      BY <2>1, CandidateWaits DEF WInv
    <3>2. rows[b] = Promoted(bookings[b], price)
      BY <2>1, <3>1 DEF SeenBy
    <3> HIDE DEF rows, price
    <3> QED
      BY <3>1, <3>2 DEF Promoted, Row, Live
  <2>2. CASE b # c.id
    <3>1. rows[b] = SeenBy(t)[b]
      BY <2>2 DEF SeenBy
    <3> HIDE DEF rows
    <3>2. CASE bookings[b] \in Row /\ SeenBy(t)[b] = Cancelled(bookings[b])
      BY <1>1, <3>1, <3>2 DEF Cancelled, Row, Live, SEAT_HOLDING
    <3>3. CASE b \in Ids(tx[t].won) /\ bookings[b] \in Row /\ SeenBy(t)[b] = Promoted(bookings[b], price)
      <4>1. bookings[b].status = "waitlisted"
        BY <3>3 DEF WInv, LInv, PaidInv, StillWaiting, Ids
      <4> HIDE DEF price
      <4> QED
        BY <3>1, <3>3, <4>1 DEF Promoted, Row, Live
    <3>4. CASE SeenBy(t)[b] = bookings[b]
      <4>1. bookings[b].status # "none"
        BY <1>1, <3>1, <3>4 DEF Live, SEAT_HOLDING
      <4> QED
        BY <1>1, <3>1, <3>4, <4>1, RowTyped
    <3> QED
      BY <3>2, <3>3, <3>4, SeenCases
  <2> QED
    BY <2>1, <2>2
<1>2. ASSUME NEW b \in BookingIds, bookings[b] \in Row PROVE bookings[b].s = tx[t].s
  <2>1. bookings[b].s \in Sessions /\ bookings[b].status # "none"
    BY <1>2 DEF Row, BookingStatus
  <2> QED
    BY <2>1 DEF OnPublished, Sole
<1> HIDE DEF rows
<1>3. OneActivePerSession(rows)
  BY <1>1 DEF OneActivePerSession
<1>4. NoOverlap(rows)
  <2> SUFFICES ASSUME NEW b \in BookingIds, NEW d \in BookingIds, b # d,
                      rows[b].status \in SEAT_HOLDING, rows[d].status \in SEAT_HOLDING,
                      rows[b].l = rows[d].l
               PROVE  FALSE
    BY DEF NoOverlap
  <2>1. rows[b].status \in Live /\ rows[d].status \in Live
    BY DEF Live
  <2>2. rows[b].s = rows[d].s
    BY <1>1, <1>2, <2>1
  <2> QED
    BY <1>3, <2>1, <2>2 DEF OneActivePerSession
<1> QED
  BY <1>3, <1>4 DEF CanPromote, Accepted, rows

\* Nor does the walk wait in a cycle: nobody else has a learner's lock.
LEMMA NoCycle ==
  ASSUME WInv, NEW t \in Txns, Sole(tx[t].s), PromoteDeadlock(t)
  PROVE  FALSE
<1> TypeOK /\ tx[t] \in Transaction
  BY DEF WInv, LInv, IInv, TypeOK
<1>1. Promoting(t) /\ At(t, "cancel", "promote") /\ Candidates(t) # {}
  BY DEF PromoteDeadlock, Promoting
<1> DEFINE first == CHOOSE c \in Candidates(t) : TRUE
<1>2. first \in Candidates(t)
  BY <1>1
<1>3. first.row.l \in Learners
  BY <1>2 DEF Candidates, Transaction, Copy, Row
<1>4. userLock[first.row.l] \in {t, None}
  BY <1>1, <1>3, WalksAlone DEF TypeOK
<1>5. Blocker(t) = None
  BY <1>1, <1>4 DEF Blocker, At
<1>6. PICK C \in SUBSET Txns : t \in C /\ {Blocker(u) : u \in C} = C
  BY DEF PromoteDeadlock, Cycle
<1> QED
  BY <1>5, <1>6, NoneAssumption

\* Whoever is promoted takes one of the free seats.
LEMMA SeatIsFilled ==
  ASSUME LInv, NEW t \in Txns, At(t, "cancel", "promote"), NEW c \in tx[t].todo,
         tx'[t].s = tx[t].s, tx'[t].own = tx[t].own, tx'[t].won = tx[t].won \cup {c},
         UNCHANGED <<bookings, sessions>>
  PROVE  /\ \A b \in BookingIds : b # c.id => SeenBy(t)'[b] = SeenBy(t)[b]
         /\ SeenBy(t)'[c.id].status = "confirmed"
         /\ SeatsTaken(SeenBy(t)', tx[t].s) >= SeatsTaken(SeenBy(t), tx[t].s) + 1
<1> DEFINE s == tx[t].s
           price == sessions[s].price
<1>1. /\ c.id \in BookingIds /\ bookings[c.id] \in Row /\ bookings[c.id].s = s
      /\ bookings[c.id].status = "waitlisted" /\ c.id \notin Ids(tx[t].own)
      /\ SeenBy(t)[c.id] = bookings[c.id]
  BY CandidateWaits
<1>2. \A b \in BookingIds : b # c.id => SeenBy(t)'[b] = SeenBy(t)[b]
  BY DEF SeenBy, Ids
<1>3. SeenBy(t)'[c.id] = Promoted(bookings[c.id], price)
  <2>1. c.id \in Ids(tx'[t].won) /\ c.id \notin Ids(tx'[t].own)
    BY <1>1 DEF Ids
  <2> QED
    BY <1>1, <2>1 DEF SeenBy
<1> HIDE DEF s, price
<1>4. SeenBy(t)'[c.id].status = "confirmed" /\ SeenBy(t)'[c.id].s = s
  BY <1>1, <1>3 DEF Promoted, Row
<1> DEFINE old == Holding(SeenBy(t), s)
           new == Holding(SeenBy(t)', s)
<1>5. c.id \notin old
  BY <1>1 DEF Holding, HoldsSeat, SEAT_HOLDING
<1>6. old \cup {c.id} \subseteq new
  BY <1>1, <1>2, <1>4 DEF Holding, HoldsSeat, SEAT_HOLDING
<1>7. IsFiniteSet(old) /\ IsFiniteSet(new)
  BY HoldingIsFinite
<1> HIDE DEF old, new
<1>8. Cardinality(old \cup {c.id}) = Cardinality(old) + 1 /\ IsFiniteSet(old \cup {c.id})
  BY <1>5, <1>7, FS_AddElement
<1>9. Cardinality(old \cup {c.id}) <= Cardinality(new)
  BY <1>6, <1>7, FS_Subset
<1>10. /\ SeatsTaken(SeenBy(t), s) = Cardinality(old)
       /\ SeatsTaken(SeenBy(t)', s) = Cardinality(new)
  BY HoldingIsFinite DEF old, new
<1>11. Cardinality(old) \in Nat /\ Cardinality(new) \in Nat
  BY <1>7, FS_CardinalityType
<1> QED
  BY <1>2, <1>4, <1>8, <1>9, <1>10, <1>11 DEF s

\* A walk begins with the whole queue, goes on with the first of it, and passes
\* over nobody who could pay.
LEMMA OwnWalk ==
  ASSUME WInv, NEW t \in Txns, LearnerActs(t)
  PROVE  WalksTheQueue(t)'
<1> IInv /\ TypeOK /\ tx[t] \in Transaction /\ LInv
  BY DEF WInv, LInv, IInv, TypeOK
<1>1. sessions' = sessions
  BY SessionStays
<1> SUFFICES ASSUME At(t, "cancel", "promote")', Sole(tx'[t].s)
             PROVE  /\ \A c \in tx'[t].todo \cup tx'[t].won : c.row = bookings'[c.id]
                    /\ \A c \in tx'[t].won, d \in tx'[t].todo : c.row.pos <= d.row.pos
                    /\ SeatsTaken(SeenBy(t)', tx'[t].s) + tx'[t].free >= sessions[tx'[t].s].max
                    /\ \A b \in Waitlist(SeenBy(t)', tx'[t].s) :
                         \/ b \in Ids(tx'[t].todo)
                         \/ BalanceSeenBy(t, bookings[b].l)' < sessions[tx'[t].s].price
  BY <1>1 DEF WalksTheQueue, Sole, At, Waitlist, SeatsTaken, Ids, BalanceSeenBy
<1> DEFINE s == tx[t].s
           price == sessions[s].price
<1>2. CASE CancelLockUser(t)
  <2>1. /\ At(t, "cancel", "lock_user") /\ bookings' = bookings
        /\ tx'[t].s = s /\ tx'[t].own = tx[t].own /\ tx'[t].won = tx[t].won
        /\ tx'[t].todo = {CopyOf(b) : b \in Waitlist(SeenBy(t), s)}
        /\ tx'[t].free = IF sessions[s].status = "published"
                         THEN sessions[s].max - SeatsTaken(SeenBy(t), s) ELSE 0
    BY <1>2, QueueIsRead DEF tables
  <2>2. tx[t].won = {} /\ sessions[s].status = "published" /\ sessions[s].max \in Nat
    BY <2>1 DEF At, LInv, ClaimInv, PromotesOthers, WInv, WalkInv, OnPublished, TypeOK, Addressed,
                SessionRow
  <2>3. SeenBy(t)' = SeenBy(t)
    BY <1>1, <2>1 DEF SeenBy
  <2>4. \A c \in tx'[t].todo : c.row = bookings[c.id]
    BY <2>1 DEF CopyOf
  <2>5. ASSUME NEW b \in Waitlist(SeenBy(t), s) PROVE b \in Ids(tx'[t].todo)
    <3>1. CopyOf(b) \in tx'[t].todo /\ CopyOf(b).id = b
      BY <2>1 DEF CopyOf
    <3> QED
      BY <3>1 DEF Ids
  <2> HIDE DEF s
  <2>6. SeatsTaken(SeenBy(t), s) + tx'[t].free >= sessions[s].max
    BY <2>1, <2>2, HoldingIsFinite
  <2> QED
    BY <2>1, <2>2, <2>3, <2>4, <2>5, <2>6
<1>3. CASE PromoteTake(t)
  <2>1. PICK c \in Candidates(t) :
          /\ At(t, "cancel", "promote") /\ bookings' = bookings /\ balance' = balance
          /\ c \in tx[t].todo /\ c.row.l \in Learners
          /\ tx'[t].s = s /\ tx'[t].own = tx[t].own
          /\ tx'[t].todo = tx[t].todo \ {c} /\ tx'[t].won = tx[t].won \cup {c}
          /\ tx'[t].free = tx[t].free - 1
          /\ tx'[t].delta = [tx[t].delta EXCEPT ![c.row.l] = @ - price]
    BY <1>3, CandidateIsTaken DEF tables
  <2>2. WalksTheQueue(t) /\ Sole(s)
    BY <2>1 DEF WInv, WalkInv
  <2>3. s \in Sessions /\ price \in Nat /\ sessions[s].max \in Nat /\ tx[t].free \in Int
    BY <2>1 DEF TypeOK, Addressed, SessionRow, At, Transaction
  <2>4. \A d \in tx'[t].todo : c.row.pos <= d.row.pos
    BY <2>1 DEF Candidates
  <2>5. /\ \A b \in BookingIds : b # c.id => SeenBy(t)'[b] = SeenBy(t)[b]
        /\ SeenBy(t)'[c.id].status = "confirmed"
        /\ SeatsTaken(SeenBy(t)', s) >= SeatsTaken(SeenBy(t), s) + 1
    BY <1>1, <2>1, SeatIsFilled
  <2>6. ASSUME NEW b \in Waitlist(SeenBy(t)', s), b \notin Ids(tx'[t].todo)
        PROVE  BalanceSeenBy(t, bookings[b].l)' < price
    <3>1. b # c.id /\ b \in Waitlist(SeenBy(t), s)
      BY <2>5 DEF Waitlist
    <3>2. b \notin Ids(tx[t].todo)
      BY <2>1, <2>6, <3>1 DEF Ids
    <3>3. BalanceSeenBy(t, bookings[b].l) < price
      BY <2>1, <2>2, <3>1, <3>2 DEF WalksTheQueue
    <3>4. bookings[b].l \in Learners
      <4>1. b \in Waitlist(bookings, s)
        BY <3>1, WaitlistSeen DEF IInv
      <4>2. bookings[b] \in Row
        BY <4>1, RowTyped DEF Waitlist
      <4> QED
        BY <4>2 DEF Row
    <3>5. tx[t].delta \in [Learners -> Int] /\ balance \in [Learners -> Int]
      BY DEF TypeOK, Transaction
    <3> HIDE DEF price
    <3>6. tx'[t].delta[bookings[b].l] <= tx[t].delta[bookings[b].l]
      BY <2>1, <2>3, <3>4, <3>5
    <3> QED
      BY <2>1, <2>3, <3>3, <3>4, <3>5, <3>6 DEF BalanceSeenBy
  <2>7. SeatsTaken(SeenBy(t)', s) + tx'[t].free >= sessions[s].max
    <3>1. SeatsTaken(SeenBy(t), s) + tx[t].free >= sessions[s].max
      BY <2>1, <2>2 DEF WalksTheQueue
    <3> HIDE DEF s
    <3> QED
      BY <2>1, <2>3, <2>5, <3>1, HoldingIsFinite
  <2>8. /\ \A d \in tx'[t].todo \cup tx'[t].won : d.row = bookings[d.id]
        /\ \A x \in tx'[t].won, d \in tx'[t].todo : x.row.pos <= d.row.pos
    BY <2>1, <2>2, <2>4 DEF WalksTheQueue
  <2> QED
    BY <2>1, <2>6, <2>7, <2>8
<1>4. CASE PromoteSkip(t) \/ PromoteDeadlock(t)
  <2>1. PICK c \in Candidates(t) :
          /\ At(t, "cancel", "promote") /\ bookings' = bookings /\ balance' = balance
          /\ c \in tx[t].todo /\ (~CanPromote(t, c) \/ PromoteDeadlock(t))
          /\ tx'[t].s = s /\ tx'[t].own = tx[t].own
          /\ tx'[t].todo = tx[t].todo \ {c} /\ tx'[t].won = tx[t].won
          /\ tx'[t].free = tx[t].free /\ tx'[t].delta = tx[t].delta
    BY <1>4, CandidateIsPassed DEF tables
  <2>2. WalksTheQueue(t) /\ Sole(s)
    BY <2>1 DEF WInv, WalkInv
  <2>3. ~CanPromote(t, c)
    BY <2>1, <2>2, NoCycle
  <2>4. BalanceSeenBy(t, c.row.l) < price
    <3>1. price \in Nat /\ balance \in [Learners -> Int] /\ tx[t].delta \in [Learners -> Int]
          /\ c.row.l \in Learners
      BY <2>1 DEF TypeOK, Addressed, SessionRow, At, Transaction, Copy, Row
    <3>2. BalanceSeenBy(t, c.row.l) \in Int
      BY <3>1 DEF BalanceSeenBy
    <3>3. ~(BalanceSeenBy(t, c.row.l) >= price)
      BY <2>1, <2>2, <2>3, BalanceDecides
    <3> HIDE DEF price
    <3> QED
      BY <3>1, <3>2, <3>3
  <2>5. SeenBy(t)' = SeenBy(t) /\ \A l : BalanceSeenBy(t, l)' = BalanceSeenBy(t, l)
    BY <1>1, <2>1 DEF SeenBy, BalanceSeenBy
  <2>6. ASSUME NEW b \in Waitlist(SeenBy(t), s), b \notin Ids(tx'[t].todo)
        PROVE  BalanceSeenBy(t, bookings[b].l) < price
    <3>1. CASE b = c.id
      BY <2>1, <2>4, <3>1, CandidateWaits
    <3>2. CASE b # c.id
      <4>1. b \notin Ids(tx[t].todo)
        BY <2>1, <2>6, <3>2 DEF Ids
      <4> QED
        BY <2>1, <2>2, <4>1 DEF WalksTheQueue
    <3> QED
      BY <3>1, <3>2
  <2>7. /\ \A d \in tx'[t].todo \cup tx'[t].won : d.row = bookings[d.id]
        /\ \A x \in tx'[t].won, d \in tx'[t].todo : x.row.pos <= d.row.pos
        /\ SeatsTaken(SeenBy(t), s) + tx'[t].free >= sessions[s].max
    BY <2>1, <2>2 DEF WalksTheQueue
  <2> QED
    BY <2>1, <2>5, <2>6, <2>7
<1>5. CASE BookLockUser(t) \/ BookTakeSeat(t) \/ CancelLockSession(t)
  <2>1. \/ tx'[t] = [tx[t] EXCEPT !.pc = "count"]
        \/ tx'[t] = [tx[t] EXCEPT !.pc = "commit", !.delta[tx[t].l] = @ - price]
        \/ tx'[t] = [tx[t] EXCEPT !.pc = "lock_user"]
    BY <1>5 DEF BookLockUser, BookTakeSeat, CancelLockSession, Proceed, TypeOK
  <2> HIDE DEF price, s
  <2> QED
    BY <2>1 DEF At, Transaction
<1>6. ASSUME NEW l \in Learners, NEW z \in Sessions, BookLockSession(t, l, z) PROVE FALSE
  BY <1>6 DEF BookLockSession, Proceed, TypeOK, Idle, At
<1>7. ASSUME NEW b \in BookingIds, CancelLoad(t, b) PROVE FALSE
  BY <1>7 DEF CancelLoad, Proceed, TypeOK, Idle, At
<1>8. CASE BookCommit(t) \/ BookWaitlist(t) \/ CancelCommit(t) \/ Rollback(t)
  <2>1. tx'[t] = Idle
    BY <1>8, EndStep DEF BookCommit, BookWaitlist, CancelCommit, Rollback, Commit
  <2> QED
    BY <2>1 DEF Idle, At
<1> QED
  BY <1>2, <1>3, <1>4, <1>5, <1>6, <1>7, <1>8 DEF LearnerActs, Book, Cancel

LEMMA InitWalks == Init => WInv
<1> SUFFICES ASSUME Init PROVE WInv
  OBVIOUS
<1>1. LInv
  BY InitLedger
<1>2. \A t \in Txns : tx[t] = Idle
  BY DEF Init
<1>3. \A b \in BookingIds : bookings[b].status = "none"
  BY DEF Init, NoBooking
<1>4. \A l \in Learners : userLock[l] = None
  BY DEF Init
<1> QED
  BY <1>1, <1>2, <1>3, <1>4, NoneAssumption
     DEF WInv, WalkInv, OnPublished, LockedInOrder, WalksTheQueue, At, Idle

LEMMA StepWalks == WInv /\ [Next]_vars => WInv'
<1> SUFFICES ASSUME WInv, [Next]_vars PROVE WInv'
  OBVIOUS
<1>1. LInv'
  BY StepLedger DEF WInv
<1>2. CASE UNCHANGED vars \/ Tick
  <2>1. UNCHANGED <<sessions, bookings, balance, userLock, tx>>
    BY <1>2 DEF vars, Tick, tables
  <2>2. OnPublished' /\ LockedInOrder'
    BY <2>1 DEF WInv, WalkInv, OnPublished, LockedInOrder
  <2>3. ASSUME NEW t \in Txns PROVE WalksTheQueue(t)'
    <3>1. WalksTheQueue(t)
      BY DEF WInv, WalkInv
    <3>2. SeenBy(t)' = SeenBy(t) /\ \A l : BalanceSeenBy(t, l)' = BalanceSeenBy(t, l)
      BY <2>1 DEF SeenBy, BalanceSeenBy
    <3>3. Sole(tx[t].s)' = Sole(tx[t].s) /\ At(t, "cancel", "promote")' = At(t, "cancel", "promote")
      BY <2>1 DEF Sole, At
    <3> QED
      BY <2>1, <3>1, <3>2, <3>3 DEF WalksTheQueue
  <2> QED
    BY <1>1, <2>2, <2>3 DEF WInv, WalkInv
<1>3. ASSUME NEW t \in Txns, LearnerActs(t) PROVE WInv'
  <2>1. OnPublished' /\ LockedInOrder'
    BY <1>3, PublishedStep, LockStep DEF WInv, WalkInv
  <2>2. \A u \in Txns : WalksTheQueue(u)'
    BY <1>3, OwnWalk, OthersWalk
  <2> QED
    BY <1>1, <2>1, <2>2 DEF WInv, WalkInv
<1> QED
  BY <1>2, <1>3 DEF Next, LearnerActs

\* A seat is freed by the commit of a cancellation alone.
LEMMA FreedByCancelling ==
  ASSUME WInv, NEW t \in Txns, LearnerActs(t), NEW s \in Sessions, Freed(s)
  PROVE  CancelCommit(t) /\ tx[t].s = s
<1> IInv /\ TypeOK
  BY DEF WInv, LInv, IInv
<1>1. PICK b \in BookingIds :
        /\ bookings[b].s = s /\ bookings[b].status \in SEAT_HOLDING
        /\ bookings'[b].status = "cancelled"
  BY DEF Freed
<1>2. bookings'[b] # bookings[b] /\ bookings[b].status # "none"
  BY <1>1 DEF SEAT_HOLDING
<1>3. CASE BookCommit(t) \/ BookWaitlist(t)
  BY <1>2, <1>3 DEF BookCommit, BookWaitlist, TypeOK
<1>4. CASE UNCHANGED bookings
  BY <1>2, <1>4
<1>5. CASE CancelCommit(t)
  <2>1. PICK c \in tx[t].own : tx[t].own = {c}
    BY <1>5 DEF WInv, LInv, ClaimInv, PromotesOthers, CancelCommit, At
  <2>2. b = c.id \/ b \in Ids(tx[t].won)
    BY <1>2, <1>5, <2>1, CancelRow DEF WInv
  <2>3. bookings[b].s = tx[t].s
    BY <2>1, <2>2, OwnRow DEF WInv, LInv, ClaimInv, Ids
  <2> QED
    BY <1>1, <1>5, <2>3
<1> QED
  BY <1>3, <1>4, <1>5
     DEF LearnerActs, Book, Cancel, Rollback, BookLockSession, BookLockUser, BookTakeSeat,
         CancelLoad, CancelLockSession, CancelLockUser, PromoteTake, PromoteSkip,
         PromoteDeadlock, tables

LEMMA RefillStep ==
  ASSUME WInv, [Next]_vars, NEW s \in Sessions, Freed(s), Sole(s)
  PROVE  \/ SeatsTaken(bookings', s) >= sessions[s].max
         \/ \A b \in Waitlist(bookings', s) : ~CanPay(b, s)
<1> IInv /\ TypeOK
  BY DEF WInv, LInv, IInv
<1>1. PICK t \in Txns : LearnerActs(t)
  BY DEF Freed, SEAT_HOLDING, Next, LearnerActs, Tick, vars, tables
<1>2. CancelCommit(t) /\ tx[t].s = s
  BY <1>1, FreedByCancelling
<1>3. /\ At(t, "cancel", "promote") /\ ~Promoting(t) /\ bookings' = SeenBy(t)
      /\ balance' = [l \in Learners |-> BalanceSeenBy(t, l)]
  BY <1>2 DEF CancelCommit, Commit
<1>4. /\ SeatsTaken(SeenBy(t), s) + tx[t].free >= sessions[s].max
      /\ \A b \in Waitlist(SeenBy(t), s) :
           b \in Ids(tx[t].todo) \/ BalanceSeenBy(t, bookings[b].l) < sessions[s].price
  BY <1>2, <1>3 DEF WInv, WalkInv, WalksTheQueue
<1>5. CASE tx[t].free <= 0
  <2>1. sessions[s].max \in Nat /\ tx[t].free \in Int
    BY DEF TypeOK, SessionRow, Transaction
  <2>2. SeatsTaken(SeenBy(t), s) >= sessions[s].max
    BY <1>4, <1>5, <2>1, HoldingIsFinite
  <2> QED
    BY <1>3, <2>2
<1>6. CASE tx[t].todo = {}
  <2> SUFFICES ASSUME NEW b \in Waitlist(SeenBy(t), s) PROVE ~CanPay(b, s)
    BY <1>3
  <2>1. BalanceSeenBy(t, bookings[b].l) < sessions[s].price
    BY <1>4, <1>6 DEF Ids
  <2>2. bookings[b].l \in Learners
    BY WaitlistSeen, RowTyped DEF IInv, Waitlist, Row
  <2>3. /\ balance[bookings[b].l] \in Int /\ tx[t].delta[bookings[b].l] \in Int
        /\ sessions[s].price \in Nat
    BY <2>2 DEF TypeOK, SessionRow, Transaction
  <2> QED
    BY <1>3, <2>1, <2>2, <2>3 DEF CanPay, BalanceSeenBy
<1> QED
  <2>1. tx[t].free \in Int
    BY DEF TypeOK, Transaction
  <2> QED
    BY <1>3, <1>5, <1>6, <2>1 DEF Promoting

LEMMA OrderStep ==
  ASSUME WInv, [Next]_vars, NEW s \in Sessions, Sole(s),
         NEW b1 \in Waitlist(bookings, s), NEW b2 \in Waitlist(bookings', s),
         bookings'[b1].status = "confirmed", bookings[b2].pos < bookings[b1].pos
  PROVE  ~CanPay(b2, s)
<1> IInv /\ TypeOK
  BY DEF WInv, LInv, IInv
<1>1. PICK t \in Txns : LearnerActs(t)
  BY DEF Waitlist, Next, LearnerActs, Tick, vars, tables
<1>2. CancelCommit(t)
  <2>1. bookings'[b1] # bookings[b1] /\ bookings[b1].status # "none" /\ b1 \in BookingIds
    BY DEF Waitlist
  <2>2. CASE BookCommit(t) \/ BookWaitlist(t)
    BY <2>1, <2>2 DEF BookCommit, BookWaitlist, TypeOK
  <2>3. CASE UNCHANGED bookings
    BY <2>1, <2>3
  <2> QED
    BY <1>1, <2>2, <2>3
       DEF LearnerActs, Book, Cancel, Rollback, BookLockSession, BookLockUser, BookTakeSeat,
           CancelLoad, CancelLockSession, CancelLockUser, PromoteTake, PromoteSkip,
           PromoteDeadlock, tables
<1>3. /\ At(t, "cancel", "promote") /\ bookings' = SeenBy(t)
      /\ balance' = [l \in Learners |-> BalanceSeenBy(t, l)]
  BY <1>2 DEF CancelCommit, Commit
<1>4. PICK c \in tx[t].own : tx[t].own = {c}
  BY <1>3 DEF WInv, LInv, ClaimInv, PromotesOthers, At
<1>5. b1 \in BookingIds /\ bookings[b1].s = s /\ bookings[b1].status = "waitlisted"
  BY DEF Waitlist
<1>6. b1 \in Ids(tx[t].won)
  <2>1. b1 = c.id => bookings[b1] \in Row /\ bookings'[b1] = Cancelled(bookings[b1])
    BY <1>2, <1>4, <1>5, CancelRow DEF WInv
  <2>2. b1 # c.id
    BY <2>1 DEF Cancelled, Row
  <2> QED
    BY <1>2, <1>4, <1>5, <2>2, CancelRow DEF WInv
<1>7. PICK d \in tx[t].won : d.id = b1
  BY <1>6 DEF Ids
<1>8. tx[t].s = s
  BY <1>5, <1>7, OwnRow DEF WInv, LInv, ClaimInv
<1>9. WalksTheQueue(t)
  BY DEF WInv, WalkInv
<1>10. b2 \in Waitlist(SeenBy(t), s) /\ b2 \in Waitlist(bookings, s)
  BY <1>3, WaitlistSeen DEF IInv
<1>11. b2 \notin Ids(tx[t].todo)
  <2> SUFFICES ASSUME NEW x \in tx[t].todo, x.id = b2 PROVE FALSE
    BY DEF Ids
  <2>1. d.row = bookings[b1] /\ x.row = bookings[b2] /\ d.row.pos <= x.row.pos
    BY <1>3, <1>7, <1>8, <1>9 DEF WalksTheQueue
  <2>2. bookings[b1] \in Row /\ bookings[b2] \in Row
    BY <1>10, RowTyped DEF Waitlist
  <2> QED
    BY <2>1, <2>2 DEF Row
<1>12. BalanceSeenBy(t, bookings[b2].l) < sessions[s].price
  BY <1>3, <1>8, <1>9, <1>10, <1>11 DEF WalksTheQueue
<1>13. bookings[b2].l \in Learners
  BY <1>10, RowTyped DEF Waitlist, Row
<1>14. /\ balance[bookings[b2].l] \in Int /\ tx[t].delta[bookings[b2].l] \in Int
       /\ sessions[s].price \in Nat
  BY <1>13 DEF TypeOK, SessionRow, Transaction
<1> QED
  BY <1>3, <1>12, <1>13, <1>14 DEF CanPay, BalanceSeenBy

\* What a walk along a waitlist keeps from its first candidate to its commit.
THEOREM WalkInvariant == Spec => []WalkInv
<1>1. WInv => WalkInv
  BY DEF WInv
<1> QED
  BY <1>1, InitWalks, StepWalks, PTL DEF Spec

\* While a session is the only one to go to, a cancellation that frees a seat
\* of it leaves it full, or nobody waiting who can pay: for any number of
\* learners, and of requests that book, cancel, fail and deadlock meanwhile.
THEOREM FreedSeatsRefilled == Spec => FreedSeatIsRefilled
<1>1. WInv /\ [Next]_vars =>
        [\A s \in Sessions :
           Freed(s) /\ sessions[s].status = "published" /\ Sole(s) =>
             \/ SeatsTaken(bookings', s) >= sessions[s].max
             \/ \A b \in Waitlist(bookings', s) : ~CanPay(b, s)]_vars
  BY RefillStep
<1> QED
  BY <1>1, InitWalks, StepWalks, PTL DEF Spec, FreedSeatIsRefilled

\* And promotes nobody over a learner further up who could have paid.
THEOREM PromotionsInOrder == Spec => PromotedInOrder
<1>1. WInv /\ [Next]_vars =>
        [\A s \in {r \in Sessions : Sole(r)} :
           \A b1 \in Waitlist(bookings, s), b2 \in Waitlist(bookings', s) :
             bookings'[b1].status = "confirmed" /\ bookings[b2].pos < bookings[b1].pos
               => ~CanPay(b2, s)]_vars
  BY OrderStep
<1> QED
  BY <1>1, InitWalks, StepWalks, PTL DEF Spec, PromotedInOrder
=============================================================================
