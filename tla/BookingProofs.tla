---------------------------- MODULE BookingProofs ----------------------------
(***************************************************************************)
(* Group discussions, with every operation of learners and superuser and   *)
(* for every number of them: types and balances; what a step does to a     *)
(* transaction and to a booking's row; the order of the waitlist and what  *)
(* a cancellation refunds; what a seat was charged.                        *)
(***************************************************************************)
EXTENDS SessionAdmin, FiniteSetTheorems, TLAPS

LEMMA IdleIsTyped == Idle \in Transaction /\ Addressed(Idle)
  BY DEF Idle, Transaction, Addressed, Ops, Steps

\* The tables and the transactions, as the type invariant says they are.
LEMMA InitTyped == Init => TypeOK
<1> SUFFICES ASSUME Init PROVE TypeOK
  OBVIOUS
<1>1. now \in Nat
  BY DEF Init
<1>2. sessions \in [Sessions -> SessionRow]
  BY NumberAssumption DEF Init, SessionRow, SessionStatus
<1>3. bookings \in [BookingIds -> BookingRow]
  BY DEF Init, BookingRow
<1>4. balance \in [Learners -> Int] /\ net \in [BookingIds -> Int]
  <2>1. balance \in [Learners -> Int]
    <3>1. balance \in [Learners -> Balances] /\ Balances \subseteq Int
      BY NumberAssumption DEF Init
    <3> QED
      BY <3>1
  <2>2. net \in [BookingIds -> Int]
    BY DEF Init
  <2> QED
    BY <2>1, <2>2
<1>5. sessionLock \in [Sessions -> Txns \cup {None}] /\ userLock \in [Learners -> Txns \cup {None}]
  BY DEF Init
<1>6. tx \in [Txns -> Transaction] /\ \A t \in Txns : Addressed(tx[t])
  BY IdleIsTyped DEF Init
<1> QED
  BY <1>1, <1>2, <1>3, <1>4, <1>5, <1>6 DEF TypeOK

\* Ledger rows not yet committed sum to an integer for every learner.
LEMMA DeltaTyped ==
  ASSUME NEW d \in [Learners -> Int], NEW l \in Learners, NEW n \in Int
  PROVE  [d EXCEPT ![l] = n] \in [Learners -> Int]
  OBVIOUS

\* A row that is not free is a whole row: it names a session and a learner.
LEMMA RowTyped ==
  ASSUME TypeOK, NEW b \in BookingIds, bookings[b].status # "none"
  PROVE  bookings[b] \in Row
  BY DEF TypeOK, BookingRow, NoBooking

\* Counting seats yields a natural number, whatever the table.
LEMMA SeatsCounted ==
  ASSUME NEW rows, NEW s
  PROVE  SeatsTaken(rows, s) \in Nat
<1>1. {b \in BookingIds : rows[b].s = s /\ rows[b].status \in SEAT_HOLDING} \subseteq BookingIds
  OBVIOUS
<1> QED
  BY <1>1, FiniteAssumption, FS_Subset, FS_CardinalityType DEF SeatsTaken

\* What the table a transaction sees holds, case by case.
LEMMA SeenCases ==
  ASSUME TypeOK, CopiesKnown, NEW t \in Txns, NEW b \in BookingIds
  PROVE  \/ /\ b \in Ids(tx[t].own)
            /\ bookings[b] \in Row
            /\ SeenBy(t)[b] = Cancelled(bookings[b])
         \/ /\ b \notin Ids(tx[t].own) /\ b \in Ids(tx[t].won)
            /\ bookings[b] \in Row
            /\ SeenBy(t)[b] = Promoted(bookings[b], sessions[tx[t].s].price)
         \/ /\ b \notin Ids(tx[t].own) /\ b \notin Ids(tx[t].won)
            /\ SeenBy(t)[b] = bookings[b]
<1>1. b \in Ids(tx[t].own) \cup Ids(tx[t].won) => bookings[b] \in Row
  BY RowTyped DEF CopiesKnown, Known, Ids
<1> QED
  BY <1>1 DEF SeenBy

\* Who waits in the table a transaction sees is waiting in the committed one.
LEMMA WaitlistSeen ==
  ASSUME TypeOK, CopiesKnown, NEW t \in Txns, NEW s, NEW b \in Waitlist(SeenBy(t), s)
  PROVE  /\ b \in Waitlist(bookings, s)
         /\ b \notin Ids(tx[t].own) /\ b \notin Ids(tx[t].won)
<1>1. b \in BookingIds /\ SeenBy(t)[b].status = "waitlisted" /\ SeenBy(t)[b].s = s
  BY DEF Waitlist
<1> QED
  BY <1>1, SeenCases DEF Waitlist, Cancelled, Promoted, Row

\* Cancelling or promoting a row leaves it a row of the same booking.
LEMMA PatchTyped ==
  ASSUME NEW r \in Row, NEW p \in Nat
  PROVE  /\ Cancelled(r) \in Row /\ Cancelled(r).status = "cancelled"
         /\ Cancelled(r).s = r.s /\ Cancelled(r).l = r.l
         /\ Promoted(r, p) \in Row /\ Promoted(r, p).status = "confirmed"
         /\ Promoted(r, p).s = r.s /\ Promoted(r, p).l = r.l
  BY DEF Cancelled, Promoted, Row, BookingStatus

\* The table a transaction sees is a bookings table with the same rows.
LEMMA SeenTyped ==
  ASSUME TypeOK, CopiesKnown, NEW t \in Txns, tx[t].op \in {"cancel", "cancel_session"}
  PROVE  /\ SeenBy(t) \in [BookingIds -> BookingRow]
         /\ \A b \in BookingIds : bookings[b].status # "none" =>
              /\ SeenBy(t)[b].status # "none"
              /\ SeenBy(t)[b].s = bookings[b].s /\ SeenBy(t)[b].l = bookings[b].l
<1>1. sessions[tx[t].s].price \in Nat
  BY DEF TypeOK, Addressed, SessionRow
<1>2. ASSUME NEW b \in BookingIds
      PROVE  /\ SeenBy(t)[b] \in BookingRow
             /\ bookings[b].status # "none" =>
                  /\ SeenBy(t)[b].status # "none"
                  /\ SeenBy(t)[b].s = bookings[b].s /\ SeenBy(t)[b].l = bookings[b].l
  <2>1. bookings[b] \in BookingRow
    BY DEF TypeOK
  <2> QED
    <3>1. CASE bookings[b] \in Row /\ SeenBy(t)[b] = Cancelled(bookings[b])
      BY <3>1, <1>1, PatchTyped DEF BookingRow
    <3>2. CASE bookings[b] \in Row /\ SeenBy(t)[b] = Promoted(bookings[b], sessions[tx[t].s].price)
      BY <3>2, <1>1, PatchTyped DEF BookingRow
    <3>3. CASE SeenBy(t)[b] = bookings[b]
      BY <3>3, <2>1
    <3> QED
      BY <3>1, <3>2, <3>3, SeenCases
<1> QED
  BY <1>2 DEF SeenBy

(***************************************************************************)
(* A step moves one transaction and leaves the others what they hold       *)
(***************************************************************************)
\* No step takes a row's id, session or learner away from it.
RowsKept ==
  \A b \in BookingIds : bookings[b].status # "none" =>
    /\ bookings'[b].status # "none"
    /\ bookings'[b].s = bookings[b].s /\ bookings'[b].l = bookings[b].l

\* What transaction t may carry on with: a typed request whose charges it has
\* locked and the balance covers.
Sound(t, r) ==
  /\ r \in Transaction /\ Addressed(r) /\ Known(r)
  /\ \A l \in Learners :
       r.delta[l] < 0 => userLock'[l] = t /\ balance[l] + r.delta[l] >= 0
  /\ r.op = "book" /\ r.pc = "count" => userLock'[r.l] = t

\* The locks of the others stay; t may take locks nobody holds.
LocksKept(t) ==
  /\ userLock' \in [Learners -> Txns \cup {None}]
  /\ \A l \in Learners, u \in Txns \ {t} : userLock[l] = u => userLock'[l] = u

LEMMA ProceedSound ==
  ASSUME IInv, NEW t \in Txns, NEW r, Sound(t, r), Proceed(t, r), LocksKept(t),
         UNCHANGED <<now, tables>>,
         sessionLock' \in [Sessions -> Txns \cup {None}]
  PROVE  IInv'
<1> USE DEF IInv
<1>1. tx' \in [Txns -> Transaction] /\ \A u \in Txns : Addressed(tx'[u])
  BY DEF Sound, Proceed, TypeOK
<1>2. TypeOK'
  BY <1>1 DEF TypeOK, LocksKept, tables
<1>3. CopiesKnown'
  BY DEF Sound, Proceed, TypeOK, tables, CopiesKnown, Known
<1>4. Funded'
  BY DEF Funded, Sound, Proceed, TypeOK, Transaction, LocksKept, tables, BalanceSeenBy
<1>5. LockedBeforeSpend'
  BY DEF LockedBeforeSpend, At, Sound, Proceed, TypeOK, LocksKept, Addressed
<1>6. BalanceNeverNegative'
  BY DEF BalanceNeverNegative, tables
<1> QED
  BY <1>2, <1>3, <1>4, <1>5, <1>6

\* The end of a transaction: what it charged was covered, and nobody else was
\* charging those learners.
LEMMA CommitSound ==
  ASSUME IInv, NEW t \in Txns, Commit(t), RowsKept,
         now' \in Nat, sessions' \in [Sessions -> SessionRow],
         bookings' \in [BookingIds -> BookingRow], net' \in [BookingIds -> Int]
  PROVE  IInv'
<1> USE DEF IInv
<1>1. balance' \in [Learners -> Int]
  BY DEF Commit, TypeOK, BalanceSeenBy, Transaction
<1>2. sessionLock' \in [Sessions -> Txns \cup {None}] /\ userLock' \in [Learners -> Txns \cup {None}]
  BY DEF Commit, ReleaseLocks, TypeOK
<1>3. tx' \in [Txns -> Transaction] /\ \A u \in Txns : Addressed(tx'[u])
  BY IdleIsTyped DEF Commit, Proceed, TypeOK
<1>4. TypeOK'
  BY <1>1, <1>2, <1>3 DEF TypeOK
<1>5. \A u \in Txns : tx'[u] = IF u = t THEN Idle ELSE tx[u]
  BY DEF Commit, Proceed, TypeOK
<1>6. CopiesKnown'
  <2>1. Idle.own = {} /\ Idle.todo = {} /\ Idle.won = {}
    BY DEF Idle
  <2> QED
    BY <1>5, <2>1 DEF CopiesKnown, Known, RowsKept, TypeOK, Transaction, Copy
<1>7. \A l \in Learners : balance'[l] = balance[l] + tx[t].delta[l] /\ balance'[l] >= 0
  <2>1. \A l \in Learners : balance[l] \in Int /\ balance[l] >= 0 /\ tx[t].delta[l] \in Int
    BY DEF TypeOK, BalanceNeverNegative, Transaction
  <2> QED
    BY <2>1 DEF Commit, BalanceSeenBy, Funded
<1>8. Funded'
  <2> SUFFICES ASSUME NEW u \in Txns, NEW l \in Learners, tx'[u].delta[l] < 0
               PROVE  userLock'[l] = u /\ balance'[l] + tx'[u].delta[l] >= 0
    BY DEF Funded, BalanceSeenBy
  <2>1. u # t /\ tx'[u] = tx[u]
    BY <1>5 DEF Idle
  <2>2. userLock[l] = u /\ balance[l] + tx[u].delta[l] >= 0
    BY <2>1 DEF Funded, BalanceSeenBy
  <2>3. /\ balance[l] \in Int /\ tx[t].delta[l] \in Int /\ tx[u].delta[l] \in Int
        /\ ~(tx[t].delta[l] < 0)
    BY <2>1, <2>2 DEF Funded, TypeOK, Transaction
  <2>4. userLock'[l] = u
    BY <2>1, <2>2 DEF Commit, ReleaseLocks
  <2> QED
    BY <1>7, <2>1, <2>2, <2>3, <2>4
<1>9. LockedBeforeSpend'
  <2> SUFFICES ASSUME NEW u \in Txns, At(u, "book", "count")'
               PROVE  userLock'[tx'[u].l] = u
    BY DEF LockedBeforeSpend
  <2>1. u # t /\ tx'[u] = tx[u]
    BY <1>5 DEF At, Idle
  <2>2. userLock[tx[u].l] = u /\ tx[u].l \in Learners
    BY <2>1 DEF At, LockedBeforeSpend, TypeOK, Addressed
  <2> QED
    BY <2>1, <2>2 DEF Commit, ReleaseLocks
<1> QED
  BY <1>4, <1>6, <1>7, <1>8, <1>9 DEF BalanceNeverNegative

\* A rollback changes no table.
LEMMA RollbackSound ==
  ASSUME IInv, NEW t \in Txns, Rollback(t)
  PROVE  IInv'
<1> USE DEF IInv
<1>1. sessionLock' \in [Sessions -> Txns \cup {None}] /\ userLock' \in [Learners -> Txns \cup {None}]
  BY DEF Rollback, ReleaseLocks, TypeOK
<1>2. tx' \in [Txns -> Transaction] /\ \A u \in Txns : Addressed(tx'[u])
  BY IdleIsTyped DEF Rollback, Proceed, TypeOK
<1>3. \A u \in Txns : tx'[u] = IF u = t THEN Idle ELSE tx[u]
  BY DEF Rollback, Proceed, TypeOK
<1>4. TypeOK'
  BY <1>1, <1>2 DEF Rollback, TypeOK, tables
<1>5. CopiesKnown'
  <2>1. Idle.own = {} /\ Idle.todo = {} /\ Idle.won = {}
    BY DEF Idle
  <2> QED
    BY <1>3, <2>1 DEF CopiesKnown, Known, Rollback, tables
<1>6. Funded'
  <2> SUFFICES ASSUME NEW u \in Txns, NEW l \in Learners, tx'[u].delta[l] < 0
               PROVE  userLock'[l] = u /\ balance'[l] + tx'[u].delta[l] >= 0
    BY DEF Funded, BalanceSeenBy
  <2>1. u # t /\ tx'[u] = tx[u]
    BY <1>3 DEF Idle
  <2> QED
    BY <2>1 DEF Funded, BalanceSeenBy, Rollback, ReleaseLocks, tables
<1>7. LockedBeforeSpend'
  <2> SUFFICES ASSUME NEW u \in Txns, At(u, "book", "count")'
               PROVE  userLock'[tx'[u].l] = u
    BY DEF LockedBeforeSpend
  <2>1. u # t /\ tx'[u] = tx[u]
    BY <1>3 DEF At, Idle
  <2>2. userLock[tx[u].l] = u /\ tx[u].l \in Learners
    BY <2>1 DEF At, LockedBeforeSpend, TypeOK, Addressed
  <2> QED
    BY <2>1, <2>2 DEF Rollback, ReleaseLocks
<1> QED
  BY <1>4, <1>5, <1>6, <1>7 DEF BalanceNeverNegative, Rollback, tables

(***************************************************************************)
(* Booking a seat                                                          *)
(***************************************************************************)
LEMMA BookSound ==
  ASSUME IInv, NEW t \in Txns, Book(t)
  PROVE  IInv'
<1> tx[t] \in Transaction /\ Addressed(tx[t]) /\ Known(tx[t])
  BY DEF IInv, TypeOK, CopiesKnown
<1> userLock \in [Learners -> Txns \cup {None}]
  BY DEF IInv, TypeOK
<1>1. ASSUME NEW l \in Learners, NEW s \in Sessions, BookLockSession(t, l, s)
      PROVE  IInv'
  <2> DEFINE r == [Idle EXCEPT !.op = "book", !.pc = "lock_user", !.s = s, !.l = l]
  <2>1. r \in Transaction /\ Addressed(r)
    BY IdleIsTyped DEF Transaction, Ops, Steps, Addressed
  <2>2. Sound(t, r)
    BY <2>1 DEF Sound, Known, Idle
  <2> QED
    BY <1>1, <2>2, ProceedSound DEF BookLockSession, IInv, TypeOK, LocksKept
<1>2. CASE BookLockUser(t)
  <2> DEFINE r == [tx[t] EXCEPT !.pc = "count"]
  <2>1. r \in Transaction /\ Addressed(r) /\ Known(r)
    BY DEF Transaction, Steps, Addressed, Known
  <2>2. tx[t].l \in Learners /\ userLock[tx[t].l] = None
        /\ userLock' = [userLock EXCEPT ![tx[t].l] = t]
    BY <1>2 DEF BookLockUser, At, Addressed
  <2>3. LocksKept(t)
    BY <2>2, NoneAssumption DEF LocksKept
  <2>4. r.l = tx[t].l /\ r.delta = tx[t].delta
    OBVIOUS
  <2>5. ASSUME NEW l \in Learners, tx[t].delta[l] < 0
        PROVE  userLock'[l] = t /\ balance[l] + tx[t].delta[l] >= 0
    BY <2>2, <2>5 DEF IInv, Funded, BalanceSeenBy
  <2>6. userLock'[r.l] = t
    BY <2>2, <2>4
  <2>7. Sound(t, r)
    BY <2>1, <2>4, <2>5, <2>6 DEF Sound
  <2> QED
    BY <1>2, <2>3, <2>7, ProceedSound DEF BookLockUser, IInv, TypeOK
<1>3. CASE BookTakeSeat(t)
  <2> DEFINE l == tx[t].l
             price == sessions[tx[t].s].price
             r == [tx[t] EXCEPT !.pc = "commit", !.delta[l] = @ - price]
  <2>1. price \in Nat /\ l \in Learners /\ tx[t].delta \in [Learners -> Int]
    BY <1>3 DEF BookTakeSeat, At, Addressed, IInv, TypeOK, SessionRow, Transaction
  <2>2. r.delta \in [Learners -> Int] /\ r.delta[l] = tx[t].delta[l] - price
        /\ \A k \in Learners \ {l} : r.delta[k] = tx[t].delta[k]
    <3> HIDE DEF l, price
    <3>1. tx[t].delta[l] - price \in Int
      BY <2>1
    <3>2. r.delta = [tx[t].delta EXCEPT ![l] = tx[t].delta[l] - price]
      BY DEF Transaction
    <3> QED
      BY <2>1, <3>1, <3>2, DeltaTyped
  <2>3. r \in Transaction /\ Addressed(r) /\ Known(r)
    BY <2>2 DEF Transaction, Steps, Addressed, Known
  <2>4. userLock[l] = t /\ userLock' = userLock /\ BalanceSeenBy(t, l) >= price
    BY <1>3 DEF BookTakeSeat, IInv, LockedBeforeSpend
  <2>5. ASSUME NEW k \in Learners, r.delta[k] < 0
        PROVE  userLock'[k] = t /\ balance[k] + r.delta[k] >= 0
    <3>1. CASE k = l
      <4>1. balance[l] \in Int /\ tx[t].delta[l] \in Int
        BY <2>1 DEF IInv, TypeOK
      <4> HIDE DEF l, price, r
      <4> QED
        BY <4>1, <2>1, <2>2, <2>4, <3>1 DEF BalanceSeenBy
    <3>2. CASE k # l
      BY <2>2, <2>4, <2>5, <3>2 DEF IInv, Funded, BalanceSeenBy
    <3> QED
      BY <3>1, <3>2
  <2>6. r.pc = "commit"
    BY DEF Transaction
  <2>7. Sound(t, r)
    <3> HIDE DEF r
    <3> QED
      BY <2>3, <2>5, <2>6 DEF Sound
  <2> QED
    BY <1>3, <2>4, <2>7, ProceedSound DEF BookTakeSeat, IInv, TypeOK, LocksKept
<1>4. CASE BookCommit(t)
  <2>1. PICK b \in BookingIds :
          /\ bookings[b].status = "none"
          /\ bookings' = [bookings EXCEPT ![b] =
                             NewBooking(t, "confirmed", sessions[tx[t].s].price, 0)]
          /\ net' = [net EXCEPT ![b] = - sessions[tx[t].s].price]
    BY <1>4 DEF BookCommit
  <2>2. /\ sessions[tx[t].s] \in SessionRow
        /\ NewBooking(t, "confirmed", sessions[tx[t].s].price, 0) \in Row
    BY <1>4 DEF BookCommit, At, Addressed, IInv, TypeOK, SessionRow, NewBooking, Row, BookingStatus
  <2>3. bookings' \in [BookingIds -> BookingRow] /\ net' \in [BookingIds -> Int] /\ RowsKept
    BY <2>1, <2>2 DEF IInv, TypeOK, SessionRow, BookingRow, RowsKept
  <2> QED
    BY <1>4, <2>3, CommitSound DEF BookCommit, IInv, TypeOK
<1>5. CASE BookWaitlist(t)
  <2>1. PICK b \in BookingIds, p \in NextPositions(tx[t].s) :
          /\ bookings[b].status = "none"
          /\ bookings' = [bookings EXCEPT ![b] = NewBooking(t, "waitlisted", 0, p)]
    BY <1>5 DEF BookWaitlist
  <2>2. p \in Nat
    BY <2>1 DEF NextPositions, Waitlist, IInv, TypeOK, BookingRow, Row, NoBooking
  <2>3. NewBooking(t, "waitlisted", 0, p) \in Row
    BY <1>5, <2>2 DEF BookWaitlist, At, Addressed, IInv, TypeOK, SessionRow, NewBooking, Row,
                      BookingStatus
  <2>4. bookings' \in [BookingIds -> BookingRow] /\ RowsKept
    BY <2>1, <2>3 DEF IInv, TypeOK, BookingRow, RowsKept
  <2> QED
    BY <1>5, <2>4, CommitSound DEF BookWaitlist, IInv, TypeOK
<1> QED
  BY <1>1, <1>2, <1>3, <1>4, <1>5 DEF Book

(***************************************************************************)
(* Cancelling and promoting                                                *)
(***************************************************************************)
LEMMA CopyTyped ==
  ASSUME TypeOK, NEW b \in BookingIds, bookings[b].status # "none"
  PROVE  CopyOf(b) \in Copy /\ CopyOf(b).id = b /\ CopyOf(b).row = bookings[b]
  BY RowTyped DEF CopyOf, Copy

\* What a refund or a charge does to the ledger rows of a transaction.
LEMMA Charge ==
  ASSUME NEW d \in [Learners -> Int], NEW l \in Learners, NEW n \in Int
  PROVE  /\ [d EXCEPT ![l] = n] \in [Learners -> Int]
         /\ [d EXCEPT ![l] = n][l] = n
         /\ \A k \in Learners \ {l} : [d EXCEPT ![l] = n][k] = d[k]
  OBVIOUS

LEMMA CancelSound ==
  ASSUME IInv, NEW t \in Txns, Cancel(t)
  PROVE  IInv'
<1> TypeOK /\ CopiesKnown
  BY DEF IInv
<1> tx[t] \in Transaction /\ Addressed(tx[t]) /\ Known(tx[t])
  BY DEF TypeOK, CopiesKnown
<1> userLock \in [Learners -> Txns \cup {None}] /\ sessionLock \in [Sessions -> Txns \cup {None}]
  BY DEF TypeOK
<1>1. ASSUME NEW b \in BookingIds, CancelLoad(t, b) PROVE IInv'
  <2> DEFINE r == [Idle EXCEPT !.op = "cancel", !.pc = "lock_session", !.s = bookings[b].s,
                               !.l = bookings[b].l, !.own = {CopyOf(b)}]
  <2>1. bookings[b].status # "none" /\ bookings[b] \in Row
    BY <1>1, RowTyped DEF CancelLoad, Live, SEAT_HOLDING
  <2>2. r \in Transaction /\ Addressed(r)
    <3>1. {CopyOf(b)} \in SUBSET Copy /\ bookings[b].s \in Sessions /\ bookings[b].l \in Learners
      BY <2>1, CopyTyped DEF Row
    <3> QED
      BY <3>1, IdleIsTyped DEF Transaction, Ops, Steps, Addressed
  <2>3. Known(r)
    BY <2>1, CopyTyped DEF Known, Idle
  <2>4. Sound(t, r)
    BY <2>2, <2>3 DEF Sound, Idle
  <2> QED
    BY <1>1, <2>4, ProceedSound DEF CancelLoad, LocksKept
<1>2. CASE CancelLockSession(t)
  <2> DEFINE r == [tx[t] EXCEPT !.pc = "lock_user"]
  <2>1. r \in Transaction /\ Addressed(r) /\ Known(r)
    BY DEF Transaction, Steps, Addressed, Known
  <2>2. r.pc = "lock_user" /\ r.delta = tx[t].delta
    BY DEF Transaction
  <2>3. Sound(t, r)
    BY <1>2, <2>1, <2>2 DEF Sound, CancelLockSession, IInv, Funded, BalanceSeenBy
  <2>4. sessionLock' \in [Sessions -> Txns \cup {None}]
    BY <1>2 DEF CancelLockSession
  <2> QED
    BY <1>2, <2>3, <2>4, ProceedSound DEF CancelLockSession, LocksKept
<1>3. CASE CancelLockUser(t)
  <2> DEFINE s == tx[t].s
             l == tx[t].l
             rows == SeenBy(t)
             free == sessions[s].max - SeatsTaken(rows, s)
             left == IF sessions[s].status = "published" THEN free ELSE 0
             queue == {CopyOf(b) : b \in Waitlist(rows, s)}
  <2>1. PICK c \in tx[t].own :
          Proceed(t, [tx[t] EXCEPT !.pc = "promote", !.arg = Refund(s, c.row),
                                   !.delta[l] = @ + Refund(s, c.row),
                                   !.free = left, !.todo = queue])
    BY <1>3 DEF CancelLockUser
  <2> DEFINE r == [tx[t] EXCEPT !.pc = "promote", !.arg = Refund(s, c.row),
                                !.delta[l] = @ + Refund(s, c.row),
                                !.free = left, !.todo = queue]
  <2>2. /\ s \in Sessions /\ l \in Learners /\ sessions[s] \in SessionRow /\ c \in Copy
        /\ tx[t].delta \in [Learners -> Int] /\ tx[t].op = "cancel"
    BY <1>3 DEF CancelLockUser, At, Addressed, TypeOK, Transaction
  <2>3. Refund(s, c.row) \in Nat
    BY <2>2 DEF Refund, Copy, Row
  <2>4. left \in Int
    BY <2>2, SeatsCounted DEF SessionRow
  <2>5. \A b \in Waitlist(rows, s) : b \in BookingIds /\ bookings[b].status # "none"
    BY WaitlistSeen DEF Waitlist
  <2>6. queue \in SUBSET Copy /\ \A q \in queue :
          /\ bookings[q.id].status # "none"
          /\ bookings[q.id].s = q.row.s /\ bookings[q.id].l = q.row.l
    BY <2>5, CopyTyped
  <2>7. tx[t].delta[l] + Refund(s, c.row) \in Int
    BY <2>2, <2>3
  <2> HIDE DEF s, l, left, queue
  <2>8. /\ r.delta = [tx[t].delta EXCEPT ![l] = tx[t].delta[l] + Refund(s, c.row)]
        /\ r.pc = "promote" /\ r.own = tx[t].own /\ r.todo = queue /\ r.won = tx[t].won
        /\ r.op = tx[t].op /\ r.s = tx[t].s /\ r.l = tx[t].l /\ r.free = left
        /\ r.arg = Refund(s, c.row)
    BY DEF Transaction
  <2>9. r.delta \in [Learners -> Int]
    BY <2>2, <2>7, <2>8, Charge
  <2>10. r \in Transaction /\ Addressed(r)
    BY <2>3, <2>4, <2>6, <2>9 DEF Transaction, Steps, Addressed
  <2>11. Known(r)
    <3> HIDE DEF r
    <3> QED
      BY <2>6, <2>8 DEF Known
  <2>12. userLock[l] = None /\ userLock' = [userLock EXCEPT ![l] = t]
    BY <1>3 DEF CancelLockUser, l
  <2>13. LocksKept(t)
    BY <2>2, <2>12, NoneAssumption DEF LocksKept
  <2>14. ASSUME NEW k \in Learners, r.delta[k] < 0
         PROVE  userLock'[k] = t /\ balance[k] + r.delta[k] >= 0
    <3> HIDE DEF r
    <3>1. balance[k] \in Int /\ tx[t].delta[k] \in Int
      BY <2>2 DEF TypeOK
    <3>2. r.delta[k] >= tx[t].delta[k] /\ r.delta[k] \in Int
      BY <2>2, <2>3, <2>7, <2>8, <2>9, <3>1, Charge
    <3>3. userLock[k] = t /\ balance[k] + tx[t].delta[k] >= 0
      BY <2>14, <3>1, <3>2 DEF IInv, Funded, BalanceSeenBy
    <3> QED
      BY <2>2, <2>12, <3>1, <3>2, <3>3
  <2>15. Sound(t, r)
    <3> HIDE DEF r
    <3> QED
      BY <2>8, <2>10, <2>11, <2>14 DEF Sound
  <2> QED
    BY <1>3, <2>1, <2>13, <2>15, ProceedSound DEF CancelLockUser
<1>4. CASE PromoteTake(t)
  <2>1. PICK c \in Candidates(t) :
          /\ UserFree(t, c.row.l) /\ CanPromote(t, c)
          /\ userLock' = [userLock EXCEPT ![c.row.l] = t]
          /\ Proceed(t, [tx[t] EXCEPT !.todo = @ \ {c}, !.won = @ \cup {c}, !.free = @ - 1,
                                      !.delta[c.row.l] = @ - sessions[tx[t].s].price])
    BY <1>4 DEF PromoteTake
  <2> DEFINE l == c.row.l
             price == sessions[tx[t].s].price
             r == [tx[t] EXCEPT !.todo = @ \ {c}, !.won = @ \cup {c}, !.free = @ - 1,
                                !.delta[l] = @ - price]
  <2>2. /\ c \in tx[t].todo /\ c \in Copy /\ l \in Learners
        /\ price \in Nat /\ tx[t].delta \in [Learners -> Int] /\ tx[t].op = "cancel"
    BY <1>4, <2>1 DEF PromoteTake, Promoting, Candidates, At, Addressed, TypeOK, Transaction,
                      SessionRow, Copy, Row
  <2>3. BalanceSeenBy(t, l) >= price
    BY <2>1 DEF CanPromote
  <2> HIDE DEF l, price
  <2>4. /\ r.delta = [tx[t].delta EXCEPT ![l] = tx[t].delta[l] - price]
        /\ r.pc = tx[t].pc /\ r.own = tx[t].own /\ r.todo = tx[t].todo \ {c}
        /\ r.won = tx[t].won \cup {c} /\ r.op = tx[t].op /\ r.s = tx[t].s /\ r.l = tx[t].l
        /\ r.free = tx[t].free - 1 /\ r.arg = tx[t].arg
    BY DEF Transaction
  <2>5. tx[t].delta[l] - price \in Int
    BY <2>2
  <2>6. r.delta \in [Learners -> Int]
    BY <2>2, <2>4, <2>5, Charge
  <2>7. r \in Transaction /\ Addressed(r)
    <3>1. /\ tx[t].todo \ {c} \in SUBSET Copy /\ tx[t].won \cup {c} \in SUBSET Copy
          /\ tx[t].free - 1 \in Int
      BY <2>2 DEF Transaction
    <3> QED
      BY <2>4, <2>6, <3>1 DEF Transaction, Addressed
  <2>8. Known(r)
    <3> HIDE DEF r
    <3> QED
      BY <2>2, <2>4 DEF Known
  <2>9. userLock[l] \in {None, t} /\ userLock' = [userLock EXCEPT ![l] = t]
    BY <2>1 DEF UserFree, l
  <2>10. LocksKept(t)
    BY <2>2, <2>9, NoneAssumption DEF LocksKept
  <2>11. ASSUME NEW k \in Learners, r.delta[k] < 0
         PROVE  userLock'[k] = t /\ balance[k] + r.delta[k] >= 0
    <3> HIDE DEF r
    <3>1. balance[k] \in Int /\ tx[t].delta[k] \in Int
      BY <2>2 DEF TypeOK
    <3>2. CASE k = l
      <4>1. r.delta[k] = tx[t].delta[k] - price
        BY <2>2, <2>4, <2>5, <3>2, Charge
      <4> QED
        BY <2>2, <2>3, <2>9, <3>1, <3>2, <4>1 DEF BalanceSeenBy
    <3>3. CASE k # l
      <4>1. r.delta[k] = tx[t].delta[k]
        BY <2>2, <2>4, <2>5, <3>3, Charge
      <4> QED
        BY <2>9, <2>11, <3>3, <4>1 DEF IInv, Funded, BalanceSeenBy
    <3> QED
      BY <3>2, <3>3
  <2>12. Sound(t, r)
    <3> HIDE DEF r
    <3> QED
      BY <2>2, <2>4, <2>7, <2>8, <2>11 DEF Sound
  <2> QED
    BY <1>4, <2>1, <2>10, <2>12, ProceedSound DEF PromoteTake, l, price
<1>5. CASE PromoteSkip(t) \/ PromoteDeadlock(t)
  <2>1. PICK c \in Candidates(t) : Proceed(t, [tx[t] EXCEPT !.todo = @ \ {c}])
    BY <1>5 DEF PromoteSkip, PromoteDeadlock
  <2> DEFINE r == [tx[t] EXCEPT !.todo = @ \ {c}]
  <2>2. UNCHANGED <<now, tables, sessionLock, userLock>> /\ tx[t].op = "cancel"
    BY <1>5 DEF PromoteSkip, PromoteDeadlock, Promoting, At
  <2>3. r \in Transaction /\ Addressed(r) /\ Known(r)
    BY DEF Transaction, Addressed, Known
  <2>4. r.op = tx[t].op /\ r.delta = tx[t].delta
    BY DEF Transaction
  <2>5. Sound(t, r)
    BY <2>2, <2>3, <2>4 DEF Sound, IInv, Funded, BalanceSeenBy
  <2> QED
    BY <2>1, <2>2, <2>5, ProceedSound DEF LocksKept
<1>6. CASE CancelCommit(t)
  <2>1. /\ tx[t].op = "cancel" /\ sessions[tx[t].s] \in SessionRow
        /\ tx[t].arg \in Nat /\ net \in [BookingIds -> Int]
    BY <1>6 DEF CancelCommit, At, Addressed, TypeOK, Transaction
  <2>2. bookings' \in [BookingIds -> BookingRow] /\ RowsKept
    BY <1>6, <2>1, SeenTyped DEF CancelCommit, RowsKept
  <2>3. net' \in [BookingIds -> Int]
    BY <1>6, <2>1 DEF CancelCommit, SessionRow
  <2> QED
    BY <1>6, <2>2, <2>3, CommitSound DEF CancelCommit, TypeOK
<1> QED
  BY <1>1, <1>2, <1>3, <1>4, <1>5, <1>6 DEF Cancel

(***************************************************************************)
(* The superuser and the worker                                            *)
(***************************************************************************)
LEMMA LiveCopies ==
  ASSUME TypeOK, NEW s, NEW copies, copies = {CopyOf(b) : b \in LiveIn(s)}
  PROVE  /\ copies \in SUBSET Copy
         /\ \A c \in copies : /\ bookings[c.id].status # "none"
                              /\ bookings[c.id].s = c.row.s /\ bookings[c.id].l = c.row.l
<1>1. \A b \in LiveIn(s) : b \in BookingIds /\ bookings[b].status # "none"
  BY DEF LiveIn, Live, SEAT_HOLDING
<1> QED
  BY <1>1, CopyTyped

\* A request that has read rows of one session, and charges nobody yet.
Reads(r) ==
  /\ r \in Transaction /\ r.s \in Sessions
  /\ r.op \in Ops \ {"book", "cancel", "adjust"}
  /\ r.delta = Idle.delta

LEMMA RequestTyped ==
  ASSUME NEW op \in Ops \ {"book", "cancel", "adjust"}, NEW pc \in Steps, NEW s \in Sessions
  PROVE  Reads(Request(op, pc, s))
<1> DEFINE r == Request(op, pc, s)
<1>1. r \in Transaction /\ r.s = s /\ r.op = op /\ r.delta = Idle.delta
  BY IdleIsTyped DEF Request, Transaction
<1> QED
  BY <1>1 DEF Reads

LEMMA RequestSound ==
  ASSUME IInv, NEW t \in Txns, NEW r, Reads(r), Known(r), Proceed(t, r),
         UNCHANGED <<now, tables, sessionLock, userLock>>
  PROVE  IInv'
<1> USE DEF Reads
<1>1. \A l \in Learners : ~(r.delta[l] < 0)
  BY DEF Idle
<1>2. r \in Transaction
  OBVIOUS
<1>3. Addressed(r)
  BY DEF Addressed
<1>4. Sound(t, r)
  BY <1>1, <1>2, <1>3 DEF Sound
<1> QED
  BY <1>4, ProceedSound DEF IInv, TypeOK, LocksKept

\* The two loops over the bookings of a session.
LEMMA CancellingSound ==
  ASSUME IInv, NEW t \in Txns,
         \/ AffectedPick(t) \/ AffectedRefund(t) \/ AffectedDone(t) \/ WriteSession(t)
  PROVE  IInv'
<1> TypeOK /\ CopiesKnown
  BY DEF IInv
<1> tx[t] \in Transaction /\ Addressed(tx[t]) /\ Known(tx[t])
  BY DEF TypeOK, CopiesKnown
<1> userLock \in [Learners -> Txns \cup {None}] /\ sessionLock \in [Sessions -> Txns \cup {None}]
  BY DEF TypeOK
<1>1. tx[t].op \in {"cancel_session", "delete"} /\ tx[t].s \in Sessions
  BY DEF AffectedPick, AffectedRefund, AffectedDone, WriteSession, Cancelling, Addressed
<1>2. \A c \in tx[t].todo : c \in Copy /\ c.row.l \in Learners /\ c.row.spent \in Nat
  BY DEF Transaction, Copy, Row
<1>3. \A l \in Learners : tx[t].delta[l] < 0 => userLock[l] = t /\ balance[l] + tx[t].delta[l] >= 0
  BY DEF IInv, Funded, BalanceSeenBy
<1>4. CASE AffectedPick(t)
  <2>1. PICK c \in tx[t].todo : Proceed(t, [tx[t] EXCEPT !.l = c.row.l, !.pc = "lock_user"])
    BY <1>4 DEF AffectedPick
  <2> DEFINE r == [tx[t] EXCEPT !.l = c.row.l, !.pc = "lock_user"]
  <2>2. r \in Transaction /\ r.op = tx[t].op /\ r.delta = tx[t].delta /\ r.s = tx[t].s
        /\ r.own = tx[t].own /\ r.todo = tx[t].todo /\ r.won = tx[t].won
    BY <1>2 DEF Transaction, Steps
  <2> HIDE DEF r
  <2>3. Sound(t, r)
    BY <1>1, <1>3, <1>4, <2>2 DEF Sound, AffectedPick, Addressed, Known
  <2> QED
    BY <1>4, <2>1, <2>3, ProceedSound DEF AffectedPick, LocksKept, r
<1>5. CASE AffectedRefund(t)
  <2> DEFINE l == tx[t].l
  <2>1. PICK c \in tx[t].todo :
          /\ c.row.l = l
          /\ Proceed(t, [tx[t] EXCEPT
                        !.todo = @ \ {c}, !.delta[l] = @ + c.row.spent,
                        !.pc = IF c.row.spent > 0 /\ sessionLock[tx[t].s] # t
                               THEN "lock_session" ELSE "pick"])
    BY <1>5 DEF AffectedRefund
  <2>2. l \in Learners /\ tx[t].delta \in [Learners -> Int] /\ c.row.spent \in Nat
    BY <1>2, <2>1 DEF Transaction
  <2>3. UserFree(t, l) /\ userLock' = [userLock EXCEPT ![l] = t]
    BY <1>5 DEF AffectedRefund
  <2> HIDE DEF l
  <2> DEFINE r == [tx[t] EXCEPT
                        !.todo = @ \ {c}, !.delta[l] = @ + c.row.spent,
                        !.pc = IF c.row.spent > 0 /\ sessionLock[tx[t].s] # t
                               THEN "lock_session" ELSE "pick"]
  <2>4. /\ r.op = tx[t].op /\ r.s = tx[t].s /\ r.l = tx[t].l
        /\ r.own = tx[t].own /\ r.todo = tx[t].todo \ {c} /\ r.won = tx[t].won
        /\ r.delta = [tx[t].delta EXCEPT ![l] = tx[t].delta[l] + c.row.spent]
    BY DEF Transaction
  <2>5. tx[t].delta[l] + c.row.spent \in Int
    BY <2>2
  <2>6. r.delta \in [Learners -> Int]
    BY <2>2, <2>4, <2>5, Charge
  <2>7. r \in Transaction
    <3>1. tx[t].todo \ {c} \in SUBSET Copy
      BY DEF Transaction
    <3> QED
      BY <2>4, <2>6, <3>1 DEF Transaction, Steps
  <2> HIDE DEF r
  <2>8. LocksKept(t)
    BY <2>2, <2>3, NoneAssumption DEF LocksKept, UserFree
  <2>9. ASSUME NEW k \in Learners, r.delta[k] < 0
        PROVE  userLock'[k] = t /\ balance[k] + r.delta[k] >= 0
    <3>1. balance[k] \in Int /\ tx[t].delta[k] \in Int
      BY <2>2 DEF TypeOK
    <3>2. r.delta[k] >= tx[t].delta[k] /\ r.delta[k] \in Int
      BY <2>2, <2>4, <2>5, <2>6, <3>1, Charge
    <3> QED
      BY <1>3, <2>2, <2>3, <2>9, <3>1, <3>2
  <2>10. Sound(t, r)
    BY <1>1, <2>4, <2>7, <2>9 DEF Sound, Addressed, Known
  <2> QED
    BY <1>5, <2>1, <2>8, <2>10, ProceedSound DEF AffectedRefund, r
<1>6. CASE AffectedDone(t) \/ WriteSession(t)
  <2>1. PICK pc \in Steps : Proceed(t, [tx[t] EXCEPT !.pc = pc])
    BY <1>6 DEF AffectedDone, WriteSession, Steps
  <2>2. UNCHANGED <<now, tables, userLock>> /\ sessionLock' \in [Sessions -> Txns \cup {None}]
    BY <1>6 DEF AffectedDone, WriteSession
  <2> DEFINE r == [tx[t] EXCEPT !.pc = pc]
  <2>3. r \in Transaction /\ r.op = tx[t].op /\ r.delta = tx[t].delta /\ r.s = tx[t].s
        /\ r.own = tx[t].own /\ r.todo = tx[t].todo /\ r.won = tx[t].won
    BY DEF Transaction
  <2> HIDE DEF r
  <2>4. Sound(t, r)
    BY <1>1, <1>3, <2>2, <2>3 DEF Sound, Addressed, Known
  <2> QED
    BY <2>1, <2>2, <2>4, ProceedSound DEF LocksKept, r
<1> QED
  BY <1>4, <1>5, <1>6

\* The reads that begin an administrative request.
LEMMA LoadSound ==
  ASSUME IInv, NEW t \in Txns,
         \/ \E s \in Sessions : \/ CancelSessionLoad(t, s) \/ PublishLoad(t, s)
                                \/ CompleteLoad(t, s)
         \/ \E s \in Sessions, force \in BOOLEAN : DeleteLoad(t, s, force)
         \/ \E s \in Sessions, max \in Seats : CapacityLoad(t, s, max)
         \/ \E s \in Sessions, price \in Prices : PriceLoad(t, s, price)
         \/ \E s \in Sessions, start \in Starts : RescheduleLoad(t, s, start)
         \/ \E b \in BookingIds, status \in {"attended", "no_show"} : AttendanceLoad(t, b, status)
  PROVE  IInv'
<1> TypeOK
  BY DEF IInv
<1>1. ASSUME NEW s \in Sessions, CancelSessionLoad(t, s) PROVE IInv'
  <2> DEFINE copies == {CopyOf(b) : b \in LiveIn(s)}
             r == [Request("cancel_session", "pick", s) EXCEPT !.own = copies, !.todo = copies]
  <2>1. Proceed(t, r) /\ UNCHANGED <<now, tables, sessionLock, userLock>>
    BY <1>1 DEF CancelSessionLoad, Begin
  <2>2. /\ copies \in SUBSET Copy
        /\ \A c \in copies : /\ bookings[c.id].status # "none"
                             /\ bookings[c.id].s = c.row.s /\ bookings[c.id].l = c.row.l
    BY LiveCopies
  <2> HIDE DEF copies
  <2>3. Known(r)
    BY <2>2 DEF Known, Request, Idle
  <2>4. Reads(Request("cancel_session", "pick", s))
    BY <2>1, <2>2, <2>3, RequestTyped DEF Ops, Steps
  <2>5. Reads(r)
    BY <2>1, <2>2, <2>3, <2>4 DEF Reads, Transaction
  <2> HIDE DEF r
  <2> QED
    BY <2>1, <2>2, <2>3, <2>5, RequestSound
<1>2. ASSUME NEW s \in Sessions, NEW force \in BOOLEAN, DeleteLoad(t, s, force) PROVE IInv'
  <2> DEFINE blocked == LiveIn(s) # {} /\ sessions[s].start >= now
             live == {CopyOf(b) : b \in LiveIn(s)}
             affected == IF blocked THEN live ELSE {}
             r == [Request("delete", "pick", s) EXCEPT !.own = affected, !.todo = affected]
  <2>1. Proceed(t, r) /\ UNCHANGED <<now, tables, sessionLock, userLock>>
    BY <1>2 DEF DeleteLoad, Begin
  <2>2. /\ live \in SUBSET Copy
        /\ \A c \in live : /\ bookings[c.id].status # "none"
                           /\ bookings[c.id].s = c.row.s /\ bookings[c.id].l = c.row.l
    BY LiveCopies
  <2>3. /\ affected \in SUBSET Copy
        /\ \A c \in affected : /\ bookings[c.id].status # "none"
                               /\ bookings[c.id].s = c.row.s /\ bookings[c.id].l = c.row.l
    BY <2>2
  <2> HIDE DEF affected
  <2>4. Known(r)
    BY <2>3 DEF Known, Request, Idle
  <2>5. Reads(Request("delete", "pick", s))
    BY <2>1, <2>3, <2>4, RequestTyped DEF Ops, Steps
  <2>6. Reads(r)
    BY <2>1, <2>3, <2>4, <2>5 DEF Reads, Transaction
  <2> HIDE DEF r
  <2> QED
    BY <2>1, <2>3, <2>4, <2>6, RequestSound
<1>3. ASSUME NEW s \in Sessions, PublishLoad(t, s) \/ CompleteLoad(t, s) PROVE IInv'
  <2>1. \E op \in {"publish", "complete"} : Proceed(t, Request(op, "lock_session", s))
    BY <1>3 DEF PublishLoad, CompleteLoad, Begin
  <2>2. UNCHANGED <<now, tables, sessionLock, userLock>>
    BY <1>3 DEF PublishLoad, CompleteLoad
  <2> PICK op \in {"publish", "complete"} : Proceed(t, Request(op, "lock_session", s))
    BY <2>1
  <2> DEFINE r == Request(op, "lock_session", s)
  <2> Proceed(t, r)
    OBVIOUS
  <2>3. Known(r)
    BY DEF Known, Request, Idle
  <2>4. Reads(Request(op, "lock_session", s))
    BY <2>1, <2>2, <2>3, RequestTyped DEF Ops, Steps
  <2>5. Reads(r)
    BY <2>1, <2>2, <2>3, <2>4 DEF Reads, Transaction
  <2> HIDE DEF r
  <2> QED
    BY <2>1, <2>2, <2>3, <2>5, RequestSound
<1>4. ASSUME NEW s \in Sessions, NEW max \in Seats, CapacityLoad(t, s, max) PROVE IInv'
  <2> DEFINE r == [Request("capacity", "lock_session", s) EXCEPT !.arg = max]
  <2>1. Proceed(t, r) /\ UNCHANGED <<now, tables, sessionLock, userLock>> /\ max \in Nat
    BY <1>4, NumberAssumption DEF CapacityLoad, Begin
  <2>2. Known(r)
    BY DEF Known, Request, Idle
  <2>3. Reads(Request("capacity", "lock_session", s))
    BY <2>1, <2>2, RequestTyped DEF Ops, Steps
  <2>4. Reads(r)
    BY <2>1, <2>2, <2>3 DEF Reads, Transaction
  <2> HIDE DEF r
  <2> QED
    BY <2>1, <2>2, <2>4, RequestSound
<1>5. ASSUME NEW s \in Sessions, NEW price \in Prices, PriceLoad(t, s, price) PROVE IInv'
  <2> DEFINE r == [Request("price", "lock_session", s) EXCEPT !.arg = price]
  <2>1. Proceed(t, r) /\ UNCHANGED <<now, tables, sessionLock, userLock>> /\ price \in Nat
    BY <1>5, NumberAssumption DEF PriceLoad, Begin
  <2>2. Known(r)
    BY DEF Known, Request, Idle
  <2>3. Reads(Request("price", "lock_session", s))
    BY <2>1, <2>2, RequestTyped DEF Ops, Steps
  <2>4. Reads(r)
    BY <2>1, <2>2, <2>3 DEF Reads, Transaction
  <2> HIDE DEF r
  <2> QED
    BY <2>1, <2>2, <2>4, RequestSound
<1>6. ASSUME NEW s \in Sessions, NEW start \in Starts, RescheduleLoad(t, s, start) PROVE IInv'
  <2> DEFINE copies == {CopyOf(b) : b \in LiveIn(s)}
             r == [Request("reschedule", "lock_session", s) EXCEPT !.arg = start, !.own = copies]
  <2>1. Proceed(t, r) /\ UNCHANGED <<now, tables, sessionLock, userLock>> /\ start \in Nat
    BY <1>6, NumberAssumption DEF RescheduleLoad, Begin
  <2>2. /\ copies \in SUBSET Copy
        /\ \A c \in copies : /\ bookings[c.id].status # "none"
                             /\ bookings[c.id].s = c.row.s /\ bookings[c.id].l = c.row.l
    BY LiveCopies
  <2> HIDE DEF copies
  <2>3. Known(r)
    BY <2>2 DEF Known, Request, Idle
  <2>4. Reads(Request("reschedule", "lock_session", s))
    BY <2>1, <2>2, <2>3, RequestTyped DEF Ops, Steps
  <2>5. Reads(r)
    BY <2>1, <2>2, <2>3, <2>4 DEF Reads, Transaction
  <2> HIDE DEF r
  <2> QED
    BY <2>1, <2>2, <2>3, <2>5, RequestSound
<1>7. ASSUME NEW b \in BookingIds, NEW status \in {"attended", "no_show"},
             AttendanceLoad(t, b, status)
      PROVE  IInv'
  <2> DEFINE copies == {CopyOf(b)}
             r == [Request(status, "commit", bookings[b].s) EXCEPT !.own = copies]
  <2>1. Proceed(t, r) /\ UNCHANGED <<now, tables, sessionLock, userLock>>
    BY <1>7 DEF AttendanceLoad, Begin
  <2>2. bookings[b].status # "none"
    BY <1>7 DEF AttendanceLoad, Live, SEAT_HOLDING
  <2>3. /\ copies \in SUBSET Copy /\ bookings[b].s \in Sessions
        /\ \A c \in copies : /\ bookings[c.id].status # "none"
                             /\ bookings[c.id].s = c.row.s /\ bookings[c.id].l = c.row.l
    BY <2>2, CopyTyped, RowTyped DEF Row
  <2> HIDE DEF copies
  <2>4. Known(r)
    BY <2>3 DEF Known, Request, Idle
  <2>5. Reads(Request(status, "commit", bookings[b].s))
    BY <2>1, <2>3, <2>4, RequestTyped DEF Ops, Steps
  <2>6. Reads(r)
    BY <2>1, <2>3, <2>4, <2>5 DEF Reads, Transaction
  <2> HIDE DEF r
  <2> QED
    BY <2>1, <2>3, <2>4, <2>6, RequestSound
<1> QED
  BY <1>1, <1>2, <1>3, <1>4, <1>5, <1>6, <1>7

\* What a bulk refund granted for a booking.
LEMMA GrantedTyped ==
  ASSUME TypeOK, NEW t \in Txns, NEW b \in BookingIds
  PROVE  Granted(t, b) \in Nat
<1>1. \A c \in tx[t].own : c.row.spent \in Nat
  BY DEF TypeOK, Transaction, Copy, Row
<1> QED
  BY <1>1 DEF Granted

\* Writing one column of a session.
LEMMA UpdateSound ==
  ASSUME IInv, NEW t \in Txns, NEW op \in Ops \ {"none", "adjust"}, NEW row \in SessionRow,
         UpdateSession(t, op, row), RowsKept, bookings' \in [BookingIds -> BookingRow]
  PROVE  IInv'
<1>1. sessions' \in [Sessions -> SessionRow]
  BY DEF UpdateSession, IInv, TypeOK
<1> QED
  BY <1>1, CommitSound DEF UpdateSession, IInv, TypeOK

\* The writes that end an administrative request.
LEMMA AdminCommitSound ==
  ASSUME IInv, NEW t \in Txns,
         \/ CancelSessionCommit(t) \/ DeleteCommit(t) \/ CapacityCommit(t) \/ PriceCommit(t)
         \/ PublishCommit(t) \/ CompleteCommit(t) \/ RescheduleCommit(t) \/ AttendanceCommit(t)
         \/ AdjustCommit(t)
  PROVE  IInv'
<1> TypeOK /\ CopiesKnown
  BY DEF IInv
<1> tx[t] \in Transaction /\ Addressed(tx[t])
  BY DEF TypeOK
<1> DEFINE s == tx[t].s
<1>1. tx[t].op \notin {"none", "adjust"} => s \in Sessions /\ sessions[s] \in SessionRow
  BY DEF TypeOK, Addressed
<1>2. net \in [BookingIds -> Int] /\ bookings \in [BookingIds -> BookingRow] /\ now \in Nat
      /\ sessions \in [Sessions -> SessionRow]
  BY DEF TypeOK
<1>3. [b \in BookingIds |-> net[b] + Granted(t, b)] \in [BookingIds -> Int]
  <2>1. \A b \in BookingIds : net[b] + Granted(t, b) \in Int
    BY <1>2, GrantedTyped
  <2> QED
    BY <2>1
<1>4. \A status \in SessionStatus : s \in Sessions =>
        [sessions EXCEPT ![s].status = status] \in [Sessions -> SessionRow]
  BY <1>2 DEF SessionRow
<1>5. CASE CancelSessionCommit(t)
  <2>1. tx[t].op = "cancel_session" /\ sessions' \in [Sessions -> SessionRow] /\ now' = now
    BY <1>1, <1>4, <1>5 DEF CancelSessionCommit, SessionStatus
  <2>2. bookings' \in [BookingIds -> BookingRow] /\ RowsKept
    BY <1>5, <2>1, SeenTyped DEF CancelSessionCommit, RowsKept
  <2> QED
    BY <1>2, <1>3, <1>5, <2>1, <2>2, CommitSound DEF CancelSessionCommit
<1>6. CASE DeleteCommit(t)
  <2>1. tx[t].op = "delete" /\ sessions' \in [Sessions -> SessionRow] /\ now' = now
    BY <1>1, <1>4, <1>6 DEF DeleteCommit, SessionStatus
  <2>2. ASSUME NEW b \in BookingIds
        PROVE  /\ bookings'[b] \in BookingRow
               /\ bookings[b].status # "none" =>
                    /\ bookings'[b].status # "none"
                    /\ bookings'[b].s = bookings[b].s /\ bookings'[b].l = bookings[b].l
    <3>1. CASE bookings[b].s = s
      <4>1. bookings[b] \in Row
        BY <1>1, <1>2, <2>1, <3>1, NoneAssumption DEF BookingRow, NoBooking
      <4>2. bookings'[b] = [bookings[b] EXCEPT !.status = "deleted"]
        BY <1>6, <3>1 DEF DeleteCommit
      <4> QED
        BY <4>1, <4>2 DEF BookingRow, Row, BookingStatus
    <3>2. CASE bookings[b].s # s
      BY <1>2, <1>6, <3>2 DEF DeleteCommit
    <3> QED
      BY <3>1, <3>2
  <2>3. bookings' \in [BookingIds -> BookingRow] /\ RowsKept
    BY <1>6, <2>2 DEF DeleteCommit, RowsKept
  <2> QED
    BY <1>2, <1>3, <1>6, <2>1, <2>3, CommitSound DEF DeleteCommit
<1>7. CASE CapacityCommit(t) \/ PriceCommit(t) \/ PublishCommit(t) \/ CompleteCommit(t)
  <2>1. PICK op \in {"capacity", "price", "publish", "complete"} :
          /\ At(t, op, "lock_session") /\ UNCHANGED bookings
          /\ \/ UpdateSession(t, op, [sessions[s] EXCEPT !.max = tx[t].arg])
             \/ UpdateSession(t, op, [sessions[s] EXCEPT !.price = tx[t].arg])
             \/ UpdateSession(t, op, [sessions[s] EXCEPT !.status = "published"])
             \/ UpdateSession(t, op, [sessions[s] EXCEPT !.status = "completed"])
    BY <1>7 DEF CapacityCommit, PriceCommit, PublishCommit, CompleteCommit, UpdateSession
  <2>2. sessions[s] \in SessionRow /\ tx[t].arg \in Nat
    BY <1>1, <2>1 DEF At, Transaction
  <2>3. /\ [sessions[s] EXCEPT !.max = tx[t].arg] \in SessionRow
        /\ [sessions[s] EXCEPT !.price = tx[t].arg] \in SessionRow
        /\ [sessions[s] EXCEPT !.status = "published"] \in SessionRow
        /\ [sessions[s] EXCEPT !.status = "completed"] \in SessionRow
    BY <2>2 DEF SessionRow, SessionStatus
  <2>4. op \in Ops \ {"none", "adjust"} /\ RowsKept /\ bookings' \in [BookingIds -> BookingRow]
    BY <1>2, <2>1 DEF Ops, RowsKept
  <2> QED
    BY <2>1, <2>3, <2>4, UpdateSound
<1>8. CASE RescheduleCommit(t)
  <2>1. UpdateSession(t, "reschedule", [sessions[s] EXCEPT !.start = tx[t].arg])
    BY <1>8 DEF RescheduleCommit
  <2>2. s \in Sessions /\ tx[t].arg \in Nat
    BY <1>1, <2>1 DEF UpdateSession, At, Transaction
  <2>3. [sessions[s] EXCEPT !.start = tx[t].arg] \in SessionRow
    BY <1>2, <2>2 DEF SessionRow
  <2>4. ASSUME NEW b \in BookingIds
        PROVE  /\ bookings'[b] \in BookingRow
               /\ bookings[b].status # "none" =>
                    /\ bookings'[b].status # "none"
                    /\ bookings'[b].s = bookings[b].s /\ bookings'[b].l = bookings[b].l
    <3>1. CASE b \in Ids(tx[t].own)
      <4>1. bookings[b] \in Row
        BY <3>1, RowTyped DEF CopiesKnown, Known, Ids
      <4>2. bookings'[b] = [bookings[b] EXCEPT !.start = tx[t].arg]
        BY <1>8, <3>1 DEF RescheduleCommit
      <4> QED
        BY <2>2, <4>1, <4>2 DEF BookingRow, Row
    <3>2. CASE b \notin Ids(tx[t].own)
      BY <1>2, <1>8, <3>2 DEF RescheduleCommit
    <3> QED
      BY <3>1, <3>2
  <2>5. bookings' \in [BookingIds -> BookingRow] /\ RowsKept
    BY <1>8, <2>4 DEF RescheduleCommit, RowsKept
  <2>6. "reschedule" \in Ops \ {"none", "adjust"}
    BY DEF Ops
  <2> QED
    BY <2>1, <2>3, <2>5, <2>6, UpdateSound
<1>9. CASE AttendanceCommit(t)
  <2>1. PICK c \in tx[t].own : bookings' = [bookings EXCEPT ![c.id].status = tx[t].op]
    BY <1>9 DEF AttendanceCommit
  <2>2. c.id \in BookingIds /\ bookings[c.id] \in Row /\ tx[t].op \in BookingStatus
    BY <1>9, RowTyped DEF AttendanceCommit, CopiesKnown, Known, Transaction, Copy, BookingStatus
  <2>3. [bookings[c.id] EXCEPT !.status = tx[t].op] \in Row
    BY <2>2 DEF Row
  <2>4. bookings' \in [BookingIds -> BookingRow]
    BY <1>2, <2>1, <2>2, <2>3 DEF BookingRow
  <2>5. RowsKept
    BY <1>2, <1>9, <2>1, <2>2 DEF RowsKept, AttendanceCommit, Row
  <2> QED
    BY <1>2, <1>9, <2>4, <2>5, CommitSound DEF AttendanceCommit
<1>10. CASE AdjustCommit(t)
  BY <1>2, <1>10, CommitSound DEF AdjustCommit, RowsKept
<1> QED
  BY <1>5, <1>6, <1>7, <1>8, <1>9, <1>10

\* An adjustment takes the learner's lock before it reads the balance.
LEMMA AdjustLockSound ==
  ASSUME IInv, NEW t \in Txns, NEW l \in Learners, NEW amount \in Adjustments,
         AdjustLock(t, l, amount)
  PROVE  IInv'
<1> DEFINE r == [Idle EXCEPT !.op = "adjust", !.pc = "commit", !.l = l, !.delta[l] = amount]
<1>1. amount \in Int /\ balance[l] + amount >= 0
  BY AdminAssumption DEF AdjustLock, IInv, TypeOK
<1>2. Idle.delta \in [Learners -> Int] /\ \A k \in Learners : Idle.delta[k] = 0
  BY DEF Idle
<1>3. /\ r.op = "adjust" /\ r.pc = "commit" /\ r.s = Idle.s /\ r.l = l /\ r.own = Idle.own
      /\ r.todo = Idle.todo /\ r.won = Idle.won /\ r.delta = [Idle.delta EXCEPT ![l] = amount]
  BY IdleIsTyped DEF Transaction
<1>4. r.delta \in [Learners -> Int]
  BY <1>1, <1>2, <1>3, Charge
<1>5. r \in Transaction /\ Addressed(r)
  BY <1>3, <1>4, IdleIsTyped DEF Transaction, Addressed, Ops, Steps
<1>6. Known(r)
  BY <1>3 DEF Known, Idle
<1>7. Proceed(t, r) /\ userLock[l] = None /\ userLock' = [userLock EXCEPT ![l] = t]
  BY DEF AdjustLock, Begin
<1> HIDE DEF r
<1>8. userLock \in [Learners -> Txns \cup {None}] /\ sessionLock \in [Sessions -> Txns \cup {None}]
  BY DEF IInv, TypeOK
<1>9. Sound(t, r)
  BY <1>1, <1>2, <1>3, <1>5, <1>6, <1>7, <1>8, Charge DEF Sound
<1>10. LocksKept(t)
  BY <1>7, <1>8, NoneAssumption DEF LocksKept
<1> QED
  BY <1>7, <1>8, <1>9, <1>10, ProceedSound DEF AdjustLock

LEMMA AdminSound ==
  ASSUME IInv, NEW t \in Txns, Admin(t)
  PROVE  IInv'
  BY LoadSound, CancellingSound, AdminCommitSound, AdjustLockSound DEF Admin

(***************************************************************************)
(* Theorems                                                                *)
(***************************************************************************)
LEMMA InitSound == Init => IInv
<1> SUFFICES ASSUME Init PROVE IInv
  OBVIOUS
<1>1. TypeOK
  BY InitTyped
<1>2. \A t \in Txns : tx[t] = Idle
  BY DEF Init
<1>3. CopiesKnown
  BY <1>2 DEF CopiesKnown, Known, Idle
<1>4. Funded /\ LockedBeforeSpend
  BY <1>2 DEF Funded, LockedBeforeSpend, At, Idle
<1>5. BalanceNeverNegative
  <2>1. \A l \in Learners : balance[l] \in Nat
    BY NumberAssumption DEF Init
  <2> QED
    BY <2>1 DEF BalanceNeverNegative
<1> QED
  BY <1>1, <1>3, <1>4, <1>5 DEF IInv

LEMMA StepSound == IInv /\ [AdminNext]_vars => IInv'
<1> SUFFICES ASSUME IInv, [AdminNext]_vars PROVE IInv'
  OBVIOUS
<1>1. CASE UNCHANGED vars
  BY <1>1 DEF vars, tables, IInv, TypeOK, CopiesKnown, Known, Funded, LockedBeforeSpend,
              BalanceNeverNegative, BalanceSeenBy, At
<1>2. CASE Tick
  BY <1>2 DEF Tick, tables, IInv, TypeOK, CopiesKnown, Known, Funded, LockedBeforeSpend,
              BalanceNeverNegative, BalanceSeenBy, At
<1>3. ASSUME NEW t \in Txns, Book(t) \/ Cancel(t) \/ Rollback(t) \/ Admin(t) PROVE IInv'
  BY <1>3, BookSound, CancelSound, RollbackSound, AdminSound
<1> QED
  BY <1>1, <1>2, <1>3 DEF AdminNext, Next

\* The invariant of money and locks: types are kept, copies are of rows that
\* exist, whoever is about to spend holds the learner's lock and has the credits.
THEOREM FundingInvariant == AdminSpec => []IInv
<1> QED
  BY InitSound, StepSound, PTL DEF AdminSpec

\* Every variable keeps its type, whatever runs at once and however many
\* learners, sessions and requests there are.
THEOREM TypeCorrect == AdminSpec => []TypeOK
<1>1. IInv => TypeOK
  BY DEF IInv
<1> QED
  BY <1>1, InitSound, StepSound, PTL DEF AdminSpec

\* No learner's credit ledger ever sums to less than zero: the balance check
\* and the charge of book_group_session, promote_from_waitlist and the
\* superuser's adjustment hold the learner's lock until they commit.
THEOREM CreditsNeverNegative == AdminSpec => []BalanceNeverNegative
<1>1. IInv => BalanceNeverNegative
  BY DEF IInv
<1> QED
  BY <1>1, InitSound, StepSound, PTL DEF AdminSpec

(***************************************************************************)
(* What a step of transaction t does to what t is doing                    *)
(***************************************************************************)
TxnActs(t) == Book(t) \/ Cancel(t) \/ Rollback(t) \/ Admin(t)

\* A request begins: what it has read is what the table holds.
Opens(r) ==
  /\ r.op \in AdminOps \cup {"book", "cancel"} /\ r.won = {}
  /\ \A c \in r.own \cup r.todo : c.row = bookings[c.id] /\ c.row.s = r.s
  /\ r.op = "cancel" => r.pc = "lock_session" /\ \E c : r.own = {c}

\* It goes on with what it has; a cancellation may take the session's lock.
Carries(t, r) ==
  /\ r.op = tx[t].op /\ r.s = tx[t].s /\ r.own = tx[t].own /\ r.won = tx[t].won
  /\ r.todo \subseteq tx[t].todo
  /\ r.op = "cancel" =>
       /\ r.arg = tx[t].arg
       /\ \/ r.pc = tx[t].pc
          \/ tx[t].pc = "lock_session" /\ r.pc = "lock_user" /\ sessionLock'[r.s] = t

\* A cancellation reads the waitlist.
Queues(t, r) ==
  /\ At(t, "cancel", "lock_user") /\ r.op = "cancel" /\ r.pc = "promote"
  /\ r.s = tx[t].s /\ r.own = tx[t].own /\ r.won = tx[t].won
  /\ \E c \in tx[t].own : r.arg = Refund(tx[t].s, c.row)
  /\ r.todo = {CopyOf(b) : b \in Waitlist(SeenBy(t), tx[t].s)}

\* A cancellation promotes a candidate.
Raises(t, r) ==
  /\ At(t, "cancel", "promote") /\ r.op = "cancel" /\ r.pc = "promote"
  /\ r.s = tx[t].s /\ r.own = tx[t].own /\ r.arg = tx[t].arg
  /\ \E c \in tx[t].todo : r.todo = tx[t].todo \ {c} /\ r.won = tx[t].won \cup {c}

GoesOn(t, r) ==
  /\ UNCHANGED <<now, tables>>
  /\ \A s \in Sessions : sessionLock[s] = t => sessionLock'[s] = t
  /\ Opens(r) \/ Carries(t, r) \/ Queues(t, r) \/ Raises(t, r)

\* The others stay where they are and keep their locks.
OthersStay(t) ==
  /\ \A u \in Txns \ {t} : tx'[u] = tx[u]
  /\ \A s \in Sessions, u \in Txns \ {t} : sessionLock[s] = u => sessionLock'[s] = u

LEMMA EndStep ==
  ASSUME TypeOK, NEW t \in Txns, ReleaseLocks(t), Proceed(t, Idle)
  PROVE  OthersStay(t) /\ tx'[t] = Idle
  BY DEF ReleaseLocks, Proceed, TypeOK, OthersStay

LEMMA GoStep ==
  ASSUME TypeOK, NEW t \in Txns, NEW r, Proceed(t, r), UNCHANGED <<now, tables>>,
         sessionLock' = sessionLock
         \/ \E s \in Sessions : /\ sessionLock[s] = None
                                /\ sessionLock' = [sessionLock EXCEPT ![s] = t],
         Opens(r) \/ Carries(t, r) \/ Queues(t, r) \/ Raises(t, r)
  PROVE  OthersStay(t) /\ GoesOn(t, tx'[t])
<1>1. tx'[t] = r /\ \A u \in Txns \ {t} : tx'[u] = tx[u]
  BY DEF Proceed, TypeOK
<1>2. \A s \in Sessions, u \in Txns : sessionLock[s] = u => sessionLock'[s] = u
  BY NoneAssumption DEF TypeOK
<1> QED
  BY <1>1, <1>2 DEF OthersStay, GoesOn

LEMMA BookStep ==
  ASSUME TypeOK, NEW t \in Txns, Book(t)
  PROVE  OthersStay(t) /\ (tx'[t] = Idle \/ GoesOn(t, tx'[t]))
<1> tx[t] \in Transaction
  BY DEF TypeOK
<1>1. ASSUME NEW l \in Learners, NEW s \in Sessions, BookLockSession(t, l, s)
      PROVE  OthersStay(t) /\ GoesOn(t, tx'[t])
  <2> DEFINE r == [Idle EXCEPT !.op = "book", !.pc = "lock_user", !.s = s, !.l = l]
  <2>1. Opens(r)
    BY DEF Opens, Idle
  <2>2. Proceed(t, r) /\ UNCHANGED <<now, tables>> /\ sessionLock[s] = None
        /\ sessionLock' = [sessionLock EXCEPT ![s] = t]
    BY <1>1 DEF BookLockSession, SessionFree
  <2> HIDE DEF r
  <2> QED
    BY <2>1, <2>2, GoStep
<1>2. CASE BookLockUser(t)
  <2> DEFINE r == [tx[t] EXCEPT !.pc = "count"]
  <2>1. Carries(t, r)
    BY <1>2 DEF Carries, Transaction, BookLockUser, At
  <2>2. Proceed(t, r) /\ UNCHANGED <<now, tables, sessionLock>>
    BY <1>2 DEF BookLockUser
  <2> HIDE DEF r
  <2> QED
    BY <2>1, <2>2, GoStep
<1>3. CASE BookTakeSeat(t)
  <2> DEFINE r == [tx[t] EXCEPT !.pc = "commit",
                                !.delta[tx[t].l] = @ - sessions[tx[t].s].price]
  <2>1. Carries(t, r)
    BY <1>3 DEF Carries, Transaction, BookTakeSeat, At
  <2>2. Proceed(t, r) /\ UNCHANGED <<now, tables, sessionLock>>
    BY <1>3 DEF BookTakeSeat
  <2> HIDE DEF r
  <2> QED
    BY <2>1, <2>2, GoStep
<1>4. CASE BookCommit(t) \/ BookWaitlist(t)
  BY <1>4, EndStep DEF BookCommit, BookWaitlist, Commit
<1> QED
  BY <1>1, <1>2, <1>3, <1>4 DEF Book

LEMMA CancelStep ==
  ASSUME TypeOK, NEW t \in Txns, Cancel(t)
  PROVE  OthersStay(t) /\ (tx'[t] = Idle \/ GoesOn(t, tx'[t]))
<1> tx[t] \in Transaction
  BY DEF TypeOK
<1>1. ASSUME NEW b \in BookingIds, CancelLoad(t, b) PROVE OthersStay(t) /\ GoesOn(t, tx'[t])
  <2> DEFINE r == [Idle EXCEPT !.op = "cancel", !.pc = "lock_session", !.s = bookings[b].s,
                               !.l = bookings[b].l, !.own = {CopyOf(b)}]
  <2>1. Opens(r)
    <3>1. r.op = "cancel" /\ r.pc = "lock_session" /\ r.s = bookings[b].s
          /\ r.own = {CopyOf(b)} /\ r.todo = {} /\ r.won = {}
      BY DEF Idle
    <3>2. CopyOf(b).row = bookings[b] /\ CopyOf(b).id = b
      BY DEF CopyOf
    <3> HIDE DEF r
    <3> QED
      BY <3>1, <3>2 DEF Opens
  <2>2. Proceed(t, r) /\ UNCHANGED <<now, tables, sessionLock>>
    BY <1>1 DEF CancelLoad
  <2> HIDE DEF r
  <2> QED
    BY <2>1, <2>2, GoStep
<1>2. CASE CancelLockSession(t)
  <2> DEFINE r == [tx[t] EXCEPT !.pc = "lock_user"]
  <2>1. Proceed(t, r) /\ UNCHANGED <<now, tables>> /\ sessionLock[tx[t].s] = None
        /\ sessionLock' = [sessionLock EXCEPT ![tx[t].s] = t] /\ tx[t].s \in Sessions
        /\ At(t, "cancel", "lock_session")
    BY <1>2 DEF CancelLockSession, SessionFree, TypeOK, Addressed, At
  <2>2. sessionLock'[tx[t].s] = t
    BY <2>1 DEF TypeOK
  <2>3. Carries(t, r)
    BY <2>1, <2>2 DEF Carries, Transaction, At
  <2> HIDE DEF r
  <2> QED
    BY <2>1, <2>3, GoStep
<1>3. CASE CancelLockUser(t)
  <2> DEFINE s == tx[t].s
             free == sessions[s].max - SeatsTaken(SeenBy(t), s)
             left == IF sessions[s].status = "published" THEN free ELSE 0
             queue == {CopyOf(b) : b \in Waitlist(SeenBy(t), s)}
  <2>1. PICK c \in tx[t].own :
          Proceed(t, [tx[t] EXCEPT !.pc = "promote", !.arg = Refund(s, c.row),
                                   !.delta[tx[t].l] = @ + Refund(s, c.row),
                                   !.free = left, !.todo = queue])
    BY <1>3 DEF CancelLockUser
  <2> DEFINE r == [tx[t] EXCEPT !.pc = "promote", !.arg = Refund(s, c.row),
                                !.delta[tx[t].l] = @ + Refund(s, c.row),
                                !.free = left, !.todo = queue]
  <2>2. At(t, "cancel", "lock_user") /\ UNCHANGED <<now, tables, sessionLock>>
    BY <1>3 DEF CancelLockUser
  <2> HIDE DEF s, left, queue
  <2>3. r.op = tx[t].op /\ r.pc = "promote" /\ r.s = tx[t].s /\ r.own = tx[t].own
        /\ r.won = tx[t].won /\ r.arg = Refund(s, c.row) /\ r.todo = queue
    BY DEF Transaction
  <2> USE DEF s, queue
  <2> HIDE DEF r
  <2>4. Queues(t, r)
    BY <2>2, <2>3 DEF Queues, At
  <2> QED
    BY <2>1, <2>2, <2>4, GoStep DEF r
<1>4. CASE PromoteTake(t)
  <2>1. PICK c \in Candidates(t) :
          Proceed(t, [tx[t] EXCEPT !.todo = @ \ {c}, !.won = @ \cup {c}, !.free = @ - 1,
                                   !.delta[c.row.l] = @ - sessions[tx[t].s].price])
    BY <1>4 DEF PromoteTake
  <2> DEFINE r == [tx[t] EXCEPT !.todo = @ \ {c}, !.won = @ \cup {c}, !.free = @ - 1,
                                !.delta[c.row.l] = @ - sessions[tx[t].s].price]
  <2>2. At(t, "cancel", "promote") /\ c \in tx[t].todo /\ UNCHANGED <<now, tables, sessionLock>>
    BY <1>4, <2>1 DEF PromoteTake, Promoting, Candidates
  <2>3. r.op = tx[t].op /\ r.pc = tx[t].pc /\ r.s = tx[t].s /\ r.own = tx[t].own
        /\ r.won = tx[t].won \cup {c} /\ r.arg = tx[t].arg /\ r.todo = tx[t].todo \ {c}
    BY DEF Transaction
  <2> HIDE DEF r
  <2>4. Raises(t, r)
    BY <2>2, <2>3 DEF Raises, At
  <2> QED
    BY <2>1, <2>2, <2>4, GoStep DEF r
<1>5. CASE PromoteSkip(t) \/ PromoteDeadlock(t)
  <2>1. PICK c \in Candidates(t) : Proceed(t, [tx[t] EXCEPT !.todo = @ \ {c}])
    BY <1>5 DEF PromoteSkip, PromoteDeadlock
  <2> DEFINE r == [tx[t] EXCEPT !.todo = @ \ {c}]
  <2>2. UNCHANGED <<now, tables, sessionLock>>
    BY <1>5 DEF PromoteSkip, PromoteDeadlock
  <2>3. Carries(t, r)
    BY DEF Carries, Transaction
  <2> HIDE DEF r
  <2> QED
    BY <2>1, <2>2, <2>3, GoStep DEF r
<1>6. CASE CancelCommit(t)
  BY <1>6, EndStep DEF CancelCommit, Commit
<1> QED
  BY <1>1, <1>2, <1>3, <1>4, <1>5, <1>6 DEF Cancel

LEMMA CancellingStep ==
  ASSUME TypeOK, NEW t \in Txns,
         \/ AffectedPick(t) \/ AffectedRefund(t) \/ AffectedDone(t) \/ WriteSession(t)
  PROVE  OthersStay(t) /\ GoesOn(t, tx'[t])
<1>1. tx[t] \in Transaction /\ tx[t].op \in {"cancel_session", "delete"} /\ tx[t].s \in Sessions
  BY DEF AffectedPick, AffectedRefund, AffectedDone, WriteSession, Cancelling, TypeOK, Addressed
<1>2. CASE AffectedPick(t)
  <2>1. PICK c \in tx[t].todo : Proceed(t, [tx[t] EXCEPT !.l = c.row.l, !.pc = "lock_user"])
    BY <1>2 DEF AffectedPick
  <2> DEFINE r == [tx[t] EXCEPT !.l = c.row.l, !.pc = "lock_user"]
  <2>2. Carries(t, r)
    BY <1>1 DEF Carries, Transaction
  <2>3. UNCHANGED <<now, tables, sessionLock>>
    BY <1>2 DEF AffectedPick
  <2> HIDE DEF r
  <2> QED
    BY <2>1, <2>2, <2>3, GoStep DEF r
<1>3. CASE AffectedRefund(t)
  <2>1. PICK c \in tx[t].todo :
          Proceed(t, [tx[t] EXCEPT
                        !.todo = @ \ {c}, !.delta[tx[t].l] = @ + c.row.spent,
                        !.pc = IF c.row.spent > 0 /\ sessionLock[tx[t].s] # t
                               THEN "lock_session" ELSE "pick"])
    BY <1>3 DEF AffectedRefund
  <2> DEFINE r == [tx[t] EXCEPT
                        !.todo = @ \ {c}, !.delta[tx[t].l] = @ + c.row.spent,
                        !.pc = IF c.row.spent > 0 /\ sessionLock[tx[t].s] # t
                               THEN "lock_session" ELSE "pick"]
  <2>2. Carries(t, r)
    BY <1>1 DEF Carries, Transaction
  <2>3. UNCHANGED <<now, tables, sessionLock>>
    BY <1>3 DEF AffectedRefund
  <2> HIDE DEF r
  <2> QED
    BY <2>1, <2>2, <2>3, GoStep DEF r
<1>4. CASE AffectedDone(t)
  <2> DEFINE r == [tx[t] EXCEPT !.pc = "lock_session"]
  <2>1. Carries(t, r)
    BY <1>1 DEF Carries, Transaction
  <2>2. Proceed(t, r) /\ UNCHANGED <<now, tables, sessionLock>>
    BY <1>4 DEF AffectedDone
  <2> HIDE DEF r
  <2> QED
    BY <2>1, <2>2, GoStep
<1>5. CASE WriteSession(t)
  <2> DEFINE r == [tx[t] EXCEPT !.pc = "pick"]
  <2>1. Carries(t, r)
    BY <1>1 DEF Carries, Transaction
  <2>2. Proceed(t, r) /\ UNCHANGED <<now, tables>> /\ sessionLock[tx[t].s] = None
        /\ sessionLock' = [sessionLock EXCEPT ![tx[t].s] = t]
    BY <1>5 DEF WriteSession, SessionFree
  <2> HIDE DEF r
  <2> QED
    BY <1>1, <2>1, <2>2, GoStep
<1> QED
  BY <1>2, <1>3, <1>4, <1>5

LEMMA CopiesAreFresh ==
  ASSUME NEW s, NEW c \in {CopyOf(b) : b \in LiveIn(s)}
  PROVE  c.row = bookings[c.id] /\ c.row.s = s
  BY DEF CopyOf, LiveIn

LEMMA LoadStep ==
  ASSUME TypeOK, NEW t \in Txns,
         \/ \E s \in Sessions : \/ CancelSessionLoad(t, s) \/ PublishLoad(t, s)
                                \/ CompleteLoad(t, s)
         \/ \E s \in Sessions, force \in BOOLEAN : DeleteLoad(t, s, force)
         \/ \E s \in Sessions, max \in Seats : CapacityLoad(t, s, max)
         \/ \E s \in Sessions, price \in Prices : PriceLoad(t, s, price)
         \/ \E s \in Sessions, start \in Starts : RescheduleLoad(t, s, start)
         \/ \E b \in BookingIds, status \in {"attended", "no_show"} : AttendanceLoad(t, b, status)
         \/ \E l \in Learners, amount \in Adjustments : AdjustLock(t, l, amount)
  PROVE  OthersStay(t) /\ GoesOn(t, tx'[t])
<1> SUFFICES \E r : Proceed(t, r) /\ Opens(r) /\ UNCHANGED <<now, tables, sessionLock>>
  BY GoStep
<1> USE DEF Begin
<1>1. ASSUME NEW s \in Sessions, CancelSessionLoad(t, s)
      PROVE  \E r : Proceed(t, r) /\ Opens(r) /\ UNCHANGED <<now, tables, sessionLock>>
  <2> DEFINE copies == {CopyOf(b) : b \in LiveIn(s)}
             r == [Request("cancel_session", "pick", s) EXCEPT !.own = copies, !.todo = copies]
  <2>1. Proceed(t, r) /\ "cancel_session" \in AdminOps
        /\ UNCHANGED <<now, tables, sessionLock>>
    BY <1>1 DEF CancelSessionLoad
  <2>2. \A c \in copies : c.row = bookings[c.id] /\ c.row.s = s
    BY CopiesAreFresh
  <2> HIDE DEF copies
  <2>3. Opens(r)
    BY <2>1, <2>2 DEF Opens, Request, Idle
  <2> QED
    BY <2>1, <2>3
<1>2. ASSUME NEW s \in Sessions, PublishLoad(t, s) \/ CompleteLoad(t, s)
      PROVE  \E r : Proceed(t, r) /\ Opens(r) /\ UNCHANGED <<now, tables, sessionLock>>
  <2>1. PICK op \in {"publish", "complete"} :
          Proceed(t, Request(op, "lock_session", s)) /\ op \in AdminOps
    BY <1>2 DEF PublishLoad, CompleteLoad
  <2>2. Opens(Request(op, "lock_session", s))
    BY <2>1 DEF Opens, Request, Idle
  <2> QED
    BY <1>2, <2>1, <2>2 DEF PublishLoad, CompleteLoad
<1>3. ASSUME NEW s \in Sessions, NEW force \in BOOLEAN, DeleteLoad(t, s, force)
      PROVE  \E r : Proceed(t, r) /\ Opens(r) /\ UNCHANGED <<now, tables, sessionLock>>
  <2> DEFINE copies == IF LiveIn(s) # {} /\ sessions[s].start >= now
                       THEN {CopyOf(b) : b \in LiveIn(s)} ELSE {}
             r == [Request("delete", "pick", s) EXCEPT !.own = copies, !.todo = copies]
  <2>1. Proceed(t, r) /\ "delete" \in AdminOps /\ UNCHANGED <<now, tables, sessionLock>>
    BY <1>3 DEF DeleteLoad
  <2>2. \A c \in copies : c.row = bookings[c.id] /\ c.row.s = s
    BY CopiesAreFresh
  <2> HIDE DEF copies
  <2>3. Opens(r)
    BY <2>1, <2>2 DEF Opens, Request, Idle
  <2> QED
    BY <2>1, <2>3
<1>4. ASSUME NEW s \in Sessions, NEW n,
             \/ n \in Seats /\ CapacityLoad(t, s, n)
             \/ n \in Prices /\ PriceLoad(t, s, n)
      PROVE  \E r : Proceed(t, r) /\ Opens(r) /\ UNCHANGED <<now, tables, sessionLock>>
  <2>1. PICK op \in {"capacity", "price"} :
          Proceed(t, [Request(op, "lock_session", s) EXCEPT !.arg = n]) /\ op \in AdminOps
    BY <1>4 DEF CapacityLoad, PriceLoad
  <2>2. Opens([Request(op, "lock_session", s) EXCEPT !.arg = n])
    BY <2>1 DEF Opens, Request, Idle
  <2> QED
    BY <1>4, <2>1, <2>2 DEF CapacityLoad, PriceLoad
<1>5. ASSUME NEW s \in Sessions, NEW start \in Starts, RescheduleLoad(t, s, start)
      PROVE  \E r : Proceed(t, r) /\ Opens(r) /\ UNCHANGED <<now, tables, sessionLock>>
  <2> DEFINE copies == {CopyOf(b) : b \in LiveIn(s)}
             r == [Request("reschedule", "lock_session", s) EXCEPT !.arg = start, !.own = copies]
  <2>1. Proceed(t, r) /\ "reschedule" \in AdminOps /\ UNCHANGED <<now, tables, sessionLock>>
    BY <1>5 DEF RescheduleLoad
  <2>2. \A c \in copies : c.row = bookings[c.id] /\ c.row.s = s
    BY CopiesAreFresh
  <2> HIDE DEF copies
  <2>3. Opens(r)
    BY <2>1, <2>2 DEF Opens, Request, Idle
  <2> QED
    BY <2>1, <2>3
<1>6. ASSUME NEW b \in BookingIds, NEW status \in {"attended", "no_show"},
             AttendanceLoad(t, b, status)
      PROVE  \E r : Proceed(t, r) /\ Opens(r) /\ UNCHANGED <<now, tables, sessionLock>>
  <2> DEFINE copies == {CopyOf(b)}
             r == [Request(status, "commit", bookings[b].s) EXCEPT !.own = copies]
  <2>1. Proceed(t, r) /\ status \in AdminOps /\ UNCHANGED <<now, tables, sessionLock>>
    BY <1>6 DEF AttendanceLoad
  <2>2. \A c \in copies : c.row = bookings[c.id] /\ c.row.s = bookings[b].s
    BY DEF CopyOf
  <2> HIDE DEF copies
  <2>3. Opens(r)
    BY <2>1, <2>2 DEF Opens, Request, Idle
  <2> QED
    BY <2>1, <2>3
<1>7. ASSUME NEW l \in Learners, NEW amount \in Adjustments, AdjustLock(t, l, amount)
      PROVE  \E r : Proceed(t, r) /\ Opens(r) /\ UNCHANGED <<now, tables, sessionLock>>
  <2> DEFINE r == [Idle EXCEPT !.op = "adjust", !.pc = "commit", !.l = l, !.delta[l] = amount]
  <2>1. Proceed(t, r) /\ "adjust" \in AdminOps /\ UNCHANGED <<now, tables, sessionLock>>
    BY <1>7 DEF AdjustLock
  <2>2. Opens(r)
    BY <2>1 DEF Opens, Idle
  <2> HIDE DEF r
  <2> QED
    BY <2>1, <2>2
<1> QED
  BY <1>1, <1>2, <1>3, <1>4, <1>5, <1>6, <1>7

\* Every step of a transaction ends it, or reads and locks and goes on.
LEMMA TxnStep ==
  ASSUME TypeOK, NEW t \in Txns, TxnActs(t)
  PROVE  OthersStay(t) /\ (tx'[t] = Idle \/ GoesOn(t, tx'[t]))
<1>1. CASE Rollback(t)
  BY <1>1, EndStep DEF Rollback
<1>2. CASE Admin(t)
  <2>1. CASE \/ CancelSessionCommit(t) \/ DeleteCommit(t) \/ CapacityCommit(t) \/ PriceCommit(t)
             \/ PublishCommit(t) \/ CompleteCommit(t) \/ RescheduleCommit(t)
             \/ AttendanceCommit(t) \/ AdjustCommit(t)
    <3>1. Commit(t)
      BY <2>1 DEF CancelSessionCommit, DeleteCommit, CapacityCommit, PriceCommit, PublishCommit,
                  CompleteCommit, RescheduleCommit, AttendanceCommit, AdjustCommit, UpdateSession
    <3> QED
      BY <3>1, EndStep DEF Commit
  <2> QED
    BY <1>2, <2>1, LoadStep, CancellingStep DEF Admin
<1> QED
  BY <1>1, <1>2, BookStep, CancelStep DEF TxnActs

(***************************************************************************)
(* What a step of transaction t does to the row of booking b               *)
(***************************************************************************)
Untouched(b) == bookings'[b] = bookings[b] /\ net'[b] = net[b]

\* book_group_session takes a free id: for a seat that is paid for, or for a
\* place in the queue after everybody waiting.
Created(b) ==
  /\ bookings[b].status = "none"
  /\ \/ bookings'[b].status = "confirmed" /\ net'[b] = - bookings'[b].spent
     \/ /\ bookings'[b].status = "waitlisted" /\ bookings'[b].spent = 0 /\ net'[b] = net[b]
        /\ bookings'[b].pos \in Nat
        /\ \A x \in Waitlist(bookings, bookings'[b].s) : bookings[x].pos < bookings'[b].pos

\* By the cancellation of the booking or of its session.
Released(b) ==
  bookings'[b] = Cancelled(bookings[b]) /\ net'[b] - net[b] \in {0, bookings[b].spent}

\* With its session.
Removed(b) == bookings'[b] = [bookings[b] EXCEPT !.status = "deleted"]

\* From the waitlist of the session t has locked.
Raised(t, b) ==
  /\ At(t, "cancel", "promote") /\ b \in Ids(tx[t].won) /\ bookings[b].spent = 0
  /\ bookings'[b] = Promoted(bookings[b], sessions[tx[t].s].price)
  /\ net'[b] = net[b] - sessions[tx[t].s].price

\* To the session's new hour.
Moved(t, b) ==
  bookings'[b] = [bookings[b] EXCEPT !.start = tx[t].arg] /\ net'[b] = net[b]

\* By record_attendance.
Marked(t, b) ==
  /\ tx[t].op \in {"attended", "no_show"}
  /\ bookings'[b] = [bookings[b] EXCEPT !.status = tx[t].op] /\ net'[b] = net[b]

\* What may become of a row that exists.
RowChange(t, b) ==
  \/ Untouched(b)
  \/ /\ bookings[b] \in Row
     /\ \/ /\ sessionLock[bookings[b].s] = t
           /\ Released(b) \/ Removed(b) \/ Raised(t, b)
        \/ Moved(t, b) \/ Marked(t, b)

RowStep(t, b) == RowChange(t, b) \/ Created(b)

\* A booking a transaction has a copy of is a booking of its session.
LEMMA OwnRow ==
  ASSUME IInv, NEW t \in Txns, CopiesHonest(t),
         NEW c \in tx[t].own \cup tx[t].todo \cup tx[t].won
  PROVE  c \in Copy /\ c.id \in BookingIds /\ bookings[c.id] \in Row /\ bookings[c.id].s = tx[t].s
<1>1. c \in Copy /\ c.id \in BookingIds
  BY DEF IInv, TypeOK, Transaction, Copy
<1>2. bookings[c.id].status # "none" /\ bookings[c.id].s = c.row.s
  BY DEF IInv, CopiesKnown, Known
<1> QED
  BY <1>1, <1>2, RowTyped DEF IInv, CopiesHonest

\* What a bulk refund grants for a booking is what the row says was spent, or
\* nothing.
LEMMA GrantedHonest ==
  ASSUME IInv, NEW t \in Txns, CopiesHonest(t), NEW b \in BookingIds
  PROVE  /\ b \in Ids(tx[t].own) => Granted(t, b) \in {0, bookings[b].spent}
         /\ b \notin Ids(tx[t].own) => Granted(t, b) = 0
<1>1. CASE b \in Ids(tx[t].own)
  <2>1. \E c \in tx[t].own : c.id = b
    BY <1>1 DEF Ids
  <2> DEFINE c == CHOOSE c \in tx[t].own : c.id = b
  <2>2. c \in tx[t].own /\ c.id = b
    BY <2>1
  <2>3. Granted(t, b) = c.row.spent
    BY <2>1 DEF Granted
  <2> HIDE DEF c
  <2> QED
    BY <1>1, <2>2, <2>3 DEF CopiesHonest
<1>2. CASE b \notin Ids(tx[t].own)
  BY <1>2 DEF Granted, Ids
<1> QED
  BY <1>1, <1>2

LEMMA BookRows ==
  ASSUME IInv, NEW t \in Txns, Book(t), NEW b \in BookingIds
  PROVE  RowStep(t, b)
<1> TypeOK /\ tx[t] \in Transaction /\ Addressed(tx[t])
  BY DEF IInv, TypeOK
<1>1. CASE BookCommit(t)
  <2>1. PICK x \in BookingIds :
          /\ bookings[x].status = "none"
          /\ bookings' = [bookings EXCEPT ![x] =
                             NewBooking(t, "confirmed", sessions[tx[t].s].price, 0)]
          /\ net' = [net EXCEPT ![x] = - sessions[tx[t].s].price]
    BY <1>1 DEF BookCommit
  <2>2. CASE b = x
    BY <2>1, <2>2 DEF TypeOK, NewBooking, RowStep, Created
  <2>3. CASE b # x
    BY <2>1, <2>3 DEF TypeOK, RowStep, RowChange, Untouched
  <2> QED
    BY <2>2, <2>3
<1>2. CASE BookWaitlist(t)
  <2>1. PICK x \in BookingIds, p \in NextPositions(tx[t].s) :
          /\ bookings[x].status = "none"
          /\ bookings' = [bookings EXCEPT ![x] = NewBooking(t, "waitlisted", 0, p)]
    BY <1>2 DEF BookWaitlist
  <2>2. p \in Nat /\ \A y \in Waitlist(bookings, tx[t].s) : bookings[y].pos < p
    BY <2>1 DEF NextPositions, Waitlist, TypeOK, BookingRow, Row, NoBooking
  <2>3. CASE b = x
    BY <1>2, <2>1, <2>2, <2>3 DEF TypeOK, NewBooking, RowStep, Created, BookWaitlist
  <2>4. CASE b # x
    BY <1>2, <2>1, <2>4 DEF TypeOK, RowStep, RowChange, Untouched, BookWaitlist
  <2> QED
    BY <2>3, <2>4
<1>3. CASE UNCHANGED tables
  BY <1>3 DEF tables, RowStep, RowChange, Untouched
<1> QED
  BY <1>1, <1>2, <1>3 DEF Book, BookLockSession, BookLockUser, BookTakeSeat

LEMMA CancelRows ==
  ASSUME IInv, NEW t \in Txns, CopiesHonest(t), PromotesOthers(t), Cancel(t), NEW b \in BookingIds
  PROVE  RowChange(t, b)
<1> TypeOK /\ CopiesKnown /\ tx[t] \in Transaction /\ Addressed(tx[t])
  BY DEF IInv, TypeOK
<1>1. CASE CancelCommit(t)
  <2> DEFINE price == sessions[tx[t].s].price
  <2>1. /\ At(t, "cancel", "promote") /\ sessionLock[tx[t].s] = t
        /\ bookings' = SeenBy(t)
        /\ net'[b] = net[b] + (IF b \in Ids(tx[t].own) THEN tx[t].arg ELSE 0)
                            - (IF b \in Ids(tx[t].won) THEN price ELSE 0)
    BY <1>1 DEF CancelCommit, PromotesOthers, At
  <2>2. price \in Nat /\ net[b] \in Int /\ tx[t].arg \in Nat
    BY <2>1 DEF At, Addressed, TypeOK, SessionRow, Transaction
  <2>3. CASE b \in Ids(tx[t].own)
    <3>1. PICK c \in tx[t].own : c.id = b
      BY <2>3 DEF Ids
    <3>2. bookings[b] \in Row /\ bookings[b].s = tx[t].s
      BY <3>1, OwnRow
    <3>3. tx[t].arg \in {0, bookings[b].spent}
      BY <2>1, <3>1 DEF PromotesOthers, CopiesHonest
    <3>4. b \notin Ids(tx[t].won)
      BY <2>1, <2>3 DEF PromotesOthers, Ids
    <3>5. bookings'[b] = Cancelled(bookings[b])
      BY <2>1, <2>3 DEF SeenBy
    <3>6. net'[b] - net[b] = tx[t].arg
      BY <2>1, <2>2, <2>3, <3>4
    <3> QED
      BY <2>1, <3>2, <3>3, <3>5, <3>6 DEF RowChange, Released
  <2>4. CASE b \notin Ids(tx[t].own) /\ b \in Ids(tx[t].won)
    <3>1. PICK c \in tx[t].won : c.id = b
      BY <2>4 DEF Ids
    <3>2. bookings[b] \in Row /\ bookings[b].s = tx[t].s
      BY <3>1, OwnRow
    <3>3. bookings[b].spent = 0
      BY <2>1, <3>1 DEF PromotesOthers
    <3>4. bookings'[b] = Promoted(bookings[b], price)
      BY <2>1, <2>4 DEF SeenBy
    <3>5. net'[b] = net[b] - price
      BY <2>1, <2>2, <2>4
    <3> QED
      BY <2>1, <2>4, <3>2, <3>3, <3>4, <3>5 DEF RowChange, Raised
  <2>5. CASE b \notin Ids(tx[t].own) /\ b \notin Ids(tx[t].won)
    <3>1. bookings'[b] = bookings[b]
      BY <2>1, <2>5 DEF SeenBy
    <3>2. net'[b] = net[b]
      BY <2>1, <2>2, <2>5
    <3> QED
      BY <3>1, <3>2 DEF RowChange, Untouched
  <2> QED
    BY <2>3, <2>4, <2>5
<1>2. CASE UNCHANGED tables
  BY <1>2 DEF tables, RowChange, Untouched
<1> QED
  BY <1>1, <1>2 DEF Cancel, CancelLoad, CancelLockSession, CancelLockUser, PromoteTake,
                    PromoteSkip, PromoteDeadlock

LEMMA AdminRows ==
  ASSUME IInv, NEW t \in Txns, CopiesHonest(t), PromotesOthers(t), Admin(t), NEW b \in BookingIds
  PROVE  RowChange(t, b)
<1> TypeOK /\ CopiesKnown /\ tx[t] \in Transaction /\ Addressed(tx[t])
  BY DEF IInv, TypeOK
<1>1. net[b] \in Int /\ Granted(t, b) \in Nat
  BY GrantedTyped DEF TypeOK
<1>2. CASE CancelSessionCommit(t)
  <2>1. /\ tx[t].won = {} /\ sessionLock[tx[t].s] = t /\ bookings' = SeenBy(t)
        /\ net'[b] = net[b] + Granted(t, b)
    BY <1>2 DEF CancelSessionCommit, Written, PromotesOthers, At
  <2>2. CASE b \in Ids(tx[t].own)
    <3>1. PICK c \in tx[t].own : c.id = b
      BY <2>2 DEF Ids
    <3>2. bookings[b] \in Row /\ bookings[b].s = tx[t].s
      BY <3>1, OwnRow
    <3>3. net'[b] - net[b] = Granted(t, b)
      BY <1>1, <2>1
    <3>4. bookings'[b] = Cancelled(bookings[b])
      BY <2>1, <2>2 DEF SeenBy
    <3> QED
      BY <2>1, <2>2, <3>2, <3>3, <3>4, GrantedHonest DEF RowChange, Released
  <2>3. CASE b \notin Ids(tx[t].own)
    <3>1. bookings'[b] = bookings[b]
      BY <2>1, <2>3 DEF SeenBy, Ids
    <3>2. net'[b] = net[b]
      BY <1>1, <2>1, <2>3, GrantedHonest
    <3> QED
      BY <3>1, <3>2 DEF RowChange, Untouched
  <2> QED
    BY <2>2, <2>3
<1>3. CASE DeleteCommit(t)
  <2>1. /\ sessionLock[tx[t].s] = t /\ tx[t].s \in Sessions /\ net'[b] = net[b] + Granted(t, b)
        /\ bookings'[b] = IF bookings[b].s = tx[t].s
                          THEN [bookings[b] EXCEPT !.status = "deleted"] ELSE bookings[b]
    BY <1>3 DEF DeleteCommit, Written, Addressed
  <2>2. CASE bookings[b].s = tx[t].s
    <3>1. bookings[b] \in Row
      BY <2>1, <2>2, NoneAssumption DEF TypeOK, BookingRow, NoBooking
    <3> QED
      BY <2>1, <2>2, <3>1 DEF RowChange, Removed
  <2>3. CASE bookings[b].s # tx[t].s
    <3>1. b \notin Ids(tx[t].own)
      BY <2>3, OwnRow DEF Ids
    <3> QED
      BY <1>1, <2>1, <2>3, <3>1, GrantedHonest DEF RowChange, Untouched
  <2> QED
    BY <2>2, <2>3
<1>4. CASE RescheduleCommit(t)
  <2>1. net' = net
    BY <1>4 DEF RescheduleCommit, UpdateSession
  <2>2. CASE b \in Ids(tx[t].own)
    <3>1. bookings[b] \in Row
      BY <2>2, OwnRow DEF Ids
    <3>2. bookings'[b] = [bookings[b] EXCEPT !.start = tx[t].arg]
      BY <1>4, <2>2 DEF RescheduleCommit
    <3> QED
      BY <2>1, <3>1, <3>2 DEF RowChange, Moved
  <2>3. CASE b \notin Ids(tx[t].own)
    BY <1>4, <2>1, <2>3 DEF RescheduleCommit, RowChange, Untouched
  <2> QED
    BY <2>2, <2>3
<1>5. CASE AttendanceCommit(t)
  <2>1. PICK c \in tx[t].own : bookings' = [bookings EXCEPT ![c.id].status = tx[t].op]
    BY <1>5 DEF AttendanceCommit
  <2>2. tx[t].op \in {"attended", "no_show"} /\ net' = net
    BY <1>5 DEF AttendanceCommit
  <2>3. CASE b = c.id
    <3>1. bookings[b] \in Row
      BY <2>3, OwnRow
    <3>2. bookings'[b] = [bookings[b] EXCEPT !.status = tx[t].op]
      BY <2>1, <2>3 DEF TypeOK
    <3> QED
      BY <2>2, <3>1, <3>2 DEF RowChange, Marked
  <2>4. CASE b # c.id
    BY <2>1, <2>2, <2>4 DEF RowChange, Untouched
  <2> QED
    BY <2>3, <2>4
<1>6. CASE UNCHANGED <<bookings, net>>
  BY <1>6 DEF RowChange, Untouched
<1>7. CASE CapacityCommit(t) \/ PriceCommit(t) \/ PublishCommit(t) \/ CompleteCommit(t)
           \/ AdjustCommit(t)
  BY <1>6, <1>7 DEF CapacityCommit, PriceCommit, PublishCommit, CompleteCommit, AdjustCommit,
                    UpdateSession
<1>8. CASE UNCHANGED tables
  BY <1>6, <1>8 DEF tables
<1> QED
  BY <1>2, <1>3, <1>4, <1>5, <1>7, <1>8
     DEF Admin, CancelSessionLoad, AffectedPick, AffectedRefund, AffectedDone, WriteSession,
         DeleteLoad, CapacityLoad, PriceLoad, PublishLoad, CompleteLoad, RescheduleLoad,
         AttendanceLoad, AdjustLock

\* Every step of a transaction, row by row.
LEMMA RowsStep ==
  ASSUME IInv, ClaimInv, NEW t \in Txns, TxnActs(t),
         NEW b \in BookingIds
  PROVE  RowStep(t, b)
<1>1. CopiesHonest(t) /\ PromotesOthers(t)
  BY DEF ClaimInv
<1>2. CASE Rollback(t)
  BY <1>2 DEF Rollback, tables, RowStep, RowChange, Untouched
<1> QED
  BY <1>1, <1>2, BookRows, CancelRows, AdminRows DEF RowStep, TxnActs

\* Only one booking is created at a time.
LEMMA OneCreated ==
  ASSUME IInv, ClaimInv, NEW t \in Txns, TxnActs(t),
         NEW b1 \in BookingIds, NEW b2 \in BookingIds, Created(b1), Created(b2)
  PROVE  b1 = b2
<1>1. CASE BookCommit(t) \/ BookWaitlist(t)
  <2>1. PICK x \in BookingIds : \A b \in BookingIds \ {x} : bookings'[b] = bookings[b]
    BY <1>1 DEF BookCommit, BookWaitlist, IInv, TypeOK
  <2> QED
    BY <2>1 DEF Created
<1>2. CASE UNCHANGED tables
  BY <1>2 DEF tables, Created
<1>3. CASE Cancel(t) \/ Admin(t)
  <2>1. RowChange(t, b1)
    BY <1>3, CancelRows, AdminRows DEF ClaimInv
  <2> QED
    BY <2>1 DEF RowChange, Untouched, Created, Row, BookingStatus
<1> QED
  BY <1>1, <1>2, <1>3 DEF TxnActs, Book, BookLockSession, BookLockUser, BookTakeSeat,
                            Rollback

(***************************************************************************)
(* Claims                                                                  *)
(***************************************************************************)
\* Whoever waits after a step was waiting there before it, or has just joined.
LEMMA WaitsOn ==
  ASSUME IInv, NEW t \in Txns, NEW s, NEW b \in Waitlist(bookings', s), RowStep(t, b)
  PROVE  \/ b \in Waitlist(bookings, s) /\ bookings'[b].pos = bookings[b].pos
         \/ Created(b)
<1>1. b \in BookingIds /\ bookings'[b].status = "waitlisted" /\ bookings'[b].s = s
  BY DEF Waitlist
<1> QED
  BY <1>1 DEF RowStep, RowChange, Untouched, Released, Removed, Raised, Moved, Marked,
              Cancelled, Promoted, Row, Waitlist

LEMMA OrderKept ==
  ASSUME IInv, ClaimInv, NEW t \in Txns, TxnActs(t)
  PROVE  WaitlistIsOrdered'
<1> SUFFICES ASSUME NEW s \in Sessions, NEW b1 \in Waitlist(bookings', s),
                    NEW b2 \in Waitlist(bookings', s), bookings'[b1].pos = bookings'[b2].pos
             PROVE  b1 = b2
  BY DEF WaitlistIsOrdered, Waitlist
<1>1. b1 \in BookingIds /\ b2 \in BookingIds /\ bookings'[b1].s = s /\ bookings'[b2].s = s
      /\ bookings'[b1].status = "waitlisted" /\ bookings'[b2].status = "waitlisted"
  BY DEF Waitlist
<1>2. \A b \in Waitlist(bookings', s) :
        (b \in Waitlist(bookings, s) /\ bookings'[b].pos = bookings[b].pos) \/ Created(b)
  BY WaitsOn, RowsStep DEF Waitlist
<1>3. ASSUME NEW x \in Waitlist(bookings', s), NEW y \in Waitlist(bookings, s),
             Created(x), bookings'[y].pos = bookings[y].pos
      PROVE  bookings'[y].pos < bookings'[x].pos /\ bookings'[x].pos \in Nat
             /\ bookings'[y].pos \in Nat
  <2>1. bookings'[x].s = s /\ bookings'[x].status = "waitlisted" /\ bookings[y].pos \in Nat
    BY DEF Waitlist, IInv, TypeOK, BookingRow, Row, NoBooking
  <2> QED
    BY <1>3, <2>1 DEF Created
<1>4. CASE Created(b1) /\ Created(b2)
  BY <1>1, <1>4, OneCreated
<1>5. CASE Created(b1) /\ b2 \in Waitlist(bookings, s) /\ bookings'[b2].pos = bookings[b2].pos
  BY <1>3, <1>5
<1>6. CASE Created(b2) /\ b1 \in Waitlist(bookings, s) /\ bookings'[b1].pos = bookings[b1].pos
  <2>1. /\ bookings'[b1].pos < bookings'[b2].pos
        /\ bookings'[b1].pos \in Nat /\ bookings'[b2].pos \in Nat
    BY <1>3, <1>6
  <2> QED
    BY <2>1
<1>7. CASE /\ b1 \in Waitlist(bookings, s) /\ bookings'[b1].pos = bookings[b1].pos
           /\ b2 \in Waitlist(bookings, s) /\ bookings'[b2].pos = bookings[b2].pos
  BY <1>7 DEF ClaimInv, WaitlistIsOrdered
<1> QED
  BY <1>2, <1>4, <1>5, <1>6, <1>7

\* What a row says was spent changes from nothing only, under its session's lock.
LEMMA SpentKept ==
  ASSUME IInv, NEW t \in Txns, NEW b \in BookingIds, bookings[b].status # "none", RowStep(t, b)
  PROVE  \/ bookings'[b].spent = bookings[b].spent
         \/ bookings[b].spent = 0 /\ sessionLock[bookings[b].s] = t
  BY DEF RowStep, RowChange, Untouched, Created, Released, Removed, Raised, Moved, Marked,
         Cancelled, Row

LEMMA OthersClaims ==
  ASSUME IInv, ClaimInv, NEW t \in Txns, TxnActs(t), NEW u \in Txns \ {t}
  PROVE  CopiesHonest(u)' /\ PromotesOthers(u)'
<1> TypeOK /\ CopiesHonest(u) /\ PromotesOthers(u) /\ Addressed(tx[u])
  BY DEF IInv, ClaimInv, TypeOK
<1>1. /\ tx'[u] = tx[u]
      /\ \A s \in Sessions : sessionLock[s] = u => sessionLock'[s] = u
  BY TxnStep DEF OthersStay
<1>2. ASSUME NEW c \in tx[u].own \cup tx[u].todo \cup tx[u].won
      PROVE  /\ bookings[c.id].s = tx[u].s
             /\ \/ bookings'[c.id].spent = bookings[c.id].spent
                \/ bookings[c.id].spent = 0 /\ sessionLock[tx[u].s] = t
  <2>1. c.id \in BookingIds /\ bookings[c.id] \in Row /\ bookings[c.id].s = tx[u].s
    BY OwnRow
  <2>2. bookings[c.id].status # "none"
    BY <2>1 DEF Row, BookingStatus
  <2> QED
    BY <2>1, <2>2, RowsStep, SpentKept
<1>3. CopiesHonest(u)'
  BY <1>1, <1>2 DEF CopiesHonest
<1>4. tx[u].op = "cancel" /\ tx[u].pc # "lock_session" =>
        sessionLock[tx[u].s] = u /\ sessionLock'[tx[u].s] = u
  BY <1>1 DEF PromotesOthers, Addressed
<1>5. At(u, "cancel", "promote") =>
        \A c \in tx[u].todo \cup tx[u].won : bookings'[c.id].spent = 0
  BY <1>2, <1>4 DEF PromotesOthers, At
<1> QED
  BY <1>1, <1>3, <1>4, <1>5 DEF PromotesOthers, At

LEMMA OwnClaims ==
  ASSUME IInv, ClaimInv, NEW t \in Txns, TxnActs(t)
  PROVE  CopiesHonest(t)' /\ PromotesOthers(t)'
<1> TypeOK /\ CopiesKnown /\ CopiesHonest(t) /\ PromotesOthers(t) /\ Addressed(tx[t])
  BY DEF IInv, ClaimInv, TypeOK
<1>1. CASE tx'[t] = Idle
  BY <1>1 DEF CopiesHonest, PromotesOthers, At, Idle
<1>2. CASE GoesOn(t, tx'[t])
  <2> DEFINE r == tx'[t]
  <2>1. bookings' = bookings /\ sessions' = sessions
        /\ \A s \in Sessions : sessionLock[s] = t => sessionLock'[s] = t
    BY <1>2 DEF GoesOn, tables
  <2>2. CASE Opens(r)
    BY <2>1, <2>2 DEF Opens, CopiesHonest, PromotesOthers, At
  <2>3. CASE Carries(t, r)
    <3>1. CopiesHonest(t)'
      BY <2>1, <2>3 DEF Carries, CopiesHonest
    <3>2. r.op = "cancel" /\ r.pc # "lock_session" => sessionLock'[r.s] = t
      BY <2>1, <2>3 DEF Carries, PromotesOthers, Addressed
    <3>3. At(t, "cancel", "promote")' => At(t, "cancel", "promote")
      BY <2>3 DEF Carries, At
    <3>4. ~At(t, "cancel", "promote")' => ~At(t, "cancel", "promote")
      BY <2>3 DEF Carries, At
    <3> QED
      BY <2>1, <2>3, <3>1, <3>2, <3>3, <3>4 DEF Carries, PromotesOthers, At
  <2>4. CASE Queues(t, r)
    <3>1. /\ r.own = tx[t].own /\ r.won = {} /\ r.s = tx[t].s /\ r.op = "cancel"
          /\ r.pc = "promote" /\ sessionLock[tx[t].s] = t /\ tx[t].s \in Sessions
      BY <2>4 DEF Queues, PromotesOthers, At, Addressed
    <3>2. ASSUME NEW c \in r.todo
          PROVE  c.row.s = tx[t].s /\ c.id \notin Ids(tx[t].own) /\ bookings[c.id].spent = 0
      <4>1. PICK b \in Waitlist(SeenBy(t), tx[t].s) : c = CopyOf(b)
        BY <2>4 DEF Queues
      <4>2. b \in Waitlist(bookings, tx[t].s) /\ b \notin Ids(tx[t].own)
        BY WaitlistSeen
      <4> QED
        BY <4>1, <4>2 DEF CopyOf, Waitlist, ClaimInv
    <3>3. PICK c \in tx[t].own : tx[t].own = {c}
      BY <2>4 DEF Queues, PromotesOthers, At
    <3>4. r.arg \in {0, c.row.spent}
      BY <2>4, <3>3 DEF Queues, Refund
    <3>5. CopiesHonest(t)'
      BY <2>1, <3>1, <3>2 DEF CopiesHonest
    <3> QED
      BY <2>1, <3>1, <3>2, <3>3, <3>4, <3>5 DEF PromotesOthers, At
  <2>5. CASE Raises(t, r)
    <3>1. /\ r.todo \cup r.won = tx[t].todo \cup tx[t].won /\ r.own = tx[t].own
          /\ r.s = tx[t].s /\ r.op = "cancel" /\ r.pc = "promote" /\ r.arg = tx[t].arg
          /\ At(t, "cancel", "promote")
      BY <2>5 DEF Raises
    <3>2. CopiesHonest(t)'
      BY <2>1, <3>1 DEF CopiesHonest
    <3>3. sessionLock'[tx[t].s] = t
      BY <2>1, <3>1 DEF PromotesOthers, At, Addressed
    <3> QED
      BY <2>1, <3>1, <3>2, <3>3 DEF PromotesOthers, At
  <2> QED
    BY <1>2, <2>2, <2>3, <2>4, <2>5 DEF GoesOn
<1> QED
  BY <1>1, <1>2, TxnStep

LEMMA InitClaims == Init => ClaimInv
<1> SUFFICES ASSUME Init PROVE ClaimInv
  OBVIOUS
<1>1. \A t \in Txns : tx[t] = Idle
  BY DEF Init
<1>2. \A t \in Txns : CopiesHonest(t) /\ PromotesOthers(t)
  BY <1>1 DEF CopiesHonest, PromotesOthers, At, Idle
<1>3. \A b \in BookingIds : bookings[b].status = "none"
  BY DEF Init, NoBooking
<1> QED
  BY <1>2, <1>3 DEF ClaimInv, WaitlistIsOrdered, Waitlist

LEMMA StepClaims == IInv /\ ClaimInv /\ [AdminNext]_vars => ClaimInv'
<1> SUFFICES ASSUME IInv, ClaimInv, [AdminNext]_vars PROVE ClaimInv'
  OBVIOUS
<1>1. CASE UNCHANGED vars \/ Tick
  <2>1. UNCHANGED <<bookings, sessionLock, tx>>
    BY <1>1 DEF vars, Tick, tables
  <2> QED
    BY <2>1 DEF ClaimInv, WaitlistIsOrdered, Waitlist, CopiesHonest, PromotesOthers, At
<1>2. ASSUME NEW t \in Txns, TxnActs(t) PROVE ClaimInv'
  <2>1. \A u \in Txns : CopiesHonest(u)' /\ PromotesOthers(u)'
    BY <1>2, OthersClaims, OwnClaims
  <2>2. ASSUME NEW b \in BookingIds, bookings'[b].status = "waitlisted"
        PROVE  bookings'[b].spent = 0
    <3>1. RowStep(t, b)
      BY <1>2, RowsStep
    <3> QED
      BY <2>2, <3>1 DEF RowStep, RowChange, Untouched, Created, Released, Removed, Raised,
                        Moved, Marked, Cancelled, Promoted, Row, ClaimInv
  <2> QED
    BY <1>2, <2>1, <2>2, OrderKept DEF ClaimInv
<1> QED
  BY <1>1, <1>2 DEF AdminNext, Next, TxnActs

\* A cancellation gives back what its booking cost, or nothing.
LEMMA RefundStep ==
  IInv /\ ClaimInv /\ [AdminNext]_vars =>
    [\A b \in BookingIds :
       bookings[b].status \in SEAT_HOLDING /\ bookings'[b].status = "cancelled"
         => net'[b] - net[b] \in {0, bookings[b].spent}]_vars
<1> SUFFICES ASSUME IInv, ClaimInv, AdminNext, NEW b \in BookingIds,
                    bookings[b].status \in SEAT_HOLDING, bookings'[b].status = "cancelled"
             PROVE  net'[b] - net[b] \in {0, bookings[b].spent}
  OBVIOUS
<1>1. CASE Tick
  BY <1>1 DEF Tick, tables, SEAT_HOLDING
<1>2. ASSUME NEW t \in Txns, TxnActs(t) PROVE net'[b] - net[b] \in {0, bookings[b].spent}
  <2>1. RowStep(t, b)
    BY <1>2, RowsStep
  <2> QED
    BY <2>1 DEF RowStep, RowChange, Untouched, Created, Released, Removed, Raised,
                Moved, Marked, Promoted, Row, SEAT_HOLDING
<1> QED
  BY <1>1, <1>2 DEF AdminNext, Next, TxnActs

\* The invariant of claims: what a transaction goes by, a copy of a row that
\* may be stale, is still right about the money.
THEOREM ClaimInvariant == AdminSpec => []ClaimInv
<1>1. Init => IInv /\ ClaimInv
  BY InitSound, InitClaims
<1>2. IInv /\ ClaimInv /\ [AdminNext]_vars => IInv' /\ ClaimInv'
  BY StepSound, StepClaims
<1> QED
  BY <1>1, <1>2, PTL DEF AdminSpec

\* Two learners waiting for one session never share a position, whatever the
\* learners, the superuser and the worker do at once: _add_to_waitlist takes
\* the place after the last one, and nothing else gives a place away.
THEOREM WaitlistOrder == AdminSpec => []WaitlistIsOrdered
<1>1. ClaimInv => WaitlistIsOrdered
  BY DEF ClaimInv
<1> QED
  BY <1>1, ClaimInvariant, PTL

\* A learner who leaves a seat is given back exactly what it cost, or nothing,
\* even though cancel_booking and cancel_session decide by a copy of the row
\* read before they hold any lock, and whatever happens to prices meanwhile.
THEOREM RefundExact == AdminSpec => RefundIsAllOrNothing
<1>1. Init => IInv /\ ClaimInv
  BY InitSound, InitClaims
<1>2. IInv /\ ClaimInv /\ [AdminNext]_vars => IInv' /\ ClaimInv'
  BY StepSound, StepClaims
<1> QED
  BY <1>1, <1>2, RefundStep, PTL DEF AdminSpec, RefundIsAllOrNothing

(***************************************************************************)
(* Payments for seats                                                      *)
(***************************************************************************)
Attendance == {"attended", "no_show"}

LEMMA NotAttendance ==
  ASSUME AdminOps \cap Attendance = {}, PaidInv, NEW t \in Txns
  PROVE  tx[t].op \notin Attendance
  BY DEF PaidInv, StillWaiting, Attendance

\* Unless attendance is recorded a row changes status under its session's lock,
\* and only a waiting learner is promoted.
LEMMA PaidRow ==
  ASSUME IInv, ClaimInv, PaidInv, NEW t \in Txns, TxnActs(t), tx[t].op \notin Attendance,
         NEW b \in BookingIds
  PROVE  \/ Untouched(b)
         \/ Created(b)
         \/ /\ bookings[b] \in Row
            /\ \/ sessionLock[bookings[b].s] = t /\ (Released(b) \/ Removed(b))
               \/ /\ sessionLock[bookings[b].s] = t
                  /\ bookings[b].status = "waitlisted" /\ Raised(t, b)
               \/ Moved(t, b)
<1>1. StillWaiting(t)
  BY DEF PaidInv
<1>2. ~Marked(t, b)
  BY DEF Marked, Attendance
<1>3. Raised(t, b) => bookings[b].status = "waitlisted"
  BY <1>1 DEF StillWaiting, Raised, Ids
<1> QED
  BY <1>2, <1>3, RowsStep DEF RowStep, RowChange

LEMMA OthersWait ==
  ASSUME IInv, ClaimInv, PaidInv, NEW t \in Txns, TxnActs(t), tx[t].op \notin Attendance,
         NEW u \in Txns \ {t}
  PROVE  StillWaiting(u)'
<1> TypeOK /\ StillWaiting(u) /\ CopiesHonest(u) /\ PromotesOthers(u)
  BY DEF IInv, ClaimInv, PaidInv
<1>1. tx'[u] = tx[u]
  BY TxnStep DEF OthersStay
<1>2. ASSUME NEW c \in tx[u].todo \cup tx[u].won, At(u, "cancel", "promote")
      PROVE  bookings'[c.id].status = "waitlisted"
  <2>1. c.id \in BookingIds /\ bookings[c.id].s = tx[u].s
    BY OwnRow
  <2>2. sessionLock[bookings[c.id].s] # t
    BY <1>2, <2>1 DEF PromotesOthers, At
  <2>3. bookings[c.id].status = "waitlisted"
    BY <1>2 DEF StillWaiting
  <2> QED
    <3>1. Untouched(c.id) \/ (bookings[c.id] \in Row /\ Moved(t, c.id))
      BY <2>1, <2>2, <2>3, PaidRow DEF Created
    <3> QED
      BY <2>3, <3>1 DEF Untouched, Moved, Row
<1> QED
  BY <1>1, <1>2 DEF StillWaiting, At

LEMMA OwnWait ==
  ASSUME IInv, ClaimInv, PaidInv, NEW t \in Txns, TxnActs(t)
  PROVE  StillWaiting(t)'
<1> TypeOK /\ CopiesKnown /\ StillWaiting(t) /\ PromotesOthers(t)
  BY DEF IInv, ClaimInv, PaidInv
<1>1. CASE tx'[t] = Idle
  BY <1>1 DEF StillWaiting, At, Idle
<1>2. CASE GoesOn(t, tx'[t])
  <2> DEFINE r == tx'[t]
  <2>1. bookings' = bookings
    BY <1>2 DEF GoesOn, tables
  <2>2. CASE Opens(r)
    BY <2>2 DEF Opens, StillWaiting, At
  <2>3. CASE Carries(t, r)
    <3>1. At(t, "cancel", "promote")' => At(t, "cancel", "promote")
      BY <2>3 DEF Carries, At
    <3> QED
      BY <2>1, <2>3, <3>1 DEF Carries, StillWaiting, At
  <2>4. CASE Queues(t, r)
    <3>1. r.won = {} /\ r.op = "cancel"
      BY <2>4 DEF Queues, PromotesOthers, At
    <3>2. ASSUME NEW c \in r.todo PROVE bookings[c.id].status = "waitlisted"
      <4>1. PICK b \in Waitlist(SeenBy(t), tx[t].s) : c = CopyOf(b)
        BY <2>4 DEF Queues
      <4> QED
        BY <4>1, WaitlistSeen DEF CopyOf, Waitlist
    <3> QED
      BY <2>1, <3>1, <3>2 DEF StillWaiting
  <2>5. CASE Raises(t, r)
    <3>1. r.todo \cup r.won = tx[t].todo \cup tx[t].won /\ r.op = "cancel"
          /\ At(t, "cancel", "promote")
      BY <2>5 DEF Raises
    <3> QED
      BY <2>1, <3>1 DEF StillWaiting
  <2> QED
    BY <1>2, <2>2, <2>3, <2>4, <2>5 DEF GoesOn
<1> QED
  BY <1>1, <1>2, TxnStep

LEMMA InitPaid == Init => PaidInv
<1> SUFFICES ASSUME Init PROVE PaidInv
  OBVIOUS
<1>1. \A t \in Txns : tx[t] = Idle
  BY DEF Init
<1>2. \A t \in Txns : StillWaiting(t)
  BY <1>1 DEF StillWaiting, At, Idle
<1>3. \A b \in BookingIds : bookings[b].status = "none" /\ net[b] = 0
  BY DEF Init, NoBooking
<1> QED
  BY <1>2, <1>3 DEF PaidInv, SeatIsPaidFor, Live, SEAT_HOLDING

LEMMA PaidStep ==
  ASSUME IInv, ClaimInv, PaidInv, NEW t \in Txns, TxnActs(t), tx[t].op \notin Attendance
  PROVE  PaidInv'
<1>1. \A u \in Txns : StillWaiting(u)'
  BY OthersWait, OwnWait
<1>2. ASSUME NEW b \in BookingIds
      PROVE  /\ bookings'[b].status \in Live =>
                  /\ net'[b] = - bookings'[b].spent
                  /\ bookings'[b].status = "waitlisted" => net'[b] = 0
             /\ bookings'[b].status = "none" => net'[b] = 0
  <2>1. /\ bookings[b].status \in Live => net[b] = - bookings[b].spent
        /\ bookings[b].status \in {"waitlisted", "none"} => net[b] = 0
    BY DEF PaidInv, SeatIsPaidFor, Live
  <2>2. CASE Untouched(b)
    BY <2>1, <2>2 DEF Untouched
  <2>3. CASE Created(b)
    BY <2>1, <2>3 DEF Created
  <2>4. CASE bookings[b] \in Row /\ (Released(b) \/ Removed(b))
    BY <2>4 DEF Released, Removed, Cancelled, Row, Live, SEAT_HOLDING
  <2>5. CASE bookings[b] \in Row /\ bookings[b].status = "waitlisted" /\ Raised(t, b)
    <3>1. net[b] = 0 /\ net'[b] = net[b] - sessions[tx[t].s].price
          /\ bookings'[b].status = "confirmed" /\ bookings'[b].spent = sessions[tx[t].s].price
      BY <2>1, <2>5 DEF Raised, Promoted, Row
    <3>2. sessions[tx[t].s].price \in Nat
      BY <2>5 DEF Raised, At, IInv, TypeOK, Addressed, SessionRow
    <3> HIDE <2>1
    <3> QED
      BY <3>1, <3>2
  <2>6. CASE bookings[b] \in Row /\ Moved(t, b)
    BY <2>1, <2>6 DEF Moved, Row
  <2> QED
    BY <2>2, <2>3, <2>4, <2>5, <2>6, PaidRow
<1> QED
  BY <1>1, <1>2 DEF PaidInv, SeatIsPaidFor

LEMMA StepPaid ==
  ASSUME AdminOps \cap Attendance = {}
  PROVE  IInv /\ ClaimInv /\ PaidInv /\ [AdminNext]_vars => PaidInv'
<1> SUFFICES ASSUME IInv, ClaimInv, PaidInv, [AdminNext]_vars PROVE PaidInv'
  OBVIOUS
<1>1. CASE UNCHANGED vars \/ Tick
  <2>1. UNCHANGED <<bookings, net, tx>>
    BY <1>1 DEF vars, Tick, tables
  <2> QED
    BY <2>1 DEF PaidInv, SeatIsPaidFor, StillWaiting, At
<1>2. ASSUME NEW t \in Txns, TxnActs(t) PROVE PaidInv'
  BY <1>2, NotAttendance, PaidStep
<1> QED
  BY <1>1, <1>2 DEF AdminNext, Next, TxnActs

LEMMA FinalStep ==
  ASSUME AdminOps \cap Attendance = {}
  PROVE  IInv /\ ClaimInv /\ PaidInv /\ [AdminNext]_vars =>
           [\A b \in BookingIds : bookings[b].status = "cancelled" =>
              bookings'[b].status \in {"cancelled", "deleted"}]_vars
<1> SUFFICES ASSUME IInv, ClaimInv, PaidInv, AdminNext, NEW b \in BookingIds,
                    bookings[b].status = "cancelled"
             PROVE  bookings'[b].status \in {"cancelled", "deleted"}
  OBVIOUS
<1>1. CASE Tick
  BY <1>1 DEF Tick, tables
<1>2. ASSUME NEW t \in Txns, TxnActs(t) PROVE bookings'[b].status \in {"cancelled", "deleted"}
  <2>1. \/ Untouched(b)
        \/ bookings[b] \in Row /\ (Released(b) \/ Removed(b) \/ Moved(t, b))
    BY <1>2, NotAttendance, PaidRow DEF Created
  <2> QED
    BY <2>1 DEF Untouched, Released, Removed, Moved, Cancelled, Row
<1> QED
  BY <1>1, <1>2 DEF AdminNext, Next, TxnActs

\* The invariant of payments: a seat is charged for once, nobody waiting is,
\* and those a cancellation is about to promote wait until it commits.
THEOREM PaidInvariant ==
  ASSUME AdminOps \cap Attendance = {}
  PROVE  AdminSpec => []PaidInv
<1>1. Init => IInv /\ ClaimInv /\ PaidInv
  BY InitSound, InitClaims, InitPaid
<1>2. IInv /\ ClaimInv /\ PaidInv /\ [AdminNext]_vars => IInv' /\ ClaimInv' /\ PaidInv'
  BY StepSound, StepClaims, StepPaid
<1> QED
  BY <1>1, <1>2, PTL DEF AdminSpec

\* Every booking that holds a seat has been charged for exactly once, and
\* nobody on a waitlist has been charged, as long as nobody records attendance
\* (which marks a cancelled, refunded booking as attended when the two race).
THEOREM SeatsPaidFor ==
  ASSUME AdminOps \cap Attendance = {}
  PROVE  AdminSpec => []SeatIsPaidFor
<1>1. PaidInv => SeatIsPaidFor
  BY DEF PaidInv
<1> QED
  BY <1>1, PaidInvariant, PTL

\* What record_attendance says of itself ("A cancelled booking is never
\* resurrected by it") and does not keep: of the other operations it is true.  No
\* promotion, rescheduling or bulk cancellation that read the row before it was
\* cancelled brings it back.
THEOREM CancelledStaysCancelled ==
  ASSUME AdminOps \cap Attendance = {}
  PROVE  AdminSpec => CancelledIsFinal
<1>1. Init => IInv /\ ClaimInv /\ PaidInv
  BY InitSound, InitClaims, InitPaid
<1>2. IInv /\ ClaimInv /\ PaidInv /\ [AdminNext]_vars => IInv' /\ ClaimInv' /\ PaidInv'
  BY StepSound, StepClaims, StepPaid
<1>3. IInv /\ ClaimInv /\ PaidInv /\ [AdminNext]_vars =>
        [\A b \in BookingIds : bookings[b].status = "cancelled" =>
           bookings'[b].status \in {"cancelled", "deleted"}]_vars
  BY FinalStep
<1> QED
  BY <1>1, <1>2, <1>3, PTL DEF AdminSpec, CancelledIsFinal
=============================================================================
