----------------------------- MODULE Scheduling -----------------------------
(***************************************************************************)
(* The instructors' calendars (services/scheduling.py) under the requests  *)
(* that write into them: one-to-ones booked by learners                    *)
(* (services/booking.py), group discussions created, moved and cancelled,  *)
(* and blocked time (services/session_admin.py).                           *)
(*                                                                         *)
(* A request is a transaction, as in Booking.  It locks the instructor's   *)
(* row, checks the calendar and writes; a one-to-one then locks the        *)
(* learner's row too, and when one instructor turns out to be taken it     *)
(* rolls back to its savepoint, which lets the locks go, and tries the     *)
(* next.  Credits are Booking's subject: a learner who cannot pay is a     *)
(* Rollback.  Time is a row of slots of one local day, and all of it lies  *)
(* ahead.                                                                  *)
(***************************************************************************)
EXTENDS Integers, FiniteSets

CONSTANTS
  Instructors, Learners,
  SessionIds,    \* primary keys, of both kinds of session
  Txns,          \* requests that may be in flight at once
  Ops,           \* bound: what requests are made
  None,
  LastHour,      \* bound: the calendar ends here
  Lengths,       \* bound: how long sessions and blocks may be
  WindowStart, WindowEnd,  \* settings.one_on_one_window_start, _end
  Slot,          \* settings.one_on_one_slot_minutes
  Buffer,        \* settings.one_on_one_buffer_minutes
  DbBuffer,      \* the 60 minutes written into ex_one_on_one_buffer
  MaxBlocks      \* bound: blocks there may be at once

Users == Instructors \cup Learners
AllOps == {"book", "cancel_booking", "create", "draft", "move", "resize", "publish", "block", "update"}

ASSUME SchedulingAssumption ==
  /\ None \notin Txns \cup Users \cup SessionIds /\ Ops \subseteq AllOps
  /\ LastHour \in Nat /\ Lengths \subseteq Nat \ {0}
  /\ WindowStart \in Nat /\ WindowEnd \in Nat /\ Slot \in Nat \ {0}
  /\ Buffer \in Nat /\ DbBuffer \in Nat /\ MaxBlocks \in Nat

VARIABLES
  sessions,   \* the sessions and one_on_one_sessions tables
  blocks,     \* the instructor_blocks table
  active,     \* instructors with is_active
  userLock,   \* holder of the FOR UPDATE lock on each users row
  tx          \* what each request is doing

vars == <<sessions, blocks, active, userLock, tx>>

Kind == {"group", "one_on_one"}
NoSession == [kind |-> "group", status |-> "none", i |-> None, from |-> 0, to |-> 0,
              learner |-> None, booked |-> FALSE]
Block == [i: Instructors, from: 0..LastHour, to: 0..LastHour]
Hour == [from: 0..LastHour, to: 0..LastHour]
NoHour == [from |-> 0, to |-> 0]
\* "copy" is the hour of the session as it was read before any lock.
Idle == [op |-> "none", pc |-> "idle", i |-> None, l |-> None, s |-> None,
         from |-> 0, to |-> 0, copy |-> NoHour, todo |-> {}]

At(t, op, pc) == tx[t].op = op /\ tx[t].pc = pc
Begins(t, op) == op \in Ops /\ tx[t].pc = "idle"
Proceed(t, r) == tx' = [tx EXCEPT ![t] = r]
Fits(from, to) == to <= LastHour

(***************************************************************************)
(* The calendar                                                            *)
(***************************************************************************)
Overlap(from1, to1, from2, to2) == from1 < to2 /\ from2 < to1

\* instructor_engagements: the trigger mirrors what is not cancelled.
Engagements == {s \in SessionIds : sessions[s].status \in {"draft", "published"}}
EngagementsOf(i) == {s \in Engagements : sessions[s].i = i}

InWindow(from, to) == WindowStart <= from /\ to <= WindowEnd

Blocked(i, from, to) == \E b \in blocks : b.i = i /\ Overlap(b.from, b.to, from, to)

Conflicting(i, from, to, gap, except) ==
  \E e \in EngagementsOf(i) \ {except} :
    Overlap(sessions[e].from, sessions[e].to, from - gap, to + gap)

OneOnOneWithinBuffer(i, from, to, except) ==
  \E e \in EngagementsOf(i) \ {except} :
    /\ sessions[e].kind = "one_on_one"
    /\ Overlap(sessions[e].from - Buffer, sessions[e].to + Buffer, from, to)

\* assert_instructor_available.
Available(i, from, to, kind, except) ==
  /\ kind = "one_on_one" => InWindow(from, to)
  /\ ~Blocked(i, from, to)
  /\ ~Conflicting(i, from, to, IF kind = "one_on_one" THEN Buffer ELSE 0, except)
  /\ kind = "group" => ~OneOnOneWithinBuffer(i, from, to, except)

\* Mutant: the buffer is kept before a session and not after it.
OneSidedTooClose(s, from, to) ==
  Overlap(sessions[s].from, sessions[s].to, from, to + Buffer)
TooClose(s, from, to) ==
  Overlap(sessions[s].from, sessions[s].to, from - Buffer, to + Buffer)

\* _is_free: what available_slots and open_slots filter by.
IsFree(i, from, to) ==
  /\ \A b \in blocks : b.i = i => ~(b.from < to /\ b.to > from)
  /\ \A e \in EngagementsOf(i) : ~TooClose(e, from, to)

Starts == {from \in WindowStart..WindowEnd : \E k \in 0..WindowEnd : from = WindowStart + k * Slot}
AvailableSlots(i) ==
  {from \in Starts : from + Slot <= WindowEnd /\ IsFree(i, from, from + Slot)}
\* open_slots: the calendar the booking page shows.
OpenSlots == UNION {AvailableSlots(i) : i \in active}

\* instructors_free_at.
FreeAt(from, to) ==
  {i \in active : ~Blocked(i, from, to) /\ ~Conflicting(i, from, to, Buffer, None)}

\* find_sessions_overlapping.
SessionsOverlapping(i, from, to) ==
  {s \in EngagementsOf(i) : Overlap(sessions[s].from, sessions[s].to, from, to)}

(***************************************************************************)
(* The database's exclusion constraints                                    *)
(***************************************************************************)
\* Mutant: discussions are compared with discussions alone.
GroupsDisjoint(s, i, from, to) ==
  {e \in SessionsOverlapping(i, from, to) : sessions[e].kind = "group"} \subseteq {s}
EngagementsDisjoint(s, i, from, to) ==
  SessionsOverlapping(i, from, to) \subseteq {s}

\* Both ranges are widened.
BuffersDisjoint(i, from, to) ==
  \A e \in EngagementsOf(i) : sessions[e].kind = "one_on_one" =>
    ~Overlap(sessions[e].from - DbBuffer, sessions[e].to + DbBuffer, from - DbBuffer, to + DbBuffer)

OneOnOneFits(i, from, to) ==
  EngagementsDisjoint(None, i, from, to) /\ BuffersDisjoint(i, from, to)

\* ex_bookings_learner_no_overlap
LearnerFree(l, from, to) ==
  \A s \in SessionIds : sessions[s].booked /\ sessions[s].learner = l =>
    ~Overlap(sessions[s].from, sessions[s].to, from, to)

(***************************************************************************)
(* Locks                                                                   *)
(***************************************************************************)
\* Mutant: the instructor's row is read without FOR UPDATE.
UserUnlocked(t, u) == TRUE
UserFree(t, u) == userLock[u] \in {None, t}
Lock(t, u) == UserFree(t, u) /\ userLock' = [userLock EXCEPT ![u] = t]
ReleaseLocks(t) == userLock' = [u \in Users |-> IF userLock[u] = t THEN None ELSE userLock[u]]

\* lock_instructor, and the check that follows it.
LockAndCheck(t, passes) ==
  /\ tx[t].pc = "instructor"
  /\ Lock(t, tx[t].i)
  /\ passes
  /\ UNCHANGED <<sessions, blocks, active>>

\* The row is written and the transaction ends.
Write(t, s, row) ==
  /\ sessions' = [sessions EXCEPT ![s] = row]
  /\ ReleaseLocks(t)
  /\ Proceed(t, Idle)
  /\ UNCHANGED <<blocks, active>>

(***************************************************************************)
(* book_one_on_one                                                         *)
(***************************************************************************)
Book(t, l, candidates, from, to) ==
  /\ Begins(t, "book")
  /\ candidates # {} /\ Fits(from, to)
  /\ Proceed(t, [Idle EXCEPT !.op = "book", !.pc = "pick", !.l = l, !.from = from, !.to = to,
                             !.todo = candidates])
  /\ UNCHANGED <<sessions, blocks, active, userLock>>

BookWith(t, l, i, from, to) == Book(t, l, {i}, from, to)
BookPooled(t, l, from, to) == InWindow(from, to) /\ Book(t, l, FreeAt(from, to), from, to)

\* random.shuffle, and the unlocked look at is_active.
PickCandidate(t) ==
  /\ At(t, "book", "pick")
  /\ \E i \in tx[t].todo \cap active :
       Proceed(t, [tx[t] EXCEPT !.pc = "instructor", !.i = i, !.todo = @ \ {i}])
  /\ UNCHANGED <<sessions, blocks, active, userLock>>

OneOnOneAvailable(t) == Available(tx[t].i, tx[t].from, tx[t].to, "one_on_one", None)

\* Mutant: no savepoint, so the row of the one who is taken stays locked.
NextCandidateLocked(t) ==
  /\ Proceed(t, [tx[t] EXCEPT !.pc = "pick"])
  /\ Lock(t, tx[t].i)
  /\ UNCHANGED <<sessions, blocks, active>>
\* SchedulingError: back to the savepoint, on to the next instructor.
NextCandidate(t) ==
  /\ Proceed(t, [tx[t] EXCEPT !.pc = "pick"])
  /\ ReleaseLocks(t)
  /\ UNCHANGED <<sessions, blocks, active>>

BookInstructor(t) ==
  /\ tx[t].op = "book"
  /\ LockAndCheck(t, OneOnOneAvailable(t))
  /\ Proceed(t, [tx[t] EXCEPT !.pc = "learner"])

InstructorTaken(t) ==
  /\ At(t, "book", "instructor")
  /\ UserFree(t, tx[t].i)
  /\ ~OneOnOneAvailable(t)
  /\ NextCandidate(t)

BookLearner(t) ==
  /\ At(t, "book", "learner")
  /\ Lock(t, tx[t].l)
  /\ Proceed(t, [tx[t] EXCEPT !.pc = "commit"])
  /\ UNCHANGED <<sessions, blocks, active>>

BookCommit(t) ==
  /\ At(t, "book", "commit")
  /\ OneOnOneFits(tx[t].i, tx[t].from, tx[t].to)
  /\ LearnerFree(tx[t].l, tx[t].from, tx[t].to)
  /\ \E s \in SessionIds :
       /\ sessions[s].status = "none"
       /\ Write(t, s, [kind |-> "one_on_one", status |-> "published", i |-> tx[t].i,
                       from |-> tx[t].from, to |-> tx[t].to,
                       learner |-> tx[t].l, booked |-> TRUE])

\* An exclusion constraint fires on the session's insert.
BookCollides(t) ==
  /\ At(t, "book", "commit")
  /\ ~OneOnOneFits(tx[t].i, tx[t].from, tx[t].to)
  /\ NextCandidate(t)

(***************************************************************************)
(* Group discussions                                                       *)
(***************************************************************************)
\* With publish, or as a draft.
Create(t, op, i, from, to) ==
  /\ op \in {"create", "draft"} /\ Begins(t, op)
  /\ i \in active /\ Fits(from, to)
  /\ Proceed(t, [Idle EXCEPT !.op = op, !.pc = "instructor", !.i = i,
                             !.from = from, !.to = to])
  /\ UNCHANGED <<sessions, blocks, active, userLock>>

Reschedule(t, op, s, from, to) ==
  /\ Begins(t, op)
  /\ sessions[s].kind = "group" /\ s \in Engagements /\ Fits(from, to)
  /\ Proceed(t, [Idle EXCEPT !.op = op, !.pc = "instructor", !.i = sessions[s].i, !.s = s,
                             !.from = from, !.to = to,
                             !.copy = [from |-> sessions[s].from, to |-> sessions[s].to]])
  /\ UNCHANGED <<sessions, blocks, active, userLock>>

\* Without duration_minutes the session keeps the length it was read with.
Move(t, s, from) ==
  Reschedule(t, "move", s, from, from + sessions[s].to - sessions[s].from)
Resize(t, s, from, to) == Reschedule(t, "resize", s, from, to)

GroupInstructor(t) ==
  /\ tx[t].op \in {"create", "draft", "move", "resize"}
  /\ LockAndCheck(t, Available(tx[t].i, tx[t].from, tx[t].to, "group", tx[t].s))
  /\ Proceed(t, [tx[t] EXCEPT !.pc = "commit"])

CreateCommit(t) ==
  /\ tx[t].op \in {"create", "draft"} /\ tx[t].pc = "commit"
  /\ EngagementsDisjoint(None, tx[t].i, tx[t].from, tx[t].to)
  /\ \E s \in SessionIds :
       /\ sessions[s].status = "none"
       /\ Write(t, s, [NoSession EXCEPT !.status = IF tx[t].op = "draft" THEN "draft" ELSE "published",
                                        !.i = tx[t].i,
                                        !.from = tx[t].from, !.to = tx[t].to])

\* Mutant: the length is the row's of now, not the copy's.
RescheduledByLength(t) ==
  [sessions[tx[t].s] EXCEPT !.from = tx[t].from,
                            !.to = tx[t].from + sessions[tx[t].s].to - sessions[tx[t].s].from]
\* The ORM writes the columns that differ from the copy, and only those.
Rescheduled(t) ==
  [sessions[tx[t].s] EXCEPT !.from = IF tx[t].from = tx[t].copy.from THEN @ ELSE tx[t].from,
                            !.to = IF tx[t].to = tx[t].copy.to THEN @ ELSE tx[t].to]

RescheduleCommit(t) ==
  /\ tx[t].op \in {"move", "resize"} /\ tx[t].pc = "commit"
  /\ Rescheduled(t).from < Rescheduled(t).to
  /\ tx[t].s \in Engagements =>
       EngagementsDisjoint(tx[t].s, tx[t].i, Rescheduled(t).from, Rescheduled(t).to)
  /\ Write(t, tx[t].s, Rescheduled(t))

\* The status is read and later written with no lock held in between.
Publish(t, s) ==
  /\ Begins(t, "publish")
  /\ sessions[s].status = "draft"
  /\ Proceed(t, [Idle EXCEPT !.op = "publish", !.pc = "write", !.s = s])
  /\ UNCHANGED <<sessions, blocks, active, userLock>>

PublishCommit(t) ==
  /\ At(t, "publish", "write") /\ sessions[tx[t].s].status # "none"
  /\ EngagementsDisjoint(tx[t].s, sessions[tx[t].s].i,
                         sessions[tx[t].s].from, sessions[tx[t].s].to)
  /\ Write(t, tx[t].s, [sessions[tx[t].s] EXCEPT !.status = "published"])

\* cancel_session and delete_group_session, which lock no instructor.
CancelGroup(s) ==
  /\ sessions[s].kind = "group" /\ s \in Engagements
  /\ sessions' = [sessions EXCEPT ![s].status = "cancelled"]
  /\ UNCHANGED <<blocks, active, userLock, tx>>

\* cancel_booking of a one-to-one: the booking, and nothing but the booking.
CancelOneOnOne(s) ==
  /\ "cancel_booking" \in Ops /\ sessions[s].booked
  /\ sessions' = [sessions EXCEPT ![s].booked = FALSE]
  /\ UNCHANGED <<blocks, active, userLock, tx>>

(***************************************************************************)
(* Blocked time, and instructors who leave                                 *)
(***************************************************************************)
BeginBlock(t, i, from, to) ==
  /\ Begins(t, "block")
  /\ Fits(from, to) /\ Cardinality(blocks) < MaxBlocks
  /\ Proceed(t, [Idle EXCEPT !.op = "block", !.pc = "instructor", !.i = i,
                             !.from = from, !.to = to])
  /\ UNCHANGED <<sessions, blocks, active, userLock>>

BlockInstructor(t) ==
  /\ tx[t].op = "block"
  /\ LockAndCheck(t, SessionsOverlapping(tx[t].i, tx[t].from, tx[t].to) = {})
  /\ Proceed(t, [tx[t] EXCEPT !.pc = "commit"])

BlockCommit(t) ==
  /\ At(t, "block", "commit")
  /\ ~Blocked(tx[t].i, tx[t].from, tx[t].to)
  /\ blocks' = blocks \cup {[i |-> tx[t].i, from |-> tx[t].from, to |-> tx[t].to]}
  /\ ReleaseLocks(t)
  /\ Proceed(t, Idle)
  /\ UNCHANGED <<sessions, active>>

DeleteBlock(b) ==
  /\ blocks' = blocks \ {b}
  /\ UNCHANGED <<sessions, active, userLock, tx>>

\* update_instructor: published discussions ahead are in the way of leaving.
Update(t, i) ==
  /\ Begins(t, "update")
  /\ i \in active => \A s \in EngagementsOf(i) :
       sessions[s].kind = "group" => sessions[s].status = "draft"
  /\ Proceed(t, [Idle EXCEPT !.op = IF i \in active THEN "leave" ELSE "join",
                             !.pc = "write", !.i = i])
  /\ UNCHANGED <<sessions, blocks, active, userLock>>

UpdateCommit(t) ==
  /\ tx[t].op \in {"leave", "join"} /\ tx[t].pc = "write"
  /\ UserFree(t, tx[t].i)
  /\ active' = IF tx[t].op = "leave" THEN active \ {tx[t].i} ELSE active \cup {tx[t].i}
  /\ Proceed(t, Idle)
  /\ UNCHANGED <<sessions, blocks, userLock>>

\* Any refusal, any error.
Rollback(t) ==
  /\ tx[t].pc # "idle"
  /\ ReleaseLocks(t)
  /\ Proceed(t, Idle)
  /\ UNCHANGED <<sessions, blocks, active>>

(***************************************************************************)
(* Specification                                                           *)
(***************************************************************************)
Init ==
  /\ sessions = [s \in SessionIds |-> NoSession]
  /\ blocks = {}
  /\ active = Instructors
  /\ userLock = [u \in Users |-> None]
  /\ tx = [t \in Txns |-> Idle]

Begin(t, from, to) ==
  \/ \E l \in Learners : BookPooled(t, l, from, to)
  \/ \E l \in Learners, i \in Instructors : BookWith(t, l, i, from, to)
  \/ \E i \in Instructors, op \in {"create", "draft"} : Create(t, op, i, from, to)
  \/ \E i \in Instructors : BeginBlock(t, i, from, to)
  \/ \E s \in SessionIds : Resize(t, s, from, to)

BeginAt(t, from) == \E s \in SessionIds : Move(t, s, from)

BeginUntimed(t) ==
  \/ \E s \in SessionIds : Publish(t, s)
  \/ \E i \in Instructors : Update(t, i)

Continue(t) ==
  \/ PickCandidate(t)
  \/ BookInstructor(t)
  \/ InstructorTaken(t)
  \/ BookLearner(t)
  \/ BookCommit(t)
  \/ BookCollides(t)
  \/ GroupInstructor(t)
  \/ CreateCommit(t)
  \/ RescheduleCommit(t)
  \/ PublishCommit(t)
  \/ BlockInstructor(t)
  \/ BlockCommit(t)
  \/ UpdateCommit(t)
  \/ Rollback(t)

Next ==
  \/ \E t \in Txns, from \in 0..LastHour, length \in Lengths : Begin(t, from, from + length)
  \/ \E t \in Txns, from \in 0..LastHour : BeginAt(t, from)
  \/ \E t \in Txns : BeginUntimed(t) \/ Continue(t)
  \/ \E s \in SessionIds : CancelGroup(s) \/ CancelOneOnOne(s)
  \/ \E b \in blocks : DeleteBlock(b)

Spec == Init /\ [][Next]_vars

(***************************************************************************)
(* Properties                                                              *)
(***************************************************************************)
SessionRow ==
  [kind: Kind, status: {"none", "draft", "published", "cancelled"}, i: Instructors \cup {None},
   from: 0..LastHour, to: 0..LastHour, learner: Learners \cup {None}, booked: BOOLEAN]
Request ==
  [op: Ops \cup {"none", "leave", "join"},
   pc: {"idle", "pick", "instructor", "learner", "commit", "write"},
   i: Instructors \cup {None}, l: Learners \cup {None}, s: SessionIds \cup {None},
   from: 0..LastHour, to: 0..LastHour, copy: Hour, todo: SUBSET Instructors]

\* Every variable keeps its type: in particular no session starts before the
\* calendar or ends after it, whatever columns two reschedulings leave behind.
TypeOK ==
  /\ sessions \in [SessionIds -> SessionRow]
  /\ blocks \subseteq Block
  /\ active \subseteq Instructors
  /\ userLock \in [Users -> Txns \cup {None}]
  /\ tx \in [Txns -> Request]

\* Hours run forwards, a session has its instructor, and a request knows by the
\* step it has reached whom and what it is about.
SoundRow ==
  {row \in SessionRow : row.from <= row.to /\ (row.status # "none" => row.i \in Instructors)}
SoundRequest ==
  {r \in Request :
     /\ r.from <= r.to
     /\ r.pc \in {"instructor", "learner", "commit"} \/ r.op \in {"leave", "join"}
          => r.i \in Instructors
     /\ r.op \in {"move", "resize", "publish"} => r.s \in SessionIds
     /\ r.op = "book" => r.l \in Learners
     /\ r.pc = "learner" => r.op = "book"}
TInv ==
  TypeOK /\ sessions \in [SessionIds -> SoundRow] /\ tx \in [Txns -> SoundRequest]

Gap(s1, s2) ==
  IF "one_on_one" \in {sessions[s1].kind, sessions[s2].kind} THEN Buffer ELSE 0

\* scheduling.py's two rules on what an instructor has agreed to: engagements
\* never overlap, and a one-to-one keeps its buffer clear on either side, of
\* discussions as well as of other one-to-ones.
CalendarKept ==
  \A i \in Instructors : \A s1, s2 \in EngagementsOf(i) : s1 # s2 =>
    ~Overlap(sessions[s1].from, sessions[s1].to,
             sessions[s2].from - Gap(s1, s2), sessions[s2].to + Gap(s1, s2))

\* create_block refuses to strand a session and the checks refuse to schedule
\* into a block: no engagement ever lies across blocked time.
BlocksHold ==
  \A b \in blocks : \A s \in EngagementsOf(b.i) :
    ~Overlap(b.from, b.to, sessions[s].from, sessions[s].to)

\* A row is held from the check to the commit, and a learner's row by nobody
\* who still has a row to wait for.
LInv ==
  \A t \in Txns, u \in Users : userLock[u] = t =>
    /\ tx[t].pc \in {"learner", "commit"}
    /\ u # tx[t].i => tx[t].pc = "commit" /\ u = tx[t].l

\* Between its check and its commit a request holds the instructor's row, and
\* what it checked is still true.
Checked(t) ==
  /\ userLock[tx[t].i] = t
  /\ \/ tx[t].op = "book" /\ Available(tx[t].i, tx[t].from, tx[t].to, "one_on_one", None)
     \/ /\ tx[t].op \in {"create", "draft", "move", "resize"}
        /\ Available(tx[t].i, tx[t].from, tx[t].to, "group", tx[t].s)
     \/ tx[t].op = "block" /\ SessionsOverlapping(tx[t].i, tx[t].from, tx[t].to) = {}

\* A request knows its session by what never changes: whose it is and, as long
\* as nobody is given another duration, its length.
Knows(r) ==
  /\ r.op \in {"create", "draft"} => r.s = None
  /\ r.op = "move" =>
       LET row == sessions[r.s]
       IN  /\ row.kind = "group" /\ row.status # "none" /\ row.i = r.i
           /\ row.to - row.from = r.to - r.from
           /\ row.to - row.from = r.copy.to - r.copy.from

\* The inductive invariant behind the calendar: services/scheduling.py checks
\* "under an instructor row lock so concurrent attempts serialise", and nobody
\* else's step undoes what such a check has found.
CInv ==
  /\ TInv /\ LInv
  /\ \A t \in Txns : tx[t].pc \in {"learner", "commit"} => Checked(t)
  /\ \A t \in Txns : Knows(tx[t])
  /\ CalendarKept /\ BlocksHold

\* What the exclusion constraints promise by themselves, unlocked publications
\* included: nobody teaches, or attends, two sessions at once.
NobodyTwiceAtOnce ==
  \A s1, s2 \in SessionIds : s1 # s2 /\
       \/ {s1, s2} \subseteq Engagements /\ sessions[s1].i = sessions[s2].i
       \/ sessions[s1].booked /\ sessions[s2].booked /\ sessions[s1].learner = sessions[s2].learner
    => ~Overlap(sessions[s1].from, sessions[s1].to, sessions[s2].from, sessions[s2].to)

Waiting(t) ==
  \/ tx[t].pc = "instructor" /\ ~UserFree(t, tx[t].i)
  \/ tx[t].pc = "learner" /\ ~UserFree(t, tx[t].l)
Awaited(t) == userLock[IF tx[t].pc = "learner" THEN tx[t].l ELSE tx[t].i]

Circle(S) == S # {} /\ \A t \in S : Waiting(t) /\ Awaited(t) \in S

\* "Lock ordering, to keep deadlocks out": instructor, then learner (booking.py).
\* Both rows are users', and any user may book, so the order leaves one way to
\* wait in a circle: instructors who book one another.  Whoever is waited for in
\* a circle is a booking that waits, in turn, as a learner for the row of the
\* next one's instructor; in particular no discussion, no block and no booking
\* that goes on to its next candidate is ever waited for.
OnlyInstructorsDeadlock ==
  \A S \in SUBSET Txns : Circle(S) =>
    \A t \in S : LET n == Awaited(t)
                 IN  /\ At(n, "book", "learner") /\ tx[n].l # tx[n].i
                     /\ tx[n].l = tx[Awaited(n)].i

\* The pages and the booking agree: an hour is on the calendar exactly if the
\* check made under the lock would take it with somebody, and the prefilter of
\* candidates names exactly those who pass it.
OffersAgree ==
  \A h \in Starts : h + Slot <= WindowEnd =>
    LET passing == {i \in active : Available(i, h, h + Slot, "one_on_one", None)}
    IN  (h \in OpenSlots <=> passing # {}) /\ FreeAt(h, h + Slot) = passing

\* "whatever comes back is bookable unless someone beats the caller to it"
\* (api/routes/instructors.py): with nothing in flight, a slot offered passes
\* the constraints its booking will meet.
OfferedIsBookable ==
  (\A t \in Txns : tx[t].pc = "idle") =>
    \A i \in active : \A h \in AvailableSlots(i) : OneOnOneFits(i, h, h + Slot)
=============================================================================
