-------------------------- MODULE SchedulingProofs --------------------------
(***************************************************************************)
(* Four invariants of Scheduling: TInv (types), LInv (who may hold which   *)
(* row, for OnlyInstructorsDeadlock), CInv (what a request has checked     *)
(* under the instructor's lock is still true when it commits, for          *)
(* CalendarKept and BlocksHold) and NInv (what the exclusion constraints   *)
(* need to know of the rows they compare, for NobodyTwiceAtOnce).  One     *)
(* step per action in each.                                                *)
(***************************************************************************)
EXTENDS Scheduling, TLAPS

USE SchedulingAssumption

(***************************************************************************)
(* Types                                                                   *)
(***************************************************************************)
\* The record of a request that is over is a request.
LEMMA IdleType == Idle \in SoundRequest /\ Idle \in Request
  BY DEF Idle, SoundRequest, Request, NoHour, Hour

\* A request that goes on with a well-typed record leaves tx well typed.
LEMMA ProceedType ==
  ASSUME TInv, NEW t \in Txns, NEW r \in SoundRequest, Proceed(t, r)
  PROVE  /\ tx' \in [Txns -> SoundRequest] /\ tx' \in [Txns -> Request]
         /\ tx'[t] = r
         /\ \A q \in Txns \ {t} : tx'[q] = tx[q]
<1>1. tx' \in [Txns -> SoundRequest] /\ tx'[t] = r /\ \A q \in Txns \ {t} : tx'[q] = tx[q]
  BY DEF Proceed, TInv
<1> QED BY <1>1 DEF SoundRequest

\* Locks let go are locks nobody else lost.
LEMMA ReleaseType ==
  ASSUME TInv, NEW t \in Txns, ReleaseLocks(t)
  PROVE  /\ userLock' \in [Users -> Txns \cup {None}]
         /\ \A u \in Users : userLock'[u] # t
         /\ \A u \in Users : userLock[u] # t => userLock'[u] = userLock[u]
         /\ \A u \in Users : userLock'[u] # None => userLock'[u] = userLock[u]
  BY DEF ReleaseLocks, TInv, TypeOK

\* A row taken is taken by the one who takes it.
LEMMA LockType ==
  ASSUME TInv, NEW t \in Txns, NEW u \in Users, Lock(t, u)
  PROVE  /\ userLock' \in [Users -> Txns \cup {None}]
         /\ userLock'[u] = t /\ userLock[u] \in {None, t}
         /\ \A v \in Users \ {u} : userLock'[v] = userLock[v]
  BY DEF Lock, UserFree, TInv, TypeOK

\* A step of a request that writes no table but may take and release locks.
LEMMA QuietType ==
  ASSUME TInv, NEW t \in Txns, NEW r \in SoundRequest, Proceed(t, r),
         userLock' \in [Users -> Txns \cup {None}], UNCHANGED <<sessions, blocks, active>>
  PROVE  TInv'
  BY ProceedType DEF TInv, TypeOK

\* A row written at the end of a transaction.
LEMMA WriteType ==
  ASSUME TInv, NEW t \in Txns, NEW s \in SessionIds, NEW row \in SoundRow, Write(t, s, row)
  PROVE  /\ TInv'
         /\ sessions'[s] = row /\ \A q \in SessionIds \ {s} : sessions'[q] = sessions[q]
<1>1. tx' \in [Txns -> SoundRequest] /\ tx' \in [Txns -> Request]
  BY ProceedType, IdleType DEF Write
<1>2. userLock' \in [Users -> Txns \cup {None}]
  BY ReleaseType DEF Write
<1>3. /\ sessions' \in [SessionIds -> SoundRow]
      /\ sessions'[s] = row /\ \A q \in SessionIds \ {s} : sessions'[q] = sessions[q]
  BY DEF Write, TInv
<1>4. sessions' \in [SessionIds -> SessionRow]
  BY <1>3 DEF SoundRow
<1> QED
  BY <1>1, <1>2, <1>3, <1>4 DEF TInv, TypeOK, Write

LEMMA InitType == Init => TInv
<1>1. NoSession \in SoundRow /\ NoSession \in SessionRow
  BY DEF NoSession, SoundRow, SessionRow, Kind
<1> QED BY <1>1, IdleType DEF Init, TInv, TypeOK

\* What is known of a request under way.
LEMMA RequestType ==
  ASSUME TInv, NEW t \in Txns
  PROVE  /\ tx[t] \in SoundRequest /\ tx[t] \in Request /\ tx[t].from <= tx[t].to
         /\ tx[t].from \in 0..LastHour /\ tx[t].to \in 0..LastHour
         /\ tx[t].i \in Instructors \cup {None} /\ tx[t].l \in Learners \cup {None}
         /\ tx[t].copy.from \in 0..LastHour /\ tx[t].copy.to \in 0..LastHour
         /\ tx[t].pc \in {"instructor", "learner", "commit"} \/ tx[t].op \in {"leave", "join"}
              => tx[t].i \in Instructors
         /\ tx[t].op \in {"move", "resize", "publish"} => tx[t].s \in SessionIds
         /\ tx[t].op = "book" => tx[t].l \in Learners
         /\ tx[t].pc = "learner" => tx[t].op = "book"
<1>1. tx[t] \in SoundRequest
  BY DEF TInv
<1>2. ASSUME NEW q \in Request
      PROVE  /\ q.from \in 0..LastHour /\ q.to \in 0..LastHour
             /\ q.i \in Instructors \cup {None} /\ q.l \in Learners \cup {None}
             /\ q.copy.from \in 0..LastHour /\ q.copy.to \in 0..LastHour
  BY DEF Request, Hour
<1> QED BY <1>1, <1>2 DEF SoundRequest

\* A request that goes on keeps its hour.
LEMMA GoOnType ==
  ASSUME TInv, NEW t \in Txns
  PROVE  /\ [tx[t] EXCEPT !.pc = "pick"] \in SoundRequest
         /\ tx[t].i \in Instructors => [tx[t] EXCEPT !.pc = "commit"] \in SoundRequest
         /\ tx[t].i \in Instructors /\ tx[t].op = "book"
              => [tx[t] EXCEPT !.pc = "learner"] \in SoundRequest
         /\ \A i \in Instructors :
              [tx[t] EXCEPT !.pc = "instructor", !.i = i, !.todo = @ \ {i}] \in SoundRequest
<1> DEFINE q == tx[t]
<1>1. q \in Request /\ q \in SoundRequest
  BY RequestType
<1>2. ASSUME NEW pc \in {"pick", "learner", "commit"},
             pc # "pick" => q.i \in Instructors, pc = "learner" => q.op = "book"
      PROVE  [q EXCEPT !.pc = pc] \in SoundRequest
  <2> DEFINE r == [q EXCEPT !.pc = pc]
  <2> HIDE DEF q
  <2>1. r \in Request
    BY <1>1 DEF Request
  <2>2. r.pc = pc /\ r.i = q.i /\ r.from = q.from /\ r.to = q.to /\ r.op = q.op /\ r.s = q.s /\ r.l = q.l
    BY <1>1 DEF Request
  <2> QED BY <1>1, <1>2, <2>1, <2>2 DEF SoundRequest
<1>3. ASSUME NEW i \in Instructors
      PROVE  [q EXCEPT !.pc = "instructor", !.i = i, !.todo = @ \ {i}] \in SoundRequest
  <2> DEFINE r == [q EXCEPT !.pc = "instructor", !.i = i, !.todo = @ \ {i}]
  <2> HIDE DEF q
  <2>1. r \in Request
    BY <1>1 DEF Request
  <2>2. r.pc = "instructor" /\ r.i = i /\ r.from = q.from /\ r.to = q.to /\ r.op = q.op /\ r.s = q.s /\ r.l = q.l
    BY <1>1 DEF Request
  <2> QED BY <1>1, <2>1, <2>2 DEF SoundRequest
<1> QED BY <1>2, <1>3

\* A rescheduling is of a discussion of the instructor whose row it locks.
Regards(r) ==
  r.op \in {"move", "resize"} =>
    LET row == sessions[r.s]
    IN  row.kind = "group" /\ row.status # "none" /\ row.i = r.i

\* A request that begins writes nothing, holds nothing and knows its session.
Opens(t) ==
  /\ tx[t].pc = "idle"
  /\ \E r \in SoundRequest :
       Proceed(t, r) /\ r.pc \notin {"learner", "commit"} /\ Knows(r) /\ Regards(r)
  /\ UNCHANGED <<sessions, blocks, active, userLock>>

\* A rescheduling begins with the row as it was read.
LEMMA RescheduleOpens ==
  ASSUME TInv, NEW t \in Txns, NEW from \in 0..LastHour, NEW to \in Int, from <= to,
         NEW s \in SessionIds, NEW op \in {"move", "resize"}, Reschedule(t, op, s, from, to),
         op = "move" => to - from = sessions[s].to - sessions[s].from
  PROVE  Opens(t)
<1> DEFINE copy == [from |-> sessions[s].from, to |-> sessions[s].to]
           r == [Idle EXCEPT !.op = op, !.pc = "instructor", !.i = sessions[s].i, !.s = s,
                             !.from = from, !.to = to, !.copy = copy]
<1>0. /\ copy \in Hour /\ sessions[s].i \in Instructors
      /\ sessions[s].status # "none" /\ sessions[s].kind = "group"
  <2>1. sessions[s] \in SoundRow /\ sessions[s] \in SessionRow /\ sessions[s].status # "none"
    BY DEF TInv, TypeOK, Reschedule, Engagements
  <2> QED BY <2>1 DEF SessionRow, SoundRow, Hour, Reschedule
<1>1. r \in SoundRequest
  <2>1. op \in Ops /\ to \in 0..LastHour
    BY DEF Reschedule, Begins, Fits
  <2> HIDE DEF copy
  <2> QED BY <1>0, <2>1, IdleType DEF Idle, Request, SoundRequest, NoHour, Hour
<1>2. Knows(r) /\ Regards(r)
  BY <1>0 DEF Knows, Regards, Idle
<1>3. Proceed(t, r) /\ UNCHANGED <<sessions, blocks, active, userLock>> /\ tx[t].pc = "idle"
  BY DEF Reschedule, Begins
<1>4. r.pc \notin {"learner", "commit"}
  BY DEF Idle
<1> HIDE DEF r
<1> QED BY <1>1, <1>2, <1>3, <1>4 DEF Opens

\* So do the others that begin at an hour.
LEMMA BeginOpens ==
  ASSUME TInv, NEW t \in Txns, NEW from \in 0..LastHour, NEW to \in Int, from <= to, Begin(t, from, to)
  PROVE  Opens(t)
<1>1. ASSUME NEW l \in Learners, NEW candidates \in SUBSET Instructors, Book(t, l, candidates, from, to)
      PROVE  Opens(t)
  <2> DEFINE r == [Idle EXCEPT !.op = "book", !.pc = "pick", !.l = l, !.from = from, !.to = to,
                               !.todo = candidates]
  <2>1. "book" \in Ops /\ to \in 0..LastHour
    BY <1>1 DEF Book, Begins, Fits
  <2>2. r \in Request
    BY <2>1, IdleType DEF Idle, Request, NoHour, Hour
  <2>3. r \in SoundRequest /\ Knows(r) /\ Regards(r) /\ r.pc \notin {"learner", "commit"}
    BY <2>2 DEF SoundRequest, Idle, Knows, Regards
  <2> HIDE DEF r
  <2> QED BY <1>1, <2>3 DEF Book, Begins, Opens, r
<1>2. ASSUME NEW l \in Learners, BookPooled(t, l, from, to) PROVE Opens(t)
  <2>1. FreeAt(from, to) \in SUBSET Instructors
    BY DEF FreeAt, TInv, TypeOK
  <2> QED BY <1>1, <1>2, <2>1 DEF BookPooled
<1>3. ASSUME NEW l \in Learners, NEW i \in Instructors, BookWith(t, l, i, from, to) PROVE Opens(t)
  BY <1>1, <1>3 DEF BookWith
<1>4. ASSUME NEW i \in Instructors, NEW op \in {"create", "draft", "block"}, Begins(t, op), Fits(from, to),
             Proceed(t, [Idle EXCEPT !.op = op, !.pc = "instructor", !.i = i, !.from = from, !.to = to]),
             UNCHANGED <<sessions, blocks, active, userLock>>
      PROVE  Opens(t)
  <2> DEFINE r == [Idle EXCEPT !.op = op, !.pc = "instructor", !.i = i, !.from = from, !.to = to]
  <2>1. op \in Ops /\ to \in 0..LastHour
    BY <1>4 DEF Fits, Begins
  <2>2. r \in Request
    BY <2>1, IdleType DEF Idle, Request, NoHour, Hour
  <2>3. r \in SoundRequest /\ Knows(r) /\ Regards(r) /\ r.pc \notin {"learner", "commit"}
    BY <2>2 DEF SoundRequest, Idle, Knows, Regards
  <2> HIDE DEF r
  <2> QED BY <1>4, <2>3 DEF Begins, Opens, r
<1>5. ASSUME NEW i \in Instructors, NEW op \in {"create", "draft"}, Create(t, op, i, from, to)
      PROVE  Opens(t)
  BY <1>4, <1>5 DEF Create
<1>6. ASSUME NEW i \in Instructors, BeginBlock(t, i, from, to) PROVE Opens(t)
  BY <1>4, <1>6 DEF BeginBlock
<1>7. ASSUME NEW s \in SessionIds, Resize(t, s, from, to) PROVE Opens(t)
  BY <1>7, RescheduleOpens DEF Resize
<1> QED
  BY <1>2, <1>3, <1>5, <1>6, <1>7 DEF Begin

\* And those that keep a session's length, or carry no hour.
LEMMA BeginOtherOpens ==
  ASSUME TInv, NEW t \in Txns
  PROVE  /\ \A from \in 0..LastHour : BeginAt(t, from) => Opens(t)
         /\ BeginUntimed(t) => Opens(t)
<1>1. ASSUME NEW from \in 0..LastHour, NEW s \in SessionIds, Move(t, s, from) PROVE Opens(t)
  <2> DEFINE to == from + sessions[s].to - sessions[s].from
  <2>1. sessions[s] \in SoundRow /\ sessions[s] \in SessionRow
    BY DEF TInv, TypeOK
  <2>2. to \in Int /\ from <= to /\ to - from = sessions[s].to - sessions[s].from
    BY <2>1 DEF SessionRow, SoundRow
  <2>3. Reschedule(t, "move", s, from, to)
    BY <1>1 DEF Move
  <2> HIDE DEF to
  <2> QED BY <2>2, <2>3, RescheduleOpens
<1>2. ASSUME NEW s \in SessionIds, Publish(t, s) PROVE Opens(t)
  <2> DEFINE r == [Idle EXCEPT !.op = "publish", !.pc = "write", !.s = s]
  <2>1. r \in SoundRequest
    BY <1>2, IdleType DEF Publish, Begins, Idle, Request, SoundRequest, NoHour, Hour
  <2>2. Knows(r) /\ Regards(r) /\ r.pc \notin {"learner", "commit"}
    BY DEF Knows, Regards, Idle
  <2> HIDE DEF r
  <2> QED BY <1>2, <2>1, <2>2 DEF Publish, Begins, Opens, r
<1>3. ASSUME NEW i \in Instructors, Update(t, i) PROVE Opens(t)
  <2> DEFINE r == [Idle EXCEPT !.op = IF i \in active THEN "leave" ELSE "join", !.pc = "write", !.i = i]
  <2>1. r \in SoundRequest
    <3>1. CASE i \in active
      BY <3>1, IdleType DEF Idle, Request, SoundRequest, NoHour, Hour
    <3>2. CASE i \notin active
      BY <3>2, IdleType DEF Idle, Request, SoundRequest, NoHour, Hour
    <3> QED BY <3>1, <3>2
  <2>2. Knows(r) /\ Regards(r) /\ r.pc \notin {"learner", "commit"}
    BY DEF Knows, Regards, Idle
  <2> HIDE DEF r
  <2> QED BY <1>3, <2>1, <2>2 DEF Update, Begins, Opens, r
<1> QED
  BY <1>1, <1>2, <1>3 DEF BeginAt, BeginUntimed

\* The three ways in which Next begins a request.
LEMMA NextOpens ==
  ASSUME TInv, Next
  PROVE  \/ \E t \in Txns : Opens(t) \/ Continue(t)
         \/ \E s \in SessionIds : CancelGroup(s) \/ CancelOneOnOne(s)
         \/ \E b \in blocks : DeleteBlock(b)
<1>1. ASSUME NEW t \in Txns, NEW from \in 0..LastHour, NEW length \in Lengths,
             Begin(t, from, from + length)
      PROVE  Opens(t)
  <2>1. from + length \in Int /\ from <= from + length
    OBVIOUS
  <2> QED BY <1>1, <2>1, BeginOpens
<1> QED
  BY <1>1, BeginOtherOpens DEF Next

\* Opening a request leaves the types as they are.
LEMMA OpensSound ==
  ASSUME TInv, NEW t \in Txns, Opens(t)
  PROVE  TInv'
  BY QuietType DEF Opens, TInv, TypeOK

\* So does every step of a request that is under way.
LEMMA ContinueSound ==
  ASSUME TInv, NEW t \in Txns, Continue(t)
  PROVE  TInv'
<1> DEFINE To(pc) == [tx[t] EXCEPT !.pc = pc]
<1>1. ASSUME PickCandidate(t) PROVE TInv'
  <2>1. PICK i \in Instructors :
          Proceed(t, [tx[t] EXCEPT !.pc = "instructor", !.i = i, !.todo = @ \ {i}])
    BY <1>1 DEF PickCandidate, TInv, TypeOK
  <2> QED BY <1>1, <2>1, GoOnType, QuietType DEF PickCandidate, TInv, TypeOK
<1>2. ASSUME BookInstructor(t) \/ GroupInstructor(t) \/ BlockInstructor(t) \/ BookLearner(t)
      PROVE  TInv'
  <2>1. PICK u : Lock(t, u)
    BY <1>2 DEF BookInstructor, GroupInstructor, BlockInstructor, BookLearner, LockAndCheck
  <2>2. userLock' \in [Users -> Txns \cup {None}]
    BY <2>1 DEF Lock, TInv, TypeOK
  <2>3. PICK r \in SoundRequest : Proceed(t, r)
    <3>1. tx[t].i \in Instructors
      BY <1>2, RequestType DEF BookInstructor, GroupInstructor, BlockInstructor, BookLearner,
           LockAndCheck, At
    <3>2. CASE BookInstructor(t)
      BY <3>1, <3>2, GoOnType DEF BookInstructor
    <3>3. CASE ~BookInstructor(t)
      BY <1>2, <3>1, <3>3, GoOnType DEF GroupInstructor, BlockInstructor, BookLearner
    <3> QED BY <3>2, <3>3
  <2>4. UNCHANGED <<sessions, blocks, active>>
    BY <1>2 DEF BookInstructor, GroupInstructor, BlockInstructor, BookLearner, LockAndCheck
  <2> QED BY <2>2, <2>3, <2>4, QuietType
<1>3. ASSUME InstructorTaken(t) \/ BookCollides(t) PROVE TInv'
  BY <1>3, GoOnType, QuietType, ReleaseType DEF InstructorTaken, BookCollides, NextCandidate
<1>4. ASSUME BookCommit(t) PROVE TInv'
  <2> DEFINE row == [kind |-> "one_on_one", status |-> "published", i |-> tx[t].i,
                     from |-> tx[t].from, to |-> tx[t].to, learner |-> tx[t].l, booked |-> TRUE]
  <2>1. row \in SoundRow
    BY <1>4, RequestType DEF BookCommit, At, SessionRow, SoundRow, Kind
  <2> QED BY <1>4, <2>1, WriteType DEF BookCommit
<1>5. ASSUME CreateCommit(t) PROVE TInv'
  <2> DEFINE row == [NoSession EXCEPT !.status = IF tx[t].op = "draft" THEN "draft" ELSE "published",
                                      !.i = tx[t].i, !.from = tx[t].from, !.to = tx[t].to]
  <2>1. row \in SoundRow
    BY <1>5, RequestType DEF CreateCommit, SessionRow, SoundRow, Kind, NoSession
  <2> QED BY <1>5, <2>1, WriteType DEF CreateCommit
<1>6. ASSUME RescheduleCommit(t) PROVE TInv'
  <2>1. tx[t].s \in SessionIds /\ sessions[tx[t].s] \in SoundRow
    BY <1>6, RequestType DEF RescheduleCommit, TInv
  <2>2. ASSUME NEW row \in SoundRow, NEW from \in 0..LastHour, NEW to \in 0..LastHour, from <= to
        PROVE  [row EXCEPT !.from = from, !.to = to] \in SoundRow
    BY <2>2 DEF SessionRow, SoundRow
  <2> DEFINE row == sessions[tx[t].s]
             from == IF tx[t].from = tx[t].copy.from THEN row.from ELSE tx[t].from
             to == IF tx[t].to = tx[t].copy.to THEN row.to ELSE tx[t].to
  <2>3. Rescheduled(t) = [row EXCEPT !.from = from, !.to = to]
    BY DEF Rescheduled
  <2>4. from \in 0..LastHour /\ to \in 0..LastHour
    BY <2>1, RequestType DEF SessionRow, SoundRow
  <2>5. from <= to
    BY <1>6, <2>1, <2>3, <2>4 DEF RescheduleCommit, SessionRow, SoundRow
  <2>6. Rescheduled(t) \in SoundRow
    <3>1. row \in SoundRow
      BY <2>1
    <3>2. [row EXCEPT !.from = from, !.to = to] \in SoundRow
      <4> HIDE DEF row, from, to
      <4> QED BY <3>1, <2>2, <2>4, <2>5
    <3> QED BY <2>3, <3>2, Zenon
  <2> QED BY <1>6, <2>1, <2>6, WriteType DEF RescheduleCommit
<1>7. ASSUME PublishCommit(t) PROVE TInv'
  <2> DEFINE row == sessions[tx[t].s]
  <2>1. tx[t].s \in SessionIds /\ row \in SoundRow /\ row \in SessionRow
    BY <1>7, RequestType DEF PublishCommit, At, TInv, TypeOK
  <2>2. row.status # "none"
    BY <1>7 DEF PublishCommit
  <2>3. [row EXCEPT !.status = "published"] \in SoundRow
    <3> HIDE DEF row
    <3> QED BY <2>1, <2>2 DEF SoundRow, SessionRow
  <2> QED BY <1>7, <2>1, <2>3, WriteType DEF PublishCommit
<1>8. ASSUME BlockCommit(t) PROVE TInv'
  <2>1. [i |-> tx[t].i, from |-> tx[t].from, to |-> tx[t].to] \in Block
    BY <1>8, RequestType DEF BlockCommit, At, Block
  <2>2. userLock' \in [Users -> Txns \cup {None}]
    BY <1>8, ReleaseType DEF BlockCommit
  <2>3. tx' \in [Txns -> SoundRequest] /\ tx' \in [Txns -> Request]
    BY <1>8, IdleType, ProceedType DEF BlockCommit
  <2> QED BY <1>8, <2>1, <2>2, <2>3 DEF BlockCommit, TInv, TypeOK
<1>9. ASSUME UpdateCommit(t) PROVE TInv'
  <2>1. tx[t].i \in Instructors
    BY <1>9, RequestType DEF UpdateCommit
  <2>2. tx' \in [Txns -> SoundRequest] /\ tx' \in [Txns -> Request]
    BY <1>9, IdleType, ProceedType DEF UpdateCommit
  <2> QED BY <1>9, <2>1, <2>2 DEF UpdateCommit, TInv, TypeOK
<1>10. ASSUME Rollback(t) PROVE TInv'
  BY <1>10, QuietType, IdleType, ReleaseType DEF Rollback
<1> QED
  BY <1>1, <1>2, <1>3, <1>4, <1>5, <1>6, <1>7, <1>8, <1>9, <1>10 DEF Continue

\* The steps that need no request at all.
LEMMA OtherSound ==
  ASSUME TInv
  PROVE  /\ \A s \in SessionIds : CancelGroup(s) \/ CancelOneOnOne(s) => TInv'
         /\ \A b \in blocks : DeleteBlock(b) => TInv'
         /\ UNCHANGED vars => TInv'
<1>1. ASSUME NEW s \in SessionIds, CancelGroup(s) \/ CancelOneOnOne(s) PROVE TInv'
  <2> DEFINE row == sessions[s]
  <2>1. row \in SoundRow /\ row \in SessionRow
    BY DEF TInv, TypeOK
  <2>2. [row EXCEPT !.booked = FALSE] \in SoundRow
    BY <2>1 DEF SoundRow, SessionRow
  <2>3. row.status # "none" => [row EXCEPT !.status = "cancelled"] \in SoundRow
    BY <2>1 DEF SoundRow, SessionRow
  <2>4. PICK r \in SoundRow : sessions' = [sessions EXCEPT ![s] = r]
    BY <1>1, <2>2, <2>3 DEF CancelGroup, CancelOneOnOne, Engagements
  <2>5. sessions' \in [SessionIds -> SoundRow] /\ sessions' \in [SessionIds -> SessionRow]
    BY <2>4 DEF TInv, TypeOK, SoundRow
  <2> QED BY <1>1, <2>5 DEF CancelGroup, CancelOneOnOne, TInv, TypeOK
<1>2. ASSUME NEW b \in blocks, DeleteBlock(b) PROVE TInv'
  BY <1>2 DEF DeleteBlock, TInv, TypeOK
<1>3. UNCHANGED vars => TInv'
  BY DEF vars, TInv, TypeOK
<1> QED BY <1>1, <1>2, <1>3

LEMMA StepType == TInv /\ [Next]_vars => TInv'
<1> SUFFICES ASSUME TInv, Next PROVE TInv'
  BY OtherSound
<1> QED
  BY NextOpens, OpensSound, ContinueSound, OtherSound

\* Whatever requests meet, every variable keeps its type.
THEOREM CalendarTypes == Spec => []TypeOK
<1>1. TInv => TypeOK
  BY DEF TInv
<1> QED BY <1>1, InitType, StepType, PTL DEF Spec

(***************************************************************************)
(* Locks                                                                   *)
(***************************************************************************)
\* A request that holds nothing begins, or picks its next candidate.
LEMMA UnlockedStep ==
  ASSUME TInv, LInv, NEW t \in Txns, NEW r \in SoundRequest, Proceed(t, r),
         tx[t].pc \notin {"learner", "commit"}, UNCHANGED userLock
  PROVE  LInv'
  BY ProceedType DEF LInv

\* A request that lets its locks go may do anything next.
LEMMA ReleaseStep ==
  ASSUME TInv, LInv, NEW t \in Txns, NEW r \in SoundRequest, Proceed(t, r), ReleaseLocks(t)
  PROVE  LInv'
<1> SUFFICES ASSUME NEW q \in Txns, NEW u \in Users, userLock'[u] = q
             PROVE  /\ tx'[q].pc \in {"learner", "commit"}
                    /\ u # tx'[q].i => tx'[q].pc = "commit" /\ u = tx'[q].l
  BY DEF LInv
<1>1. q # t /\ userLock[u] = q
  BY ReleaseType
<1> QED BY <1>1, ProceedType DEF LInv

\* The instructor's row is a request's first.
LEMMA LockStep ==
  ASSUME TInv, LInv, NEW t \in Txns, NEW pc \in {"learner", "commit"},
         Lock(t, tx[t].i), tx[t].pc = "instructor", pc = "learner" => tx[t].op = "book",
         Proceed(t, [tx[t] EXCEPT !.pc = pc])
  PROVE  LInv'
<1>1. tx[t].i \in Users /\ tx[t].i \in Instructors
  BY RequestType DEF Users
<1>2. [tx[t] EXCEPT !.pc = pc] \in SoundRequest
  BY <1>1, GoOnType
<1>3. /\ tx'[t] = [tx[t] EXCEPT !.pc = pc] /\ \A q \in Txns \ {t} : tx'[q] = tx[q]
  BY <1>2, ProceedType
<1>4. tx'[t].pc = pc /\ tx'[t].i = tx[t].i
  BY <1>3, RequestType DEF Request
<1>5. \A u \in Users : userLock'[u] = t => u = tx[t].i
  BY <1>1, LockType DEF LInv
<1>6. \A q \in Txns \ {t}, u \in Users : userLock'[u] = q => userLock[u] = q
  BY <1>1, LockType
<1> SUFFICES ASSUME NEW q \in Txns, NEW u \in Users, userLock'[u] = q
             PROVE  /\ tx'[q].pc \in {"learner", "commit"}
                    /\ u # tx'[q].i => tx'[q].pc = "commit" /\ u = tx'[q].l
  BY DEF LInv
<1>7. CASE q = t
  BY <1>4, <1>5, <1>7
<1>8. CASE q # t
  BY <1>3, <1>6, <1>8 DEF LInv
<1> QED BY <1>7, <1>8

\* The learner's row is the last.
LEMMA LockLearnerStep ==
  ASSUME TInv, LInv, NEW t \in Txns, BookLearner(t)
  PROVE  LInv'
<1>1. tx[t].l \in Users /\ tx[t].i \in Instructors
  BY RequestType DEF Users, BookLearner, At
<1>2. [tx[t] EXCEPT !.pc = "commit"] \in SoundRequest
  BY <1>1, GoOnType
<1>3. /\ tx'[t] = [tx[t] EXCEPT !.pc = "commit"] /\ \A q \in Txns \ {t} : tx'[q] = tx[q]
  BY <1>2, ProceedType DEF BookLearner
<1>4. tx'[t].pc = "commit" /\ tx'[t].i = tx[t].i /\ tx'[t].l = tx[t].l
  BY <1>3, RequestType DEF Request
<1>5. \A u \in Users : userLock'[u] = t => u \in {tx[t].i, tx[t].l}
  BY <1>1, LockType DEF LInv, BookLearner, At
<1>6. \A q \in Txns \ {t}, u \in Users : userLock'[u] = q => userLock[u] = q
  BY <1>1, LockType DEF BookLearner
<1> SUFFICES ASSUME NEW q \in Txns, NEW u \in Users, userLock'[u] = q
             PROVE  /\ tx'[q].pc \in {"learner", "commit"}
                    /\ u # tx'[q].i => tx'[q].pc = "commit" /\ u = tx'[q].l
  BY DEF LInv
<1>7. CASE q = t
  BY <1>4, <1>5, <1>7
<1>8. CASE q # t
  BY <1>3, <1>6, <1>8 DEF LInv
<1> QED BY <1>7, <1>8

LEMMA InitLocks == Init => LInv
  BY DEF Init, LInv

LEMMA StepLocks == TInv /\ LInv /\ [Next]_vars => LInv'
<1> SUFFICES ASSUME TInv, LInv, Next PROVE LInv'
  BY DEF LInv, vars
<1>1. ASSUME NEW t \in Txns, Opens(t) PROVE LInv'
  BY <1>1, UnlockedStep DEF Opens
<1>2. ASSUME NEW t \in Txns, PickCandidate(t) PROVE LInv'
  <2>1. PICK i \in Instructors :
          Proceed(t, [tx[t] EXCEPT !.pc = "instructor", !.i = i, !.todo = @ \ {i}])
    BY <1>2 DEF PickCandidate, TInv, TypeOK
  <2> QED BY <1>2, <2>1, GoOnType, UnlockedStep DEF PickCandidate, At
<1>3. ASSUME NEW t \in Txns, BookInstructor(t) \/ GroupInstructor(t) \/ BlockInstructor(t) PROVE LInv'
  BY <1>3, LockStep DEF BookInstructor, GroupInstructor, BlockInstructor, LockAndCheck
<1>4. ASSUME NEW t \in Txns, BookLearner(t) PROVE LInv'
  BY <1>4, LockLearnerStep
<1>5. ASSUME NEW t \in Txns, InstructorTaken(t) \/ BookCollides(t) PROVE LInv'
  BY <1>5, GoOnType, ReleaseStep DEF InstructorTaken, BookCollides, NextCandidate
<1>6. ASSUME NEW t \in Txns, BookCommit(t) \/ CreateCommit(t) \/ RescheduleCommit(t) \/ PublishCommit(t)
      PROVE LInv'
  BY <1>6, IdleType, ReleaseStep
     DEF BookCommit, CreateCommit, RescheduleCommit, PublishCommit, Write
<1>7. ASSUME NEW t \in Txns, BlockCommit(t) \/ Rollback(t) PROVE LInv'
  BY <1>7, IdleType, ReleaseStep DEF BlockCommit, Rollback
<1>8. ASSUME NEW t \in Txns, UpdateCommit(t) PROVE LInv'
  BY <1>8, IdleType, UnlockedStep DEF UpdateCommit
<1>9. ASSUME NEW s \in SessionIds, CancelGroup(s) \/ CancelOneOnOne(s) PROVE LInv'
  BY <1>9 DEF CancelGroup, CancelOneOnOne, LInv
<1>10. ASSUME NEW b \in blocks, DeleteBlock(b) PROVE LInv'
  BY <1>10 DEF DeleteBlock, LInv
<1> QED
  BY NextOpens, <1>1, <1>2, <1>3, <1>4, <1>5, <1>6, <1>7, <1>8, <1>9, <1>10 DEF Continue

\* Whoever is waited for in a circle holds a row and waits himself: he is past
\* the check of a booking, holds his instructor's row and no other, and so it is
\* his instructor's row that the one behind him waits for.
LEMMA HoldsTheInstructor ==
  ASSUME TInv, LInv, NEW n \in Txns, Waiting(n), NEW u \in Users, userLock[u] = n
  PROVE  At(n, "book", "learner") /\ u = tx[n].i /\ tx[n].l \in Users
<1>1. tx[n].pc \in {"learner", "commit"} /\ (u # tx[n].i => tx[n].pc = "commit")
  BY DEF LInv
<1>2. tx[n].pc = "learner" /\ u = tx[n].i
  BY <1>1 DEF Waiting
<1>3. tx[n].op = "book" /\ tx[n].l \in Learners
  BY <1>2, RequestType DEF SoundRequest
<1> QED BY <1>2, <1>3 DEF At, Users

LEMMA CirclesOfInstructors == TInv /\ LInv => OnlyInstructorsDeadlock
<1> SUFFICES ASSUME TInv, LInv, NEW S \in SUBSET Txns, Circle(S), NEW t \in S
             PROVE  LET n == Awaited(t)
                    IN  /\ At(n, "book", "learner") /\ tx[n].l # tx[n].i
                        /\ tx[n].l = tx[Awaited(n)].i
  BY DEF OnlyInstructorsDeadlock
<1> DEFINE n == Awaited(t)
           h == Awaited(n)
<1>1. \A q \in S : q \in Txns /\ Waiting(q) /\ Awaited(q) \in S
  BY DEF Circle
<1>2. PICK u \in Users : userLock[u] = n
  <2>1. tx[t].pc = "instructor" => tx[t].i \in Users
    BY RequestType, <1>1 DEF Users
  <2>2. tx[t].pc = "learner" => tx[t].l \in Users
    BY RequestType, <1>1 DEF SoundRequest, Users
  <2> QED BY <1>1, <2>1, <2>2 DEF Waiting, Awaited
<1>3. n \in Txns /\ Waiting(n) /\ h \in Txns /\ Waiting(h)
  BY <1>1
<1> HIDE DEF n
<1>4. At(n, "book", "learner") /\ tx[n].l \in Users
  BY <1>2, <1>3, HoldsTheInstructor
<1>5. h = userLock[tx[n].l]
  BY <1>4 DEF At, Awaited
<1>6. userLock[tx[n].i] = n
  BY <1>2, <1>3, HoldsTheInstructor
<1>7. tx[n].l # tx[n].i
  BY <1>3, <1>4, <1>6 DEF Waiting, UserFree, At
<1> HIDE DEF h
<1>8. tx[n].l = tx[h].i
  BY <1>3, <1>4, <1>5, HoldsTheInstructor
<1> QED BY <1>4, <1>7, <1>8 DEF n, h

\* "Lock ordering, to keep deadlocks out" (booking.py): requests on the calendar
\* wait for one another in a circle only if each of them is an instructor's
\* booking that waits, as a learner's, for the row of the next one's instructor.
THEOREM OnlyInstructorsWaitInCircles == Spec => []OnlyInstructorsDeadlock
<1>1. Init => TInv /\ LInv
  BY InitType, InitLocks
<1>2. TInv /\ LInv /\ [Next]_vars => TInv' /\ LInv'
  BY StepType, StepLocks
<1> QED BY <1>1, <1>2, CirclesOfInstructors, PTL DEF Spec

(***************************************************************************)
(* The calendar                                                            *)
(***************************************************************************)
\* The calendar of an instructor does not fill up: what is on it was on it.
Shrinks(i) ==
  /\ \A b \in blocks' : b.i = i => b \in blocks
  /\ \A e \in SessionIds :
       sessions'[e].status \in {"draft", "published"} /\ sessions'[e].i = i =>
         /\ sessions[e].status \in {"draft", "published"} /\ sessions[e].i = i
         /\ sessions'[e].from = sessions[e].from /\ sessions'[e].to = sessions[e].to
         /\ sessions'[e].kind = sessions[e].kind

\* What a request knows of its session: no step makes it untrue.
KeepsLengths ==
  \A s \in SessionIds : sessions[s].status # "none" =>
    /\ sessions'[s].status # "none" /\ sessions'[s].kind = sessions[s].kind
    /\ sessions'[s].i = sessions[s].i
    /\ sessions'[s].to - sessions'[s].from = sessions[s].to - sessions[s].from

\* What one request has checked survives the steps of the others.
LEMMA StillChecked ==
  ASSUME NEW q \in Txns, tx'[q] = tx[q], userLock'[tx[q].i] = userLock[tx[q].i],
         Shrinks(tx[q].i), Checked(q)
  PROVE  Checked(q)'
<1>1. tx[q].op = "block" => SessionsOverlapping(tx[q].i, tx[q].from, tx[q].to)' = {}
  BY DEF Checked, Shrinks, SessionsOverlapping, EngagementsOf, Engagements
<1>2. tx[q].op = "book" => Available(tx[q].i, tx[q].from, tx[q].to, "one_on_one", None)'
  BY DEF Checked, Shrinks, Available, Blocked, Conflicting, OneOnOneWithinBuffer,
     EngagementsOf, Engagements
<1>3. tx[q].op \in {"create", "draft", "move", "resize"}
        => Available(tx[q].i, tx[q].from, tx[q].to, "group", tx[q].s)'
  BY DEF Checked, Shrinks, Available, Blocked, Conflicting, OneOnOneWithinBuffer,
     EngagementsOf, Engagements
<1> QED BY <1>1, <1>2, <1>3 DEF Checked

\* Nor does a calendar that does not fill up break a rule it kept.
LEMMA StillKept ==
  ASSUME CalendarKept, BlocksHold, TInv, TInv', \A i \in Instructors : Shrinks(i)
  PROVE  CalendarKept' /\ BlocksHold'
<1>1. CalendarKept'
  <2> SUFFICES ASSUME NEW i \in Instructors, NEW s1 \in EngagementsOf(i)', NEW s2 \in EngagementsOf(i)',
                      s1 # s2
               PROVE  ~Overlap(sessions[s1].from, sessions[s1].to,
                               sessions[s2].from - Gap(s1, s2), sessions[s2].to + Gap(s1, s2))'
    BY DEF CalendarKept
  <2>1. /\ s1 \in EngagementsOf(i) /\ s2 \in EngagementsOf(i)
        /\ sessions'[s1].from = sessions[s1].from /\ sessions'[s1].to = sessions[s1].to
        /\ sessions'[s2].from = sessions[s2].from /\ sessions'[s2].to = sessions[s2].to
        /\ sessions'[s1].kind = sessions[s1].kind /\ sessions'[s2].kind = sessions[s2].kind
    BY DEF Shrinks, EngagementsOf, Engagements
  <2>2. Gap(s1, s2)' = Gap(s1, s2)
    BY <2>1 DEF Gap
  <2>3. ~Overlap(sessions[s1].from, sessions[s1].to,
                 sessions[s2].from - Gap(s1, s2), sessions[s2].to + Gap(s1, s2))
    BY <2>1 DEF CalendarKept
  <2> QED BY <2>1, <2>2, <2>3 DEF Overlap
<1>2. BlocksHold'
  <2> SUFFICES ASSUME NEW b \in blocks', NEW s \in EngagementsOf(b.i)'
               PROVE  ~Overlap(b.from, b.to, sessions[s].from, sessions[s].to)'
    BY DEF BlocksHold
  <2>1. b.i \in Instructors
    BY DEF TInv, TypeOK, Block
  <2>2. /\ b \in blocks /\ s \in EngagementsOf(b.i)
        /\ sessions'[s].from = sessions[s].from /\ sessions'[s].to = sessions[s].to
    BY <2>1 DEF Shrinks, EngagementsOf, Engagements
  <2> QED BY <2>2 DEF BlocksHold, Overlap
<1> QED BY <1>1, <1>2

\* An engagement written where assert_instructor_available has looked keeps
\* every rule.
LEMMA WrittenWhereFree ==
  ASSUME TInv, CalendarKept, BlocksHold, NEW s \in SessionIds, NEW row \in SoundRow,
         sessions' = [sessions EXCEPT ![s] = row], blocks' = blocks,
         NEW except, except = s \/ except \notin SessionIds, 
         Available(row.i, row.from, row.to, row.kind, except)
  PROVE  CalendarKept' /\ BlocksHold'
<1>1. /\ row.kind \in {"group", "one_on_one"} /\ row.from \in Int /\ row.to \in Int
      /\ \A e \in SessionIds : /\ sessions[e].kind \in {"group", "one_on_one"}
                               /\ sessions[e].from \in Int /\ sessions[e].to \in Int
  BY DEF TInv, TypeOK, SoundRow, SessionRow, Kind
<1>2. sessions'[s] = row /\ \A e \in SessionIds \ {s} : sessions'[e] = sessions[e]
  BY DEF TInv
<1>3. ASSUME NEW e \in SessionIds \ {s}, e \in EngagementsOf(row.i)
      PROVE  /\ sessions[e].kind = "one_on_one" \/ row.kind = "one_on_one" =>
                  /\ ~Overlap(sessions[e].from, sessions[e].to, row.from - Buffer, row.to + Buffer)
                  /\ ~Overlap(row.from, row.to, sessions[e].from - Buffer, sessions[e].to + Buffer)
             /\ ~Overlap(sessions[e].from, sessions[e].to, row.from, row.to)
             /\ ~Overlap(row.from, row.to, sessions[e].from, sessions[e].to)
  <2>1. e \in EngagementsOf(row.i) \ {except}
    BY <1>3
  <2>2. CASE row.kind = "one_on_one"
    <3>1. ~Overlap(sessions[e].from, sessions[e].to, row.from - Buffer, row.to + Buffer)
      BY <2>1, <2>2 DEF Available, Conflicting
    <3> QED BY <3>1, <1>1 DEF Overlap
  <2>3. CASE row.kind = "group"
    <3>1. ~Overlap(sessions[e].from, sessions[e].to, row.from - 0, row.to + 0)
      BY <2>1, <2>3 DEF Available, Conflicting
    <3>2. sessions[e].kind = "one_on_one" =>
            ~Overlap(sessions[e].from - Buffer, sessions[e].to + Buffer, row.from, row.to)
      BY <2>1, <2>3 DEF Available, OneOnOneWithinBuffer
    <3> QED BY <3>1, <3>2, <2>3, <1>1 DEF Overlap
  <2> QED BY <1>1, <2>2, <2>3
<1>4. CalendarKept'
  <2> SUFFICES ASSUME NEW i \in Instructors, NEW s1 \in EngagementsOf(i)', NEW s2 \in EngagementsOf(i)',
                      s1 # s2
               PROVE  ~Overlap(sessions[s1].from, sessions[s1].to,
                               sessions[s2].from - Gap(s1, s2), sessions[s2].to + Gap(s1, s2))'
    BY DEF CalendarKept
  <2>0. s1 \in SessionIds /\ s2 \in SessionIds /\ sessions'[s1].i = i /\ sessions'[s2].i = i
    BY DEF EngagementsOf, Engagements
  <2>1. CASE s1 # s /\ s2 # s
    <3>1. s1 \in EngagementsOf(i) /\ s2 \in EngagementsOf(i)
      BY <1>2, <2>0, <2>1 DEF EngagementsOf, Engagements
    <3> QED BY <1>2, <2>0, <2>1, <3>1 DEF CalendarKept, Gap
  <2>2. CASE s1 = s
    <3>1. s2 \in EngagementsOf(row.i) /\ s2 # s
      BY <1>2, <2>0, <2>2 DEF EngagementsOf, Engagements
    <3> QED BY <1>1, <1>2, <1>3, <2>0, <2>2, <3>1 DEF Gap, Overlap
  <2>3. CASE s2 = s
    <3>1. s1 \in EngagementsOf(row.i) /\ s1 # s
      BY <1>2, <2>0, <2>3 DEF EngagementsOf, Engagements
    <3> QED BY <1>1, <1>2, <1>3, <2>0, <2>3, <3>1 DEF Gap, Overlap
  <2> QED BY <2>1, <2>2, <2>3
<1>5. BlocksHold'
  <2> SUFFICES ASSUME NEW b \in blocks, NEW e \in EngagementsOf(b.i)'
               PROVE  ~Overlap(b.from, b.to, sessions'[e].from, sessions'[e].to)
    BY DEF BlocksHold, Overlap
  <2>1. CASE e = s
    BY <1>2, <2>1 DEF Available, Blocked, EngagementsOf, Engagements
  <2>2. CASE e # s
    BY <1>2, <2>2 DEF BlocksHold, EngagementsOf, Engagements
  <2> QED BY <2>1, <2>2
<1> QED BY <1>4, <1>5

\* Whoever may have taken or released rows, the others keep theirs.
LocksOf(t) == ReleaseLocks(t) \/ UNCHANGED userLock \/ \E u \in Users : Lock(t, u)

LEMMA LocksKept ==
  ASSUME TInv, NEW t \in Txns, LocksOf(t), NEW q \in Txns \ {t}, NEW u \in Users, userLock[u] = q
  PROVE  userLock'[u] = q
<1>1. CASE ReleaseLocks(t) \/ UNCHANGED userLock
  BY <1>1, ReleaseType
<1>2. ASSUME NEW v \in Users, Lock(t, v) PROVE userLock'[u] = q
  <2>1. v # u
    BY <1>2, LockType
  <2> QED BY <1>2, <2>1, LockType
<1> QED BY <1>1, <1>2 DEF LocksOf

\* The others' part of the invariant, when a calendar fills up only for the
\* instructor whose row is held.
LEMMA OthersHold ==
  ASSUME CInv, NEW t \in Txns, \A q \in Txns \ {t} : tx'[q] = tx[q], LocksOf(t), KeepsLengths,
         \A i \in Instructors : userLock[i] # t => Shrinks(i),
         NEW q \in Txns \ {t}
  PROVE  /\ tx'[q].pc \in {"learner", "commit"} => Checked(q)'
         /\ Knows(tx[q])'
<1>1. ASSUME tx[q].pc \in {"learner", "commit"} PROVE Checked(q)'
  <2>1. tx[q].i \in Instructors /\ tx[q].i \in Users
    BY <1>1, RequestType DEF CInv, Users
  <2>2. userLock[tx[q].i] = q /\ Checked(q)
    BY <1>1 DEF CInv, Checked
  <2>3. userLock'[tx[q].i] = q
    BY <2>1, <2>2, LocksKept DEF CInv
  <2> QED BY <2>1, <2>2, <2>3, StillChecked
<1>2. Knows(tx[q])'
  <2>1. tx[q].op = "move" => tx[q].s \in SessionIds
    BY RequestType DEF CInv
  <2>2. Knows(tx[q])
    BY DEF CInv
  <2> QED BY <2>1, <2>2 DEF Knows, KeepsLengths
<1> QED BY <1>1, <1>2

\* A step that writes no table.
LEMMA UnwrittenStep ==
  ASSUME CInv, TInv', LInv', NEW t \in Txns, NEW r \in SoundRequest, Proceed(t, r), LocksOf(t),
         UNCHANGED <<sessions, blocks>>, Knows(r),
         r.pc \in {"learner", "commit"} => Checked(t)'
  PROVE  CInv'
<1>1. \A i \in Instructors : Shrinks(i)
  BY DEF Shrinks
<1>2. KeepsLengths
  BY DEF KeepsLengths
<1>3. tx'[t] = r /\ \A q \in Txns \ {t} : tx'[q] = tx[q]
  BY ProceedType DEF CInv
<1>4. CalendarKept' /\ BlocksHold'
  BY <1>1, StillKept DEF CInv
<1>5. Knows(tx[t])'
  BY <1>3 DEF Knows
<1> QED BY <1>1, <1>2, <1>3, <1>4, <1>5, OthersHold DEF CInv

\* A row of the calendar of the instructor whose row is held is written.
LEMMA WrittenStep ==
  ASSUME CInv, TInv', LInv', NEW t \in Txns, NEW s \in SessionIds, NEW row, Write(t, s, row),
         tx[t].i \in Instructors, userLock[tx[t].i] = t,
         row.i = tx[t].i, sessions[s].i = tx[t].i \/ s \notin Engagements,
         KeepsLengths, CalendarKept' /\ BlocksHold'
  PROVE  CInv'
<1>1. tx'[t] = Idle /\ \A q \in Txns \ {t} : tx'[q] = tx[q]
  BY ProceedType, IdleType DEF CInv, Write
<1>2. ASSUME NEW i \in Instructors, userLock[i] # t PROVE Shrinks(i)
  <2>1. i # tx[t].i
    BY <1>2
  <2>2. sessions'[s] = row /\ \A e \in SessionIds \ {s} : sessions'[e] = sessions[e]
    BY DEF Write, CInv, TInv
  <2> QED BY <2>1, <2>2 DEF Shrinks, Write, Engagements
<1>3. Knows(Idle)' /\ Idle.pc \notin {"learner", "commit"}
  BY DEF Knows, Idle
<1> QED BY <1>1, <1>2, <1>3, OthersHold DEF CInv, LocksOf, Write

\* A request that goes on to another step is about the same session.
LEMMA SameRequest ==
  ASSUME CInv, NEW t \in Txns, NEW pc,
         tx'[t] = [tx[t] EXCEPT !.pc = pc]
  PROVE  /\ Knows([tx[t] EXCEPT !.pc = pc])
         /\ tx'[t].pc = pc /\ tx'[t].op = tx[t].op /\ tx'[t].i = tx[t].i /\ tx'[t].s = tx[t].s
         /\ tx'[t].from = tx[t].from /\ tx'[t].to = tx[t].to
<1>1. tx[t] \in Request /\ Knows(tx[t])
  BY RequestType DEF CInv
<1>2. ASSUME NEW q \in Request, Knows(q)
      PROVE  /\ Knows([q EXCEPT !.pc = pc])
             /\ LET r == [q EXCEPT !.pc = pc]
                IN  r.pc = pc /\ r.op = q.op /\ r.i = q.i /\ r.s = q.s /\ r.from = q.from /\ r.to = q.to
  BY <1>2 DEF Request, Knows
<1> QED BY <1>1, <1>2

\* lock_instructor and the check after it.
LEMMA CheckStep ==
  ASSUME CInv, TInv', LInv', NEW t \in Txns,
         BookInstructor(t) \/ GroupInstructor(t) \/ BlockInstructor(t)
  PROVE  CInv'
<1> DEFINE pc == IF tx[t].op = "book" THEN "learner" ELSE "commit"
           r == [tx[t] EXCEPT !.pc = pc]
<1>1. /\ Proceed(t, r) /\ Lock(t, tx[t].i) /\ tx[t].pc = "instructor"
      /\ UNCHANGED <<sessions, blocks, active>>
  BY DEF BookInstructor, GroupInstructor, BlockInstructor, LockAndCheck
<1>2. tx[t].i \in Instructors /\ tx[t].i \in Users
  BY <1>1, RequestType DEF CInv, Users
<1>3. r \in SoundRequest
  BY <1>2, GoOnType DEF CInv
<1>4. tx'[t] = r
  BY <1>1, <1>3, ProceedType DEF CInv
<1>5. /\ Knows(r) /\ tx'[t].op = tx[t].op /\ tx'[t].i = tx[t].i /\ tx'[t].s = tx[t].s
      /\ tx'[t].from = tx[t].from /\ tx'[t].to = tx[t].to
  BY <1>4, SameRequest
<1>6. userLock'[tx[t].i] = t
  BY <1>1, <1>2, LockType DEF CInv
<1>7. Checked(t)'
  <2>1. CASE BookInstructor(t)
    BY <1>1, <1>5, <1>6, <2>1
       DEF BookInstructor, LockAndCheck, OneOnOneAvailable, Checked, Available, Blocked, Conflicting,
           OneOnOneWithinBuffer, EngagementsOf, Engagements
  <2>2. CASE GroupInstructor(t)
    BY <1>1, <1>5, <1>6, <2>2
       DEF GroupInstructor, LockAndCheck, Checked, Available, Blocked, Conflicting,
           OneOnOneWithinBuffer, EngagementsOf, Engagements
  <2>3. CASE BlockInstructor(t)
    BY <1>1, <1>5, <1>6, <2>3
       DEF BlockInstructor, LockAndCheck, Checked, SessionsOverlapping, EngagementsOf, Engagements
  <2> QED BY <2>1, <2>2, <2>3
<1> HIDE DEF r
<1> QED BY <1>1, <1>2, <1>3, <1>5, <1>7, UnwrittenStep DEF LocksOf

\* The learner's lock, taken while the instructor's is held.
LEMMA LearnerStep ==
  ASSUME CInv, TInv', LInv', NEW t \in Txns, BookLearner(t)
  PROVE  CInv'
<1> DEFINE r == [tx[t] EXCEPT !.pc = "commit"]
<1>1. /\ tx[t].i \in Instructors /\ tx[t].i \in Users /\ tx[t].l \in Users
      /\ Checked(t) /\ userLock[tx[t].i] = t
  BY RequestType DEF CInv, Users, BookLearner, At, Checked
<1>2. r \in SoundRequest
  BY <1>1, GoOnType DEF CInv
<1>3. tx'[t] = r
  BY <1>2, ProceedType DEF CInv, BookLearner
<1>4. /\ Knows(r) /\ tx'[t].op = tx[t].op /\ tx'[t].i = tx[t].i /\ tx'[t].s = tx[t].s
      /\ tx'[t].from = tx[t].from /\ tx'[t].to = tx[t].to
  BY <1>3, SameRequest
<1>5. userLock'[tx[t].i] = t
  <2>1. CASE tx[t].i = tx[t].l
    BY <1>1, <2>1, LockType DEF BookLearner, CInv
  <2>2. CASE tx[t].i # tx[t].l
    BY <1>1, <2>2, LockType DEF BookLearner, CInv
  <2> QED BY <2>1, <2>2
<1>6. Checked(t)'
  BY <1>1, <1>4, <1>5
     DEF BookLearner, At, Checked, Available, Blocked, Conflicting, OneOnOneWithinBuffer,
         EngagementsOf, Engagements
<1> HIDE DEF r
<1> QED BY <1>1, <1>2, <1>4, <1>6, UnwrittenStep DEF LocksOf, BookLearner, r

\* A session is created, of either kind.
LEMMA CreatedStep ==
  ASSUME CInv, TInv', LInv', NEW t \in Txns, NEW s \in SessionIds, NEW row \in SoundRow,
         Write(t, s, row), sessions[s].status = "none", tx[t].pc = "commit",
         row.i = tx[t].i, row.from = tx[t].from, row.to = tx[t].to,
         \/ tx[t].op = "book" /\ row.kind = "one_on_one"
         \/ tx[t].op \in {"create", "draft"} /\ row.kind = "group"
  PROVE  CInv'
<1>1. tx[t].i \in Instructors /\ userLock[tx[t].i] = t /\ Checked(t)
  BY RequestType DEF CInv, Checked
<1>2. Available(row.i, row.from, row.to, row.kind, None)
  BY <1>1 DEF Checked, CInv, Knows
<1>3. sessions' = [sessions EXCEPT ![s] = row] /\ blocks' = blocks
  BY DEF Write
<1>4. CalendarKept' /\ BlocksHold'
  BY <1>2, <1>3, WrittenWhereFree DEF CInv
<1>5. KeepsLengths
  BY <1>3 DEF KeepsLengths, CInv, TInv
<1>6. s \notin Engagements
  BY DEF Engagements
<1> QED BY <1>1, <1>4, <1>5, <1>6, WrittenStep

\* A discussion is moved, its length kept.
LEMMA MovedStep ==
  ASSUME CInv, TInv', LInv', NEW t \in Txns, RescheduleCommit(t), tx[t].op = "move"
  PROVE  CInv'
<1> DEFINE s == tx[t].s
           row == Rescheduled(t)
<1>1. /\ s \in SessionIds /\ tx[t].i \in Instructors /\ userLock[tx[t].i] = t /\ Checked(t) /\ Knows(tx[t])
      /\ tx[t].from \in Int /\ tx[t].to \in Int /\ tx[t].copy.from \in Int /\ tx[t].copy.to \in Int
  BY RequestType DEF CInv, Checked, RescheduleCommit
<1>2. /\ sessions[s] \in SoundRow /\ sessions[s].from \in Int /\ sessions[s].to \in Int
      /\ sessions[s] \in SessionRow
  BY <1>1 DEF CInv, TInv, TypeOK, SoundRow, SessionRow
<1>3. /\ sessions[s].kind = "group" /\ sessions[s].status # "none" /\ sessions[s].i = tx[t].i
      /\ sessions[s].to - sessions[s].from = tx[t].to - tx[t].from
      /\ sessions[s].to - sessions[s].from = tx[t].copy.to - tx[t].copy.from
  BY <1>1 DEF Knows
<1>4. /\ row.kind = "group" /\ row.status = sessions[s].status /\ row.i = tx[t].i
      /\ row.from = IF tx[t].from = tx[t].copy.from THEN sessions[s].from ELSE tx[t].from
      /\ row.to = IF tx[t].to = tx[t].copy.to THEN sessions[s].to ELSE tx[t].to
  BY <1>2, <1>3 DEF Rescheduled, SessionRow
<1>5. \/ row.from = sessions[s].from /\ row.to = sessions[s].to
      \/ row.from = tx[t].from /\ row.to = tx[t].to
  BY <1>1, <1>2, <1>3, <1>4
<1>6. /\ Write(t, s, row) /\ blocks' = blocks
      /\ sessions'[s] = row /\ \A e \in SessionIds \ {s} : sessions'[e] = sessions[e]
  BY <1>1 DEF RescheduleCommit, Write, CInv, TInv
<1>7. row \in SoundRow
  BY <1>1, <1>6 DEF TInv
<1>8. KeepsLengths
  BY <1>1, <1>2, <1>3, <1>4, <1>5, <1>6 DEF KeepsLengths
<1>9. CalendarKept' /\ BlocksHold'
  <2>1. CASE row.from = sessions[s].from /\ row.to = sessions[s].to
    <3>1. \A i \in Instructors : Shrinks(i)
      BY <1>3, <1>4, <1>6, <2>1 DEF Shrinks
    <3> QED BY <3>1, StillKept DEF CInv
  <2>2. CASE row.from = tx[t].from /\ row.to = tx[t].to
    <3>1. Available(row.i, row.from, row.to, row.kind, s)
      BY <1>1, <1>4, <2>2 DEF Checked
    <3>2. sessions' = [sessions EXCEPT ![s] = row]
      BY DEF RescheduleCommit, Write
    <3> HIDE DEF s, row
    <3> QED BY <1>1, <1>6, <1>7, <3>1, <3>2, WrittenWhereFree DEF CInv
  <2> QED BY <1>5, <2>1, <2>2
<1> HIDE DEF s, row
<1> QED BY <1>1, <1>3, <1>4, <1>6, <1>8, <1>9, WrittenStep DEF s

\* Time is blocked.
LEMMA BlockedStep ==
  ASSUME CInv, TInv', LInv', NEW t \in Txns, BlockCommit(t)
  PROVE  CInv'
<1> DEFINE b == [i |-> tx[t].i, from |-> tx[t].from, to |-> tx[t].to]
<1>1. /\ tx[t].i \in Instructors /\ userLock[tx[t].i] = t
      /\ SessionsOverlapping(tx[t].i, tx[t].from, tx[t].to) = {}
  BY RequestType DEF CInv, Checked, BlockCommit, At
<1>2. tx'[t] = Idle /\ \A q \in Txns \ {t} : tx'[q] = tx[q]
  BY ProceedType, IdleType DEF CInv, BlockCommit
<1>3. sessions' = sessions /\ blocks' = blocks \cup {b} /\ LocksOf(t)
  BY DEF BlockCommit, LocksOf
<1>4. ASSUME NEW i \in Instructors, userLock[i] # t PROVE Shrinks(i)
  BY <1>1, <1>3, <1>4 DEF Shrinks
<1>5. KeepsLengths
  BY <1>3 DEF KeepsLengths
<1>6. CalendarKept'
  BY <1>3 DEF CInv, CalendarKept, EngagementsOf, Engagements, Gap
<1>7. BlocksHold'
  <2> SUFFICES ASSUME NEW c \in blocks', NEW e \in EngagementsOf(c.i)
               PROVE  ~Overlap(c.from, c.to, sessions[e].from, sessions[e].to)
    BY <1>3 DEF BlocksHold, EngagementsOf, Engagements
  <2>1. CASE c \in blocks
    BY <2>1 DEF CInv, BlocksHold
  <2>2. CASE c = b
    BY <1>1, <2>2 DEF SessionsOverlapping, Overlap
  <2> QED BY <1>3, <2>1, <2>2
<1>8. Knows(Idle)' /\ Idle.pc \notin {"learner", "commit"}
  BY DEF Knows, Idle
<1> QED BY <1>2, <1>3, <1>4, <1>5, <1>6, <1>7, <1>8, OthersHold DEF CInv

\* Rows that leave the calendar, or a booking that leaves its row.
LEMMA FreeingStep ==
  ASSUME CInv, TInv', LInv', UNCHANGED <<userLock, tx>>, \A i \in Instructors : Shrinks(i),
         KeepsLengths
  PROVE  CInv'
<1>1. CalendarKept' /\ BlocksHold'
  BY StillKept DEF CInv
<1>2. ASSUME NEW q \in Txns PROVE Knows(tx[q])'
  <2>1. tx[q].op = "move" => tx[q].s \in SessionIds
    BY RequestType DEF CInv
  <2>2. Knows(tx[q])
    BY DEF CInv
  <2> QED BY <2>1, <2>2 DEF Knows, KeepsLengths
<1>3. ASSUME NEW q \in Txns, tx[q].pc \in {"learner", "commit"} PROVE Checked(q)'
  <2>1. tx[q].i \in Instructors /\ Checked(q)
    BY <1>3, RequestType DEF CInv
  <2> QED BY <2>1, StillChecked
<1> QED BY <1>1, <1>2, <1>3 DEF CInv

\* An empty calendar keeps every rule.
LEMMA InitCalendar == Init => CInv
<1> SUFFICES ASSUME Init PROVE CInv
  OBVIOUS
<1>1. Engagements = {} /\ blocks = {}
  BY DEF Init, Engagements, NoSession
<1>2. CalendarKept /\ BlocksHold
  BY <1>1 DEF CalendarKept, BlocksHold, EngagementsOf
<1>3. \A t \in Txns : Knows(tx[t]) /\ tx[t].pc = "idle"
  BY DEF Init, Knows, Idle
<1> QED BY <1>2, <1>3, InitType, InitLocks DEF CInv

\* A request that gives up, or goes back to its savepoint, or updates an
\* instructor, writes neither sessions nor blocks.
LEMMA QuietStep ==
  ASSUME CInv, TInv', LInv', NEW t \in Txns,
         \/ PickCandidate(t) \/ InstructorTaken(t) \/ BookCollides(t)
         \/ UpdateCommit(t) \/ Rollback(t)
  PROVE  CInv'
<1>1. CASE PickCandidate(t)
  <2>1. PICK i \in Instructors :
          Proceed(t, [tx[t] EXCEPT !.pc = "instructor", !.i = i, !.todo = @ \ {i}])
    BY <1>1 DEF PickCandidate, CInv, TInv, TypeOK
  <2> DEFINE r == [tx[t] EXCEPT !.pc = "instructor", !.i = i, !.todo = @ \ {i}]
  <2>2. r \in SoundRequest
    BY GoOnType DEF CInv
  <2>3. r.op = "book" /\ r.pc = "instructor"
    BY <1>1, RequestType DEF CInv, PickCandidate, At, Request
  <2>4. Knows(r)
    <3> HIDE DEF r
    <3> QED BY <2>3 DEF Knows
  <2>5. LocksOf(t) /\ UNCHANGED <<sessions, blocks>> /\ Proceed(t, r)
    BY <1>1, <2>1 DEF PickCandidate, LocksOf
  <2> HIDE DEF r
  <2> QED BY <2>2, <2>3, <2>4, <2>5, UnwrittenStep
<1>2. CASE InstructorTaken(t) \/ BookCollides(t)
  <2> DEFINE r == [tx[t] EXCEPT !.pc = "pick"]
  <2>1. r \in SoundRequest
    BY GoOnType DEF CInv
  <2>2. r.op = "book" /\ r.pc = "pick"
    BY <1>2, RequestType DEF CInv, InstructorTaken, BookCollides, At, Request
  <2>3. Knows(r)
    <3> HIDE DEF r
    <3> QED BY <2>2 DEF Knows
  <2>4. LocksOf(t) /\ UNCHANGED <<sessions, blocks>> /\ Proceed(t, r)
    BY <1>2 DEF InstructorTaken, BookCollides, NextCandidate, LocksOf
  <2> HIDE DEF r
  <2> QED BY <2>1, <2>2, <2>3, <2>4, UnwrittenStep
<1>3. CASE UpdateCommit(t) \/ Rollback(t)
  <2>1. Knows(Idle) /\ Idle.pc \notin {"learner", "commit"}
    BY DEF Knows, Idle
  <2>2. LocksOf(t) /\ UNCHANGED <<sessions, blocks>> /\ Proceed(t, Idle)
    BY <1>3 DEF UpdateCommit, Rollback, LocksOf
  <2> QED BY <2>1, <2>2, IdleType, UnwrittenStep
<1> QED BY <1>1, <1>2, <1>3

\* A discussion cancelled leaves the calendar; a one-to-one's booking cancelled
\* leaves it as it was.
LEMMA CancelledStep ==
  ASSUME CInv, TInv', LInv', NEW s \in SessionIds, CancelGroup(s) \/ CancelOneOnOne(s)
  PROVE  CInv'
<1>1. \A e \in SessionIds : sessions[e] \in SessionRow
  BY DEF CInv, TInv, TypeOK
<1>2. /\ \A e \in SessionIds \ {s} : sessions'[e] = sessions[e]
      /\ sessions'[s].status \in {sessions[s].status, "cancelled"}
      /\ sessions'[s].kind = sessions[s].kind /\ sessions'[s].i = sessions[s].i
      /\ sessions'[s].from = sessions[s].from /\ sessions'[s].to = sessions[s].to
  BY <1>1 DEF CancelGroup, CancelOneOnOne, CInv, TInv, TypeOK, SessionRow
<1>3. UNCHANGED <<blocks, userLock, tx>>
  BY DEF CancelGroup, CancelOneOnOne
<1>4. \A i \in Instructors : Shrinks(i)
  BY <1>2, <1>3 DEF Shrinks
<1>5. KeepsLengths
  BY <1>2 DEF KeepsLengths
<1> QED BY <1>3, <1>4, <1>5, FreeingStep

\* The step of a request that writes a table.
LEMMA CommitStep ==
  ASSUME CInv, TInv', LInv', NEW t \in Txns, Ops \cap {"publish", "resize"} = {},
         \/ BookCommit(t) \/ CreateCommit(t) \/ RescheduleCommit(t)
         \/ PublishCommit(t) \/ BlockCommit(t)
  PROVE  CInv'
<1>1. tx[t].op \notin {"publish", "resize"}
  BY RequestType DEF CInv, Request
<1>2. CASE BookCommit(t)
  <2> DEFINE row == [kind |-> "one_on_one", status |-> "published", i |-> tx[t].i,
                     from |-> tx[t].from, to |-> tx[t].to, learner |-> tx[t].l, booked |-> TRUE]
  <2>1. row \in SoundRow
    BY <1>2, RequestType DEF CInv, BookCommit, At, SessionRow, SoundRow, Kind
  <2>2. PICK s \in SessionIds : sessions[s].status = "none" /\ Write(t, s, row)
    BY <1>2 DEF BookCommit
  <2>3. tx[t].pc = "commit" /\ tx[t].op = "book"
    BY <1>2 DEF BookCommit, At
  <2>4. row.i = tx[t].i /\ row.from = tx[t].from /\ row.to = tx[t].to /\ row.kind = "one_on_one"
    OBVIOUS
  <2> HIDE DEF row
  <2> QED BY <2>1, <2>2, <2>3, <2>4, CreatedStep
<1>3. CASE CreateCommit(t)
  <2> DEFINE row == [NoSession EXCEPT !.status = IF tx[t].op = "draft" THEN "draft" ELSE "published",
                                      !.i = tx[t].i, !.from = tx[t].from, !.to = tx[t].to]
  <2>1. row \in SoundRow
    BY <1>3, RequestType DEF CInv, CreateCommit, SessionRow, SoundRow, Kind, NoSession
  <2>2. PICK s \in SessionIds : sessions[s].status = "none" /\ Write(t, s, row)
    BY <1>3 DEF CreateCommit
  <2>3. tx[t].pc = "commit" /\ tx[t].op \in {"create", "draft"}
    BY <1>3 DEF CreateCommit
  <2>4. row.i = tx[t].i /\ row.from = tx[t].from /\ row.to = tx[t].to /\ row.kind = "group"
    BY DEF NoSession
  <2> HIDE DEF row
  <2> QED BY <2>1, <2>2, <2>3, <2>4, CreatedStep
<1>4. CASE RescheduleCommit(t)
  <2>1. tx[t].op = "move"
    BY <1>1, <1>4 DEF RescheduleCommit
  <2> QED BY <1>4, <2>1, MovedStep
<1>5. ~PublishCommit(t)
  BY <1>1 DEF PublishCommit, At
<1>6. CASE BlockCommit(t)
  BY <1>6, BlockedStep
<1> QED BY <1>2, <1>3, <1>4, <1>5, <1>6

LEMMA StepCalendar ==
  ASSUME Ops \cap {"publish", "resize"} = {}
  PROVE  CInv /\ [Next]_vars => CInv'
<1> SUFFICES ASSUME CInv, [Next]_vars PROVE CInv'
  OBVIOUS
<1>0. TInv' /\ LInv'
  BY StepType, StepLocks DEF CInv
<1>1. ASSUME NEW t \in Txns, Opens(t) PROVE CInv'
  <2>1. PICK r \in SoundRequest : Proceed(t, r) /\ r.pc \notin {"learner", "commit"} /\ Knows(r)
    BY <1>1 DEF Opens
  <2>2. LocksOf(t) /\ UNCHANGED <<sessions, blocks>>
    BY <1>1 DEF Opens, LocksOf
  <2> QED BY <1>0, <2>1, <2>2, UnwrittenStep
<1>2. ASSUME NEW t \in Txns, Continue(t) PROVE CInv'
  BY <1>0, <1>2, QuietStep, CheckStep, LearnerStep, CommitStep DEF Continue
<1>3. ASSUME NEW s \in SessionIds, CancelGroup(s) \/ CancelOneOnOne(s) PROVE CInv'
  BY <1>0, <1>3, CancelledStep
<1>4. ASSUME NEW b \in blocks, DeleteBlock(b) PROVE CInv'
  <2>1. \A i \in Instructors : Shrinks(i)
    BY <1>4 DEF DeleteBlock, Shrinks
  <2>2. KeepsLengths /\ UNCHANGED <<userLock, tx>>
    BY <1>4 DEF DeleteBlock, KeepsLengths
  <2> QED BY <1>0, <2>1, <2>2, FreeingStep
<1>5. ASSUME UNCHANGED vars PROVE CInv'
  <2>1. \A i \in Instructors : Shrinks(i)
    BY <1>5 DEF vars, Shrinks
  <2>2. KeepsLengths /\ UNCHANGED <<userLock, tx>>
    BY <1>5 DEF vars, KeepsLengths
  <2> QED BY <1>0, <2>1, <2>2, FreeingStep
<1> QED
  BY <1>1, <1>2, <1>3, <1>4, <1>5, NextOpens DEF CInv

\* The invariant of calendars: what a request has checked under the lock stays
\* true until it commits.
THEOREM CalendarInvariant ==
  ASSUME Ops \cap {"publish", "resize"} = {}
  PROVE  Spec => []CInv
<1> QED BY InitCalendar, StepCalendar, PTL DEF Spec

\* scheduling.py's two rules: checked under the instructor's lock, no calendar
\* ever holds two overlapping engagements or a one-to-one without its buffer, as
\* long as no draft is published and nobody is given another duration.
THEOREM CalendarSafe ==
  ASSUME Ops \cap {"publish", "resize"} = {}
  PROVE  Spec => []CalendarKept
<1>1. CInv => CalendarKept
  BY DEF CInv
<1> QED BY <1>1, CalendarInvariant, PTL

\* Nor a session in blocked time: create_block looks for sessions, and whoever
\* schedules one looks for blocks, under the same lock.
THEOREM BlocksSafe ==
  ASSUME Ops \cap {"publish", "resize"} = {}
  PROVE  Spec => []BlocksHold
<1>1. CInv => BlocksHold
  BY DEF CInv
<1> QED BY <1>1, CalendarInvariant, PTL

(***************************************************************************)
(* What the pages offer                                                    *)
(***************************************************************************)
\* The filter of the slot pages asks for what the check under the lock asks.
LEMMA FreeIsAvailable ==
  ASSUME TypeOK, NEW i \in Instructors, NEW from \in Int, NEW to \in Int, InWindow(from, to)
  PROVE  /\ IsFree(i, from, to) <=> ~Blocked(i, from, to) /\ ~Conflicting(i, from, to, Buffer, None)
         /\ Available(i, from, to, "one_on_one", None)
              <=> ~Blocked(i, from, to) /\ ~Conflicting(i, from, to, Buffer, None)
<1>1. \A b \in blocks : b.from \in Int /\ b.to \in Int
  BY DEF TypeOK, Block
<1>2. Blocked(i, from, to) <=> \E b \in blocks : b.i = i /\ b.from < to /\ b.to > from
  BY <1>1 DEF Blocked, Overlap
<1>3. EngagementsOf(i) \ {None} = EngagementsOf(i)
  BY DEF EngagementsOf, Engagements
<1>4. Conflicting(i, from, to, Buffer, None) <=> \E e \in EngagementsOf(i) : TooClose(e, from, to)
  BY <1>3 DEF Conflicting, TooClose
<1>5. IsFree(i, from, to) <=> ~Blocked(i, from, to) /\ ~Conflicting(i, from, to, Buffer, None)
  BY <1>2, <1>4 DEF IsFree
<1> QED BY <1>5 DEF Available

LEMMA OffersFollow == TypeOK => OffersAgree
<1> SUFFICES ASSUME TypeOK, NEW h \in Starts, h + Slot <= WindowEnd
             PROVE  LET passing == {i \in active : Available(i, h, h + Slot, "one_on_one", None)}
                    IN  (h \in OpenSlots <=> passing # {}) /\ FreeAt(h, h + Slot) = passing
  BY DEF OffersAgree
<1>1. h \in Int /\ h + Slot \in Int /\ InWindow(h, h + Slot)
  <2>1. h \in WindowStart..WindowEnd
    BY Zenon DEF Starts
  <2> QED BY <2>1 DEF InWindow
<1>2. active \subseteq Instructors
  BY DEF TypeOK
<1>3. ASSUME NEW i \in active
      PROVE  /\ h \in AvailableSlots(i) <=> Available(i, h, h + Slot, "one_on_one", None)
             /\ i \in FreeAt(h, h + Slot) <=> Available(i, h, h + Slot, "one_on_one", None)
  <2>1. i \in Instructors
    BY <1>2
  <2> QED BY <1>1, <2>1, FreeIsAvailable DEF AvailableSlots, FreeAt
<1>4. h \in OpenSlots <=> \E i \in active : h \in AvailableSlots(i)
  BY DEF OpenSlots
<1>5. FreeAt(h, h + Slot) \subseteq active
  BY DEF FreeAt
<1> QED BY <1>3, <1>4, <1>5

\* The booking page, the prefilter of candidates and the check under the lock
\* never disagree about an hour, whatever the calendars hold.
THEOREM OffersSafe == Spec => []OffersAgree
<1> QED BY OffersFollow, CalendarTypes, PTL

(***************************************************************************)
(* The exclusion constraints by themselves                                 *)
(***************************************************************************)
\* Bookings are of one-to-ones, and reschedulings of discussions: what the
\* constraints need to know of the rows they compare.
NInv ==
  /\ TInv /\ NobodyTwiceAtOnce
  /\ \A s \in SessionIds : sessions[s].booked => sessions[s].kind = "one_on_one"
  /\ \A t \in Txns : Regards(tx[t])

\* Rows that keep their session and their hour, and are engaged or booked only
\* if they were.
Loosens ==
  \A s \in SessionIds :
    /\ UNCHANGED <<sessions[s].kind, sessions[s].i, sessions[s].learner, sessions[s].from, sessions[s].to>>
    /\ s \in Engagements' => s \in Engagements
    /\ sessions'[s].booked => sessions[s].booked
    /\ sessions[s].status # "none" => sessions'[s].status # "none"

\* A step that only lets people go, by requests that keep to their sessions.
LEMMA LooseStep ==
  ASSUME NInv, TInv', Loosens,
         \A q \in Txns : tx'[q] = tx[q] \/ Regards(tx'[q])
  PROVE  NInv'
<1>1. NobodyTwiceAtOnce'
  BY DEF NInv, NobodyTwiceAtOnce, Loosens
<1>2. \A s \in SessionIds : sessions'[s].booked => sessions'[s].kind = "one_on_one"
  BY DEF NInv, Loosens
<1>3. ASSUME NEW q \in Txns PROVE Regards(tx[q])'
  <2>1. Regards(tx'[q])
    BY DEF NInv
  <2>2. tx'[q].op \in {"move", "resize"} => tx'[q].s \in SessionIds
    BY DEF TInv, SoundRequest
  <2> QED BY <2>1, <2>2 DEF Regards, Loosens
<1> QED BY <1>1, <1>2, <1>3 DEF NInv

\* A row is written that meets nobody else's hour.
LEMMA ApartStep ==
  ASSUME NInv, TInv', NEW t \in Txns, NEW s \in SessionIds, NEW row \in SoundRow, Write(t, s, row),
         row.status \in {"draft", "published"} =>
           SessionsOverlapping(row.i, row.from, row.to) \subseteq {s},
         row.booked => \/ LearnerFree(row.learner, row.from, row.to)
                       \/ /\ sessions[s].booked /\ row.learner = sessions[s].learner
                          /\ row.from = sessions[s].from /\ row.to = sessions[s].to,
         row.booked => row.kind = "one_on_one",
         sessions[s].status # "none" =>
           row.kind = sessions[s].kind /\ row.status # "none" /\ row.i = sessions[s].i
  PROVE  NInv'
<1>1. sessions'[s] = row /\ \A q \in SessionIds \ {s} : sessions'[q] = sessions[q]
  BY WriteType DEF NInv
<1>2. \A q \in SessionIds : sessions[q].from \in Int /\ sessions[q].to \in Int
  BY DEF NInv, TInv, TypeOK, SessionRow
<1>3. row.from \in Int /\ row.to \in Int
  BY DEF SoundRow, SessionRow
<1>4. ASSUME NEW e \in SessionIds \ {s},
             \/ {s, e} \subseteq Engagements' /\ row.i = sessions[e].i
             \/ row.booked /\ sessions[e].booked /\ row.learner = sessions[e].learner
      PROVE  ~Overlap(row.from, row.to, sessions[e].from, sessions[e].to)
  <2>1. CASE {s, e} \subseteq Engagements' /\ row.i = sessions[e].i
    <3>1. row.status \in {"draft", "published"} /\ e \in EngagementsOf(row.i)
      BY <1>1, <2>1 DEF Engagements, EngagementsOf
    <3> QED BY <1>2, <1>3, <3>1 DEF SessionsOverlapping, Overlap
  <2>2. CASE row.booked /\ sessions[e].booked /\ row.learner = sessions[e].learner
    BY <1>2, <1>3, <2>2 DEF LearnerFree, Overlap, NInv, NobodyTwiceAtOnce
  <2> QED BY <1>4, <2>1, <2>2
<1>5. ASSUME NEW e1 \in SessionIds \ {s}, NEW e2 \in SessionIds \ {s}, e1 # e2,
             \/ {e1, e2} \subseteq Engagements' /\ sessions[e1].i = sessions[e2].i
             \/ sessions[e1].booked /\ sessions[e2].booked /\ sessions[e1].learner = sessions[e2].learner
      PROVE  ~Overlap(sessions[e1].from, sessions[e1].to, sessions[e2].from, sessions[e2].to)
  <2>1. {e1, e2} \subseteq Engagements' => {e1, e2} \subseteq Engagements
    BY <1>1 DEF Engagements
  <2> QED BY <1>5, <2>1 DEF NInv, NobodyTwiceAtOnce
<1>6. NobodyTwiceAtOnce'
  <2> SUFFICES ASSUME NEW s1 \in SessionIds, NEW s2 \in SessionIds, s1 # s2,
                      \/ {s1, s2} \subseteq Engagements' /\ sessions'[s1].i = sessions'[s2].i
                      \/ /\ sessions'[s1].booked /\ sessions'[s2].booked
                         /\ sessions'[s1].learner = sessions'[s2].learner
               PROVE  ~Overlap(sessions'[s1].from, sessions'[s1].to, sessions'[s2].from, sessions'[s2].to)
    BY DEF NobodyTwiceAtOnce, Overlap
  <2>1. CASE s1 = s
    BY <1>1, <1>4, <2>1
  <2>2. CASE s2 = s
    <3>1. ~Overlap(row.from, row.to, sessions[s1].from, sessions[s1].to)
      BY <1>1, <1>4, <2>2
    <3> QED BY <1>1, <1>2, <1>3, <2>2, <3>1 DEF Overlap
  <2>3. CASE s \notin {s1, s2}
    BY <1>1, <1>5, <2>3
  <2> QED BY <2>1, <2>2, <2>3
<1>7. \A q \in SessionIds : sessions'[q].booked => sessions'[q].kind = "one_on_one"
  BY <1>1 DEF NInv
<1>8. ASSUME NEW q \in Txns PROVE Regards(tx[q])'
  <2>1. tx'[q] = tx[q] \/ tx'[q] = Idle
    BY ProceedType, IdleType DEF Write, NInv
  <2>2. Regards(tx'[q])
    BY <2>1 DEF NInv, Regards, Idle
  <2>3. tx'[q].op \in {"move", "resize"} => tx'[q].s \in SessionIds
    BY DEF TInv, SoundRequest
  <2> QED BY <1>1, <2>2, <2>3 DEF Regards
<1> QED BY <1>6, <1>7, <1>8 DEF NInv

\* The steps of a request that writes no session.
LEMMA UnwritingApart ==
  ASSUME NInv, TInv', NEW t \in Txns, NEW r \in SoundRequest, Proceed(t, r), Regards(r),
         UNCHANGED sessions
  PROVE  NInv'
<1>1. Loosens
  BY DEF Loosens, Engagements
<1>2. \A q \in Txns : tx'[q] = tx[q] \/ Regards(tx'[q])
  BY ProceedType DEF NInv
<1> QED BY <1>1, <1>2, LooseStep

LEMMA OpenApart ==
  ASSUME NInv, TInv', NEW t \in Txns, Opens(t)
  PROVE  NInv'
<1>1. PICK r \in SoundRequest : Proceed(t, r) /\ Regards(r)
  BY DEF Opens
<1> QED BY <1>1, UnwritingApart DEF Opens

\* What a rescheduling regards, it goes on regarding.
LEMMA GoOnApart ==
  ASSUME NInv, TInv', NEW t \in Txns,
         \/ PickCandidate(t) \/ BookInstructor(t) \/ InstructorTaken(t) \/ BookLearner(t)
         \/ BookCollides(t) \/ GroupInstructor(t) \/ BlockInstructor(t) \/ BlockCommit(t)
         \/ UpdateCommit(t) \/ Rollback(t)
  PROVE  NInv'
<1>1. tx[t] \in SoundRequest /\ tx[t] \in Request /\ Regards(tx[t])
  BY RequestType DEF NInv
<1>2. ASSUME NEW pc, Proceed(t, [tx[t] EXCEPT !.pc = pc]), [tx[t] EXCEPT !.pc = pc] \in SoundRequest,
             UNCHANGED sessions
      PROVE  NInv'
  <2> DEFINE q == tx[t]
             r == [q EXCEPT !.pc = pc]
  <2>1. r.op = q.op /\ r.s = q.s /\ r.i = q.i
    <3> HIDE DEF q
    <3> QED BY <1>1 DEF Request
  <2>2. Regards(r)
    <3> HIDE DEF r
    <3> QED BY <1>1, <2>1 DEF Regards
  <2> QED BY <1>2, <2>2, UnwritingApart
<1>3. CASE BookInstructor(t) \/ GroupInstructor(t) \/ BlockInstructor(t) \/ BookLearner(t)
  <2>1. tx[t].i \in Instructors
    BY <1>3, RequestType DEF BookInstructor, GroupInstructor, BlockInstructor, BookLearner,
         LockAndCheck, At, NInv
  <2>2. CASE BookInstructor(t)
    BY <1>2, <2>1, <2>2, GoOnType DEF BookInstructor, LockAndCheck, NInv
  <2>3. CASE ~BookInstructor(t)
    BY <1>2, <1>3, <2>1, <2>3, GoOnType DEF GroupInstructor, BlockInstructor, BookLearner, LockAndCheck, NInv
  <2> QED BY <2>2, <2>3
<1>4. CASE InstructorTaken(t) \/ BookCollides(t)
  BY <1>2, <1>4, GoOnType DEF InstructorTaken, BookCollides, NextCandidate, NInv
<1>5. CASE PickCandidate(t)
  <2>1. PICK i \in Instructors :
          Proceed(t, [tx[t] EXCEPT !.pc = "instructor", !.i = i, !.todo = @ \ {i}])
    BY <1>5 DEF PickCandidate, NInv, TInv, TypeOK
  <2> DEFINE r == [tx[t] EXCEPT !.pc = "instructor", !.i = i, !.todo = @ \ {i}]
  <2>2. r \in SoundRequest
    BY GoOnType DEF NInv
  <2>3. r.op = "book"
    BY <1>1, <1>5 DEF PickCandidate, At, Request
  <2>4. Regards(r)
    <3> HIDE DEF r
    <3> QED BY <2>3 DEF Regards
  <2> QED BY <1>5, <2>1, <2>2, <2>4, UnwritingApart DEF PickCandidate
<1>6. CASE BlockCommit(t) \/ UpdateCommit(t) \/ Rollback(t)
  <2>1. Regards(Idle)
    BY DEF Regards, Idle
  <2> QED BY <1>6, <2>1, IdleType, UnwritingApart DEF BlockCommit, UpdateCommit, Rollback
<1> QED BY <1>3, <1>4, <1>5, <1>6

\* The steps that write a session: each meets the constraint of its table.
LEMMA CommitApart ==
  ASSUME NInv, TInv', NEW t \in Txns,
         BookCommit(t) \/ CreateCommit(t) \/ RescheduleCommit(t) \/ PublishCommit(t)
  PROVE  NInv'
<1>1. \A s \in SessionIds : sessions[s] \in SoundRow /\ sessions[s] \in SessionRow
  BY DEF NInv, TInv, TypeOK
<1>2. \A i, from, to : SessionsOverlapping(i, from, to) \subseteq SessionIds
  BY DEF SessionsOverlapping, EngagementsOf, Engagements
<1>3. CASE BookCommit(t)
  <2> DEFINE row == [kind |-> "one_on_one", status |-> "published", i |-> tx[t].i,
                     from |-> tx[t].from, to |-> tx[t].to, learner |-> tx[t].l, booked |-> TRUE]
  <2>1. row \in SoundRow
    BY <1>3, RequestType DEF NInv, BookCommit, At, SessionRow, SoundRow, Kind
  <2>2. PICK s \in SessionIds : sessions[s].status = "none" /\ Write(t, s, row)
    BY <1>3 DEF BookCommit
  <2>3. /\ row.kind = "one_on_one"
        /\ SessionsOverlapping(row.i, row.from, row.to) \subseteq {None}
        /\ LearnerFree(row.learner, row.from, row.to)
    BY <1>3 DEF BookCommit, OneOnOneFits, EngagementsDisjoint
  <2>4. SessionsOverlapping(row.i, row.from, row.to) \subseteq {s}
    BY <1>2, <2>3
  <2> HIDE DEF row
  <2> QED BY <2>1, <2>2, <2>3, <2>4, ApartStep
<1>4. CASE CreateCommit(t)
  <2> DEFINE row == [NoSession EXCEPT !.status = IF tx[t].op = "draft" THEN "draft" ELSE "published",
                                      !.i = tx[t].i, !.from = tx[t].from, !.to = tx[t].to]
  <2>1. row \in SoundRow
    BY <1>4, RequestType DEF NInv, CreateCommit, SessionRow, SoundRow, Kind, NoSession
  <2>2. PICK s \in SessionIds : sessions[s].status = "none" /\ Write(t, s, row)
    BY <1>4 DEF CreateCommit
  <2>3. /\ ~row.booked
        /\ SessionsOverlapping(row.i, row.from, row.to) \subseteq {None}
    BY <1>4 DEF CreateCommit, EngagementsDisjoint, NoSession
  <2>4. SessionsOverlapping(row.i, row.from, row.to) \subseteq {s}
    BY <1>2, <2>3
  <2> HIDE DEF row
  <2> QED BY <2>1, <2>2, <2>3, <2>4, ApartStep
<1>5. CASE RescheduleCommit(t)
  <2> DEFINE s == tx[t].s
             row == Rescheduled(t)
  <2>1. s \in SessionIds /\ Regards(tx[t]) /\ Write(t, s, row)
    BY <1>5, RequestType DEF NInv, RescheduleCommit
  <2>2. /\ sessions[s].kind = "group" /\ sessions[s].status # "none" /\ sessions[s].i = tx[t].i
        /\ ~sessions[s].booked
    BY <1>5, <2>1 DEF Regards, RescheduleCommit, NInv
  <2>3. /\ row.kind = "group" /\ row.status = sessions[s].status /\ row.i = tx[t].i
        /\ ~row.booked
    BY <1>1, <2>1, <2>2 DEF Rescheduled, SessionRow
  <2>4. row \in SoundRow
    <3>1. sessions'[s] = row
      BY <2>1 DEF Write, NInv, TInv
    <3> QED BY <2>1, <3>1 DEF TInv
  <2>5. row.status \in {"draft", "published"} => SessionsOverlapping(row.i, row.from, row.to) \subseteq {s}
    BY <1>5, <2>1, <2>3 DEF RescheduleCommit, Engagements, EngagementsDisjoint
  <2> HIDE DEF row, s
  <2> QED BY <2>1, <2>2, <2>3, <2>4, <2>5, ApartStep
<1>6. CASE PublishCommit(t)
  <2> DEFINE s == tx[t].s
             row == [sessions[s] EXCEPT !.status = "published"]
  <2>1. s \in SessionIds /\ Write(t, s, row) /\ sessions[s].status # "none"
    BY <1>6, RequestType DEF NInv, PublishCommit, At
  <2>2. /\ row.kind = sessions[s].kind /\ row.status = "published" /\ row.i = sessions[s].i
        /\ row.from = sessions[s].from /\ row.to = sessions[s].to
        /\ row.learner = sessions[s].learner /\ row.booked = sessions[s].booked
    BY <1>1, <2>1 DEF SessionRow
  <2>3. row \in SoundRow
    <3>1. sessions'[s] = row
      BY <2>1 DEF Write, NInv, TInv
    <3> QED BY <2>1, <3>1 DEF TInv
  <2>4. SessionsOverlapping(row.i, row.from, row.to) \subseteq {s}
    BY <1>6, <2>2 DEF PublishCommit, EngagementsDisjoint
  <2>5. row.booked => row.kind = "one_on_one" /\ sessions[s].booked
    BY <2>1, <2>2 DEF NInv
  <2> HIDE DEF row, s
  <2> QED BY <2>1, <2>2, <2>3, <2>4, <2>5, ApartStep
<1> QED BY <1>3, <1>4, <1>5, <1>6

LEMMA InitApart == Init => NInv
<1> SUFFICES ASSUME Init PROVE NInv
  OBVIOUS
<1>1. Engagements = {} /\ \A s \in SessionIds : ~sessions[s].booked
  BY DEF Init, Engagements, NoSession
<1>2. \A t \in Txns : Regards(tx[t])
  BY DEF Init, Regards, Idle
<1> QED BY <1>1, <1>2, InitType DEF NInv, NobodyTwiceAtOnce

LEMMA StepApart == NInv /\ [Next]_vars => NInv'
<1> SUFFICES ASSUME NInv, [Next]_vars PROVE NInv'
  OBVIOUS
<1>0. TInv /\ TInv'
  BY StepType DEF NInv
<1>1. ASSUME NEW t \in Txns, Continue(t) PROVE NInv'
  BY <1>0, <1>1, GoOnApart, CommitApart DEF Continue
<1>2. ASSUME NEW s \in SessionIds, CancelGroup(s) \/ CancelOneOnOne(s) PROVE NInv'
  <2>1. \A e \in SessionIds : sessions[e] \in SessionRow
    BY DEF NInv, TInv, TypeOK
  <2>2. Loosens
    BY <1>2, <2>1 DEF Loosens, CancelGroup, CancelOneOnOne, Engagements, NInv, TInv, TypeOK, SessionRow
  <2>3. UNCHANGED tx
    BY <1>2 DEF CancelGroup, CancelOneOnOne
  <2> QED BY <1>0, <2>2, <2>3, LooseStep
<1>3. ASSUME UNCHANGED sessions, UNCHANGED tx PROVE NInv'
  <2>1. Loosens
    BY <1>3 DEF Loosens, Engagements
  <2> QED BY <1>0, <1>3, <2>1, LooseStep
<1>4. ASSUME NEW b \in blocks, DeleteBlock(b) PROVE NInv'
  BY <1>3, <1>4 DEF DeleteBlock
<1>5. CASE UNCHANGED vars
  BY <1>3, <1>5 DEF vars
<1> QED
  BY <1>0, <1>1, <1>2, <1>4, <1>5, OpenApart, NextOpens

\* The exclusion constraints keep everybody out of two sessions at once by
\* themselves: drafts published without a lock and durations changed included.
THEOREM NobodyTwice == Spec => []NobodyTwiceAtOnce
<1>1. NInv => NobodyTwiceAtOnce
  BY DEF NInv
<1> QED BY <1>1, InitApart, StepApart, PTL DEF Spec
=============================================================================
