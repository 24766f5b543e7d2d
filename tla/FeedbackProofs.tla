--------------------------- MODULE FeedbackProofs ---------------------------
(***************************************************************************)
(* Proofs about Feedback, for any roster, any transcript, any number of    *)
(* jobs at once and any bounds.  The greedy pass of the resolver is        *)
(* recursive: that the recursion defines a function, and what the function *)
(* computes, follows from a least counterexample (PassInduction).          *)
(***************************************************************************)
EXTENDS Feedback, FiniteSetTheorems, WellFoundedInduction, TLAPS

USE FeedbackAssumption

Mapping == [Labels -> Row]

LEMMA PatchType ==
  ASSUME NEW row \in Row, NEW read \in Row, NEW copy \in Row
  PROVE  Patch(row, read, copy) \in Row
BY DEF Patch, Row

LEMMA PatchAllType ==
  ASSUME speakers \in Mapping, NEW read \in Mapping, NEW copy \in Mapping
  PROVE  PatchAll(read, copy) \in Mapping
BY PatchType DEF PatchAll, Mapping

LEMMA StampedType ==
  ASSUME NEW rows \in Mapping
  PROVE  Stamped(rows) \in Mapping
BY DEF Stamped, Mapping, Row

LEMMA NoRowsType == NoRows \in Mapping
BY DEF NoRows, NewRow, Mapping, Row

LEMMA ResolvedType ==
  ASSUME NEW rows \in Mapping
  PROVE  Resolved(rows) \in Mapping
<1> DEFINE needs == {l \in Labels : NeedsResolution(rows[l])}
           open == needs \ BotLabels
           match == Eliminated(open, Greedy[[open |-> open, match |-> Claimed(rows)]])
<1>1. \A l \in Labels : rows[l] \in Row
  BY DEF Mapping
<1>2. \A l \in Labels :
        /\ [rows[l] EXCEPT !.ignored = TRUE, !.via = "auto"] \in Row
        /\ match[l] \in People => [rows[l] EXCEPT !.user = match[l], !.via = "auto"] \in Row
  <2> HIDE DEF match
  <2> QED BY <1>1 DEF Row
<1> HIDE DEF match
<1> QED BY <1>1, <1>2 DEF Resolved, Mapping, match

LEMMA BasisType ==
  ASSUME NEW rows \in Mapping
  PROVE  BasisOf(rows) \in Basis
BY DEF BasisOf, Basis, Mapping, Row

LEMMA LearnedType ==
  ASSUME speakers \in Mapping, NEW read \in Mapping, NEW copy \in Mapping
  PROVE  Learned(read, copy) \in SUBSET ((People \cup {None}) \X Labels)
BY DEF Learned, Mapping, Row

LEMMA StampedComplete ==
  ASSUME NEW rows \in Mapping, Complete(rows)
  PROVE  Complete(Stamped(rows))
BY DEF Complete, Stamped, Mapping, Row, Matched

LEMMA CompleteIsWhole ==
  ASSUME NEW rows, Complete(rows)
  PROVE  Whole(BasisOf(rows))
BY DEF Complete, Whole, BasisOf, Matched

LEMMA IdleType == Idle \in Job
BY NoRowsType DEF Idle, Job, Mapping

LEMMA ProceedType ==
  ASSUME TypeOK, NEW w \in Workers, NEW r \in Job, Proceed(w, r)
  PROVE  job' \in [Workers -> Job]
BY DEF Proceed, TypeOK

LEMMA FinishType ==
  ASSUME TypeOK, NEW w \in Workers, Finish(w)
  PROVE  job' \in [Workers -> Job]
BY IdleType, ProceedType DEF Finish

LEMMA SpendType ==
  ASSUME TypeOK, NEW bound \in Bounds, Spend(bound)
  PROVE  left' \in [Bounds -> Nat]
BY DEF Spend, TypeOK

LEMMA EnqueueType ==
  ASSUME TypeOK, NEW kind \in Kinds, Enqueue(kind)
  PROVE  queue' \in [Kinds -> Nat]
BY DEF Enqueue, TypeOK

LEMMA TakeType ==
  ASSUME TypeOK, NEW w \in Workers, NEW kind \in Kinds, Take(w, kind)
  PROVE  queue' \in [Kinds -> Nat]
BY DEF Take, TypeOK

-----------------------------------------------------------------------------
LEMMA IngestTypes ==
  ASSUME TypeOK, NEW w \in Workers, IngestRead(w) \/ Ingest(w)
  PROVE  TypeOK'
<1> DEFINE j == job[w]
<1>j. j \in Job
  BY DEF TypeOK
<1>1. CASE IngestRead(w)
  <2>1. [Idle EXCEPT !.kind = "ingest", !.status = transcript,
                     !.pc = IF transcript = "none" THEN "insert" ELSE "resolve"] \in Job
    BY IdleType DEF TypeOK, Job, Kinds
  <2>2. job' \in [Workers -> Job]
    BY <1>1, <2>1, ProceedType DEF IngestRead
  <2> QED BY <1>1, <2>2, TakeType DEF IngestRead, TypeOK, tables, Kinds
<1>2. CASE IngestInsert(w)
  <2>1. [j EXCEPT !.holds = {Transcript}, !.pc = "resolve"] \in Job
    BY <1>j DEF Job
  <2>2. job' \in [Workers -> Job]
    BY <1>2, <2>1, ProceedType, FinishType DEF IngestInsert
  <2> QED BY <1>2, <2>2 DEF IngestInsert, TypeOK, tables
<1>3. CASE IngestResolve(w)
  <2> DEFINE rows == IF job[w].status = "none" THEN NoRows ELSE speakers
  <2>1. rows \in Mapping /\ Resolved(rows) \in Mapping
    BY NoRowsType, ResolvedType DEF TypeOK, Mapping
  <2> HIDE DEF rows
  <2>2. [j EXCEPT !.read = rows, !.copy = Resolved(rows), !.pc = "write"] \in Job
    BY <1>j, <2>1 DEF Job, Mapping
  <2>3. job' \in [Workers -> Job]
    BY <1>3, <2>2, ProceedType DEF IngestResolve, rows
  <2> QED BY <1>3, <2>3 DEF IngestResolve, TypeOK, tables
<1>4. CASE IngestWrite(w)
  <2>1. [Idle EXCEPT !.kind = "ingest", !.pc = "announce",
                     !.status = StatusFor(j.copy)] \in Job
    BY IdleType DEF Job, Kinds, StatusFor
  <2>2. job' \in [Workers -> Job]
    BY <1>4, <2>1, ProceedType, FinishType DEF IngestWrite
  <2>3. j.read \in Mapping /\ j.copy \in Mapping /\ speakers \in Mapping
    BY <1>j DEF TypeOK, Job, Mapping
  <2>4. speakers' \in Mapping
    BY <1>4, <2>3, PatchAllType DEF IngestWrite
  <2>5. transcript' \in {"none", "needs_review", "resolved"}
    BY <1>4 DEF IngestWrite, StatusFor, TypeOK
  <2>6. aliases' \in SUBSET ((People \cup {None}) \X Labels)
    BY <1>4, <2>3, LearnedType DEF IngestWrite, TypeOK
  <2>7. UNCHANGED <<reports, queue, edit, left>>
    BY <1>4 DEF IngestWrite
  <2> QED BY <2>2, <2>4, <2>5, <2>6, <2>7 DEF TypeOK, Mapping
<1>5. CASE IngestAnnounce(w)
  BY <1>5, FinishType, EnqueueType DEF IngestAnnounce, TypeOK, tables, Kinds
<1> QED BY <1>1, <1>2, <1>3, <1>4, <1>5 DEF Ingest

\* Stamp leaves a job of the right type behind.
LEMMA StampType ==
  ASSUME TypeOK, NEW w \in Workers, NEW pc \in {"announce", "reopen"}, Stamp(w, pc)
  PROVE  job' \in [Workers -> Job]
<1> DEFINE j == job[w]
           rows == Changed(j.read, j.copy)
                     \cup (IF j.status # "resolved" THEN {Transcript} ELSE {})
           learns == Learned(j.read, j.copy)
           seen == [u \in Learners |-> reports[u].status]
<1>1. j \in Job /\ j.read \in Mapping /\ j.copy \in Mapping /\ speakers \in Mapping
  BY DEF TypeOK, Job, Mapping
<1>2. rows \in SUBSET ({Transcript} \cup Labels \cup Learners)
  BY DEF Changed
<1>3. learns \in SUBSET ((People \cup {None}) \X Labels)
  BY <1>1, LearnedType
<1>4. seen \in [Learners -> {"none", "draft", "published"}]
  BY DEF TypeOK, Report
<1>5. Finish(w) \/ Proceed(w, [j EXCEPT !.holds = rows, !.learns = learns, !.pc = pc,
                                        !.seen = seen])
  BY DEF Stamp
<1> HIDE DEF rows, learns, seen
<1>6. [j EXCEPT !.holds = rows, !.learns = learns, !.pc = pc, !.seen = seen] \in Job
  BY <1>1, <1>2, <1>3, <1>4 DEF Job
<1> QED BY <1>5, <1>6, ProceedType, FinishType

LEMMA CommitStampsType ==
  ASSUME TypeOK, NEW w \in Workers, CommitStamps(w)
  PROVE  /\ transcript' \in {"none", "needs_review", "resolved"}
         /\ speakers' \in [Labels -> Row]
         /\ aliases' \in SUBSET ((People \cup {None}) \X Labels)
         /\ job' \in [Workers -> Job]
<1>1. job[w] \in Job
  BY DEF TypeOK
<1>2. job[w].read \in Mapping /\ job[w].copy \in Mapping /\ speakers \in Mapping
  BY <1>1 DEF TypeOK, Job, Mapping
<1>3. speakers' \in Mapping
  BY <1>2, PatchAllType DEF CommitStamps
<1>4. job' \in [Workers -> Job]
  BY FinishType DEF CommitStamps
<1>5. job[w].learns \in SUBSET ((People \cup {None}) \X Labels)
  BY <1>1 DEF Job
<1> QED BY <1>3, <1>4, <1>5 DEF CommitStamps, TypeOK, Mapping

LEMMA SweepTypes ==
  ASSUME TypeOK, NEW w \in Workers, SweepRead(w) \/ Sweep(w)
  PROVE  TypeOK'
<1>1. CASE SweepRead(w)
  <2>1. speakers \in Mapping /\ Stamped(speakers) \in Mapping
    BY StampedType DEF TypeOK, Mapping
  <2>2. [Idle EXCEPT !.kind = "sweep", !.pc = "write", !.status = transcript,
                     !.read = speakers, !.copy = Stamped(speakers)] \in Job
    BY <2>1, IdleType DEF TypeOK, Job, Mapping
  <2>3. job' \in [Workers -> Job]
    BY <1>1, <2>2, ProceedType DEF SweepRead
  <2> QED BY <1>1, <2>3 DEF SweepRead, TypeOK, tables
<1>2. CASE SweepWrite(w)
  BY <1>2, StampType DEF SweepWrite, TypeOK, tables
<1>3. CASE SweepAnnounce(w)
  <2>j. job[w] \in Job
    BY DEF TypeOK
  <2>1. [job[w] EXCEPT !.pc = "commit"] \in Job
    BY <2>j DEF Job
  <2>2. job' \in [Workers -> Job]
    BY <1>3, <2>1, ProceedType DEF SweepAnnounce
  <2> QED BY <1>3, <2>2, EnqueueType DEF SweepAnnounce, TypeOK, tables, Kinds
<1>4. CASE SweepCommit(w)
  BY <1>4, CommitStampsType DEF SweepCommit, TypeOK
<1> QED BY <1>1, <1>2, <1>3, <1>4 DEF Sweep

Seen == [Learners -> {"none", "draft", "published"}]

LEMMA SeenType ==
  ASSUME TypeOK
  PROVE  [u \in Learners |-> reports[u].status] \in Seen
BY DEF TypeOK, Report, Seen

LEMMA WritesType ==
  ASSUME NEW rows, NEW seen, NEW forgotten
  PROVE  Writes(rows, seen, forgotten) \in SUBSET Learners
BY DEF Writes

LEMMA WrittenType ==
  ASSUME TypeOK, NEW w \in Workers, job[w].kind \in {"generate", "finalise"},
         NEW u \in Learners
  PROVE  Written(w, u) \in Report
<1>1. job[w] \in Job /\ job[w].copy \in Mapping
  BY DEF TypeOK, Job, Mapping
<1>2. reports[u] \in Report /\ BasisOf(job[w].copy) \in Basis
  BY <1>1, BasisType DEF TypeOK
<1> QED BY <1>2 DEF Written, Report

LEMMA PublishedType ==
  ASSUME TypeOK, NEW w \in Workers, NEW u \in Learners
  PROVE  Published(w, u) \in Report
<1>1. job[w] \in Job /\ job[w].copy \in Mapping
  BY DEF TypeOK, Job, Mapping
<1>2. reports[u] \in Report /\ BasisOf(job[w].copy) \in Basis
  BY <1>1, BasisType DEF TypeOK
<1> QED BY <1>2 DEF Published, Report

LEMMA GenerateTypes ==
  ASSUME TypeOK, NEW w \in Workers, GenerateRead(w) \/ Generate(w)
  PROVE  TypeOK'
<1>j. job[w] \in Job
  BY DEF TypeOK
<1>1. CASE GenerateRead(w)
  <2>1. [Idle EXCEPT !.kind = "generate", !.read = speakers,
                     !.copy = speakers, !.pc = "draft"] \in Job
    BY IdleType DEF TypeOK, Job, Kinds
  <2>2. job' \in [Workers -> Job]
    BY <1>1, <2>1, ProceedType DEF GenerateRead
  <2> QED BY <1>1, <2>2, TakeType DEF GenerateRead, TypeOK, tables, Kinds
<1>2. ASSUME NEW forgotten \in SUBSET Learners, GenerateDraft(w, forgotten)
      PROVE  TypeOK'
  <2> DEFINE seen == [u \in Learners |-> reports[u].status]
             writes == Writes(job[w].copy, seen, forgotten)
  <2>1. seen \in Seen /\ writes \in SUBSET Learners
    BY SeenType, WritesType
  <2> HIDE DEF seen, writes
  <2>2. [job[w] EXCEPT !.seen = seen, !.pc = "write", !.writes = writes] \in Job
    BY <1>j, <2>1 DEF Job, Seen
  <2>3. job' \in [Workers -> Job]
    BY <1>2, <2>2, ProceedType DEF GenerateDraft, seen, writes
  <2> QED BY <1>2, <2>3 DEF GenerateDraft, TypeOK, tables
<1>3. CASE GenerateWrite(w)
  <2>1. job[w].kind = "generate"
    BY <1>3 DEF GenerateWrite, At
  <2>2. reports' \in [Learners -> Report]
    BY <1>3, <2>1, WrittenType DEF GenerateWrite, TypeOK
  <2> QED BY <1>3, <2>2, FinishType DEF GenerateWrite, TypeOK
<1> QED BY <1>1, <1>2, <1>3 DEF Generate

LEMMA FinaliseTypes ==
  ASSUME TypeOK, NEW w \in Workers, FinaliseRead(w) \/ Finalise(w)
  PROVE  TypeOK'
<1>j. job[w] \in Job
  BY DEF TypeOK
<1>1. CASE FinaliseRead(w)
  <2>1. speakers \in Mapping /\ Stamped(speakers) \in Mapping
    BY StampedType DEF TypeOK, Mapping
  <2>2. [Idle EXCEPT !.kind = "finalise", !.status = transcript,
                     !.read = speakers, !.copy = Stamped(speakers), !.pc = "stamp"] \in Job
    BY <2>1, IdleType DEF TypeOK, Job, Mapping, Kinds
  <2>3. job' \in [Workers -> Job]
    BY <1>1, <2>2, ProceedType, FinishType DEF FinaliseRead
  <2> QED BY <1>1, <2>3, TakeType DEF FinaliseRead, TypeOK, tables, Kinds
<1>2. CASE FinaliseStamp(w)
  BY <1>2, StampType DEF FinaliseStamp, TypeOK, tables
<1>3. CASE FinaliseReopen(w)
  <2>1. [job[w] EXCEPT !.holds = @ \cup Reopened(w), !.pc = "draft"] \in Job
    BY <1>j DEF Job, Reopened
  <2>2. job' \in [Workers -> Job]
    BY <1>3, <2>1, ProceedType DEF FinaliseReopen
  <2> QED BY <1>3, <2>2 DEF FinaliseReopen, TypeOK, tables
<1>4. ASSUME NEW forgotten \in SUBSET Learners, NEW kept \in SUBSET Learners,
             FinaliseDraft(w, forgotten, kept)
      PROVE  TypeOK'
  <2> DEFINE seen == [u \in Learners |->
                        IF job[w].seen[u] # "none" /\ u \in Reopened(w) \cup kept
                        THEN "draft" ELSE reports[u].status]
             writes == Writes(OwnCopy(w), seen, forgotten)
  <2>1. seen \in Seen /\ writes \in SUBSET Learners
    BY SeenType, WritesType DEF Seen
  <2>2. OwnCopy(w) \in [Labels -> Row]
    BY <1>j DEF OwnCopy, Job
  <2> HIDE DEF seen, writes
  <2>3. [job[w] EXCEPT !.seen = seen, !.pc = "write", !.copy = OwnCopy(w),
                       !.writes = writes] \in Job
    BY <1>j, <2>1, <2>2 DEF Job, Seen
  <2>4. job' \in [Workers -> Job]
    BY <1>4, <2>3, ProceedType DEF FinaliseDraft, seen, writes
  <2> QED BY <1>4, <2>4 DEF FinaliseDraft, TypeOK, tables
<1>5. CASE FinaliseWrite(w)
  <2>1. [job[w] EXCEPT !.holds = @ \cup job[w].writes, !.pc = "load"] \in Job
    BY <1>j DEF Job
  <2>2. job' \in [Workers -> Job]
    BY <1>5, <2>1, ProceedType, FinishType DEF FinaliseWrite
  <2> QED BY <1>5, <2>2 DEF FinaliseWrite, TypeOK, tables
<1>6. CASE FinaliseLoad(w)
  <2> DEFINE seen == [u \in Learners |-> IF u \in job[w].holds THEN "draft"
                                         ELSE reports[u].status]
  <2>1. seen \in Seen
    BY SeenType DEF Seen
  <2> HIDE DEF seen
  <2>2. [job[w] EXCEPT !.pc = "commit", !.seen = seen] \in Job
    BY <1>j, <2>1 DEF Job, Seen
  <2>3. job' \in [Workers -> Job]
    BY <1>6, <2>2, ProceedType DEF FinaliseLoad, seen
  <2> QED BY <1>6, <2>3 DEF FinaliseLoad, TypeOK, tables
<1>7. CASE FinaliseCommit(w)
  <2>1. reports' \in [Learners -> Report]
    BY <1>7, PublishedType DEF FinaliseCommit, TypeOK
  <2> QED BY <1>7, <2>1, CommitStampsType DEF FinaliseCommit, TypeOK
<1> QED BY <1>1, <1>2, <1>3, <1>4, <1>5, <1>6, <1>7 DEF Finalise

LEMMA PeopleTypes ==
  ASSUME TypeOK, Click \/ Arrive \/ BackOffice \/ \E q \in Requests : Edit(q)
  PROVE  TypeOK'
<1>1. CASE Click
  BY <1>1, SpendType, EnqueueType DEF Click, TypeOK, tables, Kinds, Bounds
<1>2. CASE Arrive
  BY <1>2, SpendType, EnqueueType DEF Arrive, TypeOK, tables, Kinds, Bounds
<1>3. ASSUME NEW l \in Labels, NEW to \in People \cup {None, Nobody}, BackOfficeMap(l, to)
      PROVE  TypeOK'
  <2>1. speakers[l] \in Row
    BY DEF TypeOK
  <2>2. [speakers[l] EXCEPT !.ignored = TRUE] \in Row
    BY <2>1 DEF Row
  <2>3. to # Nobody => [speakers[l] EXCEPT !.user = to] \in Row
    BY <2>1 DEF Row
  <2>4. speakers' \in [Labels -> Row]
    BY <1>3, <2>2, <2>3 DEF BackOfficeMap, TypeOK
  <2> QED BY <1>3, <2>4, SpendType DEF BackOfficeMap, TypeOK, Bounds
<1>4. ASSUME NEW u \in Learners, BackOfficePublish(u) \/ BackOfficeUnpublish(u)
      PROVE  TypeOK'
  <2>1. PICK from \in {"draft", "published"}, to \in {"draft", "published"} :
          BackOfficeStatus(u, from, to)
    BY <1>4 DEF BackOfficePublish, BackOfficeUnpublish
  <2>2. reports[u] \in Report
    BY DEF TypeOK
  <2>3. [reports[u] EXCEPT !.status = to] \in Report
    BY <2>2 DEF Report
  <2>4. reports' \in [Learners -> Report]
    BY <2>1, <2>3 DEF BackOfficeStatus, TypeOK
  <2> QED BY <2>1, <2>4, SpendType DEF BackOfficeStatus, TypeOK, Bounds
<1>5. ASSUME NEW q \in Requests, NEW l \in Labels,
             NEW to \in People \cup {None, Nobody}, MapRead(q, l, to)
      PROVE  TypeOK'
  <2>1. [user |-> IF to = Nobody THEN None ELSE to, ignored |-> to = Nobody,
         via |-> IF to = None THEN "none" ELSE "admin"] \in Row
    BY DEF Row
  <2>2. edit' \in [Requests -> [label: Labels \cup {None}, read: Row, copy: Row]]
    BY <1>5, <2>1 DEF MapRead, TypeOK
  <2> QED BY <1>5, <2>2, SpendType DEF MapRead, TypeOK, Bounds, tables
<1>6. ASSUME NEW q \in Requests, MapCommit(q)
      PROVE  TypeOK'
  <2>1. edit[q].read \in Row /\ edit[q].copy \in Row
    BY DEF TypeOK
  <2>2. \A l \in Labels : Patch(speakers[l], edit[q].read, edit[q].copy) \in Row
    BY <2>1, PatchType DEF TypeOK
  <2>3. speakers' \in [Labels -> Row]
    BY <1>6, <2>2 DEF MapCommit, TypeOK
  <2>4. NoEdit \in [label: Labels \cup {None}, read: Row, copy: Row]
    BY DEF NoEdit, NewRow, Row
  <2>5. edit' \in [Requests -> [label: Labels \cup {None}, read: Row, copy: Row]]
    BY <1>6, <2>4 DEF MapCommit, TypeOK
  <2> QED BY <1>6, <2>3, <2>5 DEF MapCommit, TypeOK
<1> QED BY <1>1, <1>2, <1>3, <1>4, <1>5, <1>6 DEF BackOffice, Edit

LEMMA JobEndTypes ==
  ASSUME TypeOK, NEW w \in Workers, Fail(w) \/ Interrupt(w)
  PROVE  TypeOK'
<1>1. CASE Fail(w)
  BY <1>1, FinishType, SpendType DEF Fail, TypeOK, tables, Bounds
<1>2. CASE Interrupt(w)
  <2>1. job[w].kind \in Kinds
    BY <1>2 DEF Interrupt, TypeOK, Job
  <2> QED BY <1>2, <2>1, FinishType, SpendType, EnqueueType
          DEF Interrupt, TypeOK, tables, Bounds
<1> QED BY <1>1, <1>2

LEMMA InitTypes == Init => TypeOK
<1> SUFFICES ASSUME Init PROVE TypeOK
  OBVIOUS
<1>1. speakers \in [Labels -> Row]
  BY NoRowsType DEF Init, Mapping
<1>2. reports \in [Learners -> Report]
  BY DEF Init, NoReport, Report, Basis
<1>3. job \in [Workers -> Job]
  BY IdleType DEF Init
<1>4. edit \in [Requests -> [label: Labels \cup {None}, read: Row, copy: Row]]
  BY DEF Init, NoEdit, NewRow, Row
<1>5. left \in [Bounds -> Nat]
  BY DEF Init, Bounds
<1> QED BY <1>1, <1>2, <1>3, <1>4, <1>5 DEF Init, TypeOK, Kinds

LEMMA TypeStep == TypeOK /\ [Next]_vars => TypeOK'
<1> SUFFICES ASSUME TypeOK, [Next]_vars PROVE TypeOK'
  OBVIOUS
<1>1. CASE Arrive \/ Click \/ BackOffice \/ \E q \in Requests : Edit(q)
  BY <1>1, PeopleTypes
<1>2. ASSUME NEW w \in Workers, Work(w)
      PROVE  TypeOK'
  BY <1>2, IngestTypes, SweepTypes, GenerateTypes, FinaliseTypes DEF Work
<1>3. ASSUME NEW w \in Workers, Fail(w) \/ Interrupt(w)
      PROVE  TypeOK'
  BY <1>3, JobEndTypes
<1>4. CASE UNCHANGED vars
  BY <1>4 DEF vars, tables, TypeOK
<1> QED BY <1>1, <1>2, <1>3, <1>4 DEF Next

-----------------------------------------------------------------------------
\* JobsCareful is inductive.
LEMMA IdleCareful == Careful(Idle)
BY DEF Careful, Idle

LEMMA CarefulProceed ==
  ASSUME TypeOK, JobsCareful, NEW w \in Workers, NEW r, Careful(r), Proceed(w, r)
  PROVE  JobsCareful'
<1> SUFFICES ASSUME NEW v \in Workers PROVE Careful(job'[v])
  BY DEF JobsCareful, Careful
<1>1. job'[v] = IF v = w THEN r ELSE job[v]
  BY DEF Proceed, TypeOK
<1> QED BY <1>1 DEF JobsCareful

LEMMA CarefulFinish ==
  ASSUME TypeOK, JobsCareful, NEW w \in Workers, Finish(w)
  PROVE  JobsCareful'
BY IdleCareful, CarefulProceed DEF Finish

LEMMA CarefulSame ==
  ASSUME JobsCareful, UNCHANGED job
  PROVE  JobsCareful'
BY DEF JobsCareful, Careful

LEMMA CarefulIngest ==
  ASSUME TypeOK, JobsCareful, NEW w \in Workers, IngestRead(w) \/ Ingest(w)
  PROVE  JobsCareful'
<1>j. job[w] \in Job
  BY DEF TypeOK
<1>1. CASE IngestRead(w)
  <2>1. Careful([Idle EXCEPT !.kind = "ingest", !.status = transcript,
                             !.pc = IF transcript = "none" THEN "insert" ELSE "resolve"])
    BY DEF Careful, Idle
  <2> QED BY <1>1, <2>1, CarefulProceed DEF IngestRead
<1>2. CASE IngestInsert(w)
  <2>1. Careful([job[w] EXCEPT !.holds = {Transcript}, !.pc = "resolve"])
    BY <1>j, <1>2 DEF Careful, Job, IngestInsert, At
  <2> QED BY <1>2, <2>1, CarefulProceed, CarefulFinish DEF IngestInsert
<1>3. CASE IngestResolve(w)
  <2>1. PICK rows, copy :
          Proceed(w, [job[w] EXCEPT !.read = rows, !.copy = copy, !.pc = "write"])
    BY <1>3 DEF IngestResolve
  <2>2. Careful([job[w] EXCEPT !.read = rows, !.copy = copy, !.pc = "write"])
    BY <1>j, <1>3 DEF Careful, Job, IngestResolve, At
  <2> QED BY <2>1, <2>2, CarefulProceed
<1>4. CASE IngestWrite(w)
  <2>1. PICK status : \/ Finish(w)
                      \/ Proceed(w, [Idle EXCEPT !.kind = "ingest", !.pc = "announce",
                                                 !.status = status])
    BY <1>4 DEF IngestWrite
  <2>2. Careful([Idle EXCEPT !.kind = "ingest", !.pc = "announce", !.status = status])
    BY DEF Careful, Idle
  <2> QED BY <2>1, <2>2, CarefulProceed, CarefulFinish
<1>5. CASE IngestAnnounce(w)
  BY <1>5, CarefulFinish DEF IngestAnnounce
<1> QED BY <1>1, <1>2, <1>3, <1>4, <1>5 DEF Ingest

\* Stamp changes neither the mapping a job carries nor its kind.
LEMMA CarefulStamp ==
  ASSUME TypeOK, JobsCareful, NEW w \in Workers, job[w].kind # "generate",
         NEW pc, Stamp(w, pc)
  PROVE  JobsCareful'
<1>j. job[w] \in Job
  BY DEF TypeOK
<1>1. PICK rows, learns, seen :
        \/ Finish(w)
        \/ Proceed(w, [job[w] EXCEPT !.holds = rows, !.learns = learns, !.pc = pc,
                                     !.seen = seen])
  BY DEF Stamp
<1>2. Careful([job[w] EXCEPT !.holds = rows, !.learns = learns, !.pc = pc, !.seen = seen])
  BY <1>j DEF Careful, Job, JobsCareful
<1> QED BY <1>1, <1>2, CarefulProceed, CarefulFinish

LEMMA CarefulSweep ==
  ASSUME TypeOK, JobsCareful, NEW w \in Workers, SweepRead(w) \/ Sweep(w)
  PROVE  JobsCareful'
<1>j. job[w] \in Job
  BY DEF TypeOK
<1>1. CASE SweepRead(w)
  <2>1. Careful([Idle EXCEPT !.kind = "sweep", !.pc = "write", !.status = transcript,
                             !.read = speakers, !.copy = Stamped(speakers)])
    BY DEF Careful, Idle
  <2> QED BY <1>1, <2>1, CarefulProceed DEF SweepRead
<1>2. CASE SweepWrite(w)
  BY <1>2, CarefulStamp DEF SweepWrite, At
<1>3. CASE SweepAnnounce(w)
  <2>1. Careful([job[w] EXCEPT !.pc = "commit"])
    BY <1>j, <1>3 DEF Careful, Job, SweepAnnounce, At
  <2> QED BY <1>3, <2>1, CarefulProceed DEF SweepAnnounce
<1>4. CASE SweepCommit(w)
  BY <1>4, CarefulFinish DEF SweepCommit, CommitStamps
<1> QED BY <1>1, <1>2, <1>3, <1>4 DEF Sweep

LEMMA CarefulGenerate ==
  ASSUME TypeOK, JobsCareful, NEW w \in Workers, GenerateRead(w) \/ Generate(w)
  PROVE  JobsCareful'
<1>j. job[w] \in Job
  BY DEF TypeOK
<1>1. CASE GenerateRead(w)
  <2>1. Careful([Idle EXCEPT !.kind = "generate", !.read = speakers,
                             !.copy = speakers, !.pc = "draft"])
    BY DEF Careful, Idle
  <2> QED BY <1>1, <2>1, CarefulProceed DEF GenerateRead
<1>2. ASSUME NEW forgotten \in SUBSET Learners, GenerateDraft(w, forgotten)
      PROVE  JobsCareful'
  <2> DEFINE seen == [u \in Learners |-> reports[u].status]
             writes == Writes(job[w].copy, seen, forgotten)
  <2>1. \A u \in writes : seen[u] # "published"
    BY DEF Writes, Skips
  <2> HIDE DEF seen, writes
  <2>2. Careful([job[w] EXCEPT !.seen = seen, !.pc = "write", !.writes = writes])
    BY <1>j, <1>2, <2>1 DEF Careful, Job, GenerateDraft, At
  <2> QED BY <1>2, <2>2, CarefulProceed DEF GenerateDraft, seen, writes
<1>3. CASE GenerateWrite(w)
  BY <1>3, CarefulFinish DEF GenerateWrite
<1> QED BY <1>1, <1>2, <1>3 DEF Generate

LEMMA CarefulFinalise ==
  ASSUME TypeOK, JobsCareful, NEW w \in Workers, FinaliseRead(w) \/ Finalise(w)
  PROVE  JobsCareful'
<1>j. job[w] \in Job
  BY DEF TypeOK
<1>c. job[w].kind = "finalise" => Complete(job[w].copy)
  BY DEF JobsCareful, Careful
<1>1. CASE FinaliseRead(w)
  <2>1. ASSUME Complete(speakers)
        PROVE  Careful([Idle EXCEPT !.kind = "finalise", !.status = transcript,
                          !.read = speakers, !.copy = Stamped(speakers), !.pc = "stamp"])
    <3>1. Complete(Stamped(speakers))
      BY <2>1, StampedComplete DEF TypeOK, Mapping
    <3> QED BY <3>1 DEF Careful, Idle
  <2> QED BY <1>1, <2>1, CarefulProceed, CarefulFinish DEF FinaliseRead
<1>2. CASE FinaliseStamp(w)
  BY <1>2, CarefulStamp DEF FinaliseStamp, At
<1>3. CASE FinaliseReopen(w)
  <2>1. Careful([job[w] EXCEPT !.holds = @ \cup Reopened(w), !.pc = "draft"])
    BY <1>j, <1>c, <1>3 DEF Careful, Job, FinaliseReopen, At
  <2> QED BY <1>3, <2>1, CarefulProceed DEF FinaliseReopen
<1>4. ASSUME NEW forgotten \in SUBSET Learners, NEW kept \in SUBSET Learners,
             FinaliseDraft(w, forgotten, kept)
      PROVE  JobsCareful'
  <2>1. PICK seen, writes :
          Proceed(w, [job[w] EXCEPT !.seen = seen, !.pc = "write", !.copy = OwnCopy(w),
                                    !.writes = writes])
    BY <1>4 DEF FinaliseDraft
  <2>2. Careful([job[w] EXCEPT !.seen = seen, !.pc = "write", !.copy = OwnCopy(w),
                               !.writes = writes])
    BY <1>j, <1>c, <1>4 DEF Careful, Job, FinaliseDraft, At, OwnCopy
  <2> QED BY <2>1, <2>2, CarefulProceed
<1>5. CASE FinaliseWrite(w)
  <2>1. Careful([job[w] EXCEPT !.holds = @ \cup job[w].writes, !.pc = "load"])
    BY <1>j, <1>c, <1>5 DEF Careful, Job, FinaliseWrite, At
  <2> QED BY <1>5, <2>1, CarefulProceed, CarefulFinish DEF FinaliseWrite
<1>6. CASE FinaliseLoad(w)
  <2>1. PICK seen : Proceed(w, [job[w] EXCEPT !.pc = "commit", !.seen = seen])
    BY <1>6 DEF FinaliseLoad
  <2>2. Careful([job[w] EXCEPT !.pc = "commit", !.seen = seen])
    BY <1>j, <1>c, <1>6 DEF Careful, Job, FinaliseLoad, At
  <2> QED BY <2>1, <2>2, CarefulProceed
<1>7. CASE FinaliseCommit(w)
  BY <1>7, CarefulFinish DEF FinaliseCommit, CommitStamps
<1> QED BY <1>1, <1>2, <1>3, <1>4, <1>5, <1>6, <1>7 DEF Finalise

LEMMA CarefulStep ==
  ASSUME TypeOK, JobsCareful, [Next]_vars
  PROVE  JobsCareful'
<1>1. CASE Arrive \/ Click \/ BackOffice \/ \E q \in Requests : Edit(q)
  <2>1. UNCHANGED job
    BY <1>1 DEF Arrive, Click, BackOffice, BackOfficeMap, BackOfficePublish,
                BackOfficeUnpublish, BackOfficeStatus, Edit, MapRead, MapCommit
  <2> QED BY <2>1, CarefulSame
<1>2. ASSUME NEW w \in Workers, Work(w)
      PROVE  JobsCareful'
  BY <1>2, CarefulIngest, CarefulSweep, CarefulGenerate, CarefulFinalise DEF Work
<1>3. ASSUME NEW w \in Workers, Fail(w) \/ Interrupt(w)
      PROVE  JobsCareful'
  BY <1>3, CarefulFinish DEF Fail, Interrupt
<1>4. CASE UNCHANGED vars
  BY <1>4, CarefulSame DEF vars
<1> QED BY <1>1, <1>2, <1>3, <1>4 DEF Next

-----------------------------------------------------------------------------
\* Only GenerateWrite, FinaliseCommit and the back office change a report.
LEMMA ReportsSame ==
  ASSUME NEW w \in Workers, Work(w) \/ Fail(w) \/ Interrupt(w),
         ~GenerateWrite(w), ~FinaliseCommit(w)
  PROVE  UNCHANGED reports
BY DEF Work, Fail, Interrupt, IngestRead, SweepRead, GenerateRead, FinaliseRead,
       Ingest, IngestInsert, IngestResolve, IngestWrite, IngestAnnounce,
       Sweep, SweepWrite, SweepAnnounce, SweepCommit, Generate, GenerateDraft,
       Finalise, FinaliseStamp, FinaliseReopen, FinaliseDraft, FinaliseWrite,
       FinaliseLoad, tables

LEMMA WholeSame ==
  ASSUME FinalisedIsWhole, UNCHANGED reports
  PROVE  FinalisedIsWhole'
BY DEF FinalisedIsWhole

LEMMA WholeStep ==
  ASSUME TypeOK, JobsCareful, FinalisedIsWhole, [Next]_vars
  PROVE  FinalisedIsWhole'
<1>1. CASE Arrive \/ Click \/ \E q \in Requests : Edit(q)
  <2>1. UNCHANGED reports
    BY <1>1 DEF Arrive, Click, Edit, MapRead, MapCommit, tables
  <2> QED BY <2>1, WholeSame
<1>2. CASE BackOffice
  <2>1. ASSUME NEW l, NEW to, BackOfficeMap(l, to)
        PROVE  UNCHANGED reports
    BY <2>1 DEF BackOfficeMap
  <2>2. ASSUME NEW u \in Learners, NEW from, NEW to, BackOfficeStatus(u, from, to)
        PROVE  FinalisedIsWhole'
    <3>1. \A v \in Learners : /\ reports'[v].by = reports[v].by
                             /\ reports'[v].basis = reports[v].basis
      BY <2>2 DEF BackOfficeStatus, TypeOK, Report
    <3> QED BY <3>1 DEF FinalisedIsWhole
  <2> QED BY <1>2, <2>1, <2>2, WholeSame
          DEF BackOffice, BackOfficePublish, BackOfficeUnpublish
<1>3. ASSUME NEW w \in Workers, GenerateWrite(w)
      PROVE  FinalisedIsWhole'
  <2>1. \A u \in Learners :
          reports'[u] = reports[u] \/ reports'[u].by = "generate"
    BY <1>3 DEF GenerateWrite, Written, At, TypeOK
  <2> QED BY <2>1 DEF FinalisedIsWhole
<1>4. ASSUME NEW w \in Workers, FinaliseCommit(w)
      PROVE  FinalisedIsWhole'
  <2>1. Whole(BasisOf(job[w].copy))
    BY <1>4, CompleteIsWhole DEF FinaliseCommit, At, JobsCareful, Careful
  <2>2. \A u \in Learners :
          \/ reports'[u] = reports[u]
          \/ reports'[u].basis = BasisOf(job[w].copy)
          \/ reports'[u].basis = reports[u].basis /\ reports'[u].by = reports[u].by
    BY <1>4 DEF FinaliseCommit, Published, TypeOK
  <2> QED BY <2>1, <2>2 DEF FinalisedIsWhole
<1>5. CASE UNCHANGED vars
  BY <1>5, WholeSame DEF vars, tables
<1> QED BY <1>1, <1>2, <1>3, <1>4, <1>5, ReportsSame, WholeSame DEF Next

\* What a finalisation publishes says "unmatched" of nobody, whatever people
\* do to the speakers while it runs, whichever jobs run beside it, fail or are
\* run again (jobs.py, finalize_session_feedback).
THEOREM FeedbackInvariant == Spec => []FInv
<1>1. Init => FInv
  <2>1. Init => JobsCareful
    BY IdleCareful DEF Init, JobsCareful
  <2>2. Init => FinalisedIsWhole
    BY DEF Init, FinalisedIsWhole, NoReport
  <2> QED BY <2>1, <2>2, InitTypes DEF FInv
<1>2. FInv /\ [Next]_vars => FInv'
  BY TypeStep, CarefulStep, WholeStep DEF FInv
<1> QED BY <1>1, <1>2, PTL DEF Spec

\* No job takes a report back from its learner: a generation that has been
\* overtaken by a finalisation leaves the row published, and a finalisation
\* reopens rows only inside its transaction (services/feedback.py,
\* generate_feedback; jobs.py, finalize_session_feedback).
THEOREM PublishedKept == Spec => PublishedStaysPublished
<1> DEFINE Kept(u) == reports[u].status = "published" /\ reports'[u].status # "published"
                        => BackOfficeUnpublish(u)
<1>1. ASSUME FInv, [Next]_vars, NEW u \in Learners
      PROVE  Kept(u)
  <2> USE <1>1 DEF FInv
  <2>1. CASE Arrive \/ Click \/ \E q \in Requests : Edit(q)
    BY <2>1 DEF Arrive, Click, Edit, MapRead, MapCommit, tables
  <2>2. ASSUME NEW l, NEW to, BackOfficeMap(l, to)
        PROVE  Kept(u)
    BY <2>2 DEF BackOfficeMap
  <2>3. ASSUME NEW v \in Learners, BackOfficePublish(v) \/ BackOfficeUnpublish(v)
        PROVE  Kept(u)
    BY <2>3 DEF BackOfficePublish, BackOfficeUnpublish, BackOfficeStatus, TypeOK, Report
  <2>4. ASSUME NEW w \in Workers, GenerateWrite(w)
        PROVE  Kept(u)
    <3>1. \A v \in job[w].writes : job[w].seen[v] # "published"
      BY <2>4 DEF GenerateWrite, At, JobsCareful, Careful
    <3>2. job[w].seen \in Seen /\ job[w].writes \subseteq Learners
      BY DEF TypeOK, Job, Seen
    <3> QED BY <2>4, <3>1, <3>2 DEF GenerateWrite, Collides, Written, Seen, TypeOK
  <2>5. ASSUME NEW w \in Workers, FinaliseCommit(w)
        PROVE  Kept(u)
    BY <2>5 DEF FinaliseCommit, Published
  <2>6. CASE UNCHANGED vars
    BY <2>6 DEF vars, tables
  <2> QED BY <2>1, <2>2, <2>3, <2>4, <2>5, <2>6, ReportsSame DEF Next, BackOffice
<1>2. FInv /\ [Next]_vars => [\A u \in Learners : Kept(u)]_vars
  BY <1>1
<1>3. Spec => []FInv
  BY FeedbackInvariant
<1> QED BY <1>2, <1>3, PTL DEF Spec, PublishedStaysPublished

-----------------------------------------------------------------------------
\* The resolver.  A set of numbers has a least one, and if bounded a greatest.
LEMMA Least ==
  ASSUME NEW T \in SUBSET Nat, T # {}
  PROVE  \E x \in T : \A y \in T : x <= y
<1> DEFINE R == OpToRel(<, Nat)
<1>1. \A x, y \in Nat : y < x => <<y, x>> \in R
  BY DEF OpToRel
<1>2. IsWellFoundedOn(R, Nat)
  BY NatLessThanWellFounded DEF R
<1> HIDE DEF R
<1>3. PICK x \in T : \A y \in T : ~ (<<y, x>> \in R)
  BY <1>2, WFMin
<1>4. ASSUME NEW y \in T PROVE x <= y
  <2>1. x \in Nat /\ y \in Nat
    OBVIOUS
  <2>2. ~ (y < x)
    BY <2>1, <1>1, <1>3
  <2> QED BY <2>1, <2>2
<1> QED BY <1>3, <1>4

LEMMA Greatest ==
  ASSUME NEW T \in SUBSET (0..100), T # {}
  PROVE  \E x \in T : \A y \in T : y <= x
<1> DEFINE D == {n \in 0..100 : 100 - n \in T}
<1>1. PICK t \in T : TRUE
  OBVIOUS
<1>2. 100 - t \in D
  <2>1. t \in 0..100
    BY <1>1
  <2>2. 100 - t \in 0..100 /\ 100 - (100 - t) = t
    BY <2>1
  <2> QED BY <1>1, <2>2
<1>3. PICK n \in D : \A m \in D : n <= m
  <2>1. \A n \in D : n \in Nat
    OBVIOUS
  <2> HIDE DEF D
  <2> QED BY <1>2, <2>1, Least
<1>4. 100 - n \in T
  OBVIOUS
<1>5. ASSUME NEW y \in T PROVE y <= 100 - n
  <2>1. y \in 0..100 /\ 100 - y \in 0..100 /\ 100 - (100 - y) = y
    OBVIOUS
  <2>2. n <= 100 - y
    BY <2>1, <1>3
  <2> QED BY <2>1, <2>2
<1> QED BY <1>4, <1>5

LEMMA TopIsBest ==
  ASSUME NEW l \in Labels, NEW people \in SUBSET People
  PROVE  /\ Top(l, people) \in 0..100
         /\ Top(l, people) # 0 => \E p \in people : ScoreOf(l, p) = Top(l, people)
<1> DEFINE T == {0} \cup {ScoreOf(l, p) : p \in people}
<1>1. \A p \in people : ScoreOf(l, p) \in 0..100
  BY DEF ScoreOf
<1>2. PICK s \in T : \A y \in T : y <= s
  <2>1. T \in SUBSET (0..100) /\ T # {}
    BY <1>1
  <2> HIDE DEF T
  <2> QED BY <2>1, Greatest
<1>3. \E r \in T : \A p \in people : ScoreOf(l, p) <= r
  BY <1>2
<1>4. Top(l, people) \in T
  BY <1>3 DEF Top
<1> QED BY <1>1, <1>4

LEMMA LeaderLeads ==
  ASSUME NEW open \in SUBSET Labels, NEW free \in SUBSET People, open # {}
  PROVE  /\ Leader(open, free) \in open
         /\ \A o \in open : Top(o, free) <= Top(Leader(open, free), free)
<1> DEFINE T == {Top(o, free) : o \in open}
<1>1. \A o \in open : Top(o, free) \in 0..100
  BY TopIsBest
<1>2. PICK s \in T : \A y \in T : y <= s
  <2>1. T \in SUBSET (0..100)
    BY <1>1
  <2>2. PICK o \in open : TRUE
    OBVIOUS
  <2>3. Top(o, free) \in T
    OBVIOUS
  <2> HIDE DEF T
  <2> QED BY <2>1, <2>3, Greatest
<1> DEFINE first == {o \in open : Top(o, free) = s}
<1>3. PICK l \in first : \A o \in first : l <= o
  BY <1>2, Least
<1> DEFINE Leads(x) == \A o \in open : \/ Top(o, free) < Top(x, free)
                                       \/ Top(o, free) = Top(x, free) /\ x <= o
<1>4. Leads(l)
  <2> SUFFICES ASSUME NEW o \in open
               PROVE  \/ Top(o, free) < Top(l, free)
                      \/ Top(o, free) = Top(l, free) /\ l <= o
    OBVIOUS
  <2>1. Top(o, free) <= s /\ Top(l, free) = s /\ s \in 0..100
    BY <1>1, <1>2, <1>3
  <2>2. Top(o, free) = s => l <= o
    BY <1>3
  <2> QED BY <2>1, <2>2, <1>1
<1>5. Leader(open, free) = CHOOSE x \in open : Leads(x)
  BY DEF Leader
<1>6. Leader(open, free) \in open /\ Leads(Leader(open, free))
  <2> HIDE DEF Leads
  <2> QED BY <1>3, <1>4, <1>5
<1>7. ASSUME NEW a \in open, NEW b \in open, Leads(b)
      PROVE  Top(a, free) <= Top(b, free)
  <2> DEFINE A == Top(a, free)
             B == Top(b, free)
  <2>1. A < B \/ A = B
    BY <1>7
  <2>2. A \in 0..100 /\ B \in 0..100
    BY <1>1
  <2> HIDE DEF A, B
  <2>3. A <= B
    BY <2>1, <2>2
  <2> QED BY <2>3 DEF A, B
<1> HIDE DEF Leads
<1> QED BY <1>6, <1>7

\* A round closes one label; it matches that label to somebody free or nobody.
LEMMA RoundMatches ==
  ASSUME NEW p \in Passes, Confident(p)
  PROVE  \E l \in p.open :
           /\ Round(p).open = p.open \ {l}
           /\ \/ Round(p).match = p.match
              \/ \E best \in Free(p.match) : Round(p).match = [p.match EXCEPT ![l] = best]
           /\ Round(p) \in Passes
<1> DEFINE free == Free(p.match)
           l == Leader(p.open, free)
           best == CHOOSE q \in free : ScoreOf(l, q) = Top(l, free)
<1>p. p.open \in SUBSET Labels /\ p.match \in Matching /\ free \in SUBSET People
  BY DEF Passes, Free
<1>1. PICK o \in p.open : Top(o, free) >= 80
  BY DEF Confident, AutoThreshold
<1>2. l \in p.open /\ Top(o, free) <= Top(l, free)
  BY <1>p, <1>1, LeaderLeads
<1>3. Top(l, free) # 0 /\ l \in Labels
  <2>1. l \in Labels /\ o \in Labels
    BY <1>p, <1>2
  <2> HIDE DEF l, free
  <2>2. Top(l, free) \in 0..100 /\ Top(o, free) \in 0..100
    BY <1>p, <2>1, TopIsBest
  <2> QED BY <2>1, <2>2, <1>1, <1>2
<1>4. best \in free
  BY <1>p, <1>3, TopIsBest
<1>5. Round(p) = [open |-> p.open \ {l}, match |-> Claim(l, free, p.match)]
  BY DEF Round
<1>6. \/ Claim(l, free, p.match) = p.match
      \/ Claim(l, free, p.match) = [p.match EXCEPT ![l] = best]
  BY DEF Claim
<1> HIDE DEF l, best, free
<1>7. Claim(l, free, p.match) \in Matching
  BY <1>p, <1>3, <1>4, <1>6 DEF Matching
<1>8. Round(p) \in Passes
  BY <1>p, <1>5, <1>7 DEF Passes
<1>9. /\ Round(p).open = p.open \ {l}
      /\ Round(p).match = p.match \/ Round(p).match = [p.match EXCEPT ![l] = best]
  BY <1>5, <1>6
<1> QED BY <1>2, <1>4, <1>8, <1>9 DEF free

LEMMA RoundShrinks ==
  ASSUME NEW p \in Passes, Confident(p)
  PROVE  /\ Cardinality(p.open) \in Nat /\ Cardinality(Round(p).open) \in Nat
         /\ Cardinality(Round(p).open) < Cardinality(p.open)
<1>1. PICK l \in p.open : Round(p).open = p.open \ {l}
  BY RoundMatches
<1>2. IsFiniteSet(p.open)
  BY FS_Subset DEF Passes
<1> QED BY <1>1, <1>2, FS_RemoveElement, FS_CardinalityType

\* What holds of a pass whenever it holds of every shorter one holds of all.
LEMMA PassInduction ==
  ASSUME NEW S \in SUBSET Passes,
         \A p \in Passes : (Confident(p) => Round(p) \in S) => p \in S
  PROVE  S = Passes
<1> SUFFICES ASSUME S # Passes PROVE FALSE
  OBVIOUS
<1> DEFINE sizes == {n \in Nat : \E p \in Passes \ S : Cardinality(p.open) = n}
<1>0. \A p \in Passes : Cardinality(p.open) \in Nat
  BY FS_Subset, FS_CardinalityType DEF Passes
<1>1. sizes # {} /\ sizes \in SUBSET Nat
  BY <1>0
<1>2. PICK n \in sizes : \A m \in sizes : n <= m
  <2> HIDE DEF sizes
  <2> QED BY <1>1, Least
<1>3. PICK p \in Passes \ S : Cardinality(p.open) = n
  OBVIOUS
<1>4. Confident(p) /\ Round(p) \notin S
  BY <1>3
<1>5. Round(p) \in Passes
  BY <1>4, RoundMatches
<1>6. Cardinality(Round(p).open) < n /\ Cardinality(Round(p).open) \in sizes
  BY <1>3, <1>4, <1>5, RoundShrinks
<1> QED BY <1>1, <1>2, <1>6

\* The recursion of Greedy is one that defines a function: the outcomes a pass
\* can have are those in every set that is closed under its rounds.
Closed(X) ==
  \A p \in Passes :
    IF Confident(p)
    THEN \A m \in Matching : <<Round(p), m>> \in X => <<p, m>> \in X
    ELSE <<p, p.match>> \in X
Outcomes == {x \in Passes \X Matching :
               \A X \in SUBSET (Passes \X Matching) : Closed(X) => x \in X}

LEMMA OutcomesClosed == Closed(Outcomes)
<1>1. ASSUME NEW p \in Passes, Confident(p), NEW m \in Matching, <<Round(p), m>> \in Outcomes
      PROVE  <<p, m>> \in Outcomes
  BY <1>1 DEF Outcomes, Closed
<1>2. ASSUME NEW p \in Passes, ~Confident(p)
      PROVE  <<p, p.match>> \in Outcomes
  <2>1. p.match \in Matching
    BY DEF Passes
  <2> QED BY <1>2, <2>1 DEF Outcomes, Closed
<1> QED BY <1>1, <1>2 DEF Closed

\* An outcome has a reason: without it the others would be closed.
LEMMA OutcomeHasReason ==
  ASSUME NEW p \in Passes, NEW m \in Matching, <<p, m>> \in Outcomes
  PROVE  IF Confident(p) THEN <<Round(p), m>> \in Outcomes ELSE m = p.match
<1> SUFFICES ASSUME ~(IF Confident(p) THEN <<Round(p), m>> \in Outcomes ELSE m = p.match)
             PROVE  FALSE
  OBVIOUS
<1> DEFINE X == Outcomes \ {<<p, m>>}
<1>1. X \in SUBSET (Passes \X Matching)
  BY DEF Outcomes
<1>2. ASSUME NEW q \in Passes, Confident(q), NEW n \in Matching, <<Round(q), n>> \in X
      PROVE  <<q, n>> \in X
  BY <1>2, OutcomesClosed DEF Closed
<1>3. ASSUME NEW q \in Passes, ~Confident(q)
      PROVE  <<q, q.match>> \in X
  BY <1>3, OutcomesClosed DEF Closed
<1>4. Closed(X)
  <2> HIDE DEF X
  <2> QED BY <1>2, <1>3 DEF Closed
<1>5. <<p, m>> \in X
  <2> HIDE DEF X
  <2> QED BY <1>1, <1>4 DEF Outcomes
<1> QED BY <1>5

LEMMA OneOutcome ==
  \A p \in Passes : \E m \in Matching : /\ <<p, m>> \in Outcomes
                                        /\ \A n \in Matching : <<p, n>> \in Outcomes => n = m
<1> DEFINE One(p) == \E m \in Matching : /\ <<p, m>> \in Outcomes
                                         /\ \A n \in Matching : <<p, n>> \in Outcomes => n = m
           S == {p \in Passes : One(p)}
<1>1. ASSUME NEW p \in Passes, Confident(p) => Round(p) \in S
      PROVE  One(p)
  <2>1. CASE ~Confident(p)
    <3>1. p.match \in Matching
      BY DEF Passes
    <3> QED BY <2>1, <3>1, OutcomesClosed, OutcomeHasReason DEF Closed
  <2>2. CASE Confident(p)
    <3>1. PICK m \in Matching :
            /\ <<Round(p), m>> \in Outcomes
            /\ \A n \in Matching : <<Round(p), n>> \in Outcomes => n = m
      BY <1>1, <2>2
    <3>2. <<p, m>> \in Outcomes
      BY <2>2, <3>1, OutcomesClosed DEF Closed
    <3>3. \A n \in Matching : <<p, n>> \in Outcomes => n = m
      BY <2>2, <3>1, OutcomeHasReason
    <3> QED BY <3>2, <3>3
  <2> QED BY <2>1, <2>2
<1>2. S = Passes
  <2>1. S \in SUBSET Passes
    OBVIOUS
  <2>2. \A p \in Passes : (Confident(p) => Round(p) \in S) => p \in S
    BY <1>1
  <2> HIDE DEF S
  <2> QED BY <2>1, <2>2, PassInduction
<1> QED BY <1>2

\* What Greedy computes: the loop unfolds.
LEMMA GreedyUnfolds ==
  /\ Greedy \in [Passes -> Matching]
  /\ \A p \in Passes : Greedy[p] = IF Confident(p) THEN Greedy[Round(p)] ELSE p.match
<1> DEFINE Unfolded(f) == [p \in Passes |-> IF Confident(p) THEN f[Round(p)] ELSE p.match]
           Outcome(p) == CHOOSE m \in Matching : <<p, m>> \in Outcomes
<1>1. PICK g \in [Passes -> Matching] : 
        \A p \in Passes : \A n \in Matching : <<p, n>> \in Outcomes <=> n = g[p]
  <2>1. \A p \in Passes : /\ Outcome(p) \in Matching
                          /\ \A n \in Matching : <<p, n>> \in Outcomes <=> n = Outcome(p)
    BY OneOutcome
  <2> HIDE DEF Outcome
  <2> DEFINE h == [p \in Passes |-> Outcome(p)]
  <2>2. h \in [Passes -> Matching]
    BY <2>1
  <2>3. \A p \in Passes : \A n \in Matching : <<p, n>> \in Outcomes <=> n = h[p]
    BY <2>1
  <2> HIDE DEF h
  <2> QED BY <2>2, <2>3
<1>2. ASSUME NEW p \in Passes
      PROVE  g[p] = IF Confident(p) THEN g[Round(p)] ELSE p.match
  <2>1. CASE Confident(p)
    <3>1. Round(p) \in Passes
      BY <2>1, RoundMatches
    <3> QED BY <2>1, <3>1, <1>1, OutcomeHasReason
  <2> QED BY <2>1, <1>1, OutcomeHasReason
<1>3. g = Unfolded(g)
  BY <1>2
<1>4. Greedy = CHOOSE f : f = Unfolded(f)
  BY DEF Greedy
<1>5. Greedy = Unfolded(Greedy)
  <2> HIDE DEF Unfolded
  <2> QED BY <1>3, <1>4
<1>6. \A p \in Passes : Greedy[p] = IF Confident(p) THEN Greedy[Round(p)] ELSE p.match
  BY <1>5
<1> DEFINE S == {p \in Passes : Greedy[p] \in Matching}
<1>7. S = Passes
  <2>1. ASSUME NEW p \in Passes, Confident(p) => Round(p) \in S
        PROVE  p \in S
    BY <1>6, <2>1 DEF Passes
  <2>2. S \in SUBSET Passes
    OBVIOUS
  <2> HIDE DEF S
  <2> QED BY <2>1, <2>2, PassInduction
<1>8. DOMAIN Greedy = Passes /\ Greedy = [p \in DOMAIN Greedy |-> Greedy[p]]
  BY <1>5
<1> QED BY <1>6, <1>7, <1>8

\* The pass keeps everybody apart who is apart: it changes only labels still
\* open, each to somebody nobody had been taken for and no other label gets.
Spread(p, m) ==
  \A l \in Labels : m[l] # p.match[l] =>
    /\ l \in p.open /\ m[l] \in Free(p.match)
    /\ \A k \in Labels \ {l} : m[k] # m[l]
Unanswered(p) == \A l \in p.open : p.match[l] = None

LEMMA GreedySpreads ==
  \A p \in Passes : Unanswered(p) => Spread(p, Greedy[p])
<1> DEFINE S == {p \in Passes : Unanswered(p) => Spread(p, Greedy[p])}
<1>1. ASSUME NEW p \in Passes, Confident(p) => Round(p) \in S, Unanswered(p)
      PROVE  Spread(p, Greedy[p])
  <2>1. CASE ~Confident(p)
    BY <2>1, GreedyUnfolds DEF Spread
  <2>2. CASE Confident(p)
    <3> DEFINE q == Round(p)
               m == Greedy[q]
    <3>1. PICK l \in p.open :
            /\ q.open = p.open \ {l}
            /\ \/ q.match = p.match
               \/ \E best \in Free(p.match) : q.match = [p.match EXCEPT ![l] = best]
            /\ q \in Passes
      BY <2>2, RoundMatches
    <3>2. Greedy[p] = m /\ m \in Matching
      BY <2>2, <3>1, GreedyUnfolds
    <3>3. p.match \in Matching /\ p.open \in SUBSET Labels /\ None \notin People
      BY DEF Passes
    <3>4. Unanswered(q)
      BY <1>1, <3>1, <3>3 DEF Unanswered, Matching
    <3>5. Spread(q, m)
      BY <1>1, <2>2, <3>1, <3>4
    <3> HIDE DEF q, m
    <3>6. Free(q.match) \subseteq Free(p.match)
      BY <1>1, <3>1, <3>3 DEF Free, Taken, Matching, Unanswered
    <3>7. ASSUME NEW k \in Labels, m[k] # p.match[k]
          PROVE  /\ k \in p.open /\ m[k] \in Free(p.match)
                 /\ \A o \in Labels \ {k} : m[o] # m[k]
      <4>1. CASE m[k] # q.match[k]
        BY <3>1, <3>5, <3>6, <4>1 DEF Spread
      <4>2. CASE m[k] = q.match[k]
        <5>1. PICK best \in Free(p.match) : q.match = [p.match EXCEPT ![l] = best]
          BY <3>1, <3>7, <4>2
        <5>2. k = l /\ m[k] = best
          BY <3>3, <3>7, <4>2, <5>1 DEF Matching
        <5>3. ASSUME NEW o \in Labels \ {k} PROVE m[o] # best
          <6>1. CASE m[o] = q.match[o]
            <7>1. m[o] = p.match[o]
              BY <3>3, <5>1, <5>2, <6>1 DEF Matching
            <7>2. best \in People /\ best # p.match[o]
              BY <3>3 DEF Free, Taken
            <7> QED BY <7>1, <7>2
          <6>2. CASE m[o] # q.match[o]
            BY <3>5, <5>2, <6>2 DEF Spread
          <6> QED BY <6>1, <6>2
        <5> QED BY <5>1, <5>2, <5>3
      <4> QED BY <4>1, <4>2
    <3> QED BY <3>2, <3>7 DEF Spread
  <2> QED BY <2>1, <2>2
<1>2. S = Passes
  <2>1. \A p \in Passes : (Confident(p) => Round(p) \in S) => p \in S
    BY <1>1
  <2>2. S \in SUBSET Passes
    OBVIOUS
  <2> HIDE DEF S
  <2> QED BY <2>1, <2>2, PassInduction
<1> QED BY <1>2

LEMMA EliminatedSpreads ==
  ASSUME NEW p \in Passes, Unanswered(p), NEW m \in Matching, Spread(p, m)
  PROVE  Spread(p, Eliminated(p.open, m))
<1> DEFINE over == {l \in p.open : m[l] = None}
           e == Eliminated(p.open, m)
<1>p. p.match \in Matching /\ p.open \in SUBSET Labels /\ None \notin People
  BY DEF Passes
<1>1. Free(m) \subseteq Free(p.match)
  <2>1. \A l \in Labels : p.match[l] \in {None, m[l]}
    BY DEF Spread, Unanswered
  <2>2. \A l \in Labels : p.match[l] \in People => m[l] = p.match[l]
    BY <1>p, <2>1 DEF Matching
  <2> QED BY <1>p, <2>2 DEF Free, Taken
<1>2. CASE e = m
  BY <1>2
<1>3. CASE e # m
  <2>1. Cardinality(over) = 1 /\ Cardinality(Free(m)) = 1
    BY <1>3 DEF Eliminated
  <2>2. IsFiniteSet(over)
    BY <1>p, FS_Subset
  <2>3. PICK x : over = {x}
    <3> HIDE DEF over
    <3> QED BY <2>1, <2>2, FS_Singleton
  <2> DEFINE u == CHOOSE q \in Free(m) : TRUE
  <2>4. Free(m) # {}
    <3>1. Free(m) = {} => Cardinality(Free(m)) = 0
      BY FS_EmptySet, Zenon
    <3> QED BY <2>1, <3>1
  <2>5. u \in Free(m)
    BY <2>4
  <2>6. \A l \in Labels : e[l] = m[l] \/ (l = x /\ e[l] = u)
    BY <2>1, <2>3 DEF Eliminated
  <2>7. x \in p.open /\ m[x] = None
    BY <2>3
  <2> HIDE DEF e, u, over
  <2>8. \A l \in Labels : m[l] # u
    BY <1>p, <2>5 DEF Free, Taken, Matching
  <2>9. ASSUME NEW k \in Labels, e[k] # p.match[k]
        PROVE  /\ k \in p.open /\ e[k] \in Free(p.match)
               /\ \A o \in Labels \ {k} : e[o] # e[k]
    <3>1. CASE e[k] = m[k]
      BY <2>6, <2>8, <2>9, <3>1 DEF Spread
    <3>2. CASE e[k] # m[k]
      BY <1>1, <2>5, <2>6, <2>7, <2>8, <3>2
    <3> QED BY <3>1, <3>2
  <2> QED BY <2>9 DEF Spread, e
<1> QED BY <1>2, <1>3

\* What ResolverKeepsApart says of one job.
KeepsApart(read, copy) ==
  \A l \in Labels :
    /\ copy[l] # read[l] => ~Matched(read[l]) /\ read[l].via # "admin"
    /\ copy[l].user \notin {read[l].user, None} =>
         \A m \in Labels \ {l} : copy[m].user # copy[l].user

LEMMA ResolvedKeepsApart ==
  ASSUME NEW rows \in Mapping
  PROVE  KeepsApart(rows, Resolved(rows))
<1> DEFINE needs == {l \in Labels : NeedsResolution(rows[l])}
           p == [open |-> needs \ BotLabels, match |-> Claimed(rows)]
           match == Eliminated(p.open, Greedy[p])
           copy == Resolved(rows)
<1>0. \A l \in Labels : rows[l] \in Row
  BY DEF Mapping
<1>1. p \in Passes
  BY <1>0 DEF Passes, Matching, Claimed, Row
<1>2. Unanswered(p)
  BY DEF Unanswered, Claimed, NeedsResolution
<1>3. Spread(p, match)
  <2> HIDE DEF p
  <2> QED BY <1>1, <1>2, GreedySpreads, GreedyUnfolds, EliminatedSpreads
<1>4. \A l \in Labels :
        copy[l] = IF l \notin needs THEN rows[l]
                  ELSE IF l \in BotLabels THEN [rows[l] EXCEPT !.ignored = TRUE, !.via = "auto"]
                  ELSE IF match[l] \in People
                       THEN [rows[l] EXCEPT !.user = match[l], !.via = "auto"]
                  ELSE rows[l]
  BY DEF Resolved
<1>5. \A l \in Labels : p.match[l] = rows[l].user
  BY DEF Claimed
<1>6. \A l \in needs : ~Matched(rows[l]) /\ rows[l].via # "admin" /\ rows[l].user = None
  BY DEF NeedsResolution, Matched
<1>7. \A l \in Labels : l \in p.open <=> l \in needs /\ l \notin BotLabels
  OBVIOUS
<1>n. None \notin People
  OBVIOUS
<1> HIDE DEF p, match, copy, needs
<1>8. \A l \in Labels : copy[l].user \in {match[l], None}
  <2> SUFFICES ASSUME NEW l \in Labels PROVE copy[l].user \in {match[l], None}
    OBVIOUS
  <2>1. CASE l \notin needs
    BY <1>3, <1>4, <1>5, <1>7, <2>1 DEF Spread
  <2>2. CASE l \in needs
    <3>1. /\ [rows[l] EXCEPT !.ignored = TRUE, !.via = "auto"].user = rows[l].user
          /\ [rows[l] EXCEPT !.user = match[l], !.via = "auto"].user = match[l]
      BY <1>0 DEF Row
    <3> QED BY <1>4, <1>6, <2>2, <3>1
  <2> QED BY <2>1, <2>2
<1>9. ASSUME NEW l \in Labels, copy[l].user \notin {rows[l].user, None}, NEW m \in Labels \ {l}
      PROVE  copy[m].user # copy[l].user
  <2>1. copy[l].user = match[l]
    BY <1>8, <1>9
  <2>2. match[m] # match[l]
    BY <1>3, <1>5, <1>9, <2>1 DEF Spread
  <2> QED BY <1>8, <1>9, <2>1, <2>2
<1> QED BY <1>4, <1>6, <1>9 DEF KeepsApart, copy

-----------------------------------------------------------------------------
Apart(r) == r.kind = "ingest" /\ r.pc = "write" => KeepsApart(r.read, r.copy)
JobsApart == \A w \in Workers : Apart(job[w])

LEMMA ApartProceed ==
  ASSUME TypeOK, JobsApart, NEW w \in Workers, NEW r, Apart(r), Proceed(w, r)
  PROVE  JobsApart'
<1> SUFFICES ASSUME NEW v \in Workers PROVE Apart(job'[v])
  BY DEF JobsApart, Apart, KeepsApart, Matched
<1>1. job'[v] = IF v = w THEN r ELSE job[v]
  BY DEF Proceed, TypeOK
<1> QED BY <1>1 DEF JobsApart

\* A job that is not about to write what it resolved says nothing of it.
LEMMA ApartElsewhere ==
  ASSUME TypeOK, JobsApart, NEW w \in Workers, NEW r, Proceed(w, r),
         r.kind # "ingest" \/ r.pc # "write"
  PROVE  JobsApart'
BY ApartProceed DEF Apart

LEMMA ApartFinish ==
  ASSUME TypeOK, JobsApart, NEW w \in Workers, Finish(w)
  PROVE  JobsApart'
<1>1. Idle.kind # "ingest"
  BY DEF Idle
<1> QED BY <1>1, ApartElsewhere DEF Finish

LEMMA ApartSame ==
  ASSUME JobsApart, UNCHANGED job
  PROVE  JobsApart'
BY DEF JobsApart, Apart, KeepsApart, Matched

LEMMA ApartIngest ==
  ASSUME TypeOK, JobsApart, NEW w \in Workers, IngestRead(w) \/ Ingest(w)
  PROVE  JobsApart'
<1>j. job[w] \in Job
  BY DEF TypeOK
<1>1. CASE IngestRead(w)
  <2>1. [Idle EXCEPT !.kind = "ingest", !.status = transcript,
                     !.pc = IF transcript = "none" THEN "insert" ELSE "resolve"].pc # "write"
    BY DEF Idle
  <2> QED BY <1>1, <2>1, ApartElsewhere DEF IngestRead
<1>2. CASE IngestInsert(w)
  <2>1. [job[w] EXCEPT !.holds = {Transcript}, !.pc = "resolve"].pc # "write"
    BY <1>j DEF Job
  <2> QED BY <1>2, <2>1, ApartElsewhere, ApartFinish DEF IngestInsert
<1>3. CASE IngestResolve(w)
  <2> DEFINE rows == IF job[w].status = "none" THEN NoRows ELSE speakers
  <2>1. rows \in Mapping
    BY NoRowsType DEF TypeOK, Mapping
  <2>2. Proceed(w, [job[w] EXCEPT !.read = rows, !.copy = Resolved(rows), !.pc = "write"])
    BY <1>3 DEF IngestResolve
  <2> HIDE DEF rows
  <2>3. KeepsApart(rows, Resolved(rows))
    BY <2>1, ResolvedKeepsApart
  <2>4. Apart([job[w] EXCEPT !.read = rows, !.copy = Resolved(rows), !.pc = "write"])
    BY <1>j, <2>3 DEF Apart, Job
  <2> QED BY <2>2, <2>4, ApartProceed
<1>4. CASE IngestWrite(w)
  <2>1. PICK status : \/ Finish(w)
                      \/ Proceed(w, [Idle EXCEPT !.kind = "ingest", !.pc = "announce",
                                                 !.status = status])
    BY <1>4 DEF IngestWrite
  <2>2. [Idle EXCEPT !.kind = "ingest", !.pc = "announce", !.status = status].pc # "write"
    BY DEF Idle
  <2> QED BY <2>1, <2>2, ApartElsewhere, ApartFinish
<1>5. CASE IngestAnnounce(w)
  BY <1>5, ApartFinish DEF IngestAnnounce
<1> QED BY <1>1, <1>2, <1>3, <1>4, <1>5 DEF Ingest

LEMMA ApartStamp ==
  ASSUME TypeOK, JobsApart, NEW w \in Workers, job[w].kind # "ingest",
         NEW pc, Stamp(w, pc)
  PROVE  JobsApart'
<1>1. PICK rows, learns, seen :
        \/ Finish(w)
        \/ Proceed(w, [job[w] EXCEPT !.holds = rows, !.learns = learns, !.pc = pc,
                                     !.seen = seen])
  BY DEF Stamp
<1>2. [job[w] EXCEPT !.holds = rows, !.learns = learns, !.pc = pc, !.seen = seen].kind
        # "ingest"
  BY DEF TypeOK, Job
<1> QED BY <1>1, <1>2, ApartElsewhere, ApartFinish

LEMMA ApartSweep ==
  ASSUME TypeOK, JobsApart, NEW w \in Workers, SweepRead(w) \/ Sweep(w)
  PROVE  JobsApart'
<1>1. CASE SweepRead(w)
  <2>1. [Idle EXCEPT !.kind = "sweep", !.pc = "write", !.status = transcript,
                     !.read = speakers, !.copy = Stamped(speakers)].kind # "ingest"
    BY DEF Idle
  <2> QED BY <1>1, <2>1, ApartElsewhere DEF SweepRead
<1>2. CASE SweepWrite(w)
  BY <1>2, ApartStamp DEF SweepWrite, At
<1>3. CASE SweepAnnounce(w)
  <2>1. [job[w] EXCEPT !.pc = "commit"].pc # "write"
    BY DEF TypeOK, Job
  <2> QED BY <1>3, <2>1, ApartElsewhere DEF SweepAnnounce
<1>4. CASE SweepCommit(w)
  BY <1>4, ApartFinish DEF SweepCommit, CommitStamps
<1> QED BY <1>1, <1>2, <1>3, <1>4 DEF Sweep

LEMMA ApartGenerate ==
  ASSUME TypeOK, JobsApart, NEW w \in Workers, GenerateRead(w) \/ Generate(w)
  PROVE  JobsApart'
<1>j. job[w] \in Job
  BY DEF TypeOK
<1>1. CASE GenerateRead(w)
  <2>1. [Idle EXCEPT !.kind = "generate", !.read = speakers,
                     !.copy = speakers, !.pc = "draft"].pc # "write"
    BY DEF Idle
  <2> QED BY <1>1, <2>1, ApartElsewhere DEF GenerateRead
<1>2. ASSUME NEW forgotten \in SUBSET Learners, GenerateDraft(w, forgotten)
      PROVE  JobsApart'
  <2>1. PICK seen, writes :
          Proceed(w, [job[w] EXCEPT !.seen = seen, !.pc = "write", !.writes = writes])
    BY <1>2 DEF GenerateDraft
  <2>2. [job[w] EXCEPT !.seen = seen, !.pc = "write", !.writes = writes].kind # "ingest"
    BY <1>j, <1>2 DEF Job, GenerateDraft, At
  <2> QED BY <2>1, <2>2, ApartElsewhere
<1>3. CASE GenerateWrite(w)
  BY <1>3, ApartFinish DEF GenerateWrite
<1> QED BY <1>1, <1>2, <1>3 DEF Generate

LEMMA ApartFinalise ==
  ASSUME TypeOK, JobsApart, NEW w \in Workers, FinaliseRead(w) \/ Finalise(w)
  PROVE  JobsApart'
<1>j. job[w] \in Job
  BY DEF TypeOK
<1>1. CASE FinaliseRead(w)
  <2>1. [Idle EXCEPT !.kind = "finalise", !.status = transcript,
                     !.read = speakers, !.copy = Stamped(speakers), !.pc = "stamp"].pc # "write"
    BY DEF Idle
  <2> QED BY <1>1, <2>1, ApartElsewhere, ApartFinish DEF FinaliseRead
<1>2. CASE FinaliseStamp(w)
  BY <1>2, ApartStamp DEF FinaliseStamp, At
<1>3. CASE FinaliseReopen(w)
  <2>1. [job[w] EXCEPT !.holds = @ \cup Reopened(w), !.pc = "draft"].pc # "write"
    BY <1>j DEF Job
  <2> QED BY <1>3, <2>1, ApartElsewhere DEF FinaliseReopen
<1>4. ASSUME NEW forgotten \in SUBSET Learners, NEW kept \in SUBSET Learners,
             FinaliseDraft(w, forgotten, kept)
      PROVE  JobsApart'
  <2>1. PICK seen, writes :
          Proceed(w, [job[w] EXCEPT !.seen = seen, !.pc = "write", !.copy = OwnCopy(w),
                                    !.writes = writes])
    BY <1>4 DEF FinaliseDraft
  <2>2. [job[w] EXCEPT !.seen = seen, !.pc = "write", !.copy = OwnCopy(w),
                       !.writes = writes].kind # "ingest"
    BY <1>j, <1>4 DEF Job, FinaliseDraft, At
  <2> QED BY <2>1, <2>2, ApartElsewhere
<1>5. CASE FinaliseWrite(w)
  <2>1. [job[w] EXCEPT !.holds = @ \cup job[w].writes, !.pc = "load"].pc # "write"
    BY <1>j DEF Job
  <2> QED BY <1>5, <2>1, ApartElsewhere, ApartFinish DEF FinaliseWrite
<1>6. CASE FinaliseLoad(w)
  <2>1. PICK seen : Proceed(w, [job[w] EXCEPT !.pc = "commit", !.seen = seen])
    BY <1>6 DEF FinaliseLoad
  <2>2. [job[w] EXCEPT !.pc = "commit", !.seen = seen].pc # "write"
    BY <1>j DEF Job
  <2> QED BY <2>1, <2>2, ApartElsewhere
<1>7. CASE FinaliseCommit(w)
  BY <1>7, ApartFinish DEF FinaliseCommit, CommitStamps
<1> QED BY <1>1, <1>2, <1>3, <1>4, <1>5, <1>6, <1>7 DEF Finalise

LEMMA ApartStep ==
  ASSUME TypeOK, JobsApart, [Next]_vars
  PROVE  JobsApart'
<1>1. CASE Arrive \/ Click \/ BackOffice \/ \E q \in Requests : Edit(q)
  <2>1. UNCHANGED job
    BY <1>1 DEF Arrive, Click, BackOffice, BackOfficeMap, BackOfficePublish,
                BackOfficeUnpublish, BackOfficeStatus, Edit, MapRead, MapCommit
  <2> QED BY <2>1, ApartSame
<1>2. ASSUME NEW w \in Workers, Work(w)
      PROVE  JobsApart'
  BY <1>2, ApartIngest, ApartSweep, ApartGenerate, ApartFinalise DEF Work
<1>3. ASSUME NEW w \in Workers, Fail(w) \/ Interrupt(w)
      PROVE  JobsApart'
  BY <1>3, ApartFinish DEF Fail, Interrupt
<1>4. CASE UNCHANGED vars
  BY <1>4, ApartSame DEF vars
<1> QED BY <1>1, <1>2, <1>3, <1>4 DEF Next

\* The resolver answers only where nobody has, and takes no two speakers for
\* one person, whatever the scores, the aliases and the earlier answers are:
\* neither the greedy pass nor elimination gives away somebody who is claimed
\* (services/transcripts.py, resolve_speakers).
THEOREM SpeakersKeptApart == Spec => []ResolverKeepsApart
<1>1. Init => JobsApart
  BY DEF Init, JobsApart, Apart, Idle
<1>2. Spec => []TypeOK
  BY FeedbackInvariant, PTL DEF FInv
<1>3. TypeOK /\ JobsApart /\ [Next]_vars => JobsApart'
  BY ApartStep
<1>4. JobsApart => ResolverKeepsApart
  BY DEF JobsApart, Apart, KeepsApart, ResolverKeepsApart, At
<1> QED BY <1>1, <1>2, <1>3, <1>4, PTL DEF Spec
=============================================================================
