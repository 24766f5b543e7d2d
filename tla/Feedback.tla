------------------------------ MODULE Feedback ------------------------------
(***************************************************************************)
(* From a recorded discussion to the learners' reports, for one session:   *)
(* the transcript arrives (ingest_fireflies_transcript), every speaker in  *)
(* it is matched to somebody who was in the room (resolve_speakers, or a   *)
(* human), a model drafts one report per seat (generate_session_feedback), *)
(* and an instructor finalises them (finalize_session_feedback).           *)
(*                                                                         *)
(* Jobs run in the ARQ worker, several at once, each in one transaction at *)
(* READ COMMITTED with a model call of minutes in the middle; people edit  *)
(* the speakers meanwhile.  A job works on ORM copies: they are read once, *)
(* and an UPDATE writes the columns that differ from the copy.  A row a    *)
(* job has written stays locked until its transaction ends.  All rows of   *)
(* one flush are locked together, so a cycle of waits is not modelled:     *)
(* the database would break it with an error, which Fail stands for.       *)
(***************************************************************************)
EXTENDS Integers, FiniteSets

CONSTANTS
  Learners,      \* the seats on the roster, one booking each
  Host,          \* the session's instructor
  Labels,        \* the speaker labels of the transcript, in their sort order
  BotLabels,     \* those of the notetaker itself
  Score,         \* score_candidate without aliases, in hundredths
  Workers,       \* jobs the worker runs at once
  Requests,      \* edits of a speaker in flight at once
  None,
  Nobody,        \* stands for an ignored speaker in a report's basis
  Transcript,    \* stands for the transcript's row among the locked rows
  MaxArrivals,   \* bound: webhooks and fetches of the transcript
  MaxClicks,     \* bound: presses of "finalize"
  MaxMaps,       \* bound: speakers mapped in the app
  MaxOverrides,  \* bound: edits in the back office
  MaxFailures    \* bound: jobs that fail or are interrupted

People == Learners \cup {Host}

ASSUME FeedbackAssumption ==
  /\ Labels \subseteq Nat /\ IsFiniteSet(Labels) /\ BotLabels \subseteq Labels
  /\ Score \in [Labels -> [People -> 0..100]]
  /\ Host \notin Learners
  /\ {None, Nobody} \cap People = {} /\ None # Nobody
  /\ None \notin Workers \cup Requests
  /\ Transcript \notin Learners \cup Labels /\ Learners \cap Labels = {}
  /\ {MaxArrivals, MaxClicks, MaxMaps, MaxOverrides, MaxFailures} \subseteq Nat

VARIABLES
  transcript,   \* status of the session_transcripts row, "none" without one
  speakers,     \* per label, the transcript_speakers row
  aliases,      \* meet_aliases: people and labels they have joined under
  reports,      \* per seat, the session_feedback row
  queue,        \* jobs waiting in Redis, per kind
  job,          \* what each worker is doing
  edit,         \* what each edit of a speaker is doing
  left          \* what remains of the bounds

tables == <<transcript, speakers, aliases, reports>>
vars == <<tables, queue, job, edit, left>>

Row == [user: People \cup {None}, ignored: BOOLEAN, via: {"none", "auto", "admin"}]
NewRow == [user |-> None, ignored |-> FALSE, via |-> "none"]

\* A report is told apart by whom its text takes each label for, and by
\* the kind of job that wrote it.
Basis == [Labels -> People \cup {None, Nobody}]
Report == [status: {"none", "draft", "published"}, basis: Basis,
           by: {"none", "generate", "finalise"}]
NoReport == [status |-> "none", basis |-> [l \in Labels |-> None], by |-> "none"]

Matched(row) == row.user # None \/ row.ignored
Complete(rows) == \A l \in Labels : Matched(rows[l])
BasisOf(rows) ==
  [l \in Labels |-> IF rows[l].user = None /\ rows[l].ignored THEN Nobody
                    ELSE rows[l].user]
Whole(basis) == \A l \in Labels : basis[l] # None

\* An UPDATE of the columns in which the copy differs from what was read.
Patch(row, read, copy) ==
  [f \in DOMAIN row |-> IF copy[f] # read[f] THEN copy[f] ELSE row[f]]
PatchAll(read, copy) ==
  [l \in Labels |-> Patch(speakers[l], read[l], copy[l])]
Changed(read, copy) == {l \in Labels : copy[l] # read[l]}

(***************************************************************************)
(* resolve_speakers                                                        *)
(***************************************************************************)
AutoThreshold == 80
AmbiguityMargin == 10
EliminationFloor == 40

ScoreOf(l, p) == IF <<p, l>> \in aliases THEN 98 ELSE Score[l][p]

\* The best score of some candidates for a label, 0 without one.
Top(l, people) ==
  CHOOSE s \in {0} \cup {ScoreOf(l, p) : p \in people} :
    \A p \in people : ScoreOf(l, p) <= s

NeedsResolution(row) == row.user = None /\ ~row.ignored /\ row.via # "admin"

\* Mutant: only what this pass has matched is taken.
NobodyTaken(rows) == [l \in Labels |-> None]
Claimed(rows) == [l \in Labels |-> rows[l].user]
Taken(match) == {match[l] : l \in Labels} \ {None}
Free(match) == People \ Taken(match)

Matching == [Labels -> People \cup {None}]

\* The label with the best candidate of all.
Leader(open, free) ==
  CHOOSE l \in open : \A o \in open :
    \/ Top(o, free) < Top(l, free)
    \/ Top(o, free) = Top(l, free) /\ l <= o

\* It claims its candidate, unless a second one comes too close; then it is
\* left for elimination or for a human.
Claim(l, free, match) ==
  LET best == CHOOSE p \in free : ScoreOf(l, p) = Top(l, free)
  IN IF Top(l, free) - Top(l, free \ {best}) >= AmbiguityMargin
     THEN [match EXCEPT ![l] = best] ELSE match

\* Where the pass stands: the labels still to come, and who is taken for whom.
Passes == [open: SUBSET Labels, match: Matching]

Confident(p) == \E o \in p.open : Top(o, Free(p.match)) >= AutoThreshold
Round(p) ==
  LET free == Free(p.match)
      l == Leader(p.open, free)
  IN [open |-> p.open \ {l}, match |-> Claim(l, free, p.match)]

\* Best first, as long as a candidate is good enough.
Greedy[p \in Passes] == IF Confident(p) THEN Greedy[Round(p)] ELSE p.match

\* One label and one person left.
Eliminated(open, match) ==
  LET over == {l \in open : match[l] = None}
  IN IF Cardinality(over) = 1 /\ Cardinality(Free(match)) = 1
     THEN [l \in Labels |->
             IF l \in over /\ Top(l, Free(match)) >= EliminationFloor
             THEN CHOOSE p \in Free(match) : TRUE ELSE match[l]]
     ELSE match

Resolved(rows) ==
  LET needs == {l \in Labels : NeedsResolution(rows[l])}
      open == needs \ BotLabels
      match == Eliminated(open, Greedy[[open |-> open, match |-> Claimed(rows)]])
  IN [l \in Labels |->
        IF l \notin needs THEN rows[l]
        ELSE IF l \in BotLabels THEN [rows[l] EXCEPT !.ignored = TRUE, !.via = "auto"]
        ELSE IF match[l] \in People THEN [rows[l] EXCEPT !.user = match[l], !.via = "auto"]
        ELSE rows[l]]

\* learn_aliases: the database says which rows are mapped, the copies say to
\* whom; a row somebody else has mapped meanwhile has nobody in its copy.
Learned(read, copy) ==
  {<<copy[l].user, l>> : l \in {m \in Labels : PatchAll(read, copy)[m].user # None}}
Learnable(pairs) == \A p \in pairs : p[1] # None

\* Mutant: a tick of "ignored" does not count.
MappedOnly(rows) == \A l \in Labels : rows[l].user # None
\* The test of sweep_review_transcripts.
Reviewed(rows) == Complete(rows)

(***************************************************************************)
(* Jobs                                                                    *)
(***************************************************************************)
NoRows == [l \in Labels |-> NewRow]
Idle == [kind |-> "none", pc |-> "idle", status |-> "none", read |-> NoRows,
         copy |-> NoRows, seen |-> [u \in Learners |-> "none"],
         writes |-> {}, learns |-> {}, holds |-> {}]

At(w, kind, pc) == job[w].kind = kind /\ job[w].pc = pc
Proceed(w, r) == job' = [job EXCEPT ![w] = r]
Finish(w) == Proceed(w, Idle)
FreeRows(w, rows) == \A v \in Workers \ {w} : job[v].holds \cap rows = {}

Enqueue(kind) == queue' = [queue EXCEPT ![kind] = @ + 1]
Spend(bound) == left[bound] > 0 /\ left' = [left EXCEPT ![bound] = @ - 1]

\* The worker takes a job off the queue; the job's first read is one step with it.
Take(w, kind) ==
  /\ job[w].kind = "none"
  /\ queue[kind] > 0
  /\ queue' = [queue EXCEPT ![kind] = @ - 1]

\* A job raises: its transaction is rolled back and ARQ does not run it again.
Fail(w) ==
  /\ job[w].kind # "none"
  /\ Spend("failures")
  /\ Finish(w)
  /\ UNCHANGED <<tables, queue, edit>>

\* The worker is restarted under a job: ARQ runs the job again.
Interrupt(w) ==
  /\ job[w].kind \notin {"none", "sweep"}
  /\ Spend("failures")
  /\ Finish(w)
  /\ Enqueue(job[w].kind)
  /\ UNCHANGED <<tables, edit>>

(***************************************************************************)
(* ingest_fireflies_transcript                                             *)
(***************************************************************************)
\* The webhook, or the admin's "fetch transcript".
Arrive ==
  /\ Spend("arrivals")
  /\ Enqueue("ingest")
  /\ UNCHANGED <<tables, job, edit>>

\* The transcript is looked up by its provider's id.
IngestRead(w) ==
  /\ Take(w, "ingest")
  /\ Proceed(w, [Idle EXCEPT !.kind = "ingest", !.status = transcript,
                   !.pc = IF transcript = "none" THEN "insert" ELSE "resolve"])
  /\ UNCHANGED <<tables, edit, left>>

\* A second insert waits for the first, and fails on the unique index.
IngestInsert(w) ==
  /\ At(w, "ingest", "insert")
  /\ FreeRows(w, {Transcript})
  /\ IF transcript = "none"
     THEN Proceed(w, [job[w] EXCEPT !.holds = {Transcript}, !.pc = "resolve"])
     ELSE Finish(w)
  /\ UNCHANGED <<tables, queue, edit, left>>

IngestResolve(w) ==
  /\ At(w, "ingest", "resolve")
  /\ LET rows == IF job[w].status = "none" THEN NoRows ELSE speakers
     IN Proceed(w, [job[w] EXCEPT !.read = rows, !.copy = Resolved(rows), !.pc = "write"])
  /\ UNCHANGED <<tables, queue, edit, left>>

StatusFor(rows) == IF Complete(rows) THEN "resolved" ELSE "needs_review"

\* The flush, learn_aliases and the commit.
IngestWrite(w) ==
  LET j == job[w]
      status == StatusFor(j.copy)
      rows == Changed(j.read, j.copy) \cup (IF status # j.status THEN {Transcript} ELSE {})
      learns == IF status = "resolved" THEN Learned(j.read, j.copy) ELSE {}
  IN
  /\ At(w, "ingest", "write")
  /\ FreeRows(w, rows)
  /\ IF Learnable(learns)
     THEN /\ transcript' = IF status # j.status THEN status ELSE transcript
          /\ speakers' = PatchAll(j.read, j.copy)
          /\ aliases' = aliases \cup learns
          /\ Proceed(w, [Idle EXCEPT !.kind = "ingest", !.pc = "announce",
                                     !.status = status])
     ELSE Finish(w) /\ UNCHANGED <<transcript, speakers, aliases>>
  /\ UNCHANGED <<reports, queue, edit, left>>

\* Generation is queued after the commit, and the job is done.
IngestAnnounce(w) ==
  /\ At(w, "ingest", "announce")
  /\ IF job[w].status = "resolved" THEN Enqueue("generate") ELSE UNCHANGED queue
  /\ Finish(w)
  /\ UNCHANGED <<tables, edit, left>>

(***************************************************************************)
(* sweep_review_transcripts                                                *)
(***************************************************************************)
\* Rows a human has mapped in the back office carry no resolved_via yet.
Stamped(rows) ==
  [l \in Labels |-> IF rows[l].user # None /\ rows[l].via = "none"
                    THEN [rows[l] EXCEPT !.via = "admin"] ELSE rows[l]]

\* The cron job; without a reviewed transcript it changes nothing.
SweepRead(w) ==
  /\ job[w].kind = "none"
  /\ \A v \in Workers : job[v].kind # "sweep"
  /\ transcript = "needs_review"
  /\ Reviewed(speakers)
  /\ Proceed(w, [Idle EXCEPT !.kind = "sweep", !.pc = "write", !.status = transcript,
                   !.read = speakers, !.copy = Stamped(speakers)])
  /\ UNCHANGED <<tables, queue, edit, left>>

\* The flush of stamps and status, and learn_aliases, before a step of its own.
Stamp(w, pc) ==
  LET j == job[w]
      rows == Changed(j.read, j.copy)
                \cup (IF j.status # "resolved" THEN {Transcript} ELSE {})
      learns == Learned(j.read, j.copy)
  IN
  /\ FreeRows(w, rows)
  /\ IF Learnable(learns)
     THEN Proceed(w, [j EXCEPT !.holds = rows, !.learns = learns, !.pc = pc,
                               !.seen = [u \in Learners |-> reports[u].status]])
     ELSE Finish(w)

CommitStamps(w) ==
  /\ transcript' = IF job[w].status # "resolved" THEN "resolved" ELSE transcript
  /\ speakers' = PatchAll(job[w].read, job[w].copy)
  /\ aliases' = aliases \cup job[w].learns
  /\ Finish(w)

SweepWrite(w) ==
  /\ At(w, "sweep", "write")
  /\ Stamp(w, "announce")
  /\ UNCHANGED <<tables, queue, edit, left>>

\* Generation is queued before the commit.
SweepAnnounce(w) ==
  /\ At(w, "sweep", "announce")
  /\ Enqueue("generate")
  /\ Proceed(w, [job[w] EXCEPT !.pc = "commit"])
  /\ UNCHANGED <<tables, edit, left>>

SweepCommit(w) ==
  /\ At(w, "sweep", "commit")
  /\ CommitStamps(w)
  /\ UNCHANGED <<reports, queue, edit, left>>

(***************************************************************************)
(* generate_feedback                                                       *)
(***************************************************************************)
Spoke(rows) == {u \in Learners : \E l \in Labels : rows[l].user = u}

\* Mutant: a published row is not left alone.
SkipsNone(seen) == {}
\* A published row is left alone.
Skips(seen) == {u \in Learners : seen[u] = "published"}

\* The seats whose report is written: not published when the row was read
\* after the model call, and not left out by the model.
Writes(rows, seen, forgotten) ==
  (Learners \ Skips(seen)) \ (forgotten \cap Spoke(rows))

\* Another job inserted a row this one is about to insert.
Collides(w) ==
  \E u \in job[w].writes : job[w].seen[u] = "none" /\ reports[u].status # "none"

Written(w, u) ==
  IF u \in job[w].writes
  THEN [status |-> IF job[w].seen[u] # "draft" THEN "draft" ELSE reports[u].status,
        basis |-> BasisOf(job[w].copy), by |-> job[w].kind]
  ELSE reports[u]

GenerateRead(w) ==
  /\ Take(w, "generate")
  /\ Proceed(w, [Idle EXCEPT !.kind = "generate", !.read = speakers,
                   !.copy = speakers, !.pc = "draft"])
  /\ UNCHANGED <<tables, edit, left>>

\* The model has answered; the rows there are, are read.
GenerateDraft(w, forgotten) ==
  LET seen == [u \in Learners |-> reports[u].status] IN
  /\ At(w, "generate", "draft")
  /\ Proceed(w, [job[w] EXCEPT !.seen = seen, !.pc = "write",
                   !.writes = Writes(job[w].copy, seen, forgotten)])
  /\ UNCHANGED <<tables, queue, edit, left>>

\* The flush and the commit.
GenerateWrite(w) ==
  /\ At(w, "generate", "write")
  /\ FreeRows(w, job[w].writes)
  /\ reports' = IF Collides(w) THEN reports ELSE [u \in Learners |-> Written(w, u)]
  /\ Finish(w)
  /\ UNCHANGED <<transcript, speakers, aliases, queue, edit, left>>

(***************************************************************************)
(* finalize_session_feedback                                               *)
(***************************************************************************)
\* manage_finalize.
Click ==
  /\ transcript # "none" /\ Complete(speakers)
  /\ Spend("clicks")
  /\ Enqueue("finalise")
  /\ UNCHANGED <<tables, job, edit>>

\* The job checks again, on the copies it goes on to use.
FinaliseRead(w) ==
  /\ Take(w, "finalise")
  /\ IF Complete(speakers)
     THEN Proceed(w, [Idle EXCEPT !.kind = "finalise", !.status = transcript,
                        !.read = speakers, !.copy = Stamped(speakers), !.pc = "stamp"])
     ELSE Finish(w)
  /\ UNCHANGED <<tables, edit, left>>

\* Then the rows there are, are read.
FinaliseStamp(w) ==
  /\ At(w, "finalise", "stamp")
  /\ Stamp(w, "reopen")
  /\ UNCHANGED <<tables, queue, edit, left>>

\* Published rows become drafts inside the transaction.
Reopened(w) == {u \in Learners : job[w].seen[u] = "published"}

FinaliseReopen(w) ==
  /\ At(w, "finalise", "reopen")
  /\ FreeRows(w, Reopened(w))
  /\ Proceed(w, [job[w] EXCEPT !.holds = @ \cup Reopened(w), !.pc = "draft"])
  /\ UNCHANGED <<tables, queue, edit, left>>

\* Mutant: the speakers are read again after the check.
FreshCopy(w) == speakers
\* generate_feedback finds the transcript and its speakers in the identity map.
OwnCopy(w) == job[w].copy

\* The rows are read again.  Those of an instance that is still alive keep
\* the draft status this transaction gave them, whatever the database says.
FinaliseDraft(w, forgotten, kept) ==
  LET seen == [u \in Learners |->
                 IF job[w].seen[u] # "none" /\ u \in Reopened(w) \cup kept
                 THEN "draft" ELSE reports[u].status]
  IN
  /\ At(w, "finalise", "draft")
  /\ Proceed(w, [job[w] EXCEPT !.seen = seen, !.pc = "write", !.copy = OwnCopy(w),
                   !.writes = Writes(OwnCopy(w), seen, forgotten)])
  /\ UNCHANGED <<tables, queue, edit, left>>

FinaliseWrite(w) ==
  /\ At(w, "finalise", "write")
  /\ FreeRows(w, job[w].writes)
  /\ IF Collides(w) THEN Finish(w)
     ELSE Proceed(w, [job[w] EXCEPT !.holds = @ \cup job[w].writes, !.pc = "load"])
  /\ UNCHANGED <<tables, queue, edit, left>>

\* All rows of the transcript are read once more, ...
FinaliseLoad(w) ==
  /\ At(w, "finalise", "load")
  /\ Proceed(w, [job[w] EXCEPT !.pc = "commit",
                   !.seen = [u \in Learners |-> IF u \in job[w].holds THEN "draft"
                                                ELSE reports[u].status]])
  /\ UNCHANGED <<tables, queue, edit, left>>

\* ... published, and committed.
Found(w) == {u \in Learners : job[w].seen[u] # "none"}
Published(w, u) ==
  [status |-> IF job[w].seen[u] # "published" THEN "published" ELSE reports[u].status,
   basis |-> IF u \in job[w].writes THEN BasisOf(job[w].copy) ELSE reports[u].basis,
   by |-> IF u \in job[w].writes THEN "finalise" ELSE reports[u].by]

FinaliseCommit(w) ==
  /\ At(w, "finalise", "commit")
  /\ FreeRows(w, Found(w))
  /\ reports' = [u \in Learners |-> IF u \in Found(w) THEN Published(w, u) ELSE reports[u]]
  /\ CommitStamps(w)
  /\ UNCHANGED <<queue, edit, left>>

(***************************************************************************)
(* People                                                                  *)
(***************************************************************************)
NoEdit == [label |-> None, read |-> NewRow, copy |-> NewRow]
Untouched(rows) == \A w \in Workers : job[w].holds \cap rows = {}

\* manage_map_speaker: the checks are made on what was read, ...
MapRead(q, l, to) ==
  /\ edit[q] = NoEdit
  /\ transcript # "none"
  /\ to \in People => \A m \in Labels \ {l} : speakers[m].user # to
  /\ Spend("maps")
  /\ edit' = [edit EXCEPT ![q] =
       [label |-> l, read |-> speakers[l],
        copy |-> [user |-> IF to = Nobody THEN None ELSE to, ignored |-> to = Nobody,
                  via |-> IF to = None THEN "none" ELSE "admin"]]]
  /\ UNCHANGED <<tables, queue, job>>

\* ... and written after the roster has been read.
MapCommit(q) ==
  LET e == edit[q] IN
  /\ e # NoEdit
  /\ Untouched({e.label})
  /\ speakers' = [speakers EXCEPT ![e.label] = Patch(@, e.read, e.copy)]
  /\ edit' = [edit EXCEPT ![q] = NoEdit]
  /\ UNCHANGED <<transcript, aliases, reports, queue, job, left>>

\* The back office edits any row; it sets no resolved_via.
BackOfficeMap(l, to) ==
  /\ transcript # "none"
  /\ Untouched({l})
  /\ Spend("overrides")
  /\ speakers' = [speakers EXCEPT ![l] =
       IF to = Nobody THEN [@ EXCEPT !.ignored = TRUE] ELSE [@ EXCEPT !.user = to]]
  /\ UNCHANGED <<transcript, aliases, reports, queue, job, edit>>

BackOfficeStatus(u, from, to) ==
  /\ reports[u].status = from
  /\ Untouched({u})
  /\ Spend("overrides")
  /\ reports' = [reports EXCEPT ![u].status = to]
  /\ UNCHANGED <<transcript, speakers, aliases, queue, job, edit>>

BackOfficePublish(u) == BackOfficeStatus(u, "draft", "published")
BackOfficeUnpublish(u) == BackOfficeStatus(u, "published", "draft")

-----------------------------------------------------------------------------
Kinds == {"ingest", "generate", "finalise"}

Init ==
  /\ transcript = "none"
  /\ speakers = NoRows
  /\ aliases = {}
  /\ reports = [u \in Learners |-> NoReport]
  /\ queue = [k \in Kinds |-> 0]
  /\ job = [w \in Workers |-> Idle]
  /\ edit = [q \in Requests |-> NoEdit]
  /\ left = [arrivals |-> MaxArrivals, clicks |-> MaxClicks,
             maps |-> MaxMaps, overrides |-> MaxOverrides, failures |-> MaxFailures]

Ingest(w) ==
  /\ job[w].kind = "ingest"
  /\ \/ IngestInsert(w) \/ IngestResolve(w)
     \/ IngestWrite(w) \/ IngestAnnounce(w)

Sweep(w) ==
  /\ job[w].kind = "sweep"
  /\ SweepWrite(w) \/ SweepAnnounce(w) \/ SweepCommit(w)

Generate(w) ==
  /\ job[w].kind = "generate"
  /\ \/ GenerateWrite(w)
     \/ \E forgotten \in SUBSET Learners : GenerateDraft(w, forgotten)

Finalise(w) ==
  /\ job[w].kind = "finalise"
  /\ \/ FinaliseStamp(w) \/ FinaliseReopen(w)
     \/ \E forgotten, kept \in SUBSET Learners : FinaliseDraft(w, forgotten, kept)
     \/ FinaliseWrite(w) \/ FinaliseLoad(w) \/ FinaliseCommit(w)

\* What a running worker goes on doing.
Work(w) ==
  \/ IngestRead(w) \/ SweepRead(w) \/ GenerateRead(w) \/ FinaliseRead(w)
  \/ Ingest(w) \/ Sweep(w) \/ Generate(w) \/ Finalise(w)

Edit(q) == \/ \E l \in Labels, to \in People \cup {None, Nobody} : MapRead(q, l, to)
           \/ MapCommit(q)

BackOffice == \/ \E l \in Labels, to \in People \cup {None, Nobody} : BackOfficeMap(l, to)
              \/ \E u \in Learners : BackOfficePublish(u) \/ BackOfficeUnpublish(u)

Next == \/ Arrive \/ Click \/ BackOffice
        \/ \E w \in Workers : Work(w) \/ Fail(w) \/ Interrupt(w)
        \/ \E q \in Requests : Edit(q)

Spec == Init /\ [][Next]_vars

\* The worker keeps running its jobs and its cron; nothing is assumed of people.
FairSpec == Spec /\ WF_vars(\E w \in Workers : Work(w))

-----------------------------------------------------------------------------
Job == [kind: Kinds \cup {"none", "sweep"},
        pc: {"idle", "insert", "resolve", "write", "announce", "commit",
             "stamp", "reopen", "draft", "load"},
        status: {"none", "needs_review", "resolved"},
        read: [Labels -> Row], copy: [Labels -> Row],
        seen: [Learners -> {"none", "draft", "published"}],
        writes: SUBSET Learners,
        learns: SUBSET ((People \cup {None}) \X Labels),
        holds: SUBSET ({Transcript} \cup Labels \cup Learners)]

Bounds == {"arrivals", "clicks", "maps", "overrides", "failures"}

TypeOK ==
  /\ transcript \in {"none", "needs_review", "resolved"}
  /\ speakers \in [Labels -> Row]
  /\ aliases \in SUBSET ((People \cup {None}) \X Labels)
  /\ reports \in [Learners -> Report]
  /\ queue \in [Kinds -> Nat]
  /\ job \in [Workers -> Job]
  /\ edit \in [Requests -> [label: Labels \cup {None}, read: Row, copy: Row]]
  /\ left \in [Bounds -> Nat]

\* What a job carries through its awaits.  A finalisation that has passed its
\* check carries a complete mapping to its commit, and a generation about to
\* write knows of no published row among those it writes.
Careful(r) ==
  /\ r.kind = "finalise" => Complete(r.copy)
  /\ r.kind = "generate" /\ r.pc = "write" =>
       \A u \in r.writes : r.seen[u] # "published"

JobsCareful == \A w \in Workers : Careful(job[w])

\* No report that a finalisation wrote says "unmatched" of a speaker, though
\* people unmap speakers while the model is at work: the check in
\* manage_finalize is repeated by the job, and what the job checks and what
\* generate_feedback uses are one copy (jobs.py, finalize_session_feedback).
FinalisedIsWhole ==
  \A u \in Learners : reports[u].by = "finalise" => Whole(reports[u].basis)

FInv == TypeOK /\ JobsCareful /\ FinalisedIsWhole

\* Once a learner can read a report, only a person in the back office takes
\* it away again: not a generation that overtakes a finalisation, nor a
\* finalisation that reopens the row and then fails (services/feedback.py,
\* "regeneration never touches a published row").
PublishedStaysPublished ==
  [][\A u \in Learners :
       reports[u].status = "published" /\ reports'[u].status # "published"
         => BackOfficeUnpublish(u)]_vars

\* The resolver answers only for speakers nobody has answered for, and never
\* takes two speakers for one person: neither the greedy pass nor elimination
\* gives away somebody an earlier answer has claimed (services/transcripts.py,
\* resolve_speakers).
ResolverKeepsApart ==
  \A w \in Workers : At(w, "ingest", "write") =>
    LET read == job[w].read
        copy == job[w].copy
    IN \A l \in Labels :
         /\ copy[l] # read[l] => ~Matched(read[l]) /\ read[l].via # "admin"
         /\ copy[l].user \notin {read[l].user, None} =>
              \A m \in Labels \ {l} : copy[m].user # copy[l].user

\* The review loop closes: once people have answered for every speaker of a
\* transcript under review, the sweep takes it up, unless somebody takes an
\* answer back (jobs.py, sweep_review_transcripts).
ReviewLoopCloses ==
  (transcript = "needs_review" /\ Complete(speakers))
    ~> (transcript = "resolved" \/ ~Complete(speakers))
=============================================================================
