-------------------------------- MODULE Desk --------------------------------
(***************************************************************************)
(* The pages that show rows read from the API and act on them: the admin   *)
(* area's lists and forms, the instructor's calendar, a learner's feedback *)
(* and the catalogue.  All are cut from one cloth, load, choose, press,    *)
(* reload, and differ in what a press disables, whether it reads again,    *)
(* and what a new filter does to the read already under way.  One page is  *)
(* open at a time; what differs is said page by page.                      *)
(***************************************************************************)
EXTENDS Integers, FiniteSets

CONSTANTS
  Rows,         \* flags, messages, sessions, speakers, cards, blocks
  Filters,      \* statuses, windows, searches, sessions with a roster
  First,        \* the filter a page opens with
  MaxClicks,    \* bound: presses, filters chosen, refreshes
  MaxTroubles,  \* bound: calls that fail, rows changed by others
  MaxPolls,     \* FINALIZE_POLL_LIMIT
  None

DeskAssumption ==
  /\ First \in Filters /\ None \notin Filters \cup Rows
  /\ {MaxClicks, MaxTroubles} \subseteq Nat /\ MaxPolls \in Nat \ {0}

VARIABLES
  server,   \* which rows are on (done, handled, blocked, published), and
            \* how many of this page's presses went through
  page,     \* the page and its state
  calls,    \* requests whose handlers have not finished
  left      \* what remains of the bounds

vars == <<server, page, calls, left>>

(***************************************************************************)
(* The pages                                                               *)
(***************************************************************************)

Filtered == {"sessions", "messages", "analytics", "learners", "roster"}
Forms == {"credits", "new"}
Acting == {"sessions", "messages", "roster", "transcript", "instructors",
           "settings", "learner", "calendar"} \cup Forms
Kinds == Filtered \cup Acting \cup {"catalogue", "report"}

\* Pages whose buttons are all dead while one press is under way.
OneAtATime == {"settings", "credits", "learner", "calendar"}

\* Every load shows the spinner again; the others only the first.
SpinsAgain == {"sessions", "messages", "analytics", "learners", "roster", "catalogue"}
\* A load that succeeds takes the error away; so does a press.
LoadClears == {"sessions", "messages", "analytics", "learners", "catalogue", "learner", "instructors"}
PressClears == Acting \ {"messages"}
\* The answer of the press is what is shown; otherwise the page reads again.
AnswersItself == {"settings", "credits"}

\* A page as it opens.  "of" is the filter the rows shown were read under,
\* "seen" how many presses the server had taken by then; "alone" is a history
\* variable: no two requests were ever under way at once.
Opened(kind) ==
  [kind |-> kind, filter |-> IF kind = "roster" THEN None ELSE First,
   of |-> IF kind \in Forms THEN First ELSE None, rows |-> {}, seen |-> 0,
   loading |-> kind \notin Forms \cup {"learners", "roster"}, error |-> FALSE, busy |-> {},
   timer |-> kind = "learners", finalizing |-> FALSE, polls |-> 0, pause |-> FALSE,
   gone |-> FALSE, alone |-> TRUE]

Call(op, row, filter) ==
  [op |-> op, row |-> row, filter |-> filter, n |-> 0, turn |-> FALSE, ans |-> None,
   rows |-> {}, seen |-> 0]
Load(row, filter) == Call("load", row, filter)

\* Requests are told apart by number.
Add(cs, c) ==
  cs \cup {[c EXCEPT !.n = CHOOSE n \in 1..(Cardinality(cs) + 1) : \A d \in cs : d.n # n]}

Init ==
  /\ server \in [on : SUBSET Rows, taken : {0}]
  /\ \E kind \in Kinds :
       /\ page = Opened(kind)
       /\ calls = IF page.loading THEN Add({}, Load(None, page.filter)) ELSE {}
  /\ left = [clicks |-> MaxClicks, troubles |-> MaxTroubles]

\* Mutant: a lock per switch.
SettingsRowButton(r) == ~page.loading /\ page.of # None /\ r \notin page.busy

\* What each page offers to press, by the rows it shows.
SettingsButton(r) == ~page.loading /\ page.of # None /\ page.busy = {}
CreditsButton(r) == page.busy = {}
LearnerButton(r) == ~page.loading /\ page.of # None /\ page.busy = {}
CalendarButton(r) == ~page.loading /\ page.busy = {}
SessionsButton(r) == ~page.loading /\ page.of # None /\ r \notin page.rows \cup page.busy
MessagesButton(r) == ~page.loading /\ page.of # None /\ r \notin page.rows \cup page.busy
RosterButton(r) == ~page.loading /\ page.of # None /\ page.filter # None /\ r \notin page.busy
InstructorsButton(r) == ~page.loading /\ page.of # None /\ r \notin page.busy
TranscriptButton(r) == page.of # None /\ r \notin page.busy
NewButton(r) == r \notin page.busy

Offered(r) ==
  \/ page.kind = "settings" /\ SettingsButton(r)
  \/ page.kind = "credits" /\ CreditsButton(r)
  \/ page.kind = "learner" /\ LearnerButton(r)
  \/ page.kind = "calendar" /\ CalendarButton(r)
  \/ page.kind = "sessions" /\ SessionsButton(r)
  \/ page.kind = "messages" /\ MessagesButton(r)
  \/ page.kind = "roster" /\ RosterButton(r)
  \/ page.kind = "instructors" /\ InstructorsButton(r)
  \/ page.kind = "transcript" /\ TranscriptButton(r)
  \/ page.kind = "new" /\ NewButton(r)

\* Two pages wait for nothing but data.
AnalyticsShows == page.of # None \/ ~page.loading
ReportShows == page.of # None \/ page.error

Waiting ==
  /\ ~page.gone
  /\ \/ page.busy # {} \/ page.finalizing \/ page.timer
     \/ page.kind = "analytics" /\ ~AnalyticsShows
     \/ page.kind = "report" /\ ~ReportShows
     \/ page.kind \notin {"analytics", "report"} /\ page.loading

(***************************************************************************)
(* The person at the page                                                  *)
(***************************************************************************)

Click == left.clicks > 0 /\ left' = [left EXCEPT !.clicks = @ - 1]
Alone == page.alone /\ calls = {}

\* A status, a window, the roster of a session (which a second click hides);
\* nothing calls the earlier read off.
Read(p) == [p EXCEPT !.loading = @ \/ p.kind \in SpinsAgain, !.alone = Alone]
ChooseFilter ==
  /\ page.kind \in Filtered \ {"learners"} /\ ~page.gone
  /\ Click
  /\ \E f \in Filters \ {page.filter} :
       /\ page' = Read([page EXCEPT !.filter = f])
       /\ calls' = Add(calls, Load(None, f))
  /\ UNCHANGED server
HideRoster ==
  /\ page.kind = "roster" /\ page.filter # None
  /\ Click
  /\ page' = [page EXCEPT !.filter = None, !.of = None]
  /\ UNCHANGED <<server, calls>>

\* Searching: every letter puts the read off by a quarter of a second.
Type ==
  /\ page.kind = "learners"
  /\ Click
  /\ \E f \in Filters \ {page.filter} : page' = [page EXCEPT !.filter = f, !.timer = TRUE]
  /\ UNCHANGED <<server, calls>>
Debounced ==
  /\ page.timer
  /\ page' = Read([page EXCEPT !.timer = FALSE])
  /\ calls' = Add(calls, Load(None, page.filter))
  /\ UNCHANGED <<server, left>>

Refresh ==
  /\ page.kind \in {"sessions", "analytics"}
  /\ Click
  /\ page' = Read(page)
  /\ calls' = Add(calls, Load(None, page.filter))
  /\ UNCHANGED server

\* act, save, toggle, submit, markHandled, addBlock and removeBlock, confirm of
\* the roster, createQuickTest: up to the first await.  What is asked for is
\* the opposite of what is shown; a block is taken away without clearing the
\* error.
Holding(r) == IF page.kind \in {"instructors", "new"} THEN page.busy \cup {r} ELSE {r}
Press(r) ==
  /\ ~page.gone /\ Offered(r)
  /\ Click
  /\ page' = [page EXCEPT
       !.busy = Holding(r), !.alone = Alone,
       !.error = @ /\ (page.kind \notin PressClears \/ (page.kind = "calendar" /\ r \in page.rows))]
  /\ calls' = Add(calls, [Call("act", r, page.filter) EXCEPT !.turn = r \notin page.rows])
  /\ UNCHANGED server

\* finalize: then a read every few seconds until every report is published.
Finalize ==
  /\ page.kind = "transcript" /\ page.of # None /\ ~page.finalizing
  /\ Click
  /\ page' = [page EXCEPT !.finalizing = TRUE, !.polls = 0, !.error = FALSE, !.alone = Alone]
  /\ calls' = Add(calls, Call("finalize", None, page.filter))
  /\ UNCHANGED server
Poll ==
  /\ page.pause
  /\ page' = [page EXCEPT !.pause = FALSE, !.polls = @ + 1, !.alone = Alone]
  /\ calls' = Add(calls, Call("poll", None, page.filter))
  /\ UNCHANGED <<server, left>>

(***************************************************************************)
(* The server                                                              *)
(***************************************************************************)

Reads == {"load", "poll"}
AnswerRead(c) ==
  /\ c.ans = None /\ c.op \in Reads
  /\ calls' = (calls \ {c}) \cup {[c EXCEPT !.ans = "ok", !.rows = server.on, !.seen = server.taken]}
  /\ UNCHANGED <<server, page, left>>
\* A press that goes through; the ones that answer themselves say all there is.
AnswerAct(c) ==
  /\ c.ans = None /\ c.op \in {"act", "finalize"}
  /\ server' = [on |-> IF c.op = "finalize" THEN server.on
                       ELSE IF c.turn THEN server.on \cup {c.row} ELSE server.on \ {c.row},
                taken |-> server.taken + 1]
  /\ calls' = (calls \ {c}) \cup
       {[c EXCEPT !.ans = "ok", !.rows = server'.on, !.seen = server'.taken]}
  /\ UNCHANGED <<page, left>>
\* Refused, or lost on either way.
Fail(c) ==
  /\ c.ans # "error" /\ left.troubles > 0
  /\ left' = [left EXCEPT !.troubles = @ - 1]
  /\ calls' = (calls \ {c}) \cup {[c EXCEPT !.ans = "error"]}
  /\ UNCHANGED <<server, page>>
OthersAct ==
  /\ left.troubles > 0
  /\ left' = [left EXCEPT !.troubles = @ - 1]
  /\ \E r \in Rows : server' = [server EXCEPT !.on = IF r \in @ THEN @ \ {r} ELSE @ \cup {r}]
  /\ UNCHANGED <<page, calls>>

(***************************************************************************)
(* The handlers' second halves                                             *)
(***************************************************************************)

\* The finally of a press, whoever holds the button by now.
Freed(p, r) ==
  IF r = None THEN p
  ELSE [p EXCEPT !.busy = IF p.kind \in {"instructors", "new"} THEN @ \ {r} ELSE {}]
Showing(p, c) == [p EXCEPT !.rows = c.rows, !.of = c.filter, !.seen = c.seen]

ApplyLoad(c) ==
  /\ c.op = "load" /\ c.ans # None
  /\ LET p == IF c.ans = "error" THEN [page EXCEPT !.error = TRUE, !.loading = FALSE]
              ELSE [Showing(page, c) EXCEPT !.error = @ /\ page.kind \notin LoadClears,
                                            !.loading = FALSE]
     IN  page' = Freed(p, c.row)
  /\ calls' = calls \ {c}
  /\ UNCHANGED <<server, left>>

\* After a press: shown as answered, read again under the filter there was when
\* it was pressed, or off to another page; or the error, and nothing read.
ApplyAct(c) ==
  /\ c.op = "act" /\ c.ans # None
  /\ LET again == c.ans = "ok" /\ page.kind \notin AnswersItself \cup {"new"}
         spin == page.kind \in {"sessions", "messages"}
     IN  /\ page' = IF c.ans = "error" THEN Freed([page EXCEPT !.error = TRUE], c.row)
                    ELSE IF again THEN [page EXCEPT !.loading = @ \/ spin]
                    ELSE IF page.kind = "new" THEN [page EXCEPT !.gone = TRUE]
                    ELSE Freed(Showing(page, c), c.row)
         /\ calls' = IF again THEN Add(calls \ {c}, Load(c.row, c.filter)) ELSE calls \ {c}
  /\ UNCHANGED <<server, left>>

\* Generated: all published, or the last of the polls, or wait for the next.
Published == Rows
ApplyFinalize(c) ==
  /\ c.op \in {"finalize", "poll"} /\ c.ans # None
  /\ LET p == IF c.ans = "error" THEN [page EXCEPT !.error = TRUE]
              ELSE IF c.op = "poll" THEN Showing(page, c) ELSE page
         done == c.op = "poll" /\ c.ans = "ok" /\ c.rows = Published
     IN  page' = IF done \/ (c.op = "finalize" /\ c.ans = "error")
                   THEN [p EXCEPT !.finalizing = FALSE]
                 ELSE IF page.polls = MaxPolls
                   THEN [p EXCEPT !.finalizing = FALSE, !.error = TRUE]
                 ELSE [p EXCEPT !.pause = TRUE]
  /\ calls' = calls \ {c}
  /\ UNCHANGED <<server, left>>

Answer(c) == AnswerRead(c) \/ AnswerAct(c)
Apply(c) == ApplyLoad(c) \/ ApplyAct(c) \/ ApplyFinalize(c)
Timers == Debounced \/ Poll

Next ==
  \/ ChooseFilter \/ HideRoster \/ Type \/ Refresh \/ Finalize
  \/ \E r \in Rows : Press(r)
  \/ Timers \/ OthersAct
  \/ \E c \in calls : Answer(c) \/ Fail(c) \/ Apply(c)

Answers == \E c \in calls : Answer(c)
Applies == \E c \in calls : Apply(c)

Spec == Init /\ [][Next]_vars

\* Requests are answered, their handlers and the timers run.
FairSpec == Spec /\ WF_vars(Answers) /\ WF_vars(Applies) /\ WF_vars(Timers)

(***************************************************************************)
(* Properties                                                              *)
(***************************************************************************)

TypeOK ==
  /\ server \in [on : SUBSET Rows, taken : Nat]
  /\ page.kind \in Kinds /\ page.filter \in Filters \cup {None} /\ page.of \in Filters \cup {None}
  /\ page.rows \subseteq Rows /\ page.busy \subseteq Rows
  /\ page.seen \in 0..server.taken /\ page.polls \in 0..MaxPolls
  /\ \A c, d \in calls : c.n = d.n => c = d
  /\ page.pause => page.finalizing

\* What the person did is what the screen shows.  With nothing under way and no
\* error on screen, the rows were read under the filter that is chosen and
\* after everything this page did.  Pages that disable every button meanwhile
\* always keep to it; the others as long as no two requests overlapped.
ScreenIsCurrent ==
  (/\ calls = {} /\ ~page.timer /\ ~page.pause /\ ~page.gone /\ ~page.error
   /\ page.filter # None
   /\ page.kind \in OneAtATime \/ page.alone) =>
     page.of = page.filter /\ page.seen = server.taken
=============================================================================
