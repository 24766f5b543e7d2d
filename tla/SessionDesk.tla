----------------------------- MODULE SessionDesk -----------------------------
(***************************************************************************)
(* The superuser's page of one group discussion (/admin/sessions/[id]): a  *)
(* copy of the session read when the page opened and again after each      *)
(* operation; buttons that share one busy flag; a dialog that cancels the  *)
(* session, with a flag of its own; and a card that deletes it, whose      *)
(* warning, and whether the server is asked to refund first, are worked    *)
(* out from that copy and from the clock when the page was last rendered.  *)
(* Learners, other superusers and the clock do not wait for it.  The line  *)
(* of error or success, which nothing depends on, is left out.             *)
(***************************************************************************)
EXTENDS Integers, FiniteSets

CONSTANTS
  MaxLive,      \* bound: learners with a seat or on the waitlist
  Starts,       \* hours the session may have or be moved to
  MaxNow,       \* bound: the clock
  MaxClicks,    \* bound: buttons pressed, but for the dialog's and the card's
  MaxTroubles,  \* bound: calls that fail, changes made by others
  None

SessionDeskAssumption ==
  /\ {MaxLive, MaxNow, MaxClicks, MaxTroubles} \subseteq Nat
  /\ Starts \subseteq Nat

VARIABLES
  session,  \* the row: status, start, how many hold a seat or a place in line
  now,      \* the clock, the server's and the browser's
  page,     \* the page and its state
  calls,    \* requests whose handlers have not finished
  fate,     \* history: the deletion that went through
  left      \* what remains of the bounds

vars == <<session, now, page, calls, fate, left>>

Statuses == {"draft", "published", "cancelled", "gone"}
Nothing == [status |-> "none", start |-> 0, live |-> 0]
Session == [status : Statuses, start : Starts, live : 0..MaxLive]

Began(s) == s.start < now

(***************************************************************************)
(* The page                                                                *)
(***************************************************************************)

AlreadyRan(p) == Began(p.copy)
\* Mutant: refunds asked for past sessions too.
NeedsForceAlways(p) == p.copy.live > 0
NeedsForce(p) == ~AlreadyRan(p) /\ p.copy.live > 0

\* What the card says it will do, and asks for, when the page is drawn: the
\* buttons of a drawn page act on what was drawn.  (Of a session that ran the
\* card counts seats alone, where the model counts the waitlist with them.)
Warning(p) ==
  IF AlreadyRan(p) /\ p.copy.live > 0 THEN "erase"
  ELSE IF NeedsForce(p) THEN "refund" ELSE "nothing"
Drawn(p) == [p EXCEPT !.card = [says |-> Warning(p), force |-> NeedsForce(p)]]

\* "by" is who waits for a load: the page as it opens, a button, the dialog or
\* the roster.
Call(op, by) ==
  [op |-> op, by |-> by, n |-> 0, mine |-> TRUE, start |-> 0, told |-> "none", force |-> FALSE,
   ans |-> "none", row |-> Nothing]
\* Requests of one kind are told apart by number.
Alike(c, d) == c.op = d.op /\ c.by = d.by
Add(cs, c) ==
  cs \cup {[c EXCEPT !.n = CHOOSE n \in 1..(Cardinality(cs) + 1) :
                               \A d \in cs : Alike(c, d) => d.n # n]}

\* The dialog as it opens, and what its closing leaves of its requests.
Dialog == [open |-> TRUE, busy |-> FALSE, impact |-> "none"]
NoDialog == [open |-> FALSE, busy |-> FALSE, impact |-> "none"]
Disowned(cs) == {[c EXCEPT !.mine = @ /\ c.by # "dialog"] : c \in cs}

Init ==
  /\ session \in [status : {"draft", "published", "cancelled"}, start : Starts, live : 0..MaxLive]
  /\ session.status # "published" => session.live = 0
  /\ now = 0
  /\ page = [copy |-> Nothing, loading |-> TRUE, busy |-> FALSE, dialog |-> NoDialog,
             deleting |-> FALSE, card |-> [says |-> "nothing", force |-> FALSE],
             marking |-> FALSE, gone |-> FALSE]
  /\ calls = Add({}, Call("load", "page"))
  /\ fate = [told |-> "none", began |-> FALSE, live |-> 0, refunded |-> FALSE]
  /\ left = [clicks |-> MaxClicks, troubles |-> MaxTroubles]

Shown == ~page.loading /\ page.copy # Nothing /\ ~page.gone
Click == left.clicks > 0 /\ left' = [left EXCEPT !.clicks = @ - 1]
Send(c) == calls' = Add(calls, c)

\* run and runDetail, up to the first await.
Running(p) == Drawn([p EXCEPT !.busy = TRUE])
Publish ==
  /\ Shown /\ ~page.busy /\ page.copy.status = "draft"
  /\ Click /\ page' = Running(page) /\ Send(Call("publish", "button"))
  /\ UNCHANGED <<session, now, fate>>
\* Retrying the Meet link, inviting the notetaker, fetching the transcript,
\* saving the details: nothing this model keeps, an answer all the same.
Touch ==
  /\ Shown /\ ~page.busy /\ page.copy.status # "cancelled"
  /\ Click /\ page' = Running(page)
  /\ \E op \in {"touch", "ask"} : Send(Call(op, "button"))
  /\ UNCHANGED <<session, now, fate>>
Reschedule ==
  /\ Shown /\ ~page.busy /\ page.copy.status # "cancelled"
  /\ Click /\ page' = Running(page)
  /\ \E t \in Starts : Send([Call("reschedule", "button") EXCEPT !.start = t])
  /\ UNCHANGED <<session, now, fate>>

\* The cancel button opens and closes the dialog; it is alive whatever is busy.
ToggleDialog ==
  /\ Shown
  /\ page.copy.status # "cancelled" \/ page.dialog.open
  /\ Click
  /\ IF page.dialog.open
     THEN page' = Drawn([page EXCEPT !.dialog = NoDialog]) /\ calls' = Disowned(calls)
     ELSE page' = Drawn([page EXCEPT !.dialog = Dialog]) /\ Send(Call("impact", "dialog"))
  /\ UNCHANGED <<session, now, fate>>
\* A reason and the button: whatever has become of the impact.
SubmitDialog ==
  /\ Shown /\ page.dialog.open /\ ~page.dialog.busy
  /\ page' = Drawn([page EXCEPT !.dialog.busy = TRUE])
  /\ Send(Call("cancel", "dialog")) /\ Click
  /\ UNCHANGED <<session, now, fate>>

ToggleDelete ==
  /\ Shown
  /\ page' = Drawn([page EXCEPT !.deleting = ~@])
  /\ UNCHANGED <<session, now, calls, fate, left>>
\* "Delete permanently", or "Refund learners & delete".
Delete ==
  /\ Shown /\ page.deleting /\ ~page.busy
  /\ page' = Running(page)
  /\ Send([Call("delete", "button") EXCEPT !.told = page.card.says, !.force = page.card.force])
  /\ Click
  /\ UNCHANGED <<session, now, fate>>

\* confirm of the roster panel.
Mark ==
  /\ Shown /\ ~page.marking
  /\ page' = Drawn([page EXCEPT !.marking = TRUE])
  /\ Send(Call("mark", "roster")) /\ Click
  /\ UNCHANGED <<session, now, fate>>

(***************************************************************************)
(* The server, one answer at a time                                        *)
(***************************************************************************)

Answered(c, ans) == (calls \ {c}) \cup {[c EXCEPT !.ans = ans, !.row = session']}

\* What each operation needs, and does.
Refused(c) ==
  \/ session.status = "gone"
  \/ session.status = "cancelled" /\ c.op \in {"publish", "touch", "reschedule", "cancel", "ask"}
  \/ c.op = "delete" /\ ~c.force /\ session.live > 0 /\ ~Began(session)
Done(c) ==
  CASE c.op = "publish" -> [session EXCEPT !.status = "published"]
    [] c.op = "reschedule" -> [session EXCEPT !.start = c.start]
    [] c.op = "cancel" -> [session EXCEPT !.status = "cancelled", !.live = 0]
    [] c.op = "delete" -> [session EXCEPT !.status = "gone", !.live = 0]
    [] OTHER -> session

Answer(c) ==
  /\ c.ans = "none"
  /\ IF Refused(c) THEN session' = session /\ calls' = Answered(c, "error")
     ELSE session' = Done(c) /\ calls' = Answered(c, "ok")
  /\ fate' = IF c.op = "delete" /\ ~Refused(c)
             THEN [told |-> c.told, began |-> Began(session), live |-> session.live,
                   refunded |-> c.force /\ ~Began(session)]
             ELSE fate
  /\ UNCHANGED <<now, page, left>>
Trouble == left.troubles > 0 /\ left' = [left EXCEPT !.troubles = @ - 1]
Fail(c) ==
  /\ c.ans # "error" /\ Trouble
  /\ calls' = (calls \ {c}) \cup {[c EXCEPT !.ans = "error"]}
  /\ UNCHANGED <<session, now, page, fate>>

\* Learners book and cancel; another superuser moves, cancels or deletes it.
OthersAct ==
  /\ session.status # "gone" /\ Trouble
  /\ \/ session.status = "published" /\ session.live < MaxLive
        /\ session' = [session EXCEPT !.live = @ + 1]
     \/ session.live > 0 /\ session' = [session EXCEPT !.live = @ - 1]
     \/ session.status # "cancelled" /\ \E t \in Starts : session' = [session EXCEPT !.start = t]
     \/ session' = [session EXCEPT !.status = "cancelled", !.live = 0]
     \/ session.live = 0 /\ session' = [session EXCEPT !.status = "gone"]
  /\ UNCHANGED <<now, page, calls, fate>>
Tick == now < MaxNow /\ now' = now + 1 /\ UNCHANGED <<session, page, calls, fate, left>>

(***************************************************************************)
(* The handlers' second halves                                             *)
(***************************************************************************)

\* Who waited for the load goes on, whether it succeeded or not.
Resumed(p, c) ==
  CASE c.by = "page" -> p
    [] c.by = "button" -> [p EXCEPT !.busy = FALSE]
    [] c.by = "dialog" -> [p EXCEPT !.dialog = NoDialog]
    [] c.by = "roster" -> p
Loaded(p, c) == Drawn(Resumed([p EXCEPT !.loading = FALSE], c))

\* load: the session, the form filled in again, then the roster; an error ends it.
ApplyLoad(c) ==
  /\ c.op = "load" /\ c.ans # "none"
  /\ IF c.ans = "ok"
     THEN page' = Drawn([page EXCEPT !.copy = c.row]) /\ calls' = Add(calls \ {c}, Call("seats", c.by))
     ELSE /\ page' = Loaded(page, c)
          /\ calls' = IF c.by = "dialog" THEN Disowned(calls \ {c}) ELSE calls \ {c}
  /\ UNCHANGED <<session, now, fate, left>>
ApplyRoster(c) ==
  /\ c.op = "seats" /\ c.ans # "none"
  /\ page' = IF c.by = "roster"
             THEN Drawn([page EXCEPT !.marking = FALSE]) ELSE Loaded(page, c)
  /\ calls' = IF c.by = "dialog" THEN Disowned(calls \ {c}) ELSE calls \ {c}
  /\ UNCHANGED <<session, now, fate, left>>

\* run: read again; runDetail: the answer is the notice; or the error.
ApplyButton(c) ==
  /\ c.op \in {"publish", "touch", "reschedule", "ask"} /\ c.ans # "none"
  /\ IF c.ans = "ok" /\ c.op # "ask"
     THEN page' = page /\ calls' = Add(calls \ {c}, Call("load", "button"))
     ELSE /\ page' = Drawn([page EXCEPT !.busy = FALSE])
          /\ calls' = calls \ {c}
  /\ UNCHANGED <<session, now, fate, left>>

\* Deleted: off to the list.
ApplyDelete(c) ==
  /\ c.op = "delete" /\ c.ans # "none"
  /\ page' = IF c.ans = "ok" THEN [page EXCEPT !.gone = TRUE]
             ELSE Drawn([page EXCEPT !.busy = FALSE])
  /\ calls' = calls \ {c}
  /\ UNCHANGED <<session, now, fate, left>>

ApplyImpact(c) ==
  /\ c.op = "impact" /\ c.ans # "none"
  /\ page' = IF c.mine THEN Drawn([page EXCEPT !.dialog.impact = c.ans]) ELSE page
  /\ calls' = calls \ {c}
  /\ UNCHANGED <<session, now, fate, left>>
\* Cancelled: the page reads again and the dialog closes after that, whichever
\* dialog is open by then.
ApplyCancel(c) ==
  /\ c.op = "cancel" /\ c.ans # "none"
  /\ IF c.ans = "ok"
     THEN page' = page /\ calls' = Add(calls \ {c}, [Call("load", "dialog") EXCEPT !.mine = c.mine])
     ELSE /\ page' = IF c.mine THEN Drawn([page EXCEPT !.dialog.busy = FALSE]) ELSE page
          /\ calls' = calls \ {c}
  /\ UNCHANGED <<session, now, fate, left>>

ApplyMark(c) ==
  /\ c.op = "mark" /\ c.ans # "none"
  /\ IF c.ans = "ok" THEN page' = page /\ calls' = Add(calls \ {c}, Call("seats", "roster"))
     ELSE page' = Drawn([page EXCEPT !.marking = FALSE]) /\ calls' = calls \ {c}
  /\ UNCHANGED <<session, now, fate, left>>

Apply(c) ==
  \/ ApplyLoad(c) \/ ApplyRoster(c) \/ ApplyButton(c) \/ ApplyDelete(c)
  \/ ApplyImpact(c) \/ ApplyCancel(c) \/ ApplyMark(c)

Next ==
  \/ Publish \/ Touch \/ Reschedule \/ ToggleDialog \/ SubmitDialog \/ ToggleDelete \/ Delete \/ Mark
  \/ OthersAct \/ Tick
  \/ \E c \in calls : Answer(c) \/ Fail(c) \/ Apply(c)

Answers == \E c \in calls : Answer(c)
Applies == \E c \in calls : Apply(c)

Spec == Init /\ [][Next]_vars

\* Requests are answered and their handlers run.
FairSpec == Spec /\ WF_vars(Answers) /\ WF_vars(Applies)

(***************************************************************************)
(* Properties                                                              *)
(***************************************************************************)

TypeOK ==
  /\ session \in Session /\ now \in 0..MaxNow
  /\ page.copy \in Session \cup {Nothing}
  /\ page.card \in [says : {"nothing", "refund", "erase"}, force : BOOLEAN]
  /\ \A c, d \in calls : Alike(c, d) /\ c.n = d.n => c = d

\* A spinner is turning.
Waiting == ~page.gone /\ (page.loading \/ page.busy \/ page.dialog.busy \/ page.marking)

\* Deleting does what the card said, however old the copy it was worked out
\* from: as long as the session has not begun, nobody's booking goes with it
\* but by a refund the card announced, and an announced refund is made.
DeleteDoesWhatItSaid ==
  fate.told # "none" /\ fate.live > 0 /\ ~fate.began => fate.told = "refund" /\ fate.refunded
=============================================================================
