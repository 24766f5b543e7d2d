------------------------------ MODULE MyBookings ------------------------------
(***************************************************************************)
(* A learner's own bookings in one tab: the dashboard, which lists and     *)
(* cancels them, and a discussion's page, which books one.  Both show what *)
(* the API said when they last asked; meanwhile other learners, admins and *)
(* the clock go on.  Cancelling and booking say beforehand what they will  *)
(* do to the balance.  What the dialog says of the deadline it says by the *)
(* clock of its last drawing: no timer draws it again.                     *)
(*                                                                         *)
(* The dashboard's load runs whenever the user object changes; nothing     *)
(* keeps two loads from overlapping or from finishing in the wrong order.  *)
(* It asks for what is ahead and for everything, and what is only in the   *)
(* second answer is listed as past: that list is left out.                 *)
(***************************************************************************)
EXTENDS Integers, FiniteSets

CONSTANTS
  Sessions,
  Prices,        \* what an admin may ask for a seat
  Welcome,       \* the balance to begin with
  MaxClicks,     \* bound: cancellations and bookings asked for
  MaxTroubles,   \* bound: calls that fail and what others do meanwhile
  None           \* nobody, nothing, no answer yet

MyBookingsAssumption ==
  /\ Prices \subseteq Nat /\ {Welcome, MaxClicks, MaxTroubles} \subseteq Nat
  /\ None \notin Sessions /\ None \notin {"ok", "error"}

\* The clock, as far as the pages care: a session begins in over twelve hours,
\* in exactly twelve, in under twelve (or has begun), or is over.
Over == 3
Cutoff == 2
Under == 1
Ended == 0

VARIABLES
  server,   \* the sessions with the learner's row in each, and the balance
  credits,  \* AuthProvider's copy of the balance, or None if nobody is signed in
  page,     \* which of the two pages is mounted, and its state
  calls,    \* requests whose handlers have not finished
  left      \* what remains of the bounds

vars == <<server, credits, page, calls, left>>

Row == [status : {"none", "confirmed", "waitlisted", "cancelled"}, spent : Prices \cup {0},
        price : Prices, full : BOOLEAN, open : BOOLEAN, hours : Ended..Over]
Copy == [s : Sessions, row : Row]

\* "asking" is the session the dialog is about (the code compares ids), "drawn"
\* the hours to it as they were when the page was last drawn.
Blank == [at |-> "list", loading |-> TRUE, error |-> FALSE,
          ahead |-> {}, busy |-> None, asking |-> None, drawn |-> Ended,
          sid |-> None, row |-> None, booking |-> FALSE]

\* "goal" is what awaits a call; "told" what the learner was told it does to
\* the balance, "row" the copy and the clock that was read off, "delta" what it
\* did, "moved" whether what was read off was true no longer.
Call(op, s, goal) == [op |-> op, s |-> s, goal |-> goal, n |-> 0, told |-> 0, row |-> None,
                      ahead |-> {}, ans |-> None, delta |-> 0, moved |-> FALSE]

\* Requests made for the same end are told apart by number.
Alike(c, d) == c.s = d.s /\ c.goal = d.goal /\ (c.op = "load" <=> d.op = "load")
Numbered(cs, c) ==
  [c EXCEPT !.n = CHOOSE n \in 1..(Cardinality(cs) + 1) : \A d \in cs : Alike(c, d) => d.n # n]
Add(cs, c) == cs \cup {Numbered(cs, c)}

Held(r) == r.status \in {"confirmed", "waitlisted"}
Listed == {s \in Sessions : Held(server.row[s])}
Copies(ss) == {[s |-> s, row |-> server.row[s]] : s \in ss}

Init ==
  /\ server \in [row : [Sessions -> {r \in Row : /\ r.status \in {"none", "confirmed", "waitlisted"}
                                                 /\ r.spent = IF r.status = "confirmed" THEN r.price ELSE 0
                                                 /\ r.status = "waitlisted" => r.full
                                                 /\ r.price <= Welcome /\ r.hours > Ended /\ r.open}],
                 balance : {Welcome}]
  /\ credits = Welcome
  /\ page \in {Blank} \cup {[Blank EXCEPT !.at = "session", !.sid = s] : s \in Sessions}
  /\ calls = IF page.at = "list" THEN Add({}, Call("load", None, "show"))
                                 ELSE Add({}, Call("read", page.sid, "show"))
  /\ left \in [clicks : {MaxClicks}, troubles : 0..MaxTroubles]

(***************************************************************************)
(* What the pages say                                                      *)
(***************************************************************************)

\* React draws the page again when its state changes: what is the same again
\* may go undrawn, and the passing of time draws nothing.
Drawn(p) == [p EXCEPT !.drawn = IF p.asking = None THEN Ended ELSE server.row[p.asking].hours]
Shows(p) == page' = Drawn(p) \/ (p = page /\ UNCHANGED page)

\* CancelConfirm: what cancelling does to the balance, by the list's copy of the
\* booking and the clock of the last drawing.
\* Mutant: the deadline taken for the start.
RefundedToTheEnd(r) == r.spent = 0 \/ page.drawn >= Under
Refunded(r) == r.spent = 0 \/ page.drawn > Cutoff
CancelTells(r) == IF Refunded(r) THEN r.spent ELSE 0

\* The session page's button: a waitlist place is free, a seat has its price.
Cost == IF page.row.full THEN 0 ELSE page.row.price
CanBook == page.at = "session" /\ ~page.loading /\ page.row # None
           /\ ~Held(page.row) /\ page.row.open /\ ~page.booking

\* The cards of the current list, and the dialog under one of them.
Cards == IF page.at = "list" /\ ~page.loading THEN page.ahead ELSE {}
Open == {c \in Cards : c.s = page.asking}

(***************************************************************************)
(* The learner                                                             *)
(***************************************************************************)

\* Asking again about the same booking draws the dialog if a load came between.
Ask ==
  /\ \E c \in Cards : c.s # page.busy /\ Shows([page EXCEPT !.asking = c.s])
  /\ UNCHANGED <<server, credits, calls, left>>

KeepIt ==
  /\ Open # {}
  /\ Shows([page EXCEPT !.asking = None])
  /\ UNCHANGED <<server, credits, calls, left>>

\* cancel, up to its first await.
Cancel ==
  /\ left.clicks > 0
  /\ \E c \in Open :
       /\ page.busy # c.s
       /\ Shows([page EXCEPT !.busy = c.s, !.error = FALSE])
       /\ calls' = Add(calls, [Call("cancel", c.s, "cancel") EXCEPT !.told = CancelTells(c.row),
                                 !.row = [c.row EXCEPT !.hours = page.drawn]])
  /\ left' = [left EXCEPT !.clicks = @ - 1]
  /\ UNCHANGED <<server, credits>>

\* book: a visitor goes to sign in first, and a balance that is known to be
\* too short to the checkout.
Book ==
  /\ left.clicks > 0
  /\ CanBook
  /\ IF credits = None \/ credits < Cost
       THEN page' = [page EXCEPT !.at = "gone"] /\ UNCHANGED calls
       ELSE /\ page' = [page EXCEPT !.booking = TRUE, !.error = FALSE]
            /\ calls' = Add(calls, [Call("book", page.sid, "book") EXCEPT !.told = -Cost,
                                      !.row = page.row])
  /\ left' = [left EXCEPT !.clicks = @ - 1]
  /\ UNCHANGED <<server, credits>>

\* "Send a link" of the banner, a sign-in elsewhere: any refresh of the user.
Refresh ==
  /\ left.troubles > 0
  /\ calls' = Add(calls, Call("me", None, "none"))
  /\ left' = [left EXCEPT !.troubles = @ - 1]
  /\ UNCHANGED <<server, credits, page>>

(***************************************************************************)
(* The server and everybody else                                           *)
(***************************************************************************)

Told(c, d, s) ==
  /\ server' = s
  /\ calls' = (calls \ {c}) \cup {d}
  /\ UNCHANGED <<credits, page, left>>

\* GET /bookings/mine: what is not over.
AnswerLoad(c) ==
  /\ c.op = "load" /\ c.ans = None
  /\ Told(c, [c EXCEPT !.ans = "ok",
                !.ahead = Copies({s \in Listed : server.row[s].hours > Ended})], server)

AnswerRead(c) ==
  /\ c.op = "read" /\ c.ans = None
  /\ Told(c, [c EXCEPT !.ans = "ok", !.row = server.row[c.s]], server)
AnswerMe(c) ==
  /\ c.op \in {"me", "balance"} /\ c.ans = None
  /\ Told(c, [c EXCEPT !.ans = "ok", !.delta = server.balance], server)

\* What was read off is true no longer: of the learner's place, the status or
\* what it cost, or the deadline has passed since the dialog was drawn; of a
\* session to book, the price or whether there is a seat.
PlaceMoved(c, r) ==
  \/ r.status # c.row.status \/ r.spent # c.row.spent
  \/ c.row.hours > Cutoff /\ r.hours < Cutoff
OfferMoved(c, r) == r.price # c.row.price \/ r.full # c.row.full

\* POST /bookings/{id}/cancel, with the server's own rule for refunds; a
\* booking that is cancelled already is left as it is.
RefundDue(r) == r.spent > 0 /\ r.hours >= Cutoff
AnswerCancel(c) ==
  /\ c.op = "cancel" /\ c.ans = None
  /\ LET r == server.row[c.s]
         back == IF RefundDue(r) THEN r.spent ELSE 0
     IN  IF Held(r)
           THEN Told(c, [c EXCEPT !.ans = "ok", !.delta = back, !.moved = PlaceMoved(c, r)],
                     [server EXCEPT !.row[c.s].status = "cancelled", !.balance = @ + back])
           ELSE Told(c, [c EXCEPT !.ans = "ok", !.moved = PlaceMoved(c, r)], server)

\* POST /bookings, unless the session is off or has begun: a full session's
\* waitlist is free, a free seat is charged.
AnswerBook(c) ==
  /\ c.op = "book" /\ c.ans = None
  /\ LET r == server.row[c.s]
         takes == ~Held(r) /\ r.open /\ r.hours > Ended
     IN
       \/ /\ ~takes \/ r.hours = Under
          /\ Told(c, [c EXCEPT !.ans = "refused"], server)
       \/ /\ takes /\ ~r.full /\ server.balance < r.price
          /\ Told(c, [c EXCEPT !.ans = "insufficient"], server)
       \/ /\ takes /\ r.full
          /\ Told(c, [c EXCEPT !.ans = "ok", !.moved = OfferMoved(c, r)],
                  [server EXCEPT !.row[c.s] = [r EXCEPT !.status = "waitlisted", !.spent = 0]])
       \/ /\ takes /\ ~r.full /\ server.balance >= r.price
          /\ Told(c, [c EXCEPT !.ans = "ok", !.delta = -r.price, !.moved = OfferMoved(c, r)],
                  [server EXCEPT !.row[c.s] = [r EXCEPT !.status = "confirmed", !.spent = r.price],
                                 !.balance = @ - r.price])

\* A call that is lost on either way.
Fail(c) ==
  /\ c.ans # "error"
  /\ left.troubles > 0
  /\ left' = [left EXCEPT !.troubles = @ - 1]
  /\ calls' = (calls \ {c}) \cup {[c EXCEPT !.ans = "error"]}
  /\ UNCHANGED <<server, credits, page>>

Elsewhere(s) ==
  /\ left.troubles > 0
  /\ left' = [left EXCEPT !.troubles = @ - 1]
  /\ server' = s
  /\ UNCHANGED <<credits, page, calls>>

\* A seat is freed or taken, the next in line promoted and charged, the price
\* edited, the session called off; time goes by.
SeatMoves(s) ==
  LET r == server.row[s] IN
  /\ r.open
  /\ IF r.status = "waitlisted"
       THEN /\ server.balance >= r.price
            /\ Elsewhere([server EXCEPT !.row[s] = [r EXCEPT !.status = "confirmed", !.spent = r.price],
                                        !.balance = @ - r.price])
       ELSE Elsewhere([server EXCEPT !.row[s].full = ~@])
Reprice(s) ==
  \E p \in Prices \ {server.row[s].price} : Elsewhere([server EXCEPT !.row[s].price = p])
CallOff(s) ==
  LET r == server.row[s] IN
  /\ r.open
  /\ Elsewhere([server EXCEPT !.row[s].open = FALSE,
                              !.row[s].status = IF Held(r) THEN "cancelled" ELSE @,
                              !.balance = IF Held(r) THEN @ + r.spent ELSE @])
Hours(s) ==
  \E h \in Ended..(server.row[s].hours - 1) : Elsewhere([server EXCEPT !.row[s].hours = h])

(***************************************************************************)
(* The handlers' second halves                                             *)
(***************************************************************************)

\* A cancellation is finished by the last of load and refresh, a booking by
\* the read that follows its refresh; finishing frees the button whoever
\* holds it by then.
Others(c) == {d \in calls \ {c} : d.goal = "cancel" /\ d.s = c.s}
Freed(c, p) ==
  CASE c.goal = "cancel" /\ Others(c) = {} -> [p EXCEPT !.busy = None]
    [] c.goal = "book" -> [p EXCEPT !.booking = FALSE]
    [] OTHER -> p

ApplyLoad(c) ==
  /\ c.op = "load" /\ c.ans # None
  /\ IF c.ans = "error"
       THEN Shows(Freed(c, [page EXCEPT !.loading = FALSE, !.error = TRUE]))
       ELSE page' = Drawn(Freed(c, [page EXCEPT !.loading = FALSE, !.error = FALSE, !.ahead = c.ahead]))
  /\ calls' = calls \ {c}
  /\ UNCHANGED <<server, credits, left>>

ApplyRead(c) ==
  /\ c.op = "read" /\ c.ans # None
  /\ page' = Freed(c, IF c.ans = "error" THEN [page EXCEPT !.loading = FALSE, !.error = TRUE]
                      ELSE [page EXCEPT !.loading = FALSE, !.row = c.row])
  /\ calls' = calls \ {c}
  /\ UNCHANGED <<server, credits, left>>

\* refresh: a new user object, which makes the dashboard load again, then the
\* balance.
ApplyMe(c) ==
  /\ c.op = "me" /\ c.ans = "ok"
  /\ LET cs == (calls \ {c}) \cup {[c EXCEPT !.op = "balance", !.ans = None]} IN
       calls' = IF page.at = "list" THEN Add(cs, Call("load", None, "show")) ELSE cs
  /\ credits' = IF credits = None THEN 0 ELSE credits
  /\ page' = Drawn(page)
  /\ UNCHANGED <<server, left>>

\* What follows the refresh: nothing, or the read that shows the booking.
Then(c) == IF c.goal = "book" THEN Add(calls \ {c}, Call("read", c.s, "book")) ELSE calls \ {c}
ApplyBalance(c) ==
  /\ c.op = "balance" /\ c.ans = "ok"
  /\ credits' = c.delta
  /\ LET p == IF c.goal = "book" THEN page ELSE Freed(c, page) IN
       IF credits' = credits THEN Shows(p) ELSE page' = Drawn(p)
  /\ calls' = Then(c)
  /\ UNCHANGED <<server, left>>
\* A refresh that fails signs out, and the dashboard goes to /login.
SignedOut(c) ==
  /\ c.op \in {"me", "balance"} /\ c.ans = "error"
  /\ credits' = None
  /\ page' = LET there == IF page.at = "list" THEN [page EXCEPT !.at = "gone"] ELSE page
             IN  IF c.goal = "book" THEN there ELSE Freed(c, there)
  /\ calls' = Then(c)
  /\ UNCHANGED <<server, left>>

\* The rest of cancel.
ApplyCancel(c) ==
  /\ c.op = "cancel" /\ c.ans # None
  /\ IF c.ans = "ok"
       THEN /\ Shows([page EXCEPT !.asking = None])
            /\ calls' = Add(Add(calls \ {c}, Call("load", c.s, "cancel")), Call("me", c.s, "cancel"))
       ELSE /\ Shows([page EXCEPT !.error = TRUE, !.busy = None])
            /\ calls' = calls \ {c}
  /\ UNCHANGED <<server, credits, left>>

\* The rest of book: too short a balance after all goes to the checkout, any
\* other refusal reads the session again.
ApplyBook(c) ==
  /\ c.op = "book" /\ c.ans # None
  /\ page' = CASE c.ans = "ok" -> page
               [] c.ans = "insufficient" -> [page EXCEPT !.at = "gone", !.booking = FALSE]
               [] OTHER -> [page EXCEPT !.error = TRUE]
  /\ calls' = CASE c.ans = "ok" -> Add(calls \ {c}, Call("me", c.s, "book"))
                [] c.ans = "insufficient" -> calls \ {c}
                [] OTHER -> Add(calls \ {c}, Call("read", c.s, "book"))
  /\ UNCHANGED <<server, credits, left>>

Answer(c) ==
  AnswerLoad(c) \/ AnswerRead(c) \/ AnswerMe(c) \/ AnswerCancel(c) \/ AnswerBook(c)
Apply(c) ==
  ApplyLoad(c) \/ ApplyRead(c) \/ ApplyMe(c) \/ ApplyBalance(c) \/ SignedOut(c)
  \/ ApplyCancel(c) \/ ApplyBook(c)

Next ==
  \/ Ask \/ KeepIt \/ Cancel \/ Book \/ Refresh
  \/ \E c \in calls : Answer(c) \/ Fail(c) \/ Apply(c)
  \/ \E s \in Sessions : SeatMoves(s) \/ Reprice(s) \/ CallOff(s) \/ Hours(s)

Answers == \E c \in calls : Answer(c)
Applies == \E c \in calls : Apply(c)

Spec == Init /\ [][Next]_vars

\* Requests are answered and their handlers run.
FairSpec == Spec /\ WF_vars(Answers) /\ WF_vars(Applies)

(***************************************************************************)
(* Properties                                                              *)
(***************************************************************************)

TypeOK ==
  /\ server.row \in [Sessions -> Row] /\ server.balance \in Nat /\ credits \in Nat \cup {None}
  /\ page.at \in {"list", "session", "gone"}
  /\ page.ahead \subseteq Copy /\ page.busy \in Sessions \cup {None}
  /\ page.asking \in Sessions \cup {None} /\ page.drawn \in Ended..Over
  /\ page.sid \in Sessions \cup {None} /\ page.row \in Row \cup {None}
  /\ \A c, d \in calls : Alike(c, d) /\ c.n = d.n => c = d

\* "The policy, said before the button" and "the price is on the button": a
\* cancellation or a booking never leaves the balance worse than the page said
\* when it was clicked, unless what it said was true no longer when the server
\* answered: the learner's place, or the session's price or last seat, had moved,
\* or the deadline had passed since the dialog was drawn.  That last exception
\* is the code's: nothing draws the dialog again as time passes, and "Cancel and
\* get it back" may be clicked when the server gives nothing back any more.
NeverWorseThanShown ==
  \A c \in calls : c.op \in {"cancel", "book"} /\ c.ans = "ok" => c.moved \/ c.delta >= c.told

\* The spinner of a cancellation and of a booking ends, however the calls
\* behind it go.
Waiting == page.at # "gone" /\ (page.busy # None \/ page.booking)
=============================================================================
