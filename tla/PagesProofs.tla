----------------------------- MODULE PagesProofs -----------------------------
(***************************************************************************)
(* Proofs about the other pages, as the composition of the pages has them: *)
(* what My bookings told a learner is what became of the seat, a desk page *)
(* shows what its person did, the calendar shows whole months, and a       *)
(* deletion does what its card said; then the types of all the pages, with *)
(* those of the checkout, the accounts and the trainer from their modules. *)
(***************************************************************************)
EXTENDS PurchaseProofs, TrainerProofs, FiniteSetTheorems, WellFoundedInduction

(***************************************************************************)
(* My bookings                                                             *)
(***************************************************************************)

\* What is listed is held.
HeldCopy == {c \in MY!Copy : MY!Held(c.row)}
MyPageType ==
  [at : {"list", "session", "gone"}, loading : BOOLEAN, error : BOOLEAN,
   ahead : SUBSET HeldCopy, busy : Booked \cup {None}, asking : Booked \cup {None},
   drawn : MY!Ended..MY!Over,
   sid : Booked \cup {None}, row : MY!Row \cup {None}, booking : BOOLEAN]
MyPageOK(p) == p \in MyPageType /\ (p.at = "session" => p.sid \in Booked)

\* What was told of a cancellation and of a booking, by the copy and the clock
\* that were read.
ToldOff(r) == IF r.spent = 0 \/ r.hours > MY!Cutoff THEN r.spent ELSE 0
ToldOn(r) == -(IF r.full THEN 0 ELSE r.price)
MyCallOK(c) ==
  /\ DOMAIN c = {"op", "s", "goal", "n", "told", "row", "ahead", "ans", "delta", "moved"}
  /\ c.ahead \subseteq HeldCopy
  /\ c.s \in Booked \cup {None} /\ c.row \in MY!Row \cup {None}
  /\ c.op \in {"cancel", "book", "read"} \/ c.goal = "book" => c.s \in Booked
  /\ c.op = "cancel" => c.row \in MY!Row /\ MY!Held(c.row) /\ c.told = ToldOff(c.row)
  /\ c.op = "book" => c.row \in MY!Row /\ c.told = ToldOn(c.row) /\ (c.ans = None => c.delta = 0)
  /\ c.op \in {"cancel", "book"} /\ c.ans = "ok" => c.moved \/ c.delta >= c.told
MyInv ==
  /\ myServer.row \in [Booked -> MY!Row]
  /\ DOMAIN myServer = {"row", "balance"}
  /\ MyPageOK(myPage)
  /\ \A c \in myCalls : MyCallOK(c)

LEMMA RowNumbers ==
  ASSUME MY!MyBookingsAssumption, NEW r \in MY!Row
  PROVE  /\ r.spent \in Nat /\ r.price \in Nat /\ r.hours \in 0..3 /\ r.full \in BOOLEAN
         /\ ToldOff(r) \in Nat /\ ToldOn(r) \in Int /\ 0 >= ToldOn(r)
<1>0. Prices \cup {0} \subseteq Nat
  BY DEF MY!MyBookingsAssumption
<1>1. /\ r.spent \in Nat /\ r.price \in Nat /\ r.hours \in 0..3 /\ r.full \in BOOLEAN
  <2>1. /\ r.spent \in Prices \cup {0} /\ r.price \in Prices \cup {0}
        /\ r.hours \in 0..3 /\ r.full \in BOOLEAN
    BY DEF MY!Row, MY!Ended, MY!Over
  <2>2. \A x \in Prices \cup {0} : x \in Nat
    BY <1>0
  <2> QED BY ONLY <2>1, <2>2
<1>2. ToldOff(r) \in Nat /\ ToldOn(r) \in Int /\ 0 >= ToldOn(r)
  BY <1>1 DEF ToldOff, ToldOn
<1> QED BY <1>1, <1>2

LEMMA NewMyCall ==
  ASSUME NEW op, op \notin {"cancel", "book"}, NEW s \in Booked \cup {None},
         NEW goal, op = "read" \/ goal = "book" => s \in Booked
  PROVE  MyCallOK(MY!Call(op, s, goal))
BY DEF MyCallOK, MY!Call

LEMMA MyAdding ==
  ASSUME NEW cs, \A d \in cs : MyCallOK(d), NEW c, MyCallOK(c)
  PROVE  \A d \in MY!Add(cs, c) : MyCallOK(d)
<1>1. MyCallOK(MY!Numbered(cs, c))
  <2> DEFINE k == CHOOSE n \in 1..(MY!Cardinality(cs) + 1) : \A d \in cs : MY!Alike(c, d) => d.n # n
  <2>1. MY!Numbered(cs, c) = [c EXCEPT !.n = k]
    BY DEF MY!Numbered
  <2> HIDE DEF k
  <2> QED BY <2>1 DEF MyCallOK
<1> QED BY <1>1 DEF MY!Add

LEMMA MyFreed ==
  ASSUME NEW c, NEW p, MyPageOK(p)
  PROVE  MyPageOK(MY!Freed(c, p))
<1>1. MyPageOK([p EXCEPT !.busy = None])
  BY DEF MyPageOK, MyPageType
<1>2. MyPageOK([p EXCEPT !.booking = FALSE])
  BY DEF MyPageOK, MyPageType
<1> QED BY <1>1, <1>2 DEF MY!Freed

\* The server's rows are rows.
LEMMA MyRows == ASSUME MyInv PROVE \A s \in Booked : myServer.row[s] \in MY!Row
BY DEF MyInv

\* Drawing the page keeps it a page, whether it is drawn or not.
LEMMA MyDrawn ==
  ASSUME MyInv, NEW p, MyPageOK(p)
  PROVE  MyPageOK(MY!Drawn(p))
<1> DEFINE h == IF p.asking = None THEN MY!Ended ELSE myServer.row[p.asking].hours
<1>1. p.asking \in Booked \cup {None}
  BY DEF MyPageOK, MyPageType
<1>2. \A s \in Booked : myServer.row[s].hours \in MY!Ended..MY!Over
  BY MyRows DEF MY!Row
<1>3. h \in MY!Ended..MY!Over
  BY <1>1, <1>2 DEF MY!Ended, MY!Over
<1>4. MY!Drawn(p) = [p EXCEPT !.drawn = h]
  BY DEF MY!Drawn
<1> HIDE DEF h
<1> QED BY <1>3, <1>4 DEF MyPageOK, MyPageType

LEMMA MyShows ==
  ASSUME MyInv, NEW p, MyPageOK(p), MY!Shows(p)
  PROVE  MyPageOK(myPage')
<1>1. MyPageOK(MY!Drawn(p))
  BY MyDrawn
<1> QED BY <1>1 DEF MY!Shows

LEMMA InitMyBookings == MY!MyBookingsAssumption /\ MY!Init => MyInv
<1> SUFFICES ASSUME MY!MyBookingsAssumption, MY!Init PROVE MyInv
  OBVIOUS
<1>1. myServer.row \in [Booked -> MY!Row] /\ DOMAIN myServer = {"row", "balance"}
  BY DEF MY!Init
<1>2. MyPageOK(myPage) /\ (myPage.at = "list" \/ myPage.sid \in Booked)
  <2>1. MyPageOK(MY!Blank) /\ MY!Blank.at = "list"
    BY DEF MY!Blank, MyPageOK, MyPageType, MY!Ended, MY!Over
  <2>2. ASSUME NEW s \in Booked
        PROVE  LET p == [MY!Blank EXCEPT !.at = "session", !.sid = s] IN MyPageOK(p) /\ p.sid = s
    BY <2>1 DEF MyPageOK, MyPageType
  <2>3. myPage = MY!Blank
          \/ \E s \in Booked : myPage = [MY!Blank EXCEPT !.at = "session", !.sid = s]
    BY DEF MY!Init
  <2> QED BY <2>1, <2>2, <2>3
<1>3. \A c \in myCalls : MyCallOK(c)
  <2>1. CASE myPage.at = "list"
    <3>1. MyCallOK(MY!Call("load", None, "show"))
      BY NewMyCall
    <3> QED BY <2>1, <3>1, MyAdding DEF MY!Init
  <2>2. CASE myPage.at # "list"
    <3>1. myPage.sid \in Booked
      BY <1>2, <2>2
    <3>2. MyCallOK(MY!Call("read", myPage.sid, "show"))
      BY <3>1, NewMyCall
    <3> QED BY <2>2, <3>2, MyAdding DEF MY!Init
  <2> QED BY <2>1, <2>2
<1> QED BY <1>1, <1>2, <1>3 DEF MyInv

\* Cancelling and booking: what is told comes from the copy on the page.
LEMMA StepLearner ==
  ASSUME MY!MyBookingsAssumption, MyInv, MY!Ask \/ MY!KeepIt \/ MY!Cancel \/ MY!Book \/ MY!Refresh
  PROVE  MyInv'
<1>0. MyPageOK(myPage) /\ \A c \in myCalls : MyCallOK(c)
  BY DEF MyInv
<1>1. CASE MY!Ask
  <2>1. PICK c \in MY!Cards : MY!Shows([myPage EXCEPT !.asking = c.s])
    BY <1>1 DEF MY!Ask
  <2>2. c.s \in Booked
    BY <1>0, <2>1 DEF MY!Cards, MyPageOK, MyPageType, HeldCopy, MY!Copy
  <2>3. MyPageOK([myPage EXCEPT !.asking = c.s])
    BY <1>0, <2>2 DEF MyPageOK, MyPageType
  <2>4. MyPageOK(myPage')
    BY <2>1, <2>3, MyShows
  <2> QED BY <1>1, <2>4 DEF MY!Ask, MyInv, MyCallOK
<1>2. CASE MY!KeepIt
  <2>1. MyPageOK([myPage EXCEPT !.asking = None])
    BY <1>0 DEF MyPageOK, MyPageType
  <2>2. MyPageOK(myPage')
    BY <1>2, <2>1, MyShows DEF MY!KeepIt
  <2> QED BY <1>2, <2>2 DEF MY!KeepIt, MyInv, MyCallOK
<1>3. CASE MY!Cancel
  <2>0. PICK c \in MY!Open :
          /\ MY!Shows([myPage EXCEPT !.busy = c.s, !.error = FALSE])
          /\ myCalls' = MY!Add(myCalls, [MY!Call("cancel", c.s, "cancel") EXCEPT
                                          !.told = MY!CancelTells(c.row),
                                          !.row = [c.row EXCEPT !.hours = myPage.drawn]])
    BY <1>3 DEF MY!Cancel
  <2> DEFINE r == [c.row EXCEPT !.hours = myPage.drawn]
             d == [MY!Call("cancel", c.s, "cancel") EXCEPT !.told = MY!CancelTells(c.row), !.row = r]
  <2>1. myCalls' = MY!Add(myCalls, d) /\ myServer' = myServer
    BY <1>3, <2>0 DEF MY!Cancel
  <2>2. c \in HeldCopy
    BY <1>0 DEF MY!Open, MY!Cards, MyPageOK, MyPageType
  <2>3. c.s \in Booked /\ c.row \in MY!Row /\ MY!Held(c.row) /\ myPage.drawn \in MY!Ended..MY!Over
    BY <1>0, <2>2 DEF HeldCopy, MY!Copy, MyPageOK, MyPageType
  <2>4. /\ r \in MY!Row /\ MY!Held(r) /\ r.spent = c.row.spent /\ r.hours = myPage.drawn
    BY <2>3 DEF MY!Row, MY!Held
  <2>5. MY!CancelTells(c.row) = ToldOff(r)
    BY <2>4 DEF MY!CancelTells, MY!Refunded, ToldOff
  <2>6. MyPageOK([myPage EXCEPT !.busy = c.s, !.error = FALSE])
    BY <1>0, <2>3 DEF MyPageOK, MyPageType
  <2>7. MyPageOK(myPage')
    BY <2>0, <2>6, MyShows
  <2> HIDE DEF r
  <2>8. MyCallOK(d)
    BY <2>3, <2>4, <2>5 DEF MyCallOK, MY!Call, MY!MyBookingsAssumption
  <2>9. \A e \in myCalls' : MyCallOK(e)
    <3> HIDE DEF d
    <3> QED BY <1>0, <2>1, <2>8, MyAdding
  <2> QED BY <2>1, <2>7, <2>9 DEF MyInv, MyCallOK
<1>4. CASE MY!Book
  <2>0. myServer' = myServer
    BY <1>4 DEF MY!Book
  <2>1. CASE myPage' = [myPage EXCEPT !.at = "gone"] /\ myCalls' = myCalls
    <3>1. MyPageOK(myPage')
      BY <1>0, <2>1 DEF MyPageOK, MyPageType
    <3> QED BY <2>0, <2>1, <3>1 DEF MyInv, MyCallOK
  <2> DEFINE s == myPage.sid
             r == myPage.row
             d == [MY!Call("book", s, "book") EXCEPT !.told = -MY!Cost, !.row = r]
  <2>2. CASE myPage' = [myPage EXCEPT !.booking = TRUE, !.error = FALSE]
          /\ myCalls' = MY!Add(myCalls, d)
    <3>1. myPage.row \in MY!Row /\ s \in Booked
      BY <1>0, <1>4 DEF MY!Book, MY!CanBook, MyPageOK, MyPageType
    <3>2. r \in MY!Row /\ ToldOn(r) = -MY!Cost
      BY <3>1 DEF MY!Row, ToldOn, MY!Cost
    <3> HIDE DEF r, s
    <3>3. MyCallOK(d)
      BY <3>1, <3>2 DEF MyCallOK, MY!Call, MY!MyBookingsAssumption
    <3>4. \A e \in myCalls' : MyCallOK(e)
      <4> HIDE DEF d
      <4> QED BY <1>0, <2>2, <3>3, MyAdding
    <3>5. MyPageOK(myPage')
      BY <1>0, <2>2 DEF MyPageOK, MyPageType
    <3> QED BY <2>0, <3>4, <3>5 DEF MyInv, MyCallOK
  <2> QED BY <1>4, <2>1, <2>2 DEF MY!Book
<1>5. CASE MY!Refresh
  <2>1. myCalls' = MY!Add(myCalls, MY!Call("me", None, "none")) /\ UNCHANGED <<myServer, myPage>>
    BY <1>5 DEF MY!Refresh
  <2>2. MyCallOK(MY!Call("me", None, "none"))
    BY NewMyCall
  <2>3. \A e \in myCalls' : MyCallOK(e)
    BY <1>0, <2>1, <2>2, MyAdding
  <2> QED BY <2>1, <2>3 DEF MyInv, MyCallOK
<1> QED BY <1>1, <1>2, <1>3, <1>4, <1>5

(***************************************************************************)
(* The server                                                              *)
(***************************************************************************)

\* An answer in the place of its question, to the same learner.
LEMMA Answering ==
  ASSUME MyInv, NEW c \in myCalls, NEW d, MyCallOK(d), NEW s, MY!Told(c, d, s),
         s.row \in [Booked -> MY!Row], DOMAIN s = {"row", "balance"}
  PROVE  MyInv'
BY DEF MyInv, MY!Told, MyCallOK

LEMMA StepMyServer ==
  ASSUME MY!MyBookingsAssumption, MyInv,
         NEW c \in myCalls, MY!Answer(c) \/ MY!Fail(c)
  PROVE  MyInv'
<1>0. /\ MyCallOK(c) /\ myServer.row \in [Booked -> MY!Row] /\ DOMAIN myServer = {"row", "balance"}
      /\ None # "ok"
  BY DEF MyInv, MY!MyBookingsAssumption
<1>1. CASE MY!AnswerLoad(c)
  <2> DEFINE ahead == MY!Copies({s \in MY!Listed : myServer.row[s].hours > MY!Ended})
             d == [c EXCEPT !.ans = "ok", !.ahead = ahead]
  <2>1. c.op = "load" /\ MY!Told(c, d, myServer)
    BY <1>1 DEF MY!AnswerLoad
  <2>2. ahead \subseteq HeldCopy
    BY MyRows DEF MY!Copies, MY!Listed, HeldCopy, MY!Copy
  <2> HIDE DEF ahead
  <2>3. MyCallOK(d)
    BY <1>0, <2>1, <2>2 DEF MyCallOK
  <2> HIDE DEF d
  <2> QED BY <1>0, <2>1, <2>3, Answering
<1>2. CASE MY!AnswerRead(c)
  <2> DEFINE d == [c EXCEPT !.ans = "ok", !.row = myServer.row[c.s]]
  <2>1. c.op = "read" /\ MY!Told(c, d, myServer)
    BY <1>2 DEF MY!AnswerRead
  <2>2. myServer.row[c.s] \in MY!Row
    BY <1>0, <2>1 DEF MyCallOK
  <2>3. MyCallOK(d)
    BY <1>0, <2>1, <2>2 DEF MyCallOK
  <2> HIDE DEF d
  <2> QED BY <1>0, <2>1, <2>3, Answering
<1>3. CASE MY!AnswerMe(c)
  <2> DEFINE d == [c EXCEPT !.ans = "ok", !.delta = myServer.balance]
  <2>1. c.op \in {"me", "balance"} /\ MY!Told(c, d, myServer)
    BY <1>3 DEF MY!AnswerMe
  <2>2. MyCallOK(d)
    BY <1>0, <2>1 DEF MyCallOK
  <2> HIDE DEF d
  <2> QED BY <1>0, <2>1, <2>2, Answering
<1>4. CASE MY!AnswerCancel(c)
  <2> DEFINE r == myServer.row[c.s]
             back == IF MY!RefundDue(r) THEN r.spent ELSE 0
             d == [c EXCEPT !.ans = "ok", !.delta = back, !.moved = MY!PlaceMoved(c, r)]
             e == [c EXCEPT !.ans = "ok", !.moved = MY!PlaceMoved(c, r)]
             s == [myServer EXCEPT !.row[c.s].status = "cancelled", !.balance = @ + back]
  <2>1. c.op = "cancel" /\ \/ MY!Held(r) /\ MY!Told(c, d, s)
                           \/ ~MY!Held(r) /\ MY!Told(c, e, myServer)
    BY <1>4 DEF MY!AnswerCancel
  <2>2. c.s \in Booked /\ r \in MY!Row /\ c.row \in MY!Row /\ MY!Held(c.row)
          /\ c.told = ToldOff(c.row)
    BY <1>0, <2>1, MyRows DEF MyCallOK
  <2>3. CASE ~MY!Held(r) /\ MY!Told(c, e, myServer)
    <3> DEFINE moved == MY!PlaceMoved(c, r)
    <3>1. r.status # c.row.status
      BY <2>2, <2>3 DEF MY!Held
    <3>2. moved = TRUE
      BY <3>1 DEF MY!PlaceMoved
    <3> HIDE DEF r, moved
    <3>3. MyCallOK(e)
      BY <1>0, <2>1, <2>2, <3>2 DEF MyCallOK, moved
    <3> HIDE DEF e
    <3> QED BY <1>0, <2>3, <3>3, Answering
  <2>4. CASE MY!Held(r) /\ MY!Told(c, d, s)
    <3> DEFINE moved == MY!PlaceMoved(c, r)
    <3>0. moved \in BOOLEAN
      BY DEF MY!PlaceMoved
    <3>1. ~moved => back >= c.told
      BY <2>2, RowNumbers DEF MY!PlaceMoved, MY!RefundDue, ToldOff, MY!Cutoff
    <3>2. s.row \in [Booked -> MY!Row] /\ DOMAIN s = {"row", "balance"}
      BY <1>0, <2>2 DEF MY!Row
    <3> HIDE DEF r, back, s, moved
    <3>3. MyCallOK(d)
      BY <1>0, <2>1, <2>2, <3>0, <3>1 DEF MyCallOK, moved
    <3> HIDE DEF d
    <3> QED BY <2>4, <3>2, <3>3, Answering
  <2> QED BY <2>1, <2>3, <2>4
<1>5. CASE MY!AnswerBook(c)
  <2> DEFINE r == myServer.row[c.s]
             no == [c EXCEPT !.ans = "refused"]
             short == [c EXCEPT !.ans = "insufficient"]
             d == [c EXCEPT !.ans = "ok", !.moved = MY!OfferMoved(c, r)]
             e == [c EXCEPT !.ans = "ok", !.delta = -r.price, !.moved = MY!OfferMoved(c, r)]
             s == [myServer EXCEPT !.row[c.s] = [r EXCEPT !.status = "waitlisted", !.spent = 0]]
             t == [myServer EXCEPT !.row[c.s] = [r EXCEPT !.status = "confirmed", !.spent = r.price],
                                   !.balance = @ - r.price]
  <2>1. c.op = "book" /\ c.ans = None /\
        \/ MY!Told(c, no, myServer)
        \/ MY!Told(c, short, myServer)
        \/ MY!Told(c, d, s)
        \/ ~r.full /\ MY!Told(c, e, t)
    BY <1>5 DEF MY!AnswerBook
  <2>2. c.s \in Booked /\ r \in MY!Row /\ c.row \in MY!Row /\ c.told = ToldOn(c.row) /\ c.delta = 0
    BY <1>0, <2>1, MyRows DEF MyCallOK
  <2>3. CASE MY!Told(c, no, myServer)
    <3>1. MyCallOK(no)
      BY <1>0, <2>1, <2>2 DEF MyCallOK
    <3> HIDE DEF no
    <3> QED BY <1>0, <2>3, <3>1, Answering
  <2>4. CASE MY!Told(c, short, myServer)
    <3>1. MyCallOK(short)
      BY <1>0, <2>1, <2>2 DEF MyCallOK
    <3> HIDE DEF short
    <3> QED BY <1>0, <2>4, <3>1, Answering
  <2>5. CASE MY!Told(c, d, s)
    <3>1. c.delta >= c.told
      BY <2>2, RowNumbers
    <3>2. s.row \in [Booked -> MY!Row] /\ DOMAIN s = {"row", "balance"}
      BY <1>0, <2>2 DEF MY!Row
    <3> HIDE DEF r, s
    <3>3. MyCallOK(d)
      BY <1>0, <2>1, <2>2, <3>1 DEF MyCallOK
    <3> HIDE DEF d
    <3> QED BY <2>5, <3>2, <3>3, Answering
  <2>6. CASE ~r.full /\ MY!Told(c, e, t)
    <3>1. ~MY!OfferMoved(c, r) => -r.price >= c.told
      BY <2>2, <2>6, RowNumbers DEF ToldOn, MY!OfferMoved
    <3>2. t.row \in [Booked -> MY!Row] /\ DOMAIN t = {"row", "balance"}
      BY <1>0, <2>2 DEF MY!Row
    <3> HIDE DEF r, t
    <3>3. MyCallOK(e)
      BY <1>0, <2>1, <2>2, <3>1 DEF MyCallOK
    <3> HIDE DEF e
    <3> QED BY <2>6, <3>2, <3>3, Answering
  <2> QED BY <2>1, <2>3, <2>4, <2>5, <2>6
<1>6. CASE MY!Fail(c)
  <2> DEFINE d == [c EXCEPT !.ans = "error"]
  <2>1. myCalls' = (myCalls \ {c}) \cup {d} /\ UNCHANGED <<myServer, myPage>>
    BY <1>6 DEF MY!Fail
  <2>2. MyCallOK(d)
    BY <1>0 DEF MyCallOK, MY!MyBookingsAssumption
  <2> HIDE DEF d
  <2> QED BY <2>1, <2>2 DEF MyInv, MyCallOK
<1> QED BY <1>1, <1>2, <1>3, <1>4, <1>5, <1>6 DEF MY!Answer

LEMMA StepOthers ==
  ASSUME MY!MyBookingsAssumption, MyInv, NEW s \in Booked,
         MY!SeatMoves(s) \/ MY!Reprice(s) \/ MY!CallOff(s) \/ MY!Hours(s)
  PROVE  MyInv'
<1> DEFINE r == myServer.row[s]
<1>0. r \in MY!Row /\ myServer.row \in [Booked -> MY!Row] /\ DOMAIN myServer = {"row", "balance"}
  BY MyRows DEF MyInv
<1>e. ASSUME NEW t, MY!Elsewhere(t), t.row \in [Booked -> MY!Row], DOMAIN t = {"row", "balance"}
      PROVE  MyInv'
  BY <1>e DEF MY!Elsewhere, MyInv, MyCallOK
<1>1. CASE MY!SeatMoves(s)
  <2> DEFINE t == [myServer EXCEPT !.row[s] = [r EXCEPT !.status = "confirmed", !.spent = r.price],
                                   !.balance = @ - r.price]
             u == [myServer EXCEPT !.row[s].full = ~@]
  <2>1. MY!Elsewhere(t) \/ MY!Elsewhere(u)
    BY <1>1 DEF MY!SeatMoves
  <2>2. t.row \in [Booked -> MY!Row] /\ DOMAIN t = {"row", "balance"}
    BY <1>0 DEF MY!Row
  <2>3. u.row \in [Booked -> MY!Row] /\ DOMAIN u = {"row", "balance"}
    BY <1>0 DEF MY!Row
  <2> HIDE DEF t, u
  <2> QED BY <1>e, <2>1, <2>2, <2>3
<1>2. CASE MY!Reprice(s)
  <2>1. PICK p \in Prices : MY!Elsewhere([myServer EXCEPT !.row[s].price = p])
    BY <1>2 DEF MY!Reprice
  <2> DEFINE t == [myServer EXCEPT !.row[s].price = p]
  <2>2. t.row \in [Booked -> MY!Row] /\ DOMAIN t = {"row", "balance"}
    BY <1>0 DEF MY!Row
  <2> HIDE DEF t
  <2> QED BY <1>e, <2>1, <2>2 DEF t
<1>3. CASE MY!CallOff(s)
  <2> DEFINE st == IF MY!Held(r) THEN "cancelled" ELSE r.status
             b == IF MY!Held(r) THEN myServer.balance + r.spent ELSE myServer.balance
             t == [myServer EXCEPT !.row[s] = [r EXCEPT !.open = FALSE, !.status = st], !.balance = b]
             u == [myServer EXCEPT !.row[s].open = FALSE,
                                   !.row[s].status = IF MY!Held(r) THEN "cancelled" ELSE @,
                                   !.balance = IF MY!Held(r) THEN @ + r.spent ELSE @]
  <2>1. MY!Elsewhere(u)
    BY <1>3 DEF MY!CallOff
  <2>2. u.row \in [Booked -> MY!Row] /\ DOMAIN u = {"row", "balance"}
    <3>1. CASE MY!Held(r)
      <4>1. u.row = [myServer.row EXCEPT ![s] = [r EXCEPT !.open = FALSE, !.status = "cancelled"]]
            /\ DOMAIN u = {"row", "balance"}
        BY <1>0, <3>1
      <4>2. [r EXCEPT !.open = FALSE, !.status = "cancelled"] \in MY!Row
        BY <1>0 DEF MY!Row
      <4> QED BY <1>0, <4>1, <4>2
    <3>2. CASE ~MY!Held(r)
      <4>1. u.row = [myServer.row EXCEPT ![s] = [r EXCEPT !.open = FALSE]]
            /\ DOMAIN u = {"row", "balance"}
        BY <1>0, <3>2, ZenonT(40) DEF MY!Row
      <4>2. [r EXCEPT !.open = FALSE] \in MY!Row
        BY <1>0 DEF MY!Row
      <4> QED BY <1>0, <4>1, <4>2
    <3> QED BY <3>1, <3>2
  <2> HIDE DEF u
  <2> QED BY <1>e, <2>1, <2>2
<1>4. CASE MY!Hours(s)
  <2>1. PICK h \in MY!Ended..(r.hours - 1) : MY!Elsewhere([myServer EXCEPT !.row[s].hours = h])
    BY <1>4 DEF MY!Hours
  <2> DEFINE t == [myServer EXCEPT !.row[s].hours = h]
  <2>2. r.hours \in MY!Ended..MY!Over
    BY <1>0 DEF MY!Row
  <2>3. h \in MY!Ended..MY!Over
    BY <2>1, <2>2 DEF MY!Ended, MY!Over
  <2>4. t.row \in [Booked -> MY!Row] /\ DOMAIN t = {"row", "balance"}
    BY <1>0, <2>3 DEF MY!Row
  <2>5. MY!Elsewhere(t)
    BY <2>1
  <2> HIDE DEF t
  <2> QED BY <1>e, <2>4, <2>5
<1> QED BY <1>1, <1>2, <1>3, <1>4

(***************************************************************************)
(* The handlers                                                            *)
(***************************************************************************)
LEMMA StepMyApply ==
  ASSUME MY!MyBookingsAssumption, MyInv, NEW c \in myCalls, MY!Apply(c)
  PROVE  MyInv'
<1>0. MyCallOK(c) /\ MyPageOK(myPage) /\ \A d \in myCalls \ {c} : MyCallOK(d)
  BY DEF MyInv
<1>d. ASSUME myServer' = myServer, MyPageOK(myPage'), \A d \in myCalls' : MyCallOK(d)
      PROVE  MyInv'
  BY <1>d DEF MyInv, MyCallOK
<1>a. ASSUME NEW op \in {"load", "me"}, NEW s \in Booked \cup {None}, NEW goal,
             goal = "book" => s \in Booked, NEW cs, \A d \in cs : MyCallOK(d)
      PROVE  \A d \in MY!Add(cs, MY!Call(op, s, goal)) : MyCallOK(d)
  <2>1. MyCallOK(MY!Call(op, s, goal))
    BY <1>a, NewMyCall
  <2> QED BY <1>a, <2>1, MyAdding
<1>r. ASSUME c.op \in {"cancel", "book"}
      PROVE  \A d \in MY!Add(myCalls \ {c}, MY!Call("read", c.s, "book")) : MyCallOK(d)
  <2>1. c.s \in Booked
    BY <1>0, <1>r DEF MyCallOK
  <2>2. MyCallOK(MY!Call("read", c.s, "book"))
    BY <2>1, NewMyCall
  <2> QED BY <1>0, <2>2, MyAdding
<1>1. CASE MY!ApplyLoad(c)
  <2> DEFINE p == [myPage EXCEPT !.loading = FALSE, !.error = TRUE]
             q == [myPage EXCEPT !.loading = FALSE, !.error = FALSE, !.ahead = c.ahead]
  <2>1. /\ MY!Shows(MY!Freed(c, p)) \/ myPage' = MY!Drawn(MY!Freed(c, q))
        /\ myCalls' = myCalls \ {c} /\ myServer' = myServer
    BY <1>1 DEF MY!ApplyLoad
  <2>2. MyPageOK(p) /\ MyPageOK(q)
    BY <1>0 DEF MyPageOK, MyPageType, MyCallOK
  <2> HIDE DEF p, q
  <2>3. MyPageOK(MY!Freed(c, p)) /\ MyPageOK(MY!Freed(c, q))
    BY <2>2, MyFreed
  <2>4. MyPageOK(myPage')
    BY <2>1, <2>3, MyShows, MyDrawn
  <2> QED BY <1>0, <1>d, <2>1, <2>4
<1>2. CASE MY!ApplyRead(c)
  <2> DEFINE p == [myPage EXCEPT !.loading = FALSE, !.error = TRUE]
             q == [myPage EXCEPT !.loading = FALSE, !.row = c.row]
  <2>1. /\ myPage' = MY!Freed(c, p) \/ myPage' = MY!Freed(c, q)
        /\ myCalls' = myCalls \ {c} /\ myServer' = myServer
    BY <1>2 DEF MY!ApplyRead
  <2>2. MyPageOK(p) /\ MyPageOK(q)
    BY <1>0 DEF MyPageOK, MyPageType, MyCallOK
  <2> HIDE DEF p, q
  <2> QED BY <1>0, <1>d, <2>1, <2>2, MyFreed
<1>3. CASE MY!ApplyMe(c)
  <2> DEFINE d == [c EXCEPT !.op = "balance", !.ans = None]
             cs == (myCalls \ {c}) \cup {d}
  <2>1. /\ myCalls' = MY!Add(cs, MY!Call("load", None, "show")) \/ myCalls' = cs
        /\ myServer' = myServer /\ myPage' = MY!Drawn(myPage)
    BY <1>3 DEF MY!ApplyMe
  <2>2. MyCallOK(d)
    BY <1>0 DEF MyCallOK
  <2> HIDE DEF d
  <2>3. \A e \in cs : MyCallOK(e)
    BY <1>0, <2>2
  <2> HIDE DEF cs
  <2>4. MyPageOK(myPage')
    BY <1>0, <2>1, MyDrawn
  <2> QED BY <1>0, <1>a, <1>d, <2>1, <2>3, <2>4
<1>t. ASSUME c.op \in {"me", "balance"}
      PROVE  \A d \in MY!Then(c) : MyCallOK(d)
  <2>1. CASE c.goal = "book"
    <3>1. MY!Then(c) = MY!Add(myCalls \ {c}, MY!Call("read", c.s, "book"))
      BY <2>1 DEF MY!Then
    <3>2. c.s \in Booked
      BY <1>0, <2>1 DEF MyCallOK
    <3>3. MyCallOK(MY!Call("read", c.s, "book"))
      BY <3>2, NewMyCall
    <3> QED BY <1>0, <3>1, <3>3, MyAdding
  <2> QED BY <1>0, <2>1 DEF MY!Then
<1>4. CASE MY!ApplyBalance(c)
  <2> DEFINE p == IF c.goal = "book" THEN myPage ELSE MY!Freed(c, myPage)
  <2>1. MyPageOK(p)
    BY <1>0, MyFreed
  <2>2. MY!Shows(p) \/ myPage' = MY!Drawn(p)
    BY <1>4 DEF MY!ApplyBalance
  <2> HIDE DEF p
  <2>3. MyPageOK(myPage')
    BY <2>1, <2>2, MyShows, MyDrawn
  <2> QED BY <1>4, <1>d, <1>t, <2>3 DEF MY!ApplyBalance
<1>5. CASE MY!SignedOut(c)
  <2> DEFINE there == IF myPage.at = "list" THEN [myPage EXCEPT !.at = "gone"] ELSE myPage
  <2>1. myPage' = there \/ myPage' = MY!Freed(c, there)
    BY <1>5 DEF MY!SignedOut
  <2>2. MyPageOK(there)
    BY <1>0 DEF MyPageOK, MyPageType
  <2> HIDE DEF there
  <2> QED BY <1>5, <1>d, <1>t, <2>1, <2>2, MyFreed DEF MY!SignedOut
<1>6. CASE MY!ApplyCancel(c)
  <2>1. myServer' = myServer
    BY <1>6 DEF MY!ApplyCancel
  <2>2. CASE /\ MY!Shows([myPage EXCEPT !.asking = None])
             /\ myCalls' = MY!Add(MY!Add(myCalls \ {c}, MY!Call("load", c.s, "cancel")), MY!Call("me", c.s, "cancel"))
    <3>0. MyPageOK([myPage EXCEPT !.asking = None])
      BY <1>0 DEF MyPageOK, MyPageType
    <3>1. MyPageOK(myPage') /\ c.s \in Booked \cup {None}
      BY <1>0, <2>2, <3>0, MyShows DEF MyCallOK
    <3>2. \A d \in MY!Add(myCalls \ {c}, MY!Call("load", c.s, "cancel")) : MyCallOK(d)
      BY <1>0, <1>a, <3>1
    <3>3. \A d \in myCalls' : MyCallOK(d)
      BY <1>a, <2>2, <3>1, <3>2
    <3> QED BY <1>d, <2>1, <3>1, <3>3
  <2>3. CASE MY!Shows([myPage EXCEPT !.error = TRUE, !.busy = None]) /\ myCalls' = myCalls \ {c}
    <3>0. MyPageOK([myPage EXCEPT !.error = TRUE, !.busy = None])
      BY <1>0 DEF MyPageOK, MyPageType
    <3>1. MyPageOK(myPage')
      BY <2>3, <3>0, MyShows
    <3> QED BY <1>0, <1>d, <2>1, <2>3, <3>1
  <2> QED BY <1>6, <2>2, <2>3 DEF MY!ApplyCancel
<1>7. CASE MY!ApplyBook(c)
  <2>1. /\ myServer' = myServer /\ c.op = "book"
        /\ \/ myPage' = myPage
           \/ myPage' = [myPage EXCEPT !.at = "gone", !.booking = FALSE]
           \/ myPage' = [myPage EXCEPT !.error = TRUE]
        /\ \/ myCalls' = MY!Add(myCalls \ {c}, MY!Call("me", c.s, "book"))
           \/ myCalls' = myCalls \ {c}
           \/ myCalls' = MY!Add(myCalls \ {c}, MY!Call("read", c.s, "book"))
    BY <1>7 DEF MY!ApplyBook
  <2>2. MyPageOK(myPage')
    BY <1>0, <2>1 DEF MyPageOK, MyPageType
  <2>3. c.s \in Booked
    BY <1>0, <2>1 DEF MyCallOK
  <2>4. \A d \in myCalls' : MyCallOK(d)
    BY <1>0, <1>a, <1>r, <2>1, <2>3
  <2> QED BY <1>d, <2>1, <2>2, <2>4
<1> QED BY <1>1, <1>2, <1>3, <1>4, <1>5, <1>6, <1>7 DEF MY!Apply

(***************************************************************************)
(* Desk                                                                    *)
(***************************************************************************)

DeskPage == {"kind", "filter", "of", "rows", "seen", "loading", "error", "busy", "timer",
             "finalizing", "polls", "pause", "gone", "alone"}
DeskCall == {"op", "row", "filter", "n", "turn", "ans", "rows", "seen"}

\* Requests never overlapped: the one under way, if it has been answered, saw
\* all that was taken, and asks under the filter there is, or there is none,
\* or a read is still to come.
Apart(c) ==
  /\ c.ans \notin {None, "error"} => c.seen = deServer.taken
  /\ c.filter = dePage.filter \/ dePage.filter = None \/ dePage.timer
Quiet == deCalls = {} /\ ~dePage.timer /\ ~dePage.pause /\ ~dePage.gone /\ ~dePage.error
  /\ dePage.filter # None
Current == dePage.of = dePage.filter /\ dePage.seen = deServer.taken
AloneInv ==
  dePage.alone => /\ \A c, d \in deCalls : c = d
                  /\ \A c \in deCalls : Apart(c)
                  /\ Quiet => Current

\* Where every button waits, they never do: a request under way keeps a lock.
Locked == (dePage.loading /\ dePage.kind # "credits") \/ dePage.busy # {}
KindInv ==
  /\ dePage.kind \in DE!OneAtATime => dePage.alone /\ \A c \in deCalls : Locked
  /\ dePage.timer => dePage.kind = "learners"
  /\ dePage.pause => dePage.kind = "transcript"
  /\ \A c \in deCalls : c.op \in {"finalize", "poll"} => dePage.kind = "transcript"
DeskInv ==
  /\ DOMAIN dePage = DeskPage /\ DOMAIN deServer = {"on", "taken"}
  /\ \A c \in deCalls : DOMAIN c = DeskCall
  /\ AloneInv /\ KindInv

LEMMA NewDeskCall ==
  ASSUME NEW op, NEW row, NEW filter
  PROVE  LET c == DE!Call(op, row, filter)
         IN  DOMAIN c = DeskCall /\ c.op = op /\ c.filter = filter /\ c.ans = None
BY DEF DE!Call, DeskCall

\* A call is added as it is but for its number.
LEMMA Added ==
  ASSUME NEW cs, NEW c, DOMAIN c = DeskCall
  PROVE  \E d : /\ DE!Add(cs, c) = cs \cup {d}
                /\ DOMAIN d = DeskCall /\ d.op = c.op /\ d.filter = c.filter /\ d.ans = c.ans
<1> DEFINE k == CHOOSE n \in 1..(DE!Cardinality(cs) + 1) : \A d \in cs : d.n # n
           d == [c EXCEPT !.n = k]
<1>1. DE!Add(cs, c) = cs \cup {d}
  BY DEF DE!Add
<1> HIDE DEF k
<1>2. DOMAIN d = DeskCall /\ d.op = c.op /\ d.filter = c.filter /\ d.ans = c.ans
  BY DEF DeskCall
<1> HIDE DEF d
<1> QED BY <1>1, <1>2

LEMMA InitDesk == DE!DeskAssumption /\ DE!Init => DeskInv
<1> SUFFICES ASSUME DE!DeskAssumption, DE!Init PROVE DeskInv
  OBVIOUS
<1>1. PICK kind \in DE!Kinds : /\ dePage = DE!Opened(kind)
                               /\ deCalls = IF dePage.loading THEN DE!Add({}, DE!Load(None, dePage.filter)) ELSE {}
  BY DEF DE!Init
<1>2. /\ DOMAIN dePage = DeskPage /\ dePage.kind = kind /\ dePage.alone /\ ~dePage.pause
      /\ dePage.timer = (kind = "learners") /\ dePage.seen = 0 /\ dePage.busy = {}
      /\ dePage.loading = (kind \notin DE!Forms \cup {"learners", "roster"})
      /\ dePage.filter = IF kind = "roster" THEN None ELSE First
      /\ dePage.of = IF kind \in DE!Forms THEN First ELSE None
  BY <1>1 DEF DE!Opened, DeskPage
<1>3. DOMAIN deServer = {"on", "taken"} /\ deServer.taken = 0
  BY DEF DE!Init
<1>4. PICK d : /\ DE!Add({}, DE!Load(None, dePage.filter)) = {} \cup {d}
               /\ DOMAIN d = DeskCall /\ d.op = "load" /\ d.filter = dePage.filter /\ d.ans = None
  BY NewDeskCall, Added DEF DE!Load
<1>5. CASE dePage.loading
  <2>1. deCalls = {d}
    BY <1>1, <1>4, <1>5
  <2>2. AloneInv
    BY <1>4, <2>1 DEF AloneInv, Apart, Quiet
  <2>3. kind # "credits"
    BY <1>2, <1>5 DEF DE!Forms
  <2>4. KindInv
    BY <1>2, <1>4, <1>5, <2>1, <2>3 DEF KindInv, Locked
  <2> QED BY <1>2, <1>3, <1>4, <2>1, <2>2, <2>4 DEF DeskInv
<1>6. CASE ~dePage.loading
  <2>1. deCalls = {}
    BY <1>1, <1>6
  <2>2. kind \in DE!Forms \cup {"learners", "roster"}
    BY <1>2, <1>6
  <2>3. AloneInv
    BY <1>2, <1>3, <2>1, <2>2 DEF AloneInv, Quiet, Current, DE!Forms
  <2>4. KindInv
    BY <1>2, <2>1 DEF KindInv
  <2> QED BY <1>2, <1>3, <2>1, <2>3, <2>4 DEF DeskInv
<1> QED BY <1>5, <1>6

\* A request made by the page: it is alone only if nothing else was under way.
LEMMA DeskSending ==
  ASSUME DeskInv, NEW op, NEW row, NEW filter, NEW c, DOMAIN c = DeskCall,
         c.op = op, c.filter = filter, c.ans = None,
         deCalls' = DE!Add(deCalls, c), deServer' = deServer,
         DOMAIN dePage' = DeskPage, dePage'.alone = DE!Alone, dePage'.kind = dePage.kind,
         filter = dePage'.filter,
         dePage'.timer => dePage.timer, dePage'.pause => dePage.pause,
         op \in {"finalize", "poll"} => dePage.kind = "transcript",
         dePage.kind \in DE!OneAtATime => deCalls = {} /\ dePage'.busy # {}
  PROVE  DeskInv'
<1>1. PICK d : /\ deCalls' = deCalls \cup {d}
               /\ DOMAIN d = DeskCall /\ d.op = op /\ d.filter = filter /\ d.ans = None
  BY Added
<1>2. AloneInv'
  <2> SUFFICES ASSUME dePage'.alone PROVE AloneInv'
    BY DEF AloneInv
  <2>1. deCalls' = {d}
    BY <1>1 DEF DE!Alone
  <2> QED BY <1>1, <2>1 DEF AloneInv, Apart, Quiet
<1>3. dePage.kind \in DE!OneAtATime => dePage'.alone
  BY DEF DE!Alone, DeskInv, KindInv
<1>4. KindInv'
  BY <1>1, <1>3 DEF DeskInv, KindInv, Locked
<1> QED BY <1>1, <1>2, <1>4 DEF DeskInv

LEMMA StepPerson ==
  ASSUME DE!DeskAssumption, DeskInv,
         \/ DE!ChooseFilter \/ DE!HideRoster \/ DE!Type \/ DE!Debounced \/ DE!Refresh
              \/ DE!Finalize \/ DE!Poll
         \/ \E r \in Rows : DE!Press(r)
  PROVE  DeskInv'
<1>0. /\ DOMAIN dePage = DeskPage /\ DOMAIN deServer = {"on", "taken"}
      /\ (\A c \in deCalls : DOMAIN c = DeskCall) /\ AloneInv /\ KindInv
  BY DEF DeskInv
<1>k. /\ DE!OneAtATime = {"settings", "credits", "learner", "calendar"}
      /\ DE!Filtered = {"sessions", "messages", "analytics", "learners", "roster"}
  BY DEF DE!OneAtATime, DE!Filtered
<1>1. CASE DE!ChooseFilter
  <2>1. PICK f \in Filters : /\ dePage' = DE!Read([dePage EXCEPT !.filter = f])
                             /\ deCalls' = DE!Add(deCalls, DE!Load(None, f))
    BY <1>1 DEF DE!ChooseFilter
  <2>2. /\ DOMAIN dePage' = DeskPage /\ dePage'.alone = DE!Alone /\ dePage'.kind = dePage.kind
        /\ dePage'.filter = f /\ dePage'.timer = dePage.timer /\ dePage'.pause = dePage.pause
    BY <1>0, <2>1 DEF DE!Read, DeskPage
  <2>3. deServer' = deServer /\ dePage.kind \notin DE!OneAtATime
    BY <1>1, <1>k DEF DE!ChooseFilter
  <2>4. LET c == DE!Load(None, f) IN DOMAIN c = DeskCall /\ c.op = "load" /\ c.filter = f
          /\ c.ans = None
    BY NewDeskCall DEF DE!Load
  <2> QED BY <2>1, <2>2, <2>3, <2>4, DeskSending
<1>2. CASE DE!HideRoster
  <2>1. dePage' = [dePage EXCEPT !.filter = None, !.of = None] /\ UNCHANGED <<deServer, deCalls>>
    BY <1>2 DEF DE!HideRoster
  <2>2. /\ DOMAIN dePage' = DeskPage /\ dePage'.alone = dePage.alone /\ dePage'.kind = dePage.kind
        /\ dePage'.filter = None /\ dePage'.timer = dePage.timer /\ dePage'.pause = dePage.pause
        /\ dePage'.loading = dePage.loading /\ dePage'.busy = dePage.busy
    BY <1>0, <2>1 DEF DeskPage
  <2> QED BY <1>0, <2>1, <2>2 DEF DeskInv, AloneInv, KindInv, Apart, Quiet, Locked
<1>3. CASE DE!Type
  <2>1. PICK f : dePage' = [dePage EXCEPT !.filter = f, !.timer = TRUE]
    BY <1>3 DEF DE!Type
  <2>2. /\ DOMAIN dePage' = DeskPage /\ dePage'.alone = dePage.alone /\ dePage'.kind = dePage.kind
        /\ dePage'.timer /\ dePage'.pause = dePage.pause
    BY <1>0, <2>1 DEF DeskPage
  <2>3. dePage.kind = "learners" /\ UNCHANGED <<deServer, deCalls>>
    BY <1>3 DEF DE!Type
  <2> QED BY <1>0, <1>k, <2>2, <2>3 DEF DeskInv, AloneInv, KindInv, Apart, Quiet
<1>4. CASE DE!Debounced
  <2>1. dePage' = DE!Read([dePage EXCEPT !.timer = FALSE])
          /\ deCalls' = DE!Add(deCalls, DE!Load(None, dePage.filter))
    BY <1>4 DEF DE!Debounced
  <2>2. /\ DOMAIN dePage' = DeskPage /\ dePage'.alone = DE!Alone /\ dePage'.kind = dePage.kind
        /\ dePage'.filter = dePage.filter /\ ~dePage'.timer /\ dePage'.pause = dePage.pause
    BY <1>0, <2>1 DEF DE!Read, DeskPage
  <2>3. deServer' = deServer /\ dePage.kind \notin DE!OneAtATime
    BY <1>0, <1>4, <1>k DEF DE!Debounced, KindInv
  <2>4. LET c == DE!Load(None, dePage.filter)
        IN  DOMAIN c = DeskCall /\ c.op = "load" /\ c.filter = dePage.filter /\ c.ans = None
    BY NewDeskCall DEF DE!Load
  <2> QED BY <2>1, <2>2, <2>3, <2>4, DeskSending
<1>5. CASE DE!Refresh
  <2>1. dePage' = DE!Read(dePage) /\ deCalls' = DE!Add(deCalls, DE!Load(None, dePage.filter))
    BY <1>5 DEF DE!Refresh
  <2>2. /\ DOMAIN dePage' = DeskPage /\ dePage'.alone = DE!Alone /\ dePage'.kind = dePage.kind
        /\ dePage'.filter = dePage.filter /\ dePage'.timer = dePage.timer
             /\ dePage'.pause = dePage.pause
    BY <1>0, <2>1 DEF DE!Read, DeskPage
  <2>3. deServer' = deServer /\ dePage.kind \notin DE!OneAtATime
    BY <1>5, <1>k DEF DE!Refresh
  <2>4. LET c == DE!Load(None, dePage.filter)
        IN  DOMAIN c = DeskCall /\ c.op = "load" /\ c.filter = dePage.filter /\ c.ans = None
    BY NewDeskCall DEF DE!Load
  <2> QED BY <2>1, <2>2, <2>3, <2>4, DeskSending
<1>6. CASE DE!Finalize
  <2>1. /\ dePage' = [dePage EXCEPT !.finalizing = TRUE, !.polls = 0, !.error = FALSE, !.alone = DE!Alone]
        /\ deCalls' = DE!Add(deCalls, DE!Call("finalize", None, dePage.filter))
        /\ deServer' = deServer /\ dePage.kind = "transcript"
    BY <1>6 DEF DE!Finalize
  <2>2. /\ DOMAIN dePage' = DeskPage /\ dePage'.alone = DE!Alone /\ dePage'.kind = dePage.kind
        /\ dePage'.filter = dePage.filter /\ dePage'.timer = dePage.timer
             /\ dePage'.pause = dePage.pause
    BY <1>0, <2>1 DEF DeskPage
  <2>3. LET c == DE!Call("finalize", None, dePage.filter)
        IN  DOMAIN c = DeskCall /\ c.op = "finalize" /\ c.filter = dePage.filter /\ c.ans = None
    BY NewDeskCall
  <2> QED BY <1>k, <2>1, <2>2, <2>3, DeskSending
<1>7. CASE DE!Poll
  <2>1. /\ dePage' = [dePage EXCEPT !.pause = FALSE, !.polls = @ + 1, !.alone = DE!Alone]
        /\ deCalls' = DE!Add(deCalls, DE!Call("poll", None, dePage.filter))
        /\ deServer' = deServer /\ dePage.kind = "transcript"
    BY <1>0, <1>7 DEF DE!Poll, KindInv
  <2>2. /\ DOMAIN dePage' = DeskPage /\ dePage'.alone = DE!Alone /\ dePage'.kind = dePage.kind
        /\ dePage'.filter = dePage.filter /\ dePage'.timer = dePage.timer /\ ~dePage'.pause
    BY <1>0, <2>1 DEF DeskPage
  <2>3. LET c == DE!Call("poll", None, dePage.filter)
        IN  DOMAIN c = DeskCall /\ c.op = "poll" /\ c.filter = dePage.filter /\ c.ans = None
    BY NewDeskCall
  <2> QED BY <1>k, <2>1, <2>2, <2>3, DeskSending
<1>8. ASSUME NEW r \in Rows, DE!Press(r) PROVE DeskInv'
  <2> DEFINE error == dePage.error /\ \/ dePage.kind \notin DE!PressClears
                                      \/ dePage.kind = "calendar" /\ r \in dePage.rows
             c == [DE!Call("act", r, dePage.filter) EXCEPT !.turn = r \notin dePage.rows]
  <2>1. /\ dePage' = [dePage EXCEPT !.busy = DE!Holding(r), !.alone = DE!Alone, !.error = error]
        /\ deCalls' = DE!Add(deCalls, c) /\ deServer' = deServer
    BY <1>0, <1>8 DEF DE!Press, DeskPage
  <2>2. /\ DOMAIN dePage' = DeskPage /\ dePage'.alone = DE!Alone /\ dePage'.kind = dePage.kind
        /\ dePage'.filter = dePage.filter /\ dePage'.timer = dePage.timer
             /\ dePage'.pause = dePage.pause
        /\ dePage'.busy = DE!Holding(r)
    BY <1>0, <2>1 DEF DeskPage
  <2>3. dePage.kind \in DE!OneAtATime => deCalls = {} /\ DE!Holding(r) # {}
    <3> SUFFICES ASSUME dePage.kind \in DE!OneAtATime PROVE deCalls = {} /\ DE!Holding(r) # {}
      OBVIOUS
    <3>1. dePage.busy = {} /\ (dePage.kind = "credits" \/ ~dePage.loading)
      BY <1>8, <1>k DEF DE!Press, DE!Offered, DE!SettingsButton, DE!CreditsButton,
                        DE!LearnerButton, DE!CalendarButton
    <3>2. ~Locked
      BY <3>1 DEF Locked
    <3>3. deCalls = {}
      BY <1>0, <3>2 DEF KindInv
    <3> QED BY <3>3 DEF DE!Holding
  <2>4. DOMAIN c = DeskCall /\ c.op = "act" /\ c.filter = dePage.filter /\ c.ans = None
    BY NewDeskCall DEF DeskCall
  <2> HIDE DEF c
  <2> QED BY <2>1, <2>2, <2>3, <2>4, DeskSending
<1> QED BY <1>1, <1>2, <1>3, <1>4, <1>5, <1>6, <1>7, <1>8

\* An answer in the place of its question.
LEMMA DeskReplaced ==
  ASSUME DeskInv, NEW c \in deCalls, NEW d, DOMAIN d = DeskCall, d.op = c.op, d.filter = c.filter,
         deCalls' = (deCalls \ {c}) \cup {d}, dePage' = dePage, DOMAIN deServer' = {"on", "taken"},
         \/ d.ans = "error" /\ deServer'.taken = deServer.taken
         \/ d.seen = deServer'.taken
  PROVE  DeskInv'
<1>1. AloneInv'
  <2> SUFFICES ASSUME dePage.alone PROVE AloneInv'
    BY DEF AloneInv
  <2>1. deCalls' = {d} /\ Apart(c)
    BY DEF DeskInv, AloneInv
  <2>2. Apart(d)'
    BY <2>1 DEF Apart
  <2> QED BY <2>1, <2>2 DEF AloneInv, Quiet
<1>2. KindInv'
  BY DEF DeskInv, KindInv, Locked
<1> QED BY <1>1, <1>2 DEF DeskInv

LEMMA StepDeskServer ==
  ASSUME DE!DeskAssumption, DeskInv, DE!OthersAct \/ \E c \in deCalls : DE!Answer(c) \/ DE!Fail(c)
  PROVE  DeskInv'
<1>0. DOMAIN deServer = {"on", "taken"} /\ \A c \in deCalls : DOMAIN c = DeskCall
  BY DEF DeskInv
<1>1. CASE DE!OthersAct
  <2>1. UNCHANGED <<dePage, deCalls>> /\ DOMAIN deServer' = {"on", "taken"}
          /\ deServer'.taken = deServer.taken
    BY <1>0, <1>1 DEF DE!OthersAct
  <2> QED BY <2>1 DEF DeskInv, AloneInv, KindInv, Apart, Quiet, Current, Locked
<1>2. ASSUME NEW c \in deCalls, DE!AnswerRead(c) PROVE DeskInv'
  <2> DEFINE d == [c EXCEPT !.ans = "ok", !.rows = deServer.on, !.seen = deServer.taken]
  <2>1. deCalls' = (deCalls \ {c}) \cup {d} /\ UNCHANGED <<deServer, dePage>>
    BY <1>2 DEF DE!AnswerRead
  <2>2. DOMAIN d = DeskCall /\ d.op = c.op /\ d.filter = c.filter /\ d.seen = deServer.taken
    BY <1>0 DEF DeskCall
  <2> HIDE DEF d
  <2> QED BY <1>0, <2>1, <2>2, DeskReplaced
<1>3. ASSUME NEW c \in deCalls, DE!AnswerAct(c) PROVE DeskInv'
  <2> DEFINE d == [c EXCEPT !.ans = "ok", !.rows = deServer'.on, !.seen = deServer'.taken]
  <2>1. deCalls' = (deCalls \ {c}) \cup {d} /\ dePage' = dePage
          /\ DOMAIN deServer' = {"on", "taken"}
    BY <1>3 DEF DE!AnswerAct
  <2>2. DOMAIN d = DeskCall /\ d.op = c.op /\ d.filter = c.filter /\ d.seen = deServer'.taken
    BY <1>0 DEF DeskCall
  <2> HIDE DEF d
  <2> QED BY <2>1, <2>2, DeskReplaced
<1>4. ASSUME NEW c \in deCalls, DE!Fail(c) PROVE DeskInv'
  <2> DEFINE d == [c EXCEPT !.ans = "error"]
  <2>1. deCalls' = (deCalls \ {c}) \cup {d} /\ UNCHANGED <<deServer, dePage>>
    BY <1>4 DEF DE!Fail
  <2>2. DOMAIN d = DeskCall /\ d.op = c.op /\ d.filter = c.filter /\ d.ans = "error"
    BY <1>0 DEF DeskCall
  <2> HIDE DEF d
  <2> QED BY <1>0, <2>1, <2>2, DeskReplaced
<1> QED BY <1>1, <1>2, <1>3, <1>4 DEF DE!Answer

(***************************************************************************)
(* The handlers                                                            *)
(***************************************************************************)

\* An answer applied, and nothing asked: alone, nothing is under way any more,
\* and there is an error, or a pause, or the page is gone, or the rows of the
\* answer are on screen.
LEMMA DeskApplied ==
  ASSUME DeskInv, NEW c \in deCalls, c.ans # None, deCalls' = deCalls \ {c}, deServer' = deServer,
         DOMAIN dePage' = DeskPage, dePage'.kind = dePage.kind, dePage'.alone = dePage.alone,
         dePage'.filter = dePage.filter, dePage'.timer = dePage.timer,
         dePage'.pause => dePage.pause \/ c.op \in {"finalize", "poll"},
         \/ dePage'.error \/ dePage'.pause \/ dePage'.gone
         \/ c.ans # "error" /\ dePage'.of = c.filter /\ dePage'.seen = c.seen
  PROVE  DeskInv'
<1>1. AloneInv'
  <2> SUFFICES ASSUME dePage.alone PROVE AloneInv'
    BY DEF AloneInv
  <2>1. deCalls' = {} /\ Apart(c)
    BY DEF DeskInv, AloneInv
  <2>2. Quiet' => Current'
    BY <2>1 DEF Apart, Quiet, Current
  <2> QED BY <2>1, <2>2 DEF AloneInv
<1>2. dePage.kind \in DE!OneAtATime => deCalls' = {}
  BY DEF DeskInv, AloneInv, KindInv
<1>3. KindInv'
  BY <1>2 DEF DeskInv, KindInv
<1> QED BY <1>1, <1>3 DEF DeskInv

LEMMA FreedOf ==
  ASSUME NEW p, DOMAIN p = DeskPage, NEW r
  PROVE  LET q == DE!Freed(p, r)
         IN  /\ DOMAIN q = DeskPage /\ q.kind = p.kind /\ q.alone = p.alone /\ q.filter = p.filter
             /\ q.timer = p.timer /\ q.pause = p.pause /\ q.error = p.error /\ q.gone = p.gone
             /\ q.of = p.of /\ q.seen = p.seen
<1> DEFINE busy == IF p.kind \in {"instructors", "new"} THEN p.busy \ {r} ELSE {}
<1>1. DE!Freed(p, r) = p \/ DE!Freed(p, r) = [p EXCEPT !.busy = busy]
  BY DEF DE!Freed
<1> HIDE DEF busy
<1> QED BY <1>1 DEF DeskPage

LEMMA ShowingOf ==
  ASSUME NEW p, DOMAIN p = DeskPage, NEW c
  PROVE  LET q == DE!Showing(p, c)
         IN  /\ DOMAIN q = DeskPage /\ q.kind = p.kind /\ q.alone = p.alone /\ q.filter = p.filter
             /\ q.timer = p.timer /\ q.pause = p.pause /\ q.error = p.error /\ q.gone = p.gone
             /\ q.of = c.filter /\ q.seen = c.seen
BY DEF DE!Showing, DeskPage

LEMMA StepDeskApply ==
  ASSUME DE!DeskAssumption, DeskInv, NEW c \in deCalls, DE!Apply(c)
  PROVE  DeskInv'
<1>0. /\ DOMAIN dePage = DeskPage /\ DOMAIN deServer = {"on", "taken"}
      /\ (\A d \in deCalls : DOMAIN d = DeskCall) /\ AloneInv /\ KindInv
  BY DEF DeskInv
<1>1. CASE DE!ApplyLoad(c)
  <2> DEFINE p == [dePage EXCEPT !.error = TRUE, !.loading = FALSE]
             shown == DE!Showing(dePage, c)
             error == dePage.error /\ dePage.kind \notin DE!LoadClears
             q == [shown EXCEPT !.error = error, !.loading = FALSE]
  <2>1. DOMAIN p = DeskPage /\ p.kind = dePage.kind /\ p.alone = dePage.alone
          /\ p.filter = dePage.filter
        /\ p.timer = dePage.timer /\ p.pause = dePage.pause /\ p.error
    BY <1>0 DEF DeskPage
  <2>2. /\ DOMAIN shown = DeskPage /\ shown.kind = dePage.kind /\ shown.alone = dePage.alone
        /\ shown.filter = dePage.filter /\ shown.timer = dePage.timer /\ shown.pause = dePage.pause
        /\ shown.error = dePage.error /\ shown.of = c.filter /\ shown.seen = c.seen
    BY <1>0, ShowingOf
  <2> HIDE DEF p, shown, error
  <2>3. /\ DOMAIN q = DeskPage /\ q.kind = dePage.kind /\ q.alone = dePage.alone
             /\ q.filter = dePage.filter
        /\ q.timer = dePage.timer /\ q.pause = dePage.pause /\ q.of = c.filter /\ q.seen = c.seen
    BY <2>2 DEF DeskPage
  <2>4. /\ c.ans # None /\ deCalls' = deCalls \ {c} /\ deServer' = deServer
        /\ \/ dePage' = DE!Freed(p, c.row)
           \/ c.ans # "error" /\ dePage' = DE!Freed(q, c.row)
    <3>1. q = [shown EXCEPT !.error = @ /\ dePage.kind \notin DE!LoadClears, !.loading = FALSE]
      BY <2>2 DEF error, DeskPage
    <3> QED BY <1>1, <3>1 DEF DE!ApplyLoad, p, shown
  <2> HIDE DEF q
  <2>5. CASE dePage' = DE!Freed(p, c.row)
    <3>1. /\ DOMAIN dePage' = DeskPage /\ dePage'.kind = dePage.kind /\ dePage'.alone = dePage.alone
          /\ dePage'.filter = dePage.filter /\ dePage'.timer = dePage.timer
               /\ dePage'.pause = dePage.pause
          /\ dePage'.error
      BY <2>1, <2>5, FreedOf
    <3> QED BY <2>4, <3>1, DeskApplied
  <2>6. CASE c.ans # "error" /\ dePage' = DE!Freed(q, c.row)
    <3>1. /\ DOMAIN dePage' = DeskPage /\ dePage'.kind = dePage.kind /\ dePage'.alone = dePage.alone
          /\ dePage'.filter = dePage.filter /\ dePage'.timer = dePage.timer
               /\ dePage'.pause = dePage.pause
          /\ dePage'.of = c.filter /\ dePage'.seen = c.seen
      BY <2>3, <2>6, FreedOf
    <3> QED BY <2>4, <2>6, <3>1, DeskApplied
  <2> QED BY <2>4, <2>5, <2>6
<1>2. CASE DE!ApplyAct(c)
  <2> DEFINE again == c.ans = "ok" /\ dePage.kind \notin DE!AnswersItself \cup {"new"}
             spin == dePage.kind \in {"sessions", "messages"}
             loading == dePage.loading \/ spin
             p == [dePage EXCEPT !.error = TRUE]
             more == [dePage EXCEPT !.loading = loading]
             away == [dePage EXCEPT !.gone = TRUE]
             shown == DE!Showing(dePage, c)
  <2>0. c.op = "act" /\ c.ans # None /\ deServer' = deServer
    BY <1>2 DEF DE!ApplyAct
  <2>a. /\ DOMAIN p = DeskPage /\ p.kind = dePage.kind /\ p.alone = dePage.alone
             /\ p.filter = dePage.filter
        /\ p.timer = dePage.timer /\ p.pause = dePage.pause /\ p.error
    BY <1>0 DEF DeskPage
  <2>b. /\ DOMAIN away = DeskPage /\ away.kind = dePage.kind /\ away.alone = dePage.alone
        /\ away.filter = dePage.filter /\ away.timer = dePage.timer /\ away.pause = dePage.pause
             /\ away.gone
    BY <1>0 DEF DeskPage
  <2>1. CASE deCalls' = deCalls \ {c} /\ dePage' = DE!Freed(p, c.row)
    <3> HIDE DEF p
    <3>1. /\ DOMAIN dePage' = DeskPage /\ dePage'.kind = dePage.kind /\ dePage'.alone = dePage.alone
          /\ dePage'.filter = dePage.filter /\ dePage'.timer = dePage.timer
               /\ dePage'.pause = dePage.pause
          /\ dePage'.error
      BY <2>1, <2>a, FreedOf
    <3> QED BY <2>0, <2>1, <3>1, DeskApplied
  <2>2. CASE deCalls' = deCalls \ {c} /\ dePage' = away
    BY <2>0, <2>2, <2>b, DeskApplied
  <2>3. CASE c.ans # "error" /\ deCalls' = deCalls \ {c} /\ dePage' = DE!Freed(shown, c.row)
    <3>1. /\ DOMAIN dePage' = DeskPage /\ dePage'.kind = dePage.kind /\ dePage'.alone = dePage.alone
          /\ dePage'.filter = dePage.filter /\ dePage'.timer = dePage.timer
               /\ dePage'.pause = dePage.pause
          /\ dePage'.of = c.filter /\ dePage'.seen = c.seen
      BY <1>0, <2>3, ShowingOf, FreedOf
    <3> QED BY <2>0, <2>3, <3>1, DeskApplied
  <2>4. CASE deCalls' = DE!Add(deCalls \ {c}, DE!Load(c.row, c.filter)) /\ dePage' = more
    <3> HIDE DEF loading
    <3>1. /\ DOMAIN dePage' = DeskPage /\ dePage'.kind = dePage.kind /\ dePage'.alone = dePage.alone
          /\ dePage'.filter = dePage.filter /\ dePage'.timer = dePage.timer
               /\ dePage'.pause = dePage.pause
          /\ dePage'.loading = loading /\ dePage'.busy = dePage.busy
      BY <1>0, <2>4 DEF DeskPage
    <3>2. PICK d : /\ deCalls' = (deCalls \ {c}) \cup {d}
                   /\ DOMAIN d = DeskCall /\ d.op = "load" /\ d.filter = c.filter /\ d.ans = None
      BY <2>4, NewDeskCall, Added DEF DE!Load
    <3>3. AloneInv'
      <4> SUFFICES ASSUME dePage.alone PROVE AloneInv'
        BY <3>1 DEF AloneInv
      <4>1. deCalls' = {d} /\ Apart(c)
        BY <1>0, <3>2 DEF AloneInv
      <4> QED BY <3>1, <3>2, <4>1 DEF AloneInv, Apart, Quiet
    <3>4. dePage.kind \in DE!OneAtATime => Locked'
      BY <1>0, <3>1 DEF KindInv, Locked, loading
    <3>5. KindInv'
      BY <1>0, <3>1, <3>2, <3>4 DEF KindInv
    <3> QED BY <1>0, <2>0, <3>1, <3>2, <3>3, <3>5 DEF DeskInv
  <2>5. \/ deCalls' = deCalls \ {c} /\ dePage' = DE!Freed(p, c.row)
        \/ deCalls' = deCalls \ {c} /\ dePage' = away
        \/ c.ans # "error" /\ deCalls' = deCalls \ {c} /\ dePage' = DE!Freed(shown, c.row)
        \/ deCalls' = DE!Add(deCalls \ {c}, DE!Load(c.row, c.filter)) /\ dePage' = more
    BY <1>0, <1>2 DEF DE!ApplyAct, DeskPage
  <2> QED BY <2>1, <2>2, <2>3, <2>4, <2>5
<1>3. CASE DE!ApplyFinalize(c)
  <2> DEFINE p == IF c.ans = "error" THEN [dePage EXCEPT !.error = TRUE]
                  ELSE IF c.op = "poll" THEN DE!Showing(dePage, c) ELSE dePage
             done == c.op = "poll" /\ c.ans = "ok" /\ c.rows = DE!Published
  <2>1. /\ c.op \in {"finalize", "poll"} /\ c.ans # None
        /\ deCalls' = deCalls \ {c} /\ deServer' = deServer
        /\ \/ /\ done \/ (c.op = "finalize" /\ c.ans = "error")
              /\ dePage' = [p EXCEPT !.finalizing = FALSE]
           \/ dePage' = [p EXCEPT !.finalizing = FALSE, !.error = TRUE]
           \/ dePage' = [p EXCEPT !.pause = TRUE]
    BY <1>3 DEF DE!ApplyFinalize
  <2>2. /\ DOMAIN p = DeskPage /\ p.kind = dePage.kind /\ p.alone = dePage.alone
             /\ p.filter = dePage.filter
        /\ p.timer = dePage.timer /\ p.pause = dePage.pause
        /\ c.ans = "error" => p.error
        /\ done /\ c.ans # "error" => p.of = c.filter /\ p.seen = c.seen
    <3>1. CASE c.ans = "error"
      BY <1>0, <3>1 DEF DeskPage
    <3>2. CASE c.ans # "error" /\ c.op = "poll"
      BY <1>0, <3>2, ShowingOf
    <3>3. CASE c.ans # "error" /\ c.op # "poll"
      BY <1>0, <3>3
    <3> QED BY <3>1, <3>2, <3>3
  <2> HIDE DEF p
  <2>3. CASE done \/ (c.op = "finalize" /\ c.ans = "error")
    <3>1. CASE dePage' = [p EXCEPT !.finalizing = FALSE]
      <4>1. /\ DOMAIN dePage' = DeskPage /\ dePage'.kind = dePage.kind
                 /\ dePage'.alone = dePage.alone
            /\ dePage'.filter = dePage.filter /\ dePage'.timer = dePage.timer
                 /\ dePage'.pause = dePage.pause
            /\ dePage'.error = p.error /\ dePage'.of = p.of /\ dePage'.seen = p.seen
        BY <2>2, <3>1 DEF DeskPage
      <4>2. dePage'.error \/ (c.ans # "error" /\ dePage'.of = c.filter /\ dePage'.seen = c.seen)
        BY <2>2, <2>3, <4>1
      <4> QED BY <2>1, <4>1, <4>2, DeskApplied
    <3>2. CASE \/ dePage' = [p EXCEPT !.finalizing = FALSE, !.error = TRUE]
               \/ dePage' = [p EXCEPT !.pause = TRUE]
      <4>1. /\ DOMAIN dePage' = DeskPage /\ dePage'.kind = dePage.kind
                 /\ dePage'.alone = dePage.alone
            /\ dePage'.filter = dePage.filter /\ dePage'.timer = dePage.timer
            /\ dePage'.error \/ dePage'.pause
        BY <2>2, <3>2 DEF DeskPage
      <4> QED BY <2>1, <4>1, DeskApplied
    <3> QED BY <2>1, <3>1, <3>2
  <2>4. CASE \/ dePage' = [p EXCEPT !.finalizing = FALSE, !.error = TRUE]
             \/ dePage' = [p EXCEPT !.pause = TRUE]
    <3>1. /\ DOMAIN dePage' = DeskPage /\ dePage'.kind = dePage.kind /\ dePage'.alone = dePage.alone
          /\ dePage'.filter = dePage.filter /\ dePage'.timer = dePage.timer
          /\ dePage'.error \/ dePage'.pause
      BY <2>2, <2>4 DEF DeskPage
    <3> QED BY <2>1, <3>1, DeskApplied
  <2> QED BY <2>1, <2>3, <2>4
<1> QED BY <1>1, <1>2, <1>3 DEF DE!Apply

(***************************************************************************)
(* Calendar                                                                *)
(***************************************************************************)

\* Whole answers: all of the month asked for that was open, from today on.
Whole(c) ==
  \A t \in c.all :
    CA!MonthOf(CA!DateKey(t, c.zone)) = c.view
      /\ CA!DateKey(t, BookingZone) >= CA!Today(BookingZone) => t \in c.times
CalCallOK(c) ==
  /\ DOMAIN c = {"zone", "view", "n", "live", "ans", "times", "all"}
  /\ c.zone \in Zones /\ c.view \in Int
  /\ c.live => c.zone = caPage.zone /\ c.view = caPage.view
  /\ c.ans \in {"none", "ok", "error"}
  /\ c.ans = "ok" => Whole(c)
CalPage == {"zone", "view", "today", "byDate", "date", "slot", "loading", "error", "read", "all", "gone"}
CalInv ==
  /\ caOpen \subseteq Times
  /\ DOMAIN caPage = CalPage /\ caPage.zone \in Zones /\ caPage.view \in Int
  /\ \A c \in caCalls : CalCallOK(c)
  /\ CA!MonthIsWhole

\* A reader is less than a day from the booking zone.
LEMMA DayApart ==
  ASSUME CA!CalendarAssumption, NEW t \in Int, NEW zone \in Zones
  PROVE  /\ CA!DateKey(t, zone) \in Int /\ CA!DateKey(t, BookingZone) \in Int
         /\ CA!DateKey(t, zone) - 1 <= CA!DateKey(t, BookingZone)
         /\ CA!DateKey(t, BookingZone) <= CA!DateKey(t, zone) + 1
<1>1. Offset[BookingZone] = 0 /\ Offset[zone] \in (1 - DayLen)..(DayLen - 1) /\ DayLen \in Nat \ {0}
  BY DEF CA!CalendarAssumption
<1>2. ASSUME NEW o \in (1 - DayLen)..(DayLen - 1)
      PROVE  /\ (t + o) \div DayLen \in Int /\ t \div DayLen \in Int
             /\ (t + o) \div DayLen - 1 <= t \div DayLen
             /\ t \div DayLen <= (t + o) \div DayLen + 1
  BY <1>1
<1>3. t + 0 = t
  OBVIOUS
<1> QED BY <1>1, <1>2, <1>3 DEF CA!DateKey

\* The days of a month.
LEMMA InMonth ==
  ASSUME CA!CalendarAssumption, NEW d \in Int, NEW m \in Int, CA!MonthOf(d) = m
  PROVE  CA!FirstDay(m) \in Int /\ CA!FirstDay(m) <= d /\ d < CA!FirstDay(m) + MonthLen
BY DEF CA!CalendarAssumption, CA!MonthOf, CA!FirstDay

\* The request covers the month wherever the reader is.
LEMMA Covered ==
  ASSUME CA!CalendarAssumption, NEW t \in caOpen, caOpen \subseteq Times, NEW zone \in Zones, NEW m \in Int,
         CA!MonthOf(CA!DateKey(t, zone)) = m, CA!DateKey(t, BookingZone) >= CA!Today(BookingZone)
  PROVE  t \in CA!Availability(CA!From(m), CA!Days)
<1> DEFINE d == CA!DateKey(t, zone)
           b == CA!DateKey(t, BookingZone)
           today == CA!Today(BookingZone)
<1>0. t \in Times
  OBVIOUS
<1>1. t \in Int /\ Now \in Int /\ BookingZone \in Zones /\ MonthLen \in Nat
  <2>1. Times \subseteq Int /\ {MonthLen, Now} \subseteq Nat /\ BookingZone \in Zones
    BY DEF CA!CalendarAssumption
  <2> QED BY ONLY <1>0, <2>1
<1>2. d \in Int /\ b \in Int /\ d - 1 <= b /\ b <= d + 1
  BY <1>1, DayApart
<1>3. today \in Int
  BY <1>1, DayApart DEF CA!Today
<1>4. CA!FirstDay(m) \in Int /\ CA!FirstDay(m) <= d /\ d < CA!FirstDay(m) + MonthLen
  BY <1>2, InMonth
<1> HIDE DEF d, b, today
<1>5. b >= today
  BY DEF b, today
<1> DEFINE first == IF CA!From(m) < today THEN today ELSE CA!From(m)
<1>6. b \in first..(first + CA!Days - 1)
  BY <1>1, <1>2, <1>3, <1>4, <1>5 DEF CA!From, CA!Days
<1> QED BY <1>6 DEF CA!Availability, b, today

\* A read begun: it is for what is on screen, and the ones before are called off.
LEMMA Began ==
  ASSUME CA!CalendarAssumption, NEW cs, NEW p, p.zone \in Zones, p.view \in Int,
         caPage'.zone = p.zone, caPage'.view = p.view,
         \A c \in cs : CalCallOK(c) /\ ~c.live, caCalls' = CA!Add(cs, CA!Call(p))
  PROVE  \A c \in caCalls' : CalCallOK(c)'
<1> DEFINE k == CHOOSE n \in 1..(CA!Cardinality(cs) + 1) : \A d \in cs : CA!Alike(CA!Call(p), d) => d.n # n
           new == [CA!Call(p) EXCEPT !.n = k]
<1>1. caCalls' = cs \cup {new}
  BY DEF CA!Add
<1> HIDE DEF k
<1>2. CalCallOK(new)'
  BY DEF CalCallOK, CA!Call
<1> HIDE DEF new
<1>3. \A c \in cs : CalCallOK(c)'
  BY DEF CalCallOK, Whole
<1> QED BY <1>1, <1>2, <1>3

LEMMA Reading ==
  ASSUME CA!CalendarAssumption, CalInv, NEW p, DOMAIN p = CalPage, p.zone \in Zones, p.view \in Int,
         CA!Load(p), caOpen' = caOpen
  PROVE  CalInv'
<1>1. caPage' = [p EXCEPT !.loading = TRUE, !.error = FALSE]
        /\ caCalls' = CA!Add(CA!Superseded(caCalls), CA!Call(p))
  BY DEF CA!Load
<1>2. DOMAIN caPage' = CalPage /\ caPage'.zone = p.zone /\ caPage'.view = p.view /\ caPage'.loading
  BY <1>1 DEF CalPage
<1>3. ASSUME NEW c \in CA!Superseded(caCalls) PROVE CalCallOK(c) /\ ~c.live
  <2>1. PICK d \in caCalls : c = [d EXCEPT !.live = FALSE]
    BY DEF CA!Superseded
  <2>2. CalCallOK(d)
    BY DEF CalInv
  <2> QED BY <2>1, <2>2 DEF CalCallOK, Whole
<1>4. \A c \in caCalls' : CalCallOK(c)'
  BY <1>1, <1>2, <1>3, Began
<1>5. CA!MonthIsWhole'
  BY <1>2 DEF CA!MonthIsWhole
<1> QED BY <1>2, <1>4, <1>5 DEF CalInv

LEMMA LandedOn ==
  ASSUME NEW p, DOMAIN p = CalPage
  PROVE  LET q == CA!Landed(p)
         IN  /\ DOMAIN q = CalPage /\ q.zone = p.zone /\ q.view = p.view /\ q.byDate = p.byDate
             /\ q.loading = p.loading /\ q.error = p.error /\ q.read = p.read /\ q.all = p.all
BY DEF CA!Landed, CalPage

LEMMA InitCalendar == CA!CalendarAssumption /\ CA!Init => CalInv
<1> SUFFICES ASSUME CA!CalendarAssumption, CA!Init PROVE CalInv
  OBVIOUS
<1> DEFINE shown == CA!MonthOf(CA!Today(BookingZone))
           month(zone) == IF shown < CA!MonthOf(CA!Today(zone)) THEN CA!MonthOf(CA!Today(zone)) ELSE shown
<1>1. PICK zone \in Zones :
        /\ caPage = [zone |-> zone, view |-> month(zone),
                     today |-> CA!Today(zone), byDate |-> [d \in {} |-> {}],
                     date |-> None, slot |-> None, loading |-> TRUE, error |-> FALSE,
                     read |-> [zone |-> zone, view |-> None], all |-> {}, gone |-> FALSE]
        /\ caCalls = CA!Add({}, CA!Call(caPage))
  BY DEF CA!Init
<1>2. caPage.view \in Int
  <2>1. Now \in Int /\ BookingZone \in Zones /\ MonthLen \in Nat \ {0}
    BY DEF CA!CalendarAssumption
  <2>2. CA!Today(BookingZone) \in Int /\ CA!Today(zone) \in Int
    BY <2>1, DayApart DEF CA!Today
  <2>3. month(zone) \in Int
    BY <2>1, <2>2 DEF CA!MonthOf
  <2> QED BY <1>1, <2>3
<1>3. DOMAIN caPage = CalPage /\ caPage.zone \in Zones /\ caPage.loading
  BY <1>1 DEF CalPage
<1>4. \A c \in caCalls : CalCallOK(c)
  <2> DEFINE k == CHOOSE n \in 1..(CA!Cardinality({}) + 1) : \A d \in {} : CA!Alike(CA!Call(caPage), d) => d.n # n
             new == [CA!Call(caPage) EXCEPT !.n = k]
  <2>1. caCalls = {} \cup {new}
    BY <1>1 DEF CA!Add
  <2> HIDE DEF k
  <2>2. CalCallOK(new)
    BY <1>2, <1>3 DEF CalCallOK, CA!Call
  <2> QED BY <2>1, <2>2
<1>5. caOpen \subseteq Times /\ CA!MonthIsWhole
  BY <1>3 DEF CA!Init, CA!MonthIsWhole
<1> QED BY <1>2, <1>3, <1>4, <1>5 DEF CalInv

\* What leaves the zone, the month and what was read alone.
LEMMA Looking ==
  ASSUME CalInv, NEW p, caPage' = p, DOMAIN p = CalPage, p.zone = caPage.zone, p.view = caPage.view,
         p.byDate = caPage.byDate, p.loading = caPage.loading, p.error = caPage.error,
         p.read = caPage.read, p.all = caPage.all, UNCHANGED <<caOpen, caCalls>>
  PROVE  CalInv'
BY DEF CalInv, CalCallOK, Whole, CA!MonthIsWhole

LEMMA StepReader ==
  ASSUME CA!CalendarAssumption, CalInv, CA!ChooseZone \/ CA!Turn \/ CA!Pick \/ CA!ChooseSlot
           \/ CA!Confirm
  PROVE  CalInv'
<1>0. DOMAIN caPage = CalPage /\ caPage.zone \in Zones /\ caPage.view \in Int
  BY DEF CalInv
<1>1. CASE CA!ChooseZone
  <2>1. PICK zone \in Zones :
          LET there == CA!MonthOf(CA!Today(zone)) IN
          CA!Load([caPage EXCEPT !.zone = zone, !.today = CA!Today(zone), !.slot = None,
                                 !.view = IF @ < there THEN there ELSE @])
    BY <1>1 DEF CA!ChooseZone
  <2> DEFINE there == CA!MonthOf(CA!Today(zone))
             view == IF caPage.view < there THEN there ELSE caPage.view
             p == [caPage EXCEPT !.zone = zone, !.today = CA!Today(zone), !.slot = None, !.view = view]
  <2>2. there \in Int
    <3>1. Now \in Int /\ MonthLen \in Nat \ {0}
      BY DEF CA!CalendarAssumption
    <3>2. CA!Today(zone) \in Int
      BY <3>1, DayApart DEF CA!Today
    <3> QED BY <3>1, <3>2 DEF CA!MonthOf
  <2>3. CA!Load(p)
    BY <1>0, <2>1 DEF CalPage
  <2>4. view \in Int
    BY <1>0, <2>2
  <2> HIDE DEF view
  <2>5. DOMAIN p = CalPage /\ p.zone \in Zones /\ p.view \in Int
    BY <1>0, <2>4 DEF CalPage
  <2> HIDE DEF p
  <2> QED BY <1>1, <2>3, <2>5, Reading DEF CA!ChooseZone
<1>2. CASE CA!Turn
  <2>1. PICK m \in {caPage.view - 1, caPage.view + 1} :
          LET p == [caPage EXCEPT !.view = m] IN CA!Load(IF caPage.loading THEN p ELSE CA!Landed(p))
    BY <1>2 DEF CA!Turn
  <2> DEFINE p == [caPage EXCEPT !.view = m]
             q == CA!Landed(p)
  <2>2. DOMAIN p = CalPage /\ p.zone \in Zones /\ p.view \in Int
    BY <1>0, <2>1 DEF CalPage
  <2>3. CA!Load(p) \/ CA!Load(q)
    BY <2>1
  <2> HIDE DEF p
  <2>4. DOMAIN q = CalPage /\ q.zone \in Zones /\ q.view \in Int
    BY <2>2, LandedOn
  <2> HIDE DEF q
  <2> QED BY <1>2, <2>2, <2>3, <2>4, Reading DEF CA!Turn
<1>3. CASE CA!Pick
  <2>1. PICK d : caPage' = [caPage EXCEPT !.date = d, !.slot = None]
          /\ UNCHANGED <<caOpen, caCalls>>
    BY <1>3 DEF CA!Pick
  <2> DEFINE p == [caPage EXCEPT !.date = d, !.slot = None]
  <2>2. /\ DOMAIN p = CalPage /\ p.zone = caPage.zone /\ p.view = caPage.view
        /\ p.byDate = caPage.byDate /\ p.loading = caPage.loading /\ p.error = caPage.error
        /\ p.read = caPage.read /\ p.all = caPage.all
    BY <1>0 DEF CalPage
  <2>3. caPage' = p /\ UNCHANGED <<caOpen, caCalls>>
    BY <2>1
  <2> HIDE DEF p
  <2> QED BY <2>2, <2>3, Looking
<1>4. CASE CA!ChooseSlot
  <2>1. PICK t : caPage' = [caPage EXCEPT !.slot = IF @ = t THEN None ELSE t]
          /\ UNCHANGED <<caOpen, caCalls>>
    BY <1>4 DEF CA!ChooseSlot
  <2> QED BY <1>0, <2>1, Looking DEF CalPage
<1>5. CASE CA!Confirm
  <2>1. caPage' = [caPage EXCEPT !.gone = TRUE] /\ UNCHANGED <<caOpen, caCalls>>
    BY <1>5 DEF CA!Confirm
  <2> QED BY <1>0, <2>1, Looking DEF CalPage
<1> QED BY <1>1, <1>2, <1>3, <1>4, <1>5

LEMMA StepSlots ==
  ASSUME CA!CalendarAssumption, CalInv, CA!OthersBook \/ \E c \in caCalls : CA!Answer(c)
           \/ CA!Fail(c) \/ CA!Apply(c)
  PROVE  CalInv'
<1>0. DOMAIN caPage = CalPage /\ caOpen \subseteq Times /\ CA!MonthIsWhole
        /\ \A c \in caCalls : CalCallOK(c)
  BY DEF CalInv
<1>r. ASSUME NEW c \in caCalls, NEW d, CalCallOK(d), caCalls' = (caCalls \ {c}) \cup {d},
             UNCHANGED <<caOpen, caPage>>
      PROVE  CalInv'
  BY <1>r DEF CalInv, CalCallOK, Whole, CA!MonthIsWhole
<1>1. CASE CA!OthersBook
  BY <1>1 DEF CA!OthersBook, CalInv, CalCallOK, Whole, CA!MonthIsWhole
<1>2. ASSUME NEW c \in caCalls, CA!Answer(c) PROVE CalInv'
  <2> DEFINE times == CA!Availability(CA!From(c.view), CA!Days)
             d == [c EXCEPT !.ans = "ok", !.all = caOpen, !.times = times]
  <2>1. caCalls' = (caCalls \ {c}) \cup {d} /\ UNCHANGED <<caOpen, caPage>>
    BY <1>2 DEF CA!Answer
  <2>2. CalCallOK(c)
    BY <1>0
  <2>3. \A t \in caOpen : CA!MonthOf(CA!DateKey(t, c.zone)) = c.view
                          /\ CA!DateKey(t, BookingZone) >= CA!Today(BookingZone) => t \in times
    BY <1>0, <2>2, Covered DEF CalCallOK
  <2> HIDE DEF times
  <2>4. CalCallOK(d)
    BY <2>2, <2>3 DEF CalCallOK, Whole
  <2> HIDE DEF d
  <2> QED BY <1>r, <2>1, <2>4
<1>3. ASSUME NEW c \in caCalls, CA!Fail(c) PROVE CalInv'
  <2> DEFINE d == [c EXCEPT !.ans = "error"]
  <2>1. caCalls' = (caCalls \ {c}) \cup {d} /\ UNCHANGED <<caOpen, caPage>>
    BY <1>3 DEF CA!Fail
  <2>2. CalCallOK(d)
    BY <1>0 DEF CalCallOK, Whole
  <2> HIDE DEF d
  <2> QED BY <1>r, <2>1, <2>2
<1>4. ASSUME NEW c \in caCalls, CA!Apply(c) PROVE CalInv'
  <2>0. caCalls' = caCalls \ {c} /\ caOpen' = caOpen /\ CalCallOK(c) /\ c.ans # "none"
    BY <1>0, <1>4 DEF CA!Apply
  <2>a. ASSUME DOMAIN caPage' = CalPage, caPage'.zone = caPage.zone, caPage'.view = caPage.view, CA!MonthIsWhole'
        PROVE  CalInv'
    BY <1>0, <2>0, <2>a DEF CalInv, CalCallOK, Whole
  <2> DEFINE p == [caPage EXCEPT !.error = TRUE, !.loading = FALSE]
             q == [caPage EXCEPT !.byDate = CA!Grouped(c.times, c.zone), !.loading = FALSE,
                                 !.read = [zone |-> c.zone, view |-> c.view], !.all = c.all]
  <2>1. CASE caPage' = caPage
    BY <1>0, <2>1, <2>a DEF CA!MonthIsWhole
  <2>2. CASE caPage' = CA!Landed(p)
    <3>1. DOMAIN p = CalPage /\ p.error /\ p.zone = caPage.zone /\ p.view = caPage.view
      BY <1>0 DEF CalPage
    <3> HIDE DEF p
    <3>2. DOMAIN caPage' = CalPage /\ caPage'.error /\ caPage'.zone = caPage.zone
            /\ caPage'.view = caPage.view
      BY <2>2, <3>1, LandedOn
    <3> QED BY <2>a, <3>2 DEF CA!MonthIsWhole
  <2>3. CASE c.live /\ c.ans = "ok" /\ caPage' = CA!Landed(q)
    <3>1. /\ DOMAIN q = CalPage /\ q.zone = caPage.zone /\ q.view = caPage.view
          /\ q.read = [zone |-> c.zone, view |-> c.view] /\ q.all = c.all
          /\ q.byDate = CA!Grouped(c.times, c.zone)
      BY <1>0 DEF CalPage
    <3> HIDE DEF q
    <3>2. /\ DOMAIN caPage' = CalPage /\ caPage'.zone = caPage.zone /\ caPage'.view = caPage.view
          /\ caPage'.read = [zone |-> c.zone, view |-> c.view] /\ caPage'.all = c.all
          /\ caPage'.byDate = CA!Grouped(c.times, c.zone)
      BY <2>3, <3>1, LandedOn
    <3>3. c.zone = caPage.zone /\ c.view = caPage.view /\ Whole(c)
      BY <2>0, <2>3 DEF CalCallOK
    <3>4. ASSUME NEW t \in c.times
          PROVE  LET d == CA!DateKey(t, c.zone) IN
                 d \in DOMAIN CA!Grouped(c.times, c.zone) /\ t \in CA!Grouped(c.times, c.zone)[d]
      BY DEF CA!Grouped
    <3>5. CA!MonthIsWhole'
      BY <3>2, <3>3, <3>4 DEF CA!MonthIsWhole, Whole
    <3> QED BY <2>a, <3>2, <3>5
  <2> QED BY <1>4, <2>0, <2>1, <2>2, <2>3 DEF CA!Apply, CalCallOK
<1> QED BY <1>1, <1>2, <1>3, <1>4

(***************************************************************************)
(* Session desk                                                            *)
(***************************************************************************)

\* What is drawn and what is asked for never part: a refund is asked for only
\* under a card that announces one.
Honest(p) == "card" \in DOMAIN p /\ (p.card.force => p.card.says = "refund")
Faithful(c) ==
  /\ {"op", "by", "force", "told"} \subseteq DOMAIN c
  /\ c.by \in {"page", "button", "dialog", "roster"}
  /\ c.op = "delete" /\ c.force => c.told = "refund"
SessionInv ==
  /\ Honest(sdPage)
  /\ \A c \in sdCalls : Faithful(c)
  /\ SD!DeleteDoesWhatItSaid

(***************************************************************************)
(* Drawing and sending                                                     *)
(***************************************************************************)

LEMMA Draw == ASSUME NEW p, "card" \in DOMAIN p
              PROVE  Honest(SD!Drawn(p))
<1>1. SD!NeedsForce(p) => SD!Warning(p) = "refund"
  BY DEF SD!NeedsForce, SD!Warning
<1>2. /\ "card" \in DOMAIN SD!Drawn(p)
      /\ SD!Drawn(p).card = [says |-> SD!Warning(p), force |-> SD!NeedsForce(p)]
  BY DEF SD!Drawn
<1> QED BY <1>1, <1>2 DEF Honest

\* Changing the page elsewhere leaves it with its card.
LEMMA Field == ASSUME NEW p, "card" \in DOMAIN p, NEW f, NEW e
               PROVE  "card" \in DOMAIN [p EXCEPT ![f] = e]
OBVIOUS
LEMMA ResumedCard == ASSUME NEW p, "card" \in DOMAIN p, NEW c, Faithful(c)
                     PROVE  "card" \in DOMAIN SD!Resumed(p, c)
BY DEF SD!Resumed, Faithful

LEMMA Edit ==
  ASSUME NEW c, Faithful(c), NEW x, NEW y
  PROVE  /\ Faithful([c EXCEPT !.n = x])
         /\ Faithful([c EXCEPT !.mine = x])
         /\ Faithful([c EXCEPT !.ans = x])
         /\ Faithful([c EXCEPT !.ans = x, !.row = y])
BY DEF Faithful

LEMMA SessionAdding == ASSUME NEW cs, \A d \in cs : Faithful(d), NEW c, Faithful(c)
                       PROVE  \A d \in SD!Add(cs, c) : Faithful(d)
<1>1. PICK x : SD!Add(cs, c) = cs \cup {[c EXCEPT !.n = x]}
  BY DEF SD!Add
<1>2. Faithful([c EXCEPT !.n = x])
  BY Edit
<1> QED BY <1>1, <1>2

LEMMA Calling ==
  ASSUME NEW op, NEW by \in {"page", "button", "dialog", "roster"}, op # "delete"
  PROVE  Faithful(SD!Call(op, by))
BY DEF Faithful, SD!Call
LEMMA CallingWith == ASSUME NEW op, NEW by \in {"page", "button", "dialog", "roster"}, op # "delete",
                            NEW x
                     PROVE  /\ Faithful([SD!Call(op, by) EXCEPT !.start = x])
                            /\ Faithful([SD!Call(op, by) EXCEPT !.mine = x])
BY DEF Faithful, SD!Call

LEMMA SessionDisown == ASSUME NEW cs, \A d \in cs : Faithful(d)
                       PROVE  \A d \in SD!Disowned(cs) : Faithful(d)
<1> SUFFICES ASSUME NEW d \in SD!Disowned(cs) PROVE Faithful(d)
  OBVIOUS
<1>1. PICK c \in cs : d = [c EXCEPT !.mine = @ /\ c.by # "dialog"]
  BY DEF SD!Disowned
<1> QED BY <1>1, Edit

(***************************************************************************)
(* The steps                                                               *)
(***************************************************************************)

\* A step that deletes nothing leaves the history alone.
LEMMA FateKept == ASSUME SD!DeleteDoesWhatItSaid, UNCHANGED sdFate
                  PROVE  SD!DeleteDoesWhatItSaid'
BY DEF SD!DeleteDoesWhatItSaid

LEMMA InitSession == SD!Init => SessionInv
<1> SUFFICES ASSUME SD!Init PROVE SessionInv
  OBVIOUS
<1>1. Honest(sdPage)
  BY DEF SD!Init, Honest
<1>2. \A c \in sdCalls : Faithful(c)
  BY Calling, SessionAdding DEF SD!Init
<1>3. SD!DeleteDoesWhatItSaid
  BY DEF SD!Init, SD!DeleteDoesWhatItSaid
<1> QED BY <1>1, <1>2, <1>3 DEF SessionInv

\* The buttons.
LEMMA StepButtons ==
  ASSUME SessionInv,
         SD!Publish \/ SD!Touch \/ SD!Reschedule \/ SD!ToggleDialog \/ SD!SubmitDialog
           \/ SD!ToggleDelete
           \/ SD!Delete \/ SD!Mark
  PROVE  SessionInv'
<1>p. "card" \in DOMAIN sdPage /\ Honest(sdPage) /\ SD!DeleteDoesWhatItSaid
  BY DEF SessionInv, Honest
<1>c. \A c \in sdCalls : Faithful(c)
  BY DEF SessionInv
<1>r. Honest(SD!Running(sdPage))
  BY <1>p, Draw DEF SD!Running
<1>s. ASSUME NEW c, Faithful(c), SD!Send(c)
      PROVE  \A d \in sdCalls' : Faithful(d)
  BY <1>c, <1>s, SessionAdding DEF SD!Send
<1> USE DEF SessionInv
<1>1. CASE SD!Publish
  BY <1>1, <1>p, <1>r, <1>s, Calling, FateKept DEF SD!Publish
<1>2. CASE SD!Touch
  <2>1. PICK op \in {"touch", "ask"} : SD!Send(SD!Call(op, "button"))
    BY <1>2 DEF SD!Touch
  <2> QED BY <1>2, <1>p, <1>r, <1>s, <2>1, Calling, FateKept DEF SD!Touch
<1>3. CASE SD!Reschedule
  <2>1. PICK t \in Starts : SD!Send([SD!Call("reschedule", "button") EXCEPT !.start = t])
    BY <1>3 DEF SD!Reschedule
  <2>2. Faithful([SD!Call("reschedule", "button") EXCEPT !.start = t])
    BY CallingWith
  <2> QED BY <1>3, <1>p, <1>r, <1>s, <2>1, <2>2, FateKept DEF SD!Reschedule
<1>4. CASE SD!ToggleDialog
  <2>1. CASE sdPage.dialog.open
    <3>1. sdCalls' = SD!Disowned(sdCalls)
            /\ sdPage' = SD!Drawn([sdPage EXCEPT !.dialog = SD!NoDialog])
      BY <1>4, <2>1 DEF SD!ToggleDialog
    <3>2. Honest(sdPage') /\ UNCHANGED sdFate
      BY <1>4, <1>p, <3>1, Draw DEF SD!ToggleDialog
    <3> QED BY <1>c, <1>p, <3>1, <3>2, SessionDisown, FateKept
  <2>2. CASE ~sdPage.dialog.open
    <3>1. SD!Send(SD!Call("impact", "dialog"))
            /\ sdPage' = SD!Drawn([sdPage EXCEPT !.dialog = SD!Dialog])
      BY <1>4, <2>2 DEF SD!ToggleDialog
    <3>2. Honest(sdPage') /\ UNCHANGED sdFate
      BY <1>4, <1>p, <3>1, Draw DEF SD!ToggleDialog
    <3> QED BY <1>s, <1>p, <3>1, <3>2, Calling, FateKept
  <2> QED BY <2>1, <2>2
<1>5. CASE SD!SubmitDialog
  <2>1. sdPage' = SD!Drawn([sdPage EXCEPT !.dialog.busy = TRUE])
          /\ SD!Send(SD!Call("cancel", "dialog"))
    BY <1>5 DEF SD!SubmitDialog
  <2>2. Honest(sdPage') /\ UNCHANGED sdFate
    BY <1>5, <1>p, <2>1, Draw DEF SD!SubmitDialog
  <2> QED BY <1>s, <1>p, <2>1, <2>2, Calling, FateKept
<1>6. CASE SD!ToggleDelete
  <2>1. sdPage' = SD!Drawn([sdPage EXCEPT !.deleting = ~@])
    BY <1>6 DEF SD!ToggleDelete
  <2>2. Honest(sdPage') /\ UNCHANGED <<sdCalls, sdFate>>
    BY <1>6, <1>p, <2>1, Draw DEF SD!ToggleDelete
  <2> QED BY <1>c, <1>p, <2>2, FateKept
<1>7. CASE SD!Delete
  <2> DEFINE d == [SD!Call("delete", "button") EXCEPT !.told = sdPage.card.says,
                                                      !.force = sdPage.card.force]
  <2>1. Faithful(d)
    BY <1>p DEF Faithful, SD!Call, Honest
  <2>2. SD!Send(d) /\ sdPage' = SD!Running(sdPage) /\ UNCHANGED sdFate
    BY <1>7 DEF SD!Delete
  <2> QED BY <1>p, <1>r, <1>s, <2>1, <2>2, FateKept
<1>8. CASE SD!Mark
  <2>1. sdPage' = SD!Drawn([sdPage EXCEPT !.marking = TRUE]) /\ SD!Send(SD!Call("mark", "roster"))
    BY <1>8 DEF SD!Mark
  <2>2. Honest(sdPage') /\ UNCHANGED sdFate
    BY <1>8, <1>p, <2>1, Draw DEF SD!Mark
  <2> QED BY <1>s, <1>p, <2>1, <2>2, Calling, FateKept
<1> QED BY <1>1, <1>2, <1>3, <1>4, <1>5, <1>6, <1>7, <1>8

\* The server: only here may a deletion go through.
LEMMA StepSessionAnswer ==
  ASSUME SessionInv, NEW c \in sdCalls, SD!Answer(c)
  PROVE  SessionInv'
<1>f. Faithful(c) /\ \A d \in sdCalls : Faithful(d)
  BY DEF SessionInv
<1>1. Honest(sdPage)'
  BY DEF SessionInv, SD!Answer, Honest
<1>2. \A d \in sdCalls' : Faithful(d)
  <2>1. ASSUME NEW ans PROVE \A d \in SD!Answered(c, ans) : Faithful(d)
    <3>1. Faithful([c EXCEPT !.ans = ans, !.row = sdSession'])
      BY <1>f, Edit
    <3> QED BY <1>f, <3>1 DEF SD!Answered
  <2>2. PICK ans \in {"ok", "error"} : sdCalls' = SD!Answered(c, ans)
    BY DEF SD!Answer
  <2> QED BY <2>1, <2>2
<1>3. SD!DeleteDoesWhatItSaid'
  <2>1. CASE c.op = "delete" /\ ~SD!Refused(c)
    <3>1. sdFate' = [told |-> c.told, began |-> SD!Began(sdSession), live |-> sdSession.live,
                     refunded |-> c.force /\ ~SD!Began(sdSession)]
      BY <2>1 DEF SD!Answer
    <3>2. c.force \/ ~(sdSession.live > 0) \/ SD!Began(sdSession)
      BY <2>1 DEF SD!Refused
    <3>3. c.force => c.told = "refund"
      BY <1>f, <2>1 DEF Faithful
    <3>4. SUFFICES ASSUME sdFate'.live > 0, ~sdFate'.began
                   PROVE  sdFate'.told = "refund" /\ sdFate'.refunded
      BY DEF SD!DeleteDoesWhatItSaid
    <3>5. sdFate'.told = c.told /\ sdFate'.live = sdSession.live
            /\ sdFate'.began = SD!Began(sdSession)
          /\ sdFate'.refunded = (c.force /\ ~SD!Began(sdSession))
      BY <3>1
    <3>6. c.force /\ ~SD!Began(sdSession)
      BY <3>2, <3>4, <3>5
    <3> QED BY <3>3, <3>5, <3>6
  <2>2. CASE ~(c.op = "delete" /\ ~SD!Refused(c))
    BY <2>2, FateKept DEF SD!Answer, SessionInv
  <2> QED BY <2>1, <2>2
<1> QED BY <1>1, <1>2, <1>3 DEF SessionInv

\* A call that fails, the others, the clock.
LEMMA StepSessionWorld ==
  ASSUME SessionInv, (\E c \in sdCalls : SD!Fail(c)) \/ SD!OthersAct \/ SD!Tick
  PROVE  SessionInv'
<1> USE DEF SessionInv
<1>1. ASSUME NEW c \in sdCalls, SD!Fail(c) PROVE SessionInv'
  <2>1. Faithful([c EXCEPT !.ans = "error"])
    BY Edit
  <2> QED BY <1>1, <2>1, FateKept DEF SD!Fail
<1>2. CASE SD!OthersAct BY <1>2, FateKept DEF SD!OthersAct
<1>3. CASE SD!Tick BY <1>3, FateKept DEF SD!Tick
<1> QED BY <1>1, <1>2, <1>3

\* The second halves of the handlers.
LEMMA StepSessionApply ==
  ASSUME SessionInv, NEW c \in sdCalls, SD!Apply(c)
  PROVE  SessionInv'
<1>p. "card" \in DOMAIN sdPage /\ Honest(sdPage) /\ SD!DeleteDoesWhatItSaid
  BY DEF SessionInv, Honest
<1>c. Faithful(c) /\ \A d \in sdCalls \ {c} : Faithful(d)
  BY DEF SessionInv
<1>b. c.by \in {"page", "button", "dialog", "roster"}
  BY <1>c DEF Faithful
<1>d. \A d \in SD!Disowned(sdCalls \ {c}) : Faithful(d)
  BY <1>c, SessionDisown
<1>l. Honest(SD!Loaded(sdPage, c))
  <2>1. "card" \in DOMAIN [sdPage EXCEPT !.loading = FALSE]
    BY <1>p
  <2> QED BY <1>c, <2>1, ResumedCard, Draw DEF SD!Loaded
<1> USE DEF SessionInv
<1>1. CASE SD!ApplyLoad(c)
  <2>1. CASE c.ans = "ok"
    <3>1. sdPage' = SD!Drawn([sdPage EXCEPT !.copy = c.row])
          /\ sdCalls' = SD!Add(sdCalls \ {c}, SD!Call("seats", c.by)) /\ UNCHANGED sdFate
      BY <1>1, <2>1 DEF SD!ApplyLoad
    <3>2. Honest(sdPage')
      BY <1>p, <3>1, Draw
    <3>3. Faithful(SD!Call("seats", c.by))
      BY <1>b, Calling
    <3> QED BY <1>c, <1>p, <3>1, <3>2, <3>3, SessionAdding, FateKept
  <2>2. CASE c.ans # "ok"
    BY <1>1, <1>c, <1>d, <1>l, <1>p, <2>2, FateKept DEF SD!ApplyLoad
  <2> QED BY <2>1, <2>2
<1>2. CASE SD!ApplyRoster(c)
  <2>1. Honest(SD!Drawn([sdPage EXCEPT !.marking = FALSE]))
    BY <1>p, Draw
  <2> QED BY <1>2, <1>c, <1>d, <1>l, <1>p, <2>1, FateKept DEF SD!ApplyRoster
<1>3. CASE SD!ApplyButton(c)
  <2>1. Honest(SD!Drawn([sdPage EXCEPT !.busy = FALSE]))
    BY <1>p, Draw
  <2>2. \A d \in SD!Add(sdCalls \ {c}, SD!Call("load", "button")) : Faithful(d)
    <3>1. Faithful(SD!Call("load", "button"))
      BY Calling
    <3> QED BY <1>c, <3>1, SessionAdding
  <2> QED BY <1>3, <1>c, <1>p, <2>1, <2>2, FateKept DEF SD!ApplyButton
<1>4. CASE SD!ApplyDelete(c)
  <2>1. Honest(SD!Drawn([sdPage EXCEPT !.busy = FALSE]))
    BY <1>p, Draw
  <2>2. Honest([sdPage EXCEPT !.gone = TRUE])
    BY <1>p DEF Honest
  <2> QED BY <1>4, <1>c, <1>p, <2>1, <2>2, FateKept DEF SD!ApplyDelete
<1>5. CASE SD!ApplyImpact(c)
  <2>1. Honest(SD!Drawn([sdPage EXCEPT !.dialog.impact = c.ans]))
    BY <1>p, Draw
  <2> QED BY <1>5, <1>c, <1>p, <2>1, FateKept DEF SD!ApplyImpact
<1>6. CASE SD!ApplyCancel(c)
  <2>1. Honest(SD!Drawn([sdPage EXCEPT !.dialog.busy = FALSE]))
    BY <1>p, Draw
  <2>2. \A d \in SD!Add(sdCalls \ {c}, [SD!Call("load", "dialog") EXCEPT !.mine = c.mine]) : Faithful(d)
    <3>1. Faithful([SD!Call("load", "dialog") EXCEPT !.mine = c.mine])
      BY CallingWith
    <3> QED BY <1>c, <3>1, SessionAdding
  <2> QED BY <1>6, <1>c, <1>p, <2>1, <2>2, FateKept DEF SD!ApplyCancel
<1>7. CASE SD!ApplyMark(c)
  <2>1. Honest(SD!Drawn([sdPage EXCEPT !.marking = FALSE]))
    BY <1>p, Draw
  <2>2. \A d \in SD!Add(sdCalls \ {c}, SD!Call("seats", "roster")) : Faithful(d)
    <3>1. Faithful(SD!Call("seats", "roster"))
      BY Calling
    <3> QED BY <1>c, <3>1, SessionAdding
  <2> QED BY <1>7, <1>c, <1>p, <2>1, <2>2, FateKept DEF SD!ApplyMark
<1> QED BY <1>1, <1>2, <1>3, <1>4, <1>5, <1>6, <1>7 DEF SD!Apply

(***************************************************************************)
(* Each group of pages among the others                                    *)
(***************************************************************************)

\* Whatever moves, the other groups of pages stay away.
LEMMA BookingsMoves ==
  ASSUME [FrontNext]_allVars, screen = "bookings"
  PROVE  screen' = screen /\ \/ UNCHANGED myVars
                             \/ MY!Ask \/ MY!KeepIt \/ MY!Cancel \/ MY!Book \/ MY!Refresh
                             \/ \E c \in myCalls : MY!Answer(c) \/ MY!Fail(c)
                             \/ \E c \in myCalls : MY!Apply(c)
                             \/ \E s \in Booked : MY!SeatMoves(s) \/ MY!Reprice(s)
                                  \/ MY!CallOff(s) \/ MY!Hours(s)
<1>1. CASE UNCHANGED allVars
  BY <1>1 DEF allVars
<1>2. CASE FrontNext
  BY <1>2, FrontendAssumption DEF FrontNext, MY!Answer, MY!Apply, BookingsOnly, CheckoutOnly,
             AccountsOnly, DeskOnly, CalendarOnly, SessionOnly, TrainerOnly
<1> QED BY <1>1, <1>2

LEMMA BookingsStep ==
  ASSUME [FrontNext]_allVars, screen = "bookings" => MyInv
  PROVE  (screen = "bookings" => MyInv)'
<1>s. screen' = screen
  BY DEF FrontNext, allVars, CheckoutOnly, AccountsOnly, BookingsOnly, DeskOnly, CalendarOnly,
          SessionOnly, TrainerOnly
<1> SUFFICES ASSUME screen = "bookings", MyInv PROVE MyInv'
  BY <1>s
<1>a. MY!MyBookingsAssumption
  BY FrontendAssumption DEF FrontendAssumption
<1>1. CASE UNCHANGED myVars
  BY <1>1 DEF myVars, MyInv, MyCallOK
<1> QED BY <1>a, <1>1, BookingsMoves, StepLearner, StepMyServer, StepMyApply, StepOthers

LEMMA BookingsKept == FrontSpec => [](screen = "bookings" => MyInv)
<1>1. FrontInit => (screen = "bookings" => MyInv)
  BY FrontendAssumption, InitMyBookings DEF FrontendAssumption, FrontInit
<1> QED BY <1>1, BookingsStep, PTL DEF FrontSpec

LEMMA DeskMoves ==
  ASSUME [FrontNext]_allVars, screen = "desk"
  PROVE  screen' = screen /\ \/ UNCHANGED deVars
                             \/ DE!ChooseFilter \/ DE!HideRoster \/ DE!Type \/ DE!Debounced
                             \/ DE!Refresh \/ DE!Finalize \/ DE!Poll
                             \/ \E r \in Rows : DE!Press(r)
                             \/ DE!OthersAct
                             \/ \E c \in deCalls : DE!Answer(c) \/ DE!Fail(c)
                             \/ \E c \in deCalls : DE!Apply(c)
<1>1. CASE UNCHANGED allVars
  BY <1>1 DEF allVars
<1>2. CASE FrontNext
  BY <1>2 DEF FrontNext, DE!Answer, DE!Apply, DeskOnly, CheckoutOnly, AccountsOnly,
             BookingsOnly, CalendarOnly, SessionOnly, TrainerOnly
<1> QED BY <1>1, <1>2

LEMMA DeskStep ==
  ASSUME [FrontNext]_allVars, screen = "desk" => DeskInv
  PROVE  (screen = "desk" => DeskInv)'
<1>s. screen' = screen
  BY DEF FrontNext, allVars, CheckoutOnly, AccountsOnly, BookingsOnly, DeskOnly, CalendarOnly,
          SessionOnly, TrainerOnly
<1> SUFFICES ASSUME screen = "desk", DeskInv PROVE DeskInv'
  BY <1>s
<1>a. DE!DeskAssumption
  BY FrontendAssumption DEF FrontendAssumption
<1>1. CASE UNCHANGED deVars
  BY <1>1 DEF deVars, DeskInv, AloneInv, KindInv, Apart, Quiet, Current, Locked
<1> QED BY <1>a, <1>1, DeskMoves, StepPerson, StepDeskServer, StepDeskApply

LEMMA DeskKept == FrontSpec => [](screen = "desk" => DeskInv)
<1>1. FrontInit => (screen = "desk" => DeskInv)
  BY FrontendAssumption, InitDesk DEF FrontendAssumption, FrontInit
<1> QED BY <1>1, DeskStep, PTL DEF FrontSpec

LEMMA CalendarMoves ==
  ASSUME [FrontNext]_allVars, screen = "calendar"
  PROVE  screen' = screen /\ \/ UNCHANGED caVars
                             \/ CA!ChooseZone \/ CA!Turn \/ CA!Pick \/ CA!ChooseSlot
                             \/ CA!Confirm
                             \/ CA!OthersBook
                             \/ \E c \in caCalls : CA!Answer(c) \/ CA!Fail(c) \/ CA!Apply(c)
<1>1. CASE UNCHANGED allVars
  BY <1>1 DEF allVars
<1>2. CASE FrontNext
  BY <1>2 DEF FrontNext, CalendarOnly, CheckoutOnly, AccountsOnly, BookingsOnly, DeskOnly,
             SessionOnly, TrainerOnly
<1> QED BY <1>1, <1>2

LEMMA CalendarStep ==
  ASSUME [FrontNext]_allVars, screen = "calendar" => CalInv
  PROVE  (screen = "calendar" => CalInv)'
<1>s. screen' = screen
  BY DEF FrontNext, allVars, CheckoutOnly, AccountsOnly, BookingsOnly, DeskOnly, CalendarOnly,
          SessionOnly, TrainerOnly
<1> SUFFICES ASSUME screen = "calendar", CalInv PROVE CalInv'
  BY <1>s
<1>a. CA!CalendarAssumption
  BY FrontendAssumption DEF FrontendAssumption
<1>1. CASE UNCHANGED caVars
  BY <1>1 DEF caVars, CalInv, CalCallOK, Whole, CA!MonthIsWhole
<1> QED BY <1>a, <1>1, CalendarMoves, StepReader, StepSlots

LEMMA CalendarKept == FrontSpec => [](screen = "calendar" => CalInv)
<1>1. FrontInit => (screen = "calendar" => CalInv)
  BY FrontendAssumption, InitCalendar DEF FrontendAssumption, FrontInit
<1> QED BY <1>1, CalendarStep, PTL DEF FrontSpec

LEMMA SessionMoves ==
  ASSUME [FrontNext]_allVars, screen = "session"
  PROVE  screen' = screen /\ \/ UNCHANGED sdVars
                             \/ SD!Publish \/ SD!Touch \/ SD!Reschedule \/ SD!ToggleDialog
                             \/ SD!SubmitDialog \/ SD!ToggleDelete \/ SD!Delete \/ SD!Mark
                             \/ \E c \in sdCalls : SD!Answer(c)
                             \/ SD!OthersAct \/ SD!Tick
                             \/ \E c \in sdCalls : SD!Fail(c)
                             \/ \E c \in sdCalls : SD!Apply(c)
<1>1. CASE UNCHANGED allVars
  BY <1>1 DEF allVars
<1>2. CASE FrontNext
  BY <1>2 DEF FrontNext, SD!Apply, SessionOnly, CheckoutOnly, AccountsOnly, BookingsOnly,
             DeskOnly, CalendarOnly, TrainerOnly
<1> QED BY <1>1, <1>2

LEMMA SessionStep ==
  ASSUME [FrontNext]_allVars, screen = "session" => SessionInv
  PROVE  (screen = "session" => SessionInv)'
<1>s. screen' = screen
  BY DEF FrontNext, allVars, CheckoutOnly, AccountsOnly, BookingsOnly, DeskOnly, CalendarOnly,
          SessionOnly, TrainerOnly
<1> SUFFICES ASSUME screen = "session", SessionInv PROVE SessionInv'
  BY <1>s
<1>1. CASE UNCHANGED sdVars
  BY <1>1 DEF sdVars, SessionInv, SD!DeleteDoesWhatItSaid
<1> QED BY <1>1, SessionMoves, StepButtons, StepSessionAnswer, StepSessionWorld, StepSessionApply

LEMMA SessionKept == FrontSpec => [](screen = "session" => SessionInv)
<1>1. FrontInit => (screen = "session" => SessionInv)
  BY FrontendAssumption, InitSession DEF FrontendAssumption, FrontInit
<1> QED BY <1>1, SessionStep, PTL DEF FrontSpec

(***************************************************************************)
(* Types: my bookings                                                      *)
(***************************************************************************)

\* The modules of the pages count as this one does.
LEMMA SameCount ==
  /\ \A S : MY!Cardinality(S) = Cardinality(S)
  /\ \A S : DE!Cardinality(S) = Cardinality(S)
  /\ \A S : CA!Cardinality(S) = Cardinality(S)
  /\ \A S : SD!Cardinality(S) = Cardinality(S)
BY DEF MY!Cardinality, DE!Cardinality, CA!Cardinality, SD!Cardinality, Cardinality

\* A number no member of a finite set has, among one more than it has members.
LEMMA FreshNumber ==
  ASSUME NEW cs, IsFiniteSet(cs)
  PROVE  \E n \in 1..(Cardinality(cs) + 1) : \A d \in cs : d.n # n
<1> DEFINE ns == {d.n : d \in cs}
           f == [d \in cs |-> d.n]
<1>1. f \in Surjection(cs, ns)
  BY DEF Surjection
<1>2. /\ IsFiniteSet(ns) /\ Cardinality(ns) <= Cardinality(cs)
      /\ Cardinality(cs) \in Nat /\ Cardinality(ns) \in Nat
  <2> HIDE DEF ns, f
  <2> QED BY <1>1, FS_Surjection, FS_CardinalityType
<1>3. SUFFICES ASSUME 1..(Cardinality(cs) + 1) \subseteq ns PROVE FALSE
  OBVIOUS
<1> DEFINE k == Cardinality(cs) + 1
<1>4. k \in Int /\ Cardinality(1..k) = k
  <2>1. k \in Nat /\ ~(1 > k) /\ k - 1 + 1 = k
    BY <1>2
  <2> HIDE DEF k
  <2> QED BY <2>1, FS_Interval
<1>5. Cardinality(1..k) <= Cardinality(ns)
  <2> HIDE DEF ns, k
  <2> QED BY <1>2, <1>3, FS_Subset DEF k
<1> QED BY <1>2, <1>4, <1>5

\* Two requests for one end never have one number; what a refresh was told is
\* an amount.
MyCallTyped(c) ==
  /\ DOMAIN c = {"op", "s", "goal", "n", "told", "row", "ahead", "ans", "delta", "moved"}
  /\ c.op = "balance" /\ c.ans = "ok" => c.delta \in Nat
MyCallsTyped(cs) ==
  /\ IsFiniteSet(cs) /\ \A c \in cs : MyCallTyped(c)
  /\ \A c, d \in cs : MY!Alike(c, d) /\ c.n = d.n => c = d
MyTypes ==
  /\ myServer.balance \in Nat /\ myCredits \in Nat \cup {None}
  /\ MyCallsTyped(myCalls)

\* Dropping, answering and making a request keep the numbers apart: the number
\* a new one gets is free, since there is always a free one to choose.
LEMMA MyRemoves ==
  ASSUME NEW cs, MyCallsTyped(cs), NEW c
  PROVE  MyCallsTyped(cs \ {c})
<1>1. IsFiniteSet(cs \ {c})
  BY FS_RemoveElement DEF MyCallsTyped
<1> QED BY <1>1 DEF MyCallsTyped

LEMMA MyReplaces ==
  ASSUME NEW cs, MyCallsTyped(cs), NEW c \in cs, NEW d, MyCallTyped(d),
         d.s = c.s, d.goal = c.goal, d.op = "load" <=> c.op = "load", d.n = c.n
  PROVE  MyCallsTyped((cs \ {c}) \cup {d})
<1>1. IsFiniteSet((cs \ {c}) \cup {d})
  BY FS_RemoveElement, FS_AddElement DEF MyCallsTyped
<1>2. ASSUME NEW e \in cs \ {c} PROVE ~(MY!Alike(e, d) /\ e.n = d.n) /\ ~(MY!Alike(d, e) /\ e.n = d.n)
  BY DEF MyCallsTyped, MY!Alike
<1> QED BY <1>1, <1>2 DEF MyCallsTyped

LEMMA MyAdds ==
  ASSUME NEW cs, MyCallsTyped(cs), NEW c, MyCallTyped(c)
  PROVE  MyCallsTyped(MY!Add(cs, c))
<1> DEFINE P(n) == \A d \in cs : MY!Alike(c, d) => d.n # n
           k == CHOOSE n \in 1..(MY!Cardinality(cs) + 1) : P(n)
           e == [c EXCEPT !.n = k]
<1>1. P(k)
  <2>1. \E n \in 1..(MY!Cardinality(cs) + 1) : P(n)
    BY FreshNumber, SameCount DEF MyCallsTyped
  <2> HIDE DEF P
  <2> QED BY <2>1
<1>2. MY!Add(cs, c) = cs \cup {e}
  BY DEF MY!Add, MY!Numbered
<1> HIDE DEF k
<1>3. MyCallTyped(e) /\ e.s = c.s /\ e.goal = c.goal /\ e.op = c.op /\ e.n = k
  BY DEF MyCallTyped
<1>4. ASSUME NEW d \in cs PROVE ~(MY!Alike(e, d) /\ e.n = d.n) /\ ~(MY!Alike(d, e) /\ e.n = d.n)
  BY <1>1, <1>3 DEF MY!Alike
<1>5. IsFiniteSet(cs \cup {e})
  BY FS_AddElement DEF MyCallsTyped
<1> HIDE DEF e
<1> QED BY <1>2, <1>3, <1>4, <1>5 DEF MyCallsTyped

LEMMA MyAddsCall ==
  ASSUME NEW cs, MyCallsTyped(cs), NEW op, op # "balance", NEW s, NEW goal
  PROVE  MyCallsTyped(MY!Add(cs, MY!Call(op, s, goal)))
<1>1. MyCallTyped(MY!Call(op, s, goal))
  BY DEF MyCallTyped, MY!Call
<1> QED BY <1>1, MyAdds

LEMMA MyTypeInit == MY!MyBookingsAssumption /\ MY!Init => MyTypes
<1> SUFFICES ASSUME MY!MyBookingsAssumption, MY!Init PROVE MyTypes
  OBVIOUS
<1>1. MyCallsTyped({})
  BY FS_EmptySet DEF MyCallsTyped
<1>2. MyCallsTyped(myCalls)
  BY <1>1, MyAddsCall DEF MY!Init
<1> QED BY <1>2 DEF MyTypes, MY!Init, MY!MyBookingsAssumption

\* The learner, and what the pages ask for by themselves.
LEMMA MyTypeLearner ==
  ASSUME MY!MyBookingsAssumption, MyTypes, MY!Ask \/ MY!KeepIt \/ MY!Cancel \/ MY!Book \/ MY!Refresh
  PROVE  MyTypes'
<1>0. myServer.balance \in Nat /\ myCredits \in Nat \cup {None} /\ MyCallsTyped(myCalls)
  BY DEF MyTypes
<1>1. UNCHANGED <<myServer, myCredits>>
  BY DEF MY!Ask, MY!KeepIt, MY!Cancel, MY!Book, MY!Refresh
<1>2. MyCallsTyped(myCalls')
  <2>1. CASE UNCHANGED myCalls
    BY <1>0, <2>1
  <2>2. CASE MY!Cancel
    <3> DEFINE d(s, t, r) == [MY!Call("cancel", s, "cancel") EXCEPT !.told = t, !.row = r]
    <3>1. PICK s, t, r : myCalls' = MY!Add(myCalls, d(s, t, r))
      BY <2>2 DEF MY!Cancel
    <3>2. MyCallTyped(d(s, t, r))
      BY DEF MyCallTyped, MY!Call
    <3> HIDE DEF d
    <3> QED BY <1>0, <3>1, <3>2, MyAdds
  <2>3. CASE MY!Book /\ ~UNCHANGED myCalls
    <3> DEFINE d(t, r) == [MY!Call("book", myPage.sid, "book") EXCEPT !.told = t, !.row = r]
    <3>1. PICK t, r : myCalls' = MY!Add(myCalls, d(t, r))
      BY <2>3 DEF MY!Book
    <3>2. MyCallTyped(d(t, r))
      BY DEF MyCallTyped, MY!Call
    <3> HIDE DEF d
    <3> QED BY <1>0, <3>1, <3>2, MyAdds
  <2>4. CASE MY!Refresh
    BY <1>0, <2>4, MyAddsCall DEF MY!Refresh
  <2> QED BY <2>1, <2>2, <2>3, <2>4 DEF MY!Ask, MY!KeepIt
<1> QED BY <1>0, <1>1, <1>2 DEF MyTypes, MyCallsTyped, MyCallTyped, MY!Alike

\* An answer in the place of its question.
LEMMA MyTypeTold ==
  ASSUME MyTypes, NEW c \in myCalls, NEW d, MyCallTyped(d),
         d.s = c.s, d.goal = c.goal, d.op = c.op, d.n = c.n,
         NEW s, s.balance \in Nat, MY!Told(c, d, s)
  PROVE  MyTypes'
<1>1. MyCallsTyped(myCalls')
  BY MyReplaces DEF MyTypes, MY!Told
<1> QED BY <1>1 DEF MyTypes, MY!Told, MyCallsTyped, MyCallTyped, MY!Alike

\* The server: it charges what there is.
LEMMA MyTypeServer ==
  ASSUME MY!MyBookingsAssumption, MyInv, MyTypes,
         NEW c \in myCalls, MY!Answer(c) \/ MY!Fail(c)
  PROVE  MyTypes'
<1>0. /\ MyCallOK(c) /\ DOMAIN myServer = {"row", "balance"} /\ myServer.balance \in Nat
      /\ DOMAIN c = {"op", "s", "goal", "n", "told", "row", "ahead", "ans", "delta", "moved"}
      /\ None # "ok" /\ MyCallsTyped(myCalls) /\ MyCallTyped(c)
  BY DEF MyInv, MyTypes, MY!MyBookingsAssumption, MyCallsTyped, MyCallTyped
<1>1. CASE MY!AnswerLoad(c)
  <2> DEFINE ahead == MY!Copies({s \in MY!Listed : myServer.row[s].hours > MY!Ended})
             d == [c EXCEPT !.ans = "ok", !.ahead = ahead]
  <2>1. c.op = "load" /\ MY!Told(c, d, myServer)
    BY <1>1 DEF MY!AnswerLoad
  <2> HIDE DEF ahead
  <2>2. MyCallTyped(d) /\ d.s = c.s /\ d.goal = c.goal /\ d.op = c.op /\ d.n = c.n
    BY <1>0, <2>1 DEF MyCallTyped
  <2> HIDE DEF d
  <2> QED BY <1>0, <2>1, <2>2, MyTypeTold
<1>2. CASE MY!AnswerRead(c)
  <2> DEFINE row == myServer.row[c.s]
             d == [c EXCEPT !.ans = "ok", !.row = row]
  <2>1. c.op = "read" /\ MY!Told(c, d, myServer)
    BY <1>2 DEF MY!AnswerRead
  <2> HIDE DEF row
  <2>2. MyCallTyped(d) /\ d.s = c.s /\ d.goal = c.goal /\ d.op = c.op /\ d.n = c.n
    BY <1>0, <2>1 DEF MyCallTyped
  <2> HIDE DEF d
  <2> QED BY <1>0, <2>1, <2>2, MyTypeTold
<1>3. CASE MY!AnswerMe(c)
  <2> DEFINE d == [c EXCEPT !.ans = "ok", !.delta = myServer.balance]
  <2>1. MY!Told(c, d, myServer)
    BY <1>3 DEF MY!AnswerMe
  <2>2. MyCallTyped(d) /\ d.s = c.s /\ d.goal = c.goal /\ d.op = c.op /\ d.n = c.n
    BY <1>0, <2>1 DEF MyCallTyped
  <2> HIDE DEF d
  <2> QED BY <1>0, <2>1, <2>2, MyTypeTold
<1>4. CASE MY!AnswerCancel(c)
  <2> DEFINE r == myServer.row[c.s]
             back == IF MY!RefundDue(r) THEN r.spent ELSE 0
             moved == MY!PlaceMoved(c, r)
             d == [c EXCEPT !.ans = "ok", !.delta = back, !.moved = moved]
             e == [c EXCEPT !.ans = "ok", !.moved = moved]
             s == [myServer EXCEPT !.row[c.s].status = "cancelled", !.balance = @ + back]
  <2>1. c.op = "cancel" /\ (MY!Told(c, d, s) \/ MY!Told(c, e, myServer))
    BY <1>4 DEF MY!AnswerCancel
  <2>2. back \in Nat
    BY <1>0, <2>1, MyRows, RowNumbers DEF MyCallOK
  <2> HIDE DEF r, back, moved
  <2>3. s.balance \in Nat
    BY <1>0, <2>2
  <2>4. /\ MyCallTyped(d) /\ d.s = c.s /\ d.goal = c.goal /\ d.op = c.op /\ d.n = c.n
        /\ MyCallTyped(e) /\ e.s = c.s /\ e.goal = c.goal /\ e.op = c.op /\ e.n = c.n
    BY <1>0, <2>1 DEF MyCallTyped
  <2> HIDE DEF d, e, s
  <2> QED BY <1>0, <2>1, <2>3, <2>4, MyTypeTold
<1>5. CASE MY!AnswerBook(c)
  <2> DEFINE r == myServer.row[c.s]
             moved == MY!OfferMoved(c, r)
             no == [c EXCEPT !.ans = "refused"]
             short == [c EXCEPT !.ans = "insufficient"]
             d == [c EXCEPT !.ans = "ok", !.moved = moved]
             e == [c EXCEPT !.ans = "ok", !.delta = -r.price, !.moved = moved]
             s == [myServer EXCEPT !.row[c.s] = [r EXCEPT !.status = "waitlisted", !.spent = 0]]
             t == [myServer EXCEPT !.row[c.s] = [r EXCEPT !.status = "confirmed", !.spent = r.price],
                                   !.balance = @ - r.price]
  <2>1. c.op = "book" /\
        \/ MY!Told(c, no, myServer)
        \/ MY!Told(c, short, myServer)
        \/ MY!Told(c, d, s)
        \/ myServer.balance >= r.price /\ MY!Told(c, e, t)
    BY <1>5 DEF MY!AnswerBook
  <2>2. r.price \in Nat
    BY <1>0, <2>1, MyRows, RowNumbers DEF MyCallOK
  <2> HIDE DEF moved, r
  <2>3. s.balance \in Nat /\ (myServer.balance >= r.price => t.balance \in Nat)
    BY <1>0, <2>2
  <2>4. /\ MyCallTyped(d) /\ d.s = c.s /\ d.goal = c.goal /\ d.op = c.op /\ d.n = c.n
        /\ MyCallTyped(e) /\ e.s = c.s /\ e.goal = c.goal /\ e.op = c.op /\ e.n = c.n
        /\ MyCallTyped(no) /\ no.s = c.s /\ no.goal = c.goal /\ no.op = c.op /\ no.n = c.n
        /\ MyCallTyped(short) /\ short.s = c.s /\ short.goal = c.goal /\ short.op = c.op
        /\ short.n = c.n
    BY <1>0, <2>1 DEF MyCallTyped
  <2> HIDE DEF d, e, no, short, s, t
  <2> QED BY <1>0, <2>1, <2>3, <2>4, MyTypeTold
<1>6. CASE MY!Fail(c)
  <2> DEFINE d == [c EXCEPT !.ans = "error"]
  <2>1. myCalls' = (myCalls \ {c}) \cup {d} /\ UNCHANGED <<myServer, myCredits>>
    BY <1>6 DEF MY!Fail
  <2>2. MyCallTyped(d) /\ d.s = c.s /\ d.goal = c.goal /\ d.op = c.op /\ d.n = c.n
    BY <1>0 DEF MyCallTyped
  <2> HIDE DEF d
  <2>3. MyCallsTyped(myCalls')
    BY <1>0, <2>1, <2>2, MyReplaces
  <2> QED BY <2>1, <2>3 DEF MyTypes, MyCallsTyped, MyCallTyped, MY!Alike
<1> QED BY <1>1, <1>2, <1>3, <1>4, <1>5, <1>6 DEF MY!Answer

\* Nobody else takes the balance below nothing.
LEMMA MyTypeOthers ==
  ASSUME MY!MyBookingsAssumption, MyInv, MyTypes, NEW s \in Booked,
         MY!SeatMoves(s) \/ MY!Reprice(s) \/ MY!CallOff(s) \/ MY!Hours(s)
  PROVE  MyTypes'
<1> DEFINE r == myServer.row[s]
<1>0. /\ r.price \in Nat /\ r.spent \in Nat /\ DOMAIN myServer = {"row", "balance"}
      /\ myServer.balance \in Nat
  BY MyRows, RowNumbers DEF MyInv, MyTypes
<1>1. ASSUME NEW t, MY!Elsewhere(t), t.balance \in Nat PROVE MyTypes'
  BY <1>1 DEF MY!Elsewhere, MyTypes, MyCallsTyped, MyCallTyped, MY!Alike
<1>2. CASE MY!SeatMoves(s)
  <2> DEFINE t == [myServer EXCEPT !.row[s] = [r EXCEPT !.status = "confirmed", !.spent = r.price],
                                   !.balance = @ - r.price]
             u == [myServer EXCEPT !.row[s].full = ~@]
  <2>1. (myServer.balance >= r.price /\ MY!Elsewhere(t)) \/ MY!Elsewhere(u)
    BY <1>2 DEF MY!SeatMoves
  <2> HIDE DEF r
  <2>2. u.balance \in Nat /\ (myServer.balance >= r.price => t.balance \in Nat)
    BY <1>0
  <2> HIDE DEF t, u
  <2> QED BY <1>1, <2>1, <2>2
<1>3. CASE MY!Reprice(s)
  <2>1. PICK p \in Prices : MY!Elsewhere([myServer EXCEPT !.row[s].price = p])
    BY <1>3 DEF MY!Reprice
  <2> QED BY <1>0, <1>1, <2>1
<1>4. CASE MY!CallOff(s)
  <2> DEFINE held == MY!Held(r)
             t == [myServer EXCEPT !.row[s].open = FALSE,
                              !.row[s].status = IF held THEN "cancelled" ELSE @,
                              !.balance = IF held THEN @ + r.spent ELSE @]
  <2>1. MY!Elsewhere(t)
    BY <1>4 DEF MY!CallOff
  <2> HIDE DEF r, held
  <2>2. t.balance \in Nat
    BY <1>0
  <2> HIDE DEF t
  <2> QED BY <1>1, <2>1, <2>2
<1>5. CASE MY!Hours(s)
  <2>1. PICK h : MY!Elsewhere([myServer EXCEPT !.row[s].hours = h])
    BY <1>5 DEF MY!Hours
  <2> QED BY <1>0, <1>1, <2>1
<1> QED BY <1>2, <1>3, <1>4, <1>5

\* The second halves of the handlers.
LEMMA MyTypeApply ==
  ASSUME MY!MyBookingsAssumption, MyTypes, NEW c \in myCalls, MY!Apply(c)
  PROVE  MyTypes'
<1>0. /\ myServer.balance \in Nat /\ myCredits \in Nat \cup {None} /\ MyCallsTyped(myCalls)
      /\ MyCallTyped(c)
  BY DEF MyTypes, MyCallsTyped
<1>1. MyCallsTyped(myCalls \ {c})
  BY <1>0, MyRemoves
<1>2. MyCallsTyped(MY!Then(c))
  BY <1>1, MyAddsCall DEF MY!Then
<1>3. MyCallsTyped(myCalls')
  <2>1. CASE MY!ApplyLoad(c) \/ MY!ApplyRead(c)
    BY <1>1, <2>1 DEF MY!ApplyLoad, MY!ApplyRead
  <2>2. CASE MY!ApplyMe(c)
    <3> DEFINE d == [c EXCEPT !.op = "balance", !.ans = None]
               cs == (myCalls \ {c}) \cup {d}
    <3>1. c.op = "me" /\ (myCalls' = MY!Add(cs, MY!Call("load", None, "show")) \/ myCalls' = cs)
      BY <2>2 DEF MY!ApplyMe
    <3>2. MyCallTyped(d) /\ d.s = c.s /\ d.goal = c.goal /\ d.op # "load" /\ d.n = c.n
      BY <1>0 DEF MyCallTyped, MY!MyBookingsAssumption
    <3>3. MyCallsTyped(cs)
      <4> HIDE DEF d
      <4> QED BY <1>0, <3>1, <3>2, MyReplaces
    <3> HIDE DEF cs
    <3> QED BY <3>1, <3>3, MyAddsCall
  <2>3. CASE MY!ApplyBalance(c) \/ MY!SignedOut(c)
    BY <1>2, <2>3 DEF MY!ApplyBalance, MY!SignedOut
  <2>4. CASE MY!ApplyCancel(c)
    <3>1. MyCallsTyped(MY!Add(myCalls \ {c}, MY!Call("load", c.s, "cancel")))
      BY <1>1, MyAddsCall
    <3>2. MyCallsTyped(MY!Add(MY!Add(myCalls \ {c}, MY!Call("load", c.s, "cancel")),
                              MY!Call("me", c.s, "cancel")))
      BY <3>1, MyAddsCall
    <3> QED BY <1>1, <2>4, <3>2 DEF MY!ApplyCancel
  <2>5. CASE MY!ApplyBook(c)
    <3>1. \/ myCalls' = MY!Add(myCalls \ {c}, MY!Call("me", c.s, "book"))
          \/ myCalls' = myCalls \ {c}
          \/ myCalls' = MY!Add(myCalls \ {c}, MY!Call("read", c.s, "book"))
      BY <2>5 DEF MY!ApplyBook
    <3> QED BY <1>1, <3>1, MyAddsCall
  <2> QED BY <2>1, <2>2, <2>3, <2>4, <2>5 DEF MY!Apply
<1>4. myServer' = myServer
  BY DEF MY!Apply, MY!ApplyLoad, MY!ApplyRead, MY!ApplyMe, MY!ApplyBalance, MY!SignedOut,
         MY!ApplyCancel, MY!ApplyBook
<1>5. myCredits' \in Nat \cup {None}
  BY <1>0 DEF MyCallTyped, MY!Apply, MY!ApplyLoad, MY!ApplyRead, MY!ApplyMe, MY!ApplyBalance,
              MY!SignedOut, MY!ApplyCancel, MY!ApplyBook
<1> QED BY <1>0, <1>3, <1>4, <1>5 DEF MyTypes, MyCallsTyped, MyCallTyped, MY!Alike

\* Whatever moves.
LEMMA MyTypeStep ==
  ASSUME [FrontNext]_allVars, screen = "bookings" => MyInv /\ MyTypes
  PROVE  (screen = "bookings" => MyTypes)'
<1>s. screen' = screen
  BY DEF FrontNext, allVars, CheckoutOnly, AccountsOnly, BookingsOnly, DeskOnly, CalendarOnly,
          SessionOnly, TrainerOnly
<1> SUFFICES ASSUME screen = "bookings", MyInv, MyTypes PROVE MyTypes'
  BY <1>s
<1>a. MY!MyBookingsAssumption
  BY FrontendAssumption DEF FrontendAssumption
<1>1. CASE UNCHANGED myVars
  BY <1>1 DEF myVars, MyTypes, MyCallsTyped, MyCallTyped, MY!Alike
<1> QED BY <1>a, <1>1, BookingsMoves, MyTypeLearner, MyTypeServer, MyTypeOthers, MyTypeApply

LEMMA BookingsTyped == FrontSpec => [](screen = "bookings" => MyTypes)
<1>1. FrontInit => (screen = "bookings" => MyTypes)
  BY FrontendAssumption, MyTypeInit DEF FrontendAssumption, FrontInit
<1> QED BY <1>1, BookingsKept, MyTypeStep, PTL DEF FrontSpec

\* The rest of the types is in the invariant of the page.
LEMMA MyTyped == MyInv /\ MyTypes => MY!TypeOK
<1> SUFFICES ASSUME MyInv, MyTypes PROVE MY!TypeOK
  OBVIOUS
<1>1. /\ myPage.at \in {"list", "session", "gone"} /\ myPage.ahead \subseteq HeldCopy
      /\ myPage.busy \in Booked \cup {None} /\ myPage.asking \in Booked \cup {None}
      /\ myPage.drawn \in MY!Ended..MY!Over
      /\ myPage.sid \in Booked \cup {None} /\ myPage.row \in MY!Row \cup {None}
  BY DEF MyInv, MyPageOK, MyPageType
<1>2. HeldCopy \subseteq MY!Copy
  BY DEF HeldCopy
<1>3. \A c, d \in myCalls : MY!Alike(c, d) /\ c.n = d.n => c = d
  BY DEF MyTypes, MyCallsTyped
<1> QED BY <1>1, <1>2, <1>3 DEF MY!TypeOK, MyInv, MyTypes

(***************************************************************************)
(* Types: desk                                                             *)
(***************************************************************************)

\* A transcript is generated by one request at a time: while it, or a read that
\* looks whether it is done, is under way there is no pause, and during a pause
\* there is a read left.
Generating(c) == c.op \in {"finalize", "poll"}
DeskPageTyped(p, taken) ==
  /\ DOMAIN p = DeskPage
  /\ p.kind \in DE!Kinds /\ p.filter \in Filters \cup {None} /\ p.of \in Filters \cup {None}
  /\ p.rows \subseteq Rows /\ p.busy \subseteq Rows
  /\ p.seen \in 0..taken /\ p.polls \in 0..MaxPolls
  /\ p.pause => p.finalizing /\ p.polls < MaxPolls
DeskCallTyped(c, taken) ==
  /\ DOMAIN c = DeskCall
  /\ c.row \in Rows \cup {None} /\ (c.op = "act" => c.row \in Rows)
  /\ c.filter \in Filters \cup {None} /\ c.rows \subseteq Rows /\ c.seen \in 0..taken
DeskCallsTyped(cs, taken) ==
  /\ IsFiniteSet(cs) /\ \A c \in cs : DeskCallTyped(c, taken)
  /\ \A c, d \in cs : c.n = d.n \/ (Generating(c) /\ Generating(d)) => c = d
DeskTypes ==
  /\ deServer \in [on : SUBSET Rows, taken : Nat]
  /\ DeskPageTyped(dePage, deServer.taken)
  /\ DeskCallsTyped(deCalls, deServer.taken)
  /\ \A c \in deCalls : Generating(c) => dePage.finalizing /\ ~dePage.pause

LEMMA NewTypedCall ==
  ASSUME NEW op, NEW row \in Rows \cup {None}, op = "act" => row \in Rows,
         NEW filter \in Filters \cup {None}, NEW taken \in Nat
  PROVE  DeskCallTyped(DE!Call(op, row, filter), taken) /\ DE!Call(op, row, filter).op = op
BY DEF DeskCallTyped, DE!Call, DeskCall

\* Requests dropped, answered, made.  A transcript asked for while none is being
\* generated is the only one.
LEMMA DeskRemoves ==
  ASSUME NEW cs, NEW taken, DeskCallsTyped(cs, taken), NEW c
  PROVE  DeskCallsTyped(cs \ {c}, taken)
<1>1. IsFiniteSet(cs \ {c})
  BY FS_RemoveElement DEF DeskCallsTyped
<1> QED BY <1>1 DEF DeskCallsTyped

LEMMA DeskReplaces ==
  ASSUME NEW cs, NEW taken \in Nat, DeskCallsTyped(cs, taken), NEW c \in cs,
         NEW more \in Nat, more >= taken, NEW d, DeskCallTyped(d, more), d.op = c.op, d.n = c.n
  PROVE  DeskCallsTyped((cs \ {c}) \cup {d}, more)
<1>1. IsFiniteSet((cs \ {c}) \cup {d})
  BY FS_RemoveElement, FS_AddElement DEF DeskCallsTyped
<1>2. \A e \in cs : DeskCallTyped(e, more)
  BY DEF DeskCallsTyped, DeskCallTyped
<1>3. ASSUME NEW e \in cs \ {c}
      PROVE  e.n # d.n /\ ~(Generating(e) /\ Generating(d))
  BY DEF DeskCallsTyped, Generating
<1> QED BY <1>1, <1>2, <1>3 DEF DeskCallsTyped

LEMMA DeskAdds ==
  ASSUME NEW cs, NEW taken, DeskCallsTyped(cs, taken), NEW c, DeskCallTyped(c, taken),
         Generating(c) => \A d \in cs : ~Generating(d)
  PROVE  /\ DeskCallsTyped(DE!Add(cs, c), taken)
         /\ \A d \in DE!Add(cs, c) : d \in cs \/ d.op = c.op
<1> DEFINE P(n) == \A d \in cs : d.n # n
           k == CHOOSE n \in 1..(DE!Cardinality(cs) + 1) : P(n)
           e == [c EXCEPT !.n = k]
<1>1. P(k)
  <2>1. \E n \in 1..(DE!Cardinality(cs) + 1) : P(n)
    BY FreshNumber, SameCount DEF DeskCallsTyped
  <2> HIDE DEF P
  <2> QED BY <2>1
<1>2. DE!Add(cs, c) = cs \cup {e}
  BY DEF DE!Add
<1> HIDE DEF k
<1>3. DeskCallTyped(e, taken) /\ e.op = c.op /\ e.n = k
  BY DEF DeskCallTyped, DeskCall
<1>4. ASSUME NEW d \in cs PROVE d.n # e.n /\ ~(Generating(d) /\ Generating(e))
  BY <1>1, <1>3 DEF Generating
<1>5. IsFiniteSet(cs \cup {e})
  BY FS_AddElement DEF DeskCallsTyped
<1> HIDE DEF e
<1> QED BY <1>2, <1>3, <1>4, <1>5 DEF DeskCallsTyped

LEMMA DeskTypeInit == DE!DeskAssumption /\ DE!Init => DeskTypes
<1> SUFFICES ASSUME DE!DeskAssumption, DE!Init PROVE DeskTypes
  OBVIOUS
<1>1. PICK kind \in DE!Kinds :
        /\ dePage = DE!Opened(kind)
        /\ deCalls = IF dePage.loading THEN DE!Add({}, DE!Load(None, dePage.filter)) ELSE {}
  BY DEF DE!Init
<1>2. deServer \in [on : SUBSET Rows, taken : Nat] /\ deServer.taken = 0
  BY DEF DE!Init
<1>3. DeskPageTyped(dePage, 0)
  <2>1. First \in Filters /\ MaxPolls \in Nat
    BY DEF DE!DeskAssumption
  <2> QED BY <1>1, <2>1 DEF DE!Opened, DeskPageTyped, DeskPage
<1>4. DeskCallsTyped({}, 0)
  BY FS_EmptySet DEF DeskCallsTyped
<1>5. DeskCallTyped(DE!Load(None, dePage.filter), 0) /\ DE!Load(None, dePage.filter).op = "load"
  BY <1>3, NewTypedCall DEF DE!Load, DeskPageTyped
<1>6. ~Generating(DE!Load(None, dePage.filter))
  BY <1>5 DEF Generating
<1>7. DeskCallsTyped(deCalls, 0) /\ \A d \in deCalls : ~Generating(d)
  <2>1. CASE dePage.loading
    BY <1>1, <1>4, <1>5, <1>6, <2>1, DeskAdds DEF Generating
  <2>2. CASE ~dePage.loading
    BY <1>1, <1>4, <2>2
  <2> QED BY <2>1, <2>2
<1> QED BY <1>2, <1>3, <1>7 DEF DeskTypes

\* A request sent; only generating, and looking whether it is done, touch the wait.
LEMMA DeskTypeSends ==
  ASSUME DeskTypes, NEW c, DeskCallTyped(c, deServer.taken), deCalls' = DE!Add(deCalls, c),
         deServer' = deServer, DeskPageTyped(dePage', deServer.taken),
         \/ /\ Generating(c) /\ (~dePage.finalizing \/ dePage.pause)
            /\ dePage'.finalizing /\ ~dePage'.pause
         \/ ~Generating(c) /\ dePage'.finalizing = dePage.finalizing /\ dePage'.pause = dePage.pause
  PROVE  DeskTypes'
<1>0. /\ DeskCallsTyped(deCalls, deServer.taken)
      /\ \A d \in deCalls : Generating(d) => dePage.finalizing /\ ~dePage.pause
  BY DEF DeskTypes
<1>1. Generating(c) => \A d \in deCalls : ~Generating(d)
  BY <1>0
<1>2. /\ DeskCallsTyped(deCalls', deServer.taken)
      /\ \A d \in deCalls' : d \in deCalls \/ d.op = c.op
  BY <1>0, <1>1, DeskAdds
<1>3. \A d \in deCalls' : Generating(d) => dePage'.finalizing /\ ~dePage'.pause
  BY <1>0, <1>2 DEF Generating
<1> QED BY <1>2, <1>3 DEF DeskTypes, DeskPageTyped, DeskCallsTyped, DeskCallTyped, Generating

\* The person at the desk, the timers and the others.
LEMMA DeskTypePerson ==
  ASSUME DE!DeskAssumption, DeskTypes,
         \/ DE!ChooseFilter \/ DE!HideRoster \/ DE!Type \/ DE!Debounced \/ DE!Refresh
              \/ DE!Finalize \/ DE!Poll
         \/ \E r \in Rows : DE!Press(r)
  PROVE  DeskTypes'
<1> DEFINE t == deServer.taken
<1>0. /\ DeskPageTyped(dePage, t) /\ t \in Nat /\ DOMAIN dePage = DeskPage
      /\ deServer \in [on : SUBSET Rows, taken : Nat] /\ MaxPolls \in Nat
      /\ DeskCallsTyped(deCalls, t)
      /\ \A d \in deCalls : Generating(d) => dePage.finalizing /\ ~dePage.pause
  BY DEF DeskTypes, DeskPageTyped, DE!DeskAssumption
<1> HIDE DEF t
<1>r. ASSUME NEW f \in Filters \cup {None}
      PROVE  LET p == DE!Read([dePage EXCEPT !.filter = f])
                 q == DE!Read([dePage EXCEPT !.timer = FALSE])
             IN  /\ DeskPageTyped(p, t) /\ p.finalizing = dePage.finalizing /\ p.pause = dePage.pause
                 /\ DeskPageTyped(q, t) /\ q.finalizing = dePage.finalizing /\ q.pause = dePage.pause
  BY <1>0, <1>r DEF DE!Read, DeskPageTyped, DeskPage
<1>l. ASSUME NEW f \in Filters \cup {None}
      PROVE  DeskCallTyped(DE!Load(None, f), t) /\ ~Generating(DE!Load(None, f))
  BY <1>0, <1>l, NewTypedCall DEF DE!Load, Generating
<1>1. CASE DE!ChooseFilter
  <2>1. PICK f \in Filters : /\ dePage' = DE!Read([dePage EXCEPT !.filter = f])
                             /\ deCalls' = DE!Add(deCalls, DE!Load(None, f))
                             /\ deServer' = deServer
    BY <1>1 DEF DE!ChooseFilter
  <2> QED BY <2>1, <1>l, <1>r, DeskTypeSends DEF t
<1>2. CASE DE!HideRoster
  <2>1. dePage' = [dePage EXCEPT !.filter = None, !.of = None] /\ UNCHANGED <<deServer, deCalls>>
    BY <1>2 DEF DE!HideRoster
  <2>2. /\ DeskPageTyped(dePage', t) /\ dePage'.finalizing = dePage.finalizing
        /\ dePage'.pause = dePage.pause
    BY <1>0, <2>1 DEF DeskPageTyped, DeskPage
  <2> QED BY <1>0, <2>1, <2>2 DEF DeskTypes, DeskPageTyped, DeskCallsTyped, DeskCallTyped, Generating, t
<1>3. CASE DE!Type
  <2>1. PICK f \in Filters : dePage' = [dePage EXCEPT !.filter = f, !.timer = TRUE]
    BY <1>3 DEF DE!Type
  <2>2. /\ DeskPageTyped(dePage', t) /\ dePage'.finalizing = dePage.finalizing
        /\ dePage'.pause = dePage.pause
    BY <1>0, <2>1 DEF DeskPageTyped, DeskPage
  <2>3. UNCHANGED <<deServer, deCalls>>
    BY <1>3 DEF DE!Type
  <2> QED BY <1>0, <2>2, <2>3 DEF DeskTypes, DeskPageTyped, DeskCallsTyped, DeskCallTyped, Generating, t
<1>4. CASE DE!Debounced
  <2>1. /\ dePage' = DE!Read([dePage EXCEPT !.timer = FALSE])
        /\ deCalls' = DE!Add(deCalls, DE!Load(None, dePage.filter)) /\ deServer' = deServer
    BY <1>4 DEF DE!Debounced
  <2>2. dePage.filter \in Filters \cup {None}
    BY <1>0 DEF DeskPageTyped
  <2> QED BY <2>1, <2>2, <1>l, <1>r, DeskTypeSends DEF t
<1>5. CASE DE!Refresh
  <2>1. /\ dePage' = DE!Read(dePage) /\ deServer' = deServer
        /\ deCalls' = DE!Add(deCalls, DE!Load(None, dePage.filter))
    BY <1>5 DEF DE!Refresh
  <2>2. dePage.filter \in Filters \cup {None}
    BY <1>0 DEF DeskPageTyped
  <2>3. /\ DeskPageTyped(dePage', t) /\ dePage'.finalizing = dePage.finalizing
        /\ dePage'.pause = dePage.pause
    BY <1>0, <2>1 DEF DE!Read, DeskPageTyped, DeskPage
  <2> QED BY <2>1, <2>2, <2>3, <1>l, DeskTypeSends DEF t
<1>6. CASE DE!Finalize
  <2> DEFINE c == DE!Call("finalize", None, dePage.filter)
  <2>1. /\ dePage' = [dePage EXCEPT !.finalizing = TRUE, !.polls = 0, !.error = FALSE, !.alone = DE!Alone]
        /\ deCalls' = DE!Add(deCalls, c)
        /\ deServer' = deServer /\ ~dePage.finalizing
    BY <1>6 DEF DE!Finalize
  <2>2. ~dePage.pause
    BY <1>0, <2>1 DEF DeskPageTyped
  <2>3. DeskPageTyped(dePage', t) /\ dePage'.finalizing /\ ~dePage'.pause
    BY <1>0, <2>1, <2>2 DEF DeskPageTyped, DeskPage
  <2>4. DeskCallTyped(c, t) /\ Generating(c)
    BY <1>0, NewTypedCall DEF Generating, DeskPageTyped
  <2> HIDE DEF c
  <2> QED BY <2>1, <2>3, <2>4, DeskTypeSends DEF t
<1>7. CASE DE!Poll
  <2> DEFINE c == DE!Call("poll", None, dePage.filter)
  <2>1. /\ dePage' = [dePage EXCEPT !.pause = FALSE, !.polls = @ + 1, !.alone = DE!Alone]
        /\ deCalls' = DE!Add(deCalls, c)
        /\ deServer' = deServer /\ dePage.pause
    BY <1>7 DEF DE!Poll
  <2>2. dePage.finalizing /\ dePage.polls + 1 \in 0..MaxPolls
    BY <1>0, <2>1 DEF DeskPageTyped
  <2>3. DeskPageTyped(dePage', t) /\ dePage'.finalizing /\ ~dePage'.pause
    BY <1>0, <2>1, <2>2 DEF DeskPageTyped, DeskPage
  <2>4. DeskCallTyped(c, t) /\ Generating(c)
    BY <1>0, NewTypedCall DEF Generating, DeskPageTyped
  <2> HIDE DEF c
  <2> QED BY <2>1, <2>3, <2>4, DeskTypeSends DEF t
<1>8. ASSUME NEW r \in Rows, DE!Press(r) PROVE DeskTypes'
  <2> DEFINE error == dePage.error /\ \/ dePage.kind \notin DE!PressClears
                                      \/ dePage.kind = "calendar" /\ r \in dePage.rows
             c == [DE!Call("act", r, dePage.filter) EXCEPT !.turn = r \notin dePage.rows]
  <2>1. /\ dePage' = [dePage EXCEPT !.busy = DE!Holding(r), !.alone = DE!Alone, !.error = error]
        /\ deCalls' = DE!Add(deCalls, c) /\ deServer' = deServer
    BY <1>0, <1>8 DEF DE!Press, DeskPage
  <2>2. DE!Holding(r) \subseteq Rows
    BY <1>0 DEF DE!Holding, DeskPageTyped
  <2> HIDE DEF error
  <2>3. /\ DeskPageTyped(dePage', t) /\ dePage'.finalizing = dePage.finalizing
        /\ dePage'.pause = dePage.pause
    BY <1>0, <2>1, <2>2 DEF DeskPageTyped, DeskPage
  <2>4. DeskCallTyped(c, t) /\ ~Generating(c)
    <3> DEFINE new == DE!Call("act", r, dePage.filter)
               turn == r \notin dePage.rows
    <3>1. DeskCallTyped(new, t) /\ new.op = "act"
      BY <1>0, NewTypedCall DEF DeskPageTyped
    <3> HIDE DEF new, turn
    <3>2. LET d == [new EXCEPT !.turn = turn] IN DeskCallTyped(d, t) /\ ~Generating(d)
      BY <3>1 DEF DeskCallTyped, DeskCall, Generating
    <3> QED BY <3>2 DEF new, turn
  <2> HIDE DEF c
  <2> QED BY <2>1, <2>3, <2>4, DeskTypeSends DEF t
<1> QED BY <1>1, <1>2, <1>3, <1>4, <1>5, <1>6, <1>7, <1>8

\* An answer in the place of its question.
LEMMA DeskTypeReplaces ==
  ASSUME DeskTypes, NEW c \in deCalls, NEW d, DeskCallTyped(d, deServer'.taken),
         d.op = c.op, d.n = c.n, deCalls' = (deCalls \ {c}) \cup {d}, dePage' = dePage,
         deServer' \in [on : SUBSET Rows, taken : Nat], deServer'.taken >= deServer.taken
  PROVE  DeskTypes'
<1>1. deServer.taken \in Nat /\ deServer'.taken \in Nat
  BY DEF DeskTypes
<1>2. DeskCallsTyped(deCalls', deServer'.taken)
  BY <1>1, DeskReplaces DEF DeskTypes
<1>3. DeskPageTyped(dePage', deServer'.taken)
  BY <1>1 DEF DeskTypes, DeskPageTyped
<1>4. \A e \in deCalls' : Generating(e) => dePage.finalizing /\ ~dePage.pause
  BY DEF DeskTypes, Generating
<1> QED BY <1>2, <1>3, <1>4 DEF DeskTypes, DeskPageTyped, DeskCallsTyped, DeskCallTyped, Generating

\* The server: what was read is as old as the last change at most.
LEMMA DeskTypeServer ==
  ASSUME DE!DeskAssumption, DeskTypes, DE!OthersAct \/ \E c \in deCalls : DE!Answer(c) \/ DE!Fail(c)
  PROVE  DeskTypes'
<1> DEFINE t == deServer.taken
<1>0. /\ deServer \in [on : SUBSET Rows, taken : Nat] /\ t \in Nat /\ deServer.on \subseteq Rows
      /\ \A c \in deCalls : DeskCallTyped(c, t)
  BY DEF DeskTypes, DeskCallsTyped
<1>1. CASE DE!OthersAct
  <2>1. PICK r \in Rows : deServer' = [deServer EXCEPT !.on = IF r \in @ THEN @ \ {r} ELSE @ \cup {r}]
    BY <1>1 DEF DE!OthersAct
  <2>2. deServer' \in [on : SUBSET Rows, taken : Nat] /\ deServer'.taken = t
    BY <1>0, <2>1
  <2>3. UNCHANGED <<dePage, deCalls>>
    BY <1>1 DEF DE!OthersAct
  <2> QED BY <2>2, <2>3 DEF DeskTypes, DeskPageTyped, DeskCallsTyped, DeskCallTyped, Generating
<1>2. ASSUME NEW c \in deCalls, DE!AnswerRead(c) PROVE DeskTypes'
  <2> DEFINE d == [c EXCEPT !.ans = "ok", !.rows = deServer.on, !.seen = t]
  <2>1. deCalls' = (deCalls \ {c}) \cup {d} /\ UNCHANGED <<deServer, dePage>>
    BY <1>2 DEF DE!AnswerRead
  <2>2. DeskCallTyped(c, t)
    BY <1>0
  <2> HIDE DEF t
  <2>3. DeskCallTyped(d, t) /\ d.op = c.op /\ d.n = c.n
    BY <1>0, <2>2 DEF DeskCallTyped, DeskCall
  <2> HIDE DEF d
  <2>4. deServer'.taken = t /\ t >= t
    BY <1>0, <2>1 DEF t
  <2> QED BY <1>0, <2>1, <2>3, <2>4, DeskTypeReplaces DEF t
<1>3. ASSUME NEW c \in deCalls, DE!AnswerAct(c) PROVE DeskTypes'
  <2> DEFINE on == deServer'.on
             u == deServer'.taken
             d == [c EXCEPT !.ans = "ok", !.rows = on, !.seen = u]
  <2>1. deCalls' = (deCalls \ {c}) \cup {d} /\ dePage' = dePage
    BY <1>3 DEF DE!AnswerAct
  <2>2. DeskCallTyped(c, t)
    BY <1>0
  <2>3. deServer' \in [on : SUBSET Rows, taken : Nat] /\ u = t + 1 /\ on \subseteq Rows
    <3>1. c.op = "act" => c.row \in Rows
      BY <2>2 DEF DeskCallTyped
    <3>2. \/ deServer' = [on |-> deServer.on, taken |-> t + 1]
          \/ c.op = "act" /\ \/ deServer' = [on |-> deServer.on \cup {c.row}, taken |-> t + 1]
                             \/ deServer' = [on |-> deServer.on \ {c.row}, taken |-> t + 1]
      BY <1>3 DEF DE!AnswerAct
    <3> QED BY <1>0, <3>1, <3>2
  <2> HIDE DEF t, u, on
  <2>4. DeskCallTyped(d, u) /\ d.op = c.op /\ d.n = c.n
    BY <1>0, <2>2, <2>3 DEF DeskCallTyped, DeskCall
  <2>5. u >= t
    BY <1>0, <2>3
  <2> HIDE DEF d
  <2> QED BY <2>1, <2>3, <2>4, <2>5, DeskTypeReplaces DEF t, u
<1>4. ASSUME NEW c \in deCalls, DE!Fail(c) PROVE DeskTypes'
  <2> DEFINE d == [c EXCEPT !.ans = "error"]
  <2>1. deCalls' = (deCalls \ {c}) \cup {d} /\ UNCHANGED <<deServer, dePage>>
    BY <1>4 DEF DE!Fail
  <2>2. DeskCallTyped(c, t)
    BY <1>0
  <2> HIDE DEF t
  <2>3. DeskCallTyped(d, t) /\ d.op = c.op /\ d.n = c.n
    BY <1>0, <2>2 DEF DeskCallTyped, DeskCall
  <2> HIDE DEF d
  <2>4. deServer'.taken = t /\ t >= t
    BY <1>0, <2>1 DEF t
  <2> QED BY <1>0, <2>1, <2>3, <2>4, DeskTypeReplaces DEF t
<1> QED BY <1>1, <1>2, <1>3, <1>4 DEF DE!Answer

\* An answer applied.
LEMMA DeskTypeApplies ==
  ASSUME DeskTypes, NEW c \in deCalls, deCalls' = deCalls \ {c}, deServer' = deServer,
         DeskPageTyped(dePage', deServer.taken),
         \/ Generating(c)
         \/ dePage'.finalizing = dePage.finalizing /\ dePage'.pause = dePage.pause
  PROVE  DeskTypes'
<1>1. DeskCallsTyped(deCalls', deServer.taken)
  BY DeskRemoves DEF DeskTypes
<1>2. \A d \in deCalls' : Generating(d) => dePage'.finalizing /\ ~dePage'.pause
  BY DEF DeskTypes, DeskCallsTyped
<1> QED BY <1>1, <1>2 DEF DeskTypes, DeskPageTyped, DeskCallsTyped, DeskCallTyped, Generating

\* A page that is shown something, or frees a button.
LEMMA FreedTyped ==
  ASSUME NEW t, NEW p, DeskPageTyped(p, t), NEW r
  PROVE  LET q == DE!Freed(p, r)
         IN  DeskPageTyped(q, t) /\ q.finalizing = p.finalizing /\ q.pause = p.pause
<1> DEFINE busy == IF p.kind \in {"instructors", "new"} THEN p.busy \ {r} ELSE {}
<1>1. DE!Freed(p, r) = p \/ DE!Freed(p, r) = [p EXCEPT !.busy = busy]
  BY DEF DE!Freed
<1>2. busy \subseteq Rows
  BY DEF DeskPageTyped
<1> HIDE DEF busy
<1> QED BY <1>1, <1>2 DEF DeskPageTyped, DeskPage

LEMMA ShowingTyped ==
  ASSUME NEW t, NEW p, DeskPageTyped(p, t), NEW c, DeskCallTyped(c, t)
  PROVE  LET q == DE!Showing(p, c)
         IN  DeskPageTyped(q, t) /\ q.finalizing = p.finalizing /\ q.pause = p.pause
BY DEF DE!Showing, DeskPageTyped, DeskCallTyped, DeskPage

\* The second halves: a pause begins when the answer it follows is dealt with.
LEMMA DeskTypeApply ==
  ASSUME DE!DeskAssumption, DeskTypes, NEW c \in deCalls, DE!Apply(c)
  PROVE  DeskTypes'
<1> DEFINE t == deServer.taken
<1>0. /\ DeskPageTyped(dePage, t) /\ t \in Nat /\ DOMAIN dePage = DeskPage
      /\ DeskCallTyped(c, t) /\ MaxPolls \in Nat
  BY DEF DeskTypes, DeskPageTyped, DeskCallsTyped, DE!DeskAssumption
<1> HIDE DEF t
<1>s. LET q == DE!Showing(dePage, c)
      IN  DeskPageTyped(q, t) /\ q.finalizing = dePage.finalizing /\ q.pause = dePage.pause
  BY <1>0, ShowingTyped
<1>1. CASE DE!ApplyLoad(c)
  <2> DEFINE p == [dePage EXCEPT !.error = TRUE, !.loading = FALSE]
             shown == DE!Showing(dePage, c)
             q == [shown EXCEPT !.error = @ /\ dePage.kind \notin DE!LoadClears, !.loading = FALSE]
  <2>1. DeskPageTyped(p, t) /\ p.finalizing = dePage.finalizing /\ p.pause = dePage.pause
    BY <1>0 DEF DeskPageTyped, DeskPage
  <2>2. deCalls' = deCalls \ {c} /\ deServer' = deServer
          /\ (dePage' = DE!Freed(p, c.row) \/ dePage' = DE!Freed(q, c.row))
    BY <1>1 DEF DE!ApplyLoad
  <2> HIDE DEF shown
  <2>3. DeskPageTyped(q, t) /\ q.finalizing = dePage.finalizing /\ q.pause = dePage.pause
    BY <1>s DEF DeskPageTyped, DeskPage, shown
  <2> HIDE DEF p, q
  <2>4. DeskPageTyped(dePage', t) /\ dePage'.finalizing = dePage.finalizing
          /\ dePage'.pause = dePage.pause
    BY <2>1, <2>2, <2>3, FreedTyped
  <2> QED BY <2>2, <2>4, DeskTypeApplies DEF t
<1>2. CASE DE!ApplyAct(c)
  <2> DEFINE spin == dePage.kind \in {"sessions", "messages"}
             loading == dePage.loading \/ spin
             p == [dePage EXCEPT !.error = TRUE]
             more == [dePage EXCEPT !.loading = loading]
             away == [dePage EXCEPT !.gone = TRUE]
             shown == DE!Showing(dePage, c)
             new == DE!Load(c.row, c.filter)
  <2>1. /\ deServer' = deServer
        /\ \/ /\ deCalls' = deCalls \ {c}
              /\ dePage' = DE!Freed(p, c.row) \/ dePage' = away \/ dePage' = DE!Freed(shown, c.row)
           \/ deCalls' = DE!Add(deCalls \ {c}, new) /\ dePage' = more
    BY <1>0, <1>2 DEF DE!ApplyAct, DeskPage
  <2> HIDE DEF loading
  <2>2. /\ DeskPageTyped(p, t) /\ p.finalizing = dePage.finalizing /\ p.pause = dePage.pause
        /\ DeskPageTyped(more, t) /\ more.finalizing = dePage.finalizing /\ more.pause = dePage.pause
        /\ DeskPageTyped(away, t) /\ away.finalizing = dePage.finalizing /\ away.pause = dePage.pause
    BY <1>0 DEF DeskPageTyped, DeskPage
  <2> HIDE DEF p, more, away
  <2>3. DeskPageTyped(dePage', t) /\ dePage'.finalizing = dePage.finalizing
          /\ dePage'.pause = dePage.pause
    BY <1>s, <2>1, <2>2, FreedTyped
  <2>4. CASE deCalls' = deCalls \ {c}
    BY <2>1, <2>3, <2>4, DeskTypeApplies DEF t
  <2>5. CASE deCalls' = DE!Add(deCalls \ {c}, new)
    <3>0. c.row \in Rows \cup {None} /\ c.filter \in Filters \cup {None}
      BY <1>0 DEF DeskCallTyped
    <3>1. DeskCallTyped(new, t) /\ ~Generating(new)
      BY <1>0, <3>0, NewTypedCall DEF DE!Load, Generating
    <3>2. DeskCallsTyped(deCalls \ {c}, t)
      BY DeskRemoves DEF DeskTypes, t
    <3> HIDE DEF new
    <3>3. /\ DeskCallsTyped(deCalls', t)
          /\ \A d \in deCalls' : d \in deCalls \/ d.op = new.op
      BY <2>5, <3>1, <3>2, DeskAdds
    <3>4. \A d \in deCalls' : Generating(d) => dePage'.finalizing /\ ~dePage'.pause
      BY <2>3, <3>1, <3>3 DEF DeskTypes, Generating
    <3> QED BY <2>1, <2>3, <3>3, <3>4 DEF DeskTypes, DeskPageTyped, DeskCallsTyped, DeskCallTyped,
                Generating, t
  <2> QED BY <2>1, <2>4, <2>5
<1>3. CASE DE!ApplyFinalize(c)
  <2> DEFINE p == IF c.ans = "error" THEN [dePage EXCEPT !.error = TRUE]
                  ELSE IF c.op = "poll" THEN DE!Showing(dePage, c) ELSE dePage
  <2>1. /\ Generating(c) /\ deCalls' = deCalls \ {c} /\ deServer' = deServer
        /\ \/ dePage' = [p EXCEPT !.finalizing = FALSE]
           \/ dePage' = [p EXCEPT !.finalizing = FALSE, !.error = TRUE]
           \/ dePage.polls # MaxPolls /\ dePage' = [p EXCEPT !.pause = TRUE]
    BY <1>3 DEF DE!ApplyFinalize, Generating
  <2>2. dePage.finalizing /\ ~dePage.pause
    BY <2>1 DEF DeskTypes
  <2>3. DeskPageTyped(p, t) /\ p.finalizing /\ ~p.pause /\ p.polls = dePage.polls
    <3>1. CASE p = [dePage EXCEPT !.error = TRUE]
      BY <1>0, <2>2, <3>1 DEF DeskPageTyped, DeskPage
    <3>2. CASE p = dePage
      BY <1>0, <2>2, <3>2
    <3>3. CASE p = DE!Showing(dePage, c)
      <4>1. DE!Showing(dePage, c).polls = dePage.polls
        BY <1>0 DEF DE!Showing, DeskPage
      <4> QED BY <1>s, <2>2, <3>3, <4>1
    <3> QED BY <3>1, <3>2, <3>3
  <2> HIDE DEF p
  <2>4. DeskPageTyped(dePage', t)
    <3>1. dePage.polls # MaxPolls => p.polls < MaxPolls
      BY <1>0, <2>3 DEF DeskPageTyped
    <3> QED BY <2>1, <2>3, <3>1 DEF DeskPageTyped, DeskPage
  <2> QED BY <2>1, <2>4, DeskTypeApplies DEF t
<1> QED BY <1>1, <1>2, <1>3 DEF DE!Apply

\* Whatever moves.
LEMMA DeskTypeStep ==
  ASSUME [FrontNext]_allVars, screen = "desk" => DeskTypes
  PROVE  (screen = "desk" => DeskTypes)'
<1>s. screen' = screen
  BY DEF FrontNext, allVars, CheckoutOnly, AccountsOnly, BookingsOnly, DeskOnly, CalendarOnly,
          SessionOnly, TrainerOnly
<1> SUFFICES ASSUME screen = "desk", DeskTypes PROVE DeskTypes'
  BY <1>s
<1>a. DE!DeskAssumption
  BY FrontendAssumption DEF FrontendAssumption
<1>1. CASE UNCHANGED deVars
  BY <1>1 DEF deVars, DeskTypes, DeskPageTyped, DeskCallsTyped, DeskCallTyped, Generating
<1> QED BY <1>a, <1>1, DeskMoves, DeskTypePerson, DeskTypeServer, DeskTypeApply

LEMMA DeskTyped == FrontSpec => [](screen = "desk" => DeskTypes)
<1>1. FrontInit => (screen = "desk" => DeskTypes)
  BY FrontendAssumption, DeskTypeInit DEF FrontendAssumption, FrontInit
<1> QED BY <1>1, DeskTypeStep, PTL DEF FrontSpec

LEMMA DeskTypedOK == DeskTypes => DE!TypeOK
BY DEF DeskTypes, DeskPageTyped, DeskCallsTyped, DE!TypeOK

(***************************************************************************)
(* Types: calendar                                                         *)
(***************************************************************************)

\* A set of numbers that is bounded below has a least one.
LEMMA Least ==
  ASSUME NEW b \in Int, NEW T \in SUBSET Int, T # {}, \A x \in T : b <= x
  PROVE  \E x \in T : \A y \in T : x <= y
<1> DEFINE R == OpToRel(<, Nat)
           S == {x - b : x \in T}
<1>1. \A x, y \in Nat : y < x => <<y, x>> \in R
  BY DEF OpToRel
<1>2. IsWellFoundedOn(R, Nat)
  BY NatLessThanWellFounded DEF R
<1>3. S \subseteq Nat /\ S # {}
  <2>1. ASSUME NEW x \in T PROVE x - b \in Nat
    <3>1. x \in Int /\ b <= x
      OBVIOUS
    <3> QED BY <3>1
  <2>2. S # {}
    <3>1. PICK x \in T : TRUE
      OBVIOUS
    <3>2. x - b \in S
      OBVIOUS
    <3> QED BY <3>2
  <2> QED BY <2>1
<1> HIDE DEF R, S
<1>4. PICK m \in S : \A n \in S : ~ (<<n, m>> \in R)
  BY <1>2, <1>3, WFMin
<1>5. PICK x \in T : m = x - b
  BY <1>4 DEF S
<1>6. ASSUME NEW y \in T PROVE x <= y
  <2>1. y - b \in S /\ y - b \in Nat /\ m \in Nat
    BY <1>3, <1>4 DEF S
  <2>2. ~ (y - b < m)
    BY <2>1, <1>1, <1>4
  <2> QED BY <2>1, <2>2, <1>5
<1> QED BY <1>6

\* What is on screen: days with something open; at most one read is not called off.
CalShown(p) ==
  /\ DOMAIN p = CalPage /\ p.view \in Int
  /\ p.date \in Int \cup {None} /\ p.slot \in Times \cup {None}
  /\ \A d \in DOMAIN p.byDate : d \in Int /\ p.byDate[d] \subseteq Times /\ p.byDate[d] # {}
CalTypes ==
  /\ CalShown(caPage) /\ \A c \in caCalls : c.times \subseteq Times
  /\ \A c, d \in caCalls : c.live /\ d.live => c = d

LEMMA CalShownAs ==
  ASSUME NEW p, CalShown(p), NEW q, DOMAIN q = CalPage, q.view \in Int, q.byDate = p.byDate,
         q.date \in {p.date, None} \cup DOMAIN p.byDate, q.slot \in Times \cup {None}
  PROVE  CalShown(q)
BY DEF CalShown

\* The day a page lands on is one with something open, or none.
LEMMA CalLanded ==
  ASSUME CA!CalendarAssumption, NEW p, CalShown(p)
  PROVE  CalShown(CA!Landed(p))
<1> DEFINE ds == {d \in DOMAIN p.byDate : CA!MonthOf(d) = p.view}
           date == IF p.date \in DOMAIN p.byDate THEN p.date ELSE CA!Earliest(ds)
           slot == IF date = p.date THEN p.slot ELSE None
           q == [p EXCEPT !.date = date, !.slot = slot]
<1>1. ds \in SUBSET Int /\ p.view \in Int
  BY DEF CalShown
<1>2. date \in {p.date, None} \cup DOMAIN p.byDate
  <2>1. ASSUME ds # {} PROVE CA!Earliest(ds) \in ds
    <3>1. CA!FirstDay(p.view) \in Int
      BY <1>1, <2>1, InMonth
    <3>2. \A x \in ds : CA!FirstDay(p.view) <= x
      BY <1>1, InMonth
    <3>3. \E x \in ds : \A y \in ds : x <= y
      <4> HIDE DEF ds
      <4> QED BY <1>1, <2>1, <3>1, <3>2, Least
    <3> HIDE DEF ds
    <3> QED BY <2>1, <3>3 DEF CA!Earliest
  <2>2. ds = {} => CA!Earliest(ds) = None
    BY DEF CA!Earliest
  <2> QED BY <2>1, <2>2
<1>3. CA!Landed(p) = q
  BY DEF CA!Landed, CalShown, CalPage
<1>4. slot \in Times \cup {None}
  BY DEF CalShown
<1> HIDE DEF date, slot
<1>5. DOMAIN q = CalPage /\ q.view = p.view /\ q.byDate = p.byDate /\ q.date = date /\ q.slot = slot
  BY DEF CalShown, CalPage
<1> HIDE DEF q
<1> QED BY <1>1, <1>2, <1>3, <1>4, <1>5, CalShownAs

\* Times sorted into days: every day named has a time.
LEMMA CalGrouped ==
  ASSUME CA!CalendarAssumption, NEW ts, ts \subseteq Times, NEW zone \in Zones
  PROVE  LET days == CA!Grouped(ts, zone)
         IN  \A d \in DOMAIN days : d \in Int /\ days[d] \subseteq Times /\ days[d] # {}
<1> DEFINE days == CA!Grouped(ts, zone)
<1> SUFFICES ASSUME NEW d \in DOMAIN days
             PROVE  d \in Int /\ days[d] \subseteq Times /\ days[d] # {}
  OBVIOUS
<1>1. PICK t \in ts : d = CA!DateKey(t, zone)
  BY DEF CA!Grouped
<1>2. days[d] = {u \in ts : CA!DateKey(u, zone) = d}
  BY DEF CA!Grouped
<1>3. t \in Int
  <2>1. Times \subseteq Int /\ t \in Times
    BY DEF CA!CalendarAssumption
  <2> QED BY ONLY <2>1
<1> HIDE DEF days
<1> QED BY <1>1, <1>2, <1>3, DayApart

\* The request just made is the only one that is not called off.
LEMMA CalAdds ==
  ASSUME NEW cs, \A c \in cs : ~c.live /\ c.times \subseteq Times, NEW p
  PROVE  LET all == CA!Add(cs, CA!Call(p))
         IN  /\ \A c \in all : c.times \subseteq Times
             /\ \A c, d \in all : c.live /\ d.live => c = d
<1> DEFINE k == CHOOSE n \in 1..(CA!Cardinality(cs) + 1) : \A d \in cs : CA!Alike(CA!Call(p), d) => d.n # n
           new == [CA!Call(p) EXCEPT !.n = k]
<1>1. CA!Add(cs, CA!Call(p)) = cs \cup {new}
  BY DEF CA!Add
<1> HIDE DEF k
<1>2. new.times = {}
  BY DEF CA!Call
<1> HIDE DEF new
<1> QED BY <1>1, <1>2

LEMMA CalTypeInit == CA!CalendarAssumption /\ CA!Init => CalTypes
<1> SUFFICES ASSUME CA!CalendarAssumption, CA!Init PROVE CalTypes
  OBVIOUS
<1>0. CalInv
  BY InitCalendar
<1>1. /\ caPage.byDate = [d \in {} |-> {}] /\ caPage.date = None /\ caPage.slot = None
      /\ caCalls = CA!Add({}, CA!Call(caPage))
  BY DEF CA!Init
<1>2. CalShown(caPage)
  BY <1>0, <1>1 DEF CalShown, CalInv
<1> QED BY <1>1, <1>2, CalAdds DEF CalTypes

\* A new read calls off the others.
LEMMA CalTypeReads ==
  ASSUME CalInv, CalTypes, NEW p, CalShown(p), CA!Load(p)
  PROVE  CalTypes'
<1>1. caPage' = [p EXCEPT !.loading = TRUE, !.error = FALSE]
        /\ caCalls' = CA!Add(CA!Superseded(caCalls), CA!Call(p))
  BY DEF CA!Load
<1>2. CalShown(caPage')
  BY <1>1 DEF CalShown, CalPage
<1>3. ASSUME NEW c \in CA!Superseded(caCalls) PROVE ~c.live /\ c.times \subseteq Times
  <2>1. PICK d \in caCalls : c = [d EXCEPT !.live = FALSE]
    BY DEF CA!Superseded
  <2>2. CalCallOK(d) /\ d.times \subseteq Times
    BY DEF CalInv, CalTypes
  <2> QED BY <2>1, <2>2 DEF CalCallOK
<1>4. /\ \A c \in caCalls' : c.times \subseteq Times
      /\ \A c, d \in caCalls' : c.live /\ d.live => c = d
  BY <1>1, <1>3, CalAdds
<1> QED BY <1>2, <1>4 DEF CalTypes, CalShown

\* The reader.
LEMMA CalTypeReader ==
  ASSUME CA!CalendarAssumption, CalInv, CalTypes, CA!ChooseZone \/ CA!Turn \/ CA!Pick \/ CA!ChooseSlot
           \/ CA!Confirm
  PROVE  CalTypes'
<1>0. DOMAIN caPage = CalPage /\ caPage.view \in Int /\ CalShown(caPage)
  BY DEF CalInv, CalTypes
<1>k. ASSUME NEW p, CalShown(p), caPage' = p, caCalls' = caCalls PROVE CalTypes'
  BY <1>k DEF CalTypes, CalShown
<1>1. CASE CA!ChooseZone
  <2>1. PICK zone \in Zones :
          LET there == CA!MonthOf(CA!Today(zone)) IN
          CA!Load([caPage EXCEPT !.zone = zone, !.today = CA!Today(zone), !.slot = None,
                                 !.view = IF @ < there THEN there ELSE @])
    BY <1>1 DEF CA!ChooseZone
  <2> DEFINE there == CA!MonthOf(CA!Today(zone))
             view == IF caPage.view < there THEN there ELSE caPage.view
             p == [caPage EXCEPT !.zone = zone, !.today = CA!Today(zone), !.slot = None, !.view = view]
  <2>2. there \in Int
    <3>1. Now \in Int /\ MonthLen \in Nat \ {0}
      BY DEF CA!CalendarAssumption
    <3>2. CA!Today(zone) \in Int
      BY <3>1, DayApart DEF CA!Today
    <3> QED BY <3>1, <3>2 DEF CA!MonthOf
  <2>3. CA!Load(p)
    BY <1>0, <2>1 DEF CalPage
  <2>4. view \in Int
    BY <1>0, <2>2
  <2> HIDE DEF view
  <2>5. DOMAIN p = CalPage /\ p.view \in Int /\ p.byDate = caPage.byDate /\ p.date = caPage.date
          /\ p.slot = None
    BY <1>0, <2>4 DEF CalPage
  <2> HIDE DEF p
  <2>6. CalShown(p)
    BY <1>0, <2>5, CalShownAs
  <2> QED BY <2>3, <2>6, CalTypeReads
<1>2. CASE CA!Turn
  <2>1. PICK m \in {caPage.view - 1, caPage.view + 1} :
          LET p == [caPage EXCEPT !.view = m] IN CA!Load(IF caPage.loading THEN p ELSE CA!Landed(p))
    BY <1>2 DEF CA!Turn
  <2> DEFINE p == [caPage EXCEPT !.view = m]
  <2>2. CalShown(p)
    BY <1>0, <2>1 DEF CalShown, CalPage
  <2>3. CA!Load(p) \/ CA!Load(CA!Landed(p))
    BY <2>1
  <2> HIDE DEF p
  <2> QED BY <2>2, <2>3, CalLanded, CalTypeReads
<1>3. CASE CA!Pick
  <2>1. PICK d \in DOMAIN caPage.byDate : caPage' = [caPage EXCEPT !.date = d, !.slot = None]
          /\ UNCHANGED caCalls
    BY <1>3 DEF CA!Pick
  <2>2. DOMAIN caPage' = CalPage /\ caPage'.view \in Int /\ caPage'.byDate = caPage.byDate
          /\ caPage'.date = d /\ caPage'.slot = None
    BY <1>0, <2>1 DEF CalPage
  <2>3. CalShown(caPage')
    BY <1>0, <2>2, CalShownAs
  <2> QED BY <1>k, <2>1, <2>3
<1>4. CASE CA!ChooseSlot
  <2>1. PICK t \in CA!Slots : caPage' = [caPage EXCEPT !.slot = IF @ = t THEN None ELSE t]
          /\ UNCHANGED caCalls
    BY <1>4 DEF CA!ChooseSlot
  <2>2. t \in Times
    BY <1>0 DEF CA!Slots, CalShown
  <2> DEFINE slot == IF caPage.slot = t THEN None ELSE t
  <2>3. caPage' = [caPage EXCEPT !.slot = slot]
    BY <1>0, <2>1 DEF CalPage
  <2>4. slot \in Times \cup {None}
    BY <2>2
  <2> HIDE DEF slot
  <2>5. DOMAIN caPage' = CalPage /\ caPage'.view \in Int /\ caPage'.byDate = caPage.byDate
          /\ caPage'.date = caPage.date /\ caPage'.slot = slot
    BY <1>0, <2>3 DEF CalPage
  <2>6. CalShown(caPage')
    BY <1>0, <2>4, <2>5, CalShownAs
  <2> QED BY <1>k, <2>1, <2>6
<1>5. CASE CA!Confirm
  <2>1. caPage' = [caPage EXCEPT !.gone = TRUE] /\ UNCHANGED caCalls
    BY <1>5 DEF CA!Confirm
  <2>2. CalShown(caPage')
    BY <1>0, <2>1 DEF CalShown, CalPage
  <2> QED BY <1>k, <2>1, <2>2
<1> QED BY <1>1, <1>2, <1>3, <1>4, <1>5

\* What others book, and the reads that come back.
LEMMA CalTypeSlots ==
  ASSUME CA!CalendarAssumption, CalInv, CalTypes, CA!OthersBook \/ \E c \in caCalls : CA!Answer(c)
           \/ CA!Fail(c) \/ CA!Apply(c)
  PROVE  CalTypes'
<1>0. /\ caOpen \subseteq Times /\ CalShown(caPage) /\ DOMAIN caPage = CalPage
      /\ \A c \in caCalls : CalCallOK(c) /\ c.times \subseteq Times
      /\ \A c, d \in caCalls : c.live /\ d.live => c = d
  BY DEF CalInv, CalTypes
<1>r. ASSUME NEW c \in caCalls, NEW d, d.times \subseteq Times, d.live = c.live,
             caCalls' = (caCalls \ {c}) \cup {d}, caPage' = caPage
      PROVE  CalTypes'
  BY <1>0, <1>r DEF CalTypes, CalShown
<1>1. CASE CA!OthersBook
  BY <1>1 DEF CA!OthersBook, CalTypes, CalShown
<1>2. ASSUME NEW c \in caCalls, CA!Answer(c) PROVE CalTypes'
  <2> DEFINE times == CA!Availability(CA!From(c.view), CA!Days)
             d == [c EXCEPT !.ans = "ok", !.all = caOpen, !.times = times]
  <2>1. caCalls' = (caCalls \ {c}) \cup {d} /\ UNCHANGED caPage
    BY <1>2 DEF CA!Answer
  <2>2. times \subseteq Times
    BY <1>0 DEF CA!Availability
  <2>3. CalCallOK(c)
    BY <1>0
  <2> HIDE DEF times
  <2>4. d.times \subseteq Times /\ d.live = c.live
    BY <2>2, <2>3 DEF CalCallOK
  <2> HIDE DEF d
  <2> QED BY <1>r, <2>1, <2>4
<1>3. ASSUME NEW c \in caCalls, CA!Fail(c) PROVE CalTypes'
  <2> DEFINE d == [c EXCEPT !.ans = "error"]
  <2>1. caCalls' = (caCalls \ {c}) \cup {d} /\ UNCHANGED caPage
    BY <1>3 DEF CA!Fail
  <2>2. d.times = c.times /\ d.live = c.live /\ c.times \subseteq Times
    BY <1>0
  <2> HIDE DEF d
  <2> QED BY <1>r, <2>1, <2>2
<1>4. ASSUME NEW c \in caCalls, CA!Apply(c) PROVE CalTypes'
  <2> DEFINE p == [caPage EXCEPT !.error = TRUE, !.loading = FALSE]
             q == [caPage EXCEPT !.byDate = CA!Grouped(c.times, c.zone), !.loading = FALSE,
                                 !.read = [zone |-> c.zone, view |-> c.view], !.all = c.all]
  <2>1. /\ caCalls' = caCalls \ {c}
        /\ caPage' = caPage \/ caPage' = CA!Landed(p) \/ caPage' = CA!Landed(q)
    BY <1>4 DEF CA!Apply
  <2>2. CalShown(p)
    BY <1>0 DEF CalShown, CalPage
  <2>3. CalShown(q)
    <3> DEFINE days == CA!Grouped(c.times, c.zone)
    <3>1. \A d \in DOMAIN days : d \in Int /\ days[d] \subseteq Times /\ days[d] # {}
      BY <1>0, CalGrouped DEF CalCallOK
    <3> HIDE DEF days
    <3>2. CalShown([caPage EXCEPT !.byDate = days, !.loading = FALSE,
                                  !.read = [zone |-> c.zone, view |-> c.view], !.all = c.all])
      BY <1>0, <3>1 DEF CalShown, CalPage
    <3> QED BY <3>2 DEF days
  <2> HIDE DEF p, q
  <2>4. CalShown(caPage')
    BY <1>0, <2>1, <2>2, <2>3, CalLanded
  <2> QED BY <1>0, <2>1, <2>4 DEF CalTypes, CalShown
<1> QED BY <1>1, <1>2, <1>3, <1>4

\* Whatever moves.
LEMMA CalTypeStep ==
  ASSUME [FrontNext]_allVars, screen = "calendar" => CalInv /\ CalTypes
  PROVE  (screen = "calendar" => CalTypes)'
<1>s. screen' = screen
  BY DEF FrontNext, allVars, CheckoutOnly, AccountsOnly, BookingsOnly, DeskOnly, CalendarOnly,
          SessionOnly, TrainerOnly
<1> SUFFICES ASSUME screen = "calendar", CalInv, CalTypes PROVE CalTypes'
  BY <1>s
<1>a. CA!CalendarAssumption
  BY FrontendAssumption DEF FrontendAssumption
<1>1. CASE UNCHANGED caVars
  BY <1>1 DEF caVars, CalTypes, CalShown
<1> QED BY <1>a, <1>1, CalendarMoves, CalTypeReader, CalTypeSlots

LEMMA CalendarTyped == FrontSpec => [](screen = "calendar" => CalTypes)
<1>1. FrontInit => (screen = "calendar" => CalTypes)
  BY FrontendAssumption, CalTypeInit DEF FrontendAssumption, FrontInit
<1> QED BY <1>1, CalendarKept, CalTypeStep, PTL DEF FrontSpec

\* So at most one read is live.
LEMMA CalTypedOK == CalInv /\ CalTypes => CA!TypeOK
<1> SUFFICES ASSUME CalInv, CalTypes PROVE CA!TypeOK
  OBVIOUS
<1> DEFINE one == {c \in caCalls : c.live}
<1>1. CA!Cardinality(one) <= 1
  <2>1. CASE one = {}
    <3>1. Cardinality({}) = 0
      BY FS_EmptySet
    <3> QED BY <2>1, <3>1, SameCount
  <2>2. CASE one # {}
    <3>1. PICK c \in one : one = {c}
      BY <2>2 DEF CalTypes
    <3>2. Cardinality({c}) = 1
      BY FS_Singleton
    <3> QED BY <3>1, <3>2, SameCount
  <2> QED BY <2>1, <2>2
<1> QED BY <1>1 DEF CA!TypeOK, CalInv, CalTypes, CalShown

(***************************************************************************)
(* Types: session desk                                                     *)
(***************************************************************************)

\* Whatever row a request carries is a session's, and so is the page's copy.
SdRows == SD!Session \cup {SD!Nothing}
SdShown(p) ==
  /\ DOMAIN p = {"copy", "loading", "busy", "dialog", "deleting", "card", "marking", "gone"}
  /\ p.copy \in SdRows
SdPageTyped(p) ==
  SdShown(p) /\ p.card \in [says : {"nothing", "refund", "erase"}, force : BOOLEAN]
SdCallTyped(c) ==
  /\ DOMAIN c = {"op", "by", "n", "mine", "start", "told", "force", "ans", "row"}
  /\ c.by \in {"page", "button", "dialog", "roster"} /\ c.row \in SdRows
  /\ c.op = "reschedule" => c.start \in Starts
SdCallsTyped(cs) ==
  /\ IsFiniteSet(cs) /\ \A c \in cs : SdCallTyped(c)
  /\ \A c, d \in cs : SD!Alike(c, d) /\ c.n = d.n => c = d
SessionTypes ==
  /\ sdSession \in SD!Session /\ sdNow \in 0..MaxNow
  /\ SdPageTyped(sdPage) /\ SdCallsTyped(sdCalls)

\* A page is drawn with a card of its own.
LEMMA SdDraws == ASSUME NEW p, SdShown(p) PROVE SdPageTyped(SD!Drawn(p))
<1> DEFINE card == [says |-> SD!Warning(p), force |-> SD!NeedsForce(p)]
<1>1. SD!Warning(p) \in {"nothing", "refund", "erase"} /\ SD!NeedsForce(p) \in BOOLEAN
  BY DEF SD!Warning, SD!NeedsForce
<1>2. card \in [says : {"nothing", "refund", "erase"}, force : BOOLEAN]
  BY <1>1
<1>3. SD!Drawn(p) = [p EXCEPT !.card = card]
  BY DEF SD!Drawn
<1> HIDE DEF card
<1> QED BY <1>2, <1>3 DEF SdPageTyped, SdShown

\* Any field but the copy may change before the page is drawn.
LEMMA SdShownAs ==
  ASSUME NEW p, SdShown(p), NEW f, f # "copy", NEW x
  PROVE  SdShown([p EXCEPT ![f] = x])
BY DEF SdShown

\* Requests dropped, answered, made, and disowned when the dialog closes.
LEMMA SdRemoves ==
  ASSUME NEW cs, SdCallsTyped(cs), NEW c
  PROVE  SdCallsTyped(cs \ {c})
<1>1. IsFiniteSet(cs \ {c})
  BY FS_RemoveElement DEF SdCallsTyped
<1> QED BY <1>1 DEF SdCallsTyped

LEMMA SdReplaces ==
  ASSUME NEW cs, SdCallsTyped(cs), NEW c \in cs, NEW d, SdCallTyped(d),
         d.op = c.op, d.by = c.by, d.n = c.n
  PROVE  SdCallsTyped((cs \ {c}) \cup {d})
<1>1. IsFiniteSet((cs \ {c}) \cup {d})
  BY FS_RemoveElement, FS_AddElement DEF SdCallsTyped
<1>2. ASSUME NEW e \in cs \ {c} PROVE ~(SD!Alike(e, d) /\ e.n = d.n) /\ ~(SD!Alike(d, e) /\ e.n = d.n)
  BY DEF SdCallsTyped, SD!Alike
<1> QED BY <1>1, <1>2 DEF SdCallsTyped

LEMMA SdAdds ==
  ASSUME NEW cs, SdCallsTyped(cs), NEW c, SdCallTyped(c)
  PROVE  SdCallsTyped(SD!Add(cs, c))
<1> DEFINE P(n) == \A d \in cs : SD!Alike(c, d) => d.n # n
           k == CHOOSE n \in 1..(SD!Cardinality(cs) + 1) : P(n)
           e == [c EXCEPT !.n = k]
<1>1. P(k)
  <2>1. \E n \in 1..(SD!Cardinality(cs) + 1) : P(n)
    BY FreshNumber, SameCount DEF SdCallsTyped
  <2> HIDE DEF P
  <2> QED BY <2>1
<1>2. SD!Add(cs, c) = cs \cup {e}
  BY DEF SD!Add
<1> HIDE DEF k
<1>3. SdCallTyped(e) /\ e.op = c.op /\ e.by = c.by /\ e.n = k
  BY DEF SdCallTyped
<1>4. ASSUME NEW d \in cs PROVE ~(SD!Alike(e, d) /\ e.n = d.n) /\ ~(SD!Alike(d, e) /\ e.n = d.n)
  BY <1>1, <1>3 DEF SD!Alike
<1>5. IsFiniteSet(cs \cup {e})
  BY FS_AddElement DEF SdCallsTyped
<1> HIDE DEF e
<1> QED BY <1>2, <1>3, <1>4, <1>5 DEF SdCallsTyped

LEMMA SdCalls ==
  ASSUME NEW op, op # "reschedule", NEW by \in {"page", "button", "dialog", "roster"}
  PROVE  /\ SdCallTyped(SD!Call(op, by))
         /\ \A x : SdCallTyped([SD!Call(op, by) EXCEPT !.mine = x])
         /\ \A x, y : SdCallTyped([SD!Call(op, by) EXCEPT !.told = x, !.force = y])
BY DEF SdCallTyped, SD!Call, SdRows

LEMMA SdDisowns ==
  ASSUME NEW cs, SdCallsTyped(cs)
  PROVE  SdCallsTyped(SD!Disowned(cs))
<1> DEFINE g(c) == [c EXCEPT !.mine = @ /\ c.by # "dialog"]
           ds == {g(c) : c \in cs}
           f == [c \in cs |-> g(c)]
<1>1. ASSUME NEW c \in cs
      PROVE  SdCallTyped(g(c)) /\ g(c).op = c.op /\ g(c).by = c.by /\ g(c).n = c.n
  <2>1. SdCallTyped(c)
    BY DEF SdCallsTyped
  <2> QED BY <2>1 DEF SdCallTyped
<1> HIDE DEF g
<1>2. IsFiniteSet(ds)
  <2>1. f \in Surjection(cs, ds)
    BY DEF Surjection
  <2> HIDE DEF f, ds
  <2> QED BY <2>1, FS_Surjection DEF SdCallsTyped
<1>3. \A c \in ds : SdCallTyped(c)
  BY <1>1
<1>4. ASSUME NEW c \in ds, NEW d \in ds, SD!Alike(c, d), c.n = d.n PROVE c = d
  <2>1. PICK a \in cs : c = g(a)
    OBVIOUS
  <2>2. PICK b \in cs : d = g(b)
    OBVIOUS
  <2>3. SD!Alike(a, b) /\ a.n = b.n
    BY <1>1, <1>4, <2>1, <2>2 DEF SD!Alike
  <2> QED BY <2>1, <2>2, <2>3 DEF SdCallsTyped
<1>5. SD!Disowned(cs) = ds
  BY DEF SD!Disowned, g
<1> HIDE DEF ds
<1> QED BY <1>2, <1>3, <1>4, <1>5 DEF SdCallsTyped

LEMMA SdTypeInit == SD!SessionDeskAssumption /\ SD!Init => SessionTypes
<1> SUFFICES ASSUME SD!SessionDeskAssumption, SD!Init PROVE SessionTypes
  OBVIOUS
<1>1. SdCallsTyped({})
  BY FS_EmptySet DEF SdCallsTyped
<1>2. SdCallsTyped(sdCalls)
  BY <1>1, SdCalls, SdAdds DEF SD!Init
<1>3. SdPageTyped(sdPage)
  BY DEF SD!Init, SdPageTyped, SdShown, SdRows
<1>4. sdSession \in SD!Session
  BY DEF SD!Init, SD!Session, SD!Statuses
<1>5. sdNow \in 0..MaxNow
  BY DEF SD!Init, SD!SessionDeskAssumption
<1> QED BY <1>2, <1>3, <1>4, <1>5 DEF SessionTypes

\* What a step makes of the four parts.
LEMMA SdTypeNext ==
  ASSUME sdSession' \in SD!Session, sdNow' \in 0..MaxNow,
         SdPageTyped(sdPage'), SdCallsTyped(sdCalls')
  PROVE  SessionTypes'
BY DEF SessionTypes, SdPageTyped, SdShown, SdRows, SdCallsTyped, SdCallTyped, SD!Alike, SD!Session,
       SD!Nothing, SD!Statuses

\* The buttons.
LEMMA SdTypeButtons ==
  ASSUME SessionTypes,
         SD!Publish \/ SD!Touch \/ SD!Reschedule \/ SD!ToggleDialog \/ SD!SubmitDialog
           \/ SD!ToggleDelete \/ SD!Delete \/ SD!Mark
  PROVE  SessionTypes'
<1>0. /\ sdSession \in SD!Session /\ sdNow \in 0..MaxNow
      /\ SdPageTyped(sdPage) /\ SdShown(sdPage) /\ SdCallsTyped(sdCalls)
  BY DEF SessionTypes, SdPageTyped
<1>1. sdSession' = sdSession /\ sdNow' = sdNow
  BY DEF SD!Publish, SD!Touch, SD!Reschedule, SD!ToggleDialog, SD!SubmitDialog, SD!ToggleDelete,
         SD!Delete, SD!Mark
<1>2. \A f, x : f # "copy" => SdPageTyped(SD!Drawn([sdPage EXCEPT ![f] = x]))
  BY <1>0, SdShownAs, SdDraws
<1>3. SdPageTyped(SD!Running(sdPage))
  BY <1>2 DEF SD!Running
<1>4. SdPageTyped(sdPage')
  <2>1. CASE SD!Publish \/ SD!Touch \/ SD!Reschedule \/ SD!Delete
    BY <1>3, <2>1 DEF SD!Publish, SD!Touch, SD!Reschedule, SD!Delete
  <2>2. CASE SD!ToggleDialog
    BY <1>2, <2>2 DEF SD!ToggleDialog
  <2>3. CASE SD!SubmitDialog
    BY <1>2, <2>3 DEF SD!SubmitDialog
  <2>4. CASE SD!ToggleDelete
    BY <1>2, <2>4 DEF SD!ToggleDelete
  <2>5. CASE SD!Mark
    BY <1>2, <2>5 DEF SD!Mark
  <2> QED BY <2>1, <2>2, <2>3, <2>4, <2>5
<1>5. SdCallsTyped(sdCalls')
  <2>1. ASSUME NEW c, SdCallTyped(c), SD!Send(c) PROVE SdCallsTyped(sdCalls')
    BY <1>0, <2>1, SdAdds DEF SD!Send
  <2>2. CASE SD!Publish
    BY <2>1, <2>2, SdCalls DEF SD!Publish
  <2>3. CASE SD!Touch
    <3>1. PICK op \in {"touch", "ask"} : SD!Send(SD!Call(op, "button"))
      BY <2>3 DEF SD!Touch
    <3> QED BY <2>1, <3>1, SdCalls
  <2>4. CASE SD!Reschedule
    <3>1. PICK t \in Starts : SD!Send([SD!Call("reschedule", "button") EXCEPT !.start = t])
      BY <2>4 DEF SD!Reschedule
    <3>2. SdCallTyped([SD!Call("reschedule", "button") EXCEPT !.start = t])
      BY DEF SdCallTyped, SD!Call, SdRows
    <3> QED BY <2>1, <3>1, <3>2
  <2>5. CASE SD!ToggleDialog
    <3>1. sdCalls' = SD!Disowned(sdCalls) \/ SD!Send(SD!Call("impact", "dialog"))
      BY <2>5 DEF SD!ToggleDialog
    <3> QED BY <1>0, <2>1, <3>1, SdCalls, SdDisowns
  <2>6. CASE SD!SubmitDialog
    BY <2>1, <2>6, SdCalls DEF SD!SubmitDialog
  <2>7. CASE SD!ToggleDelete
    BY <1>0, <2>7 DEF SD!ToggleDelete
  <2>8. CASE SD!Delete
    <3>1. SD!Send([SD!Call("delete", "button") EXCEPT !.told = sdPage.card.says,
                                                      !.force = sdPage.card.force])
      BY <2>8 DEF SD!Delete
    <3>2. SdCallTyped([SD!Call("delete", "button") EXCEPT !.told = sdPage.card.says,
                                                          !.force = sdPage.card.force])
      BY SdCalls
    <3> QED BY <2>1, <3>1, <3>2
  <2>9. CASE SD!Mark
    BY <2>1, <2>9, SdCalls DEF SD!Mark
  <2> QED BY <2>2, <2>3, <2>4, <2>5, <2>6, <2>7, <2>8, <2>9
<1> QED BY <1>0, <1>1, <1>4, <1>5, SdTypeNext

\* A session whose fields change within their types is one still.
LEMMA SdSessions ==
  ASSUME SD!SessionDeskAssumption, NEW r \in SD!Session
  PROVE  /\ r.live \in 0..MaxLive /\ r.live \in Int /\ MaxLive \in Int
         /\ \A n \in 0..MaxLive : [r EXCEPT !.live = n] \in SD!Session
         /\ \A t \in Starts : [r EXCEPT !.start = t] \in SD!Session
         /\ \A u \in SD!Statuses : [r EXCEPT !.status = u] \in SD!Session
         /\ [r EXCEPT !.status = "cancelled", !.live = 0] \in SD!Session
         /\ [r EXCEPT !.status = "gone", !.live = 0] \in SD!Session
         /\ {"published", "gone"} \subseteq SD!Statuses
<1>1. r.live \in 0..MaxLive /\ MaxLive \in Nat
  BY DEF SD!Session, SD!SessionDeskAssumption
<1>2. 0 \in 0..MaxLive /\ r.live \in Int /\ MaxLive \in Int
  BY <1>1
<1>3. {"published", "cancelled", "gone"} \subseteq SD!Statuses
  BY DEF SD!Statuses
<1> DEFINE L == 0..MaxLive
           U == SD!Statuses
<1>4. r \in [status : U, start : Starts, live : L]
  BY DEF SD!Session
<1>5. SD!Session = [status : U, start : Starts, live : L]
  BY DEF SD!Session
<1>6. 0 \in L /\ "cancelled" \in U /\ "gone" \in U
  BY <1>2, <1>3
<1>7. r.live \in L
  BY <1>1
<1>8. \A n \in L : [r EXCEPT !.live = n] \in SD!Session
  <2> HIDE DEF L, U
  <2> QED BY <1>4, <1>5
<1>9. \A t \in Starts : [r EXCEPT !.start = t] \in SD!Session
  <2> HIDE DEF L, U
  <2> QED BY <1>4, <1>5
<1>10. \A u \in U : [r EXCEPT !.status = u] \in SD!Session
  <2> HIDE DEF L, U
  <2> QED BY <1>4, <1>5
<1>11. \A u \in U : [r EXCEPT !.status = u, !.live = 0] \in SD!Session
  <2> HIDE DEF L, U
  <2> QED BY <1>4, <1>5, <1>6
<1> QED BY <1>1, <1>2, <1>3, <1>6, <1>8, <1>9, <1>10, <1>11

\* The server and what fails on the way.
LEMMA SdTypeServer ==
  ASSUME SD!SessionDeskAssumption, SessionTypes, NEW c \in sdCalls, SD!Answer(c) \/ SD!Fail(c)
  PROVE  SessionTypes'
<1>0. /\ sdSession \in SD!Session /\ sdNow \in 0..MaxNow /\ SdPageTyped(sdPage)
      /\ SdCallsTyped(sdCalls) /\ SdCallTyped(c)
  BY DEF SessionTypes, SdCallsTyped
<1>1. sdNow' = sdNow /\ sdPage' = sdPage
  BY DEF SD!Answer, SD!Fail
<1>2. sdSession' \in SD!Session
  <2>1. c.op = "reschedule" => c.start \in Starts
    BY <1>0 DEF SdCallTyped
  <2>3. SD!Done(c) \in SD!Session
    <3>1. SD!Done(c) = sdSession \/ SD!Done(c) = [sdSession EXCEPT !.status = "published"]
            \/ (c.op = "reschedule" /\ SD!Done(c) = [sdSession EXCEPT !.start = c.start])
            \/ SD!Done(c) = [sdSession EXCEPT !.status = "cancelled", !.live = 0]
            \/ SD!Done(c) = [sdSession EXCEPT !.status = "gone", !.live = 0]
      BY DEF SD!Done
    <3>2. CASE c.op = "reschedule" /\ SD!Done(c) = [sdSession EXCEPT !.start = c.start]
      BY <1>0, <2>1, <3>2, SdSessions
    <3>3. CASE SD!Done(c) = sdSession \/ SD!Done(c) = [sdSession EXCEPT !.status = "published"]
      BY <1>0, <3>3, SdSessions
    <3>4. CASE \/ SD!Done(c) = [sdSession EXCEPT !.status = "cancelled", !.live = 0]
               \/ SD!Done(c) = [sdSession EXCEPT !.status = "gone", !.live = 0]
      BY <1>0, <3>4, SdSessions
    <3> QED BY <3>1, <3>2, <3>3, <3>4
  <2> QED BY <1>0, <2>3 DEF SD!Answer, SD!Fail
<1>3. SdCallsTyped(sdCalls')
  <2>1. CASE SD!Answer(c)
    <3>1. PICK ans : sdCalls' = (sdCalls \ {c}) \cup {[c EXCEPT !.ans = ans, !.row = sdSession']}
      BY <2>1 DEF SD!Answer, SD!Answered
    <3> DEFINE d == [c EXCEPT !.ans = ans, !.row = sdSession']
    <3>2. SdCallTyped(d) /\ d.op = c.op /\ d.by = c.by /\ d.n = c.n
      BY <1>0, <1>2 DEF SdCallTyped, SdRows
    <3> HIDE DEF d
    <3> QED BY <1>0, <3>1, <3>2, SdReplaces DEF d
  <2>2. CASE SD!Fail(c)
    <3> DEFINE d == [c EXCEPT !.ans = "error"]
    <3>1. sdCalls' = (sdCalls \ {c}) \cup {d}
      BY <2>2 DEF SD!Fail
    <3>2. SdCallTyped(d) /\ d.op = c.op /\ d.by = c.by /\ d.n = c.n
      BY <1>0 DEF SdCallTyped
    <3> HIDE DEF d
    <3> QED BY <1>0, <3>1, <3>2, SdReplaces
  <2> QED BY <2>1, <2>2
<1> QED BY <1>0, <1>1, <1>2, <1>3, SdTypeNext

\* The others and the clock.
LEMMA SdTypeWorld ==
  ASSUME SD!SessionDeskAssumption, SessionTypes, SD!OthersAct \/ SD!Tick
  PROVE  SessionTypes'
<1>0. /\ sdSession \in SD!Session /\ sdNow \in 0..MaxNow /\ SdPageTyped(sdPage)
      /\ SdCallsTyped(sdCalls) /\ MaxNow \in Nat /\ MaxLive \in Nat
  BY DEF SessionTypes, SD!SessionDeskAssumption
<1>1. sdPage' = sdPage /\ sdCalls' = sdCalls
  BY DEF SD!OthersAct, SD!Tick
<1>2. sdNow' \in 0..MaxNow
  BY <1>0 DEF SD!OthersAct, SD!Tick
<1>3. sdSession' \in SD!Session
  <2>1. CASE SD!Tick
    BY <1>0, <2>1 DEF SD!Tick
  <2>2. CASE SD!OthersAct
    <3>1. \/ sdSession.live < MaxLive /\ sdSession' = [sdSession EXCEPT !.live = @ + 1]
          \/ sdSession.live > 0 /\ sdSession' = [sdSession EXCEPT !.live = @ - 1]
          \/ \E t \in Starts : sdSession' = [sdSession EXCEPT !.start = t]
          \/ sdSession' = [sdSession EXCEPT !.status = "cancelled", !.live = 0]
          \/ sdSession' = [sdSession EXCEPT !.status = "gone"]
      BY <2>2 DEF SD!OthersAct
    <3>2. /\ sdSession.live < MaxLive => sdSession.live + 1 \in 0..MaxLive
          /\ sdSession.live > 0 => sdSession.live - 1 \in 0..MaxLive
      <4>1. sdSession.live \in 0..MaxLive
        BY <1>0, SdSessions
      <4> QED BY <1>0, <4>1
    <3>3. CASE sdSession.live < MaxLive /\ sdSession' = [sdSession EXCEPT !.live = @ + 1]
      BY <1>0, <3>2, <3>3, SdSessions
    <3>4. CASE sdSession.live > 0 /\ sdSession' = [sdSession EXCEPT !.live = @ - 1]
      BY <1>0, <3>2, <3>4, SdSessions
    <3>5. CASE \E t \in Starts : sdSession' = [sdSession EXCEPT !.start = t]
      BY <1>0, <3>5, SdSessions
    <3>6. CASE sdSession' = [sdSession EXCEPT !.status = "cancelled", !.live = 0]
      BY <1>0, <3>6, SdSessions
    <3>7. CASE sdSession' = [sdSession EXCEPT !.status = "gone"]
      BY <1>0, <3>7, SdSessions
    <3> QED BY <3>1, <3>3, <3>4, <3>5, <3>6, <3>7
  <2> QED BY <2>1, <2>2
<1> QED BY <1>0, <1>1, <1>2, <1>3, SdTypeNext

\* The second halves of the handlers.
LEMMA SdTypeApply ==
  ASSUME SessionTypes, NEW c \in sdCalls, SD!Apply(c)
  PROVE  SessionTypes'
<1>0. /\ sdSession \in SD!Session /\ sdNow \in 0..MaxNow /\ SdPageTyped(sdPage) /\ SdShown(sdPage)
      /\ SdCallsTyped(sdCalls) /\ SdCallTyped(c)
  BY DEF SessionTypes, SdCallsTyped, SdPageTyped
<1>1. sdSession' = sdSession /\ sdNow' = sdNow
  BY DEF SD!Apply, SD!ApplyLoad, SD!ApplyRoster, SD!ApplyButton, SD!ApplyDelete, SD!ApplyImpact,
         SD!ApplyCancel, SD!ApplyMark
<1>2. \A f, x : f # "copy" => SdPageTyped(SD!Drawn([sdPage EXCEPT ![f] = x]))
  BY <1>0, SdShownAs, SdDraws
<1>b. c.by \in {"page", "button", "dialog", "roster"} /\ c.row \in SdRows
  BY <1>0 DEF SdCallTyped
<1>3. SdPageTyped(SD!Loaded(sdPage, c))
  <2> DEFINE p == [sdPage EXCEPT !.loading = FALSE]
  <2>1. SdShown(p)
    BY <1>0, SdShownAs
  <2>2. SdShown([p EXCEPT !.busy = FALSE]) /\ SdShown([p EXCEPT !.dialog = SD!NoDialog])
    <3> HIDE DEF p
    <3> QED BY <2>1, SdShownAs
  <2>3. SD!Resumed(p, c) \in {p, [p EXCEPT !.busy = FALSE], [p EXCEPT !.dialog = SD!NoDialog]}
    <3> HIDE DEF p
    <3> QED BY <1>b DEF SD!Resumed
  <2>4. SdShown(SD!Resumed(p, c))
    <3> HIDE DEF p
    <3> QED BY <2>1, <2>2, <2>3
  <2> QED BY <2>4, SdDraws DEF SD!Loaded
<1>4. SdCallsTyped(sdCalls \ {c}) /\ SdCallsTyped(SD!Disowned(sdCalls \ {c}))
  BY <1>0, SdRemoves, SdDisowns
<1>5. SdPageTyped(sdPage')
  <2>1. CASE SD!ApplyLoad(c)
    <3>1. SdShown([sdPage EXCEPT !.copy = c.row])
      BY <1>0, <1>b DEF SdShown
    <3>2. SdPageTyped(SD!Drawn([sdPage EXCEPT !.copy = c.row]))
      BY <3>1, SdDraws
    <3> QED BY <1>3, <2>1, <3>2 DEF SD!ApplyLoad
  <2>2. CASE SD!ApplyRoster(c)
    BY <1>2, <1>3, <2>2 DEF SD!ApplyRoster
  <2>3. CASE SD!ApplyButton(c)
    BY <1>0, <1>2, <2>3 DEF SD!ApplyButton
  <2>4. CASE SD!ApplyDelete(c)
    <3>1. SdPageTyped([sdPage EXCEPT !.gone = TRUE])
      BY <1>0 DEF SdPageTyped, SdShown
    <3> QED BY <1>2, <2>4, <3>1 DEF SD!ApplyDelete
  <2>5. CASE SD!ApplyImpact(c)
    BY <1>0, <1>2, <2>5 DEF SD!ApplyImpact
  <2>6. CASE SD!ApplyCancel(c)
    BY <1>0, <1>2, <2>6 DEF SD!ApplyCancel
  <2>7. CASE SD!ApplyMark(c)
    BY <1>0, <1>2, <2>7 DEF SD!ApplyMark
  <2> QED BY <2>1, <2>2, <2>3, <2>4, <2>5, <2>6, <2>7 DEF SD!Apply
<1>6. SdCallsTyped(sdCalls')
  <2>1. ASSUME NEW d, SdCallTyped(d) PROVE SdCallsTyped(SD!Add(sdCalls \ {c}, d))
    BY <1>4, <2>1, SdAdds
  <2>2. CASE SD!ApplyLoad(c)
    BY <1>4, <1>b, <2>1, <2>2, SdCalls DEF SD!ApplyLoad
  <2>3. CASE SD!ApplyRoster(c)
    BY <1>4, <2>3 DEF SD!ApplyRoster
  <2>4. CASE SD!ApplyButton(c)
    BY <1>4, <2>1, <2>4, SdCalls DEF SD!ApplyButton
  <2>5. CASE SD!ApplyDelete(c) \/ SD!ApplyImpact(c)
    BY <1>4, <2>5 DEF SD!ApplyDelete, SD!ApplyImpact
  <2>6. CASE SD!ApplyCancel(c)
    BY <1>4, <2>1, <2>6, SdCalls DEF SD!ApplyCancel
  <2>7. CASE SD!ApplyMark(c)
    BY <1>4, <2>1, <2>7, SdCalls DEF SD!ApplyMark
  <2> QED BY <2>2, <2>3, <2>4, <2>5, <2>6, <2>7 DEF SD!Apply
<1> QED BY <1>0, <1>1, <1>5, <1>6, SdTypeNext

\* Whatever moves.
LEMMA SdTypeStep ==
  ASSUME [FrontNext]_allVars, screen = "session" => SessionTypes
  PROVE  (screen = "session" => SessionTypes)'
<1>s. screen' = screen
  BY DEF FrontNext, allVars, CheckoutOnly, AccountsOnly, BookingsOnly, DeskOnly, CalendarOnly,
          SessionOnly, TrainerOnly
<1> SUFFICES ASSUME screen = "session", SessionTypes PROVE SessionTypes'
  BY <1>s
<1>a. SD!SessionDeskAssumption
  BY FrontendAssumption DEF FrontendAssumption
<1>1. CASE UNCHANGED sdVars
  BY <1>1, SdTypeNext DEF sdVars, SessionTypes
<1> QED BY <1>a, <1>1, SessionMoves, SdTypeButtons, SdTypeServer, SdTypeWorld, SdTypeApply

LEMMA SessionTyped == FrontSpec => [](screen = "session" => SessionTypes)
<1>1. FrontInit => (screen = "session" => SessionTypes)
  BY FrontendAssumption, SdTypeInit DEF FrontendAssumption, FrontInit
<1> QED BY <1>1, SdTypeStep, PTL DEF FrontSpec

LEMMA SessionTypedOK == SessionTypes => SD!TypeOK
BY DEF SessionTypes, SdPageTyped, SdShown, SdRows, SdCallsTyped, SD!TypeOK

(***************************************************************************)
(* What the pages keep to                                                  *)
(***************************************************************************)

\* A cancellation gives back no less, and a booking takes no more, than the page
\* said when it was last drawn before the click, unless the learner's place, or
\* the session's price or last seat, has moved since, or the deadline has passed
\* since the drawing: two comparisons on two machines agree about every hour but
\* the ones the clock crosses under an open dialog.
THEOREM NothingIsWorse == FrontSpec => []NeverWorseThanShown
<1>1. (screen = "bookings" => MyInv) => NeverWorseThanShown
  BY DEF NeverWorseThanShown, MyInv, MyCallOK, MY!NeverWorseThanShown, MY!Held
<1> QED BY <1>1, BookingsKept, PTL

\* A desk page with nothing under way and no error shows what it read under the
\* chosen filter after everything its person did: always on the pages that
\* disable their buttons meanwhile, and elsewhere while no two requests overlap.
THEOREM DeskIsCurrent == FrontSpec => []ScreenIsCurrent
<1>1. (screen = "desk" => DeskInv) => ScreenIsCurrent
  BY DEF ScreenIsCurrent, DeskInv, AloneInv, KindInv, Apart, Quiet, Current,
          DE!ScreenIsCurrent, DE!OneAtATime
<1> QED BY <1>1, DeskKept, PTL

\* For days and months of any length and zones up to a day apart, a month that
\* has been read shows every open time that falls in it where the reader is.
THEOREM MonthsAreWhole == FrontSpec => []MonthIsWhole
<1>1. (screen = "calendar" => CalInv) => MonthIsWhole
  BY DEF MonthIsWhole, CalInv
<1> QED BY <1>1, CalendarKept, PTL

\* What the deletion card announced is what the deletion did, for any number of
\* learners, hours, clicks and failures.
THEOREM DeleteIsHonest == FrontSpec => []DeleteDoesWhatItSaid
<1>1. (screen = "session" => SessionInv) => DeleteDoesWhatItSaid
  BY DEF DeleteDoesWhatItSaid, SessionInv
<1> QED BY <1>1, SessionKept, PTL

(***************************************************************************)
(* Types of all the pages                                                  *)
(***************************************************************************)

\* The steps of the other groups leave the trainer alone.
LEMMA TrainerMoves == [FrontNext]_allVars => [Next]_vars
<1> SUFFICES ASSUME [FrontNext]_allVars PROVE [Next]_vars
  OBVIOUS
<1>1. CASE UNCHANGED allVars
  BY <1>1 DEF allVars
<1>2. CASE FrontNext
  BY <1>2 DEF FrontNext, Next, CheckoutOnly, AccountsOnly, BookingsOnly, DeskOnly, CalendarOnly,
          SessionOnly
<1> QED BY <1>1, <1>2

\* So its invariants hold among the pages.
LEMMA TrainerKept == FrontSpec => [](TypeOK /\ RoundIsConsistent /\ TimeInv)
<1>1. FrontInit => Init
  BY DEF FrontInit
<1>2. Init => TimeInv
  BY DEF Init, TimeInv, Timed
<1> QED
  BY <1>1, <1>2, TrainerMoves, InitType, StepType, InitRound, StepRound, StepTime, PTL DEF FrontSpec

\* The trainer's round and its overrun are as bounded beside the other pages as
\* alone: no page reaches into its clock.
THEOREM TrainerAmongPages == FrontSpec => [](RoundIsConsistent /\ ExtraTimeIsBounded)
<1>1. TypeOK /\ RoundIsConsistent /\ TimeInv => RoundIsConsistent /\ ExtraTimeIsBounded
  BY TimeBound
<1> QED BY <1>1, TrainerKept, PTL

\* One group is open from the start to the end.
LEMMA OneGroup == FrontSpec => [](screen \in Groups)
<1>1. FrontInit => screen \in Groups
  BY DEF FrontInit
<1>2. screen \in Groups /\ [FrontNext]_allVars => (screen \in Groups)'
  BY DEF FrontNext, allVars, CheckoutOnly, AccountsOnly, BookingsOnly, DeskOnly, CalendarOnly,
          SessionOnly, TrainerOnly
<1> QED BY <1>1, <1>2, PTL DEF FrontSpec

\* Whichever pages are open, all they keep has its type, for any number of
\* requests under way: no two that can be told apart only by their numbers
\* share one, and of the reads of a calendar one at most is not called off.
THEOREM PagesTyped == FrontSpec => []PagesTypeOK
<1> DEFINE Typed == /\ screen \in Groups /\ TypeOK
                    /\ screen = "checkout" => BuyerInv
                    /\ screen = "accounts" => AcTypeInv
                    /\ screen = "bookings" => MyInv /\ MyTypes
                    /\ screen = "desk" => DeskTypes
                    /\ screen = "calendar" => CalInv /\ CalTypes
                    /\ screen = "session" => SessionTypes
<1>1. Typed => PagesTypeOK
  <2> SUFFICES ASSUME Typed PROVE PagesTypeOK
    OBVIOUS
  <2>1. screen \in {"checkout", "accounts", "bookings", "desk", "calendar", "session", "trainer"}
    BY FrontendAssumption DEF FrontendAssumption
  <2>2. CASE screen = "checkout"
    BY <2>2, CheckoutTyped DEF PagesTypeOK, BuyerInv
  <2>3. CASE screen = "accounts"
    BY <2>3 DEF PagesTypeOK, AcTypeInv
  <2>4. CASE screen = "bookings"
    BY <2>4, MyTyped DEF PagesTypeOK
  <2>5. CASE screen = "desk"
    BY <2>5, DeskTypedOK DEF PagesTypeOK
  <2>6. CASE screen = "calendar"
    BY <2>6, CalTypedOK DEF PagesTypeOK
  <2>7. CASE screen = "session"
    BY <2>7, SessionTypedOK DEF PagesTypeOK
  <2>8. CASE screen = "trainer"
    BY <2>8 DEF PagesTypeOK
  <2> QED BY <2>1, <2>2, <2>3, <2>4, <2>5, <2>6, <2>7, <2>8
<1>2. FrontSpec => []Typed
  BY OneGroup, TrainerKept, CheckoutKept, AccountsTyped, BookingsKept, BookingsTyped, DeskTyped,
     CalendarKept, CalendarTyped, SessionTyped, PTL
<1> QED BY <1>1, <1>2, PTL
=============================================================================
