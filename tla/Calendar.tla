------------------------------ MODULE Calendar ------------------------------
(***************************************************************************)
(* Choosing a one-to-one (/one-on-one): a month of days in the reader's    *)
(* zone, filled from an API that counts days in the booking zone, a day, a *)
(* time, and on to the checkout with it.  Every change of zone or month    *)
(* calls off the read under way and starts another.  There is one duration *)
(* to choose (ONE_ON_ONE_DURATIONS), so the choice is left out.            *)
(*                                                                         *)
(* Times are whole numbers, days have DayLen of them and months MonthLen   *)
(* days; a zone is ahead of the booking zone by Offset, less than a day    *)
(* either way.                                                             *)
(***************************************************************************)
EXTENDS Integers, FiniteSets

CONSTANTS
  Zones, BookingZone, Offset,   \* BOOKING_ZONES, BOOKING_TIMEZONE
  DayLen, MonthLen,
  Now,                          \* the present moment
  Times,                        \* the times that may be open
  Months,                       \* bound: the months looked at
  MaxClicks,                    \* bound: choices that start a read
  MaxTroubles,                  \* bound: reads that fail, times taken by others
  None

CalendarAssumption ==
  /\ BookingZone \in Zones
  /\ {DayLen, MonthLen} \subseteq Nat \ {0} /\ {MaxClicks, MaxTroubles, Now} \subseteq Nat
  /\ Offset[BookingZone] = 0
  /\ \A z \in Zones : Offset[z] \in (1 - DayLen)..(DayLen - 1)
  /\ Times \subseteq Int /\ None \notin Times

VARIABLES
  open,     \* the server's open times
  page,     \* the page and its state
  calls,    \* availability requests whose handlers have not finished
  left      \* what remains of the bounds

vars == <<open, page, calls, left>>

\* zonedDateKey, monthOf and dateKey.
DateKey(t, zone) == (t + Offset[zone]) \div DayLen
MonthOf(d) == d \div MonthLen
FirstDay(m) == m * MonthLen

Today(zone) == DateKey(Now, zone)

\* What availability answers: the open times on so many days from the one asked
\* for, or from today if that is later, days being the booking zone's.
Availability(from, days) ==
  LET first == IF from < Today(BookingZone) THEN Today(BookingZone) ELSE from
  IN  {t \in open : DateKey(t, BookingZone) \in first..(first + days - 1)}

\* Mutant: from the first of the month, where the booking zone is.
FromTheFirst(m) == FirstDay(m)
\* The request covers a day on either side of the month.
From(m) == FirstDay(m) - 1
Days == MonthLen + 2

Call(p) ==
  [zone |-> p.zone, view |-> p.view, n |-> 0, live |-> TRUE,
   ans |-> "none", times |-> {}, all |-> {}]

\* Mutant: the read under way is left alone.
NotSuperseded(cs) == cs

\* A change of the choices: the read under way is called off, and a new one
\* begins; a time that was chosen is not any more.
Superseded(cs) == {[c EXCEPT !.live = FALSE] : c \in cs}
\* Requests for the same month and zone are told apart by number.
Alike(c, d) == c.zone = d.zone /\ c.view = d.view
Add(cs, c) ==
  cs \cup {[c EXCEPT !.n = CHOOSE n \in 1..(Cardinality(cs) + 1) :
                               \A d \in cs : Alike(c, d) => d.n # n]}
Load(p) ==
  /\ page' = [p EXCEPT !.loading = TRUE, !.error = FALSE]
  /\ calls' = Add(Superseded(calls), Call(p))

\* Slots are regrouped by the reader's day.
Grouped(ts, zone) ==
  [d \in {DateKey(t, zone) : t \in ts} |-> {t \in ts : DateKey(t, zone) = d}]

\* Land on the first bookable day of the month, unless the one chosen still is.
Earliest(ds) == IF ds = {} THEN None ELSE CHOOSE d \in ds : \A e \in ds : d <= e
Landed(p) ==
  LET date == IF p.date \in DOMAIN p.byDate THEN p.date
              ELSE Earliest({d \in DOMAIN p.byDate : MonthOf(d) = p.view})
  IN  [p EXCEPT !.date = date, !.slot = IF date = p.date THEN @ ELSE None]

\* The page is rendered in the booking zone and moves to the reader's at once.
\* "read" is what the answer on screen was given for, "all" every time open
\* when it was given.
Init ==
  /\ open \in SUBSET Times
  /\ \E zone \in Zones :
       LET shown == MonthOf(Today(BookingZone))
           there == MonthOf(Today(zone))
           p == [zone |-> zone, view |-> IF shown < there THEN there ELSE shown,
                 today |-> Today(zone), byDate |-> [d \in {} |-> {}],
                 date |-> None, slot |-> None, loading |-> TRUE, error |-> FALSE,
                 read |-> [zone |-> zone, view |-> None], all |-> {},
                 gone |-> FALSE]
       IN  page = p /\ calls = Add({}, Call(p))
  /\ left = [clicks |-> MaxClicks, troubles |-> MaxTroubles]

(***************************************************************************)
(* The reader                                                              *)
(***************************************************************************)

Click == ~page.gone /\ left.clicks > 0 /\ left' = [left EXCEPT !.clicks = @ - 1]

\* Snap forward, never back.
ChooseZone ==
  /\ Click
  /\ \E zone \in Zones \ {page.zone} :
       LET there == MonthOf(Today(zone)) IN
       Load([page EXCEPT !.zone = zone, !.today = Today(zone), !.slot = None,
                         !.view = IF @ < there THEN there ELSE @])
  /\ UNCHANGED open

\* The arrows: never before this month.  What is still there of the last month
\* may have a day of the new one to land on.
AtFirstMonth == FirstDay(page.view) <= page.today
Turn ==
  /\ Click
  /\ \E m \in {page.view - 1, page.view + 1} \cap Months :
       /\ m < page.view => ~AtFirstMonth
       /\ LET p == [page EXCEPT !.view = m] IN Load(IF page.loading THEN p ELSE Landed(p))
  /\ UNCHANGED open

\* The days with something open can be picked, of the month shown.
Pick ==
  /\ ~page.gone
  /\ \E d \in DOMAIN page.byDate :
       /\ MonthOf(d) = page.view /\ d # page.date
       /\ page' = [page EXCEPT !.date = d, !.slot = None]
  /\ UNCHANGED <<open, calls, left>>

\* The right-hand pane.
Slots ==
  IF page.loading \/ page.error \/ page.date \notin DOMAIN page.byDate THEN {}
  ELSE page.byDate[page.date]
ChooseSlot ==
  /\ ~page.gone
  /\ \E t \in Slots : page' = [page EXCEPT !.slot = IF @ = t THEN None ELSE t]
  /\ UNCHANGED <<open, calls, left>>
\* confirm: on to the checkout with the time.
Confirm ==
  /\ ~page.gone
  /\ page.slot \in Slots
  /\ page' = [page EXCEPT !.gone = TRUE]
  /\ UNCHANGED <<open, calls, left>>

(***************************************************************************)
(* The server                                                              *)
(***************************************************************************)

Answer(c) ==
  /\ c.ans = "none"
  /\ calls' = (calls \ {c}) \cup
       {[c EXCEPT !.ans = "ok", !.all = open,
                  !.times = Availability(From(c.view), Days)]}
  /\ UNCHANGED <<open, page, left>>
Fail(c) ==
  /\ c.ans # "error" /\ left.troubles > 0
  /\ left' = [left EXCEPT !.troubles = @ - 1]
  /\ calls' = (calls \ {c}) \cup {[c EXCEPT !.ans = "error"]}
  /\ UNCHANGED <<open, page>>
OthersBook ==
  /\ left.troubles > 0
  /\ left' = [left EXCEPT !.troubles = @ - 1]
  /\ \E t \in open : open' = open \ {t}
  /\ UNCHANGED <<page, calls>>

(***************************************************************************)
(* The answers                                                             *)
(***************************************************************************)

Apply(c) ==
  /\ c.ans # "none"
  /\ page' = IF ~c.live THEN page
             ELSE IF c.ans = "error" THEN Landed([page EXCEPT !.error = TRUE, !.loading = FALSE])
             ELSE Landed([page EXCEPT !.byDate = Grouped(c.times, c.zone), !.loading = FALSE,
                    !.read = [zone |-> c.zone, view |-> c.view],
                    !.all = c.all])
  /\ calls' = calls \ {c}
  /\ UNCHANGED <<open, left>>

Next ==
  \/ ChooseZone \/ Turn \/ Pick \/ ChooseSlot \/ Confirm
  \/ \E c \in calls : Answer(c) \/ Fail(c) \/ Apply(c)
  \/ OthersBook

Answers == \E c \in calls : Answer(c)
Applies == \E c \in calls : Apply(c)

Spec == Init /\ [][Next]_vars

\* Requests are answered and their handlers run.
FairSpec == Spec /\ WF_vars(Answers) /\ WF_vars(Applies)

(***************************************************************************)
(* Properties                                                              *)
(***************************************************************************)

TypeOK ==
  /\ open \subseteq Times
  /\ page.zone \in Zones /\ page.view \in Int
  /\ page.date \in Int \cup {None} /\ page.slot \in Times \cup {None}
  /\ \A d \in DOMAIN page.byDate : page.byDate[d] \subseteq Times /\ page.byDate[d] # {}
  /\ Cardinality({c \in calls : c.live}) <= 1

\* The month on screen is the month: once read, it holds every time that was
\* open and falls in it where the reader is, under the reader's own date.  The
\* API knows other days than the reader, answers come late and in any order,
\* and zone and month keep changing.
MonthIsWhole ==
  ~page.loading /\ ~page.error =>
    \A t \in page.all :
      LET d == DateKey(t, page.zone) IN
      /\ page.read = [zone |-> page.zone, view |-> page.view]
      /\ MonthOf(d) = page.view /\ DateKey(t, BookingZone) >= Today(BookingZone) =>
           d \in DOMAIN page.byDate /\ t \in page.byDate[d]
=============================================================================
