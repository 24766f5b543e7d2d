----------------------------- MODULE MCFrontend -----------------------------
(***************************************************************************)
(* Frontend for TLC.                                                       *)
(***************************************************************************)
EXTENDS Frontend, TLC

\* A topic of each track.
MCTrack == [t \in Topics |-> IF t = "interview" THEN "job" ELSE "any"]
MCStyle == [t \in Topics |-> IF t = "story" THEN "easy" ELSE "hard"]

\* India, New York and Sydney, for days of three hours.
MCOffset == "ist" :> 0 @@ "nyc" :> -2 @@ "syd" :> 1
MCMonths == 0..3

\* A learner who has two bookings has seats, in good time, looks at the list
\* and is left alone; others act on the first.
Seat == [status |-> "confirmed", spent |-> 1, price |-> 1, full |-> FALSE, open |-> TRUE,
         hours |-> MY!Over]
NoSeat == [Seat EXCEPT !.status = "none", !.spent = 0]
FewBookings ==
  /\ myPage.sid # "second"
  /\ \/ myServer.row["second"] = NoSeat /\ myLeft.troubles > 0
     \/ myPage.at = "list" /\ myLeft.troubles = 0 /\ myServer.row = [s \in Booked |-> Seat]

\* The learner starts with Usd: the pages sell in both currencies, and nothing
\* else tells one from the other.
ASSUME SoldIn = Currencies /\ Usd \in Currencies

\* A visitor abroad, and at most one of the times taken: others go on to take
\* and to free them, and the visitor to choose a zone.
Abroad == caPage.zone # BookingZone /\ Cardinality(caOpen) + 1 >= Cardinality(Times)

\* Rows are alike: which of the two is on alone does not matter.
OnFirst == deServer.on # {CHOOSE r \in Rows : TRUE}

MCInit ==
  /\ FrontInit
  /\ screen = "checkout" => coCurrency = Usd
  /\ screen = "bookings" => FewBookings
  /\ screen = "calendar" => Abroad
  /\ screen = "desk" => OnFirst
  /\ screen # "trainer" => settings.track = "any" /\ settings.prep = 1 /\ settings.speak = 1
MCSpec == MCInit /\ [][FrontNext]_allVars /\ WF_allVars(Goes)
=============================================================================
