------------------------------ MODULE MCSeats ------------------------------
(***************************************************************************)
(* Booking for TLC, in two shapes chosen at the start: many learners who   *)
(* race for one session, with the clock running past the refund deadline;  *)
(* or two of them at two sessions at once, with a waitlist each and        *)
(* credits for one.                                                        *)
(***************************************************************************)
EXTENDS MCBooking

CONSTANTS Second, Pair  \* the other session, the two learners

Crossed == sessions[Second].status = "published"
Least(S) == CHOOSE n \in S : \A k \in S : n <= k

\* One hour for the first session, and any for the second of two.
ShapedInit ==
  /\ Init
  /\ \A s \in Sessions \ {Second} : sessions[s].status = "published"
  /\ \A s \in Sessions : s # Second \/ ~Crossed => sessions[s].start = Least(Starts)
  /\ Crossed => balance = [l \in Learners |-> IF l \in Pair THEN 1 ELSE 0]

ShapedNext ==
  \/ Tick /\ ~Crossed
  \/ \E t \in Txns, l \in Learners, s \in Sessions :
       BookLockSession(t, l, s) /\ (Crossed => l \in Pair)
  \/ \E t \in Txns :
       BookLockUser(t) \/ BookTakeSeat(t) \/ BookCommit(t) \/ BookWaitlist(t)
       \/ Cancel(t) \/ Rollback(t)

ShapedSpec == ShapedInit /\ [][ShapedNext]_vars

\* The learners of a pair are interchangeable, and so are ids and transactions.
ShapedSymmetry ==
  Permutations(Pair) \cup Permutations(BookingIds) \cup Permutations(Txns)
=============================================================================
