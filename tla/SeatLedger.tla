----------------------------- MODULE SeatLedger -----------------------------
(***************************************************************************)
(* What booking promises a learner, with no locks, rows or transactions:   *)
(* every request takes effect at once.  A seat is taken by paying its      *)
(* price from a balance that covers it while a seat is free; when none is, *)
(* the learner joins the end of a queue, for nothing; whoever leaves may   *)
(* be given credits back, and each learner who moves up from the queue     *)
(* pays the price.                                                         *)
(*                                                                         *)
(* It does not promise that a refund happens once: credits may come back   *)
(* to a learner who has already left (Leave with nobody leaving).          *)
(***************************************************************************)
EXTENDS Integers, FiniteSets

CONSTANTS Learners, Sessions

VARIABLES
  capacity,  \* seats of each session
  price,     \* credits a seat of it costs
  seated,    \* the learners holding a seat
  line,      \* the learners in the queue for a seat
  ahead,     \* who stands ahead of whom in it: pairs of learners
  credit     \* the learners' balances

vars == <<capacity, price, seated, line, ahead, credit>>

Init ==
  /\ capacity \in [Sessions -> Nat]
  /\ price \in [Sessions -> Nat]
  /\ seated = [s \in Sessions |-> {}]
  /\ line = [s \in Sessions |-> {}]
  /\ ahead = [s \in Sessions |-> {}]
  /\ credit \in [Learners -> Nat]

TakeSeat(l, s) ==
  /\ l \notin seated[s] \cup line[s]
  /\ Cardinality(seated[s]) < capacity[s]
  /\ credit[l] >= price[s]
  /\ seated' = [seated EXCEPT ![s] = @ \cup {l}]
  /\ credit' = [credit EXCEPT ![l] = @ - price[s]]
  /\ UNCHANGED <<capacity, price, line, ahead>>

JoinQueue(l, s) ==
  /\ l \notin seated[s] \cup line[s]
  /\ Cardinality(seated[s]) >= capacity[s]
  /\ line' = [line EXCEPT ![s] = @ \cup {l}]
  /\ ahead' = [ahead EXCEPT ![s] = @ \cup (line[s] \X {l})]
  /\ UNCHANGED <<capacity, price, seated, credit>>

\* l leaves (or has left already: gone is empty), is given back at most the
\* price, and the learners in up move from the queue to the seats.
Leave(l, s, gone, up, refund) ==
  /\ gone \subseteq {l}
  /\ up \subseteq line[s] \ gone
  /\ refund \in 0..price[s]
  /\ seated' = [seated EXCEPT ![s] = (@ \ gone) \cup up]
  /\ line' = [line EXCEPT ![s] = @ \ (gone \cup up)]
  /\ ahead' = [ahead EXCEPT ![s] = {p \in @ : p[1] \notin gone \cup up /\ p[2] \notin gone \cup up}]
  /\ credit' = [x \in Learners |-> credit[x] + (IF x = l THEN refund ELSE 0)
                                             - (IF x \in up THEN price[s] ELSE 0)]
  /\ up # {} => Cardinality(seated'[s]) <= capacity[s]
  /\ \A x \in up : credit'[x] >= 0
  /\ UNCHANGED <<capacity, price>>

Next ==
  \E l \in Learners, s \in Sessions :
    \/ TakeSeat(l, s)
    \/ JoinQueue(l, s)
    \/ \E gone \in SUBSET {l}, up \in SUBSET line[s], refund \in 0..price[s] :
         Leave(l, s, gone, up, refund)

Spec == Init /\ [][Next]_vars
=============================================================================
