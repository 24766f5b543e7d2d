----------------------------- MODULE MCBooking -----------------------------
(* Instances of Booking for TLC. *)
EXTENDS Booking, TLC

\* Learners, ids and transactions are interchangeable in every definition.
Symmetry ==
  Permutations(Learners) \cup Permutations(BookingIds) \cup Permutations(Txns)
=============================================================================
