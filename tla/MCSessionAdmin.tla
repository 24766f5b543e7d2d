-------------------------- MODULE MCSessionAdmin --------------------------
(* Instances of SessionAdmin for TLC. *)
EXTENDS SessionAdmin, TLC

\* A grant and a revocation (a cfg has no negative numbers).
MCAdjustments == {-1, 1}

Symmetry ==
  Permutations(Learners) \cup Permutations(BookingIds) \cup Permutations(Txns)
=============================================================================
