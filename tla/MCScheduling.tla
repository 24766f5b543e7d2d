---------------------------- MODULE MCScheduling ----------------------------
(* Scheduling for TLC: instructors, sessions and requests are alike.        *)
EXTENDS Scheduling, TLC

Symmetry ==
  Permutations(Instructors) \cup Permutations(SessionIds) \cup Permutations(Txns)
=============================================================================
