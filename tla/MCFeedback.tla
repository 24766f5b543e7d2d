---------------------------- MODULE MCFeedback ----------------------------
(* An instance of Feedback for TLC: both labels look like the learner's, the *)
(* first more so, and the second too little like the host's to be settled by *)
(* elimination.                                                              *)
EXTENDS Feedback, TLC

CONSTANTS a, h
TwoPeople == (1 :> (a :> 97 @@ h :> 30)) @@ (2 :> (a :> 85 @@ h :> 35))
=============================================================================
