----------------------------- MODULE MCRunQueue -----------------------------
(* Model values for checking RunQueue with TLC. *)
EXTENDS RunQueueTurn

NoRuns == {}
First == {1}
Two == {1, 2}
Three == {1, 2, 3}
=============================================================================
