---------------------------- MODULE RunQueueTurn ----------------------------
(***************************************************************************)
(* RunQueue implements TurnLine when rows are inserted in key order and no *)
(* process is suspended or interrupted: the rows of run_queue that are     *)
(* waiting or running are the line, countAhead is its order, and the runs  *)
(* between Acquire and FinishRun work.                                     *)
(***************************************************************************)
EXTENDS RunQueue

InLine == {r \in Run : row[r].status \in Active}
AheadInLine == [r \in Run |-> IF r \in InLine THEN Ahead(r) ELSE {}]

Turn == INSTANCE TurnLine WITH line <- InLine, ahead <- AheadInLine, working <- Uploading

\* The queue, seen through the table, is a line whose members work one at a
\* time in the order they joined; a dead member is passed over.
ImplementsTurnLine == Turn!Spec
=============================================================================
