------------------------------ MODULE JobBoard ------------------------------
(***************************************************************************)
(* What the job service of internal/mcp promises to its clients, when no   *)
(* job is cancelled while it is being submitted: a job is queued, runs and *)
(* ends once; so many wait, so many run.  What becomes of a job may fail to *)
(* be recorded: its start, and then it works while the board says queued;  *)
(* or its end, and then it is abandoned, as it is when its process ends.   *)
(* An abandoned job keeps its place on the board and frees its slot.       *)
(***************************************************************************)
EXTENDS Integers, FiniteSets

CONSTANTS Job, Limit, Capacity
VARIABLES board,     \* the status of each job
          working,   \* the jobs that are being worked on
          abandoned  \* the unfinished jobs nobody works on any more

boardVars == <<board, working, abandoned>>

Ended == {"done", "failed", "cancelled"}
Queued == {j \in Job : board[j] = "queued"}
Running == {j \in Job : board[j] = "running"}

Init == board = [j \in Job |-> "none"] /\ working = {} /\ abandoned = {}

Submit(j) ==
  /\ board[j] = "none" /\ Cardinality(Queued \cup Running) < Limit
  /\ board' = [board EXCEPT ![j] = "queued"]
  /\ UNCHANGED <<working, abandoned>>

Begin(j) ==
  /\ board[j] = "queued" /\ j \notin working \cup abandoned
  /\ Cardinality(working) < Capacity
  /\ working' = working \cup {j}
  /\ board' \in {board, [board EXCEPT ![j] = "running"]}
  /\ UNCHANGED abandoned

\* A job that waits can be cancelled only, also when it is abandoned.
End(j, s) ==
  /\ \/ j \in working /\ s \in Ended
     \/ board[j] = "queued" /\ j \notin working /\ s = "cancelled"
  /\ board' = [board EXCEPT ![j] = s]
  /\ working' = working \ {j} /\ abandoned' = abandoned \ {j}

Abandon(S) ==
  /\ S \subseteq Queued \cup Running
  /\ working' = working \ S /\ abandoned' = abandoned \cup S
  /\ UNCHANGED board

Next == \/ \E j \in Job : Submit(j) \/ Begin(j) \/ \E s \in Ended : End(j, s)
        \/ \E S \in SUBSET Job : Abandon(S)

Spec == Init /\ [][Next]_boardVars
=============================================================================
