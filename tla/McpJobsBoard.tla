---------------------------- MODULE McpJobsBoard ----------------------------
(***************************************************************************)
(* McpJobs implements JobBoard when EarlyCancel is FALSE: the board is the *)
(* table mcp_jobs; a job is worked on from its first UPDATE to its last;   *)
(* the abandoned jobs are the unfinished rows that no goroutine will write *)
(* any more.                                                               *)
(***************************************************************************)
EXTENDS McpJobs

Working == {j \in Job : \/ worker[j] \in {"announce", "runner"}
                        \/ worker[j] = "finish" /\ j \in sem}

Forsaken == {j \in Unfinished : \/ worker[j] \in {"tell", "release", "wake", "ended", "lost"}
                                \/ worker[j] = "none" /\ call[j] = "lost"}

Board == INSTANCE JobBoard WITH Limit <- MaxQueue + MaxCalls - 1, Capacity <- MaxConcurrent,
                                board <- status, working <- Working, abandoned <- Forsaken

\* Clients see a board on which every job goes forward once, within the
\* limits, across crashes and shutdowns of the server and failing statements.
ImplementsJobBoard == Board!Spec
=============================================================================
