----------------------------- MODULE MCMcpJobs ------------------------------
(* Model values for checking McpJobs with TLC. *)
EXTENDS McpJobsBoard, TLC

CONSTANTS j1, j2, j3, c1

TwoJobs == {j1, j2}
ThreeJobs == {j1, j2, j3}
NoClient == {}
OneClient == {c1}
Symmetric == Permutations(TwoJobs)
SymmetricThree == Permutations(ThreeJobs)
=============================================================================
