---------------------------- MODULE MCMcpEvents -----------------------------
(* Model values for checking McpEvents with TLC: two writers of one job and *)
(* one of another.                                                          *)
EXTENDS McpEvents, TLC

CONSTANTS jA, jB, w1, w2, w3

TwoJobs == {jA, jB}
OneJob == {jA}
TwoWriters == {w1, w3}
ThreeWriters == {w1, w2, w3}
JobOfTwo == w1 :> jA @@ w3 :> jB
JobOfThree == w1 :> jA @@ w2 :> jA @@ w3 :> jB
=============================================================================
