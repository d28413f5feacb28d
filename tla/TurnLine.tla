------------------------------ MODULE TurnLine ------------------------------
(***************************************************************************)
(* What the run queue of internal/queue promises when its environment      *)
(* keeps the promises it relies on: runs stand in a line, a run works only *)
(* when nobody who joined before it is still in the line, and a run that   *)
(* has died without leaving is taken out of the line in the end.           *)
(***************************************************************************)
CONSTANT Run
VARIABLES line,     \* the runs in the line
          ahead,    \* for each run in the line, those ahead of it
          working   \* the runs that have their turn

turnVars == <<line, ahead, working>>

Init == line = {} /\ ahead = [r \in Run |-> {}] /\ working = {}

Join(r) ==
  /\ r \notin line
  /\ line' = line \cup {r}
  /\ ahead' = [ahead EXCEPT ![r] = line]
  /\ UNCHANGED working

Begin(r) ==
  /\ r \in line \ working /\ ahead[r] = {}
  /\ working' = working \cup {r}
  /\ UNCHANGED <<line, ahead>>

\* The runs in S leave the line, and with it their turn.
Leave(S) ==
  /\ S # {} /\ S \subseteq line
  /\ line' = line \ S
  /\ ahead' = [r \in Run |-> IF r \in S THEN {} ELSE ahead[r] \ S]
  /\ working' = working \ S

\* A run stops working (it ends or dies) and is still in the line.
Stop(r) ==
  /\ r \in working
  /\ working' = working \ {r}
  /\ UNCHANGED <<line, ahead>>

\* The dead are taken out: nobody who works.
Remove(S) == S \cap working = {} /\ Leave(S)

\* A run leaves, working or not.
Quit(r) == Leave({r})

Next == \/ \E r \in Run : Join(r) \/ Begin(r) \/ Stop(r) \/ Quit(r)
        \/ \E S \in SUBSET Run : Remove(S)

Spec == Init /\ [][Next]_turnVars

\* Nobody works beside another: the reason for the line.
OneWorks == \A r, s \in working : r = s
=============================================================================
