--------------------------- MODULE RunQueueProofs ---------------------------
(***************************************************************************)
(* Proofs about RunQueue for every set of runs and every value of the      *)
(* timing constants.  The inductive invariant has three parts: TypeOK,     *)
(* Placed (what a row says about its process) and Timely (how far the      *)
(* heartbeats of a steady run lag behind the clock).                       *)
(***************************************************************************)
EXTENDS RunQueueTurn, TLAPS

Unregistered == {"idle", "opened", "inserting"}
Over == {"post", "gone", "crashed"}

Placed ==
  /\ \A r \in Run : row[r].status # "none" =>
       pc[r] \notin Unregistered /\ row[r].created = createdAt[r]
  /\ \A r \in Run : row[r].status \in Ended => pc[r] \in Over
  /\ \A r \in Run : row[r].status = "stale" => r \in swept
  /\ \A r \in swept : pc[r] \notin Unregistered
  /\ \A s \in Run : \A r \in seen[s] : pc[r] \notin Unregistered

\* A run whose heartbeats come on time.
Steady(r) == Alive(r) /\ r \notin tardy

Timely ==
  /\ paused \subseteq tardy /\ ctxDone \subseteq tardy
  /\ \A r \in Run : Alive(r) => lastBeat[r] <= clock /\ due[r] <= clock + Interval
  /\ \A r \in Run : Steady(r) =>
       /\ clock <= due[r]
       /\ due[r] <= lastBeat[r] + MaxGap
       /\ pc[r] = "inserting" => createdAt[r] <= clock /\ clock <= createdAt[r] + InsertLag
       /\ row[r].status \in Active => lastBeat[r] <= row[r].heartbeat + InsertLag

-----------------------------------------------------------------------------
\* TypeOK is an invariant.
LEMMA TypeStep == TypeOK /\ [Next]_vars => TypeOK'
<1> SUFFICES ASSUME TypeOK, [Next]_vars PROVE TypeOK'
  OBVIOUS
<1> USE RunAssumption, TimeAssumption DEF TypeOK, Row, Status, Active, Ended, PC
<1>1. CASE Tick
  BY <1>1 DEF Tick, queueVars, beatVars, faultVars, histVars
<1>2. ASSUME NEW r \in Run, Start(r) PROVE TypeOK'
  BY <1>2 DEF Start, Expired, NoRow, faultVars, histVars
<1>3. ASSUME NEW r \in Run, ReadClock(r) PROVE TypeOK'
  BY <1>3 DEF ReadClock, beatVars, faultVars, histVars
<1>4. ASSUME NEW r \in Run, Insert(r) PROVE TypeOK'
  BY <1>4 DEF Insert, beatVars, faultVars, histVars
<1>5. ASSUME NEW r \in Run, Sweep(r) PROVE TypeOK'
  BY <1>5 DEF Sweep, Lapsed, beatVars, faultVars
<1>6. ASSUME NEW r \in Run, Count(r) PROVE TypeOK'
  BY <1>6 DEF Count, queueVars, beatVars, faultVars
<1>7. ASSUME NEW r \in Run, Acquire(r) PROVE TypeOK'
  <2>1. row[r] \in Row /\ clock \in Nat
    OBVIOUS
  <2>2. [row[r] EXCEPT !.status = "running", !.heartbeat = clock] \in Row
    BY <2>1
  <2>3. row' \in [Run -> Row]
    BY <1>7, <2>2 DEF Acquire, Update
  <2>4. pc' \in [Run -> PC]
    BY <1>7 DEF Acquire
  <2> QED
    BY <1>7, <2>3, <2>4 DEF Acquire, beatVars, faultVars, histVars
<1>8. ASSUME NEW r \in Run, PollTimer(r) \/ WaitFails(r) \/ Exit(r) \/ Crash(r) PROVE TypeOK'
  <2>1. pc' \in [Run -> PC]
    BY <1>8 DEF PollTimer, WaitFails, Exit, Crash
  <2> QED
    BY <1>8, <2>1 DEF PollTimer, WaitFails, Exit, Crash, queueVars, beatVars, faultVars, histVars
<1>9. ASSUME NEW r \in Run, CancelRun(r) PROVE TypeOK'
  BY <1>9 DEF CancelRun, SetEnd, Update, beatVars, faultVars, histVars
<1>10. ASSUME NEW r \in Run, FinishRun(r) PROVE TypeOK'
  BY <1>10 DEF FinishRun, SetEnd, Update, beatVars, faultVars, histVars
<1>11. ASSUME NEW r \in Run, Heartbeat(r) PROVE TypeOK'
  <2>1. row' \in [Run -> Row]
    BY <1>11 DEF Heartbeat, Update
  <2>2. due' \in [Run -> Nat] /\ lastBeat' \in [Run -> Nat]
    BY <1>11 DEF Heartbeat
  <2> QED
    BY <1>11, <2>1, <2>2 DEF Heartbeat, faultVars, histVars
<1>12. ASSUME NEW r \in Run, HeartbeatFails(r) PROVE TypeOK'
  BY <1>12 DEF HeartbeatFails, faultVars, histVars
<1>13. ASSUME NEW r \in Run, Pause(r) \/ Resume(r) \/ Interrupt(r) PROVE TypeOK'
  BY <1>13 DEF Pause, Resume, Interrupt, queueVars, beatVars, histVars
<1>14. CASE UNCHANGED vars
  BY <1>14 DEF vars
<1> QED
  BY <1>1, <1>2, <1>3, <1>4, <1>5, <1>6, <1>7, <1>8, <1>9, <1>10, <1>11, <1>12, <1>13, <1>14
     DEF Next, Proceed, Beat

\* The columns and the Go variables always hold values of their types.
THEOREM TypeCorrect == Spec => []TypeOK
<1>1. Init => TypeOK
  BY RunAssumption DEF Init, TypeOK, Row, NoRow, Status, Active, Ended, PC
<1> QED
  BY <1>1, TypeStep, PTL DEF Spec
-----------------------------------------------------------------------------
\* What a row says about its process.
LEMMA PlacedStep == TypeOK /\ Placed /\ [Next]_vars => Placed'
<1> SUFFICES ASSUME TypeOK, Placed, [Next]_vars PROVE Placed'
  OBVIOUS
<1> USE RunAssumption DEF TypeOK, Row, Status, Active, Ended, PC, Placed, Unregistered, Over
<1>1. CASE Tick
  BY <1>1 DEF Tick, queueVars, beatVars, faultVars, histVars
<1>2. ASSUME NEW r \in Run, Start(r) PROVE Placed'
  BY <1>2 DEF Start, Expired, NoRow, faultVars, histVars
<1>3. ASSUME NEW r \in Run, ReadClock(r) PROVE Placed'
  BY <1>3 DEF ReadClock, beatVars, faultVars, histVars
<1>4. ASSUME NEW r \in Run, Insert(r) PROVE Placed'
  BY <1>4 DEF Insert, beatVars, faultVars, histVars
<1>5. ASSUME NEW r \in Run, Sweep(r) PROVE Placed'
  BY <1>5 DEF Sweep, Lapsed, beatVars, faultVars
<1>6. ASSUME NEW r \in Run, Count(r) PROVE Placed'
  BY <1>6 DEF Count, queueVars, beatVars, faultVars
<1>7. ASSUME NEW r \in Run, Acquire(r) PROVE Placed'
  BY <1>7 DEF Acquire, Update, beatVars, faultVars, histVars
<1>8. ASSUME NEW r \in Run, PollTimer(r) \/ WaitFails(r) \/ Exit(r) \/ Crash(r) PROVE Placed'
  <2> USE DEF Alive, Scheduled, queueVars, beatVars, faultVars, histVars
  <2>1. CASE PollTimer(r)
    BY <2>1 DEF PollTimer
  <2>2. CASE WaitFails(r)
    BY <2>2 DEF WaitFails
  <2>3. CASE Exit(r)
    BY <2>3 DEF Exit
  <2>4. CASE Crash(r)
    BY <2>4 DEF Crash
  <2> QED
    BY <1>8, <2>1, <2>2, <2>3, <2>4
<1>9. ASSUME NEW r \in Run, CancelRun(r) PROVE Placed'
  BY <1>9 DEF CancelRun, SetEnd, Update, beatVars, faultVars, histVars
<1>10. ASSUME NEW r \in Run, FinishRun(r) PROVE Placed'
  BY <1>10 DEF FinishRun, SetEnd, Update, beatVars, faultVars, histVars
<1>11. ASSUME NEW r \in Run, Heartbeat(r) PROVE Placed'
  BY <1>11 DEF Heartbeat, Update, faultVars, histVars
<1>12. ASSUME NEW r \in Run, HeartbeatFails(r) PROVE Placed'
  BY <1>12 DEF HeartbeatFails, faultVars, histVars
<1>13. ASSUME NEW r \in Run, Pause(r) \/ Resume(r) \/ Interrupt(r) PROVE Placed'
  BY <1>13 DEF Pause, Resume, Interrupt, queueVars, beatVars, histVars
<1>14. CASE UNCHANGED vars
  BY <1>14 DEF vars
<1> QED
  BY <1>1, <1>2, <1>3, <1>4, <1>5, <1>6, <1>7, <1>8, <1>9, <1>10, <1>11, <1>12, <1>13, <1>14
     DEF Next, Proceed, Beat

-----------------------------------------------------------------------------
\* How far the heartbeats of a steady run lag behind the clock.
LEMMA TimelyStep == TypeOK /\ Placed /\ Timely /\ [Next]_vars => Timely'
<1> SUFFICES ASSUME TypeOK, Placed, Timely, [Next]_vars PROVE Timely'
  OBVIOUS
<1> USE RunAssumption, TimeAssumption, HeartbeatAssumption
    DEF TypeOK, Row, Status, Active, Ended, PC, Placed, Unregistered, Over,
        Timely, Steady, Alive, Scheduled, Beating
<1>1. CASE Tick
  BY <1>1 DEF Tick, queueVars, beatVars, faultVars, histVars
<1>2. ASSUME NEW r \in Run, Start(r) PROVE Timely'
  BY <1>2 DEF Start, Expired, NoRow, faultVars, histVars
<1>3. ASSUME NEW r \in Run, ReadClock(r) PROVE Timely'
  BY <1>3 DEF ReadClock, beatVars, faultVars, histVars
<1>4. ASSUME NEW r \in Run, Insert(r) PROVE Timely'
  BY <1>4 DEF Insert, beatVars, faultVars, histVars
<1>5. ASSUME NEW r \in Run, Sweep(r) PROVE Timely'
  BY <1>5 DEF Sweep, Lapsed, beatVars, faultVars
<1>6. ASSUME NEW r \in Run, Count(r) PROVE Timely'
  BY <1>6 DEF Count, queueVars, beatVars, faultVars
<1>7. ASSUME NEW r \in Run, Acquire(r) PROVE Timely'
  BY <1>7 DEF Acquire, Update, beatVars, faultVars, histVars
<1>8. ASSUME NEW r \in Run, PollTimer(r) \/ WaitFails(r) \/ Exit(r) \/ Crash(r) PROVE Timely'
  <2> USE DEF Alive, Scheduled, queueVars, beatVars, faultVars, histVars
  <2>1. CASE PollTimer(r)
    BY <2>1 DEF PollTimer
  <2>2. CASE WaitFails(r)
    BY <2>2 DEF WaitFails
  <2>3. CASE Exit(r)
    BY <2>3 DEF Exit
  <2>4. CASE Crash(r)
    BY <2>4 DEF Crash
  <2> QED
    BY <1>8, <2>1, <2>2, <2>3, <2>4
<1>9. ASSUME NEW r \in Run, CancelRun(r) PROVE Timely'
  BY <1>9 DEF CancelRun, SetEnd, Update, beatVars, faultVars, histVars
<1>10. ASSUME NEW r \in Run, FinishRun(r) PROVE Timely'
  BY <1>10 DEF FinishRun, SetEnd, Update, beatVars, faultVars, histVars
<1>11. ASSUME NEW r \in Run, Heartbeat(r) PROVE Timely'
  BY <1>11 DEF Heartbeat, Update, faultVars, histVars
<1>12. ASSUME NEW r \in Run, HeartbeatFails(r) PROVE Timely'
  BY <1>12 DEF HeartbeatFails, faultVars, histVars
<1>13. ASSUME NEW r \in Run, Pause(r) \/ Resume(r) \/ Interrupt(r) PROVE Timely'
  <2>1. UNCHANGED <<clock, row, pc, createdAt, due, lastBeat>>
    BY <1>13 DEF Pause, Resume, Interrupt, queueVars, beatVars
  <2>2. tardy \subseteq tardy'
    BY <1>13 DEF Pause, Resume, Interrupt
  <2>3. paused' \subseteq tardy' /\ ctxDone' \subseteq tardy'
    BY <1>13 DEF Pause, Resume, Interrupt
  <2> QED
    BY <2>1, <2>2, <2>3
<1>14. CASE UNCHANGED vars
  BY <1>14 DEF vars
<1> QED
  BY <1>1, <1>2, <1>3, <1>4, <1>5, <1>6, <1>7, <1>8, <1>9, <1>10, <1>11, <1>12, <1>13, <1>14
     DEF Next, Proceed, Beat
-----------------------------------------------------------------------------
\* A steady run is never swept: its heartbeat is at most TTL seconds old.
LEMMA SweptStep ==
  TypeOK /\ Placed /\ Timely /\ LiveNeverSwept /\ [Next]_vars => LiveNeverSwept'
<1> SUFFICES ASSUME TypeOK, Placed, Timely, LiveNeverSwept, [Next]_vars PROVE LiveNeverSwept'
  OBVIOUS
<1> USE RunAssumption, TimeAssumption, HeartbeatAssumption
    DEF TypeOK, Row, Status, Active, Ended, PC, Placed, Unregistered, Over,
        Timely, Steady, Alive, Scheduled, LiveNeverSwept
<1>1. CASE Tick
  BY <1>1 DEF Tick, queueVars, beatVars, faultVars, histVars
<1>2. ASSUME NEW r \in Run, Start(r) PROVE LiveNeverSwept'
  BY <1>2 DEF Start, Expired, NoRow, faultVars, histVars
<1>3. ASSUME NEW r \in Run, ReadClock(r) PROVE LiveNeverSwept'
  BY <1>3 DEF ReadClock, beatVars, faultVars, histVars
<1>4. ASSUME NEW r \in Run, Insert(r) PROVE LiveNeverSwept'
  BY <1>4 DEF Insert, beatVars, faultVars, histVars
<1>5. ASSUME NEW r \in Run, Sweep(r) PROVE LiveNeverSwept'
  <2>1. swept' = swept \cup Lapsed(r) /\ tardy' = tardy
    BY <1>5 DEF Sweep, faultVars
  <2>2. \A s \in Run : Alive(s)' => Alive(s)
    BY <1>5 DEF Sweep
  <2>3. ASSUME NEW s \in Lapsed(r), Alive(s), s \notin tardy PROVE FALSE
    <3>1. s \in Run /\ row[s].status \in Active /\ row[s].heartbeat < clock - TTL
      BY <2>3 DEF Lapsed
    <3>2. /\ row[s].heartbeat \in Nat /\ lastBeat[s] \in Nat /\ due[s] \in Nat /\ clock \in Nat
      BY <3>1
    <3>3. /\ clock <= due[s] /\ due[s] <= lastBeat[s] + MaxGap
          /\ lastBeat[s] <= row[s].heartbeat + InsertLag
      BY <2>3, <3>1
    <3> QED
      BY <3>1, <3>2, <3>3
  <2> QED
    BY <2>1, <2>2, <2>3 DEF Lapsed
<1>6. ASSUME NEW r \in Run, Count(r) PROVE LiveNeverSwept'
  BY <1>6 DEF Count, queueVars, beatVars, faultVars
<1>7. ASSUME NEW r \in Run, Acquire(r) PROVE LiveNeverSwept'
  BY <1>7 DEF Acquire, Update, beatVars, faultVars, histVars
<1>8. ASSUME NEW r \in Run, PollTimer(r) PROVE LiveNeverSwept'
  BY <1>8 DEF PollTimer, queueVars, beatVars, faultVars, histVars
<1>9. ASSUME NEW r \in Run, WaitFails(r) PROVE LiveNeverSwept'
  BY <1>9 DEF WaitFails, queueVars, beatVars, faultVars, histVars
<1>10. ASSUME NEW r \in Run, CancelRun(r) PROVE LiveNeverSwept'
  BY <1>10 DEF CancelRun, SetEnd, Update, beatVars, faultVars, histVars
<1>11. ASSUME NEW r \in Run, FinishRun(r) PROVE LiveNeverSwept'
  BY <1>11 DEF FinishRun, SetEnd, Update, beatVars, faultVars, histVars
<1>12. ASSUME NEW r \in Run, Exit(r) PROVE LiveNeverSwept'
  BY <1>12 DEF Exit, queueVars, beatVars, faultVars, histVars
<1>13. ASSUME NEW r \in Run, Heartbeat(r) PROVE LiveNeverSwept'
  BY <1>13 DEF Heartbeat, Update, faultVars, histVars
<1>14. ASSUME NEW r \in Run, HeartbeatFails(r) PROVE LiveNeverSwept'
  BY <1>14 DEF HeartbeatFails, faultVars, histVars
<1>15. ASSUME NEW r \in Run, Crash(r) PROVE LiveNeverSwept'
  BY <1>15 DEF Crash, queueVars, beatVars, faultVars, histVars
<1>16. ASSUME NEW r \in Run, Pause(r) \/ Resume(r) \/ Interrupt(r) PROVE LiveNeverSwept'
  BY <1>16 DEF Pause, Resume, Interrupt, queueVars, beatVars, histVars
<1>17. CASE UNCHANGED vars
  BY <1>17 DEF vars
<1> QED
  BY <1>1, <1>2, <1>3, <1>4, <1>5, <1>6, <1>7, <1>8,
     <1>9, <1>10, <1>11, <1>12, <1>13, <1>14, <1>15, <1>16, <1>17
     DEF Next, Proceed, Beat

\* A run that takes its turn has seen every run ahead of it end.
LEMMA OvertakingStep == TypeOK /\ Placed /\ NoOvertaking /\ [Next]_vars => NoOvertaking'
<1> SUFFICES ASSUME TypeOK, Placed, NoOvertaking, [Next]_vars PROVE NoOvertaking'
  OBVIOUS
<1> USE RunAssumption
    DEF TypeOK, Row, Status, Active, Ended, PC, Placed, Unregistered, Over,
        Alive, Scheduled, NoOvertaking, Before, Ahead
<1>1. CASE Tick
  BY <1>1 DEF Tick, queueVars, beatVars, faultVars, histVars
<1>2. ASSUME NEW r \in Run, Start(r) PROVE NoOvertaking'
  BY <1>2 DEF Start, Expired, NoRow, faultVars, histVars
<1>3. ASSUME NEW r \in Run, ReadClock(r) PROVE NoOvertaking'
  BY <1>3 DEF ReadClock, beatVars, faultVars, histVars
<1>4. ASSUME NEW r \in Run, Insert(r) PROVE NoOvertaking'
  BY <1>4 DEF Insert, beatVars, faultVars, histVars
<1>5. ASSUME NEW r \in Run, Sweep(r) PROVE NoOvertaking'
  BY <1>5 DEF Sweep, Lapsed, beatVars, faultVars
<1>6. ASSUME NEW r \in Run, Count(r) PROVE NoOvertaking'
  BY <1>6 DEF Count, queueVars, beatVars, faultVars
<1>7. ASSUME NEW r \in Run, Acquire(r) PROVE NoOvertaking'
  BY <1>7 DEF Acquire, Update, beatVars, faultVars, histVars
<1>8. ASSUME NEW r \in Run, PollTimer(r) PROVE NoOvertaking'
  BY <1>8 DEF PollTimer, queueVars, beatVars, faultVars, histVars
<1>9. ASSUME NEW r \in Run, WaitFails(r) PROVE NoOvertaking'
  BY <1>9 DEF WaitFails, queueVars, beatVars, faultVars, histVars
<1>10. ASSUME NEW r \in Run, CancelRun(r) PROVE NoOvertaking'
  BY <1>10 DEF CancelRun, SetEnd, Update, beatVars, faultVars, histVars
<1>11. ASSUME NEW r \in Run, FinishRun(r) PROVE NoOvertaking'
  BY <1>11 DEF FinishRun, SetEnd, Update, beatVars, faultVars, histVars
<1>12. ASSUME NEW r \in Run, Exit(r) PROVE NoOvertaking'
  BY <1>12 DEF Exit, queueVars, beatVars, faultVars, histVars
<1>13. ASSUME NEW r \in Run, Heartbeat(r) PROVE NoOvertaking'
  BY <1>13 DEF Heartbeat, Update, faultVars, histVars
<1>14. ASSUME NEW r \in Run, HeartbeatFails(r) PROVE NoOvertaking'
  BY <1>14 DEF HeartbeatFails, faultVars, histVars
<1>15. ASSUME NEW r \in Run, Crash(r) PROVE NoOvertaking'
  BY <1>15 DEF Crash, queueVars, beatVars, faultVars, histVars
<1>16. ASSUME NEW r \in Run, Pause(r) \/ Resume(r) \/ Interrupt(r) PROVE NoOvertaking'
  BY <1>16 DEF Pause, Resume, Interrupt, queueVars, beatVars, histVars
<1>17. CASE UNCHANGED vars
  BY <1>17 DEF vars
<1> QED
  BY <1>1, <1>2, <1>3, <1>4, <1>5, <1>6, <1>7, <1>8,
     <1>9, <1>10, <1>11, <1>12, <1>13, <1>14, <1>15, <1>16, <1>17
     DEF Next, Proceed, Beat

-----------------------------------------------------------------------------
IInv == TypeOK /\ Placed /\ Timely /\ LiveNeverSwept /\ NoOvertaking

LEMMA InitIInv == Init => IInv
BY RunAssumption, TimeAssumption, HeartbeatAssumption
   DEF Init, IInv, TypeOK, Row, NoRow, Status, Active, Ended, PC, Placed, Unregistered, Over,
       Timely, Steady, Alive, LiveNeverSwept, NoOvertaking

LEMMA IInvStep == IInv /\ [Next]_vars => IInv'
BY TypeStep, PlacedStep, TimelyStep, SweptStep, OvertakingStep DEF IInv

LEMMA IInvInvariant == Spec => []IInv
BY InitIInv, IInvStep, PTL DEF Spec

\* A run that is neither suspended nor interrupted is never marked stale,
\* whichever of its heartbeats fail, while two in a row stay within MaxGap.
THEOREM LiveRunNeverSwept == Spec => []LiveNeverSwept
BY IInvInvariant, PTL DEF IInv

\* A run that has its turn overtook no run it could see.
THEOREM NobodyOvertaken == Spec => []NoOvertaking
BY IInvInvariant, PTL DEF IInv

-----------------------------------------------------------------------------
\* What Finish has written no step rewrites.
THEOREM EndStays == Spec => EndIsFinal
<1> DEFINE EndKept == \A r \in Run : row[r].status \in Ended => row'[r].status \in {row[r].status, "none"}
<1>1. ASSUME IInv, [Next]_vars PROVE [EndKept]_vars
  <2> USE <1>1, RunAssumption
      DEF IInv, TypeOK, Row, Status, Active, Ended, PC, Placed, Unregistered, Over
  <2>1. CASE UNCHANGED vars
    BY <2>1
  <2>2. CASE Next
    <3>1. CASE row' = row
      BY <3>1
    <3>2. ASSUME NEW r \in Run, Start(r) PROVE EndKept
      BY <3>2 DEF Start, Expired, NoRow
    <3>3. ASSUME NEW r \in Run, Insert(r) PROVE EndKept
      BY <3>3 DEF Insert
    <3>4. ASSUME NEW r \in Run, Sweep(r) PROVE EndKept
      BY <3>4 DEF Sweep, Lapsed
    <3>5. ASSUME NEW r \in Run, Acquire(r) PROVE EndKept
      BY <3>5 DEF Acquire, Update
    <3>6. ASSUME NEW r \in Run, CancelRun(r) PROVE EndKept
      BY <3>6 DEF CancelRun, SetEnd, Update
    <3>7. ASSUME NEW r \in Run, FinishRun(r) PROVE EndKept
      BY <3>7 DEF FinishRun, SetEnd, Update
    <3>8. ASSUME NEW r \in Run, Heartbeat(r) PROVE EndKept
      BY <3>8 DEF Heartbeat, Update
    <3>9. Next => \/ row' = row
                  \/ \E r \in Run : \/ Start(r) \/ Insert(r) \/ Sweep(r) \/ Acquire(r)
                                    \/ CancelRun(r) \/ FinishRun(r) \/ Heartbeat(r)
      BY DEF Next, Proceed, Beat, Tick, ReadClock, Count, PollTimer, WaitFails, Exit,
             HeartbeatFails, Crash, Pause, Resume, Interrupt, queueVars
    <3> QED
      BY <2>2, <3>1, <3>2, <3>3, <3>4, <3>5, <3>6, <3>7, <3>8, <3>9
  <2> QED
    BY <1>1, <2>1, <2>2
<1>2. IInv /\ [Next]_vars => [EndKept]_vars
  BY <1>1
<1> QED
  BY <1>2, IInvInvariant, PTL DEF Spec, EndIsFinal

-----------------------------------------------------------------------------
(* Mutual exclusion, in the environment that grants it.                    *)

Calm == InOrder /\ CanPause = {} /\ CanInterrupt = {}

\* Nobody is late, a waiting run keeps its row, and a run that is at its turn
\* has seen every row that is ahead of it.
Ordered ==
  /\ tardy = {} /\ paused = {}
  /\ \A r \in Run : pc[r] \in {"sweep", "count", "acquire", "poll", "uploading"} =>
       row[r].status \in Active
  /\ \A r, s \in Run : /\ pc[s] \in {"acquire", "uploading"}
                       /\ row[r].status # "none"
                       /\ Before(createdAt[r], r, createdAt[s], s)
                       => r \in seen[s]

LEMMA SweepRow ==
  ASSUME TypeOK, NEW r \in Run, Sweep(r), NEW q \in Run
  PROVE  /\ q \notin Lapsed(r) => row'[q] = row[q]
         /\ row'[q].status = "none" <=> row[q].status = "none"
<1>1. row[q] \in Row /\ row'[q] = IF q \in Lapsed(r)
                                 THEN [status |-> "stale", created |-> row[q].created,
                                       heartbeat |-> row[q].heartbeat, finished |-> clock]
                                 ELSE row[q]
  BY DEF TypeOK, Sweep
<1>2. q \in Lapsed(r) => row[q].status # "none" /\ row'[q].status = "stale"
  BY <1>1 DEF Lapsed, Active, Row
<1> QED
  BY <1>1, <1>2

LEMMA OrderedStep == Calm /\ IInv /\ Ordered /\ [Next]_vars /\ LiveNeverSwept' => Ordered'
<1> SUFFICES ASSUME Calm, IInv, Ordered, [Next]_vars, LiveNeverSwept' PROVE Ordered'
  OBVIOUS
<1> USE RunAssumption
    DEF IInv, Calm, TypeOK, Row, Status, Active, Ended, PC, Placed, Unregistered, Over,
        Alive, Scheduled, LiveNeverSwept, Before, Ordered
<1>1. CASE Tick
  BY <1>1 DEF Tick, queueVars, beatVars, faultVars, histVars
<1>2. ASSUME NEW r \in Run, Start(r) PROVE Ordered'
  BY <1>2 DEF Start, Expired, NoRow, faultVars, histVars
<1>3. ASSUME NEW r \in Run, ReadClock(r) PROVE Ordered'
  BY <1>3 DEF ReadClock, beatVars, faultVars, histVars
<1>4. ASSUME NEW r \in Run, Insert(r) PROVE Ordered'
  BY <1>4 DEF Insert, ArrivesLast, beatVars, faultVars, histVars
<1>5. ASSUME NEW r \in Run, Sweep(r) PROVE Ordered'
  <2>1. /\ UNCHANGED <<createdAt, tardy, paused, seen>> /\ swept' = swept \cup Lapsed(r)
        /\ pc' = [pc EXCEPT ![r] = "count"] /\ pc[r] = "sweep"
        /\ row' = [q \in Run |-> IF q \in Lapsed(r)
                               THEN [status |-> "stale", created |-> row[q].created,
                                     heartbeat |-> row[q].heartbeat, finished |-> clock]
                               ELSE row[q]]
    BY <1>5 DEF Sweep, beatVars, faultVars
  <2>2. \A q \in Run : row'[q].status = "none" <=> row[q].status = "none"
    BY <1>5, SweepRow
  <2>3. ASSUME NEW q \in Run, pc'[q] \in {"sweep", "count", "acquire", "poll", "uploading"}
        PROVE row'[q].status \in Active
    <3>1. pc[q] \in {"sweep", "count", "acquire", "poll", "uploading"}
      BY <2>1, <2>3
    <3>3. row[q].status \in Active
      BY <3>1
    <3>2. q \notin Lapsed(r)
      BY <2>1, <2>3
    <3> QED
      BY <1>5, <3>2, <3>3, SweepRow
  <2>4. \A s \in Run : pc'[s] \in {"acquire", "uploading"} => pc[s] \in {"acquire", "uploading"}
    BY <2>1
  <2>5. /\ tardy' = {} /\ paused' = {} /\ createdAt' = createdAt /\ seen' = seen
    BY <2>1
  <2> HIDE DEF IInv, TypeOK, Placed
  <2> QED
    BY <2>2, <2>3, <2>4, <2>5
<1>6. ASSUME NEW r \in Run, Count(r) PROVE Ordered'
  BY <1>6 DEF Count, queueVars, beatVars, faultVars
<1>7. ASSUME NEW r \in Run, Acquire(r) PROVE Ordered'
  BY <1>7 DEF Acquire, Update, beatVars, faultVars, histVars
<1>8. ASSUME NEW r \in Run, PollTimer(r) PROVE Ordered'
  BY <1>8 DEF PollTimer, queueVars, beatVars, faultVars, histVars
<1>9. ASSUME NEW r \in Run, WaitFails(r) PROVE Ordered'
  BY <1>9 DEF WaitFails, queueVars, beatVars, faultVars, histVars
<1>10. ASSUME NEW r \in Run, CancelRun(r) PROVE Ordered'
  BY <1>10 DEF CancelRun, SetEnd, Update, beatVars, faultVars, histVars
<1>11. ASSUME NEW r \in Run, FinishRun(r) PROVE Ordered'
  BY <1>11 DEF FinishRun, SetEnd, Update, beatVars, faultVars, histVars
<1>12. ASSUME NEW r \in Run, Exit(r) PROVE Ordered'
  BY <1>12 DEF Exit, queueVars, beatVars, faultVars, histVars
<1>13. ASSUME NEW r \in Run, Heartbeat(r) PROVE Ordered'
  BY <1>13 DEF Heartbeat, Update, faultVars, histVars
<1>14. ASSUME NEW r \in Run, HeartbeatFails(r) PROVE Ordered'
  BY <1>14 DEF HeartbeatFails, faultVars, histVars
<1>15. ASSUME NEW r \in Run, Crash(r) PROVE Ordered'
  BY <1>15 DEF Crash, queueVars, beatVars, faultVars, histVars
<1>16. ASSUME NEW r \in Run, Pause(r) \/ Resume(r) \/ Interrupt(r) PROVE Ordered'
  BY <1>16 DEF Pause, Resume, Interrupt, queueVars, beatVars, histVars
<1>17. CASE UNCHANGED vars
  BY <1>17 DEF vars
<1> QED
  BY <1>1, <1>2, <1>3, <1>4, <1>5, <1>6, <1>7, <1>8,
     <1>9, <1>10, <1>11, <1>12, <1>13, <1>14, <1>15, <1>16, <1>17
     DEF Next, Proceed, Beat

LEMMA OrderedInvariant == Calm => (Spec => [](IInv /\ Ordered))
<1> SUFFICES ASSUME Calm PROVE Spec => [](IInv /\ Ordered)
  OBVIOUS
<1>1. Init => Ordered
  BY DEF Init, Ordered, NoRow
<1>2. IInv /\ Ordered /\ [Next]_vars => (IInv /\ Ordered)'
  BY OrderedStep, IInvStep DEF IInv
<1> QED
  BY <1>1, <1>2, InitIInv, PTL DEF Spec

\* When INSERTs come in key order and no process is suspended or interrupted,
\* at most one run uploads, whatever crashes and lost updates happen.
THEOREM MutualExclusion == Calm => (Spec => []AtMostOneUploading)
<1> SUFFICES ASSUME Calm PROVE Spec => []AtMostOneUploading
  OBVIOUS
<1>1. IInv /\ Ordered => AtMostOneUploading
  <2> SUFFICES ASSUME IInv, Ordered PROVE AtMostOneUploading
    OBVIOUS
  <2> SUFFICES ASSUME NEW r \in Uploading, NEW s \in Uploading,
                      Before(createdAt[r], r, createdAt[s], s)
               PROVE FALSE
    <3>1. ASSUME NEW u \in Run, NEW v \in Run, u # v
          PROVE \/ Before(createdAt[u], u, createdAt[v], v)
                \/ Before(createdAt[v], v, createdAt[u], u)
      <4>1. u \in Nat /\ v \in Nat /\ createdAt[u] \in Nat /\ createdAt[v] \in Nat
        BY RunAssumption DEF IInv, TypeOK
      <4> QED
        BY <3>1, <4>1 DEF Before
    <3> QED
      BY <3>1 DEF AtMostOneUploading, Uploading
  <2>1. pc[r] = "uploading" /\ pc[s] = "uploading" /\ r \in Run /\ s \in Run
    BY DEF Uploading
  <2>2. r \notin swept
    BY <2>1 DEF IInv, LiveNeverSwept, Ordered, Alive
  <2>3. r \in seen[s]
    BY <2>1 DEF Ordered, Active
  <2> QED
    BY <2>1, <2>2, <2>3 DEF IInv, NoOvertaking
<1> QED
  BY <1>1, OrderedInvariant, PTL

-----------------------------------------------------------------------------
(* The refinement of TurnLine, in the same environment.                    *)

\* A run at its turn has nobody ahead of it, also if its process waits between
\* countAhead and the UPDATE that marks it running.
AtTurn == \A r \in Run : pc[r] \in {"acquire", "uploading"} => Ahead(r) = {}

\* The line and its order lose the runs of S whose rows cease to be active.
LEMMA LineLoses ==
  ASSUME NEW S \in SUBSET Run,
         \A q \in Run : row'[q].status \in Active <=> row[q].status \in Active /\ q \notin S,
         \A q \in Run : row'[q].status \in Active =>
           row'[q].created = row[q].created /\ createdAt'[q] = createdAt[q]
  PROVE  /\ InLine' = InLine \ S
         /\ AheadInLine' = [r \in Run |-> IF r \in S THEN {} ELSE AheadInLine[r] \ S]
<1>1. InLine' = InLine \ S
  BY DEF InLine
<1>2. ASSUME NEW r \in InLine' PROVE Ahead(r)' = Ahead(r) \ S
  BY <1>2 DEF Ahead, InLine
<1>3. \A r \in Run : AheadInLine'[r] = IF r \in S THEN {} ELSE AheadInLine[r] \ S
  BY <1>1, <1>2 DEF AheadInLine
<1> QED
  BY <1>1, <1>3 DEF AheadInLine

\* Nothing changes in the line when no row starts or ceases to be active.
LEMMA LineStays ==
  ASSUME \A q \in Run : row'[q].status \in Active <=> row[q].status \in Active,
         \A q \in Run : row'[q].status \in Active =>
           row'[q].created = row[q].created /\ createdAt'[q] = createdAt[q]
  PROVE  InLine' = InLine /\ AheadInLine' = AheadInLine
<1>1. /\ InLine' = InLine \ {}
      /\ AheadInLine' = [r \in Run |-> IF r \in {} THEN {} ELSE AheadInLine[r] \ {}]
  BY LineLoses
<1>2. \A r \in Run : AheadInLine'[r] = AheadInLine[r]
  BY <1>1
<1> QED
  BY <1>1, <1>2 DEF AheadInLine

\* A row that is inserted in key order comes last: it joins the line.
LEMMA Joins ==
  ASSUME Calm, IInv, NEW r \in Run, Insert(r)
  PROVE  Turn!Join(r)
<1>1. pc[r] = "inserting" /\ row[r].status \notin Active /\ ArrivesLast(r)
  BY DEF Insert, Calm, IInv, Placed, Unregistered, Active
<1>2. /\ row'[r].status = "waiting" /\ row'[r].created = createdAt[r] /\ createdAt' = createdAt
      /\ \A q \in Run : q # r => row'[q] = row[q]
  BY DEF Insert, IInv, TypeOK
<1>3. \A q \in InLine : /\ Before(row[q].created, q, createdAt[r], r)
                        /\ ~Before(createdAt[r], r, createdAt[q], q)
  <2> SUFFICES ASSUME NEW q \in InLine
               PROVE  /\ Before(row[q].created, q, createdAt[r], r)
                      /\ ~Before(createdAt[r], r, createdAt[q], q)
    OBVIOUS
  <2>1. q \in Run /\ row[q].status # "none" /\ row[q].created = createdAt[q]
    BY DEF InLine, Active, IInv, Placed
  <2>2. Before(row[q].created, q, createdAt[r], r)
    BY <1>1, <2>1 DEF ArrivesLast
  <2>3. createdAt[q] \in Nat /\ createdAt[r] \in Nat /\ q \in Nat /\ r \in Nat
    BY <2>1, RunAssumption DEF IInv, TypeOK
  <2> QED
    BY <2>1, <2>2, <2>3 DEF Before
<1>4. InLine' = InLine \cup {r} /\ r \notin InLine
  BY <1>1, <1>2 DEF InLine, Active
<1>5. Ahead(r)' = InLine
  <2>1. ~Before(createdAt[r], r, createdAt[r], r)
    BY RunAssumption DEF Before, IInv, TypeOK
  <2> QED
    BY <1>2, <1>3, <1>4, <2>1 DEF Ahead, InLine
<1>6. \A q \in InLine : Ahead(q)' = Ahead(q)
  BY <1>1, <1>2, <1>3, <1>4 DEF Ahead, InLine
<1>7. AheadInLine' = [AheadInLine EXCEPT ![r] = InLine]
  <2>1. \A q \in Run : AheadInLine'[q] = IF q = r THEN InLine ELSE AheadInLine[q]
    BY <1>4, <1>5, <1>6 DEF AheadInLine
  <2> QED
    BY <2>1 DEF AheadInLine
<1>8. Uploading' = Uploading
  BY <1>1 DEF Insert, Uploading, IInv, TypeOK
<1> QED
  BY <1>4, <1>7, <1>8 DEF Turn!Join

\* markStale takes the dead out of the line, and nobody else.
LEMMA Removes ==
  ASSUME Calm, IInv, IInv', Ordered', NEW r \in Run, Sweep(r)
  PROVE  Turn!Remove(Lapsed(r)) \/ UNCHANGED Turn!turnVars
<1>1. Lapsed(r) \subseteq InLine
  BY DEF Lapsed, InLine
<1>2. /\ createdAt' = createdAt /\ pc' = [pc EXCEPT ![r] = "count"] /\ pc[r] = "sweep"
      /\ swept' = swept \cup Lapsed(r)
  BY DEF Sweep
<1>3. \A q \in Run : row'[q].status \in Active <=> row[q].status \in Active /\ q \notin Lapsed(r)
  BY SweepRow DEF Sweep, Active, IInv
<1>4. \A q \in Run : row'[q].status \in Active => row'[q] = row[q]
  BY <1>3, SweepRow DEF IInv
<1>5. /\ InLine' = InLine \ Lapsed(r)
      /\ AheadInLine' =
           [q \in Run |-> IF q \in Lapsed(r) THEN {} ELSE AheadInLine[q] \ Lapsed(r)]
  BY <1>1, <1>2, <1>3, <1>4, LineLoses DEF InLine
<1>6. Uploading' = Uploading
  BY <1>2 DEF Uploading, IInv, TypeOK
<1>7. Lapsed(r) \cap Uploading = {}
  <2> SUFFICES ASSUME NEW q \in Lapsed(r), pc[q] = "uploading" PROVE FALSE
    BY DEF Uploading
  <2>1. q \in Run /\ q \in swept' /\ pc'[q] = "uploading"
    BY <1>1, <1>2 DEF InLine, IInv, TypeOK
  <2> QED
    BY <2>1 DEF IInv, LiveNeverSwept, Ordered, Alive
<1>8. CASE Lapsed(r) = {}
  BY <1>2, <1>3, <1>4, <1>6, <1>8, LineStays DEF Turn!turnVars
<1>9. CASE Lapsed(r) # {}
  BY <1>1, <1>5, <1>6, <1>7, <1>9 DEF Turn!Remove, Turn!Leave
<1> QED
  BY <1>8, <1>9

\* The UPDATE of Finish takes a run out of the line; when it is lost the run
\* stays there, but works no more.
LEMMA Quits ==
  ASSUME Calm, IInv, Ordered, NEW r \in Run, FinishRun(r) \/ CancelRun(r)
  PROVE  Turn!Quit(r) \/ Turn!Stop(r) \/ UNCHANGED Turn!turnVars
<1>1. /\ Uploading' = Uploading \ {r} /\ createdAt' = createdAt
      /\ FinishRun(r) => r \in Uploading /\ r \in InLine
      /\ CancelRun(r) => r \notin Uploading
  BY DEF FinishRun, CancelRun, Uploading, InLine, IInv, TypeOK, Ordered
<1>2. \/ row' = row
      \/ /\ row[r].status # "none" /\ row'[r].status \notin Active
         /\ \A q \in Run : q # r => row'[q] = row[q]
  BY DEF FinishRun, CancelRun, SetEnd, Update, IInv, TypeOK, Active, Ended
<1>3. CASE row' = row
  <2>1. InLine' = InLine /\ AheadInLine' = AheadInLine
    BY <1>1, <1>3, LineStays
  <2> QED
    BY <1>1, <2>1 DEF Turn!Stop, Turn!turnVars
<1>4. CASE row'[r].status \notin Active /\ \A q \in Run : q # r => row'[q] = row[q]
  <2>1. CASE r \in InLine
    <3>1. InLine' = InLine \ {r}
          /\ AheadInLine' = [q \in Run |-> IF q \in {r} THEN {} ELSE AheadInLine[q] \ {r}]
      BY <1>1, <1>4, LineLoses
    <3> QED
      BY <1>1, <2>1, <3>1 DEF Turn!Quit, Turn!Leave
  <2>2. CASE r \notin InLine
    <3>1. InLine' = InLine /\ AheadInLine' = AheadInLine
      BY <1>1, <1>4, <2>2, LineStays DEF InLine
    <3> QED
      BY <1>1, <2>2, <3>1 DEF Turn!turnVars
  <2> QED
    BY <2>1, <2>2
<1> QED
  BY <1>2, <1>3, <1>4

\* A run that is marked running is at the head of the line.
LEMMA Begins ==
  ASSUME Calm, IInv, Ordered, AtTurn, NEW r \in Run, Acquire(r)
  PROVE  Turn!Begin(r)
<1>1. /\ pc[r] = "acquire" /\ row[r].status \in Active /\ createdAt' = createdAt
      /\ Uploading' = Uploading \cup {r} /\ r \notin Uploading
  BY DEF Acquire, Uploading, IInv, TypeOK, Ordered
<1>2. /\ row'[r].status = "running" /\ row'[r].created = row[r].created
      /\ \A q \in Run : q # r => row'[q] = row[q]
  <2>1. row \in [Run -> Row] /\ row[r].status # "none"
    BY <1>1 DEF IInv, TypeOK, Active
  <2>2. row' = [row EXCEPT ![r] = [row[r] EXCEPT !.status = "running", !.heartbeat = clock]]
    BY <2>1 DEF Acquire, Update
  <2> QED
    BY <2>1, <2>2 DEF Row
<1>3. InLine' = InLine /\ AheadInLine' = AheadInLine
  BY <1>1, <1>2, LineStays DEF Active
<1>4. r \in InLine /\ AheadInLine[r] = {}
  BY <1>1 DEF InLine, AheadInLine, AtTurn
<1> QED
  BY <1>1, <1>3, <1>4 DEF Turn!Begin

\* The steps that neither join, leave nor begin: no row starts or ceases to be
\* active, and no run starts to work.
LEMMA Stutters ==
  ASSUME Calm, IInv, NEW r \in Run,
         \/ Tick \/ Start(r) \/ ReadClock(r) \/ Count(r) \/ PollTimer(r) \/ WaitFails(r)
         \/ Exit(r) \/ Beat(r) \/ Crash(r) \/ Pause(r) \/ Resume(r) \/ Interrupt(r)
         \/ UNCHANGED vars
  PROVE  Turn!Stop(r) \/ UNCHANGED Turn!turnVars
<1> USE DEF queueVars, beatVars, faultVars, histVars
<1> DEFINE Kept(q) == /\ row'[q].status \in Active <=> row[q].status \in Active
                      /\ row'[q].status \in Active =>
                           row'[q].created = row[q].created /\ createdAt'[q] = createdAt[q]
<1>1. ASSUME UNCHANGED queueVars PROVE \A q \in Run : Kept(q)
  BY <1>1
<1>2. ASSUME ReadClock(r) PROVE \A q \in Run : Kept(q)
  <2>1. row' = row /\ \A q \in Run \ {r} : createdAt'[q] = createdAt[q]
    BY <1>2 DEF ReadClock, IInv, TypeOK
  <2>2. row[r].status \notin Active
    BY <1>2 DEF ReadClock, IInv, Placed, Unregistered, Active
  <2> QED
    BY <2>1, <2>2
<1>3. ASSUME Start(r) PROVE \A q \in Run : Kept(q)
  <2>1. createdAt' = createdAt
    BY <1>3 DEF Start
  <2>2. ASSUME NEW q \in Run
        PROVE  row'[q] = row[q] \/ (row'[q] = NoRow /\ row[q].status \in Ended \cup {"stale"})
    BY <1>3, <2>2 DEF Start, Expired
  <2> QED
    BY <2>1, <2>2 DEF NoRow, Active, Ended
<1>4. ASSUME Heartbeat(r) PROVE \A q \in Run : Kept(q)
  <2>1. createdAt' = createdAt
    BY <1>4 DEF Heartbeat
  <2>2. \A q \in Run : row'[q].status = row[q].status /\ row'[q].created = row[q].created
    <3>1. row \in [Run -> Row]
      BY DEF IInv, TypeOK
    <3>2. row' = row \/ row' = [row EXCEPT ![r] = [row[r] EXCEPT !.heartbeat = clock]]
      BY <1>4 DEF Heartbeat, Update
    <3> QED
      BY <3>1, <3>2 DEF Row
  <2> QED
    BY <2>1, <2>2
<1>5. \A q \in Run : Kept(q)
  <2>1. \/ UNCHANGED queueVars \/ ReadClock(r) \/ Start(r) \/ Heartbeat(r)
    BY DEF Tick, Count, PollTimer, WaitFails, Exit, Beat, HeartbeatFails, Crash, Pause, Resume,
           Interrupt, vars
  <2> QED
    BY <2>1, <1>1, <1>2, <1>3, <1>4
<1>6. InLine' = InLine /\ AheadInLine' = AheadInLine
  BY <1>5, LineStays
<1>7. \/ Uploading' = Uploading
      \/ r \in Uploading /\ Uploading' = Uploading \ {r}
  BY DEF Tick, Start, ReadClock, Count, PollTimer, WaitFails, Exit, Beat, Heartbeat,
         HeartbeatFails, Crash, Pause, Resume, Interrupt, vars, Uploading, IInv, TypeOK
<1> QED
  BY <1>6, <1>7 DEF Turn!Stop, Turn!turnVars

\* Every step of the queue is one of the line, or none.
LEMMA TurnStep ==
  ASSUME Calm, IInv, IInv', Ordered, Ordered', AtTurn, [Next]_vars
  PROVE  [Turn!Next]_(Turn!turnVars)
<1>1. CASE Run = {}
  BY <1>1 DEF Next, Tick, vars, queueVars, Turn!turnVars, InLine, AheadInLine, Uploading
<1>2. ASSUME NEW r \in Run, ~Insert(r) /\ ~Sweep(r) /\ ~Acquire(r) /\ ~FinishRun(r) /\ ~CancelRun(r),
             \/ Tick \/ Start(r) \/ Proceed(r) \/ Beat(r) \/ Crash(r) \/ Pause(r) \/ Resume(r)
             \/ Interrupt(r) \/ UNCHANGED vars
      PROVE  Turn!Next \/ UNCHANGED Turn!turnVars
  BY <1>2, Stutters DEF Proceed, Turn!Next
<1>3. ASSUME NEW r \in Run, Insert(r) \/ Acquire(r) PROVE Turn!Next
  BY <1>3, Joins, Begins DEF Turn!Next
<1>4. ASSUME NEW r \in Run, FinishRun(r) \/ CancelRun(r)
      PROVE  Turn!Next \/ UNCHANGED Turn!turnVars
  BY <1>4, Quits DEF Turn!Next
<1>5. ASSUME NEW r \in Run, Sweep(r) PROVE Turn!Next \/ UNCHANGED Turn!turnVars
  BY <1>5, Removes DEF Turn!Next, Lapsed
<1> QED
  BY <1>1, <1>2, <1>3, <1>4, <1>5 DEF Next

\* Who is at its turn stays at the head: rows that come are behind it, and no
\* row that has ceased to be active is active again.
LEMMA AtTurnStep ==
  ASSUME Calm, IInv, Ordered, AtTurn, [Next]_vars
  PROVE  AtTurn'
<1> SUFFICES ASSUME NEW s \in Run, pc'[s] \in {"acquire", "uploading"} PROVE Ahead(s)' = {}
  BY DEF AtTurn
<1> USE DEF queueVars, beatVars, faultVars, histVars
<1> DEFINE NoneJoins == \A q \in Run : row'[q].status \in Active =>
                          row[q].status \in Active /\ row'[q].created = row[q].created
<1>1. ASSUME NEW r \in Run, Insert(r) PROVE Ahead(s)' = {}
  <2>1. /\ pc[s] \in {"acquire", "uploading"} /\ s # r /\ createdAt' = createdAt
        /\ row'[r].created = createdAt[r] /\ \A q \in Run : q # r => row'[q] = row[q]
    BY <1>1 DEF Insert, IInv, TypeOK
  <2>2. s \in InLine /\ Ahead(s) = {}
    BY <2>1 DEF Ordered, InLine, AtTurn
  <2>3. ~Before(createdAt[r], r, createdAt[s], s)
    <3>1. Before(row[s].created, s, createdAt[r], r) /\ row[s].created = createdAt[s]
      BY <1>1, <2>2 DEF Insert, Calm, ArrivesLast, InLine, Active, IInv, Placed
    <3>2. createdAt[s] \in Nat /\ createdAt[r] \in Nat /\ s \in Nat /\ r \in Nat
      BY RunAssumption DEF IInv, TypeOK
    <3> QED
      BY <3>1, <3>2 DEF Before
  <2> QED
    BY <2>1, <2>2, <2>3 DEF Ahead
<1>2. ASSUME NEW r \in Run, Count(r) PROVE Ahead(s)' = {}
  <2>1. Ahead(s)' = Ahead(s) /\ (s # r => pc'[s] = pc[s])
        /\ (pc'[r] = "acquire" => Ahead(r) = {}) /\ pc'[r] # "uploading"
    BY <1>2 DEF Count, Ahead, IInv, TypeOK
  <2> QED
    BY <2>1 DEF AtTurn
<1>3. CASE NoneJoins
  <2>1. CASE createdAt'[s] = createdAt[s] /\ pc[s] \in {"acquire", "uploading"}
    BY <1>3, <2>1 DEF Ahead, AtTurn
  <2>2. CASE \E r \in Run : Count(r) \/ Insert(r)
    BY <1>1, <1>2, <2>2
  <2> QED
    BY <2>1, <2>2, ZenonT(40) DEF Next, Proceed, Beat, Tick, Start, ReadClock, Sweep, Acquire,
         PollTimer, WaitFails, CancelRun, FinishRun, Exit, Heartbeat, HeartbeatFails, Crash, Pause, Resume,
         Interrupt, vars, IInv, TypeOK
<1>4. ASSUME NEW r \in Run, Sweep(r) \/ Acquire(r) \/ FinishRun(r) \/ CancelRun(r)
      PROVE  NoneJoins
  <2>1. CASE Sweep(r)
    BY <2>1, SweepRow DEF Sweep, Active, IInv
  <2>2. CASE Acquire(r)
    BY <2>2 DEF Acquire, Update, Ordered, IInv, TypeOK, Row
  <2>3. CASE FinishRun(r) \/ CancelRun(r)
    BY <2>3 DEF FinishRun, CancelRun, SetEnd, Update, Active, Ended, IInv, TypeOK
  <2> QED
    BY <1>4, <2>1, <2>2, <2>3
<1>5. ASSUME NEW r \in Run,
             \/ Tick \/ Start(r) \/ ReadClock(r) \/ PollTimer(r) \/ WaitFails(r)
             \/ Exit(r) \/ Beat(r) \/ Crash(r) \/ Pause(r) \/ Resume(r) \/ Interrupt(r)
             \/ UNCHANGED vars
      PROVE  NoneJoins
  <2>1. CASE row' = row
    BY <2>1
  <2>2. CASE Start(r)
    BY <2>2 DEF Start, NoRow, Active
  <2>3. CASE Heartbeat(r)
    BY <2>3 DEF Heartbeat, Update, IInv, TypeOK, Row
  <2> QED
    BY <1>5, <2>1, <2>2, <2>3 DEF Tick, ReadClock, PollTimer, WaitFails, Exit, Beat,
         HeartbeatFails, Crash, Pause, Resume, Interrupt, vars
<1> QED
  BY <1>1, <1>2, <1>3, <1>4, <1>5 DEF Next, Proceed

\* When INSERTs come in key order and no process is suspended or interrupted,
\* the queue, seen through the table, is a line: runs join it at its end, begin
\* at its head, and a dead run is passed over, whatever crashes and lost
\* updates happen.
THEOREM ServesTheLine == Calm => (Spec => ImplementsTurnLine)
<1> SUFFICES ASSUME Calm PROVE Spec => ImplementsTurnLine
  OBVIOUS
<1>1. Init => AtTurn /\ Turn!Init
  BY DEF Init, AtTurn, NoRow, Turn!Init, InLine, AheadInLine, Uploading, Active
<1>2. IInv /\ Ordered /\ AtTurn /\ [Next]_vars => AtTurn'
  BY AtTurnStep
<1>3. IInv /\ IInv' /\ Ordered /\ Ordered' /\ AtTurn /\ [Next]_vars
        => [Turn!Next]_(Turn!turnVars)
  BY TurnStep
<1> QED
  BY <1>1, <1>2, <1>3, OrderedInvariant, PTL DEF Spec, ImplementsTurnLine, Turn!Spec
=============================================================================
