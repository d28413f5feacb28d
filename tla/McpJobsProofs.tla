---------------------------- MODULE McpJobsProofs ----------------------------
(***************************************************************************)
(* Proofs about McpJobs, for any jobs, clients, limits and any number of   *)
(* ends of the server process: the semaphore, the length of the queue,     *)
(* what the events of a job say, and that the job service implements       *)
(* JobBoard when nobody cancels a job that is being submitted.             *)
(***************************************************************************)
EXTENDS McpJobsBoard, FiniteSetTheorems, TLAPS

-----------------------------------------------------------------------------
(* The inductive invariant.                                                *)

Alive(j) == worker[j] \notin {"none", "ended", "lost"}

\* No goroutine will write the row of the job any more.
Gone(j) == \/ worker[j] \in {"tell", "release", "wake", "ended", "lost"}
           \/ worker[j] = "none" /\ call[j] = "lost"

\* Who holds a slot of the semaphore.
Holds(j) ==
  /\ worker[j] \in {"mark", "announce", "runner", "release"} => j \in sem
  /\ j \in sem => worker[j] \in {"mark", "announce", "runner", "finish", "tell", "release"}

Slots == (\A j \in Job : Holds(j)) /\ Cardinality(sem) <= MaxConcurrent

\* Where the goroutine of a job is, and where its call, row and cancel function are.
Placed(j) ==
  /\ worker[j] # "none" => 
       call[j] \in {"launched", "registered", "blocked", "refused", "answered", "lost"}
  /\ Alive(j) => call[j] # "lost" /\ j \in cancels
  /\ call[j] \in {"idle", "admitted"} => status[j] = "none"
  /\ call[j] \in {"launched", "registered", "blocked", "answered"} => worker[j] # "none"
  /\ call[j] = "refused" /\ worker[j] = "none" => status[j] = "none"
  /\ worker[j] \in {"finish", "tell"} => outcome[j] \in Terminal
  /\ worker[j] \in {"none", "select", "mark"} => status[j] # "running"

\* Until a job ends its row says so, an early cancel apart.
Underway(j) ==
  /\ call[j] \in {"inserted", "announced"} => status[j] = "queued"
  /\ worker[j] \in {"select", "mark"} => status[j] = "queued"
  /\ worker[j] \in {"announce", "runner", "finish"} => status[j] \in NonTerminal
  /\ worker[j] = "finish" /\ j \notin sem => status[j] = "queued"

NoEnd(j) == \A i \in 1 .. Len(log[j]) : ~Ends(log[j][i])

Emits(c, j) == cancel[c].step = "emit" /\ cancel[c].job = j

\* Once it has ended they agree, a lost UPDATE apart, ...
Settled(j) ==
  /\ worker[j] = "tell" => status[j] = outcome[j]
  /\ worker[j] \in {"release", "wake", "ended"} => status[j] \in Terminal

\* ... at most one step of Cancel is left that tells so, ...
LastWord(j) ==
  /\ \A c \in Client : Emits(c, j) => status[j] = "cancelled" /\ NoEnd(j) /\ worker[j] # "tell"
  /\ \A c, d \in Client : Emits(c, j) /\ Emits(d, j) => c = d

\* ... and after the event that does there is none.
Told(j) ==
  \/ NoEnd(j)
  \/ /\ status[j] \in Terminal /\ worker[j] # "tell"
     /\ \A i \in 1 .. Len(log[j]) : Ends(log[j][i]) =>
          i = Len(log[j]) /\ log[j][i] = EventOf[status[j]]

Admitted == {j \in Job : call[j] = "admitted"}
Calling == {j \in Job : InCall(j)}

Waiting == (Unfinished \ early) \cup Admitted

\* The calls in flight are counted with the queue.
Depth == Cardinality(Calling) <= MaxCalls /\ Cardinality(Waiting) <= MaxQueue + MaxCalls - 1

\* A row whose last UPDATE failed is left unfinished, and may be cancelled later.
Torn(j) ==
  /\ worker[j] \in {"tell", "release", "wake", "ended", "lost"}
  /\ status[j] \in NonTerminal \cup {"cancelled"}

\* A goroutine that ends without a slot was cancelled before its start.
Unstarted(j) == worker[j] = "finish" /\ j \notin sem => outcome[j] = "cancelled"

\* Without early cancels, Cancel looks for a row only when its job is gone.
Late ==
  /\ \A c \in Client : cancel[c].step = "update" => Gone(cancel[c].job)
  /\ \A j \in early : status[j] = "cancelled" /\ Gone(j)

IInv ==
  /\ TypeOK /\ Slots /\ Depth
  /\ \A j \in Job : Placed(j) /\ Unstarted(j)
  /\ \A j \in Job \ early : Underway(j) /\ (j \in torn => Torn(j))
  /\ \A j \in Job \ (early \cup torn) : Settled(j) /\ LastWord(j) /\ Told(j)
  /\ ~EarlyCancel => Late

-----------------------------------------------------------------------------
(* Types.                                                                  *)

EventType == {"job.queued", "job.running", "job.done", "job.failed", "job.cancelled"}

\* What an event adds to the log of its job.
LEMMA Emitted ==
  ASSUME TypeOK, NEW j \in Job, NEW e \in EventType, NEW st, Emit(j, e, st)
  PROVE  /\ log' \in [Job -> Seq(EventType)]
         /\ log'[j] = Append(log[j], e) \/ UNCHANGED log
         /\ \A k \in Job : k # j => log'[k] = log[k]
<1>1. CASE Logged(j, e)
  BY <1>1 DEF TypeOK, Logged, EventType
<1>2. CASE UNCHANGED log
  BY <1>2 DEF TypeOK, EventType
<1> QED
  BY <1>1, <1>2 DEF Emit

\* A call of Cancel under way is one for a job.
LEMMA CancelTyped ==
  ASSUME TypeOK, NEW c \in Client, cancel[c].step # "idle"
  PROVE  /\ cancel[c].job \in Job /\ cancel[c].step \in {"signal", "update", "emit"}
         /\ cancel[c] \in [step : {"signal", "update", "emit"}, job : Job]
<1>1. cancel[c] \in CancelStep
  BY DEF TypeOK
<1>2. cancel[c] # NoCancel
  BY DEF NoCancel
<1> QED
  BY <1>1, <1>2 DEF CancelStep

\* The outcome of a job is told with an event of its own.
LEMMA EventTyped ==
  ASSUME NEW o \in Terminal
  PROVE  EventOf[o] \in EventType /\ Ends(EventOf[o])
BY DEF Terminal, EventOf, EventType, Ends

\* Each action keeps the types; EmitTerminal needs an outcome to tell.
LEMMA TypeStep ==
  ASSUME TypeOK, \A j \in Job : worker[j] = "tell" => outcome[j] \in Terminal, [Next]_vars
  PROVE  TypeOK'
<1> USE DEF callVars, ctxVars, waitVars, histVars
<1>1. ASSUME NEW j \in Job, CheckDepth(j) PROVE TypeOK'
  BY <1>1 DEF CheckDepth, TypeOK, CallStep, WorkerStep, Status, NonTerminal, Terminal, SetStatus
<1>2. ASSUME NEW j \in Job, InsertJob(j) PROVE TypeOK'
  BY <1>2 DEF InsertJob, TypeOK, CallStep, WorkerStep, Status, NonTerminal, Terminal, SetStatus
<1>3. ASSUME NEW j \in Job, EmitQueued(j) PROVE TypeOK'
  <2>1. UNCHANGED log \/ log' \in [Job -> Seq(EventType)]
    BY <1>3, Emitted DEF EmitQueued, EventType
  <2>2. log' \in [Job -> Seq(EventType)]
    BY <2>1 DEF TypeOK, EventType
  <2> QED
    BY <1>3, <2>2 DEF EmitQueued, EventType, TypeOK, CallStep, WorkerStep, CancelStep, NoCancel
<1>4. ASSUME NEW j \in Job, Launch(j) PROVE TypeOK'
  BY <1>4 DEF Launch, TypeOK, CallStep, WorkerStep, Status, NonTerminal, Terminal, SetStatus
<1>5. ASSUME NEW j \in Job, StartReturns(j) PROVE TypeOK'
  BY <1>5
     DEF StartReturns, TypeOK, CallStep, WorkerStep, Status, NonTerminal, Terminal, SetStatus
<1>6. ASSUME NEW j \in Job, RegisterWaiter(j) PROVE TypeOK'
  BY <1>6
     DEF RegisterWaiter, TypeOK, CallStep, WorkerStep, Status, NonTerminal, Terminal, SetStatus
<1>7. ASSUME NEW j \in Job, CheckTerminal(j) PROVE TypeOK'
  BY <1>7
     DEF CheckTerminal, TypeOK, CallStep, WorkerStep, Status, NonTerminal, Terminal, SetStatus
<1>8. ASSUME NEW j \in Job, WokenUp(j) PROVE TypeOK'
  BY <1>8 DEF WokenUp, TypeOK, CallStep, WorkerStep, Status, NonTerminal, Terminal, SetStatus
<1>9. ASSUME NEW j \in Job, WaitFails(j) PROVE TypeOK'
  BY <1>9 DEF WaitFails, TypeOK, CallStep, WorkerStep, Status, NonTerminal, Terminal, SetStatus
<1>10. ASSUME NEW j \in Job, AcquireSlot(j) PROVE TypeOK'
  BY <1>10
     DEF AcquireSlot, TypeOK, CallStep, WorkerStep, Status, NonTerminal, Terminal, SetStatus
<1>11. ASSUME NEW j \in Job, CancelledBeforeStart(j) PROVE TypeOK'
  BY <1>11
     DEF CancelledBeforeStart, TypeOK, CallStep, WorkerStep, Status, NonTerminal, Terminal,
       SetStatus
<1>12. ASSUME NEW j \in Job, MarkRunning(j) PROVE TypeOK'
  BY <1>12
     DEF MarkRunning, TypeOK, CallStep, WorkerStep, Status, NonTerminal, Terminal, SetStatus
<1>13. ASSUME NEW j \in Job, EmitRunning(j) PROVE TypeOK'
  <2>1. UNCHANGED log \/ log' \in [Job -> Seq(EventType)]
    BY <1>13, Emitted DEF EmitRunning, EventType
  <2>2. log' \in [Job -> Seq(EventType)]
    BY <2>1 DEF TypeOK, EventType
  <2> QED
    BY <1>13, <2>2
       DEF EmitRunning, EventType, TypeOK, CallStep, WorkerStep, CancelStep, NoCancel
<1>14. ASSUME NEW j \in Job, RunnerReturns(j) PROVE TypeOK'
  BY <1>14
     DEF RunnerReturns, TypeOK, CallStep, WorkerStep, Status, NonTerminal, Terminal, SetStatus
<1>15. ASSUME NEW j \in Job, FinishJob(j) PROVE TypeOK'
  BY <1>15 DEF FinishJob, TypeOK, CallStep, WorkerStep, Status, NonTerminal, Terminal, SetStatus
<1>16. ASSUME NEW j \in Job, EmitTerminal(j) PROVE TypeOK'
  <2>1. UNCHANGED log \/ log' \in [Job -> Seq(EventType)]
    BY <1>16, Emitted, EventTyped DEF EmitTerminal
  <2>2. log' \in [Job -> Seq(EventType)]
    BY <2>1 DEF TypeOK, EventType
  <2> QED
    BY <1>16, <2>2
       DEF EmitTerminal, EventType, TypeOK, CallStep, WorkerStep, CancelStep, NoCancel
<1>17. ASSUME NEW j \in Job, ReleaseSlot(j) PROVE TypeOK'
  BY <1>17
     DEF ReleaseSlot, TypeOK, CallStep, WorkerStep, Status, NonTerminal, Terminal, SetStatus
<1>18. ASSUME NEW j \in Job, Cleanup(j) PROVE TypeOK'
  BY <1>18 DEF Cleanup, TypeOK, CallStep, WorkerStep, Status, NonTerminal, Terminal, SetStatus
<1>19. ASSUME NEW c \in Client, NEW j \in Job, CancelLookup(c, j) PROVE TypeOK'
  BY <1>19 DEF CancelLookup, TypeOK, CancelStep, NoCancel, Status, NonTerminal, Terminal
<1>20. ASSUME NEW c \in Client, CancelSignal(c) PROVE TypeOK'
  BY <1>20 DEF CancelSignal, TypeOK, CancelStep, NoCancel, Status, NonTerminal, Terminal
<1>21. ASSUME NEW c \in Client, CancelUpdate(c) PROVE TypeOK'
  <2>1. cancel[c].job \in Job
    BY <1>21, CancelTyped DEF CancelUpdate
  <2>2. [cancel[c] EXCEPT !.step = "emit"] \in CancelStep
    BY <1>21, CancelTyped DEF CancelUpdate, CancelStep
  <2>3. NoCancel \in CancelStep
    BY DEF CancelStep
  <2>4. \E k \in CancelStep : cancel' = [cancel EXCEPT ![c] = k]
    BY <1>21, <2>2, <2>3 DEF CancelUpdate
  <2>5. cancel' \in [Client -> CancelStep]
    BY <2>4 DEF TypeOK
  <2> QED
    BY <1>21, <2>1, <2>5 DEF CancelUpdate, TypeOK, Status, NonTerminal, Terminal
<1>22. ASSUME NEW c \in Client, CancelEmit(c) PROVE TypeOK'
  <2>1. UNCHANGED log \/ log' \in [Job -> Seq(EventType)]
    BY <1>22, Emitted, CancelTyped DEF CancelEmit, EventType
  <2>2. log' \in [Job -> Seq(EventType)]
    BY <2>1 DEF TypeOK, EventType
  <2> QED
    BY <1>22, <2>2 DEF CancelEmit, EventType, TypeOK, CallStep, WorkerStep, CancelStep, NoCancel
<1>23. CASE CloseJobs
  BY <1>23 DEF CloseJobs, TypeOK, CallStep, WorkerStep, CancelStep
<1>24. CASE Kill
  BY <1>24 DEF Kill, TypeOK, CallStep, WorkerStep, CancelStep
<1>25. CASE UNCHANGED vars
  BY <1>25 DEF vars, TypeOK
<1> QED
  BY <1>1, <1>2, <1>3, <1>4, <1>5, <1>6, <1>7, <1>8, <1>9, <1>10, <1>11, <1>12, <1>13, <1>14,
     <1>15, <1>16, <1>17, <1>18, <1>19, <1>20, <1>21, <1>22, <1>23, <1>24, <1>25
     DEF Next, StartStep, WaitStep, WorkerMoves, CancelMoves

-----------------------------------------------------------------------------
(* The parts of the invariant, step by step.                               *)

\* Each action keeps a goroutine, its call, its row and its cancel function together.
LEMMA PlacedStep ==
  ASSUME TypeOK, NEW k \in Job, Placed(k), [Next]_vars
  PROVE  Placed(k)'
<1> USE DEF callVars, ctxVars, waitVars, histVars, Placed, Alive, TypeOK
<1>1. ASSUME NEW j \in Job, CheckDepth(j) PROVE Placed(k)'
  BY <1>1 DEF CheckDepth
<1>2. ASSUME NEW j \in Job, InsertJob(j) PROVE Placed(k)'
  BY <1>2 DEF InsertJob
<1>3. ASSUME NEW j \in Job, EmitQueued(j) PROVE Placed(k)'
  BY <1>3 DEF EmitQueued
<1>4. ASSUME NEW j \in Job, Launch(j) PROVE Placed(k)'
  BY <1>4 DEF Launch
<1>5. ASSUME NEW j \in Job, StartReturns(j) PROVE Placed(k)'
  BY <1>5 DEF StartReturns
<1>6. ASSUME NEW j \in Job, RegisterWaiter(j) PROVE Placed(k)'
  BY <1>6 DEF RegisterWaiter
<1>7. ASSUME NEW j \in Job, CheckTerminal(j) PROVE Placed(k)'
  BY <1>7 DEF CheckTerminal
<1>8. ASSUME NEW j \in Job, WokenUp(j) PROVE Placed(k)'
  BY <1>8 DEF WokenUp
<1>9. ASSUME NEW j \in Job, WaitFails(j) PROVE Placed(k)'
  BY <1>9 DEF WaitFails
<1>10. ASSUME NEW j \in Job, AcquireSlot(j) PROVE Placed(k)'
  BY <1>10 DEF AcquireSlot
<1>11. ASSUME NEW j \in Job, CancelledBeforeStart(j) PROVE Placed(k)'
  BY <1>11 DEF CancelledBeforeStart, SetStatus, Terminal
<1>12. ASSUME NEW j \in Job, MarkRunning(j) PROVE Placed(k)'
  BY <1>12 DEF MarkRunning, SetStatus, Terminal
<1>13. ASSUME NEW j \in Job, EmitRunning(j) PROVE Placed(k)'
  BY <1>13 DEF EmitRunning
<1>14. ASSUME NEW j \in Job, RunnerReturns(j) PROVE Placed(k)'
  BY <1>14 DEF RunnerReturns, SetStatus, Terminal
<1>15. ASSUME NEW j \in Job, FinishJob(j) PROVE Placed(k)'
  BY <1>15 DEF FinishJob, SetStatus, Terminal
<1>16. ASSUME NEW j \in Job, EmitTerminal(j) PROVE Placed(k)'
  BY <1>16 DEF EmitTerminal
<1>17. ASSUME NEW j \in Job, ReleaseSlot(j) PROVE Placed(k)'
  BY <1>17 DEF ReleaseSlot
<1>18. ASSUME NEW j \in Job, Cleanup(j) PROVE Placed(k)'
  BY <1>18 DEF Cleanup
<1>19. ASSUME NEW c \in Client, NEW j \in Job, CancelLookup(c, j) PROVE Placed(k)'
  BY <1>19 DEF CancelLookup
<1>20. ASSUME NEW c \in Client, CancelSignal(c) PROVE Placed(k)'
  BY <1>20 DEF CancelSignal
<1>21. ASSUME NEW c \in Client, CancelUpdate(c) PROVE Placed(k)'
  BY <1>21 DEF CancelUpdate
<1>22. ASSUME NEW c \in Client, CancelEmit(c) PROVE Placed(k)'
  BY <1>22 DEF CancelEmit
<1>23. CASE CloseJobs
  BY <1>23 DEF CloseJobs
<1>24. CASE Kill
  BY <1>24 DEF Kill
<1>25. CASE UNCHANGED vars
  BY <1>25 DEF vars
<1> QED
  BY <1>1, <1>2, <1>3, <1>4, <1>5, <1>6, <1>7, <1>8, <1>9, <1>10, <1>11, <1>12, <1>13, <1>14,
     <1>15, <1>16, <1>17, <1>18, <1>19, <1>20, <1>21, <1>22, <1>23, <1>24, <1>25
     DEF Next, StartStep, WaitStep, WorkerMoves, CancelMoves

\* Each action keeps the row of a job that has not ended unfinished, unless the job
\* is cancelled early by this step.
LEMMA UnderwayStep ==
  ASSUME TypeOK, NEW k \in Job \ early', k \notin early => Underway(k), Placed(k), Holds(k),
         [Next]_vars
  PROVE  Underway(k)'
<1> USE DEF callVars, ctxVars, waitVars, histVars, Underway, Placed, Alive, Holds, TypeOK,
            NonTerminal
<1>1. ASSUME NEW j \in Job, CheckDepth(j) PROVE Underway(k)'
  BY <1>1 DEF CheckDepth
<1>2. ASSUME NEW j \in Job, InsertJob(j) PROVE Underway(k)'
  BY <1>2 DEF InsertJob
<1>3. ASSUME NEW j \in Job, EmitQueued(j) PROVE Underway(k)'
  BY <1>3 DEF EmitQueued
<1>4. ASSUME NEW j \in Job, Launch(j) PROVE Underway(k)'
  BY <1>4 DEF Launch
<1>5. ASSUME NEW j \in Job, StartReturns(j) PROVE Underway(k)'
  BY <1>5 DEF StartReturns
<1>6. ASSUME NEW j \in Job, RegisterWaiter(j) PROVE Underway(k)'
  BY <1>6 DEF RegisterWaiter
<1>7. ASSUME NEW j \in Job, CheckTerminal(j) PROVE Underway(k)'
  BY <1>7 DEF CheckTerminal
<1>8. ASSUME NEW j \in Job, WokenUp(j) PROVE Underway(k)'
  BY <1>8 DEF WokenUp
<1>9. ASSUME NEW j \in Job, WaitFails(j) PROVE Underway(k)'
  BY <1>9 DEF WaitFails
<1>10. ASSUME NEW j \in Job, AcquireSlot(j) PROVE Underway(k)'
  BY <1>10 DEF AcquireSlot
<1>11. ASSUME NEW j \in Job, CancelledBeforeStart(j) PROVE Underway(k)'
  BY <1>11 DEF CancelledBeforeStart
<1>12. ASSUME NEW j \in Job, MarkRunning(j) PROVE Underway(k)'
  BY <1>12 DEF MarkRunning, SetStatus
<1>13. ASSUME NEW j \in Job, EmitRunning(j) PROVE Underway(k)'
  BY <1>13 DEF EmitRunning
<1>14. ASSUME NEW j \in Job, RunnerReturns(j) PROVE Underway(k)'
  BY <1>14 DEF RunnerReturns
<1>15. ASSUME NEW j \in Job, FinishJob(j) PROVE Underway(k)'
  BY <1>15 DEF FinishJob, SetStatus
<1>16. ASSUME NEW j \in Job, EmitTerminal(j) PROVE Underway(k)'
  BY <1>16 DEF EmitTerminal
<1>17. ASSUME NEW j \in Job, ReleaseSlot(j) PROVE Underway(k)'
  BY <1>17 DEF ReleaseSlot
<1>18. ASSUME NEW j \in Job, Cleanup(j) PROVE Underway(k)'
  BY <1>18 DEF Cleanup
<1>19. ASSUME NEW c \in Client, NEW j \in Job, CancelLookup(c, j) PROVE Underway(k)'
  BY <1>19 DEF CancelLookup
<1>20. ASSUME NEW c \in Client, CancelSignal(c) PROVE Underway(k)'
  BY <1>20 DEF CancelSignal
<1>21. ASSUME NEW c \in Client, CancelUpdate(c) PROVE Underway(k)'
  BY <1>21, CancelTyped DEF CancelUpdate, Over
<1>22. ASSUME NEW c \in Client, CancelEmit(c) PROVE Underway(k)'
  BY <1>22 DEF CancelEmit
<1>23. CASE CloseJobs
  BY <1>23 DEF CloseJobs
<1>24. CASE Kill
  BY <1>24 DEF Kill
<1>25. CASE UNCHANGED vars
  BY <1>25 DEF vars
<1> QED
  BY <1>1, <1>2, <1>3, <1>4, <1>5, <1>6, <1>7, <1>8, <1>9, <1>10, <1>11, <1>12, <1>13, <1>14,
     <1>15, <1>16, <1>17, <1>18, <1>19, <1>20, <1>21, <1>22, <1>23, <1>24, <1>25
     DEF Next, StartStep, WaitStep, WorkerMoves, CancelMoves

\* A row whose last UPDATE fails was unfinished, and afterwards only Cancel writes it.
LEMMA TornStep ==
  ASSUME TypeOK, NEW k \in Job \ early', k \in torn', k \in torn => Torn(k),
         k \notin early => Underway(k), Placed(k), [Next]_vars
  PROVE  Torn(k)'
<1> USE DEF callVars, ctxVars, waitVars, histVars, Torn, Underway, Placed, TypeOK, NonTerminal,
            Terminal
<1>1. ASSUME NEW j \in Job, CheckDepth(j) PROVE Torn(k)'
  BY <1>1 DEF CheckDepth
<1>2. ASSUME NEW j \in Job, InsertJob(j) PROVE Torn(k)'
  BY <1>2 DEF InsertJob
<1>3. ASSUME NEW j \in Job, EmitQueued(j) PROVE Torn(k)'
  BY <1>3 DEF EmitQueued
<1>4. ASSUME NEW j \in Job, Launch(j) PROVE Torn(k)'
  BY <1>4 DEF Launch
<1>5. ASSUME NEW j \in Job, StartReturns(j) PROVE Torn(k)'
  BY <1>5 DEF StartReturns
<1>6. ASSUME NEW j \in Job, RegisterWaiter(j) PROVE Torn(k)'
  BY <1>6 DEF RegisterWaiter
<1>7. ASSUME NEW j \in Job, CheckTerminal(j) PROVE Torn(k)'
  BY <1>7 DEF CheckTerminal
<1>8. ASSUME NEW j \in Job, WokenUp(j) PROVE Torn(k)'
  BY <1>8 DEF WokenUp
<1>9. ASSUME NEW j \in Job, WaitFails(j) PROVE Torn(k)'
  BY <1>9 DEF WaitFails
<1>10. ASSUME NEW j \in Job, AcquireSlot(j) PROVE Torn(k)'
  BY <1>10 DEF AcquireSlot
<1>11. ASSUME NEW j \in Job, CancelledBeforeStart(j) PROVE Torn(k)'
  BY <1>11 DEF CancelledBeforeStart
<1>12. ASSUME NEW j \in Job, MarkRunning(j) PROVE Torn(k)'
  BY <1>12 DEF MarkRunning, SetStatus
<1>13. ASSUME NEW j \in Job, EmitRunning(j) PROVE Torn(k)'
  BY <1>13 DEF EmitRunning
<1>14. ASSUME NEW j \in Job, RunnerReturns(j) PROVE Torn(k)'
  BY <1>14 DEF RunnerReturns
<1>15. ASSUME NEW j \in Job, FinishJob(j) PROVE Torn(k)'
  <2>1. k \notin early
    BY <1>15 DEF FinishJob
  <2> QED
    BY <1>15, <2>1 DEF FinishJob, SetStatus
<1>16. ASSUME NEW j \in Job, EmitTerminal(j) PROVE Torn(k)'
  BY <1>16 DEF EmitTerminal
<1>17. ASSUME NEW j \in Job, ReleaseSlot(j) PROVE Torn(k)'
  BY <1>17 DEF ReleaseSlot
<1>18. ASSUME NEW j \in Job, Cleanup(j) PROVE Torn(k)'
  BY <1>18 DEF Cleanup
<1>19. ASSUME NEW c \in Client, NEW j \in Job, CancelLookup(c, j) PROVE Torn(k)'
  BY <1>19 DEF CancelLookup
<1>20. ASSUME NEW c \in Client, CancelSignal(c) PROVE Torn(k)'
  BY <1>20 DEF CancelSignal
<1>21. ASSUME NEW c \in Client, CancelUpdate(c) PROVE Torn(k)'
  BY <1>21, CancelTyped DEF CancelUpdate
<1>22. ASSUME NEW c \in Client, CancelEmit(c) PROVE Torn(k)'
  BY <1>22 DEF CancelEmit
<1>23. CASE CloseJobs
  BY <1>23 DEF CloseJobs
<1>24. CASE Kill
  BY <1>24 DEF Kill
<1>25. CASE UNCHANGED vars
  BY <1>25 DEF vars
<1> QED
  BY <1>1, <1>2, <1>3, <1>4, <1>5, <1>6, <1>7, <1>8, <1>9, <1>10, <1>11, <1>12, <1>13, <1>14,
     <1>15, <1>16, <1>17, <1>18, <1>19, <1>20, <1>21, <1>22, <1>23, <1>24, <1>25
     DEF Next, StartStep, WaitStep, WorkerMoves, CancelMoves

\* A goroutine comes to its end with a slot, or cancelled.
LEMMA UnstartedStep ==
  ASSUME TypeOK, NEW k \in Job, Unstarted(k), Placed(k), Slots, [Next]_vars
  PROVE  Unstarted(k)'
<1> USE DEF callVars, ctxVars, waitVars, histVars, Unstarted, Placed, Slots, Holds, TypeOK
<1>1. ASSUME NEW j \in Job, CheckDepth(j) PROVE Unstarted(k)'
  BY <1>1 DEF CheckDepth
<1>2. ASSUME NEW j \in Job, InsertJob(j) PROVE Unstarted(k)'
  BY <1>2 DEF InsertJob
<1>3. ASSUME NEW j \in Job, EmitQueued(j) PROVE Unstarted(k)'
  BY <1>3 DEF EmitQueued
<1>4. ASSUME NEW j \in Job, Launch(j) PROVE Unstarted(k)'
  BY <1>4 DEF Launch
<1>5. ASSUME NEW j \in Job, StartReturns(j) PROVE Unstarted(k)'
  BY <1>5 DEF StartReturns
<1>6. ASSUME NEW j \in Job, RegisterWaiter(j) PROVE Unstarted(k)'
  BY <1>6 DEF RegisterWaiter
<1>7. ASSUME NEW j \in Job, CheckTerminal(j) PROVE Unstarted(k)'
  BY <1>7 DEF CheckTerminal
<1>8. ASSUME NEW j \in Job, WokenUp(j) PROVE Unstarted(k)'
  BY <1>8 DEF WokenUp
<1>9. ASSUME NEW j \in Job, WaitFails(j) PROVE Unstarted(k)'
  BY <1>9 DEF WaitFails
<1>10. ASSUME NEW j \in Job, AcquireSlot(j) PROVE Unstarted(k)'
  BY <1>10 DEF AcquireSlot
<1>11. ASSUME NEW j \in Job, CancelledBeforeStart(j) PROVE Unstarted(k)'
  BY <1>11 DEF CancelledBeforeStart
<1>12. ASSUME NEW j \in Job, MarkRunning(j) PROVE Unstarted(k)'
  BY <1>12 DEF MarkRunning, SetStatus
<1>13. ASSUME NEW j \in Job, EmitRunning(j) PROVE Unstarted(k)'
  BY <1>13 DEF EmitRunning
<1>14. ASSUME NEW j \in Job, RunnerReturns(j) PROVE Unstarted(k)'
  BY <1>14 DEF RunnerReturns
<1>15. ASSUME NEW j \in Job, FinishJob(j) PROVE Unstarted(k)'
  BY <1>15 DEF FinishJob, SetStatus
<1>16. ASSUME NEW j \in Job, EmitTerminal(j) PROVE Unstarted(k)'
  BY <1>16 DEF EmitTerminal
<1>17. ASSUME NEW j \in Job, ReleaseSlot(j) PROVE Unstarted(k)'
  BY <1>17 DEF ReleaseSlot
<1>18. ASSUME NEW j \in Job, Cleanup(j) PROVE Unstarted(k)'
  BY <1>18 DEF Cleanup
<1>19. ASSUME NEW c \in Client, NEW j \in Job, CancelLookup(c, j) PROVE Unstarted(k)'
  BY <1>19 DEF CancelLookup
<1>20. ASSUME NEW c \in Client, CancelSignal(c) PROVE Unstarted(k)'
  BY <1>20 DEF CancelSignal
<1>21. ASSUME NEW c \in Client, CancelUpdate(c) PROVE Unstarted(k)'
  BY <1>21, CancelTyped DEF CancelUpdate
<1>22. ASSUME NEW c \in Client, CancelEmit(c) PROVE Unstarted(k)'
  BY <1>22 DEF CancelEmit
<1>23. CASE CloseJobs
  BY <1>23 DEF CloseJobs
<1>24. CASE Kill
  BY <1>24 DEF Kill
<1>25. CASE UNCHANGED vars
  BY <1>25 DEF vars
<1> QED
  BY <1>1, <1>2, <1>3, <1>4, <1>5, <1>6, <1>7, <1>8, <1>9, <1>10, <1>11, <1>12, <1>13, <1>14,
     <1>15, <1>16, <1>17, <1>18, <1>19, <1>20, <1>21, <1>22, <1>23, <1>24, <1>25
     DEF Next, StartStep, WaitStep, WorkerMoves, CancelMoves

\* Each action keeps the slots with the goroutines between Acquire and Release.
LEMMA HoldsStep ==
  ASSUME TypeOK, NEW k \in Job, Holds(k), Placed(k), [Next]_vars
  PROVE  Holds(k)'
<1> USE DEF callVars, ctxVars, waitVars, histVars, Holds, Placed, TypeOK
<1>1. ASSUME NEW j \in Job, CheckDepth(j) PROVE Holds(k)'
  BY <1>1 DEF CheckDepth
<1>2. ASSUME NEW j \in Job, InsertJob(j) PROVE Holds(k)'
  BY <1>2 DEF InsertJob
<1>3. ASSUME NEW j \in Job, EmitQueued(j) PROVE Holds(k)'
  BY <1>3 DEF EmitQueued
<1>4. ASSUME NEW j \in Job, Launch(j) PROVE Holds(k)'
  BY <1>4 DEF Launch
<1>5. ASSUME NEW j \in Job, StartReturns(j) PROVE Holds(k)'
  BY <1>5 DEF StartReturns
<1>6. ASSUME NEW j \in Job, RegisterWaiter(j) PROVE Holds(k)'
  BY <1>6 DEF RegisterWaiter
<1>7. ASSUME NEW j \in Job, CheckTerminal(j) PROVE Holds(k)'
  BY <1>7 DEF CheckTerminal
<1>8. ASSUME NEW j \in Job, WokenUp(j) PROVE Holds(k)'
  BY <1>8 DEF WokenUp
<1>9. ASSUME NEW j \in Job, WaitFails(j) PROVE Holds(k)'
  BY <1>9 DEF WaitFails
<1>10. ASSUME NEW j \in Job, AcquireSlot(j) PROVE Holds(k)'
  BY <1>10 DEF AcquireSlot
<1>11. ASSUME NEW j \in Job, CancelledBeforeStart(j) PROVE Holds(k)'
  BY <1>11 DEF CancelledBeforeStart
<1>12. ASSUME NEW j \in Job, MarkRunning(j) PROVE Holds(k)'
  BY <1>12 DEF MarkRunning
<1>13. ASSUME NEW j \in Job, EmitRunning(j) PROVE Holds(k)'
  BY <1>13 DEF EmitRunning
<1>14. ASSUME NEW j \in Job, RunnerReturns(j) PROVE Holds(k)'
  BY <1>14 DEF RunnerReturns
<1>15. ASSUME NEW j \in Job, FinishJob(j) PROVE Holds(k)'
  BY <1>15 DEF FinishJob
<1>16. ASSUME NEW j \in Job, EmitTerminal(j) PROVE Holds(k)'
  BY <1>16 DEF EmitTerminal
<1>17. ASSUME NEW j \in Job, ReleaseSlot(j) PROVE Holds(k)'
  BY <1>17 DEF ReleaseSlot
<1>18. ASSUME NEW j \in Job, Cleanup(j) PROVE Holds(k)'
  BY <1>18 DEF Cleanup
<1>19. ASSUME NEW c \in Client, NEW j \in Job, CancelLookup(c, j) PROVE Holds(k)'
  BY <1>19 DEF CancelLookup
<1>20. ASSUME NEW c \in Client, CancelSignal(c) PROVE Holds(k)'
  BY <1>20 DEF CancelSignal
<1>21. ASSUME NEW c \in Client, CancelUpdate(c) PROVE Holds(k)'
  BY <1>21 DEF CancelUpdate
<1>22. ASSUME NEW c \in Client, CancelEmit(c) PROVE Holds(k)'
  BY <1>22 DEF CancelEmit
<1>23. CASE CloseJobs
  BY <1>23 DEF CloseJobs
<1>24. CASE Kill
  BY <1>24 DEF Kill
<1>25. CASE UNCHANGED vars
  BY <1>25 DEF vars
<1> QED
  BY <1>1, <1>2, <1>3, <1>4, <1>5, <1>6, <1>7, <1>8, <1>9, <1>10, <1>11, <1>12, <1>13, <1>14,
     <1>15, <1>16, <1>17, <1>18, <1>19, <1>20, <1>21, <1>22, <1>23, <1>24, <1>25
     DEF Next, StartStep, WaitStep, WorkerMoves, CancelMoves

\* Acquire finds a free slot, and nobody else takes one.
LEMMA SlotsStep ==
  ASSUME TypeOK, Slots, \A j \in Job : Placed(j), [Next]_vars
  PROVE  Slots'
<1> USE DEF callVars, ctxVars, waitVars, histVars
<1>1. /\ IsFiniteSet(sem) /\ Cardinality(sem) \in Nat /\ MaxConcurrent \in Nat
      /\ Cardinality(sem) <= MaxConcurrent
  BY FS_Subset, FS_CardinalityType, JobsAssumption DEF TypeOK, Slots
<1>2. \A j \in Job : Holds(j)'
  BY HoldsStep DEF Slots
<1>3. Cardinality(sem') <= MaxConcurrent
  <2>1. ASSUME NEW j \in Job, AcquireSlot(j) PROVE Cardinality(sem') <= MaxConcurrent
    <3>1. sem' = sem \cup {j} /\ Cardinality(sem) < MaxConcurrent
      BY <2>1 DEF AcquireSlot
    <3>2. Cardinality(sem') \in {Cardinality(sem), Cardinality(sem) + 1}
      BY <1>1, <3>1, FS_AddElement
    <3> QED
      BY <1>1, <3>1, <3>2
  <2>2. ASSUME NEW j \in Job, ReleaseSlot(j) PROVE Cardinality(sem') <= MaxConcurrent
    <3>1. sem' \subseteq sem
      BY <2>2 DEF ReleaseSlot
    <3>2. Cardinality(sem') \in Nat /\ Cardinality(sem') <= Cardinality(sem)
      BY <1>1, <3>1, FS_Subset, FS_CardinalityType
    <3> QED
      BY <1>1, <3>2
  <2>3. CASE Kill
    BY <1>1, <2>3, FS_EmptySet DEF Kill
  <2>4. CASE UNCHANGED sem
    BY <2>4 DEF Slots
  <2>5. \/ \E j \in Job : AcquireSlot(j) \/ ReleaseSlot(j)
        \/ Kill \/ UNCHANGED sem
    BY DEF Next, StartStep, WaitStep, WorkerMoves, CancelMoves, vars, CheckDepth, InsertJob,
           EmitQueued, Launch, StartReturns, RegisterWaiter, CheckTerminal, WokenUp, WaitFails,
           CancelledBeforeStart, MarkRunning, EmitRunning, RunnerReturns, FinishJob,
           EmitTerminal, Cleanup, CancelLookup, CancelSignal, CancelUpdate, CancelEmit, CloseJobs
  <2> QED
    BY <2>1, <2>2, <2>3, <2>4, <2>5
<1> QED
  BY <1>2, <1>3 DEF Slots

\* A job that is gone stays so, and its row is left alone but by Cancel.
LEMMA GoneStays ==
  ASSUME TypeOK, NEW k \in Job, Gone(k), Placed(k), [Next]_vars
  PROVE  Gone(k)' /\ (status[k] = "cancelled" => status'[k] = "cancelled")
<1> USE DEF callVars, ctxVars, waitVars, histVars, Gone, TypeOK, Placed, Alive
<1>1. ASSUME NEW j \in Job, CheckDepth(j)
    PROVE Gone(k)' /\ (status[k] = "cancelled" => status'[k] = "cancelled")
  BY <1>1 DEF CheckDepth
<1>2. ASSUME NEW j \in Job, InsertJob(j)
    PROVE Gone(k)' /\ (status[k] = "cancelled" => status'[k] = "cancelled")
  BY <1>2 DEF InsertJob
<1>3. ASSUME NEW j \in Job, EmitQueued(j)
    PROVE Gone(k)' /\ (status[k] = "cancelled" => status'[k] = "cancelled")
  BY <1>3 DEF EmitQueued
<1>4. ASSUME NEW j \in Job, Launch(j)
    PROVE Gone(k)' /\ (status[k] = "cancelled" => status'[k] = "cancelled")
  BY <1>4 DEF Launch
<1>5. ASSUME NEW j \in Job, StartReturns(j)
    PROVE Gone(k)' /\ (status[k] = "cancelled" => status'[k] = "cancelled")
  BY <1>5 DEF StartReturns
<1>6. ASSUME NEW j \in Job, RegisterWaiter(j)
    PROVE Gone(k)' /\ (status[k] = "cancelled" => status'[k] = "cancelled")
  BY <1>6 DEF RegisterWaiter
<1>7. ASSUME NEW j \in Job, CheckTerminal(j)
    PROVE Gone(k)' /\ (status[k] = "cancelled" => status'[k] = "cancelled")
  BY <1>7 DEF CheckTerminal
<1>8. ASSUME NEW j \in Job, WokenUp(j)
    PROVE Gone(k)' /\ (status[k] = "cancelled" => status'[k] = "cancelled")
  BY <1>8 DEF WokenUp
<1>9. ASSUME NEW j \in Job, WaitFails(j)
    PROVE Gone(k)' /\ (status[k] = "cancelled" => status'[k] = "cancelled")
  BY <1>9 DEF WaitFails
<1>10. ASSUME NEW j \in Job, AcquireSlot(j)
    PROVE Gone(k)' /\ (status[k] = "cancelled" => status'[k] = "cancelled")
  BY <1>10 DEF AcquireSlot
<1>11. ASSUME NEW j \in Job, CancelledBeforeStart(j)
    PROVE Gone(k)' /\ (status[k] = "cancelled" => status'[k] = "cancelled")
  BY <1>11 DEF CancelledBeforeStart
<1>12. ASSUME NEW j \in Job, MarkRunning(j)
    PROVE Gone(k)' /\ (status[k] = "cancelled" => status'[k] = "cancelled")
  BY <1>12 DEF MarkRunning, SetStatus
<1>13. ASSUME NEW j \in Job, EmitRunning(j)
    PROVE Gone(k)' /\ (status[k] = "cancelled" => status'[k] = "cancelled")
  BY <1>13 DEF EmitRunning
<1>14. ASSUME NEW j \in Job, RunnerReturns(j)
    PROVE Gone(k)' /\ (status[k] = "cancelled" => status'[k] = "cancelled")
  BY <1>14 DEF RunnerReturns
<1>15. ASSUME NEW j \in Job, FinishJob(j)
    PROVE Gone(k)' /\ (status[k] = "cancelled" => status'[k] = "cancelled")
  BY <1>15 DEF FinishJob, SetStatus
<1>16. ASSUME NEW j \in Job, EmitTerminal(j)
    PROVE Gone(k)' /\ (status[k] = "cancelled" => status'[k] = "cancelled")
  BY <1>16 DEF EmitTerminal
<1>17. ASSUME NEW j \in Job, ReleaseSlot(j)
    PROVE Gone(k)' /\ (status[k] = "cancelled" => status'[k] = "cancelled")
  BY <1>17 DEF ReleaseSlot
<1>18. ASSUME NEW j \in Job, Cleanup(j)
    PROVE Gone(k)' /\ (status[k] = "cancelled" => status'[k] = "cancelled")
  BY <1>18 DEF Cleanup
<1>19. ASSUME NEW c \in Client, NEW j \in Job, CancelLookup(c, j)
    PROVE Gone(k)' /\ (status[k] = "cancelled" => status'[k] = "cancelled")
  BY <1>19 DEF CancelLookup
<1>20. ASSUME NEW c \in Client, CancelSignal(c)
    PROVE Gone(k)' /\ (status[k] = "cancelled" => status'[k] = "cancelled")
  BY <1>20 DEF CancelSignal
<1>21. ASSUME NEW c \in Client, CancelUpdate(c)
    PROVE Gone(k)' /\ (status[k] = "cancelled" => status'[k] = "cancelled")
  BY <1>21, CancelTyped DEF CancelUpdate
<1>22. ASSUME NEW c \in Client, CancelEmit(c)
    PROVE Gone(k)' /\ (status[k] = "cancelled" => status'[k] = "cancelled")
  BY <1>22 DEF CancelEmit
<1>23. CASE CloseJobs
  BY <1>23 DEF CloseJobs
<1>24. CASE Kill
  BY <1>24 DEF Kill
<1>25. CASE UNCHANGED vars
  BY <1>25 DEF vars
<1> QED
  BY <1>1, <1>2, <1>3, <1>4, <1>5, <1>6, <1>7, <1>8, <1>9, <1>10, <1>11, <1>12, <1>13, <1>14,
     <1>15, <1>16, <1>17, <1>18, <1>19, <1>20, <1>21, <1>22, <1>23, <1>24, <1>25
     DEF Next, StartStep, WaitStep, WorkerMoves, CancelMoves

\* What the UPDATE of Cancel does.
LEMMA CancelUpdated ==
  ASSUME TypeOK, NEW c \in Client, CancelUpdate(c)
  PROVE  LET j == cancel[c].job IN
         /\ cancel[c].step = "update" /\ j \in Job
         /\ \A d \in Client : d # c => cancel'[d] = cancel[d]
         /\ \/ /\ cancel'[c] = NoCancel /\ UNCHANGED <<status, early>>
            \/ /\ cancel'[c].step = "emit" /\ cancel'[c].job = j
               /\ dbOpen /\ status[j] = "queued"
               /\ status' = [status EXCEPT ![j] = "cancelled"]
               /\ early' = IF Over(j) THEN early ELSE early \cup {j}
<1> DEFINE j == cancel[c].job
<1>1. cancel[c].step = "update" /\ j \in Job /\ cancel[c] \in [step : {"signal", "update", "emit"}, job : Job]
  BY CancelTyped DEF CancelUpdate
<1>2. CASE /\ dbOpen /\ status[j] = "queued"
           /\ status' = [status EXCEPT ![j] = "cancelled"]
           /\ early' = IF Over(j) THEN early ELSE early \cup {j}
           /\ cancel' = [cancel EXCEPT ![c].step = "emit"]
  <2>1. /\ cancel' = [cancel EXCEPT ![c].step = "emit"]
        /\ status' = [status EXCEPT ![j] = "cancelled"]
        /\ early' = IF Over(j) THEN early ELSE early \cup {j}
    BY <1>2
  <2>2. cancel'[c] = [cancel[c] EXCEPT !.step = "emit"] /\ \A d \in Client : d # c => cancel'[d] = cancel[d]
    BY <2>1 DEF TypeOK
  <2>3. cancel'[c].step = "emit" /\ cancel'[c].job = j
    BY <1>1, <2>2
  <2> QED
    BY <1>1, <1>2, <2>1, <2>2, <2>3
<1>3. CASE cancel' = [cancel EXCEPT ![c] = NoCancel] /\ UNCHANGED <<status, early>>
  BY <1>1, <1>3 DEF TypeOK
<1> QED
  BY <1>2, <1>3 DEF CancelUpdate

\* A call of Cancel changes by its own steps, and when the process ends.
LEMMA CancelFrame ==
  ASSUME TypeOK, NEW c \in Client, [Next]_vars, cancel'[c] # cancel[c]
  PROVE  (\E j \in Job : CancelLookup(c, j)) \/ CancelMoves(c) \/ Kill
<1>1. ASSUME NEW d \in Client, CancelMoves(d) \/ \E j \in Job : CancelLookup(d, j)
      PROVE  c = d
  BY <1>1 DEF CancelMoves, CancelLookup, CancelSignal, CancelUpdate, CancelEmit, TypeOK
<1>2. \/ Kill
      \/ \E d \in Client : CancelMoves(d) \/ \E j \in Job : CancelLookup(d, j)
  BY DEF Next, StartStep, WaitStep, WorkerMoves, vars, CheckDepth, InsertJob,
         EmitQueued, Launch, StartReturns, RegisterWaiter, CheckTerminal, WokenUp, WaitFails,
         AcquireSlot, CancelledBeforeStart, MarkRunning, EmitRunning, RunnerReturns, FinishJob,
         EmitTerminal, ReleaseSlot, Cleanup, CloseJobs
<1> QED
  BY <1>1, <1>2

\* Only Cancel makes a job one that was cancelled early.
LEMMA EarlyFrame ==
  ASSUME TypeOK, [Next]_vars
  PROVE  UNCHANGED early \/ \E c \in Client : CancelUpdate(c)
BY DEF Next, StartStep, WaitStep, WorkerMoves, CancelMoves, vars, histVars, CheckDepth,
       InsertJob, EmitQueued, Launch, StartReturns, RegisterWaiter, CheckTerminal, WokenUp,
       WaitFails, AcquireSlot, CancelledBeforeStart, MarkRunning, EmitRunning, RunnerReturns,
       FinishJob, EmitTerminal, ReleaseSlot, Cleanup, CancelLookup, CancelSignal, CancelEmit,
       CloseJobs, Kill

\* If no Cancel reads a row its Start has not answered for, every update of Cancel
\* is about a job whose goroutine is gone.
LEMMA LateStep ==
  ASSUME TypeOK, TypeOK', Late, ~EarlyCancel, \A j \in Job : Placed(j), [Next]_vars
  PROVE  Late'
<1>1. ASSUME NEW c \in Client, cancel'[c].step = "update" PROVE Gone(cancel[c].job)'
  <2>1. CASE cancel'[c] = cancel[c]
    BY <1>1, <2>1, CancelTyped, GoneStays DEF Late
  <2>2. ASSUME NEW j \in Job, CancelLookup(c, j) PROVE Gone(cancel[c].job)'
    <3>1. cancel'[c] = [step |-> IF j \in cancels THEN "signal" ELSE "update", job |-> j]
      BY <2>2 DEF CancelLookup, TypeOK
    <3>2. j \notin cancels /\ Known(j) /\ cancel'[c].job = j
      BY <1>1, <2>2, <3>1 DEF CancelLookup
    <3>3. Gone(j)
      BY <3>2 DEF Known, Gone, Placed, Alive, TypeOK, CallStep
    <3> QED
      BY <3>2, <3>3, GoneStays
  <2>3. ~CancelSignal(c) /\ ~CancelEmit(c) /\ ~Kill
    BY <1>1 DEF CancelSignal, CancelEmit, Kill, NoCancel, TypeOK
  <2>4. ~CancelUpdate(c)
    BY <1>1, CancelUpdated DEF NoCancel
  <2> QED
    BY <2>1, <2>2, <2>3, <2>4, CancelFrame DEF CancelMoves
<1>2. ASSUME NEW j \in early' PROVE status'[j] = "cancelled" /\ Gone(j)'
  <2>1. CASE j \in early
    BY <2>1, GoneStays DEF Late, TypeOK
  <2>2. CASE j \notin early
    <3>1. PICK c \in Client : CancelUpdate(c)
      BY <1>2, <2>2, EarlyFrame
    <3>2. j = cancel[c].job /\ status'[j] = "cancelled" /\ j \in Job
      BY <1>2, <2>2, <3>1, CancelTyped DEF CancelUpdate, TypeOK
    <3> QED
      BY <3>1, <3>2, GoneStays DEF Late, CancelUpdate
  <2> QED
    BY <2>1, <2>2
<1> QED
  BY <1>1, <1>2 DEF Late

\* A final status stays, an early cancel apart.
LEMMA FinalStays ==
  ASSUME TypeOK, NEW k \in Job, Placed(k), Underway(k), status[k] \in Terminal, [Next]_vars
  PROVE  status'[k] = status[k] /\ (worker[k] # "tell" => worker'[k] # "tell")
<1> USE DEF callVars, ctxVars, waitVars, histVars, Placed, Underway, TypeOK, Terminal, NonTerminal
<1>1. ASSUME NEW j \in Job, CheckDepth(j)
    PROVE status'[k] = status[k] /\ (worker[k] # "tell" => worker'[k] # "tell")
  BY <1>1 DEF CheckDepth
<1>2. ASSUME NEW j \in Job, InsertJob(j)
    PROVE status'[k] = status[k] /\ (worker[k] # "tell" => worker'[k] # "tell")
  BY <1>2 DEF InsertJob
<1>3. ASSUME NEW j \in Job, EmitQueued(j)
    PROVE status'[k] = status[k] /\ (worker[k] # "tell" => worker'[k] # "tell")
  BY <1>3 DEF EmitQueued
<1>4. ASSUME NEW j \in Job, Launch(j)
    PROVE status'[k] = status[k] /\ (worker[k] # "tell" => worker'[k] # "tell")
  BY <1>4 DEF Launch
<1>5. ASSUME NEW j \in Job, StartReturns(j)
    PROVE status'[k] = status[k] /\ (worker[k] # "tell" => worker'[k] # "tell")
  BY <1>5 DEF StartReturns
<1>6. ASSUME NEW j \in Job, RegisterWaiter(j)
    PROVE status'[k] = status[k] /\ (worker[k] # "tell" => worker'[k] # "tell")
  BY <1>6 DEF RegisterWaiter
<1>7. ASSUME NEW j \in Job, CheckTerminal(j)
    PROVE status'[k] = status[k] /\ (worker[k] # "tell" => worker'[k] # "tell")
  BY <1>7 DEF CheckTerminal
<1>8. ASSUME NEW j \in Job, WokenUp(j)
    PROVE status'[k] = status[k] /\ (worker[k] # "tell" => worker'[k] # "tell")
  BY <1>8 DEF WokenUp
<1>9. ASSUME NEW j \in Job, WaitFails(j)
    PROVE status'[k] = status[k] /\ (worker[k] # "tell" => worker'[k] # "tell")
  BY <1>9 DEF WaitFails
<1>10. ASSUME NEW j \in Job, AcquireSlot(j)
    PROVE status'[k] = status[k] /\ (worker[k] # "tell" => worker'[k] # "tell")
  BY <1>10 DEF AcquireSlot
<1>11. ASSUME NEW j \in Job, CancelledBeforeStart(j)
    PROVE status'[k] = status[k] /\ (worker[k] # "tell" => worker'[k] # "tell")
  BY <1>11 DEF CancelledBeforeStart
<1>12. ASSUME NEW j \in Job, MarkRunning(j)
    PROVE status'[k] = status[k] /\ (worker[k] # "tell" => worker'[k] # "tell")
  BY <1>12 DEF MarkRunning, SetStatus
<1>13. ASSUME NEW j \in Job, EmitRunning(j)
    PROVE status'[k] = status[k] /\ (worker[k] # "tell" => worker'[k] # "tell")
  BY <1>13 DEF EmitRunning
<1>14. ASSUME NEW j \in Job, RunnerReturns(j)
    PROVE status'[k] = status[k] /\ (worker[k] # "tell" => worker'[k] # "tell")
  BY <1>14 DEF RunnerReturns
<1>15. ASSUME NEW j \in Job, FinishJob(j)
    PROVE status'[k] = status[k] /\ (worker[k] # "tell" => worker'[k] # "tell")
  BY <1>15 DEF FinishJob, SetStatus
<1>16. ASSUME NEW j \in Job, EmitTerminal(j)
    PROVE status'[k] = status[k] /\ (worker[k] # "tell" => worker'[k] # "tell")
  BY <1>16 DEF EmitTerminal
<1>17. ASSUME NEW j \in Job, ReleaseSlot(j)
    PROVE status'[k] = status[k] /\ (worker[k] # "tell" => worker'[k] # "tell")
  BY <1>17 DEF ReleaseSlot
<1>18. ASSUME NEW j \in Job, Cleanup(j)
    PROVE status'[k] = status[k] /\ (worker[k] # "tell" => worker'[k] # "tell")
  BY <1>18 DEF Cleanup
<1>19. ASSUME NEW c \in Client, NEW j \in Job, CancelLookup(c, j)
    PROVE status'[k] = status[k] /\ (worker[k] # "tell" => worker'[k] # "tell")
  BY <1>19 DEF CancelLookup
<1>20. ASSUME NEW c \in Client, CancelSignal(c)
    PROVE status'[k] = status[k] /\ (worker[k] # "tell" => worker'[k] # "tell")
  BY <1>20 DEF CancelSignal
<1>21. ASSUME NEW c \in Client, CancelUpdate(c)
    PROVE status'[k] = status[k] /\ (worker[k] # "tell" => worker'[k] # "tell")
  BY <1>21, CancelTyped DEF CancelUpdate
<1>22. ASSUME NEW c \in Client, CancelEmit(c)
    PROVE status'[k] = status[k] /\ (worker[k] # "tell" => worker'[k] # "tell")
  BY <1>22 DEF CancelEmit
<1>23. CASE CloseJobs
  BY <1>23 DEF CloseJobs
<1>24. CASE Kill
  BY <1>24 DEF Kill
<1>25. CASE UNCHANGED vars
  BY <1>25 DEF vars
<1> QED
  BY <1>1, <1>2, <1>3, <1>4, <1>5, <1>6, <1>7, <1>8, <1>9, <1>10, <1>11, <1>12, <1>13, <1>14,
     <1>15, <1>16, <1>17, <1>18, <1>19, <1>20, <1>21, <1>22, <1>23, <1>24, <1>25
     DEF Next, StartStep, WaitStep, WorkerMoves, CancelMoves

\* Who appends to the log of a job.
LEMMA LogFrame ==
  ASSUME TypeOK, \A j \in Job : Placed(j), NEW k \in Job, [Next]_vars, log'[k] # log[k]
  PROVE  \/ EmitQueued(k) /\ log'[k] = Append(log[k], "job.queued")
         \/ EmitRunning(k) /\ log'[k] = Append(log[k], "job.running")
         \/ EmitTerminal(k) /\ outcome[k] \in Terminal /\ log'[k] = Append(log[k], EventOf[outcome[k]])
         \/ \E c \in Client : CancelEmit(c) /\ cancel[c].job = k /\ log'[k] = Append(log[k], "job.cancelled")
<1>1. \/ \E j \in Job : EmitQueued(j) \/ EmitRunning(j) \/ EmitTerminal(j)
      \/ \E c \in Client : CancelEmit(c)
  BY DEF Next, StartStep, WaitStep, WorkerMoves, CancelMoves, vars, CheckDepth, InsertJob,
         Launch, StartReturns, RegisterWaiter, CheckTerminal, WokenUp, WaitFails,
         AcquireSlot, CancelledBeforeStart, MarkRunning, RunnerReturns, FinishJob,
         ReleaseSlot, Cleanup, CancelLookup, CancelSignal, CancelUpdate, CloseJobs, Kill
<1>2. ASSUME NEW j \in Job, EmitQueued(j) PROVE j = k /\ log'[k] = Append(log[k], "job.queued")
  BY <1>2, Emitted DEF EmitQueued, EventType
<1>3. ASSUME NEW j \in Job, EmitRunning(j)
    PROVE j = k /\ log'[k] = Append(log[k], "job.running")
  BY <1>3, Emitted DEF EmitRunning, EventType
<1>4. ASSUME NEW j \in Job, EmitTerminal(j)
      PROVE  j = k /\ outcome[k] \in Terminal /\ log'[k] = Append(log[k], EventOf[outcome[k]])
  BY <1>4, Emitted, EventTyped DEF EmitTerminal, Placed
<1>5. ASSUME NEW c \in Client, CancelEmit(c)
      PROVE  cancel[c].job = k /\ log'[k] = Append(log[k], "job.cancelled")
  BY <1>5, Emitted, CancelTyped DEF CancelEmit, EventType
<1> QED
  BY <1>1, <1>2, <1>3, <1>4, <1>5

\* Each action keeps the row of a job that has ended terminal.
LEMMA SettledStep ==
  ASSUME TypeOK, NEW k \in Job, k \notin torn', Placed(k), Underway(k), Settled(k), [Next]_vars
  PROVE  Settled(k)'
<1> USE DEF callVars, ctxVars, waitVars, histVars, Placed, Underway, Settled, TypeOK, Terminal, NonTerminal
<1>1. ASSUME NEW j \in Job, CheckDepth(j) PROVE Settled(k)'
  BY <1>1 DEF CheckDepth
<1>2. ASSUME NEW j \in Job, InsertJob(j) PROVE Settled(k)'
  BY <1>2 DEF InsertJob
<1>3. ASSUME NEW j \in Job, EmitQueued(j) PROVE Settled(k)'
  BY <1>3 DEF EmitQueued
<1>4. ASSUME NEW j \in Job, Launch(j) PROVE Settled(k)'
  BY <1>4 DEF Launch
<1>5. ASSUME NEW j \in Job, StartReturns(j) PROVE Settled(k)'
  BY <1>5 DEF StartReturns
<1>6. ASSUME NEW j \in Job, RegisterWaiter(j) PROVE Settled(k)'
  BY <1>6 DEF RegisterWaiter
<1>7. ASSUME NEW j \in Job, CheckTerminal(j) PROVE Settled(k)'
  BY <1>7 DEF CheckTerminal
<1>8. ASSUME NEW j \in Job, WokenUp(j) PROVE Settled(k)'
  BY <1>8 DEF WokenUp
<1>9. ASSUME NEW j \in Job, WaitFails(j) PROVE Settled(k)'
  BY <1>9 DEF WaitFails
<1>10. ASSUME NEW j \in Job, AcquireSlot(j) PROVE Settled(k)'
  BY <1>10 DEF AcquireSlot
<1>11. ASSUME NEW j \in Job, CancelledBeforeStart(j) PROVE Settled(k)'
  BY <1>11 DEF CancelledBeforeStart
<1>12. ASSUME NEW j \in Job, MarkRunning(j) PROVE Settled(k)'
  BY <1>12 DEF MarkRunning, SetStatus
<1>13. ASSUME NEW j \in Job, EmitRunning(j) PROVE Settled(k)'
  BY <1>13 DEF EmitRunning
<1>14. ASSUME NEW j \in Job, RunnerReturns(j) PROVE Settled(k)'
  BY <1>14 DEF RunnerReturns
<1>15. ASSUME NEW j \in Job, FinishJob(j) PROVE Settled(k)'
  BY <1>15 DEF FinishJob, SetStatus
<1>16. ASSUME NEW j \in Job, EmitTerminal(j) PROVE Settled(k)'
  BY <1>16 DEF EmitTerminal
<1>17. ASSUME NEW j \in Job, ReleaseSlot(j) PROVE Settled(k)'
  BY <1>17 DEF ReleaseSlot
<1>18. ASSUME NEW j \in Job, Cleanup(j) PROVE Settled(k)'
  BY <1>18 DEF Cleanup
<1>19. ASSUME NEW c \in Client, NEW j \in Job, CancelLookup(c, j) PROVE Settled(k)'
  BY <1>19 DEF CancelLookup
<1>20. ASSUME NEW c \in Client, CancelSignal(c) PROVE Settled(k)'
  BY <1>20 DEF CancelSignal
<1>21. ASSUME NEW c \in Client, CancelUpdate(c) PROVE Settled(k)'
  BY <1>21, CancelTyped DEF CancelUpdate
<1>22. ASSUME NEW c \in Client, CancelEmit(c) PROVE Settled(k)'
  BY <1>22 DEF CancelEmit
<1>23. CASE CloseJobs
  BY <1>23 DEF CloseJobs
<1>24. CASE Kill
  BY <1>24 DEF Kill
<1>25. CASE UNCHANGED vars
  BY <1>25 DEF vars
<1> QED
  BY <1>1, <1>2, <1>3, <1>4, <1>5, <1>6, <1>7, <1>8, <1>9, <1>10, <1>11, <1>12, <1>13, <1>14,
     <1>15, <1>16, <1>17, <1>18, <1>19, <1>20, <1>21, <1>22, <1>23, <1>24, <1>25
     DEF Next, StartStep, WaitStep, WorkerMoves, CancelMoves

\* An event that is not final leaves a log without a final event so.
LEMMA NoEndStays ==
  ASSUME NEW s \in Seq(EventType), NEW e \in EventType,
         \A i \in 1 .. Len(s) : ~Ends(s[i])
  PROVE  /\ ~Ends(e) => \A i \in 1 .. Len(Append(s, e)) : ~Ends(Append(s, e)[i])
         /\ \A i \in 1 .. Len(Append(s, e)) : Ends(Append(s, e)[i]) =>
              i = Len(Append(s, e)) /\ Append(s, e)[i] = e
<1> DEFINE t == Append(s, e)
<1>1. Len(t) = Len(s) + 1 /\ t[Len(s) + 1] = e /\ \A i \in 1 .. Len(s) : t[i] = s[i]
  OBVIOUS
<1>2. \A i \in 1 .. Len(t) : i \in 1 .. Len(s) \/ i = Len(s) + 1
  BY <1>1
<1> HIDE DEF t
<1> QED
  BY <1>1, <1>2

\* While a job is under way, or when its outcome is to be told, its log has no end.
LEMMA NoEndYet ==
  ASSUME NEW k \in Job, Told(k), status[k] \notin Terminal \/ worker[k] = "tell"
  PROVE  NoEnd(k)
BY DEF Told

\* Each action that emits a terminal event emits the first one of its job, and the
\* row it tells stays.
LEMMA ToldStep ==
  ASSUME TypeOK, TypeOK', \A j \in Job : Placed(j), NEW k \in Job,
         Underway(k), Settled(k), LastWord(k), Told(k), [Next]_vars
  PROVE  Told(k)'
<1>1. log[k] \in Seq(EventType)
  BY DEF TypeOK, EventType
<1>2. CASE log'[k] = log[k]
  BY <1>2, FinalStays DEF Told, NoEnd
<1>3. ASSUME EmitQueued(k) \/ EmitRunning(k), NEW e \in {"job.queued", "job.running"},
             log'[k] = Append(log[k], e)
      PROVE  Told(k)'
  <2>1. NoEnd(k)
    BY <1>3, NoEndYet DEF EmitQueued, EmitRunning, Underway, Terminal, NonTerminal
  <2>2. e \in EventType /\ ~Ends(e)
    BY DEF EventType, Ends
  <2> QED
    BY <1>1, <1>3, <2>1, <2>2, NoEndStays DEF NoEnd, Told
<1>4. CASE EmitTerminal(k) /\ outcome[k] \in Terminal /\ log'[k] = Append(log[k], EventOf[outcome[k]])
  <2>1. NoEnd(k) /\ status'[k] = outcome[k] /\ worker'[k] # "tell"
    BY <1>4, NoEndYet DEF EmitTerminal, Settled, TypeOK
  <2> QED
    BY <1>1, <1>4, <2>1, EventTyped, NoEndStays DEF NoEnd, Told
<1>5. ASSUME NEW c \in Client, CancelEmit(c), cancel[c].job = k, log'[k] = Append(log[k], "job.cancelled")
      PROVE  Told(k)'
  <2>1. NoEnd(k) /\ status'[k] = "cancelled" /\ worker'[k] # "tell"
    BY <1>5 DEF CancelEmit, LastWord, Emits
  <2>2. "cancelled" \in Terminal /\ "job.cancelled" = EventOf["cancelled"]
    BY DEF Terminal, EventOf
  <2> QED
    BY <1>1, <1>5, <2>1, <2>2, EventTyped, NoEndStays DEF NoEnd, Told
<1> QED
  BY <1>2, <1>3, <1>4, <1>5, LogFrame

\* No second Cancel comes to emit: the first has found the row queued and ended it.
LEMMA LastWordStep ==
  ASSUME TypeOK, TypeOK', \A j \in Job : Placed(j), NEW k \in Job,
         Underway(k), Settled(k), LastWord(k), Told(k), [Next]_vars
  PROVE  LastWord(k)'
<1>1. ASSUME NEW c \in Client, Emits(c, k)'
      PROVE  \/ Emits(c, k) /\ cancel'[c] = cancel[c]
             \/ CancelUpdate(c) /\ cancel[c].job = k /\ status[k] = "queued" /\ status'[k] = "cancelled"
  <2>1. CASE cancel'[c] = cancel[c]
    BY <1>1, <2>1 DEF Emits
  <2>2. ~CancelSignal(c) /\ ~CancelEmit(c) /\ ~Kill /\ \A j \in Job : ~CancelLookup(c, j)
    BY <1>1 DEF Emits, CancelSignal, CancelEmit, Kill, CancelLookup, NoCancel, TypeOK
  <2>3. CASE CancelUpdate(c)
    <3>1. cancel'[c] # NoCancel
      BY <1>1 DEF Emits, NoCancel
    <3>2. /\ cancel'[c].job = cancel[c].job /\ status[k] = "queued"
          /\ status' = [status EXCEPT ![k] = "cancelled"]
      BY <1>1, <2>3, <3>1, CancelUpdated DEF Emits
    <3> QED
      BY <1>1, <2>3, <3>2 DEF Emits, TypeOK
  <2> QED
    BY <2>1, <2>2, <2>3, CancelFrame DEF CancelMoves
<1>2. ASSUME NEW c \in Client, Emits(c, k)'
      PROVE  status'[k] = "cancelled" /\ NoEnd(k)' /\ worker'[k] # "tell"
  <2>1. CASE Emits(c, k) /\ cancel'[c] = cancel[c]
    <3>1. status[k] = "cancelled" /\ NoEnd(k) /\ worker[k] # "tell"
      BY <2>1 DEF LastWord
    <3>2. status'[k] = "cancelled" /\ worker'[k] # "tell"
      BY <3>1, FinalStays DEF Terminal
    <3>3. ~EmitQueued(k) /\ ~EmitRunning(k) /\ ~EmitTerminal(k)
      BY <3>1 DEF EmitQueued, EmitRunning, EmitTerminal, Underway, NonTerminal
    <3>4. ASSUME NEW d \in Client, cancel[d].job = k PROVE ~CancelEmit(d)
      BY <2>1, <3>4 DEF LastWord, Emits, CancelEmit, NoCancel, TypeOK
    <3>5. log'[k] = log[k]
      BY <3>3, <3>4, LogFrame
    <3> QED
      BY <3>1, <3>2, <3>5 DEF NoEnd
  <2>2. CASE CancelUpdate(c) /\ cancel[c].job = k /\ status[k] = "queued" /\ status'[k] = "cancelled"
    <3>1. log' = log /\ worker' = worker
      BY <2>2 DEF CancelUpdate
    <3>2. worker[k] # "tell"
      BY <2>2 DEF Settled, Placed, Terminal
    <3> QED
      BY <2>2, <3>1, <3>2, NoEndYet DEF NoEnd, Terminal
  <2> QED
    BY <1>1, <1>2, <2>1, <2>2
<1>3. ASSUME NEW c \in Client, NEW d \in Client, Emits(c, k)', Emits(d, k)' PROVE c = d
  <2>1. CASE Emits(c, k) /\ Emits(d, k)
    BY <2>1 DEF LastWord
  <2>2. CASE CancelUpdate(c) /\ status[k] = "queued"
    BY <1>1, <1>3, <2>2, CancelUpdated DEF LastWord
  <2>3. CASE CancelUpdate(d) /\ status[k] = "queued"
    BY <1>1, <1>3, <2>3, CancelUpdated DEF LastWord
  <2> QED
    BY <1>1, <1>3, <2>1, <2>2, <2>3
<1> QED
  BY <1>2, <1>3 DEF LastWord

\* Only Start's count adds to the calls and the queue.
Joins(k) ==
  /\ k \in Calling' => k \in Calling \/ CheckDepth(k)
  /\ k \in Waiting' => k \in Waiting \/ CheckDepth(k)

\* A job joins the queue when its call is admitted, and no other way.
LEMMA JoinsStep ==
  ASSUME TypeOK, NEW k \in Job, Placed(k), k \notin early => Underway(k), [Next]_vars
  PROVE  Joins(k)
<1> USE DEF callVars, ctxVars, waitVars, histVars, Placed, Underway, TypeOK, Joins, Calling, InCall,
            Waiting, Unfinished, Admitted, Terminal, NonTerminal
<1>1. ASSUME NEW j \in Job, CheckDepth(j) PROVE Joins(k)
  BY <1>1 DEF CheckDepth
<1>2. ASSUME NEW j \in Job, InsertJob(j) PROVE Joins(k)
  BY <1>2 DEF InsertJob
<1>3. ASSUME NEW j \in Job, EmitQueued(j) PROVE Joins(k)
  BY <1>3 DEF EmitQueued
<1>4. ASSUME NEW j \in Job, Launch(j) PROVE Joins(k)
  BY <1>4 DEF Launch
<1>5. ASSUME NEW j \in Job, StartReturns(j) PROVE Joins(k)
  BY <1>5 DEF StartReturns
<1>6. ASSUME NEW j \in Job, RegisterWaiter(j) PROVE Joins(k)
  BY <1>6 DEF RegisterWaiter
<1>7. ASSUME NEW j \in Job, CheckTerminal(j) PROVE Joins(k)
  BY <1>7 DEF CheckTerminal
<1>8. ASSUME NEW j \in Job, WokenUp(j) PROVE Joins(k)
  BY <1>8 DEF WokenUp
<1>9. ASSUME NEW j \in Job, WaitFails(j) PROVE Joins(k)
  BY <1>9 DEF WaitFails
<1>10. ASSUME NEW j \in Job, AcquireSlot(j) PROVE Joins(k)
  BY <1>10 DEF AcquireSlot
<1>11. ASSUME NEW j \in Job, CancelledBeforeStart(j) PROVE Joins(k)
  BY <1>11 DEF CancelledBeforeStart
<1>12. ASSUME NEW j \in Job, MarkRunning(j) PROVE Joins(k)
  BY <1>12 DEF MarkRunning, SetStatus
<1>13. ASSUME NEW j \in Job, EmitRunning(j) PROVE Joins(k)
  BY <1>13 DEF EmitRunning
<1>14. ASSUME NEW j \in Job, RunnerReturns(j) PROVE Joins(k)
  BY <1>14 DEF RunnerReturns
<1>15. ASSUME NEW j \in Job, FinishJob(j) PROVE Joins(k)
  BY <1>15 DEF FinishJob, SetStatus
<1>16. ASSUME NEW j \in Job, EmitTerminal(j) PROVE Joins(k)
  BY <1>16 DEF EmitTerminal
<1>17. ASSUME NEW j \in Job, ReleaseSlot(j) PROVE Joins(k)
  BY <1>17 DEF ReleaseSlot
<1>18. ASSUME NEW j \in Job, Cleanup(j) PROVE Joins(k)
  BY <1>18 DEF Cleanup
<1>19. ASSUME NEW c \in Client, NEW j \in Job, CancelLookup(c, j) PROVE Joins(k)
  BY <1>19 DEF CancelLookup
<1>20. ASSUME NEW c \in Client, CancelSignal(c) PROVE Joins(k)
  BY <1>20 DEF CancelSignal
<1>21. ASSUME NEW c \in Client, CancelUpdate(c) PROVE Joins(k)
  BY <1>21, CancelTyped DEF CancelUpdate
<1>22. ASSUME NEW c \in Client, CancelEmit(c) PROVE Joins(k)
  BY <1>22 DEF CancelEmit
<1>23. CASE CloseJobs
  BY <1>23 DEF CloseJobs
<1>24. CASE Kill
  BY <1>24 DEF Kill
<1>25. CASE UNCHANGED vars
  BY <1>25 DEF vars
<1> QED
  BY <1>1, <1>2, <1>3, <1>4, <1>5, <1>6, <1>7, <1>8, <1>9, <1>10, <1>11, <1>12, <1>13, <1>14,
     <1>15, <1>16, <1>17, <1>18, <1>19, <1>20, <1>21, <1>22, <1>23, <1>24, <1>25
     DEF Next, StartStep, WaitStep, WorkerMoves, CancelMoves

\* A call is admitted only while the queue is short, and counts itself from then on.
LEMMA DepthStep ==
  ASSUME TypeOK, TypeOK', \A j \in Job : Placed(j), \A j \in Job \ early : Underway(j), Depth,
         [Next]_vars
  PROVE  Depth'
<1>1. /\ IsFiniteSet(Calling) /\ IsFiniteSet(Waiting) /\ IsFiniteSet(Unfinished)
      /\ IsFiniteSet(Calling') /\ IsFiniteSet(Waiting')
  <2>1. /\ Calling \subseteq Job /\ Waiting \subseteq Job /\ Unfinished \subseteq Job
        /\ Calling' \subseteq Job /\ Waiting' \subseteq Job
    BY DEF Calling, Waiting, Unfinished, Admitted
  <2> QED
    BY <2>1, FS_Subset, JobsAssumption
<1>2. /\ Cardinality(Calling) \in Nat /\ Cardinality(Waiting) \in Nat /\ Cardinality(Unfinished) \in Nat
      /\ Cardinality(Calling') \in Nat /\ Cardinality(Waiting') \in Nat
      /\ MaxCalls \in Nat /\ MaxQueue \in Nat
  BY <1>1, FS_CardinalityType, JobsAssumption
<1>3. \A k \in Job : Joins(k)
  BY JoinsStep
<1>4. CASE \A j \in Job : ~CheckDepth(j)
  <2>1. Calling' \subseteq Calling /\ Waiting' \subseteq Waiting
    BY <1>3, <1>4 DEF Joins, Calling, Waiting, Unfinished, Admitted
  <2>2. Cardinality(Calling') <= Cardinality(Calling) /\ Cardinality(Waiting') <= Cardinality(Waiting)
    BY <1>1, <2>1, FS_Subset
  <2> QED
    BY <1>2, <2>2 DEF Depth
<1>5. ASSUME NEW j \in Job, CheckDepth(j) PROVE Depth'
  <2>1. /\ Calling' \subseteq Calling \cup {j}
        /\ Cardinality(Calling) < MaxCalls
    BY <1>5 DEF CheckDepth, Calling, InCall, TypeOK
  <2>2. Cardinality(Calling') <= MaxCalls
    <3>1. IsFiniteSet(Calling \cup {j}) /\ Cardinality(Calling \cup {j}) \in {Cardinality(Calling), Cardinality(Calling) + 1}
      BY <1>1, FS_AddElement
    <3>2. Cardinality(Calling') <= Cardinality(Calling \cup {j})
      BY <2>1, <3>1, FS_Subset
    <3> QED
      BY <1>2, <2>1, <3>1, <3>2
  <2>3. CASE Cardinality(Unfinished) >= MaxQueue
    <3>1. Waiting' \subseteq Waiting
      BY <1>2, <1>5, <2>3 DEF CheckDepth, Waiting, Unfinished, Admitted, TypeOK, histVars
    <3>2. Cardinality(Waiting') <= Cardinality(Waiting)
      BY <1>1, <3>1, FS_Subset
    <3> QED
      BY <1>2, <2>2, <3>2 DEF Depth
  <2>4. CASE ~(Cardinality(Unfinished) >= MaxQueue)
    <3>1. Waiting' \subseteq Unfinished \cup Calling'
      BY <1>5 DEF CheckDepth, Waiting, Unfinished, Admitted, Calling, InCall, TypeOK
    <3>2. /\ IsFiniteSet(Unfinished \cup Calling')
          /\ Cardinality(Unfinished \cup Calling') <= Cardinality(Unfinished) + Cardinality(Calling')
      <4>1. IsFiniteSet(Unfinished \cap Calling')
        BY <1>1, FS_Subset
      <4>2. Cardinality(Unfinished \cap Calling') \in Nat
        BY <4>1, FS_CardinalityType
      <4>3. /\ IsFiniteSet(Unfinished \cup Calling')
            /\ Cardinality(Unfinished \cup Calling') =
                 Cardinality(Unfinished) + Cardinality(Calling') - Cardinality(Unfinished \cap Calling')
        BY <1>1, FS_Union
      <4> QED
        BY <1>2, <4>2, <4>3
    <3>3. Cardinality(Waiting') <= Cardinality(Unfinished \cup Calling')
      BY <3>1, <3>2, FS_Subset
    <3>4. Cardinality(Unfinished \cup Calling') \in Nat
      BY <3>2, FS_CardinalityType
    <3> QED
      BY <1>2, <2>2, <2>4, <3>2, <3>3, <3>4 DEF Depth
  <2> QED
    BY <2>3, <2>4
<1> QED
  BY <1>4, <1>5

\* The server starts with nothing placed, held or told.
LEMMA InitIInv == Init => IInv
<1> SUFFICES ASSUME Init PROVE IInv
  OBVIOUS
<1> USE DEF Init
<1>1. TypeOK
  BY DEF TypeOK, Status, CallStep, WorkerStep, CancelStep
<1>2. Slots
  BY FS_EmptySet, JobsAssumption DEF Slots, Holds
<1>3. Depth
  <2>1. Calling = {} /\ Waiting = {}
    BY DEF Calling, InCall, Waiting, Unfinished, Admitted, NonTerminal
  <2> QED
    BY <2>1, FS_EmptySet, JobsAssumption DEF Depth
<1>5. \A j \in Job : Placed(j) /\ Unstarted(j) /\ Underway(j) /\ Settled(j)
  BY DEF Placed, Alive, Unstarted, Underway, Settled
<1>6. \A j \in Job : LastWord(j) /\ Told(j)
  BY DEF LastWord, Emits, Told, NoEnd, NoCancel
<1>7. Late
  BY DEF Late, NoCancel
<1> QED
  BY <1>1, <1>2, <1>3, <1>5, <1>6, <1>7 DEF IInv

\* The histories only grow.
LEMMA HistoryGrows ==
  ASSUME [Next]_vars
  PROVE  early \subseteq early' /\ torn \subseteq torn'
BY DEF Next, StartStep, WaitStep, WorkerMoves, CancelMoves, vars, histVars, CheckDepth,
     InsertJob,
       EmitQueued, Launch, StartReturns, RegisterWaiter, CheckTerminal, WokenUp, WaitFails,
       AcquireSlot, CancelledBeforeStart, MarkRunning, EmitRunning, RunnerReturns, FinishJob,
       EmitTerminal, ReleaseSlot, Cleanup, CancelLookup, CancelSignal, CancelUpdate, CancelEmit,
       CloseJobs, Kill

\* Every step keeps the inductive invariant.
LEMMA NextIInv == IInv /\ [Next]_vars => IInv'
<1> SUFFICES ASSUME IInv, [Next]_vars PROVE IInv'
  OBVIOUS
<1> USE DEF IInv
<1>1. early \subseteq early' /\ torn \subseteq torn'
  BY HistoryGrows
<1>2. TypeOK'
  BY TypeStep DEF Placed
<1>3. Slots' /\ Depth'
  <2>1. TypeOK /\ \A j \in Job : Placed(j)
    OBVIOUS
  <2>2. Slots'
    BY <2>1, SlotsStep
  <2>3. Depth'
    BY <1>2, <2>1, DepthStep
  <2> QED
    BY <2>2, <2>3
<1>4. ASSUME NEW j \in Job PROVE Placed(j)' /\ Unstarted(j)'
  BY PlacedStep, UnstartedStep
<1>5. ASSUME NEW j \in Job \ early' PROVE Underway(j)' /\ (j \in torn' => Torn(j)')
  BY <1>1, UnderwayStep, TornStep DEF Slots
<1>6. ASSUME NEW j \in Job \ (early' \cup torn') PROVE Settled(j)' /\ LastWord(j)' /\ Told(j)'
  <2>1. Placed(j) /\ Underway(j) /\ Settled(j) /\ LastWord(j) /\ Told(j)
    BY <1>1
  <2> QED
    BY <1>2, <2>1, SettledStep, LastWordStep, ToldStep
<1>7. ~EarlyCancel => Late'
  BY <1>2, LateStep
<1> QED
  BY <1>2, <1>3, <1>4, <1>5, <1>6, <1>7

\* The inductive invariant holds in every reachable state.
LEMMA Invariance == Spec => []IInv
BY InitIInv, NextIInv, PTL DEF Spec

-----------------------------------------------------------------------------
(* Theorems.                                                               *)

\* The columns and the Go variables keep their types.
THEOREM TypeCorrect == Spec => []TypeOK
BY Invariance, PTL DEF IInv

\* At most MaxConcurrent runners are at work; no way a job ends loses a slot
\* of the semaphore or frees one twice (JobManager.run).
THEOREM SlotsKept == Spec => []SlotsBounded
<1>1. IInv => SlotsBounded
  <2> SUFFICES ASSUME IInv PROVE SlotsBounded
    OBVIOUS
  <2>1. \A j \in Job : Holds(j)
    BY DEF IInv, Slots
  <2>2. sem \subseteq Job /\ IsFiniteSet(sem) /\ Cardinality(sem) <= MaxConcurrent
    BY FS_Subset, JobsAssumption DEF IInv, TypeOK, Slots
  <2>3. {j \in Job : worker[j] = "runner"} \subseteq sem
    BY <2>1 DEF Holds
  <2>4. Cardinality({j \in Job : worker[j] = "runner"}) <= MaxConcurrent
    <3> DEFINE R == {j \in Job : worker[j] = "runner"}
    <3>1. IsFiniteSet(R) /\ Cardinality(R) <= Cardinality(sem)
      BY <2>2, <2>3, FS_Subset
    <3>2. Cardinality(R) \in Nat /\ Cardinality(sem) \in Nat /\ MaxConcurrent \in Nat
      BY <2>2, <3>1, FS_CardinalityType, JobsAssumption
    <3> HIDE DEF R
    <3>3. Cardinality(R) <= MaxConcurrent
      BY <2>2, <3>1, <3>2
    <3> QED
      BY <3>3 DEF R
  <2> QED
    BY <2>1, <2>2, <2>4 DEF SlotsBounded, Holds
<1> QED
  BY <1>1, Invariance, PTL

\* The count of Start and its INSERT are two statements, and still the queue
\* outgrows its limit by no more than the Start calls in flight.
THEOREM QueueKept == Spec => []QueueBounded
<1>1. IInv => QueueBounded
  <2> SUFFICES ASSUME IInv PROVE QueueBounded
    OBVIOUS
  <2>1. Waiting \subseteq Job /\ Unfinished \ early \subseteq Waiting
    BY DEF Waiting, Unfinished, Admitted
  <2>2. IsFiniteSet(Waiting) /\ IsFiniteSet(Unfinished \ early)
    BY <2>1, FS_Subset, JobsAssumption
  <2>3. Cardinality(Unfinished \ early) <= Cardinality(Waiting)
    BY <2>1, <2>2, FS_Subset
  <2>4. /\ Cardinality(Unfinished \ early) \in Nat /\ Cardinality(Waiting) \in Nat
        /\ MaxQueue \in Nat /\ MaxCalls \in Nat
    BY <2>2, FS_CardinalityType, JobsAssumption
  <2> QED
    BY <2>3, <2>4 DEF IInv, Depth, QueueBounded
<1> QED
  BY <1>1, Invariance, PTL

\* The events of a job end with its terminal event, unless the job was
\* cancelled while it was submitted or its last UPDATE was lost (finishJob, Cancel).
THEOREM TerminalEventIsLast == Spec => []TerminalEventLast
<1>1. IInv => TerminalEventLast
  BY DEF IInv, Told, NoEnd, TerminalEventLast
<1> QED
  BY <1>1, Invariance, PTL

\* Whatever statements fail, the row of a job whose end was told says the same
\* end or none, and at most that it was cancelled later (finishJob, Cancel).
THEOREM EventsTellTheRow == Spec => []EventAgreesWithRow
<1>1. IInv => EventAgreesWithRow
  BY DEF IInv, Told, NoEnd, Torn, EventAgreesWithRow
<1> QED
  BY <1>1, Invariance, PTL

\* No step of any goroutine rewrites a final status, with the same exception.
THEOREM FinalStatusStays == Spec => FinalUnlessEarly
<1>1. IInv /\ [Next]_vars => [\A j \in Job \ early' : status[j] \in Terminal => status'[j] = status[j]]_vars
  BY FinalStays, HistoryGrows DEF IInv
<1> QED
  BY <1>1, Invariance, PTL DEF Spec, FinalUnlessEarly

-----------------------------------------------------------------------------
(* The job service implements JobBoard.                                    *)

\* The four statements that write a status.
LEMMA StatusFrame ==
  ASSUME [Next]_vars
  PROVE  \/ UNCHANGED status
         \/ \E j \in Job : InsertJob(j) \/ MarkRunning(j) \/ FinishJob(j)
         \/ \E c \in Client : CancelUpdate(c)
BY DEF Next, StartStep, WaitStep, WorkerMoves, CancelMoves, vars, CheckDepth,
       EmitQueued, Launch, StartReturns, RegisterWaiter, CheckTerminal, WokenUp, WaitFails,
       AcquireSlot, CancelledBeforeStart, EmitRunning, RunnerReturns,
       EmitTerminal, ReleaseSlot, Cleanup, CancelLookup, CancelSignal, CancelEmit, CloseJobs, Kill

Works(j) == worker[j] \in {"announce", "runner"} \/ (worker[j] = "finish" /\ j \in sem)

\* How a job comes to be worked on and ceases to be.
Turns(k) == /\ Works(k)' => Works(k) \/ MarkRunning(k)
            /\ Works(k) => Works(k)' \/ Gone(k)'

\* Who is worked on: from the first UPDATE to the last, or to the end of the process.
LEMMA WorksStep ==
  ASSUME TypeOK, NEW k \in Job, Placed(k), Holds(k), [Next]_vars
  PROVE  Turns(k)
<1> USE DEF callVars, ctxVars, waitVars, histVars, Turns, Works, Gone, Holds, Placed, TypeOK
<1>1. ASSUME NEW j \in Job, CheckDepth(j) PROVE Turns(k)
  BY <1>1 DEF CheckDepth
<1>2. ASSUME NEW j \in Job, InsertJob(j) PROVE Turns(k)
  BY <1>2 DEF InsertJob
<1>3. ASSUME NEW j \in Job, EmitQueued(j) PROVE Turns(k)
  BY <1>3 DEF EmitQueued
<1>4. ASSUME NEW j \in Job, Launch(j) PROVE Turns(k)
  BY <1>4 DEF Launch
<1>5. ASSUME NEW j \in Job, StartReturns(j) PROVE Turns(k)
  BY <1>5 DEF StartReturns
<1>6. ASSUME NEW j \in Job, RegisterWaiter(j) PROVE Turns(k)
  BY <1>6 DEF RegisterWaiter
<1>7. ASSUME NEW j \in Job, CheckTerminal(j) PROVE Turns(k)
  BY <1>7 DEF CheckTerminal
<1>8. ASSUME NEW j \in Job, WokenUp(j) PROVE Turns(k)
  BY <1>8 DEF WokenUp
<1>9. ASSUME NEW j \in Job, WaitFails(j) PROVE Turns(k)
  BY <1>9 DEF WaitFails
<1>10. ASSUME NEW j \in Job, AcquireSlot(j) PROVE Turns(k)
  BY <1>10 DEF AcquireSlot
<1>11. ASSUME NEW j \in Job, CancelledBeforeStart(j) PROVE Turns(k)
  BY <1>11 DEF CancelledBeforeStart
<1>12. ASSUME NEW j \in Job, MarkRunning(j) PROVE Turns(k)
  BY <1>12 DEF MarkRunning, SetStatus
<1>13. ASSUME NEW j \in Job, EmitRunning(j) PROVE Turns(k)
  BY <1>13 DEF EmitRunning
<1>14. ASSUME NEW j \in Job, RunnerReturns(j) PROVE Turns(k)
  BY <1>14 DEF RunnerReturns
<1>15. ASSUME NEW j \in Job, FinishJob(j) PROVE Turns(k)
  BY <1>15 DEF FinishJob, SetStatus
<1>16. ASSUME NEW j \in Job, EmitTerminal(j) PROVE Turns(k)
  BY <1>16 DEF EmitTerminal
<1>17. ASSUME NEW j \in Job, ReleaseSlot(j) PROVE Turns(k)
  BY <1>17 DEF ReleaseSlot
<1>18. ASSUME NEW j \in Job, Cleanup(j) PROVE Turns(k)
  BY <1>18 DEF Cleanup
<1>19. ASSUME NEW c \in Client, NEW j \in Job, CancelLookup(c, j) PROVE Turns(k)
  BY <1>19 DEF CancelLookup
<1>20. ASSUME NEW c \in Client, CancelSignal(c) PROVE Turns(k)
  BY <1>20 DEF CancelSignal
<1>21. ASSUME NEW c \in Client, CancelUpdate(c) PROVE Turns(k)
  BY <1>21, CancelTyped DEF CancelUpdate
<1>22. ASSUME NEW c \in Client, CancelEmit(c) PROVE Turns(k)
  BY <1>22 DEF CancelEmit
<1>23. CASE CloseJobs
  BY <1>23 DEF CloseJobs
<1>24. CASE Kill
  BY <1>24 DEF Kill
<1>25. CASE UNCHANGED vars
  BY <1>25 DEF vars
<1> QED
  BY <1>1, <1>2, <1>3, <1>4, <1>5, <1>6, <1>7, <1>8, <1>9, <1>10, <1>11, <1>12, <1>13, <1>14,
     <1>15, <1>16, <1>17, <1>18, <1>19, <1>20, <1>21, <1>22, <1>23, <1>24, <1>25
     DEF Next, StartStep, WaitStep, WorkerMoves, CancelMoves

\* Job j may get a row, start and end, as far as the others are concerned.
LEMMA ForsakenOthers ==
  ASSUME NEW j \in Job, \A k \in Job : k # j => status'[k] = status[k] /\ (Gone(k)' <=> Gone(k))
  PROVE  Forsaken' \ {j} = Forsaken \ {j}
BY DEF Forsaken, Unfinished, Gone

\* A job that is worked on holds a slot, its row is unfinished and not abandoned.
LEMMA WorkingJobs ==
  ASSUME IInv, Late
  PROVE  /\ Working = {j \in Job : Works(j)} /\ Working \subseteq sem \cap Unfinished
         /\ \A j \in Working : ~Gone(j)
<1>1. Working = {j \in Job : Works(j)}
  BY DEF Working, Works
<1>2. ASSUME NEW j \in Job, Works(j) PROVE j \in sem /\ j \in Unfinished /\ ~Gone(j)
  <2>1. ~Gone(j)
    BY <1>2 DEF Works, Gone
  <2>2. j \notin early
    BY <2>1 DEF Late
  <2>3. Underway(j) /\ Holds(j)
    BY <2>2 DEF IInv, Slots
  <2> QED
    BY <1>2, <2>1, <2>3 DEF Works, Underway, Holds, Unfinished
<1> QED
  BY <1>1, <1>2

\* A step that writes no status and starts no job may leave jobs to themselves.
LEMMA Abandons ==
  ASSUME IInv, Late, [Next]_vars, UNCHANGED status, \A j \in Job : ~MarkRunning(j)
  PROVE  Board!Next
<1>1. \A k \in Job : Gone(k) => Gone(k)'
  BY GoneStays DEF IInv
<1>2. Forsaken \subseteq Forsaken' /\ Forsaken' \subseteq Unfinished
  BY <1>1 DEF Forsaken, Unfinished, Gone
<1>3. Unfinished = Board!Queued \cup Board!Running
  BY DEF Unfinished, NonTerminal, Board!Queued, Board!Running
<1>4. Working' = Working \ Forsaken'
  <2>1. \A k \in Job : Turns(k)
    BY WorksStep DEF IInv, Slots
  <2>2. Working' = {k \in Job : Works(k)'}
    BY DEF Working, Works
  <2>3. ASSUME NEW k \in Job, Works(k)' PROVE k \in Working /\ k \notin Forsaken'
    BY <2>1, <2>3, WorkingJobs DEF Turns, Forsaken, Works
  <2>4. ASSUME NEW k \in Working, k \notin Forsaken' PROVE k \in Job /\ Works(k)'
    <3>1. k \in Job /\ Works(k) /\ k \in Unfinished
      BY WorkingJobs
    <3>2. k \in Unfinished'
      BY <3>1 DEF Unfinished
    <3>3. ~Gone(k)'
      BY <2>4, <3>1, <3>2 DEF Forsaken, Gone
    <3> QED
      BY <2>1, <3>1, <3>3 DEF Turns
  <2> QED
    BY <2>2, <2>3, <2>4
<1>5. Board!Abandon(Forsaken')
  BY <1>2, <1>3, <1>4 DEF Board!Abandon
<1> QED
  BY <1>2, <1>5 DEF Board!Next, Unfinished

\* While a job is cancelled only after its Start has answered, the queue with
\* the calls that were admitted stays within the limit.
LEMMA RoomOnBoard ==
  ASSUME IInv, Late, NEW j \in Job, call[j] = "admitted", status[j] = "none"
  PROVE  Cardinality(Unfinished) < MaxQueue + MaxCalls - 1
<1>1. Unfinished \ early = Unfinished
  BY DEF Late, Unfinished, NonTerminal
<1>2. Waiting = Unfinished \cup Admitted /\ Unfinished \cup {j} \subseteq Waiting /\ j \notin Unfinished
  BY <1>1 DEF Waiting, Admitted, Unfinished, NonTerminal
<1>3. IsFiniteSet(Waiting) /\ IsFiniteSet(Unfinished)
  BY FS_Subset, JobsAssumption DEF Waiting, Admitted, Unfinished
<1>4. Cardinality(Unfinished \cup {j}) = Cardinality(Unfinished) + 1
  BY <1>2, <1>3, FS_AddElement
<1>5. Cardinality(Unfinished \cup {j}) <= Cardinality(Waiting)
  BY <1>2, <1>3, FS_Subset
<1>6. /\ Cardinality(Unfinished) \in Nat /\ Cardinality(Waiting) \in Nat
      /\ MaxQueue \in Nat /\ MaxCalls \in Nat
  BY <1>3, FS_CardinalityType, JobsAssumption
<1> QED
  BY <1>4, <1>5, <1>6 DEF IInv, Depth

\* The board counts with the operator the table is counted with: the instance
\* has a copy of it under a name of its own.
LEMMA SameCardinality ==
  ASSUME NEW S
  PROVE  Board!Cardinality(S) = Cardinality(S)
BY DEF Board!Cardinality, Cardinality, Board!IsFiniteSet, IsFiniteSet

\* A queued row that is written for the first time finds room on the board.
LEMMA Submits ==
  ASSUME IInv, Late, NEW j \in Job, InsertJob(j), status' # status
  PROVE  Board!Submit(j)
<1>1. status[j] = "none" /\ call[j] = "admitted"
  BY DEF InsertJob, IInv, Placed
<1>2. status' = [status EXCEPT ![j] = "queued"] /\ call' = [call EXCEPT ![j] = "inserted"]
      /\ worker' = worker
  BY DEF InsertJob
<1>3. Board!Queued \cup Board!Running = Unfinished
  BY DEF Unfinished, NonTerminal, Board!Queued, Board!Running
<1>4. Forsaken' = Forsaken
  <2>1. j \notin Forsaken
    BY <1>1 DEF Forsaken, Unfinished, NonTerminal
  <2>2. worker[j] = "none"
    BY <1>1 DEF IInv, Placed
  <2>3. j \notin Forsaken'
    BY <1>2, <2>2 DEF Forsaken, IInv, TypeOK
  <2>4. \A k \in Job : k # j => status'[k] = status[k] /\ (Gone(k)' <=> Gone(k))
    BY <1>2 DEF Gone, IInv, TypeOK
  <2> QED
    BY <2>1, <2>3, <2>4, ForsakenOthers
<1>5. Cardinality(Unfinished) < MaxQueue + MaxCalls - 1
  BY <1>1, RoomOnBoard
<1>6. Board!Cardinality(Board!Queued \cup Board!Running) < MaxQueue + MaxCalls - 1
  BY <1>3, <1>5, SameCardinality, Zenon
<1>7. Working' = Working
  BY DEF InsertJob, Working
<1> QED
  BY <1>1, <1>2, <1>4, <1>6, <1>7, Zenon DEF Board!Submit

\* A job that is marked running holds a slot, so fewer jobs than slots are worked on.
LEMMA Begins ==
  ASSUME IInv, Late, NEW j \in Job, MarkRunning(j)
  PROVE  Board!Begin(j)
<1>1. worker[j] = "mark" /\ worker' = [worker EXCEPT ![j] = "announce"] /\ call' = call /\ sem' = sem
  BY DEF MarkRunning, callVars
<1>2. status' = status \/ status' = [status EXCEPT ![j] = "running"]
  BY DEF MarkRunning, SetStatus
<1>3. status[j] = "queued"
  <2>1. j \notin early
    BY <1>1 DEF Late, Gone
  <2> QED
    BY <1>1, <2>1 DEF IInv, Underway
<1>4. Forsaken' = Forsaken /\ j \notin Forsaken
  <2>1. j \notin Forsaken /\ j \notin Forsaken'
    BY <1>1 DEF Forsaken, IInv, TypeOK
  <2>2. \A k \in Job : k # j => status'[k] = status[k] /\ (Gone(k)' <=> Gone(k))
    BY <1>1, <1>2 DEF Gone, IInv, TypeOK
  <2> QED
    BY <2>1, <2>2, ForsakenOthers
<1>5. j \notin Working /\ Working' = Working \cup {j}
  BY <1>1 DEF Working, IInv, TypeOK
<1>6. Cardinality(Working) < MaxConcurrent
  <2>1. sem \in SUBSET Job /\ IsFiniteSet(sem) /\ j \in sem /\ Cardinality(sem) <= MaxConcurrent
    BY <1>1, FS_Subset, JobsAssumption DEF IInv, TypeOK, Slots, Holds
  <2>2. IsFiniteSet(sem \ {j}) /\ Cardinality(sem \ {j}) = Cardinality(sem) - 1
    BY <2>1, FS_RemoveElement
  <2>3. Working \subseteq sem \ {j}
    BY <1>5, WorkingJobs
  <2>4. IsFiniteSet(Working) /\ Cardinality(Working) <= Cardinality(sem \ {j})
    BY <2>2, <2>3, FS_Subset
  <2>5. Cardinality(sem) \in Nat /\ Cardinality(Working) \in Nat /\ MaxConcurrent \in Nat
    BY <2>1, <2>4, FS_CardinalityType, JobsAssumption
  <2> QED
    BY <2>1, <2>2, <2>4, <2>5
<1>7. Board!Cardinality(Working) < MaxConcurrent
  BY <1>6, SameCardinality, Zenon
<1> QED
  BY <1>2, <1>3, <1>4, <1>5, <1>7, Zenon DEF Board!Begin

\* The UPDATE of a goroutine ends a job that ran, or cancels one that waited.
LEMMA EndsOnBoard ==
  ASSUME IInv, Late, NEW j \in Job, FinishJob(j), status' # status
  PROVE  \E s \in Terminal : Board!End(j, s)
<1>1. /\ worker[j] = "finish" /\ status' = [status EXCEPT ![j] = outcome[j]]
      /\ worker' = [worker EXCEPT ![j] = "tell"] /\ call' = call /\ sem' = sem
  BY DEF FinishJob, SetStatus, callVars
<1>2. /\ outcome[j] \in Terminal /\ status[j] \in NonTerminal
      /\ j \in sem \/ (outcome[j] = "cancelled" /\ status[j] = "queued")
  <2>1. j \notin early
    BY <1>1 DEF Late, Gone
  <2> QED
    BY <1>1, <2>1 DEF IInv, Placed, Underway, Unstarted
<1>3. Forsaken' = Forsaken \ {j}
  <2>1. j \notin Forsaken /\ j \notin Forsaken'
    BY <1>1, <1>2 DEF Forsaken, Unfinished, NonTerminal, Terminal, IInv, TypeOK
  <2>2. \A k \in Job : k # j => status'[k] = status[k] /\ (Gone(k)' <=> Gone(k))
    BY <1>1 DEF Gone, IInv, TypeOK
  <2> QED
    BY <2>1, <2>2, ForsakenOthers
<1>4. Working' = Working \ {j} /\ (j \in Working <=> j \in sem)
  BY <1>1 DEF Working, IInv, TypeOK
<1> QED
  BY <1>1, <1>2, <1>3, <1>4 DEF Board!End, Board!Ended, Terminal, NonTerminal

\* The UPDATE of Cancel ends a job that waits and nobody works on.
LEMMA CancelsOnBoard ==
  ASSUME IInv, Late, NEW c \in Client, CancelUpdate(c), status' # status
  PROVE  cancel[c].job \in Job /\ Board!End(cancel[c].job, "cancelled")
<1> DEFINE j == cancel[c].job
<1>1. j \in Job /\ status[j] = "queued" /\ status' = [status EXCEPT ![j] = "cancelled"]
  BY CancelUpdated DEF IInv
<1>2. worker' = worker /\ call' = call /\ sem' = sem
  BY DEF CancelUpdate, callVars
<1>3. Working' = Working /\ j \notin Working
  <2>1. Gone(j)
    BY DEF Late, CancelUpdate
  <2> QED
    BY <1>2, <2>1, WorkingJobs DEF Working
<1> HIDE DEF j
<1>4. Forsaken' = Forsaken \ {j}
  <2>1. j \notin Forsaken'
    BY <1>1 DEF Forsaken, Unfinished, NonTerminal, IInv, TypeOK
  <2>2. \A k \in Job : k # j => status'[k] = status[k] /\ (Gone(k)' <=> Gone(k))
    BY <1>1, <1>2 DEF Gone, IInv, TypeOK
  <2> QED
    BY <1>1, <2>1, <2>2, ForsakenOthers
<1>5. Board!End(j, "cancelled")
  BY <1>1, <1>3, <1>4 DEF Board!End
<1> QED
  BY <1>1, <1>5 DEF j

\* Clients see a board on which every job goes forward once and within the
\* limits, whatever crashes and shutdowns the server goes through and whatever
\* statements fail, if nobody cancels a job before its Start has answered.
THEOREM ServesTheBoard ==
  ASSUME ~EarlyCancel
  PROVE  Spec => ImplementsJobBoard
<1>1. Init => Board!Init
  BY DEF Init, Board!Init, Working, Forsaken, Unfinished, NonTerminal
<1>2. IInv /\ [Next]_vars => [Board!Next]_<<status, Working, Forsaken>>
  <2> SUFFICES ASSUME IInv, [Next]_vars PROVE Board!Next
    OBVIOUS
  <2>1. Late
    BY DEF IInv
  <2>2. ASSUME NEW j \in Job, MarkRunning(j) PROVE Board!Next
    BY <2>1, <2>2, Begins DEF Board!Next
  <2>3. CASE UNCHANGED status /\ \A j \in Job : ~MarkRunning(j)
    BY <2>1, <2>3, Abandons
  <2>4. ASSUME NEW j \in Job, InsertJob(j) \/ FinishJob(j), status' # status PROVE Board!Next
    BY <2>1, <2>4, Submits, EndsOnBoard DEF Board!Next, Board!Ended, Terminal
  <2>5. ASSUME NEW c \in Client, CancelUpdate(c), status' # status PROVE Board!Next
    BY <2>1, <2>5, CancelsOnBoard DEF Board!Next, Board!Ended
  <2> QED
    BY <2>2, <2>3, <2>4, <2>5, StatusFrame
<1> QED
  BY <1>1, <1>2, Invariance, PTL DEF Spec, ImplementsJobBoard, Board!Spec, Board!boardVars
=============================================================================
