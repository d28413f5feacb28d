------------------------------ MODULE McpJobs -------------------------------
(***************************************************************************)
(* The job service of the MCP server (internal/mcp/sqlite_jobs.go): the    *)
(* table mcp_jobs, the goroutine of each job, the semaphore, the map of    *)
(* cancel functions and the waiters, with the tool calls of server.go that *)
(* drive it and the shutdown in internal/app/mcp.go.  A SQL statement, a   *)
(* critical section of JobManager.mu and a channel operation are one step  *)
(* each; everything between two of them may be interleaved.                *)
(***************************************************************************)
EXTENDS Integers, FiniteSets, Sequences

CONSTANTS
  Job,            \* the jobs, one per call of Start
  Sync,           \* those started by tgup.run.sync, whose caller waits for the end; the others by tgup.run.start
  Client,         \* the clients that call tgup.run.cancel
  MaxQueue,       \* JobManager.maxQueue
  MaxConcurrent,  \* capacity of the semaphore
  MaxCalls,       \* bound: calls of Start between their count and their answer
  MaxKills,       \* bound: ends of the server process
  Failing,        \* the statements that may fail while the database is open
  EarlyCancel     \* TRUE: clients cancel jobs whose Start has not returned (they learn the id from the event stream)

\* The statements on the two tables, named for the steps they are issued by.
Statement == {"count", "insert", "emitQueued", "mark", "emitRunning", "finish", "emitTerminal",
              "get", "cancel", "emitCancelled"}

ASSUME JobsAssumption ==
  /\ IsFiniteSet(Job) /\ Sync \subseteq Job /\ MaxQueue \in Nat \ {0} /\ MaxConcurrent \in Nat \ {0}
  /\ MaxCalls \in Nat \ {0} /\ MaxKills \in Nat
  /\ Failing \subseteq Statement /\ EarlyCancel \in BOOLEAN

VARIABLES
  status,    \* column status of mcp_jobs ("none": no row)
  call,      \* where the tool call that starts a job is
  answer,    \* the status a synchronous call answers with ("none": no answer yet)
  worker,    \* where the goroutine of a job is
  outcome,   \* the status finishJob is called with
  ctxDone,   \* the jobs whose context is cancelled
  cancels,   \* keys of JobManager.cancels
  sem,       \* the jobs that hold a slot of the semaphore
  waiting,   \* keys of JobManager.waiters
  woken,     \* the waiters whose channel is closed
  cancel,    \* for each client, its call of Cancel: a step and a job
  log,       \* the lifecycle events of a job in mcp_events, in order
  dbOpen,    \* jobs.Close has not been called
  kills,     \* how often the server process ended
  early,     \* history: the jobs Cancel marked while their Start was under way
  torn       \* history: the jobs whose last UPDATE failed

callVars == <<call, answer>>
ctxVars == <<ctxDone, cancels>>
waitVars == <<waiting, woken>>
histVars == <<kills, early, torn>>
vars == <<status, call, answer, worker, outcome, ctxDone, cancels, sem, waiting, woken,
          cancel, log, dbOpen, kills, early, torn>>

Terminal == {"done", "failed", "cancelled"}
NonTerminal == {"queued", "running"}
Status == NonTerminal \cup Terminal \cup {"none"}
CallStep == {"idle", "admitted", "inserted", "announced", "launched", "registered",
             "blocked", "refused", "answered", "lost"}
WorkerStep == {"none", "select", "mark", "announce", "runner", "finish", "tell",
               "release", "wake", "ended", "lost"}
NoCancel == [step |-> "idle"]
CancelStep == [step : {"signal", "update", "emit"}, job : Job] \cup {NoCancel}

\* A statement fails when the database is closed, busy, full or broken, or when
\* the request has ended whose context it carries.
MayFail(st) == ~dbOpen \/ st \in Failing

\* Event types that carry the terminal flag, and the log after event e:
\* emitEvent drops the error of Append.
Ends(e) == e \in {"job.done", "job.failed", "job.cancelled"}
EventOf == [done |-> "job.done", failed |-> "job.failed", cancelled |-> "job.cancelled"]
Logged(j, e) == log' = [log EXCEPT ![j] = Append(@, e)]
Emit(j, e, st) == Logged(j, e) \/ (MayFail(st) /\ UNCHANGED log)

InCall(j) == call[j] \in {"admitted", "inserted", "announced"}
Unfinished == {j \in Job : status[j] \in NonTerminal}

Init ==
  /\ status = [j \in Job |-> "none"]
  /\ call = [j \in Job |-> "idle"]
  /\ answer = [j \in Job |-> "none"]
  /\ worker = [j \in Job |-> "none"]
  /\ outcome = [j \in Job |-> "none"]
  /\ ctxDone = {} /\ cancels = {} /\ sem = {} /\ waiting = {} /\ woken = {}
  /\ cancel = [c \in Client |-> NoCancel]
  /\ log = [j \in Job |-> << >>]
  /\ dbOpen = TRUE /\ kills = 0 /\ early = {} /\ torn = {}

-----------------------------------------------------------------------------
(* JobManager.Start.                                                       *)

\* Mutant: the limit is compared with > instead of >=.
CheckDepthLate(j) ==
  /\ call[j] = "idle" /\ dbOpen
  /\ Cardinality({k \in Job : InCall(k)}) < MaxCalls
  /\ \/ Cardinality(Unfinished) <= MaxQueue /\ call' = [call EXCEPT ![j] = "admitted"]
     \/ (Cardinality(Unfinished) > MaxQueue \/ MayFail("count")) /\ call' = [call EXCEPT ![j] = "refused"]
  /\ UNCHANGED <<status, answer, worker, outcome, ctxVars, sem, waitVars, cancel, log, dbOpen, histVars>>

\* countNonTerminal, and the refusal when it fails or the queue is full.
CheckDepth(j) ==
  /\ call[j] = "idle" /\ dbOpen
  /\ Cardinality({k \in Job : InCall(k)}) < MaxCalls
  /\ \/ Cardinality(Unfinished) < MaxQueue /\ call' = [call EXCEPT ![j] = "admitted"]
     \/ (Cardinality(Unfinished) >= MaxQueue \/ MayFail("count")) /\ call' = [call EXCEPT ![j] = "refused"]
  /\ UNCHANGED <<status, answer, worker, outcome, ctxVars, sem, waitVars, cancel, log, dbOpen, histVars>>

InsertJob(j) ==
  /\ call[j] = "admitted"
  /\ \/ dbOpen /\ status' = [status EXCEPT ![j] = "queued"] /\ call' = [call EXCEPT ![j] = "inserted"]
     \/ MayFail("insert") /\ call' = [call EXCEPT ![j] = "refused"] /\ UNCHANGED status
  /\ UNCHANGED <<answer, worker, outcome, ctxVars, sem, waitVars, cancel, log, dbOpen, histVars>>

\* job.queued goes out, unless Append fails.
EmitQueued(j) ==
  /\ call[j] = "inserted"
  /\ call' = [call EXCEPT ![j] = "announced"]
  /\ Emit(j, "job.queued", "emitQueued")
  /\ UNCHANGED <<status, answer, worker, outcome, ctxVars, sem, waitVars, cancel, dbOpen, histVars>>

\* The cancel function is registered and the goroutine launched.
Launch(j) ==
  /\ call[j] = "announced"
  /\ call' = [call EXCEPT ![j] = "launched"]
  /\ cancels' = cancels \cup {j}
  /\ worker' = [worker EXCEPT ![j] = "select"]
  /\ UNCHANGED <<status, answer, outcome, ctxDone, sem, waitVars, cancel, log, dbOpen, histVars>>

-----------------------------------------------------------------------------
(* JobManager.run.                                                         *)

\* Mutant: the semaphore has one slot too many.
AcquireSlotExtra(j) ==
  /\ worker[j] = "select" /\ Cardinality(sem) <= MaxConcurrent
  /\ sem' = sem \cup {j}
  /\ worker' = [worker EXCEPT ![j] = "mark"]
  /\ UNCHANGED <<status, callVars, outcome, ctxVars, waitVars, cancel, log, dbOpen, histVars>>

AcquireSlot(j) ==
  /\ worker[j] = "select" /\ Cardinality(sem) < MaxConcurrent
  /\ sem' = sem \cup {j}
  /\ worker' = [worker EXCEPT ![j] = "mark"]
  /\ UNCHANGED <<status, callVars, outcome, ctxVars, waitVars, cancel, log, dbOpen, histVars>>

\* Mutant: the deferred release is set up before the semaphore is acquired,
\* so a job cancelled before its start frees the slot of another job.
CancelledBeforeStartFrees(j) ==
  /\ worker[j] = "select" /\ j \in ctxDone
  /\ outcome' = [outcome EXCEPT ![j] = "cancelled"]
  /\ worker' = [worker EXCEPT ![j] = "finish"]
  /\ \E k \in Job : sem' = sem \ {k}
  /\ UNCHANGED <<status, callVars, ctxVars, waitVars, cancel, log, dbOpen, histVars>>

\* Mutant: the select has no branch for the context.
CancelledNeverBeforeStart(j) == FALSE

CancelledBeforeStart(j) ==
  /\ worker[j] = "select" /\ j \in ctxDone
  /\ outcome' = [outcome EXCEPT ![j] = "cancelled"]
  /\ worker' = [worker EXCEPT ![j] = "finish"]
  /\ UNCHANGED <<status, callVars, ctxVars, sem, waitVars, cancel, log, dbOpen, histVars>>

\* UPDATE mcp_jobs SET status = s WHERE id = j: run and finishJob drop the
\* error of Exec, whatever its reason, and go on.
SetStatus(j, s, st) ==
  \/ dbOpen /\ status' = [status EXCEPT ![j] = s]
  \/ MayFail(st) /\ UNCHANGED status

MarkRunning(j) ==
  /\ worker[j] = "mark"
  /\ SetStatus(j, "running", "mark")
  /\ worker' = [worker EXCEPT ![j] = "announce"]
  /\ UNCHANGED <<callVars, outcome, ctxVars, sem, waitVars, cancel, log, dbOpen, histVars>>

EmitRunning(j) ==
  /\ worker[j] = "announce"
  /\ Emit(j, "job.running", "emitRunning")
  /\ worker' = [worker EXCEPT ![j] = "runner"]
  /\ UNCHANGED <<status, callVars, outcome, ctxVars, sem, waitVars, cancel, dbOpen, histVars>>

\* The runner returns, fails or panics; a cancelled context decides first.
RunnerReturns(j) ==
  /\ worker[j] = "runner"
  /\ \E o \in IF j \in ctxDone THEN {"cancelled"} ELSE {"done", "failed"} :
       outcome' = [outcome EXCEPT ![j] = o]
  /\ worker' = [worker EXCEPT ![j] = "finish"]
  /\ UNCHANGED <<status, callVars, ctxVars, sem, waitVars, cancel, log, dbOpen, histVars>>

\* Mutant: the cancelled context decides nothing, the UPDATE says done.
FinishJobDone(j) ==
  /\ worker[j] = "finish"
  /\ SetStatus(j, "done", "finish")
  /\ torn' = IF status'[j] = "done" THEN torn ELSE torn \cup {j}
  /\ worker' = [worker EXCEPT ![j] = "tell"]
  /\ UNCHANGED <<callVars, outcome, ctxVars, sem, waitVars, cancel, log, dbOpen, kills, early>>

\* finishJob: the UPDATE, then the terminal event.
FinishJob(j) ==
  /\ worker[j] = "finish"
  /\ SetStatus(j, outcome[j], "finish")
  /\ torn' = IF status'[j] = outcome[j] THEN torn ELSE torn \cup {j}
  /\ worker' = [worker EXCEPT ![j] = "tell"]
  /\ UNCHANGED <<callVars, outcome, ctxVars, sem, waitVars, cancel, log, dbOpen, kills, early>>

EmitTerminal(j) ==
  /\ worker[j] = "tell"
  /\ Emit(j, EventOf[outcome[j]], "emitTerminal")
  /\ outcome' = [outcome EXCEPT ![j] = "none"]
  /\ worker' = [worker EXCEPT ![j] = IF j \in sem THEN "release" ELSE "wake"]
  /\ UNCHANGED <<status, callVars, ctxVars, sem, waitVars, cancel, dbOpen, histVars>>

\* Mutant: the slot is kept.
ReleaseSlotNot(j) ==
  /\ worker[j] = "release"
  /\ worker' = [worker EXCEPT ![j] = "wake"]
  /\ UNCHANGED <<status, callVars, outcome, ctxVars, sem, waitVars, cancel, log, dbOpen, histVars>>

ReleaseSlot(j) ==
  /\ worker[j] = "release"
  /\ sem' = sem \ {j}
  /\ worker' = [worker EXCEPT ![j] = "wake"]
  /\ UNCHANGED <<status, callVars, outcome, ctxVars, waitVars, cancel, log, dbOpen, histVars>>

\* Mutant: waiters are dropped without being closed.
CleanupSilent(j) ==
  /\ worker[j] = "wake"
  /\ cancels' = cancels \ {j}
  /\ waiting' = waiting \ {j}
  /\ worker' = [worker EXCEPT ![j] = "ended"]
  /\ UNCHANGED <<status, callVars, outcome, ctxDone, sem, woken, cancel, log, dbOpen, histVars>>

\* The first defer of run, which Go executes last.
Cleanup(j) ==
  /\ worker[j] = "wake"
  /\ cancels' = cancels \ {j}
  /\ woken' = woken \cup (waiting \cap {j}) /\ waiting' = waiting \ {j}
  /\ worker' = [worker EXCEPT ![j] = "ended"]
  /\ UNCHANGED <<status, callVars, outcome, ctxDone, sem, cancel, log, dbOpen, histVars>>

-----------------------------------------------------------------------------
(* The caller of tgup.run.start is answered by Start; that of tgup.run.sync *)
(* waits for its own job.                                                  *)

StartReturns(j) ==
  /\ call[j] = "launched" /\ j \notin Sync
  /\ call' = [call EXCEPT ![j] = "answered"]
  /\ UNCHANGED <<status, answer, worker, outcome, ctxVars, sem, waitVars, cancel, log, dbOpen, histVars>>

RegisterWaiter(j) ==
  /\ call[j] = "launched" /\ j \in Sync
  /\ waiting' = waiting \cup {j}
  /\ call' = [call EXCEPT ![j] = "registered"]
  /\ UNCHANGED <<status, answer, worker, outcome, ctxVars, sem, woken, cancel, log, dbOpen, histVars>>

\* The Get after the registration; it returns the job if it is terminal.
CheckTerminal(j) ==
  /\ call[j] = "registered" /\ dbOpen
  /\ IF status[j] \in Terminal
     THEN answer' = [answer EXCEPT ![j] = status[j]] /\ call' = [call EXCEPT ![j] = "answered"]
     ELSE call' = [call EXCEPT ![j] = "blocked"] /\ UNCHANGED answer
  /\ UNCHANGED <<status, worker, outcome, ctxVars, sem, waitVars, cancel, log, dbOpen, histVars>>

\* The channel is closed: Get again.
WokenUp(j) ==
  /\ call[j] = "blocked" /\ j \in woken /\ dbOpen
  /\ answer' = [answer EXCEPT ![j] = status[j]]
  /\ call' = [call EXCEPT ![j] = "answered"]
  /\ UNCHANGED <<status, worker, outcome, ctxVars, sem, waitVars, cancel, log, dbOpen, histVars>>

\* The timeout of the call passes, its request ends, or Get fails.
WaitFails(j) ==
  /\ \/ call[j] = "blocked"
     \/ call[j] = "registered" /\ MayFail("get")
  /\ call' = [call EXCEPT ![j] = "refused"]
  /\ UNCHANGED <<status, answer, worker, outcome, ctxVars, sem, waitVars, cancel, log, dbOpen, histVars>>

-----------------------------------------------------------------------------
(* JobManager.Cancel.  A client knows a job from the answer of its Start or *)
(* from its job.queued event.                                              *)

Known(j) == \/ EarlyCancel /\ log[j] # << >>
            \/ call[j] \notin {"idle", "admitted", "inserted", "announced"} /\ status[j] # "none"

CancelLookup(c, j) ==
  /\ cancel[c] = NoCancel /\ Known(j)
  /\ cancel' = [cancel EXCEPT ![c] = [step |-> IF j \in cancels THEN "signal" ELSE "update", job |-> j]]
  /\ UNCHANGED <<status, callVars, worker, outcome, ctxVars, sem, waitVars, log, dbOpen, histVars>>

\* The cancel function was found; calling it after the end has no effect.
CancelSignal(c) ==
  /\ cancel[c].step = "signal"
  /\ ctxDone' = ctxDone \cup {cancel[c].job}
  /\ cancel' = [cancel EXCEPT ![c] = NoCancel]
  /\ UNCHANGED <<status, callVars, worker, outcome, cancels, sem, waitVars, log, dbOpen, histVars>>

\* Mutant: the UPDATE is not restricted to queued rows.
CancelUpdateAny(c) ==
  /\ cancel[c].step = "update"
  /\ LET j == cancel[c].job IN
       /\ dbOpen /\ status' = [status EXCEPT ![j] = "cancelled"]
       /\ cancel' = [cancel EXCEPT ![c].step = "emit"]
  /\ UNCHANGED <<callVars, worker, outcome, ctxVars, sem, waitVars, log, dbOpen, histVars>>

\* The job has no goroutine any more and will not get one.
Over(j) == worker[j] \in {"ended", "lost"} \/ call[j] = "lost"

\* None was found: a queued row is marked directly, if the UPDATE does not fail.
CancelUpdate(c) ==
  /\ cancel[c].step = "update"
  /\ LET j == cancel[c].job IN
       \/ /\ dbOpen /\ status[j] = "queued"
          /\ status' = [status EXCEPT ![j] = "cancelled"]
          /\ early' = IF Over(j) THEN early ELSE early \cup {j}
          /\ cancel' = [cancel EXCEPT ![c].step = "emit"]
       \/ /\ status[j] # "queued" \/ MayFail("cancel")
          /\ cancel' = [cancel EXCEPT ![c] = NoCancel]
          /\ UNCHANGED <<status, early>>
  /\ UNCHANGED <<callVars, worker, outcome, ctxVars, sem, waitVars, log, dbOpen, kills, torn>>

CancelEmit(c) ==
  /\ cancel[c].step = "emit"
  /\ Emit(cancel[c].job, "job.cancelled", "emitCancelled")
  /\ cancel' = [cancel EXCEPT ![c] = NoCancel]
  /\ UNCHANGED <<status, callVars, worker, outcome, ctxVars, sem, waitVars, dbOpen, histVars>>

-----------------------------------------------------------------------------
(* The end of the process.                                                 *)

\* MCPServe returns: jobs.Close runs before events.Close; goroutines go on.
CloseJobs ==
  /\ dbOpen /\ kills < MaxKills
  /\ dbOpen' = FALSE
  /\ UNCHANGED <<status, callVars, worker, outcome, ctxVars, sem, waitVars, cancel, log, histVars>>

\* The process ends, with or without CloseJobs, and is started again: memory
\* is lost, the tables are not, and nothing looks at the rows left behind.
Kill ==
  /\ kills < MaxKills
  /\ kills' = kills + 1
  /\ call' = [j \in Job |-> IF call[j] \in {"idle", "refused", "answered"} THEN call[j] ELSE "lost"]
  /\ worker' = [j \in Job |-> IF worker[j] \in {"none", "ended"} THEN worker[j] ELSE "lost"]
  /\ cancel' = [c \in Client |-> NoCancel]
  /\ cancels' = {} /\ ctxDone' = {} /\ sem' = {} /\ waiting' = {} /\ woken' = {}
  /\ dbOpen' = TRUE /\ outcome' = [j \in Job |-> "none"]
  /\ UNCHANGED <<status, answer, log, early, torn>>

-----------------------------------------------------------------------------
StartStep(j) == CheckDepth(j) \/ InsertJob(j) \/ EmitQueued(j) \/ Launch(j)
WaitStep(j) == StartReturns(j) \/ RegisterWaiter(j) \/ CheckTerminal(j) \/ WokenUp(j)
WorkerMoves(j) == \/ AcquireSlot(j) \/ CancelledBeforeStart(j) \/ MarkRunning(j) \/ EmitRunning(j)
                  \/ FinishJob(j) \/ EmitTerminal(j) \/ ReleaseSlot(j) \/ Cleanup(j)
CancelMoves(c) == CancelSignal(c) \/ CancelUpdate(c) \/ CancelEmit(c)

Next == \/ \E j \in Job : \/ StartStep(j) \/ WaitStep(j) \/ WaitFails(j)
                          \/ WorkerMoves(j) \/ RunnerReturns(j)
        \/ \E c \in Client : CancelMoves(c) \/ \E j \in Job : CancelLookup(c, j)
        \/ CloseJobs \/ Kill

Spec == Init /\ [][Next]_vars

\* The Go scheduler runs every goroutine.  Nothing is assumed of a runner but
\* that it returns once its context is cancelled.
PatientSpec ==
  /\ Spec
  /\ \A j \in Job : /\ WF_vars(EmitQueued(j) \/ InsertJob(j) \/ Launch(j))
                    /\ WF_vars(WorkerMoves(j))
                    /\ WF_vars(j \in ctxDone /\ RunnerReturns(j))
  /\ \A c \in Client : WF_vars(CancelMoves(c))

\* Runners return in any case, and callers go on: assumed where a property says so.
RunnersReturn == \A j \in Job : WF_vars(RunnerReturns(j)) /\ WF_vars(WaitStep(j))

-----------------------------------------------------------------------------
(* Properties.                                                             *)

TypeOK ==
  /\ status \in [Job -> Status] /\ call \in [Job -> CallStep]
  /\ answer \in [Job -> Status]
  /\ worker \in [Job -> WorkerStep] /\ outcome \in [Job -> Terminal \cup {"none"}]
  /\ ctxDone \subseteq Job /\ cancels \subseteq Job /\ sem \subseteq Job
  /\ waiting \subseteq Job /\ woken \subseteq Job
  /\ cancel \in [Client -> CancelStep]
  /\ log \in [Job -> Seq({"job.queued", "job.running", "job.done", "job.failed", "job.cancelled"})]
  /\ dbOpen \in BOOLEAN /\ kills \in Nat /\ early \subseteq Job /\ torn \subseteq Job

\* At most MaxConcurrent runners are at work, and a slot is neither lost nor
\* freed twice whichever way a job ends: the holders are the jobs between
\* the two semaphore operations.
SlotsBounded ==
  /\ Cardinality({j \in Job : worker[j] = "runner"}) <= MaxConcurrent
  /\ sem = {j \in Job : \/ worker[j] \in {"mark", "announce", "runner", "release"}
                        \/ worker[j] \in {"finish", "tell"} /\ j \in sem}

\* Start's count and its INSERT are two statements: the queue outgrows its
\* limit by the Start calls in flight at most, jobs revived by an early cancel apart.
QueueBounded == Cardinality(Unfinished \ early) <= MaxQueue + MaxCalls - 1

\* The event stream of a job ends with its terminal event: nothing follows
\* it, unless the job was cancelled while its Start was under way or its last
\* UPDATE failed (the row it leaves behind may be cancelled once more).
TerminalEventLast ==
  \A j \in Job \ (early \cup torn) : \A i \in 1 .. Len(log[j]) : Ends(log[j][i]) => i = Len(log[j])

\* The row of a job whose end was told agrees with its event.  Where the UPDATE
\* failed it is left unfinished, and at most cancelled later, but never says
\* another end; excepted are jobs cancelled while their Start was under way.
EventAgreesWithRow ==
  \A j \in Job \ early : \A i \in 1 .. Len(log[j]) : Ends(log[j][i]) =>
    \/ status[j] \in Terminal /\ log[j][i] = EventOf[status[j]]
    \/ j \in torn /\ status[j] \in NonTerminal \cup {"cancelled"}

\* A final status never changes (model.go: "IsTerminal returns true if the
\* job is in a final state"), jobs cancelled while their Start was under way
\* excepted.
FinalUnlessEarly ==
  [][\A j \in Job \ early' : status[j] \in Terminal => status'[j] = status[j]]_vars

\* A cancelled job ends although no other runner ever returns.
CancelTakesEffect ==
  \A j \in Job : (j \in ctxDone /\ worker[j] \in {"select", "mark", "announce", "runner"})
                 ~> (status[j] = "cancelled" \/ worker[j] \in {"ended", "lost"} \/ ~dbOpen)

\* A launched job ends when runners return, and then the caller that waits
\* for it is woken and answers a final status, not one read too early.  Where
\* the last UPDATE failed there is none: the caller may wait for its timeout.
EveryJobEnds ==
  RunnersReturn => \A j \in Job : (worker[j] = "select") ~> (worker[j] \in {"ended", "lost"})
NoLostWakeup ==
  RunnersReturn => \A j \in Job : (call[j] \in {"registered", "blocked"}) ~>
                                   (\/ call[j] = "answered" /\ answer[j] \in Terminal
                                    \/ call[j] \in {"refused", "lost"} \/ j \in torn \/ ~dbOpen)
=============================================================================
