------------------------------ MODULE RunQueue ------------------------------
(***************************************************************************)
(* The cross-process FIFO queue of `tgup run`: the table run_queue of the  *)
(* state database (internal/queue/sqlite_coordinator.go), the heartbeat    *)
(* goroutine (internal/queue/heartbeat.go) and the part of RunUpload that  *)
(* drives them (internal/app/run.go).  Every SQL statement is one atomic   *)
(* step; the Go code between two statements is not, so other processes     *)
(* step in between.  Time is counted in seconds, the unit of every column. *)
(*                                                                         *)
(* A run id is "<unixmilli>-<pid>": the database compares ids as strings,  *)
(* the model as numbers.  Nothing orders the INSERTs of two runs: an id is *)
(* made before the database is opened and before the clock is read.        *)
(***************************************************************************)
EXTENDS Integers, FiniteSets

CONSTANTS
  Run,           \* the run ids, numbers
  Interval,      \* seconds between two heartbeats (5)
  TTL,           \* HeartbeatTTL: a row this old is stale (30)
  InsertLag,     \* longest wait of the registering INSERT (busy_timeout, 5)
  MaxGap,        \* longest time without a successful heartbeat of a run that is neither paused nor interrupted
  Retention,     \* seconds a finished row is kept by --cleanup-now
  CanCrash, CanPause, CanInterrupt,  \* the runs that may crash, be suspended by the system, get SIGINT
  InOrder,       \* TRUE: the environment lets INSERTs happen in key order only
  MaxClock,      \* bound: the last second
  FaultBy        \* bound: the last second at which a fault happens

ASSUME RunAssumption == Run \subseteq Nat
ASSUME TimeAssumption ==
  /\ Interval \in Nat \ {0} /\ TTL \in Nat /\ InsertLag \in Nat
  /\ MaxGap \in Nat /\ Retention \in Nat /\ MaxClock \in Nat /\ FaultBy \in Nat
ASSUME HeartbeatAssumption == Interval <= MaxGap /\ InsertLag + MaxGap <= TTL
ASSUME FaultAssumption ==
  /\ CanCrash \subseteq Run /\ CanPause \subseteq Run /\ CanInterrupt \subseteq Run
  /\ InOrder \in BOOLEAN

VARIABLES
  clock,      \* time.Now().Unix()
  row,        \* the table run_queue: one record per run, status "none" when there is no row
  pc,         \* where the process of a run is
  createdAt,  \* SQLiteCoordinator.createdAt (0: not registered)
  due,        \* when the heartbeat ticker of a run fires next
  lastBeat,   \* when the ticker was created or last led to a successful heartbeat
  ctxDone,    \* the runs whose context has been cancelled by a signal
  paused,     \* the runs whose process is suspended (SIGSTOP, a sleeping laptop)
  tardy,      \* history: the runs ever paused or interrupted
  swept,      \* history: the runs ever marked stale
  seen        \* history: the rows a run found when it counted no run ahead

queueVars == <<row, createdAt>>
beatVars == <<due, lastBeat>>
faultVars == <<ctxDone, paused, tardy>>
histVars == <<swept, seen>>
vars == <<clock, row, pc, createdAt, due, lastBeat, ctxDone, paused, tardy, swept, seen>>

Active == {"waiting", "running"}
Ended == {"finished", "failed", "canceled"}
Status == Active \cup Ended \cup {"stale", "none"}
PC == {"idle", "opened", "inserting", "sweep", "count", "acquire", "poll",
       "cancel", "uploading", "post", "gone", "crashed"}

Row == [status : Status, created : Nat, heartbeat : Nat, finished : Nat]
NoRow == [status |-> "none", created |-> 0, heartbeat |-> 0, finished |-> 0]

\* The process exists and its deferred hbCancel has not run.
Alive(r) == pc[r] \notin {"idle", "gone", "crashed"}
\* The process takes steps of its own.
Scheduled(r) == Alive(r) /\ r \notin paused
\* The heartbeat goroutine has not seen its context end.
Beating(r) == Scheduled(r) /\ r \notin ctxDone

\* ORDER of the queue: created_at, then run_id.
Before(c1, r1, c2, r2) == c1 < c2 \/ (c1 = c2 /\ r1 < r2)

\* Mutant: countAhead overlooks the run that is uploading.
AheadWaiting(r) == {s \in Run : /\ row[s].status = "waiting"
                                /\ Before(row[s].created, s, createdAt[r], r)}

\* Mutant: countAhead without the tie-break on run_id.
AheadEarlier(r) == {s \in Run : row[s].status \in Active /\ row[s].created < createdAt[r]}

\* The rows countAhead counts for run r.
Ahead(r) == {s \in Run : /\ row[s].status \in Active
                         /\ Before(row[s].created, s, createdAt[r], r)}

Init ==
  /\ clock = 1
  /\ row = [r \in Run |-> NoRow]
  /\ pc = [r \in Run |-> "idle"]
  /\ createdAt = [r \in Run |-> 0]
  /\ due = [r \in Run |-> 0]
  /\ lastBeat = [r \in Run |-> 0]
  /\ ctxDone = {} /\ paused = {} /\ tardy = {} /\ swept = {}
  /\ seen = [r \in Run |-> {}]

-----------------------------------------------------------------------------
(* A run, from its start to its registration.                              *)

\* The rows --cleanup-now deletes from run_queue.
Expired(t) == {s \in Run : /\ t[s].status \in Ended \cup {"stale"}
                           /\ t[s].finished < clock - Retention}

\* RunUpload up to the start of the heartbeat goroutine; the pre-upload
\* maintenance deletes the expired queue rows when --cleanup-now is given.
Start(r) ==
  /\ pc[r] = "idle"
  /\ pc' = [pc EXCEPT ![r] = "opened"]
  /\ due' = [due EXCEPT ![r] = clock + Interval]
  /\ lastBeat' = [lastBeat EXCEPT ![r] = clock]
  /\ \E cleanupNow \in BOOLEAN :
       row' = IF cleanupNow
              THEN [s \in Run |-> IF s \in Expired(row) THEN NoRow ELSE row[s]]
              ELSE row
  /\ UNCHANGED <<clock, createdAt, faultVars, histVars>>

\* WaitUntilTurn reads the clock ...
ReadClock(r) ==
  /\ Scheduled(r) /\ pc[r] = "opened"
  /\ createdAt' = [createdAt EXCEPT ![r] = clock]
  /\ pc' = [pc EXCEPT ![r] = "inserting"]
  /\ UNCHANGED <<clock, row, beatVars, faultVars, histVars>>

\* The environment assumption InOrder stands for.
ArrivesLast(r) == \A s \in Run : row[s].status # "none" =>
                    Before(row[s].created, s, createdAt[r], r)

\* ... and inserts the row, with the time it read, when SQLite lets it.
Insert(r) ==
  /\ Scheduled(r) /\ pc[r] = "inserting" /\ r \notin ctxDone
  /\ InOrder => ArrivesLast(r)
  /\ row' = [row EXCEPT ![r] = [status |-> "waiting", created |-> createdAt[r],
                                heartbeat |-> createdAt[r], finished |-> 0]]
  /\ pc' = [pc EXCEPT ![r] = "sweep"]
  /\ UNCHANGED <<clock, createdAt, beatVars, faultVars, histVars>>

-----------------------------------------------------------------------------
(* The polling loop of WaitUntilTurn.                                      *)

\* Mutant: markStale without its condition on the status.
LapsedAny(r) == {s \in Run \ {r} : /\ row[s].status # "none"
                                   /\ row[s].heartbeat < clock - TTL}

\* Mutant: markStale looks after waiting rows only.
LapsedWaiting(r) == {s \in Run \ {r} : /\ row[s].status = "waiting"
                                       /\ row[s].heartbeat < clock - TTL}

\* The rows markStale turns stale when r runs it.
Lapsed(r) == {s \in Run \ {r} : /\ row[s].status \in Active
                                /\ row[s].heartbeat < clock - TTL}

Sweep(r) ==
  /\ Scheduled(r) /\ pc[r] = "sweep" /\ r \notin ctxDone
  /\ row' = [s \in Run |-> IF s \in Lapsed(r)
                           THEN [status |-> "stale", created |-> row[s].created,
                                 heartbeat |-> row[s].heartbeat, finished |-> clock]
                           ELSE row[s]]
  /\ swept' = swept \cup Lapsed(r)
  /\ pc' = [pc EXCEPT ![r] = "count"]
  /\ UNCHANGED <<clock, createdAt, beatVars, faultVars, seen>>

Count(r) ==
  /\ Scheduled(r) /\ pc[r] = "count" /\ r \notin ctxDone
  /\ pc' = [pc EXCEPT ![r] = IF Ahead(r) = {} THEN "acquire" ELSE "poll"]
  /\ seen' = [seen EXCEPT ![r] = IF Ahead(r) = {} THEN {s \in Run : row[s].status # "none"} ELSE {}]
  /\ UNCHANGED <<clock, queueVars, beatVars, faultVars, swept>>

\* UPDATE run_queue SET ... WHERE run_id = r: the status the row has does not
\* matter, and a row that is gone is no error.
Update(r, new) == IF row[r].status = "none" THEN row ELSE [row EXCEPT ![r] = new]

Acquire(r) ==
  /\ Scheduled(r) /\ pc[r] = "acquire" /\ r \notin ctxDone
  /\ row' = Update(r, [row[r] EXCEPT !.status = "running", !.heartbeat = clock])
  /\ pc' = [pc EXCEPT ![r] = "uploading"]
  /\ UNCHANGED <<clock, createdAt, beatVars, faultVars, histVars>>

\* The poll timer fires.
PollTimer(r) ==
  /\ Scheduled(r) /\ pc[r] = "poll"
  /\ pc' = [pc EXCEPT ![r] = "sweep"]
  /\ UNCHANGED <<clock, queueVars, beatVars, faultVars, histVars>>

\* A statement fails, or finds the context done, or the wait does.
WaitFails(r) ==
  /\ Scheduled(r)
  /\ \/ /\ pc[r] \in {"inserting", "sweep", "count", "acquire"}
        /\ r \in ctxDone \/ clock <= FaultBy
     \/ pc[r] = "poll" /\ r \in ctxDone
  /\ pc' = [pc EXCEPT ![r] = "cancel"]
  /\ UNCHANGED <<clock, queueVars, beatVars, faultVars, histVars>>

-----------------------------------------------------------------------------
(* The end of a run.                                                       *)

\* The UPDATE of Finish, or nothing when it fails: RunUpload drops the error.
SetEnd(r, status) ==
  \/ row' = Update(r, [status |-> status, created |-> row[r].created,
                       heartbeat |-> clock, finished |-> clock])
  \/ clock <= FaultBy /\ row' = row

\* Mutant: the status is spelt as in internal/mcp.
CancelRunMisspelt(r) ==
  /\ Scheduled(r) /\ pc[r] = "cancel"
  /\ SetEnd(r, "cancelled")
  /\ pc' = [pc EXCEPT ![r] = "gone"]
  /\ UNCHANGED <<clock, createdAt, beatVars, faultVars, histVars>>

\* RunUpload gives up waiting: Cancel, then exit.
CancelRun(r) ==
  /\ Scheduled(r) /\ pc[r] = "cancel"
  /\ SetEnd(r, "canceled")
  /\ pc' = [pc EXCEPT ![r] = "gone"]
  /\ UNCHANGED <<clock, createdAt, beatVars, faultVars, histVars>>

\* The upload, or the connection that precedes it, has ended.
FinishRun(r) ==
  /\ Scheduled(r) /\ pc[r] = "uploading"
  /\ \E status \in IF r \in ctxDone THEN Ended ELSE {"finished", "failed"} : SetEnd(r, status)
  /\ pc' = [pc EXCEPT ![r] = "post"]
  /\ UNCHANGED <<clock, createdAt, beatVars, faultVars, histVars>>

\* The process returns from RunUpload after Finish, its heartbeats until then.
Exit(r) ==
  /\ Scheduled(r) /\ pc[r] = "post"
  /\ pc' = [pc EXCEPT ![r] = "gone"]
  /\ UNCHANGED <<clock, queueVars, beatVars, faultVars, histVars>>

-----------------------------------------------------------------------------
(* The heartbeat goroutine, faults, and time.                              *)

\* Mutant: the UPDATE reaches running rows only.
HeartbeatRunning(r) ==
  /\ Beating(r) /\ clock >= due[r]
  /\ row' = IF row[r].status = "running" THEN [row EXCEPT ![r].heartbeat = clock] ELSE row
  /\ due' = [due EXCEPT ![r] = clock + Interval]
  /\ lastBeat' = [lastBeat EXCEPT ![r] = clock]
  /\ UNCHANGED <<clock, pc, createdAt, faultVars, histVars>>

\* The ticker fires and the UPDATE succeeds, whatever the row's status.
Heartbeat(r) ==
  /\ Beating(r) /\ clock >= due[r]
  /\ row' = Update(r, [row[r] EXCEPT !.heartbeat = clock])
  /\ due' = [due EXCEPT ![r] = clock + Interval]
  /\ lastBeat' = [lastBeat EXCEPT ![r] = clock]
  /\ UNCHANGED <<clock, pc, createdAt, faultVars, histVars>>

\* The UPDATE of a heartbeat fails (onError is nil, nothing happens).
HeartbeatFails(r) ==
  /\ Beating(r) /\ clock >= due[r]
  /\ clock + Interval <= lastBeat[r] + MaxGap
  /\ due' = [due EXCEPT ![r] = clock + Interval]
  /\ UNCHANGED <<clock, row, pc, createdAt, lastBeat, faultVars, histVars>>

Crash(r) ==
  /\ r \in CanCrash /\ Alive(r) /\ clock <= FaultBy
  /\ pc' = [pc EXCEPT ![r] = "crashed"]
  /\ UNCHANGED <<clock, queueVars, beatVars, faultVars, histVars>>

Pause(r) ==
  /\ r \in CanPause /\ Scheduled(r) /\ clock <= FaultBy
  /\ paused' = paused \cup {r} /\ tardy' = tardy \cup {r}
  /\ UNCHANGED <<clock, queueVars, pc, beatVars, ctxDone, histVars>>

Resume(r) ==
  /\ r \in paused
  /\ paused' = paused \ {r}
  /\ UNCHANGED <<clock, queueVars, pc, beatVars, ctxDone, tardy, histVars>>

\* SIGINT or SIGTERM: signal.NotifyContext cancels the context of the run.
Interrupt(r) ==
  /\ r \in CanInterrupt /\ Scheduled(r) /\ r \notin ctxDone
  /\ ctxDone' = ctxDone \cup {r} /\ tardy' = tardy \cup {r}
  /\ UNCHANGED <<clock, queueVars, pc, beatVars, paused, histVars>>

\* A second passes.  A process that is not suspended serves its ticker
\* within the second and waits at most InsertLag for its INSERT.  (Bound:
\* post-upload maintenance is over one second after the last fault.)
Tick ==
  /\ clock < MaxClock
  /\ clock > FaultBy => \A r \in Run : pc[r] # "post"
  /\ \A r \in Run : Beating(r) =>
       /\ clock < due[r]
       /\ pc[r] = "inserting" => clock < createdAt[r] + InsertLag
  /\ clock' = clock + 1
  /\ UNCHANGED <<queueVars, pc, beatVars, faultVars, histVars>>

-----------------------------------------------------------------------------
\* The steps a live process takes by itself once it is started.
Proceed(r) == \/ ReadClock(r) \/ Insert(r) \/ Sweep(r) \/ Count(r) \/ Acquire(r)
              \/ PollTimer(r) \/ WaitFails(r) \/ CancelRun(r) \/ FinishRun(r) \/ Exit(r)

Beat(r) == Heartbeat(r) \/ HeartbeatFails(r)

Next == \/ Tick
        \/ \E r \in Run : \/ Start(r) \/ Proceed(r) \/ Beat(r)
                          \/ Crash(r) \/ Pause(r) \/ Resume(r) \/ Interrupt(r)

Spec == Init /\ [][Next]_vars

\* Operating system and Go runtime schedule every process that is not
\* suspended, suspensions end, uploads end, and time passes.
FairSpec == /\ Spec
            /\ WF_vars(Tick)
            /\ \A r \in Run : WF_vars(Proceed(r)) /\ WF_vars(Beat(r)) /\ WF_vars(Resume(r))

-----------------------------------------------------------------------------
(* Properties.                                                             *)

TypeOK ==
  /\ clock \in Nat
  /\ row \in [Run -> Row]
  /\ pc \in [Run -> PC]
  /\ createdAt \in [Run -> Nat]
  /\ due \in [Run -> Nat]
  /\ lastBeat \in [Run -> Nat]
  /\ ctxDone \subseteq Run /\ paused \subseteq Run
  /\ tardy \subseteq Run /\ swept \subseteq Run
  /\ seen \in [Run -> SUBSET Run]

Uploading == {r \in Run : pc[r] = "uploading"}

\* The queue's promise as the README words it (Run Modes: "Only the
\* head-of-queue task uploads"): never two uploads at once.
AtMostOneUploading == \A r, s \in Uploading : r = s

\* A run that the system neither suspends nor interrupts is never taken for
\* dead: its heartbeats, some of them failing, keep its row from being swept.
LiveNeverSwept == \A r \in swept : Alive(r) => r \in tardy

\* A run that has taken its turn overtakes nobody it could see: every run
\* ahead of it whose row was there when it counted has ended or was swept.
NoOvertaking ==
  \A s \in Run : pc[s] \in {"acquire", "uploading"} =>
    \A r \in seen[s] \ swept :
      Before(createdAt[r], r, createdAt[s], s) => pc[r] \in {"post", "gone", "crashed"}

\* A status written by Finish is final: no later sweep, heartbeat or turn of
\* any process changes it; maintenance may delete the row.
EndIsFinal ==
  [][\A r \in Run : row[r].status \in Ended => row'[r].status \in {row[r].status, "none"}]_vars

\* Every run that has its row in the queue gets its turn or leaves, crashes of
\* the runs ahead of it and lost Finish updates notwithstanding.
EveryRunServed ==
  \A r \in Run : (pc[r] = "sweep") ~> (pc[r] \in {"uploading", "gone", "crashed"})
=============================================================================
