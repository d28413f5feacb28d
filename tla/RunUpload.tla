----------------------------- MODULE RunUpload ------------------------------
(***************************************************************************)
(* RunUpload, internal/app/run.go: the process around the pipeline.  It    *)
(* opens the database, registers in the run queue, waits for its turn,     *)
(* connects, checks that it is logged in, lets the pipeline (Upload) work, *)
(* says in its row how the run ended, and closes what it opened in reverse *)
(* order.  Every step of the pipeline is a step of Upload; those of the    *)
(* connection are Connection's.  Of the queue there is the row of this     *)
(* process: that its turn comes, and when, is the matter of RunQueue.      *)
(* Between runs the user may log in (internal/app/login.go), which writes  *)
(* the same session file.                                                  *)
(***************************************************************************)
EXTENDS Upload

CONSTANT Pool  \* whether upload.pool_size > 0

ASSUME ProcessAssumption == Pool \in BOOLEAN

VARIABLES
  place,    \* where RunUpload is
  row,      \* status of the row in run_queue
  beating,  \* whether the heartbeat goroutine runs
  login,    \* the command login: "no", "asking" whether it is needed, "signingIn"
  client, conn, ready, stopped, done, save, session,
  abrupt    \* history: a process died, or left a connection that it had begun

Client == INSTANCE Connection

pipeline == vars
process == <<place, row, beating, login>>
connection == <<client, conn, ready, stopped, done, save, session>>
runVars == <<pipeline, process, connection, abrupt>>

RunInit ==
  /\ Init /\ Client!Init
  /\ place = "none" /\ row = "none" /\ beating = FALSE /\ login = "no"
  /\ abrupt = (session = "torn")

Goes(there) == place' = there

\* No run: it returned, or it died.
Over == {"over", "dead"}

-----------------------------------------------------------------------------
(* The queue.                                                              *)

\* The state database is opened and tidied; from here on signals cancel the context.
Open ==
  /\ place \in {"none"} \cup Over /\ login = "no"
  /\ OpenStore
  /\ Goes("opening") /\ row' = "none"
  /\ UNCHANGED <<beating, login, connection, abrupt>>

\* Mutant: no heartbeat before it is the run's turn.
OpenQueueSilent ==
  /\ place = "opening"
  /\ Goes("registering") /\ beating' = FALSE
  /\ UNCHANGED <<pipeline, row, login, connection, abrupt>>

\* queue.OpenSQLite, in a context of its own; then the heartbeat starts, in the run's.
OpenQueue ==
  /\ place = "opening"
  /\ Goes("registering") /\ beating' = (ctxErr = "nil")
  /\ UNCHANGED <<pipeline, row, login, connection, abrupt>>

\* The run returns: there is no row to end.
OpenQueueFails ==
  /\ place = "opening" /\ database = "faulty"
  /\ GiveUp
  /\ Goes("leaving")
  /\ UNCHANGED <<row, beating, login, connection, abrupt>>

\* The INSERT of WaitUntilTurn, in the context of the run.
Register ==
  /\ place = "registering" /\ ctxErr = "nil"
  /\ Goes("waiting") /\ row' = "waiting"
  /\ UNCHANGED <<pipeline, beating, login, connection, abrupt>>

\* Mutant: the row is ended with the context of the run.
EndRowInContext(status) ==
  IF ctxErr = "nil" /\ row # "none" THEN row' = status ELSE UNCHANGED row

\* The row of a run that ends: written with a context of its own; an error is dropped.
EndRow(status) ==
  \/ row' = IF row = "none" THEN row ELSE status
  \/ database = "faulty" /\ UNCHANGED row

\* WaitUntilTurn ends in an error, of the context or of the database, be it at
\* the INSERT: then Cancel finds no row.
WaitFails ==
  /\ place \in {"registering", "waiting"} /\ (ctxErr = "canceled" \/ database = "faulty")
  /\ EndRow("canceled")
  /\ GiveUp
  /\ Goes("leaving")
  /\ UNCHANGED <<beating, login, connection, abrupt>>

\* It is this run's turn.
Turn ==
  /\ place = "waiting" /\ ctxErr = "nil"
  /\ row' = "running"
  /\ Client!Connect
  /\ Goes("connecting")
  /\ UNCHANGED <<pipeline, beating, login, abrupt>>

\* Another process takes the run for dead: its row shows no heartbeat.
Lapse ==
  /\ row \in {"waiting", "running"} /\ ~beating
  /\ row' = "stale"
  /\ UNCHANGED <<pipeline, place, beating, login, connection, abrupt>>

-----------------------------------------------------------------------------
(* The connection.                                                         *)

\* Connect fails: the client is not closed.
ConnectFails ==
  /\ place = "connecting"
  /\ \/ Client!ConnectEnds /\ UNCHANGED abrupt
     \/ (Client!ConnectGivenUp \/ Client!PoolFails) /\ abrupt' = TRUE
  /\ EndRow("failed")
  /\ GiveUp
  /\ Goes("leaving")
  /\ UNCHANGED <<beating, login>>

Connected ==
  /\ place = "connecting"
  /\ Client!ConnectReady
  /\ Goes("checking")
  /\ UNCHANGED <<pipeline, row, beating, login, abrupt>>

\* IsAuthenticated is false: not logged in, or the question failed.
Rejected ==
  /\ place = "checking"
  /\ EndRow("failed")
  /\ GiveUp
  /\ Goes("closing")
  /\ UNCHANGED <<beating, login, connection, abrupt>>

Accepted ==
  /\ place = "checking" /\ conn = "serving" /\ ctxErr = "nil"
  /\ StartRun
  /\ Goes("uploading")
  /\ UNCHANGED <<row, beating, login, connection, abrupt>>

-----------------------------------------------------------------------------
(* The pipeline.                                                           *)

\* What needs an answer of the server needs the connection.
Online == conn = "serving"

Resolution ==
  /\ place = "uploading"
  /\ \/ Resolve /\ (Online \/ Target = "number")
     \/ ResolveFails
  /\ UNCHANGED <<process, connection, abrupt>>

Work(w) ==
  /\ place = "uploading"
  /\ WorkerStep(w) /\ (UNCHANGED chat \/ Online)
  /\ UNCHANGED <<process, connection, abrupt>>

Summary ==
  /\ place = "uploading"
  /\ Finish
  /\ UNCHANGED <<process, connection, abrupt>>

\* upload.Run has returned: the status of the row is made from its results.
Status == IF canceled THEN "canceled" ELSE IF exit = 0 THEN "finished" ELSE "failed"

Tell ==
  /\ place = "uploading" /\ phase = "ended"
  /\ EndRow(Status)
  /\ Goes("closing")
  /\ UNCHANGED <<pipeline, beating, login, connection, abrupt>>

-----------------------------------------------------------------------------
(* The end.                                                                *)

CloseClient ==
  /\ place = "closing"
  /\ \/ Client!Close /\ UNCHANGED place
     \/ Client!CloseReturns /\ Goes("leaving")
  /\ UNCHANGED <<pipeline, row, beating, login, abrupt>>

\* The heartbeat is cancelled, the databases are closed, main returns.
Leave ==
  /\ place = "leaving"
  /\ Goes("over") /\ beating' = FALSE
  /\ Client!Gone
  /\ UNCHANGED <<pipeline, row, login, abrupt>>

\* SIGINT or SIGTERM; the heartbeat's context is one of the run's.
Signal ==
  /\ Interrupt
  /\ beating' = FALSE
  /\ UNCHANGED <<place, row, login, connection, abrupt>>

Die ==
  /\ place \notin {"none"} \cup Over
  /\ Crash \/ (Crashes /\ phase = "ended" /\ UNCHANGED pipeline)
  /\ Goes("dead") /\ beating' = FALSE /\ abrupt' = TRUE
  /\ Client!Gone
  /\ UNCHANGED <<row, login>>

Background ==
  /\ Client!GoroutineStep
  /\ UNCHANGED <<pipeline, process, abrupt>>

-----------------------------------------------------------------------------
(* The command login.                                                      *)

\* IsSessionAuthorized.
Ask ==
  /\ place \in {"none"} \cup Over /\ login = "no"
  /\ login' = "asking"
  /\ Client!Connect
  /\ UNCHANGED <<pipeline, place, row, beating, abrupt>>

\* It is not: LoginWithCode or LoginWithQR.
SignIn ==
  /\ login = "asking"
  /\ login' = "signingIn"
  /\ Client!ConnectAgain
  /\ UNCHANGED <<pipeline, place, row, beating, abrupt>>

\* It was logged in, or is now, or failed.
LoginReturns ==
  /\ login \in {"asking", "signingIn"} /\ done
  /\ login' = "no"
  /\ Client!Gone
  /\ UNCHANGED <<pipeline, place, row, beating, abrupt>>

\* Nobody handles the signals: an interrupt ends the process where it is.
LoginKilled ==
  /\ login \in {"asking", "signingIn"} /\ (Interrupts \/ Crashes)
  /\ login' = "no" /\ abrupt' = TRUE
  /\ Client!Gone
  /\ UNCHANGED <<pipeline, place, row, beating>>

Login == Ask \/ SignIn \/ LoginReturns \/ LoginKilled

-----------------------------------------------------------------------------
\* The steps of the main goroutine.
Main ==
  \/ OpenQueue \/ OpenQueueFails \/ Register
  \/ Turn \/ WaitFails \/ ConnectFails \/ Connected \/ Rejected \/ Accepted
  \/ Resolution \/ Summary \/ Tell \/ CloseClient \/ Leave

RunNext ==
  \/ Open \/ Main \/ \E w \in Worker : Work(w)
  \/ Background \/ Lapse \/ Signal \/ Die \/ Login

RunSpec == RunInit /\ [][RunNext]_runVars

\* Every goroutine runs; dialing and the turn come to an end; the library
\* returns once its context is done.
RunFairSpec ==
  /\ RunSpec
  /\ WF_runVars(Main)
  /\ \A w \in Worker : WF_runVars(Work(w))
  /\ WF_runVars(Background /\ conn \in {"loading", "dialing"} /\ conn' # conn)
  /\ WF_runVars(Background /\ save = "writing" /\ save' # save)
  /\ WF_runVars(Background /\ Client!InnerDone /\ conn' # conn)

-----------------------------------------------------------------------------
(* Properties.                                                             *)

Place == {"none", "opening", "registering", "waiting", "connecting", "checking", "uploading",
          "closing", "leaving", "over", "dead"}
RowStatus == {"none", "waiting", "running", "stale", "finished", "failed", "canceled"}

ProcessOK == /\ place \in Place /\ row \in RowStatus
             /\ login \in {"no", "asking", "signingIn"}
             /\ beating \in BOOLEAN /\ abrupt \in BOOLEAN
             /\ Client!TypeOK

\* The queue and the pipeline agree on whose turn it is: files are posted only
\* while the row says running, and a live run that was not interrupted is not
\* taken for dead, wherever it is between registering and the end.
TurnHeld ==
  /\ (\E w \in Worker : pc[w] = "inflight") =>
       row = "running" \/ (row = "stale" /\ ctxErr = "canceled")
  /\ row = "stale" /\ place \notin Over => ctxErr = "canceled"

\* An interrupt came between NotifyContext and the INSERT: the run never was in
\* the queue, and has posted nothing.
NeverRegistered == row = "none" /\ exit = 2 /\ ctxErr = "canceled"

\* When a process has returned, interrupted or not, nobody waits for it: its row
\* is ended, unless it was interrupted before it had one, and says finished just
\* when the exit code is 0 and every file of the plan is in the chat.
ExitTellsRow ==
  place = "over" /\ database = "sound" =>
    /\ row \in {"finished", "failed", "canceled"} \/ NeverRegistered
    /\ row = "finished" <=> exit = 0
    /\ row = "finished" => \A a \in Albums : \A f \in FilesOf(Album[a]) : chat[f] > 0

\* The session file outlives every run and every login that ends in order: it is
\* torn only by a process that died or left a connection behind.
SessionKept == session = "torn" => save = "writing" \/ abrupt

\* RunUpload returns, whatever fails and whenever it is interrupted.
ProcessReturns == place \notin {"none"} \cup Over ~> place \in Over
=============================================================================
