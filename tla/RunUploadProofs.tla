--------------------------- MODULE RunUploadProofs ---------------------------
(***************************************************************************)
(* Proofs about RunUpload, for every plan, any number of workers and runs. *)
(* The process is a refinement of the pipeline, so that UploadProofs holds *)
(* of it; its own properties need what each place says about the phase of  *)
(* the pipeline (InPhase), the row (RowFits) and the connection (Released).*)
(***************************************************************************)
EXTENDS RunUpload, UploadProofs

-----------------------------------------------------------------------------
(* Refinement.                                                             *)

\* A step of the process is a step of the pipeline or none.
LEMMA ProcessStep == [RunNext]_runVars => [Next]_vars
<1> SUFFICES ASSUME [RunNext]_runVars PROVE [Next]_vars
  OBVIOUS
<1> USE DEF pipeline
<1>1. CASE Open
  BY <1>1 DEF Open, Next
<1>2. CASE WaitFails \/ ConnectFails \/ Rejected
  BY <1>2 DEF WaitFails, ConnectFails, Rejected, Next
<1>3. CASE Turn \/ Connected \/ Tell \/ CloseClient \/ Leave
  BY <1>3 DEF Turn, Connected, Tell, CloseClient, Leave
<1>11. CASE OpenQueue \/ OpenQueueFails \/ Register
  BY <1>11 DEF OpenQueue, OpenQueueFails, Register, Next
<1>4. CASE Accepted
  BY <1>4 DEF Accepted, Next
<1>5. CASE Resolution \/ Summary
  BY <1>5 DEF Resolution, Summary, Next
<1>6. ASSUME NEW w \in Worker, Work(w) PROVE Next
  BY <1>6 DEF Work, Next
<1>7. CASE Background \/ Lapse
  BY <1>7 DEF Background, Lapse
<1>8. CASE Signal \/ Die
  BY <1>8 DEF Signal, Die, Next
<1>9. CASE Login
  BY <1>9 DEF Login, Ask, SignIn, LoginReturns, LoginKilled
<1>10. CASE UNCHANGED runVars
  BY <1>10 DEF runVars
<1> QED
  BY <1>1, <1>2, <1>3, <1>4, <1>5, <1>6, <1>7, <1>8, <1>9, <1>10, <1>11 DEF RunNext, Main

\* RunUpload drives the pipeline by the rules of Upload (run.go:171): whatever
\* is proved of the pipeline holds in the process.
THEOREM ProcessRunsPipeline == RunSpec => Spec
<1>1. RunInit => Init
  BY DEF RunInit
<1> QED
  BY <1>1, ProcessStep, PTL DEF RunSpec, Spec

\* So do its promises: in the process, too, the checkpoint does not lie, no
\* run posts a file twice, and what is posted again has an excuse; ...
THEOREM ProcessPostsOnce ==
  ASSUME Partitioned
  PROVE  RunSpec => [](SentMeansPosted /\ PostedOncePerRun /\ RepostExcused)
BY SentOnlyAfterPost, PostedOnce, RepostsAreExcused, ProcessRunsPipeline, PTL

\* ... and when it resumes, a row that says sent stays.
THEOREM ProcessKeepsRows ==
  ASSUME Partitioned, Resume
  PROVE  RunSpec => SentIsFinal
BY SentStaysSent, ProcessRunsPipeline, PTL

-----------------------------------------------------------------------------
(* The session file.                                                       *)

\* A goroutine that has ended, or has not begun, does not write; the channel
\* done says that it has ended; a process leaves only what has ended, unless
\* it leaves in haste.
Released ==
  /\ done => conn = "ended"
  /\ conn \in {"none", "loading", "ended"} => save # "writing"
  /\ place \in {"none", "opening", "registering", "waiting"} \cup Over /\ login = "no" => conn = "none"
  /\ login # "no" => place \in {"none"} \cup Over
  /\ place = "leaving" => abrupt \/ conn \in {"none", "ended"}

SessionInv == Released /\ SessionKept

\* SessionInv is preserved: the caller lets go of the connection through done.
LEMMA SessionStep == SessionInv /\ [RunNext]_runVars => SessionInv'
<1> SUFFICES ASSUME SessionInv, [RunNext]_runVars PROVE SessionInv'
  OBVIOUS
<1> USE DEF SessionInv, Released, SessionKept, connection, process, Goes, Over
<1>1. CASE Open
  BY <1>1 DEF Open
<1>17. CASE OpenQueue \/ OpenQueueFails \/ Register
  BY <1>17 DEF OpenQueue, OpenQueueFails, Register
<1>2. CASE Turn
  BY <1>2 DEF Turn, Client!Connect
<1>3. CASE WaitFails
  BY <1>3 DEF WaitFails
<1>4. CASE ConnectFails
  BY <1>4 DEF ConnectFails, Client!ConnectEnds, Client!ConnectGivenUp, Client!PoolFails, Client!goroutine
<1>5. CASE Connected
  BY <1>5 DEF Connected, Client!ConnectReady, Client!goroutine
<1>6. CASE Rejected \/ Accepted \/ Resolution \/ Summary \/ Tell
  BY <1>6 DEF Rejected, Accepted, Resolution, Summary, Tell
<1>7. CASE CloseClient
  BY <1>7 DEF CloseClient, Client!Close, Client!CloseReturns, Client!goroutine
<1>8. CASE Leave
  BY <1>8 DEF Leave, Client!Gone
<1>9. ASSUME NEW w \in Worker, Work(w) PROVE SessionInv'
  BY <1>9 DEF Work
<1>10. CASE Background
  <2>1. UNCHANGED <<place, login, abrupt>>
    BY <1>10 DEF Background
  <2>2. CASE Client!LoadSession
    BY <2>1, <2>2 DEF Client!LoadSession, Client!RunReturns
  <2>3. CASE Client!Serve
    BY <2>1, <2>3 DEF Client!Serve
  <2>4. CASE Client!DialFails \/ Client!ServingEnds
    BY <2>1, <2>4 DEF Client!DialFails, Client!ServingEnds, Client!RunReturns
  <2>5. CASE Client!SaveBegins
    BY <2>1, <2>5 DEF Client!SaveBegins
  <2>6. CASE Client!SaveEnds
    BY <2>1, <2>6 DEF Client!SaveEnds
  <2> QED
    BY <1>10, <2>2, <2>3, <2>4, <2>5, <2>6 DEF Background, Client!GoroutineStep
<1>11. CASE Lapse \/ Signal
  BY <1>11 DEF Lapse, Signal
<1>12. CASE Die
  BY <1>12 DEF Die, Client!Gone
<1>13. CASE Ask
  BY <1>13 DEF Ask, Client!Connect
<1>14. CASE SignIn
  BY <1>14 DEF SignIn, Client!ConnectAgain
<1>15. CASE LoginReturns \/ LoginKilled
  BY <1>15 DEF LoginReturns, LoginKilled, Client!Gone
<1>16. CASE UNCHANGED runVars
  BY <1>16 DEF runVars
<1> QED
  BY <1>1, <1>2, <1>3, <1>4, <1>5, <1>6, <1>7, <1>8, <1>9, <1>10, <1>11, <1>12, <1>13, <1>14,
     <1>15, <1>16, <1>17
  DEF RunNext, Main, Login

\* Only a process that dies, or gives up while it connects, can tear the
\* session file (Close, gotd_client.go:124-144).
THEOREM SessionSurvives == RunSpec => []SessionKept
<1>1. RunInit => SessionInv
  <2> SUFFICES ASSUME RunInit PROVE SessionInv
    OBVIOUS
  <2>1. Released
    BY DEF RunInit, Client!Init, Released, Over
  <2>2. SessionKept
    BY Zenon DEF RunInit, SessionKept
  <2> QED
    BY <2>1, <2>2 DEF SessionInv
<1>2. SessionInv => SessionKept
  BY DEF SessionInv
<1> QED
  BY <1>1, <1>2, SessionStep, PTL DEF RunSpec

-----------------------------------------------------------------------------
(* The turn.                                                               *)

\* A worker's step is none of the process's.
LEMMA WorkerPhase ==
  ASSUME NEW w \in Worker, WorkerStep(w)
  PROVE  UNCHANGED <<phase, exit, policy, database, ctxErr, runs>>
BY DEF WorkerStep, TakeAlbum, NoMoreWork, Filter, AlbumEmpty, Precheck, Request, Post, SendOk,
   SendFails, ImageProcessFailed, MarkSent, AlbumSent, MarkFailed, AlbumFailed, control

\* What the place of the process says about the phase of the pipeline.
InPhase ==
  /\ place \in Place
  /\ place = "none" => phase = "none"
  /\ place \in {"opening", "registering", "waiting", "connecting", "checking"} => phase = "opened"
  /\ place = "uploading" => phase \in {"starting", "working", "ended"}
  /\ place \in {"closing", "leaving"} \cup Over => phase = "ended"

\* InPhase is preserved: the pipeline runs in one place only.
LEMMA PhaseStep == TypeOK /\ InPhase /\ [RunNext]_runVars => InPhase'
<1> SUFFICES ASSUME TypeOK, InPhase, [RunNext]_runVars PROVE InPhase'
  OBVIOUS
<1> USE DEF InPhase, Place, process, Goes, Over
<1>1. CASE Open
  BY <1>1 DEF Open, OpenStore
<1>14. CASE OpenQueue \/ OpenQueueFails \/ Register
  BY <1>14 DEF OpenQueue, OpenQueueFails, Register, GiveUp, pipeline, vars
<1>2. CASE Turn \/ Connected
  BY <1>2 DEF Turn, Connected, pipeline, vars
<1>3. CASE WaitFails \/ ConnectFails \/ Rejected
  BY <1>3 DEF WaitFails, ConnectFails, Rejected, GiveUp
<1>4. CASE Accepted
  BY <1>4 DEF Accepted, StartRun
<1>5. CASE Resolution
  BY <1>5 DEF Resolution, Resolve, ResolveFails
<1>6. CASE Summary
  BY <1>6 DEF Summary, Finish
<1>7. CASE Tell \/ CloseClient \/ Leave
  BY <1>7 DEF Tell, CloseClient, Leave, pipeline, vars
<1>8. ASSUME NEW w \in Worker, Work(w) PROVE InPhase'
  <2>1. UNCHANGED <<phase, place>>
    BY <1>8, WorkerPhase DEF Work
  <2> QED
    BY <2>1
<1>9. CASE Background \/ Lapse
  BY <1>9 DEF Background, Lapse, pipeline, vars
<1>10. CASE Signal
  BY <1>10 DEF Signal, Interrupt
<1>11. CASE Die
  BY <1>11 DEF Die, Crash, pipeline, vars
<1>12. CASE Login
  BY <1>12 DEF Login, Ask, SignIn, LoginReturns, LoginKilled, pipeline, vars
<1>13. CASE UNCHANGED runVars
  BY <1>13 DEF runVars, pipeline, vars
<1> QED
  BY <1>1, <1>2, <1>3, <1>4, <1>5, <1>6, <1>7, <1>8, <1>9, <1>10, <1>11, <1>12, <1>13, <1>14
  DEF RunNext, Main

\* Outside the pipeline's own phase no worker is left.
Quiet == phase # "working" => AllExited

\* Quiet is preserved: wg.Wait comes before the end.
LEMMA QuietStep == TypeOK /\ Quiet /\ [Next]_vars => Quiet'
<1> SUFFICES ASSUME TypeOK, Quiet, [Next]_vars PROVE Quiet'
  OBVIOUS
<1> USE DEF Quiet, AllExited
<1>1. CASE OpenStore \/ GiveUp \/ StartRun \/ ResolveFails \/ Finish \/ Interrupt
  BY <1>1 DEF OpenStore, GiveUp, StartRun, ResolveFails, Finish, Interrupt
<1>2. CASE Resolve \/ Crash
  BY <1>2 DEF Resolve, Crash
<1>3. ASSUME NEW w \in Worker, WorkerStep(w) PROVE Quiet'
  <2>1. phase = "working"
    <3>1. pc[w] # "exited"
      BY <1>3 DEF WorkerStep, TakeAlbum, NoMoreWork, Filter, AlbumEmpty, Precheck, Request, Post,
         SendOk, SendFails, ImageProcessFailed, MarkSent, AlbumSent, MarkFailed, AlbumFailed
    <3> QED
      BY <3>1
  <2> QED
    BY <1>3, <2>1, WorkerPhase
<1>4. CASE UNCHANGED vars
  BY <1>4 DEF vars
<1> QED
  BY <1>1, <1>2, <1>3, <1>4 DEF Next

\* What the place of the process says about its row, and that an unbeaten row
\* is that of an interrupted run.
RowFits ==
  /\ place \in {"none", "opening", "registering"} => row = "none"
  /\ place = "waiting" => row \in {"waiting", "stale"}
  /\ place \in {"connecting", "checking", "uploading"} => row \in {"running", "stale"}
  /\ place = "registering" \/ (place \notin Over /\ row # "none") => beating \/ ctxErr = "canceled"
  /\ row = "stale" /\ place \notin Over => ctxErr = "canceled"

\* The end of a row: what is written, or nothing.
LEMMA RowEnds ==
  ASSUME NEW status, EndRow(status)
  PROVE  row' = status \/ row' = row
BY DEF EndRow

\* RowFits is preserved: the heartbeat starts with the row and ends with the run.
LEMMA RowStep == TypeOK /\ RowFits /\ [RunNext]_runVars => RowFits'
<1> SUFFICES ASSUME TypeOK, RowFits, [RunNext]_runVars PROVE RowFits'
  OBVIOUS
<1> USE DEF RowFits, process, Goes, Over
<1>1. CASE Open
  BY <1>1 DEF Open
<1>16. CASE OpenQueue
  <2>1. beating' \/ ctxErr' = "canceled"
    BY <1>16 DEF OpenQueue, pipeline, vars, TypeOK, ValuesOK
  <2> QED
    BY <1>16, <2>1 DEF OpenQueue
<1>18. CASE Register
  BY <1>18 DEF Register, pipeline, vars
<1>17. CASE OpenQueueFails
  BY <1>17 DEF OpenQueueFails, GiveUp
<1>2. CASE Turn \/ Connected
  BY <1>2 DEF Turn, Connected, pipeline, vars
<1>3. CASE WaitFails
  BY <1>3, RowEnds DEF WaitFails, GiveUp
<1>4. CASE ConnectFails
  BY <1>4, RowEnds DEF ConnectFails, GiveUp
<1>5. CASE Rejected
  BY <1>5, RowEnds DEF Rejected, GiveUp
<1>6. CASE Accepted
  BY <1>6 DEF Accepted, StartRun
<1>7. CASE Resolution \/ Summary
  BY <1>7 DEF Resolution, Resolve, ResolveFails, Summary, Finish
<1>8. CASE Tell
  <2>1. Status # "stale"
    BY DEF Status
  <2> QED
    BY <1>8, <2>1, RowEnds DEF Tell, pipeline, vars
<1>9. CASE CloseClient \/ Leave
  BY <1>9 DEF CloseClient, Leave, pipeline, vars
<1>10. ASSUME NEW w \in Worker, Work(w) PROVE RowFits'
  <2>1. UNCHANGED <<ctxErr, place, row, beating>>
    BY <1>10, WorkerPhase DEF Work
  <2> QED
    BY <2>1
<1>11. CASE Background \/ Lapse
  BY <1>11 DEF Background, Lapse, pipeline, vars
<1>12. CASE Signal
  BY <1>12 DEF Signal, Interrupt
<1>13. CASE Die
  BY <1>13 DEF Die
<1>14. CASE Login
  BY <1>14 DEF Login, Ask, SignIn, LoginReturns, LoginKilled, pipeline, vars
<1>15. CASE UNCHANGED runVars
  BY <1>15 DEF runVars, pipeline, vars
<1> QED
  BY <1>1, <1>2, <1>3, <1>4, <1>5, <1>6, <1>7, <1>8, <1>9, <1>10, <1>11, <1>12, <1>13, <1>14, <1>15,
     <1>16, <1>17, <1>18
  DEF RunNext, Main

\* Files are posted only while the row says running, and a run that was not
\* interrupted is not taken for dead (StartHeartbeat before WaitUntilTurn, run.go:127-133).
THEOREM UploadsInItsTurn == RunSpec => []TurnHeld
<1>1. RunInit => InPhase /\ RowFits
  BY DEF RunInit, Init, InPhase, Place, RowFits, Over
<1>2. Init => Quiet
  BY DEF Init, Quiet, AllExited
<1>3. InPhase /\ RowFits /\ Quiet => TurnHeld
  <2> SUFFICES ASSUME InPhase, RowFits, Quiet PROVE TurnHeld
    OBVIOUS
  <2>1. ASSUME NEW w \in Worker, pc[w] = "inflight" PROVE place = "uploading"
    BY <2>1 DEF Quiet, AllExited, InPhase, Place, Over
  <2> QED
    BY <2>1 DEF TurnHeld, RowFits, Over
<1> QED
  BY <1>1, <1>2, <1>3, TypeCorrect, ProcessRunsPipeline, PhaseStep, QuietStep, ProcessStep, RowStep,
     PTL DEF RunSpec, Spec

-----------------------------------------------------------------------------
(* The end.                                                                *)

\* Only a run that has ended has an exit code; it is 0 of no interrupted one.
ExitKnown ==
  /\ phase \in {"opened", "starting", "working"} => exit = -1
  /\ phase = "ended" /\ exit = 0 => ~canceled

\* A worker works in the pipeline's own phase.
LEMMA WorkerWorks ==
  ASSUME Quiet, NEW w \in Worker, WorkerStep(w)
  PROVE  phase = "working"
<1>1. pc[w] # "exited"
  BY DEF WorkerStep, TakeAlbum, NoMoreWork, Filter, AlbumEmpty, Precheck, Request, Post, SendOk,
     SendFails, ImageProcessFailed, MarkSent, AlbumSent, MarkFailed, AlbumFailed
<1> QED
  BY <1>1 DEF Quiet, AllExited

\* ExitKnown is preserved: the code is made from what the workers saw.
LEMMA ExitStep == Quiet /\ ExitKnown /\ [Next]_vars => ExitKnown'
<1> SUFFICES ASSUME Quiet, ExitKnown, [Next]_vars PROVE ExitKnown'
  OBVIOUS
<1> USE DEF ExitKnown
<1>1. CASE OpenStore \/ GiveUp \/ StartRun \/ ResolveFails \/ Interrupt
  BY <1>1 DEF OpenStore, GiveUp, StartRun, ResolveFails, Interrupt
<1>2. CASE Resolve \/ Crash
  BY <1>2 DEF Resolve, Crash
<1>3. CASE Finish
  BY <1>3 DEF Finish
<1>4. ASSUME NEW w \in Worker, WorkerStep(w) PROVE ExitKnown'
  BY <1>4, WorkerPhase, WorkerWorks
<1>5. CASE UNCHANGED vars
  BY <1>5 DEF vars
<1> QED
  BY <1>1, <1>2, <1>3, <1>4, <1>5 DEF Next

\* What the row says once the main goroutine knows how the run ended.
RowTold ==
  place \in {"closing", "leaving", "over"} /\ database = "sound" =>
    /\ row \in {"finished", "failed", "canceled"} \/ NeverRegistered
    /\ row = "finished" <=> exit = 0

\* With a sound database the row of a run is ended as it should be.
LEMMA RowEnded ==
  ASSUME NEW status, EndRow(status), row # "none", database = "sound"
  PROVE  row' = status
BY DEF EndRow

\* RowTold is preserved: every way to the end passes by Finish of the queue.
LEMMA ToldStep ==
  InPhase /\ RowFits /\ Quiet /\ ExitKnown /\ RowTold /\ [RunNext]_runVars => RowTold'
<1> SUFFICES ASSUME InPhase, RowFits, Quiet, ExitKnown, RowTold, [RunNext]_runVars
             PROVE  RowTold'
  OBVIOUS
<1> USE DEF RowTold, NeverRegistered, process, Goes
<1>1. CASE Open
  BY <1>1 DEF Open
<1>17. CASE OpenQueue \/ Register
  BY <1>17 DEF OpenQueue, Register
<1>18. CASE OpenQueueFails
  BY <1>18 DEF OpenQueueFails, GiveUp
<1>2. CASE Turn \/ Connected
  BY <1>2 DEF Turn, Connected
<1>3. CASE WaitFails
  <2>1. exit' = 2 /\ UNCHANGED <<database, ctxErr>> /\ place' = "leaving"
    BY <1>3 DEF WaitFails, GiveUp
  <2>2. ASSUME database = "sound" PROVE row' = "canceled" \/ NeverRegistered'
    <3>1. ctxErr = "canceled" /\ EndRow("canceled")
      BY <1>3, <2>2 DEF WaitFails
    <3>2. CASE row = "none"
      BY <2>1, <2>2, <3>1, <3>2 DEF EndRow
    <3>3. CASE row # "none"
      BY <2>2, <3>1, <3>3, RowEnded
    <3> QED
      BY <3>2, <3>3
  <2> QED
    BY <2>1, <2>2
<1>4. CASE ConnectFails
  BY <1>4, RowEnded DEF ConnectFails, GiveUp, RowFits
<1>5. CASE Rejected
  BY <1>5, RowEnded DEF Rejected, GiveUp, RowFits
<1>6. CASE Accepted
  BY <1>6 DEF Accepted
<1>7. CASE Resolution \/ Summary
  BY <1>7 DEF Resolution, Summary
<1>8. CASE Tell
  <2>1. Status \in {"finished", "failed", "canceled"} /\ (Status = "finished" <=> exit = 0)
    BY <1>8 DEF Tell, Status, ExitKnown
  <2>2. UNCHANGED <<exit, database>> /\ place' = "closing"
    BY <1>8 DEF Tell, pipeline, vars
  <2>3. database = "sound" => row' = Status
    BY <1>8, RowEnded DEF Tell, RowFits
  <2> QED
    BY <2>1, <2>2, <2>3
<1>9. CASE CloseClient \/ Leave
  BY <1>9 DEF CloseClient, Leave, pipeline, vars
<1>10. ASSUME NEW w \in Worker, Work(w) PROVE RowTold'
  BY <1>10, WorkerPhase DEF Work
<1>11. CASE Background
  BY <1>11 DEF Background, pipeline, vars
<1>12. CASE Lapse
  BY <1>12 DEF Lapse, pipeline, vars
<1>13. CASE Signal
  BY <1>13 DEF Signal, Interrupt
<1>14. CASE Die
  BY <1>14 DEF Die
<1>15. CASE Login
  BY <1>15 DEF Login, Ask, SignIn, LoginReturns, LoginKilled, pipeline, vars
<1>16. CASE UNCHANGED runVars
  BY <1>16 DEF runVars, pipeline, vars
<1> QED
  BY <1>1, <1>2, <1>3, <1>4, <1>5, <1>6, <1>7, <1>8, <1>9, <1>10, <1>11, <1>12, <1>13, <1>14,
     <1>15, <1>16, <1>17, <1>18
  DEF RunNext, Main

\* Of a process that has returned the row is ended, unless an interrupt came
\* before it was written, and says finished just when the exit code is 0 and
\* the plan is in the chat (run.go:110-228).
THEOREM RowTellsEnd == RunSpec => []ExitTellsRow
<1>1. RunInit => InPhase /\ RowFits /\ RowTold
  BY DEF RunInit, Init, InPhase, Place, RowFits, RowTold, Over
<1>2. Init => Quiet /\ ExitKnown
  BY DEF Init, Quiet, AllExited, ExitKnown
<1>3. RowTold /\ SuccessMeansDelivered => ExitTellsRow
  BY DEF RowTold, NeverRegistered, SuccessMeansDelivered, ExitTellsRow
<1> QED
  BY <1>1, <1>2, <1>3, TypeCorrect, SuccessDelivers, ProcessRunsPipeline, ProcessStep, PhaseStep,
     QuietStep, ExitStep, RowStep, ToldStep, PTL DEF RunSpec, Spec
=============================================================================
