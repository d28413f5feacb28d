------------------------------- MODULE Upload -------------------------------
(***************************************************************************)
(* The upload pipeline, internal/upload/run.go, over the rows of uploads   *)
(* in internal/state/sqlite_store.go, run after run on one state database: *)
(* workers take albums from a channel, filter out what is recorded as      *)
(* sent, send the rest as one Telegram request and record each file.       *)
(* Before that a run may be told to delete old rows (ApplyMaintenance).    *)
(*                                                                         *)
(* The chat is what the server has posted.  A request may fail before it   *)
(* is executed, or after (its answer is lost); the user may interrupt a    *)
(* run, which cancels the context every call goes through; the process may *)
(* die; the state database may fail a call.                                *)
(***************************************************************************)
EXTENDS Integers, FiniteSets, Sequences, SequencesExt

CONSTANTS
  File, Worker,
  Album,           \* the plan: a sequence of sequences of files
  BadVideo,        \* files whose metadata violates the precheck
  Target,          \* the kind of upload.target: "me", "username" or "number"
  CleanupNow,      \* the values of --cleanup-now a run may be given
  KeepFailed,      \* the values of retention_failed_days > 0
  Resume,          \* upload.resume
  Policies,        \* the duplicate policies a run may be given
  StrictMetadata,  \* upload.strict_metadata
  ImageMode,       \* "auto", "photo" or "document"
  Interrupts,      \* BOOLEAN: SIGINT and SIGTERM arrive
  Crashes,         \* BOOLEAN: the process may die
  StoreFaults,     \* the values of database
  MaxRuns          \* bound: runs

Albums == 1 .. Len(Album)
FilesOf(s) == ToSet(s)

ASSUME UploadAssumption ==
  /\ IsFiniteSet(File) /\ IsFiniteSet(Worker) /\ Worker # {}
  /\ Album \in Seq(Seq(File)) /\ Album # << >>
  /\ \A a \in Albums : Album[a] # << >>
  /\ BadVideo \subseteq File
  /\ Target \in {"me", "username", "number"}
  /\ CleanupNow \subseteq BOOLEAN /\ KeepFailed \subseteq BOOLEAN
  /\ Policies \subseteq {"skip", "ask", "upload"}
  /\ Resume \in BOOLEAN /\ StrictMetadata \in BOOLEAN
  /\ Interrupts \in BOOLEAN /\ Crashes \in BOOLEAN /\ StoreFaults \subseteq {"sound", "faulty"}
  /\ MaxRuns \in Nat

VARIABLES
  phase,     \* of the process: "none", "opened" (the database), "starting"
             \* (upload.Run), "working", "ended"
  exit,      \* exit code of the last run (-1: it has none)
  policy,    \* its duplicate policy
  database,  \* "sound" or "faulty": whether its calls may fail in the run
  canceled,  \* whether a worker saw the cancellation
  ctxErr,    \* ctx.Err() of the run: "nil" or "canceled"
  work,      \* the channel of albums
  pc,        \* where each worker is
  files,     \* for each worker, the files of its album that are to be sent
  todo,      \* for each worker, the files its loop has not come to
  document,  \* forceDocument
  sentFiles, failedFiles, skippedFiles,
  uploads,   \* the status of each file's row
  chat,      \* how often each file was posted
  postedNow, \* history: the files posted in this run, in order
  excused,   \* history: files that were posted and of which the next run
             \* cannot know, or which it is told to send again
  runs

control == <<phase, exit, policy, database, canceled, ctxErr, runs>>
counters == <<sentFiles, failedFiles, skippedFiles>>
server == <<chat, postedNow>>
vars == <<phase, exit, policy, database, canceled, ctxErr, work, pc, files, todo, document,
          sentFiles, failedFiles, skippedFiles, uploads, chat, postedNow, excused, runs>>

Init ==
  /\ phase = "none" /\ exit = -1 /\ policy = "skip" /\ database = "sound"
  /\ canceled = FALSE /\ ctxErr = "nil"
  /\ work = << >>
  /\ pc = [w \in Worker |-> "exited"]
  /\ files = [w \in Worker |-> << >>] /\ todo = [w \in Worker |-> << >>]
  /\ document = [w \in Worker |-> FALSE]
  /\ sentFiles = 0 /\ failedFiles = 0 /\ skippedFiles = 0
  /\ uploads = [f \in File |-> "none"]
  /\ chat = [f \in File |-> 0] /\ postedNow = << >> /\ excused = {}
  /\ runs = 0

-----------------------------------------------------------------------------
(* The run.                                                                *)

\* Mutant: the retention options change places.
ExpiredInverted(old, keepFailed) ==
  {f \in old : uploads[f] = "failed" \/ (keepFailed /\ uploads[f] = "sent")}

\* The rows maintenance deletes, of those not written for retention_sent_days:
\* with a retention of failed rows it spares the ones that say sent.
Expired(old, keepFailed) ==
  {f \in old : uploads[f] = "failed" \/ (~keepFailed /\ uploads[f] = "sent")}

\* ApplyMaintenance deletes with --cleanup-now only; without it, it counts.
\* One that is refused (no retention) or fails is one that finds nothing old.
Maintained(now, keepFailed, old) ==
  [f \in File |-> IF now /\ f \in Expired(old, keepFailed) THEN "none" ELSE uploads[f]]

\* A process begins, with no interrupt yet: the database is opened and tidied.
OpenStore ==
  /\ phase \in {"none", "ended"} /\ runs < MaxRuns
  /\ runs' = runs + 1
  /\ phase' = "opened" /\ exit' = -1
  /\ policy' \in Policies /\ database' \in StoreFaults /\ ctxErr' = "nil"
  /\ \E now \in CleanupNow, keepFailed \in KeepFailed, old \in SUBSET File :
       /\ uploads' = Maintained(now, keepFailed, old)
       /\ excused' = IF now /\ ~keepFailed
                     THEN excused \cup {f \in old : uploads[f] = "sent"} ELSE excused
  /\ UNCHANGED <<canceled, work, pc, files, todo, document, counters, server>>

\* It gets no turn, no connection or is not logged in.
GiveUp ==
  /\ phase = "opened"
  /\ phase' = "ended" /\ exit' = 2
  /\ UNCHANGED <<policy, database, canceled, ctxErr, runs, work, pc, files, todo, document,
                 counters, uploads, server, excused>>

\* upload.Run begins; the context may be cancelled by now.
StartRun ==
  /\ phase = "opened"
  /\ phase' = "starting"
  /\ canceled' = FALSE
  /\ sentFiles' = 0 /\ failedFiles' = 0 /\ skippedFiles' = 0
  /\ postedNow' = << >>
  /\ UNCHANGED <<exit, policy, database, ctxErr, runs, work, pc, files, todo, document, uploads,
                 chat, excused>>

\* ResolveTarget: a numeric target needs no request.
Resolves == Target = "number" \/ ctxErr = "nil"

\* Mutant: the albums are counted from zero.
ResolveFromZero ==
  /\ phase = "starting" /\ Resolves
  /\ phase' = "working"
  /\ work' = [a \in Albums |-> a - 1]
  /\ pc' = [w \in Worker |-> "take"]
  /\ UNCHANGED <<exit, policy, database, canceled, ctxErr, runs, files, todo, document, counters,
                 uploads, server, excused>>

\* The target is resolved and the workers start, at most one per album.
Resolve ==
  /\ phase = "starting" /\ Resolves
  /\ phase' = "working"
  /\ work' = [a \in Albums |-> a]
  /\ \E some \in SUBSET Worker :
       /\ Cardinality(some) =
            IF Cardinality(Worker) > Len(Album) THEN Len(Album) ELSE Cardinality(Worker)
       /\ pc' = [w \in Worker |-> IF w \in some THEN "take" ELSE "exited"]
  /\ UNCHANGED <<exit, policy, database, canceled, ctxErr, runs, files, todo, document, counters,
                 uploads, server, excused>>

\* It cannot be resolved: the run is fatal.
ResolveFails ==
  /\ phase = "starting" /\ Target # "number"
  /\ phase' = "ended" /\ exit' = 2
  /\ UNCHANGED <<policy, database, canceled, ctxErr, runs, work, pc, files, todo, document,
                 counters, uploads, server, excused>>

AllExited == \A w \in Worker : pc[w] = "exited"

\* wg.Wait returns: the summary, and the exit code made from it.
Finish ==
  /\ phase = "working" /\ AllExited
  /\ phase' = "ended"
  /\ canceled' = (canceled \/ ctxErr = "canceled")
  /\ exit' = IF canceled' \/ failedFiles > 0 THEN 1 ELSE 0
  /\ work' = << >>
  /\ UNCHANGED <<policy, database, ctxErr, runs, pc, files, todo, document, counters, uploads,
                 server, excused>>

Interrupt ==
  /\ Interrupts /\ phase \in {"opened", "starting", "working"} /\ ctxErr = "nil"
  /\ ctxErr' = "canceled"
  /\ UNCHANGED <<phase, exit, policy, database, canceled, runs, work, pc, files, todo, document,
                 counters, uploads, server, excused>>

\* Files of worker w that are posted and not recorded.
Unrecorded(w) == CASE pc[w] = "posted" -> FilesOf(files[w])
                   [] pc[w] = "markSent" -> FilesOf(todo[w])
                   [] OTHER -> {}

\* The process dies, and with it everything but the database and the chat.
Crash ==
  /\ Crashes /\ phase \in {"opened", "starting", "working"}
  /\ phase' = "ended" /\ exit' = -1
  /\ excused' = excused \cup UNION {Unrecorded(w) : w \in Worker}
  /\ work' = << >>
  /\ pc' = [w \in Worker |-> "exited"]
  /\ files' = [w \in Worker |-> << >>] /\ todo' = [w \in Worker |-> << >>]
  /\ UNCHANGED <<policy, database, canceled, ctxErr, runs, document, counters, uploads, server>>

-----------------------------------------------------------------------------
(* A worker.                                                               *)

Goto(w, label) == pc' = [pc EXCEPT ![w] = label]

\* The next album of the channel, dropped if the run is cancelled.
TakeAlbum(w) ==
  /\ pc[w] = "take" /\ work # << >>
  /\ work' = Tail(work)
  /\ files' = [files EXCEPT ![w] = << >>]
  /\ IF ctxErr = "canceled"
     THEN /\ canceled' = TRUE /\ Goto(w, "exited") /\ UNCHANGED todo
     ELSE /\ todo' = [todo EXCEPT ![w] = Album[Head(work)]]
          /\ Goto(w, "filter") /\ UNCHANGED canceled
  /\ UNCHANGED <<phase, exit, policy, database, ctxErr, runs, document, counters, uploads, server, excused>>

NoMoreWork(w) ==
  /\ pc[w] = "take" /\ work = << >>
  /\ Goto(w, "exited")
  /\ UNCHANGED <<control, work, files, todo, document, counters, uploads, server, excused>>

\* Mutant: a file that cannot be looked up counts as done.
IsDoneOrUnknown(f, answer) ==
  \/ answer = "done" /\ (database = "faulty" \/ ctxErr = "canceled" \/ uploads[f] = "sent")
  \/ answer = "pending" /\ ctxErr = "nil" /\ uploads[f] # "sent"

\* Mutant: the key of the lookup is never the key of the record.
IsDoneNever(f, answer) == answer = "pending"

\* IsDone(f) of the state store: an error is certain once the context is done.
IsDone(f, answer) ==
  \/ answer = "error" /\ (database = "faulty" \/ ctxErr = "canceled")
  \/ answer = "done" /\ ctxErr = "nil" /\ uploads[f] = "sent"
  \/ answer = "pending" /\ ctxErr = "nil" /\ uploads[f] # "sent"

\* One file of the resume filter: what cannot be looked up is sent.
Filter(w) ==
  /\ pc[w] = "filter" /\ todo[w] # << >>
  /\ todo' = [todo EXCEPT ![w] = Tail(@)]
  /\ LET f == Head(todo[w]) IN
       \E answer \in {"error", "done", "pending"} :
         /\ IF Resume THEN IsDone(f, answer) ELSE answer = "pending"
         /\ IF answer = "done" /\ policy # "upload"
            THEN skippedFiles' = skippedFiles + 1 /\ UNCHANGED <<files, excused>>
            ELSE /\ files' = [files EXCEPT ![w] = Append(@, f)]
                 /\ excused' = IF Resume /\ answer = "pending" THEN excused ELSE excused \cup {f}
                 /\ UNCHANGED skippedFiles
  /\ UNCHANGED <<control, work, pc, document, sentFiles, failedFiles, uploads, server>>

\* Nothing is left of the album: it counts as done.
AlbumEmpty(w) ==
  /\ pc[w] = "filter" /\ todo[w] = << >> /\ files[w] = << >>
  /\ Goto(w, "take")
  /\ UNCHANGED <<control, work, files, todo, document, counters, uploads, server, excused>>

\* PrecheckAlbum, and the format the request starts with.  A probe that fails
\* is no violation: the bad files that are seen may be fewer.
Precheck(w) ==
  /\ pc[w] = "filter" /\ todo[w] = << >> /\ files[w] # << >>
  /\ \/ /\ StrictMetadata /\ FilesOf(files[w]) \cap BadVideo # {}
        /\ Goto(w, "markFailed") /\ todo' = [todo EXCEPT ![w] = files[w]]
     \/ Goto(w, "send") /\ UNCHANGED todo
  /\ document' = [document EXCEPT ![w] = (ImageMode = "document")]
  /\ UNCHANGED <<control, work, files, counters, uploads, server, excused>>

\* sendAlbumOnce begins; with a cancelled context it fails at once.
Request(w) ==
  /\ pc[w] = "send"
  /\ IF ctxErr = "canceled"
     THEN Goto(w, "markFailed") /\ todo' = [todo EXCEPT ![w] = files[w]]
     ELSE Goto(w, "inflight") /\ UNCHANGED todo
  /\ UNCHANGED <<control, work, files, document, counters, uploads, server, excused>>

\* The server posts the album, all of it.
Post(w) ==
  /\ pc[w] = "inflight"
  /\ chat' = [f \in File |-> IF f \in FilesOf(files[w]) THEN chat[f] + 1 ELSE chat[f]]
  /\ postedNow' = postedNow \o files[w]
  /\ Goto(w, "posted")
  /\ UNCHANGED <<control, work, files, todo, document, counters, uploads, excused>>

\* The request succeeds.
SendOk(w) ==
  /\ pc[w] = "posted"
  /\ Goto(w, "markSent")
  /\ todo' = [todo EXCEPT ![w] = files[w]]
  /\ UNCHANGED <<control, work, files, document, counters, uploads, server, excused>>

\* Mutant: the error of the request is not looked at.
SendFailsUnseen(w) ==
  /\ pc[w] \in {"inflight", "posted"}
  /\ Goto(w, "markSent")
  /\ todo' = [todo EXCEPT ![w] = files[w]]
  /\ UNCHANGED <<control, work, files, document, counters, uploads, server, excused>>

\* Mutant: any failure is tried again as a document.
SendFailsAgain(w) ==
  /\ pc[w] \in {"inflight", "posted"}
  /\ excused' = excused \cup Unrecorded(w)
  /\ IF ImageMode = "auto" /\ ~document[w]
     THEN /\ document' = [document EXCEPT ![w] = TRUE]
          /\ Goto(w, "send") /\ UNCHANGED todo
     ELSE /\ Goto(w, "markFailed") /\ todo' = [todo EXCEPT ![w] = files[w]]
          /\ UNCHANGED document
  /\ UNCHANGED <<control, work, files, counters, uploads, server>>

\* The request fails for good, before or after the server posted.
SendFails(w) ==
  /\ pc[w] \in {"inflight", "posted"}
  /\ excused' = excused \cup Unrecorded(w)
  /\ Goto(w, "markFailed")
  /\ todo' = [todo EXCEPT ![w] = files[w]]
  /\ UNCHANGED <<control, work, files, document, counters, uploads, server>>

\* IMAGE_PROCESS_FAILED: in mode "auto" the album is sent once more, as documents.
ImageProcessFailed(w) ==
  /\ pc[w] = "inflight" /\ ImageMode = "auto" /\ ~document[w]
  /\ document' = [document EXCEPT ![w] = TRUE]
  /\ Goto(w, "send")
  /\ UNCHANGED <<control, work, files, todo, counters, uploads, server, excused>>

\* Mutant: MarkFailed and MarkSent go through a context of their own.
StoreAnyway(f, status) == uploads' = [uploads EXCEPT ![f] = status]

\* A write to the state store: without effect once the context is done.
Store(f, status) ==
  \/ ctxErr = "nil" /\ uploads' = [uploads EXCEPT ![f] = status]
  \/ (database = "faulty" \/ ctxErr = "canceled") /\ UNCHANGED uploads

\* markSent of one file; its error is ignored.
MarkSent(w) ==
  /\ pc[w] = "markSent" /\ todo[w] # << >>
  /\ Store(Head(todo[w]), "sent")
  /\ excused' = IF uploads'[Head(todo[w])] # "sent"
                THEN excused \cup {Head(todo[w])} ELSE excused
  /\ todo' = [todo EXCEPT ![w] = Tail(@)]
  /\ UNCHANGED <<control, work, pc, files, document, counters, server>>

\* All files of the album went through markSent.
AlbumSent(w) ==
  /\ pc[w] = "markSent" /\ todo[w] = << >>
  /\ sentFiles' = sentFiles + Len(files[w])
  /\ Goto(w, "take")
  /\ UNCHANGED <<control, work, files, todo, document, failedFiles, skippedFiles,
                 uploads, server, excused>>

\* markFailed of one file; its error is ignored, too.
MarkFailed(w) ==
  /\ pc[w] = "markFailed" /\ todo[w] # << >>
  /\ Store(Head(todo[w]), "failed")
  /\ todo' = [todo EXCEPT ![w] = Tail(@)]
  /\ UNCHANGED <<control, work, pc, files, document, counters, server, excused>>

AlbumFailed(w) ==
  /\ pc[w] = "markFailed" /\ todo[w] = << >>
  /\ failedFiles' = failedFiles + Len(files[w])
  /\ Goto(w, "take")
  /\ UNCHANGED <<control, work, files, todo, document, sentFiles, skippedFiles,
                 uploads, server, excused>>

-----------------------------------------------------------------------------
WorkerStep(w) ==
  \/ TakeAlbum(w) \/ NoMoreWork(w)
  \/ Filter(w) \/ AlbumEmpty(w) \/ Precheck(w)
  \/ Request(w) \/ Post(w) \/ SendOk(w) \/ SendFails(w) \/ ImageProcessFailed(w)
  \/ MarkSent(w) \/ AlbumSent(w) \/ MarkFailed(w) \/ AlbumFailed(w)

Next ==
  \/ OpenStore \/ GiveUp \/ StartRun \/ Resolve \/ ResolveFails \/ Finish
  \/ Interrupt \/ Crash
  \/ \E w \in Worker : WorkerStep(w)

Spec == Init /\ [][Next]_vars

-----------------------------------------------------------------------------
(* Properties.                                                             *)

Pc == {"exited", "take", "filter", "send", "inflight", "posted", "markSent", "markFailed"}

ValuesOK ==
  /\ phase \in {"none", "opened", "starting", "working", "ended"} /\ exit \in {-1, 0, 1, 2}
  /\ policy \in {"skip", "ask", "upload"} /\ database \in {"sound", "faulty"}
  /\ ctxErr \in {"nil", "canceled"}
  /\ work \in Seq(Albums)
  /\ pc \in [Worker -> Pc]
  /\ files \in [Worker -> Seq(File)] /\ todo \in [Worker -> Seq(File)]
  /\ document \in [Worker -> BOOLEAN]
  /\ sentFiles \in Nat /\ failedFiles \in Nat /\ skippedFiles \in Nat
  /\ uploads \in [File -> {"none", "sent", "failed"}]
  /\ chat \in [File -> Nat] /\ postedNow \in Seq(File) /\ excused \subseteq File
  /\ runs \in 0 .. MaxRuns

TypeOK == canceled \in BOOLEAN /\ ValuesOK

\* The checkpoint never claims more than was done: a file whose row says
\* 'sent' is in the chat, whatever was interrupted, lost or failed.
SentMeansPosted == \A f \in File : uploads[f] = "sent" => chat[f] > 0

\* A run that exits with 0 leaves no file of the plan out of the chat.
SuccessMeansDelivered ==
  exit = 0 => \A a \in Albums : \A f \in FilesOf(Album[a]) : chat[f] > 0

\* No run posts a file twice, in spite of the second try as a document.
PostedOncePerRun == \A i, j \in 1 .. Len(postedNow) : i # j => postedNow[i] # postedNow[j]

\* A file is in the chat twice only if the pipeline could not know better: the
\* answer, the record or the process was lost, the row could not be read, or
\* the policy is to upload duplicates.
RepostExcused == \A f \in File : chat[f] > 1 => f \in excused

\* What is recorded as sent stays so.  In a run only the policy "upload" or a
\* failing database may undo it: cancelling a run does not make its failing
\* calls overwrite the row.  Before the run only maintenance does, and only of
\* a user who keeps no failed rows: retention_failed_days > 0 keeps the record
\* of every file that was sent.
SentIsFinal ==
  [][\A f \in File : uploads[f] = "sent" /\ uploads'[f] # "sent" =>
       IF phase = "working" THEN policy = "upload" \/ database = "faulty"
       ELSE f \in excused']_vars
=============================================================================
