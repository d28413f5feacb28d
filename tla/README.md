# Verification of tgup

`tgup` uploads directories of photos and videos to Telegram. It finds the
files, groups them into albums, waits for its turn among other `tgup`
processes, sends the albums through a client with several retry layers, and
keeps a checkpoint so that a later run does not send a file again. An MCP
server offers the same to programs, as jobs with an event stream.

This directory holds TLA+ models of the concurrent and stateful parts, the TLC
runs that check them on small instances, and TLAPS proofs of the properties
that matter most. Paths below are relative to the repository.

## 1. The system

| component | source | state | operations |
| --- | --- | --- | --- |
| configuration | `internal/config` | none | read files and environment, merge layers, validate |
| discovery | `internal/scan` | sets of directories and files seen | walk the sources, follow links, filter |
| planner | `internal/plan` | none | sort, group, cut into albums |
| run queue | `internal/queue`, driven by `internal/app/run.go` | table `run_queue`, shared by processes; one heartbeat goroutine per process | register, sweep stale rows, count the runs ahead, take the turn, heartbeat, finish |
| upload pipeline | `internal/upload` | a channel of albums, workers, counters | resume filter, precheck, send, fall back to document, postcheck, mark |
| state store | `internal/state` | table `uploads`, keyed by path, size and mtime | mark sent, mark failed, is done, maintenance |
| photo compression | `internal/media/image.go` | temporary files | scale modes, search for the best quality, clean up |
| Telegram client | `internal/tg` | connection, session file, pool, peer cache | connect, close, retry layers, send single, send album |
| commands run and login | `internal/app` | the row of the run, the files they open | see below |
| job service | `internal/mcp/sqlite_jobs.go` | table `mcp_jobs`, cancel functions, waiters, semaphore | start, run, cancel, wait, list |
| event store and stream | `internal/mcp/sqlite_events.go`, `sse.go` | table `mcp_events`, subscriber channels | append, list, register, clean up, replay after reconnect |
| tool server | `internal/mcp/server.go`, `handlers.go`, `http.go`, `bridge.go` | open connections | JSON-RPC dispatch, check of the allowed roots |
| media probes | `internal/media` | none | ffprobe, container parsing, thumbnails |
| command line, reports, logs | `internal/cli`, `internal/artifacts`, `internal/logging`, `internal/progress` | files | parse, print, write |

How they interact: `RunUpload` (`app/run.go`) resolves the configuration, scans
and plans in one goroutine, then registers in the queue (SQL statements on a
database file that other processes write too), starts the heartbeat goroutine
and polls until it is first. The pipeline's workers share a channel, counters
under a mutex, the state store and the client; an interrupt cancels the context
that all their calls carry. The server side is `Start` calls, one goroutine per
job, cancel calls and waiting callers that meet in the job table, in maps under
a mutex and in a semaphore; every change of a job appends an event, which is
inserted first and then handed to the channels of the subscribers.

What is hard, and what makes each part correct:

* **process**: an interrupt or a failure may come between any two of the things
  `RunUpload` opens. It must return, close what it opened in order, end its row
  with the status that agrees with the exit code, upload only in its turn, and
  leave a session file that the next run or login can read.
* **run queue**: processes interleave between SQL statements, crash, are
  suspended, lose statements. Nobody may overtake a run it could see, a live
  run may not be taken for dead, everybody in the line must be served.
* **upload pipeline and store**: interrupts, crashes and lost answers between a
  post and its record. The checkpoint may never claim more than was posted, a
  successful exit means delivery, a repost needs a reason.
* **Telegram client**: retries of retries, lost answers, parallel uploads of
  which one fails. An album is posted once, complete, or not at all.
* **job service**: cancel against start, finish and shutdown. A final status
  stays, slots are not lost, waiters wake up, cancelled jobs end.
* **events**: subscription against replay. A client that comes back misses
  nothing, and a poller misses nothing.
* **preparation**: link cycles, one file under several names, one setting under
  several names and layers, boundaries of chunks and of two binary searches,
  temporary files on error paths.

## 2. Modules

| module | models | abstract specification |
| --- | --- | --- |
| `RunQueue` (`RunQueueTurn`, `MCRunQueue`) | the queue table, its processes and heartbeats, in seconds | `TurnLine`: a line whose members work one at a time |
| `Upload` (`MCUpload`) | maintenance, workers, store and chat, run after run | relies on `SendOnce` for a request |
| `Connection` | the caller of `Connect` and `Close`, the goroutine of the client library, the session file | |
| `RunUpload` (`MCRunUpload`) | the process: database, row, heartbeat, connection, pipeline, exit; the command login | `Upload`, which it extends and implements |
| `TgCalls` (`MCTgCalls`) | one `SendAlbum` with its upload goroutines and three retry layers | `SendOnce`: a request that posts at most once |
| `McpJobs` (`McpJobsBoard`, `MCMcpJobs`) | the job service and its callers | `JobBoard`: what a client can see of a job |
| `McpEvents` (`MCMcpEvents`) | writers, one stream that reconnects, a poller, retention | |
| `Settings`, `Discovery`, `Albums`, `PhotoSearch`, composed by `Preparation` (`MCPreparation`) | configuration, scan, plan and compression | `ReachedDirs` and `Wanted` define the result of the scan without the walk |
| `RunQueueProofs`, `UploadProofs`, `RunUploadProofs`, `TgCallsProofs`, `AlbumsProofs` (the operators of `Discovery` and `Albums`), `PreparationProofs`, `McpJobsProofs`, `McpEventsProofs` | theorems | |

State and actions follow the code. A SQL statement, a critical section of a
mutex, a channel operation or a request on the wire is one step, and what lies
between two of them may be interleaved with every other actor. The action names
are those of the functions or of the step in them; `PROJECT.json` gives the
lines of each definition. An operator introduced by a comment "Mutant:" is not
part of the model: it is a plausible bug in the definition after it, and each
property is violated when one of them is put in that definition's place.

**RunQueue.** `row` is the table, `pc` the place of each process in
`RunUpload`, `createdAt`, `due` and `lastBeat` its local variables. Time is
counted in seconds, as all columns are. `ReadClock` and `Insert` are two steps,
as in `register`; `Sweep`, `Count` and `Acquire` are the three statements of one
poll. `Crash`, `Pause`, `Interrupt` and failing statements may come anywhere up
to the second `FaultBy`.

**Upload.** A run has a phase, each worker a place: `take` an album, `filter`
its files through the store, `send`, `inflight`, `posted`, then `markSent` or
`markFailed` file by file. `chat` counts the posts of a file on the server.
The server executes a request or not, and its answer may be lost; the database
of a run is sound or may fail any call; after an interrupt every call fails.
The precheck is the first decision of sending, before the request goes out.
Before a run, `OpenStore` opens the database and does what `ApplyMaintenance`
does: with `--cleanup-now` it deletes the rows that are old (an arbitrary set,
chosen anew for each run) and that the retention options do not keep; without it
the code only counts them. `Resolve` is `ResolveTarget`, which needs the server
unless the target is a number.

**Connection.** `client` is the goroutine that called `Connect` and later
`Close`, `conn` the goroutine that `Connect` starts; `ready`, `done` and
`stopped` are the two channels and the inner context between them. The library
loads the session file first, and writes a new session when the server sends one:
`SaveBegins` and `SaveEnds` are the two steps of `os.WriteFile`, which truncates
the file and then fills it.

**RunUpload.** `place` says how far the function has come. It extends `Upload`,
so a step of the pipeline is one of its steps, and holds an instance of
`Connection`. Of the queue there is the row of this process: `Turn` may come
whenever it is waiting (that it comes is the matter of `RunQueue`), and `Lapse`
is the sweep of another process, which takes the row when its heartbeat has
stopped. `Open` ends where signals begin to cancel the context; `OpenQueue` opens
the queue's database and starts the heartbeat, and `Register` is the INSERT, which
carries the context of the run. An interrupt may come between any two of them; if
it comes before the INSERT there never is a row, `WaitFails` ends the run with exit
code 2, and that is `NeverRegistered` in `ExitTellsRow`. `EndRow` is
`coord.Finish` or `coord.Cancel` with its dropped error. A request is executed only while the
connection serves. `Ask` and `SignIn` are the two connections of `tgup login`,
which a user starts while no run is going on; `LoginKilled` is an interrupt
during one of them, since `login.go:53` handles no signal.

**TgCalls.** The request is any set of files, up to one more than `SendAlbum`
accepts: a file alone goes through `SendSingle`, which needs no reference, and
what is too large is refused. Each caller (one goroutine per file, then the sender) has an API
call that passes `invoke`, `wire`, `answered` and waits. The three layers of
`tg/middleware.go` are guards on counters of that call: `FloodWait` inside
`Retry` inside `Recover`. Elapsed time of the recovery layer advances by any
amount.

**McpJobs.** For each job: the call of `Start` (count, insert, event, launch),
its goroutine (select, mark, announce, runner, finish, tell, release, wake) and
a caller that may wait. `CloseJobs` and `Kill` are shutdown and end of the
server process; tables survive, memory does not. Every statement may fail, when
the database is closed or when it is in the constant `Failing` (the database is
busy, full or broken, or the context of its request has ended); the code drops the
errors of the UPDATEs of `run` and `finishJob` and of every event, and so does the
model. A job that was marked cancelled between its `job.queued` event and its first
UPDATE is in the history variable `early`; a job whose last UPDATE failed is in
`torn`. `Sync` are the jobs started by `tgup.run.sync`, whose callers wait.

**McpEvents.** A row has its key `id` and its number `seq` in its job. A
connection registers, lists page after page, then goes live; `Notify` drops
what does not fit in the channel. A page is the set of rows still to be written,
which `WriteReplayed` takes in the order of their ids. A `List` that fails
(`ListFails`) ends the replay as an empty one does; `cutShort` remembers it, and
what is promised to a client that comes back is promised for replays that were
not cut short. The history variables `ever`, `owedFrom` and `dropped` say what
the client received and what it was owed.

**Preparation.** `scene` is what a command finds: a tree with links, layers of
settings, the door it came through (`run`, `dry_run`, `mcp`). A variable holds a
text and a flag the list of texts it was given; which of them a switch or a
number accepts differs between the two (`EnvSwitch`, `FlagSwitch`). `Resolve`
merges (`Settings!Merged`), `ScanPath` and `ScanEntry` are the loops of `scan.go` with
the recursion as a stack. Blanks around a path are part of it until they are
trimmed, which variables and flags do when they are read and `scan.go:50` does
with every source, after the allowed roots were checked; the constants `Blank` and
`Trimmed` say which paths have any. `Upward` is the test of `parentDir` for a
relative path that begins with two dots, of which the constant `Dotted` names the
names that do so by themselves. `Plan` is `plan.Build`, and in image mode `compress`
each album goes through `PhotoSearch`, whose `ProbeStdlib` and `ProbeFFmpeg` are
the two binary searches. Which qualities fit is an arbitrary set chosen per
image and mode, so that nothing is assumed of encoders. The search is a module
of its own, whose theorems (about `PhotoSpec`) do not depend on the rest.

Names of files are numbers, greater for a greater string; no name is the beginning
of another one, so that comparing paths name by name is comparing strings.
The server and the file system are the
external parts: `chat` and `posted` stand for Telegram, which executes requests
with one RandomID once; `Real`, `Lstat`, `Stat` and `Listings` for the system
calls.

## 3. Runs

| run | question | bounds and why they are enough |
| --- | --- | --- |
| `RunQueueFaults` | Is anybody overtaken, is a live run swept, is an end final, under every fault? | Two runs: each property is about a pair. Interval 1, TTL 2: one heartbeat may be missed before a row is stale, the smallest ratio at which lateness is possible and the margin matters. |
| `RunQueueServed` | Mutual exclusion, `TurnLine`, service, when rows are inserted in key order and nobody is suspended | Two runs which may both crash; the clock goes on to where every faulty row has been swept. |
| `RunQueueReadme` | README.md:246, "Only the head-of-queue task uploads" | *Violated.* Two runs that start within one second, no fault. |
| `UploadFaults` | Does the checkpoint lie or forget, is something posted without a reason, does success mean delivery? | Two runs (to fill and to resume), with and without a deletion of old rows and a retention of failed ones; an album of two and a single, two workers, every fault. An album of two is the smallest that can be recorded partly. |
| `ProcessRuns` | Does the process return, does its row tell how, does it upload only in its turn, does the session survive? | Two runs and any number of logins before, between and after them, so that one process finds what another left; one worker with an album of two whose second file the precheck may reject; a pool that may fail; interrupts (from `NotifyContext` on) and deaths at every step. The workers' interleavings are in `UploadFaults`. |
| `TgCalls` | Is the album posted once and complete, does the call return? | Requests of one file, of two, so that one can fail while the other goes on, and of three, which is one too many (`Largest` = 2); one retry per layer, so that every nesting occurs. |
| `McpJobsSafe` | Do slots, rows and events agree under cancels, failing UPDATEs, shutdown and restart? | Two jobs for one slot and one place in the queue, two `Start` calls between count and INSERT, a client that cancels as soon as an event shows the job, one end of the server with or without shutdown, and both UPDATEs of a job may fail at any time. |
| `McpJobsBoard` | The queue's limit and the abstract board | Three jobs for one place, so that two overlapping `Start` calls outgrow the limit while a third meets a full queue; failing UPDATEs, one shutdown or death. |
| `McpJobsServed` | Do cancels take effect, do jobs end, do waiters wake up with a final status? | Two jobs, both with a waiting caller, one slot, a runner that may never return; the last UPDATE, `Get` and the UPDATE of a cancel may fail. |
| `McpEventsStream` | Does a reconnecting stream, or a poller, miss a row? | Two writers of one job and one of another, a channel of one and pages of one, so that both overflow; two connections, one deletion of old rows. |
| `McpEventsResume` | MCP.md:46, resumption by `Last-Event-ID` | *Violated.* Two jobs, three events. |
| `Preparation` | Are the right settings used, the right files listed once, the plan a partition, the copies the best, the temporary files gone? | 21 trees (a link to a parent, a sibling, another tree, a file, nowhere; a second link from outside) under 7 source lists, all options; tool calls on the same trees with 2 allowed roots, one of them behind a link, and 7 source lists (below the root, elsewhere, through links, with blanks); layers of the configuration from 8 global files, 8 project files, 12 environments and 9 command lines, with texts that only one of the two parsers takes, and two more doors; a tree with a directory whose name begins with two dots; two albums with up to two photos at 5 qualities. |

The bounds that only keep the state space finite are named as such at the
CONSTANTS (`MaxClock`, `FaultBy`, `MaxRuns`, `MaxCalls`, `MaxKills`,
`MaxEvents`, `MaxConnects`, `MaxCleanups`). `CHECK_DEADLOCK FALSE` is set in all
runs because all of these programs end. The symmetry sets are used only where
no liveness property is checked.

Fairness. `RunQueue`: the operating system schedules every process that is not
suspended, suspensions and uploads end, time passes. `RunUpload`: goroutines
run, dialing and requests come to an end (for which the timeouts of the client
and the cancellable contexts stand), the turn comes, a write of the session file
ends, and the library returns once its context is done. There is no fairness for
a connection that serves, which may go on for ever, nor for login, which waits
for its user. `McpJobs`: the Go scheduler runs every goroutine;
of a runner it is assumed only that it returns once its context is cancelled,
and `EveryJobEnds` and `NoLostWakeup` name the further assumption
`RunnersReturn` in their statement. `TgCalls`: goroutines run and an attempt on
the wire is answered or fails.

## 4. What the checks found

* `RunQueueReadme`: two runs can upload at once. A run id is made before the
  INSERT and `created_at` has seconds, so a run that registers later may sort
  before one that uploads already. `MutualExclusion` proves that this is the
  only way, suspensions and interrupts apart.
* `McpEventsResume`: the `id:` line of a live event is its number in its job,
  while a replay reads `Last-Event-ID` as the key of the table. With more than
  one job the client is sent events it already has. It misses none
  (`ResumeMissesNothing`), because a number in a job is never above the key.

Behaviour a reader should know although no property is violated by it:

* A context cancelled between the answer of the server and `markSent`
  (`upload/run.go:433`) leaves posted files, which the summary counts as sent,
  without a row: the next run posts them again. `RepostExcused` lists this among
  the reasons for a repost; docs/planning/go-migration-roadmap.md:248 asks that
  "Partial success and failure handling preserve state correctly."
* A file that lies outside its source by its real path is grouped by the last
  name of its directory only (`scan.go:262`), so that directories of one name
  share an album, where README.md:360 says "Group by `src_root + parent_dir`".
  It happens when followed links lead out of the source, and without following
  when the source itself is reached through a link. `OneDirectory`,
  the part of `PlanIsPartition` about this, keeps directories apart wherever
  `parentDir` does not go by the last name alone.
* `parentDir` takes every relative path that begins with two dots for one that leads
  out of the source. For files below the source in `..old/x`, too, the parent is `x`,
  so that they share albums with those of the directory `x`.
* The `job.queued` event shows the id of a job before its cancel function is
  registered (`sqlite_jobs.go:123`, `:128`). A `Cancel` that looks in between goes
  for the UPDATE of queued rows. If that comes after the goroutine's first UPDATE,
  the cancel does nothing and the job runs to its end, where schemas.go:50 says
  "Cancel a running or queued job"; if it comes before, the row says cancelled, the
  event is sent, and the job runs all the same and ends as done (`early`).
  `FinalUnlessEarly` and the two event properties say that nothing else has the
  second effect.
* The last UPDATE of a job may fail for any reason, and its error is dropped
  (`sqlite_jobs.go:200`): the terminal event is sent, the row stays queued or
  running and counts against `maxQueue` for ever, and a caller that comes to wait
  for it after the goroutine has ended waits for its timeout. A shutdown does this
  regularly, since the jobs' database is closed before their goroutines have ended
  (`app/mcp.go:69`). `EventAgreesWithRow` says what such a row may still say,
  `JobBoard` that it keeps its place.
* The allowed roots are checked with a source as it stands (`bridge.go:106`), while
  the scan trims the blanks around it first (`scan.go:50`): for a source of a tool
  call or of a file that has any, the two speak of different paths.
  `OnlyAllowedRoots` is stated for sources without.
* A run that is interrupted after `NotifyContext` and before its INSERT never was
  in the queue; it returns 2 and has sent nothing.
* A run that was marked stale while it was suspended goes on, and its Finish
  overwrites the status; `EndIsFinal` is about the statuses that Finish wrote. With
  the policy `upload`, a failed second try overwrites a row that says sent
  (`sqlite_store.go:98`). What a full channel of a stream drops is lost to a client
  that stays connected (`sqlite_events.go:231`).
* A replay whose `List` fails (`sse.go:103`) goes live without a word: the client
  cannot tell it from a complete one and loses what it was owed.
* After the retention has deleted the last rows of a job its numbering starts
  again at 1; a poller that asks with its old number then misses new rows. This
  is why `PollerMissesNothing` is stated for the time before a deletion.
* Maintenance does less than README.md:381-391 lets expect. Rows are deleted only
  with `--cleanup-now`; otherwise they are counted (`sqlite_store.go`,
  `ApplyMaintenance`). With `retention_failed_days` above 0 (README.md:319-321)
  no row that says sent is ever deleted, and failed rows are deleted by the age
  in `retention_sent_days`; with 0, rows of both kinds are. `SentIsFinal` states
  what follows for the files that were sent. `interval_hours`, `max_db_mb` and
  the preview of a first run have no code.
* A process that dies, or that is interrupted while it connects, may leave a torn
  session file (`gotd_session.go:33`): after an interrupt `Connect` returns
  without waiting for its goroutine, and `login` handles no signal at all. The
  library cannot parse such a file, so that neither `run` nor `login` gets a
  connection until the user removes it. docs/planning/go-migration-roadmap.md:210
  asks for "Session reuse is reliable"; `SessionKept` says that nothing else
  tears the file.
* `album_max` may be any positive number (`validate.go`), while `SendAlbum`
  refuses more than 10 files (`gotd_transport.go:172`): a plan with longer albums
  uploads none of them. README.md:67 names the limit, the validation does not.
* A job of the tool server ends with "full upload via MCP not yet wired" after
  the plan.

## 5. Proofs

All theorems hold for every value of the constants that satisfies the named
assumptions.

**RunQueueProofs.** Assumptions: `HeartbeatAssumption` (a heartbeat's worst gap
plus the longest INSERT fits in the TTL: in the code 5 s interval, 5 s
busy timeout, 30 s TTL). The inductive invariant joins `TypeOK`; `Placed`, which ties a row to the
place of its process; `Timely`, which bounds how far the last heartbeat of a
steady run lags behind the clock; and the properties `LiveNeverSwept` and
`NoOvertaking` themselves. `LiveNeverSwept` is not inductive without `Timely`:
a sweep compares a row with the clock, and only the history of the ticker says
that the row cannot be that old. `EndStays` follows from the same invariant.
`MutualExclusion` needs `Calm` (rows inserted in key order, no suspension, no
interrupt) and the additional invariant `Ordered`, that a run at its turn has
seen every row ahead of it. `ServesTheLine` is the refinement of `TurnLine`, also
under `Calm`: the line is the set of active rows, and a run is at its turn in the
line from the moment `countAhead` found nobody (`AtTurn`: until it uploads and
after, nobody comes to stand ahead of it). A sweep that finds dead rows is the
step `Remove` of `TurnLine`, and whatever neither adds nor ends a row is a stutter or the end
of an upload (`Stutters`).

**UploadProofs.** `SentOnlyAfterPost` strengthens `SentMeansPosted` with
`Posted`: what each place of a worker says about the chat. `SuccessDelivers`
needs a covering argument: while the run may still end with 0, every file of the
plan is in the chat, in an album of the channel or in a worker's hands
(`Covered`), a worker past the filter has something to send
(`SomethingToSend`), and while the channel is not empty there is somebody to
empty it (`Manned`). The lemmas about heads, tails and appended elements of
sequences come first in the module.

Three theorems need a plan that names each file once (`Partitioned`, a condition
on the constants that is what `PlanIsPartition` says of the planner's albums).
`PostedOnce` rests on `Apart`, that a file is in an album of the channel or in
the hands of one worker, never two; on `Past`, that a file already posted in this
run is in neither; and on `Single`, that a worker holds a file once, which is
what makes the second try as documents harmless. `RepostsAreExcused` adds
`Accounted`: a file in the chat has a row that says sent, or is about to get one
from the worker that posted it, or has an excuse; and `Careful`, that workers send
and mark as failed no other. `SentStaysSent` needs `Resume`, since without it
nobody reads the rows and a failed file overwrites its own: while the filter can
see the rows, a worker holds no file whose row says sent (`Spared`). Both walk
through every action, with a frame lemma for what a worker's step leaves of the
other workers.

**RunUploadProofs.** `ProcessRunsPipeline` is the refinement: a step of the
process is a step of `Upload` or leaves its variables alone, so that the theorems
of `UploadProofs` hold of the process (`ProcessPostsOnce`, `ProcessKeepsRows`). `SessionSurvives` rests on `Released`: the
channel `done` says that the goroutine has ended and an ended goroutine does not
write, and a process leaves through `done` unless it is `abrupt`. `UploadsInItsTurn`
needs `InPhase`, which ties the place of the process to the phase of the
pipeline, `RowFits`, which ties it to the row and the heartbeat (before the INSERT
there is no row, and from `OpenQueue` on the heartbeat runs unless the run was
interrupted), and `Quiet`:
outside the place of uploading every worker has exited. `RowTellsEnd` adds
`ExitKnown` (what the exit code is at each place) and `RowTold` (once the row is
written it agrees with it, and a run without a row was interrupted), and takes the last part, that finished means
delivered, from `SuccessDelivers` through the refinement.

**TgCallsProofs.** Assumption: there are finitely many files and the limits are
numbers. `SendsOnce` maps the call to `SendOnce` and simulates it step by step;
it needs `Truthful`: what the layers hold of the server's last answer is true of
the chat, so that a call that ends with an error about an image has posted
nothing, however often it was sent. `AlbumsComplete` needs `Ordered`, that the
request goes out after its files, and `Quiet`, that only a goroutine waiting for
an answer has a call. `Known` says that an error is there when a layer looks at
it.

**AlbumsProofs.** Lemmas about the operators of `Discovery` and `Albums`. The
loops of the code are recursive functions over the length of a path or a list.
The library's induction theorems cannot be used on them (they take an operator as
a parameter), so each is taken apart by hand: `AllUpTo` is induction on
`0 .. N` for a set of numbers, from `Smallest`, the well-foundedness of the
naturals; that a recursive function has its values at all is shown by building
it up to any length (`TraceExists`, `GroupTraceExists`, `FlatTraceExists`); and
what holds after every turn by `AllUpTo` again. For paths this gives
`RealAppend` (EvalSymlinks goes on from the real path of the directory),
`RealReal` (what it returns is a real path) and `PlaceDecides` (two paths to one
place lead to the same node). For lists it gives `ListingComplete` and
`Arranged` (a listing and a sort lose and repeat nothing), `GroupedSound`,
`ChunksCover` and `ChunksApart` (every element in one chunk, at one place), and
from these `BuildPartitions`.

**PreparationProofs.** Assumptions: `ScenesAssumption` (there is an explicit file,
or there are the places of a global and of a project file), `TrimmedAssumption` (what
trimming leaves is a path) and `ScenesTyped`: the
configuration has the types of the Go fields (`src` is a list of paths,
`album_max` a whole number, of either sign), and the tree is one (`IsTree`: what
is not the root is in a directory; a link leads to a real path that is no link,
or to nothing). Links may form cycles and lead anywhere.

* *The configuration.* `RankingDecides`
takes `Merged` apart layer by layer: `ApplyTakes` says which name of a setting
counts in a layer, `AskedCarries`, `EnvCarries` and `FileCarries` that an overlay
holds what the property says of its layer (what a tool call leaves empty is not
said, a path of a file is below its directory), and `LayerTakes` puts the two
together.
* *The walk.* `DirectoriesReadOnce` needs that every directory read is in
`seenDirs` by its real path (`ReadOnce`); it uses nothing of `EvalSymlinks` but
that it is a function of the tree. The other theorems need `DiscoveryInv`. Of
what was found it says that the directories read are in every set that has the
sources and is closed under the options (`ReadsOk`), and that a file is seen if
and only if it is listed, once, and because the filters let through a name of
it that the walk came across (`FoundOk`). Of what is still to come it says that
nothing is forgotten: a name in a directory that was read, or a source, was dealt
with or is on the stack (`Pending`). When the stack is empty the
directories read are closed themselves, so that they are `ReachedDirs`
(`ReadsReached`) and what was seen is `Wanted` (`SeenWanted`): `WalkListsExactly`.
`Pending` speaks of places, not of paths: a directory that is reached by two
paths is read by one of them only, and what the other would have found is the
same because the place of a name decides what it leads to. `FilesListedOnce` is
part of the invariant. `ToolListsAllowed` adds that the directories below the
allowed roots are such a closed set if links are not followed
(`ReadsBelowRoot`), so that it needs no induction of its own; that the walk starts
where the check looked is where it needs sources without blanks around them.
* *The plan.* `PlanPartitions` joins `DiscoveryInv`, `Planned` (the albums were
built from an arrangement of the items that were found) and `BuildPartitions`;
that an album is of one directory, where `Upward` does not hold, is `FrontBelow`. It is also what justifies
`Partitioned`, the condition on the plan in `UploadProofs`.
* *The photos.* `IInv` is about `PhotoSpec`, in which albums of any size follow
each other. Its heart is `Bracketed`: the quality just below the
interval, on its better side, was tried and does not fit unless it is outside the range,
and the kept result is the neighbour on the other side. From it follow
`CopyHasNoBetterNeighbour` without any assumption about sizes, `CopyIsBest` if
sizes grow with the quality, `TempsRemoved` and `SearchComesToAnEnd`.
`CompressesByPhotoSearch` shows that a command implements `PhotoSpec`, which
carries these theorems over to it (`CommandLeavesNoTemp`, `CommandSendsBestCopy`).

**McpJobsProofs.** One invariant serves all theorems. `Slots` ties the semaphore
to the places of the goroutines, so that no end of a job frees a slot twice or
keeps one. `Depth` counts the queue together with the `Start` calls that have
counted and not yet inserted, which bounds by how much the two statements can
overshoot. `Placed` and `Underway` tie call and row to
the place of the goroutine, `Torn` what the row still says when the last UPDATE
failed, and `Unstarted` that a goroutine without a slot can only end as cancelled. The
events need two more: `LastWord`, that of the goroutine and all callers of
`Cancel` at most one still has to tell the end of a job, and has not, and `Told`,
that after the event which tells it there is none. Jobs in `early` and `torn` are
excepted where the properties except them. `ServesTheBoard` is
proved without early cancels (`EarlyCancel` FALSE, as in the run that checks
it), where `Late` holds: who looks for a row with no cancel function finds a job
that is over. On the board a job is worked on from its first UPDATE to its last, whether these
succeed or not (`Works`, `Turns`), and an unfinished row whose goroutine is past its
last UPDATE is abandoned. `ServesTheBoard` maps every step of the service to one of
`JobBoard` or to none, crash and shutdown included.

**McpEventsProofs.** `Numbered` says that rows are numbered below `nextId` and
that a number in a job is at most the key; `NextSeqIsNew` gives `SeqOrdersJob`.
`ResumeComplete` rests on `Replaying`: a row beyond `since` was handed over, is
in the channel or was dropped by it, or lies where the replay will still look,
beyond the cursor and, while a page is being written, beyond that page. This
needs that a page is a prefix of what follows the cursor, shown with the least
and greatest elements of sets of numbers (`Smallest`, by well-foundedness, and
`Greatest`). `PollComplete` needs that the poller's number is that of a row
(`Polling`), until the retention deletes one.

Left to TLC: liveness under fairness (`EveryRunServed`, `ProcessReturns`,
`CallReturns`, and the properties of `McpJobsServed`), which the
prover cannot reach. Every invariant, every action property and every refinement
that a passing run checks is also a theorem. No module declares a RECURSIVE operator:
recursion is a function, and where the code sorts, the model says what a sorted
list is.

## 6. What is not modelled

* **`--force-multi-command`** (`run.go:82-94`): a run that skips the queue and
  works on a state and session of its own, or on the shared session if it cannot
  be copied. Hence no two processes use one session file at a time in
  `RunUpload`, and a login does not run beside an upload.
* **Other processes beside `RunUpload`**: the suspension of a process, and the
  deletion of its swept row by the cleanup of another one, are in `RunQueue` only.
* **The dialogue of login**: codes and passwords go between the user and the
  client library.
* **Maintenance after a run** never deletes (`run.go:213-216`), so it is no step.
* **The pool and the peer cache** of the client only save requests; that making
  the pool may fail is modelled.
* **Tool server transport**: JSON-RPC, schemas and HTTP carry no state besides
  the soft limit of 50 streams (`sse.go:43`) and their pings.
* **Media probes and thumbnails**: their verdict is an input of `Upload`;
  errors of thumbnails are ignored by the code.
* **Parsing** of TOML files and of lists is abstracted to whether it succeeds,
  and numbers to one digit; spelling variants that validation lower-cases are
  left out, and of blanks only those around the paths of `src` and of the state.
* **Output**: reports, logs, progress, captions, labels, the demo command.
* Time spent in flood waits counts against the recovery layer's five minutes in
  the code; in the model any attempt may exhaust them.

## 7. Plan

Done in this order: `RunQueue` and its proofs, since it is the only protocol
between processes; `McpJobs` and `McpEvents`, the densest interleavings;
`Upload` with its proofs, the promise users rely on; `TgCalls` under it;
`Preparation` before it; then maintenance in `Upload`, `Connection`, and
`RunUpload`, which composes row, connection and pipeline, with its proofs; then
the proofs about `TgCalls`; then those about `McpJobs`, `McpEvents` and the
configuration in `Preparation`, the refinement of `TurnLine`, and the theorems of
`Upload` about posting once; last the walk and the plan, with the lemmas about
paths, lists and groups.

Next, extending the model:

1. `--force-multi-command` and a second process beside the first, on one session
   file;
2. the connection limit of the stream, and sessions of the HTTP handlers.

Next, proving more: that a process which uploads holds the turn of `TurnLine`,
through the row that `RunUpload` and `RunQueue` share.
