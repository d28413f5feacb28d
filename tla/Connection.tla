----------------------------- MODULE Connection -----------------------------
(***************************************************************************)
(* The life of a connection to Telegram, internal/tg/gotd_client.go: the   *)
(* caller of Connect and Close, and the goroutine that runs the client     *)
(* library.  They meet in the channels ready and done and in a context     *)
(* that is cancelled by the caller or with the context of the run.  The    *)
(* goroutine also writes the session file (gotd_session.go), in place.     *)
(***************************************************************************)
EXTENDS Integers

CONSTANT Pool  \* whether upload.pool_size > 0

VARIABLES
  ctxErr,   \* ctx.Err() of the run: "nil" or "canceled"
  client,   \* the caller: "new", "connecting", "connected", "failed", "closing", "closed"
  conn,     \* the goroutine: "none", "loading", "dialing", "serving", "ended"
  ready,    \* whether the channel ready is closed
  stopped,  \* whether cancel of the inner context was called
  done,     \* whether the channel done, of capacity 1, holds a value
  save,     \* its write of the session file: "no", "writing", "written"
  session   \* the session file: "whole" or "torn"

caller == <<client, stopped>>
goroutine == <<conn, ready, save, session>>
connVars == <<client, conn, ready, stopped, done, save, session>>

\* An earlier process may have left the session file torn.
Init ==
  /\ client = "new" /\ conn = "none"
  /\ ready = FALSE /\ stopped = FALSE /\ done = FALSE
  /\ save = "no" /\ session \in {"whole", "torn"}

\* The inner context is derived from that of the run.
InnerDone == stopped \/ ctxErr = "canceled"

-----------------------------------------------------------------------------
(* The caller.                                                             *)

Connect ==
  /\ client = "new"
  /\ client' = "connecting" /\ conn' = "loading"
  /\ UNCHANGED <<ready, stopped, done, save, session>>

\* The command login runs one client to ask whether it is logged in, and then
\* another one to log in.
ConnectAgain ==
  /\ client = "connecting" /\ ready /\ done
  /\ conn' = "loading" /\ ready' = FALSE /\ done' = FALSE /\ save' = "no"
  /\ UNCHANGED <<client, stopped, session>>

\* The select of Connect, case ready.
ConnectReady ==
  /\ client = "connecting" /\ ready
  /\ client' = "connected"
  /\ UNCHANGED <<stopped, done, goroutine>>

\* The pool cannot be made: the connection is told to end, and left.
PoolFails ==
  /\ client = "connecting" /\ ready /\ Pool
  /\ client' = "failed" /\ stopped' = TRUE
  /\ UNCHANGED <<done, goroutine>>

\* Case done: the library gave up.
ConnectEnds ==
  /\ client = "connecting" /\ done
  /\ client' = "failed" /\ done' = FALSE
  /\ UNCHANGED <<stopped, goroutine>>

\* Case ctx.Done: the same as with the pool, whatever else is ready.
ConnectGivenUp ==
  /\ client = "connecting" /\ ctxErr = "canceled"
  /\ client' = "failed" /\ stopped' = TRUE
  /\ UNCHANGED <<done, goroutine>>

\* Mutant: Close waits for a connection nobody told to end.
CloseUnstopped ==
  /\ client = "connected"
  /\ client' = "closing" /\ UNCHANGED stopped
  /\ UNCHANGED <<done, goroutine>>

Close ==
  /\ client = "connected"
  /\ client' = "closing" /\ stopped' = TRUE
  /\ UNCHANGED <<done, goroutine>>

\* Mutant: Close does not wait for the goroutine.
CloseAtOnce ==
  /\ client = "closing"
  /\ client' = "closed"
  /\ UNCHANGED <<stopped, done, goroutine>>

\* Close returns with what the goroutine left in the channel.
CloseReturns ==
  /\ client = "closing" /\ done
  /\ client' = "closed" /\ done' = FALSE
  /\ UNCHANGED <<stopped, goroutine>>

-----------------------------------------------------------------------------
(* The goroutine.                                                          *)

\* Run returns: its error goes into the channel, where there is always room.
RunReturns == conn' = "ended" /\ done' = TRUE

\* A session that cannot be parsed is fatal.
LoadSession ==
  /\ conn = "loading"
  /\ \/ session = "whole" /\ conn' = "dialing" /\ UNCHANGED done
     \/ session = "torn" /\ RunReturns
  /\ UNCHANGED <<caller, ready, save, session>>

\* The callback is called: the client may be used.
Serve ==
  /\ conn = "dialing"
  /\ conn' = "serving" /\ ready' = TRUE
  /\ UNCHANGED <<caller, done, save, session>>

DialFails ==
  /\ conn = "dialing" /\ save # "writing"
  /\ RunReturns
  /\ UNCHANGED <<caller, ready, save, session>>

\* The context of the callback is done, or the connection is lost for good.
ServingEnds ==
  /\ conn = "serving" /\ save # "writing"
  /\ RunReturns
  /\ UNCHANGED <<caller, ready, save, session>>

\* os.WriteFile truncates the file and then fills it.  (Bound: the server
\* gives a connection one new session.)
SaveBegins ==
  /\ conn \in {"dialing", "serving"} /\ save = "no"
  /\ save' = "writing" /\ session' = "torn"
  /\ UNCHANGED <<caller, conn, ready, done>>

SaveEnds ==
  /\ save = "writing"
  /\ save' = "written" /\ session' = "whole"
  /\ UNCHANGED <<caller, conn, ready, done>>

GoroutineStep ==
  LoadSession \/ Serve \/ DialFails \/ ServingEnds \/ SaveBegins \/ SaveEnds

\* The process ends, and the goroutine with it, wherever it is.
Gone ==
  /\ client' = "new" /\ conn' = "none"
  /\ ready' = FALSE /\ stopped' = FALSE /\ done' = FALSE
  /\ save' = "no" /\ UNCHANGED session

-----------------------------------------------------------------------------
TypeOK ==
  /\ ctxErr \in {"nil", "canceled"}
  /\ client \in {"new", "connecting", "connected", "failed", "closing", "closed"}
  /\ conn \in {"none", "loading", "dialing", "serving", "ended"}
  /\ ready \in BOOLEAN /\ stopped \in BOOLEAN /\ done \in BOOLEAN
  /\ save \in {"no", "writing", "written"} /\ session \in {"whole", "torn"}
=============================================================================
