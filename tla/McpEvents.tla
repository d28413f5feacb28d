----------------------------- MODULE McpEvents ------------------------------
(***************************************************************************)
(* The event store of the MCP server and its readers: Append, List,        *)
(* Register and notify of internal/mcp/sqlite_events.go, the stream of     *)
(* internal/mcp/sse.go with its replay, and the polling tool               *)
(* tgup.run.events of internal/mcp/server.go.                              *)
(*                                                                         *)
(* A row has two numbers: id, the AUTOINCREMENT key, and seq, its number   *)
(* in its job.  A replayed event is written to the stream with its id, a   *)
(* live one with its seq; the browser sends the last of them back as       *)
(* Last-Event-ID.                                                          *)
(***************************************************************************)
EXTENDS Integers, FiniteSets, Sequences, SequencesExt, FiniteSetsExt

CONSTANTS
  Job,           \* jobs that have events
  Writer,        \* goroutines that append events, each for one job
  JobOf,         \* [Writer -> Job]
  Cap,           \* capacity of a subscriber's channel (64)
  PageSize,      \* limit of a List (sseBacklogLimit, 1000)
  MaxEvents,     \* bound: rows ever inserted
  MaxConnects,   \* bound: connections the client makes
  MaxCleanups    \* bound: deletions of old rows

ASSUME EventsAssumption ==
  /\ JobOf \in [Writer -> Job]
  /\ Cap \in Nat \ {0} /\ PageSize \in Nat \ {0}
  /\ MaxEvents \in Nat /\ MaxConnects \in Nat /\ MaxCleanups \in Nat

VARIABLES
  table,      \* mcp_events
  nextId,     \* the next AUTOINCREMENT key
  inFlight,   \* for each writer, the row it has inserted and not yet notified
  step,       \* where the handler of the client's connection is
  since,      \* lastSeq: the Last-Event-ID the connection came with
  cursor,     \* the local seq of replayBacklog
  page,       \* the rows of a List that are not written yet
  hasMore,    \* whether that List saw more rows
  cutShort,   \* history: a List of this connection failed
  channel,    \* the channel of the subscription
  got,        \* the rows this connection has written
  lastId,     \* the last id line the client received (0: none)
  ever,       \* history: the ids of all rows the client received, in order
  owedFrom,   \* history: nextId when the client received its first event (0: not yet)
  dropped,    \* history: the ids notify dropped because the channel was full
  pollSince,  \* for each job, the sinceSeq the poller asks with next
  polled,     \* history: the ids the poller received
  connects, cleanups

storeVars == <<table, nextId, inFlight>>
connVars == <<step, since, cursor, page, hasMore, cutShort>>
clientVars == <<got, lastId, ever, owedFrom>>
pollVars == <<pollSince, polled>>
vars == <<table, nextId, inFlight, step, since, cursor, page, hasMore, cutShort, channel, got,
          lastId, ever, owedFrom, dropped, pollSince, polled, connects, cleanups>>

NoRow == [id |-> 0, job |-> "", seq |-> 0]
RowsOf(j) == {r \in table : r.job = j}
Seqs(j) == {r.seq : r \in RowsOf(j)}
Ids(rows) == {r.id : r \in rows}

\* List, of all jobs by id and of one job by seq: LIMIT keeps the rows that
\* fewer than PageSize rows come before in the order of the column.
Page(rows, column) ==
  {r \in rows : Cardinality({s \in rows : s[column] < r[column]}) < PageSize}

After(n) == {r \in table : r.id > n}
ListAll(n) == Page(After(n), "id")
ListJob(j, n) == Page({r \in RowsOf(j) : r.seq > n}, "seq")

Init ==
  /\ table = {} /\ nextId = 1
  /\ inFlight = [w \in Writer |-> NoRow]
  /\ step = "off" /\ since = 0 /\ cursor = 0 /\ page = {} /\ hasMore = FALSE
  /\ cutShort = FALSE /\ channel = << >> /\ got = {} /\ lastId = 0 /\ ever = << >>
  /\ owedFrom = 0 /\ dropped = {}
  /\ pollSince = [j \in Job |-> 0] /\ polled = {}
  /\ connects = 0 /\ cleanups = 0

-----------------------------------------------------------------------------
(* Append.                                                                 *)

\* Mutant: the number of rows instead of the greatest seq.
NextSeqByCount(j) == Cardinality(RowsOf(j)) + 1

\* COALESCE(MAX(seq), 0) + 1
NextSeq(j) == Max(Seqs(j) \cup {0}) + 1

\* The INSERT with its subquery is one statement.
Insert(w) ==
  /\ inFlight[w] = NoRow /\ nextId <= MaxEvents
  /\ LET r == [id |-> nextId, job |-> JobOf[w], seq |-> NextSeq(JobOf[w])] IN
       /\ table' = table \cup {r}
       /\ inFlight' = [inFlight EXCEPT ![w] = r]
  /\ nextId' = nextId + 1
  /\ UNCHANGED <<connVars, channel, clientVars, dropped, pollVars, connects, cleanups>>

\* Mutant: the subscription is made after the replay.
SubscribedLate == step = "live"

\* The connection is subscribed from Register on.
Subscribed == step \in {"list", "write", "live"}

\* The row goes to the subscriber's channel, or is dropped when that is full.
Notify(w) ==
  /\ inFlight[w] # NoRow
  /\ inFlight' = [inFlight EXCEPT ![w] = NoRow]
  /\ IF Subscribed /\ Len(channel) < Cap
     THEN channel' = Append(channel, inFlight[w]) /\ UNCHANGED dropped
     ELSE /\ UNCHANGED channel
          /\ dropped' = IF Subscribed THEN dropped \cup {inFlight[w].id} ELSE dropped
  /\ UNCHANGED <<table, nextId, connVars, clientVars, pollVars, connects, cleanups>>

\* CleanupWithRetention: the rows up to some age.
Cleanup ==
  /\ cleanups < MaxCleanups /\ table # {}
  /\ cleanups' = cleanups + 1
  /\ \E r \in table : table' = {s \in table : s.id > r.id}
  /\ UNCHANGED <<nextId, inFlight, connVars, channel, clientVars, dropped, pollVars, connects>>

-----------------------------------------------------------------------------
(* The stream.                                                             *)

\* A request arrives, with the last id the client has seen.
Connect ==
  /\ step = "off" /\ connects < MaxConnects
  /\ connects' = connects + 1
  /\ since' = lastId /\ cursor' = lastId
  /\ step' = "register"
  /\ got' = {}
  /\ UNCHANGED <<storeVars, page, hasMore, cutShort, channel, lastId, ever, owedFrom, dropped,
                 pollVars, cleanups>>

\* Register(""), then the replay if a Last-Event-ID was given.
Register ==
  /\ step = "register"
  /\ channel' = << >>
  /\ step' = IF since > 0 THEN "list" ELSE "live"
  /\ UNCHANGED <<storeVars, since, cursor, page, hasMore, cutShort, clientVars, dropped, pollVars,
                 connects, cleanups>>

\* replayBacklog lists a page of all jobs by id ...
ListPage ==
  /\ step = "list"
  /\ page' = ListAll(cursor)
  /\ hasMore' = (Cardinality(After(cursor)) > PageSize)
  /\ step' = IF page' = {} THEN "live" ELSE "write"
  /\ UNCHANGED <<storeVars, since, cursor, cutShort, channel, clientVars, dropped, pollVars,
                 connects, cleanups>>

\* ... and takes a List that fails for the end of the backlog, ...
ListFails ==
  /\ step = "list"
  /\ step' = "live" /\ cutShort' = TRUE
  /\ UNCHANGED <<storeVars, since, cursor, page, hasMore, channel, clientVars, dropped, pollVars,
                 connects, cleanups>>

\* The client receives row r under the number n.
Receive(r, n) ==
  /\ got' = got \cup {r.id}
  /\ lastId' = n
  /\ ever' = Append(ever, r.id)
  /\ owedFrom' = IF owedFrom = 0 THEN nextId ELSE owedFrom

\* ... or writes the page in order, every event with its id.
WriteReplayed ==
  /\ step = "write"
  /\ \E r \in page :
       /\ \A s \in page : r.id <= s.id
       /\ Receive(r, r.id)
       /\ cursor' = r.id
       /\ page' = page \ {r}
  /\ step' = IF page' # {} THEN "write" ELSE IF hasMore THEN "list" ELSE "live"
  /\ UNCHANGED <<storeVars, since, hasMore, cutShort, channel, dropped, pollVars, connects,
                 cleanups>>

\* A live event comes with the number Append returned, its seq.
WriteLive ==
  /\ step = "live" /\ channel # << >>
  /\ Receive(Head(channel), Head(channel).seq)
  /\ channel' = Tail(channel)
  /\ UNCHANGED <<storeVars, connVars, dropped, pollVars, connects, cleanups>>

\* The client goes away, or the lifetime of the connection passes.
Disconnect ==
  /\ step # "off"
  /\ step' = "off" /\ channel' = << >> /\ page' = {} /\ got' = {}
  /\ since' = 0 /\ cursor' = 0 /\ hasMore' = FALSE /\ cutShort' = FALSE
  /\ UNCHANGED <<storeVars, lastId, ever, owedFrom, dropped, pollVars, connects, cleanups>>

-----------------------------------------------------------------------------
(* The poller asks for the events after the last seq it has.               *)

\* Mutant: the page is cut before it is ordered, so a client that goes on
\* after its last row skips the rest.
PollUnordered(j) ==
  /\ \E S \in SUBSET {r \in RowsOf(j) : r.seq > pollSince[j]} :
       /\ S # {} /\ Cardinality(S) <= PageSize
       /\ polled' = polled \cup Ids(S)
       /\ pollSince' = [pollSince EXCEPT ![j] = Max({r.seq : r \in S})]
  /\ UNCHANGED <<storeVars, connVars, channel, clientVars, dropped, connects, cleanups>>

Poll(j) ==
  /\ LET rows == ListJob(j, pollSince[j]) IN
       /\ rows # {}
       /\ polled' = polled \cup Ids(rows)
       /\ pollSince' = [pollSince EXCEPT ![j] = Max({r.seq : r \in rows})]
  /\ UNCHANGED <<storeVars, connVars, channel, clientVars, dropped, connects, cleanups>>

-----------------------------------------------------------------------------
Next == \/ \E w \in Writer : Insert(w) \/ Notify(w)
        \/ Cleanup
        \/ Connect \/ Register \/ ListPage \/ ListFails \/ WriteReplayed \/ WriteLive \/ Disconnect
        \/ \E j \in Job : Poll(j)

Spec == Init /\ [][Next]_vars

-----------------------------------------------------------------------------
(* Properties.                                                             *)

Row == [id : 1 .. MaxEvents, job : Job, seq : 1 .. MaxEvents]

TypeOK ==
  /\ table \subseteq Row /\ nextId \in 1 .. MaxEvents + 1
  /\ inFlight \in [Writer -> Row \cup {NoRow}]
  /\ step \in {"off", "register", "list", "write", "live"}
  /\ since \in 0 .. MaxEvents /\ cursor \in 0 .. MaxEvents /\ lastId \in 0 .. MaxEvents
  /\ page \subseteq Row /\ hasMore \in BOOLEAN /\ cutShort \in BOOLEAN
  /\ channel \in Seq(Row) /\ Len(channel) <= Cap
  /\ got \subseteq 1 .. MaxEvents /\ ever \in Seq(1 .. MaxEvents)
  /\ owedFrom \in 0 .. MaxEvents + 1
  /\ dropped \subseteq 1 .. MaxEvents /\ polled \subseteq 1 .. MaxEvents
  /\ pollSince \in [Job -> 0 .. MaxEvents]
  /\ connects \in 0 .. MaxConnects /\ cleanups \in 0 .. MaxCleanups

\* UNIQUE(job_id, seq) holds whatever writers do at once, and within a job
\* seq orders rows as id does, also after old rows are gone.
SeqOrdersJob ==
  \A a, b \in table : a.job = b.job => (a.id < b.id <=> a.seq < b.seq)

Pending == {inFlight[w].id : w \in Writer} \cup Ids(ToSet(channel)) \cup Ids(page)

\* A client that comes back with a Last-Event-ID misses no row: once the
\* replay is over, every row after that id was written to the stream, waits
\* in the channel, is about to be notified, or was dropped by a full channel.
\* A List that fails in the replay leaves the rows after it out.
ResumeMissesNothing ==
  step = "live" /\ since > 0 /\ ~cutShort =>
    \A r \in table : r.id > since => r.id \in got \cup Pending \cup dropped

\* The poller, who asks with the seq of the last event it has (MCP.md:45,
\* tgup.run.events pulls increments by sinceSeq), has had every row up to it.
\* Once the retention has deleted rows this may fail: when the last rows of a
\* job are gone its numbering starts again at 1, below what the poller asks for.
PollerMissesNothing ==
  cleanups = 0 => \A r \in table : r.seq <= pollSince[r.job] => r.id \in polled

\* A client that resumes goes on where it left off (MCP.md:46, "SSE supports
\* Last-Event-ID resumption"): of the rows inserted after its first event none
\* is skipped by a reconnection, and none is sent twice.
ResumesWhereItLeft ==
  /\ \A a, b \in 1 .. Len(ever) : a # b => ever[a] # ever[b]
  /\ step = "live" /\ since > 0 /\ ~cutShort =>
       \A r \in table : owedFrom > 0 /\ r.id >= owedFrom
                           => r.id \in ToSet(ever) \cup Pending \cup dropped
=============================================================================
