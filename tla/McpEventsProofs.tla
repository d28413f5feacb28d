--------------------------- MODULE McpEventsProofs ---------------------------
(***************************************************************************)
(* Proofs about McpEvents, for any jobs, writers, page size, channel       *)
(* capacity and any number of events, connections and cleanups: the two    *)
(* numbers of a row agree, a replay hands over to the live stream without  *)
(* a gap, and a poller that goes on after its last event misses none.      *)
(***************************************************************************)
EXTENDS McpEvents, FiniteSetTheorems, WellFoundedInduction, TLAPS

-----------------------------------------------------------------------------
(* Greatest and smallest numbers.                                          *)

\* A set of natural numbers has a smallest one.
LEMMA Smallest ==
  ASSUME NEW T \in SUBSET Nat, T # {}
  PROVE  \E x \in T : \A y \in T : x <= y
<1> DEFINE R == OpToRel(<, Nat)
<1>1. IsWellFoundedOn(R, Nat)
  BY NatLessThanWellFounded
<1>2. PICK x \in T : \A y \in T : <<y, x>> \notin R
  <2> HIDE DEF R
  <2> QED
    BY <1>1, WFMin
<1>3. \A y \in T : <<y, x>> \notin R => x <= y
  BY DEF OpToRel
<1> QED
  BY <1>2, <1>3

\* A bounded one has a greatest, and Max is it.
LEMMA Greatest ==
  ASSUME NEW N \in Nat, NEW T \in SUBSET (0 .. N), T # {}
  PROVE  Max(T) \in T /\ \A y \in T : y <= Max(T)
<1> DEFINE U == {N - x : x \in T}
<1>1. U \in SUBSET Nat /\ U # {}
  <2>1. \A x \in T : N - x \in Nat
    OBVIOUS
  <2>2. \A u \in U : \E x \in T : u = N - x
    OBVIOUS
  <2>3. \A x \in T : N - x \in U
    OBVIOUS
  <2> HIDE DEF U
  <2> QED
    BY <2>1, <2>2, <2>3
<1>2. PICK u \in U : \A v \in U : u <= v
  BY <1>1, Smallest
<1>3. PICK x \in T : u = N - x
  BY <1>2
<1>4. \A y \in T : x >= y
  <2> SUFFICES ASSUME NEW y \in T PROVE x >= y
    OBVIOUS
  <2>1. N - y \in U
    OBVIOUS
  <2>2. N - x <= N - y /\ x \in Nat /\ y \in Nat
    BY <1>2, <1>3, <2>1
  <2> QED
    BY <2>2
<1> QED
  BY <1>4 DEF Max

-----------------------------------------------------------------------------
(* The inductive invariant.                                                *)

\* Rows are numbered in the order they come, in their job and altogether.
Numbered ==
  /\ IsFiniteSet(table)
  /\ \A r \in table : r.id < nextId /\ r.seq <= r.id

Seen(r) == r.id \in got \cup Pending \cup dropped

\* How far the replay has come: what it has not handed over lies beyond the
\* rows it is about to write, and it will look there.
Replayed(r) ==
  \/ Seen(r)
  \/ step = "list" /\ r.id > cursor
  \/ step = "write" /\ hasMore /\ r.id > cursor /\ \A p \in page : p.id < r.id

Replaying ==
  /\ step \in {"list", "write", "live"} /\ since > 0 /\ ~cutShort =>
       \A r \in table : r.id > since => Replayed(r)
  /\ step = "register" => cursor = since
  /\ step = "write" <=> page # {}

\* The poller has asked for nothing after the last event of its job.
Polling ==
  cleanups = 0 =>
    /\ \A j \in Job : pollSince[j] = 0 \/ \E r \in RowsOf(j) : r.seq = pollSince[j]
    /\ PollerMissesNothing

IInv == TypeOK /\ Numbered /\ SeqOrdersJob /\ Replaying /\ Polling

-----------------------------------------------------------------------------
(* The operators.                                                          *)

\* A job's next number is greater than all it has.
LEMMA NextSeqIsNew ==
  ASSUME TypeOK, Numbered, NEW j \in Job
  PROVE  /\ NextSeq(j) \in 1 .. nextId
         /\ \A r \in RowsOf(j) : r.seq < NextSeq(j)
<1> DEFINE T == Seqs(j) \cup {0}
<1>1. RowsOf(j) \subseteq table /\ table \subseteq Row /\ MaxEvents \in Nat /\ nextId \in 1 .. MaxEvents + 1
  BY EventsAssumption DEF TypeOK, RowsOf
<1>2. \A r \in RowsOf(j) : r.seq \in 1 .. MaxEvents /\ r.seq < nextId /\ r.id \in 1 .. MaxEvents
  BY <1>1 DEF Row, Numbered
<1>3. T \in SUBSET (0 .. MaxEvents) /\ T # {}
  BY <1>1, <1>2 DEF Seqs
<1>4. Max(T) \in T /\ \A y \in T : y <= Max(T)
  BY <1>1, <1>3, Greatest
<1>5. Max(T) \in 0 .. nextId - 1
  BY <1>1, <1>2, <1>4 DEF Seqs
<1>6. \A r \in RowsOf(j) : r.seq <= Max(T)
  BY <1>4 DEF Seqs
<1> HIDE DEF T
<1>7. NextSeq(j) = Max(T) + 1
  BY DEF NextSeq, T
<1> QED
  BY <1>1, <1>2, <1>5, <1>6, <1>7

\* A row that a page leaves out comes after all it has.
LEMMA PageIsPrefix ==
  ASSUME NEW rows, IsFiniteSet(rows), NEW col, \A r \in rows : r[col] \in Nat
  PROVE  /\ Page(rows, col) \subseteq rows
         /\ \A r \in rows \ Page(rows, col), p \in Page(rows, col) : p[col] < r[col]
<1> DEFINE Below(r) == {s \in rows : s[col] < r[col]}
<1>1. Page(rows, col) = {r \in rows : Cardinality(Below(r)) < PageSize}
  BY DEF Page
<1>2. ASSUME NEW r \in rows, NEW p \in rows, ~(p[col] < r[col])
      PROVE  Cardinality(Below(r)) <= Cardinality(Below(p))
  <2>1. Below(r) \subseteq Below(p)
    BY <1>2
  <2>2. IsFiniteSet(Below(p))
    BY FS_Subset
  <2> QED
    BY <2>1, <2>2, FS_Subset
<1>3. \A r \in rows : Cardinality(Below(r)) \in Nat
  BY FS_Subset, FS_CardinalityType
<1> HIDE DEF Below
<1>4. PageSize \in Nat
  BY EventsAssumption
<1> QED
  BY <1>1, <1>2, <1>3, <1>4

\* A page has no row only when there is none.
LEMMA PageStarts ==
  ASSUME NEW rows, IsFiniteSet(rows), NEW col, \A r \in rows : r[col] \in Nat,
         Page(rows, col) = {}
  PROVE  rows = {}
<1> SUFFICES ASSUME rows # {} PROVE FALSE
  OBVIOUS
<1>1. PICK n \in {r[col] : r \in rows} : \A m \in {r[col] : r \in rows} : n <= m
  <2> {r[col] : r \in rows} \in SUBSET Nat /\ {r[col] : r \in rows} # {}
    OBVIOUS
  <2> QED
    BY Smallest
<1>2. PICK r \in rows : r[col] = n
  BY <1>1
<1>3. {s \in rows : s[col] < r[col]} = {}
  BY <1>1, <1>2
<1>4. r \in Page(rows, col)
  BY <1>3, FS_EmptySet, EventsAssumption DEF Page
<1> QED
  BY <1>4

\* A page leaves nothing out unless there are more rows than it may have.
LEMMA PageIsAll ==
  ASSUME NEW rows, IsFiniteSet(rows), NEW col, \A r \in rows : r[col] \in Nat,
         ~(Cardinality(rows) > PageSize)
  PROVE  rows \subseteq Page(rows, col)
<1> SUFFICES ASSUME NEW r \in rows PROVE r \in Page(rows, col)
  OBVIOUS
<1> DEFINE B == {s \in rows : s[col] < r[col]}
<1>1. B \subseteq rows \ {r}
  OBVIOUS
<1>2. /\ IsFiniteSet(rows \ {r}) /\ Cardinality(rows \ {r}) = Cardinality(rows) - 1
  BY FS_RemoveElement
<1>3. IsFiniteSet(B) /\ Cardinality(B) <= Cardinality(rows \ {r})
  BY <1>1, <1>2, FS_Subset
<1>4. Cardinality(rows) \in Nat /\ Cardinality(B) \in Nat /\ PageSize \in Nat
  BY <1>3, FS_CardinalityType, EventsAssumption
<1> HIDE DEF B
<1>5. Cardinality(B) < PageSize
  BY <1>2, <1>3, <1>4
<1> QED
  BY <1>5 DEF Page, B

-----------------------------------------------------------------------------
(* Types and numbers.                                                      *)

\* The rows of the table, of a page and of the writers.
LEMMA RowTyped ==
  ASSUME NEW r \in Row
  PROVE  r.id \in 1 .. MaxEvents /\ r.job \in Job /\ r.seq \in 1 .. MaxEvents
BY DEF Row

\* What a writer inserts is a row, the newest of all and of its job.
LEMMA Inserted ==
  ASSUME TypeOK, Numbered, NEW w \in Writer, Insert(w)
  PROVE  \E r \in Row :
           /\ r.id = nextId /\ r.job = JobOf[w] /\ r.seq = NextSeq(JobOf[w])
           /\ table' = table \cup {r} /\ inFlight' = [inFlight EXCEPT ![w] = r]
           /\ r.seq <= r.id /\ \A s \in table : s.job = r.job => s.seq < r.seq
<1> DEFINE r == [id |-> nextId, job |-> JobOf[w], seq |-> NextSeq(JobOf[w])]
<1>1. JobOf[w] \in Job /\ nextId \in 1 .. MaxEvents /\ MaxEvents \in Nat
  <2>1. nextId <= MaxEvents /\ nextId \in 1 .. MaxEvents + 1
    BY DEF TypeOK, Insert
  <2>2. JobOf[w] \in Job /\ MaxEvents \in Nat
    BY EventsAssumption
  <2> QED
    BY <2>1, <2>2
<1>2. NextSeq(JobOf[w]) \in 1 .. nextId /\ \A s \in RowsOf(JobOf[w]) : s.seq < NextSeq(JobOf[w])
  BY <1>1, NextSeqIsNew
<1>3. r \in Row
  BY <1>1, <1>2 DEF Row
<1>4. r.seq <= r.id
  BY <1>1, <1>2
<1>5. \A s \in table : s.job = r.job => s.seq < r.seq
  BY <1>2 DEF RowsOf
<1>6. table' = table \cup {r} /\ inFlight' = [inFlight EXCEPT ![w] = r]
  BY DEF Insert
<1> QED
  BY <1>3, <1>4, <1>5, <1>6

\* What a poll returns is a set of rows, and its last number one of theirs.
LEMMA Polled ==
  ASSUME TypeOK, Numbered, NEW j \in Job, Poll(j)
  PROVE  LET rows == ListJob(j, pollSince[j]) IN
         /\ rows \subseteq {r \in RowsOf(j) : r.seq > pollSince[j]}
         /\ \E last \in rows : /\ \A r \in rows : r.seq <= last.seq
                              /\ pollSince' = [pollSince EXCEPT ![j] = last.seq]
         /\ polled' = polled \cup Ids(rows)
         /\ \A r \in RowsOf(j) \ rows, p \in rows : r.seq > pollSince[j] => p.seq < r.seq
<1> DEFINE rest == {r \in RowsOf(j) : r.seq > pollSince[j]}
           rows == ListJob(j, pollSince[j])
           T == {r.seq : r \in rows}
<1>1. rest \subseteq table /\ IsFiniteSet(rest) /\ rest \subseteq Row
  BY FS_Subset DEF RowsOf, Numbered, TypeOK
<1>2. \A r \in rest : r["seq"] \in Nat /\ r["seq"] = r.seq /\ r.seq \in 0 .. MaxEvents
  BY <1>1 DEF Row
<1>3. rows = Page(rest, "seq") /\ rows # {} /\ polled' = polled \cup Ids(rows)
      /\ pollSince' = [pollSince EXCEPT ![j] = Max(T)]
  BY DEF ListJob, Poll
<1> HIDE DEF rest, rows
<1>4. rows \subseteq rest /\ \A r \in rest \ rows, p \in rows : p["seq"] < r["seq"]
  BY <1>1, <1>2, <1>3, PageIsPrefix
<1>5. MaxEvents \in Nat /\ T \in SUBSET (0 .. MaxEvents) /\ T # {}
  BY <1>2, <1>3, <1>4, EventsAssumption
<1>6. Max(T) \in T /\ \A y \in T : y <= Max(T)
  BY <1>5, Greatest
<1>7. \E last \in rows : Max(T) = last.seq /\ \A r \in rows : r.seq <= last.seq
  BY <1>6
<1> HIDE DEF T
<1>8. \A r \in rest \ rows, p \in rows : p.seq < r.seq
  BY <1>2, <1>4
<1> QED
  BY <1>3, <1>4, <1>7, <1>8 DEF rest, rows

\* The first event of a channel, and the rest.
LEMMA HeadAndTail ==
  ASSUME NEW S, NEW s \in Seq(S), s # << >>
  PROVE  /\ Head(s) \in S /\ Tail(s) \in Seq(S) /\ Len(Tail(s)) = Len(s) - 1
         /\ Ids(ToSet(s)) = {Head(s).id} \cup Ids(ToSet(Tail(s)))
<1>1. Len(s) \in Nat \ {0} /\ Head(s) = s[1] /\ Tail(s) \in Seq(S) /\ Len(Tail(s)) = Len(s) - 1
      /\ \A i \in 1 .. Len(s) - 1 : Tail(s)[i] = s[i + 1]
  OBVIOUS
<1>2. ToSet(s) \subseteq {Head(s)} \cup ToSet(Tail(s))
  <2> SUFFICES ASSUME NEW i \in 1 .. Len(s), i # 1 PROVE s[i] \in ToSet(Tail(s))
    BY <1>1 DEF ToSet
  <2>1. i - 1 \in DOMAIN Tail(s) /\ Tail(s)[i - 1] = s[i]
    BY <1>1
  <2> QED
    BY <2>1 DEF ToSet
<1>3. {Head(s)} \cup ToSet(Tail(s)) \subseteq ToSet(s)
  BY <1>1 DEF ToSet
<1> QED
  BY <1>1, <1>2, <1>3 DEF Ids

\* What an event adds to a channel.
LEMMA Appended ==
  ASSUME NEW S, NEW s \in Seq(S), NEW r \in S
  PROVE  /\ Append(s, r) \in Seq(S) /\ Len(Append(s, r)) = Len(s) + 1
         /\ Ids(ToSet(Append(s, r))) = Ids(ToSet(s)) \cup {r.id}
<1>1. Append(s, r) \in Seq(S) /\ Len(Append(s, r)) = Len(s) + 1 /\ Len(s) \in Nat
      /\ Append(s, r)[Len(s) + 1] = r /\ \A i \in 1 .. Len(s) : Append(s, r)[i] = s[i]
  OBVIOUS
<1>2. ToSet(Append(s, r)) = ToSet(s) \cup {r}
  BY <1>1 DEF ToSet
<1> QED
  BY <1>1, <1>2 DEF Ids

\* A row on its way is a row.
LEMMA Typed ==
  ASSUME TypeOK
  PROVE  /\ \A w \in Writer : inFlight[w] # NoRow => inFlight[w] \in Row
         /\ \A r \in table : r \in Row
         /\ NoRow.id = 0 /\ MaxEvents \in Nat /\ MaxConnects \in Nat /\ MaxCleanups \in Nat
         /\ lastId \in Nat /\ since \in Nat /\ cursor \in Nat /\ nextId \in Nat
<1>1. MaxEvents \in Nat /\ MaxConnects \in Nat /\ MaxCleanups \in Nat
  BY EventsAssumption
<1>2. \A w \in Writer : inFlight[w] # NoRow => inFlight[w] \in Row
  BY DEF TypeOK
<1>3. \A r \in table : r \in Row
  BY DEF TypeOK
<1>4. /\ lastId \in 0 .. MaxEvents /\ since \in 0 .. MaxEvents /\ cursor \in 0 .. MaxEvents
      /\ nextId \in 1 .. MaxEvents + 1
  BY DEF TypeOK
<1>5. NoRow.id = 0
  BY DEF NoRow
<1>6. lastId \in Nat /\ since \in Nat /\ cursor \in Nat /\ nextId \in Nat
  BY <1>1, <1>4
<1> QED
  BY <1>1, <1>2, <1>3, <1>5, <1>6

\* What the client has, once it has received a row.
LEMMA Received ==
  ASSUME TypeOK, NEW r, NEW n \in 1 .. MaxEvents, Receive(r, n), r.id \in 1 .. MaxEvents
  PROVE  /\ got' \subseteq 1 .. MaxEvents /\ lastId' \in 0 .. MaxEvents
         /\ ever' \in Seq(1 .. MaxEvents) /\ owedFrom' \in 0 .. MaxEvents + 1
<1>1. ever' \in Seq(1 .. MaxEvents)
  <2>1. ever \in Seq(1 .. MaxEvents) /\ ever' = Append(ever, r.id)
    BY DEF TypeOK, Receive
  <2> QED
    BY <2>1, Appended
<1>2. owedFrom' \in 0 .. MaxEvents + 1
  <2>1. owedFrom \in 0 .. MaxEvents + 1 /\ nextId \in 1 .. MaxEvents + 1 /\ MaxEvents \in Nat
    BY EventsAssumption DEF TypeOK
  <2>2. owedFrom' \in {owedFrom, nextId}
    BY DEF Receive
  <2> QED
    BY <2>1, <2>2
<1>3. got' \subseteq 1 .. MaxEvents /\ lastId' \in 0 .. MaxEvents
  <2>1. got \subseteq 1 .. MaxEvents /\ MaxEvents \in Nat
    BY EventsAssumption DEF TypeOK
  <2>2. got' = got \cup {r.id} /\ lastId' = n
    BY DEF Receive
  <2>3. lastId' \in 0 .. MaxEvents
    BY <2>1, <2>2
  <2> QED
    BY <2>1, <2>2, <2>3, Zenon
<1> QED
  BY <1>1, <1>2, <1>3

\* Each action keeps the types; the numbers of a row stay below nextId.
LEMMA TypeStep ==
  ASSUME TypeOK, Numbered, [Next]_vars
  PROVE  TypeOK'
<1> USE DEF storeVars, connVars, clientVars, pollVars
<1>1. ASSUME NEW w \in Writer, Insert(w) PROVE TypeOK'
  <2>1. PICK r \in Row : table' = table \cup {r} /\ inFlight' = [inFlight EXCEPT ![w] = r]
    BY <1>1, Inserted
  <2>2. nextId' \in 1 .. MaxEvents + 1
    BY <1>1, EventsAssumption DEF Insert, TypeOK
  <2> QED
    BY <1>1, <2>1, <2>2 DEF Insert, TypeOK
<1>2. ASSUME NEW w \in Writer, Notify(w) PROVE TypeOK'
  <2>1. inFlight[w] \in Row /\ inFlight[w].id \in 1 .. MaxEvents
    BY <1>2, Typed, RowTyped DEF Notify
  <2>2. Append(channel, inFlight[w]) \in Seq(Row)
        /\ Len(Append(channel, inFlight[w])) = Len(channel) + 1
    BY <2>1, Appended DEF TypeOK
  <2>3. channel' \in Seq(Row) /\ Len(channel') <= Cap
    <3>1. channel \in Seq(Row) /\ Len(channel) <= Cap /\ Len(channel) \in Nat /\ Cap \in Nat
      BY EventsAssumption DEF TypeOK
    <3>2. \/ channel' = channel
          \/ Len(channel) < Cap /\ channel' = Append(channel, inFlight[w])
      BY <1>2 DEF Notify
    <3> QED
      BY <2>2, <3>1, <3>2
  <2>4. dropped' \subseteq 1 .. MaxEvents
    BY <1>2, <2>1 DEF Notify, TypeOK
  <2> QED
    BY <1>2, <2>3, <2>4 DEF Notify, TypeOK
<1>3. CASE Cleanup
  BY <1>3, EventsAssumption DEF Cleanup, TypeOK
<1>4. CASE Connect
  BY <1>4, EventsAssumption DEF Connect, TypeOK
<1>5. CASE Register
  BY <1>5, EventsAssumption DEF Register, TypeOK
<1>6. CASE ListPage
  BY <1>6 DEF ListPage, TypeOK, ListAll, Page, After
<1>7. CASE ListFails
  BY <1>7 DEF ListFails, TypeOK
<1>8. CASE WriteReplayed
  <2>1. PICK r \in page : Receive(r, r.id) /\ cursor' = r.id /\ page' = page \ {r}
    BY <1>8 DEF WriteReplayed
  <2>2. r.id \in 1 .. MaxEvents /\ nextId \in 1 .. MaxEvents + 1 /\ MaxEvents \in Nat
    BY <2>1, RowTyped, EventsAssumption DEF TypeOK
  <2>3. /\ got' \subseteq 1 .. MaxEvents /\ lastId' \in 0 .. MaxEvents
        /\ ever' \in Seq(1 .. MaxEvents) /\ owedFrom' \in 0 .. MaxEvents + 1
    BY <2>1, <2>2, Received
  <2> QED
    BY <1>8, <2>1, <2>2, <2>3 DEF WriteReplayed, TypeOK
<1>9. CASE WriteLive
  <2>1. Head(channel) \in Row /\ Tail(channel) \in Seq(Row) /\ Len(Tail(channel)) <= Cap
    BY <1>9, HeadAndTail, EventsAssumption DEF WriteLive, TypeOK
  <2>2. /\ Head(channel).id \in 1 .. MaxEvents /\ Head(channel).seq \in 1 .. MaxEvents
        /\ nextId \in 1 .. MaxEvents + 1 /\ MaxEvents \in Nat
    BY <2>1, RowTyped, EventsAssumption DEF TypeOK
  <2>3. /\ got' \subseteq 1 .. MaxEvents /\ lastId' \in 0 .. MaxEvents
        /\ ever' \in Seq(1 .. MaxEvents) /\ owedFrom' \in 0 .. MaxEvents + 1
    BY <1>9, <2>2, Received DEF WriteLive
  <2> QED
    BY <1>9, <2>1, <2>3 DEF WriteLive, TypeOK
<1>10. CASE Disconnect
  <2>1. << >> \in Seq(Row) /\ Len(<< >>) <= Cap /\ 0 \in 0 .. MaxEvents
    BY EventsAssumption
  <2> QED
    BY <1>10, <2>1 DEF Disconnect, TypeOK
<1>11. ASSUME NEW j \in Job, Poll(j) PROVE TypeOK'
  <2>1. PICK last \in RowsOf(j) : /\ pollSince' = [pollSince EXCEPT ![j] = last.seq]
                                  /\ polled' \subseteq polled \cup Ids(RowsOf(j))
    BY <1>11, Polled DEF Ids
  <2>2. last.seq \in 1 .. MaxEvents /\ Ids(RowsOf(j)) \subseteq 1 .. MaxEvents
    BY Typed, RowTyped DEF RowsOf, Ids
  <2>3. pollSince' \in [Job -> 0 .. MaxEvents] /\ polled' \subseteq 1 .. MaxEvents
    <3>1. pollSince \in [Job -> 0 .. MaxEvents] /\ polled \subseteq 1 .. MaxEvents
      BY DEF TypeOK
    <3>2. last.seq \in 0 .. MaxEvents
      BY <2>2, Typed
    <3> QED
      BY <2>1, <2>2, <3>1, <3>2
  <2> QED
    BY <1>11, <2>3 DEF Poll, TypeOK
<1>12. CASE UNCHANGED vars
  BY <1>12 DEF vars, TypeOK
<1> QED
  BY <1>1, <1>2, <1>3, <1>4, <1>5, <1>6, <1>7, <1>8, <1>9, <1>10, <1>11, <1>12 DEF Next

\* Insert alone makes rows and numbers them; a retention only deletes.
LEMMA NumberedStep ==
  ASSUME TypeOK, Numbered, SeqOrdersJob, [Next]_vars
  PROVE  Numbered' /\ SeqOrdersJob'
<1>1. ASSUME NEW w \in Writer, Insert(w) PROVE Numbered' /\ SeqOrdersJob'
  <2>1. PICK r \in Row : /\ table' = table \cup {r} /\ r.id = nextId /\ r.seq <= r.id
                         /\ \A s \in table : s.job = r.job => s.seq < r.seq
    BY <1>1, Inserted
  <2>2. nextId' = nextId + 1
    BY <1>1 DEF Insert
  <2>3. \A s \in table \cup {r} : s.id \in Nat /\ s.seq \in Nat
    BY Typed, RowTyped
  <2>4. Numbered'
    BY <2>1, <2>2, <2>3, FS_AddElement, Typed DEF Numbered
  <2>5. SeqOrdersJob'
    BY <2>1, <2>3 DEF SeqOrdersJob, Numbered
  <2> QED
    BY <2>4, <2>5
<1>2. CASE Cleanup
  BY <1>2, FS_Subset DEF Cleanup, Numbered, SeqOrdersJob
<1>3. CASE UNCHANGED <<table, nextId>>
  BY <1>3 DEF Numbered, SeqOrdersJob
<1> QED
  BY <1>1, <1>2, <1>3 DEF Next, Notify, Connect, Register, ListPage, ListFails, WriteReplayed,
       WriteLive, Disconnect, Poll, vars, storeVars

-----------------------------------------------------------------------------
(* The replay.                                                             *)

\* While a connection lasts, a row that waits for it is written to it, or is
\* dropped by a full channel: it is in no other way forgotten.
LEMMA SeenStays ==
  ASSUME TypeOK, step \in {"list", "write", "live"}, step = "write" <=> page # {},
         step' # "off", [Next]_vars, NEW r \in Row, Seen(r)
  PROVE  Seen(r)'
<1> USE DEF Seen, Pending
<1>1. ASSUME NEW w \in Writer, Insert(w) PROVE Seen(r)'
  <2>1. r.id # inFlight[w].id
    BY <1>1, Typed, RowTyped DEF Insert
  <2>2. \A v \in Writer : v # w => inFlight'[v] = inFlight[v]
    BY <1>1 DEF Insert, TypeOK
  <2>3. got' = got /\ dropped' = dropped /\ channel' = channel /\ page' = page
    BY <1>1 DEF Insert, connVars, clientVars
  <2> QED
    BY <2>1, <2>2, <2>3
<1>2. ASSUME NEW w \in Writer, Notify(w) PROVE Seen(r)'
  <2>1. Subscribed /\ inFlight[w] \in Row
    BY <1>2, Typed DEF Subscribed, Notify
  <2>2. Ids(ToSet(channel')) \cup dropped' = Ids(ToSet(channel)) \cup dropped \cup {inFlight[w].id}
    <3>1. CASE Len(channel) < Cap
      <4>1. channel \in Seq(Row) /\ channel' = Append(channel, inFlight[w]) /\ dropped' = dropped
        BY <1>2, <2>1, <3>1 DEF Notify, TypeOK
      <4>2. Ids(ToSet(channel')) = Ids(ToSet(channel)) \cup {inFlight[w].id}
        BY <2>1, <4>1, Appended
      <4> QED
        BY <4>1, <4>2
    <3>2. CASE ~(Len(channel) < Cap)
      BY <1>2, <2>1, <3>2 DEF Notify
    <3> QED
      BY <3>1, <3>2
  <2>3. \A v \in Writer : v # w => inFlight'[v] = inFlight[v]
    BY <1>2 DEF Notify, TypeOK
  <2>4. got' = got /\ page' = page
    BY <1>2 DEF Notify, connVars, clientVars
  <2> QED
    BY <2>2, <2>3, <2>4
<1>3. CASE ListPage
  <2>1. page = {} /\ UNCHANGED <<inFlight, got, channel, dropped>>
    BY <1>3 DEF ListPage, storeVars, clientVars
  <2> QED
    BY <2>1 DEF Ids
<1>4. CASE WriteReplayed
  <2>1. PICK p \in page : got' = got \cup {p.id} /\ page' = page \ {p}
    BY <1>4 DEF WriteReplayed, Receive
  <2>2. UNCHANGED <<inFlight, channel, dropped>>
    BY <1>4 DEF WriteReplayed, storeVars
  <2> QED
    BY <2>1, <2>2 DEF Ids
<1>5. CASE WriteLive
  <2>1. Ids(ToSet(channel)) = {Head(channel).id} \cup Ids(ToSet(channel'))
    BY <1>5, HeadAndTail DEF WriteLive, TypeOK
  <2>2. got' = got \cup {Head(channel).id} /\ UNCHANGED <<inFlight, page, dropped>>
    BY <1>5 DEF WriteLive, Receive, storeVars, connVars
  <2> QED
    BY <2>1, <2>2
<1>6. CASE UNCHANGED <<inFlight, page, channel, got, dropped>>
  BY <1>6
<1> QED
  BY <1>1, <1>2, <1>3, <1>4, <1>5, <1>6 DEF Next, Cleanup, Connect, Register, ListFails,
       Disconnect, Poll, vars, storeVars, connVars, clientVars

\* A List of all jobs looks beyond the cursor and leaves out what comes after
\* its page; it says so when there is any.
LEMMA Listed ==
  ASSUME TypeOK, Numbered, ListPage
  PROVE  /\ page' \subseteq After(cursor)
         /\ \A r \in After(cursor) \ page' : hasMore' /\ page' # {} /\ \A p \in page' : p.id < r.id
<1> DEFINE rows == After(cursor)
<1>1. rows \subseteq table /\ IsFiniteSet(rows)
  BY FS_Subset DEF After, Numbered
<1>2. \A r \in rows : r["id"] \in Nat /\ r["id"] = r.id
  BY <1>1, Typed, RowTyped
<1>3. page' = Page(rows, "id") /\ hasMore' = (Cardinality(rows) > PageSize)
  BY DEF ListPage, ListAll
<1> HIDE DEF rows
<1>4. page' \subseteq rows /\ \A r \in rows \ page', p \in page' : p.id < r.id
  <2>1. Page(rows, "id") \subseteq rows
        /\ \A r \in rows \ Page(rows, "id"), p \in Page(rows, "id") : p["id"] < r["id"]
    BY <1>1, <1>2, PageIsPrefix
  <2> QED
    BY <1>2, <1>3, <2>1
<1>5. rows \ page' # {} => hasMore'
  BY <1>1, <1>2, <1>3, PageIsAll
<1>6. page' = {} => rows = {}
  BY <1>1, <1>2, <1>3, PageStarts
<1> QED
  BY <1>4, <1>5, <1>6 DEF rows

\* The row a replay writes is the first of its page.
LEMMA Written ==
  ASSUME TypeOK, WriteReplayed
  PROVE  \E p \in page : /\ cursor' = p.id /\ page' = page \ {p} /\ got' = got \cup {p.id}
                         /\ \A q \in page : p.id <= q.id
BY DEF WriteReplayed, Receive

\* Each action keeps what the replay owes: a row is seen once it is, comes with
\* a writer that notifies it, or lies where the replay will look.
LEMMA ReplayStep ==
  ASSUME TypeOK, Numbered, Replaying, [Next]_vars
  PROVE  Replaying'
<1> USE DEF storeVars, connVars, clientVars, pollVars
<1>1. (step = "write" <=> page # {})'
  BY DEF Replaying, Next, Insert, Notify, Cleanup, Connect, Register, ListPage, ListFails,
         WriteReplayed, WriteLive, Disconnect, Poll, vars
<1>2. (step = "register" => cursor = since)'
  BY DEF Replaying, Next, Insert, Notify, Cleanup, Connect, Register, ListPage, ListFails,
         WriteReplayed, WriteLive, Disconnect, Poll, vars
<1>3. ASSUME step' \in {"list", "write", "live"}, since' > 0, ~cutShort',
             NEW r \in table', r.id > since'
      PROVE  Replayed(r)'
  <2>1. ASSUME step \in {"list", "write", "live"}, since' = since, cutShort' = cutShort, r \in table
        PROVE  r \in Row /\ Replayed(r) /\ (Seen(r) => Seen(r)')
    BY <1>3, <2>1, Typed, SeenStays DEF Replaying
  <2>2. ASSUME NEW w \in Writer, Insert(w) PROVE Replayed(r)'
    <3>1. PICK s \in Row : table' = table \cup {s} /\ inFlight' = [inFlight EXCEPT ![w] = s]
      BY <2>2, Inserted
    <3>2. CASE r = s
      BY <3>1, <3>2 DEF Replayed, Seen, Pending, TypeOK
    <3>3. CASE r \in table
      BY <1>3, <2>1, <2>2, <3>3 DEF Insert, Replayed
    <3> QED
      BY <3>1, <3>2, <3>3
  <2>3. CASE Register
    BY <1>2, <1>3, <2>3 DEF Register, Replaying, Replayed
  <2>4. CASE ListPage
    <3>1. r \in table /\ (Seen(r) => Seen(r)') /\ (Seen(r) \/ r.id > cursor)
      BY <1>3, <2>1, <2>4 DEF ListPage, Replayed
    <3>2. CASE r \in page'
      BY <3>2 DEF Replayed, Seen, Pending, Ids
    <3>3. CASE r \in After(cursor) \ page'
      <4>1. hasMore' /\ page' # {} /\ \A p \in page' : p.id < r.id
        BY <2>4, <3>3, Listed
      <4>2. cursor' = cursor /\ step' = "write" /\ r.id > cursor
        BY <2>4, <3>3, <4>1 DEF ListPage, After
      <4> QED
        BY <4>1, <4>2 DEF Replayed
    <3> QED
      BY <3>1, <3>2, <3>3 DEF After, Replayed
  <2>5. CASE WriteReplayed
    <3>1. PICK p \in page : /\ cursor' = p.id /\ page' = page \ {p} /\ got' = got \cup {p.id}
                            /\ \A q \in page : p.id <= q.id
      BY <2>5, Written
    <3>2. Replayed(r) /\ (Seen(r) => Seen(r)')
      BY <1>3, <2>1, <2>5 DEF WriteReplayed
    <3>3. CASE Seen(r)
      BY <3>2, <3>3 DEF Replayed
    <3>4. CASE hasMore /\ \A q \in page : q.id < r.id
      BY <2>5, <3>1, <3>4 DEF WriteReplayed, Replayed
    <3> QED
      BY <2>5, <3>2, <3>3, <3>4 DEF WriteReplayed, Replayed
  <2>6. CASE WriteLive
    BY <1>3, <2>1, <2>6 DEF WriteLive, Replayed
  <2>7. CASE UNCHANGED connVars /\ table' \subseteq table
    BY <1>3, <2>1, <2>7 DEF Replayed
  <2> QED
    BY <1>3, <2>2, <2>3, <2>4, <2>5, <2>6, <2>7
       DEF Next, Notify, Cleanup, Connect, ListFails, Disconnect, Poll, vars
<1> QED
  BY <1>1, <1>2, <1>3 DEF Replaying

-----------------------------------------------------------------------------
(* The poller.                                                             *)

\* A row comes after all the poller has asked for, and a poll skips none.
LEMMA PollStep ==
  ASSUME TypeOK, Numbered, Polling, [Next]_vars
  PROVE  Polling'
<1> SUFFICES ASSUME cleanups' = 0 PROVE Polling'
  BY DEF Polling
<1>1. CASE Cleanup
  BY <1>1 DEF Cleanup, TypeOK
<1>2. ASSUME NEW w \in Writer, Insert(w) PROVE Polling'
  <2>1. PICK r \in Row : /\ table' = table \cup {r} /\ r.job = JobOf[w]
                         /\ \A s \in table : s.job = r.job => s.seq < r.seq
    BY <1>2, Inserted
  <2>2. UNCHANGED <<pollSince, polled, cleanups>>
    BY <1>2 DEF Insert, pollVars
  <2>3. r.seq \in 1 .. MaxEvents /\ r.job \in Job /\ ~(r.seq <= pollSince[r.job])
    <3>1. r.seq \in 1 .. MaxEvents /\ r.job \in Job /\ pollSince[r.job] \in 0 .. MaxEvents
      BY RowTyped DEF TypeOK
    <3>2. pollSince[r.job] = 0 \/ \E s \in table : s.job = r.job /\ s.seq = pollSince[r.job]
      BY <2>2, <3>1 DEF Polling, RowsOf
    <3>3. pollSince[r.job] < r.seq
      BY <2>1, <3>1, <3>2, Typed
    <3> QED
      BY <3>1, <3>3, Typed
  <2> QED
    BY <2>1, <2>2, <2>3 DEF Polling, PollerMissesNothing, RowsOf
<1>3. ASSUME NEW j \in Job, Poll(j) PROVE Polling'
  <2> DEFINE rows == ListJob(j, pollSince[j])
  <2>1. /\ rows \subseteq {r \in RowsOf(j) : r.seq > pollSince[j]}
        /\ polled' = polled \cup Ids(rows)
        /\ \A r \in RowsOf(j) \ rows, p \in rows : r.seq > pollSince[j] => p.seq < r.seq
    BY <1>3, Polled
  <2>2. PICK last \in rows : /\ \A r \in rows : r.seq <= last.seq
                             /\ pollSince' = [pollSince EXCEPT ![j] = last.seq]
    BY <1>3, Polled
  <2> HIDE DEF rows
  <2>3. UNCHANGED <<table, cleanups>>
    BY <1>3 DEF Poll, storeVars
  <2>4. last \in RowsOf(j) /\ pollSince'[j] = last.seq
        /\ \A k \in Job : k # j => pollSince'[k] = pollSince[k]
    BY <2>1, <2>2 DEF TypeOK
  <2>5. \A k \in Job : pollSince'[k] = 0 \/ \E r \in RowsOf(k)' : r.seq = pollSince'[k]
    BY <2>3, <2>4 DEF Polling, RowsOf
  <2>6. ASSUME NEW r \in table, r.seq <= pollSince'[r.job] PROVE r.id \in polled'
    <3>1. CASE r.job # j
      BY <2>1, <2>3, <2>4, <2>6, <3>1, Typed, RowTyped DEF Polling, PollerMissesNothing
    <3>2. CASE r.job = j /\ r.seq <= pollSince[j]
      BY <2>1, <2>3, <3>2 DEF Polling, PollerMissesNothing
    <3>3. CASE r.job = j /\ ~(r.seq <= pollSince[j])
      <4>1. r.seq \in 1 .. MaxEvents /\ last.seq \in 1 .. MaxEvents /\ pollSince[j] \in 0 .. MaxEvents
        BY <2>4, Typed, RowTyped DEF RowsOf, TypeOK
      <4>2. r \in RowsOf(j) /\ r.seq > pollSince[j] /\ ~(last.seq < r.seq)
        BY <2>4, <2>6, <3>3, <4>1, Typed DEF RowsOf
      <4>3. r \in rows
        BY <2>1, <2>2, <4>2
      <4> QED
        BY <2>1, <4>3 DEF Ids
    <3> QED
      BY <3>1, <3>2, <3>3
  <2> QED
    BY <2>3, <2>5, <2>6 DEF Polling, PollerMissesNothing
<1>4. CASE UNCHANGED <<table, pollSince, polled, cleanups>>
  BY <1>4 DEF Polling, PollerMissesNothing, RowsOf
<1> QED
  BY <1>1, <1>2, <1>3, <1>4 DEF Next, Notify, Connect, Register, ListPage, ListFails,
       WriteReplayed, WriteLive, Disconnect, vars, storeVars, pollVars

-----------------------------------------------------------------------------
(* Theorems.                                                               *)

\* The server starts with no row, no reader and nothing owed.
LEMMA InitIInv == Init => IInv
<1> SUFFICES ASSUME Init PROVE IInv
  OBVIOUS
<1>1. << >> \in Seq(Row) /\ << >> \in Seq(1 .. MaxEvents) /\ Len(<< >>) = 0
  OBVIOUS
<1>2. TypeOK
  <2>1. 0 \in 0 .. MaxEvents /\ 0 \in 0 .. MaxEvents + 1 /\ 1 \in 1 .. MaxEvents + 1 /\ 0 <= Cap
        /\ 0 \in 0 .. MaxConnects /\ 0 \in 0 .. MaxCleanups
    BY EventsAssumption
  <2> QED
    BY <1>1, <2>1 DEF Init, TypeOK
<1>3. Numbered /\ SeqOrdersJob /\ Replaying
  BY FS_EmptySet DEF Init, Numbered, SeqOrdersJob, Replaying
<1>4. Polling
  BY DEF Init, Polling, PollerMissesNothing
<1> QED
  BY <1>2, <1>3, <1>4 DEF IInv

\* The inductive invariant holds in every reachable state.
LEMMA Invariance == Spec => []IInv
<1>1. IInv /\ [Next]_vars => IInv'
  BY TypeStep, NumberedStep, ReplayStep, PollStep DEF IInv
<1> QED
  BY <1>1, InitIInv, PTL DEF Spec

\* The columns and Go variables keep their types.
THEOREM TypeCorrect == Spec => []TypeOK
BY Invariance, PTL DEF IInv

\* Within a job the numbers Append gives out order its rows as the keys of the
\* table do, and no two are the same, whatever writers insert at once and
\* whatever the retention has deleted.
THEOREM NumbersOrderJobs == Spec => []SeqOrdersJob
BY Invariance, PTL DEF IInv

\* A client that comes back gets every row after the id it gives: the replay,
\* page by page, hands over to the channel registered before it without a gap,
\* unless a List fails.
THEOREM ResumeComplete == Spec => []ResumeMissesNothing
<1>1. IInv => ResumeMissesNothing
  BY DEF IInv, Replaying, Replayed, Seen, ResumeMissesNothing
<1> QED
  BY <1>1, Invariance, PTL

\* A poller that goes on after the last event it has misses none, as long as
\* the retention has deleted nothing.
THEOREM PollComplete == Spec => []PollerMissesNothing
<1>1. IInv => PollerMissesNothing
  BY DEF IInv, Polling, PollerMissesNothing
<1> QED
  BY <1>1, Invariance, PTL
=============================================================================
