---------------------------- MODULE UploadProofs ----------------------------
(***************************************************************************)
(* Proofs about Upload for every set of files, every plan and any number   *)
(* of workers.  The inductive invariant adds to TypeOK what a worker's     *)
(* place says about the chat (Posted), where a file of the plan is that is *)
(* not in the chat yet (Covered), and that somebody is left to empty the   *)
(* channel (Manned).  For a plan that names each file once (Partitioned)   *)
(* it adds that a file is in one place (Apart) and is not posted again     *)
(* from there (Past), that every posted file is recorded or accounted for  *)
(* (Excuses), and that a worker spares the rows its filter saw (Spared).   *)
(***************************************************************************)
EXTENDS Upload, FiniteSetTheorems, TLAPS

-----------------------------------------------------------------------------
(* The elements of a sequence.                                             *)

\* The elements of a sequence are its entries.
LEMMA Entries ==
  ASSUME NEW S, NEW s \in Seq(S)
  PROVE  /\ \A i \in 1 .. Len(s) : s[i] \in ToSet(s)
         /\ \A x \in ToSet(s) : \E i \in 1 .. Len(s) : x = s[i]
<1>1. DOMAIN s = 1 .. Len(s)
  OBVIOUS
<1> QED
  BY <1>1 DEF ToSet

\* Taking the head off a sequence leaves every other element.
LEMMA HeadTail ==
  ASSUME NEW S, NEW s \in Seq(S), s # << >>
  PROVE  /\ Head(s) \in S /\ Tail(s) \in Seq(S)
         /\ ToSet(s) = {Head(s)} \cup ToSet(Tail(s))
<1> DEFINE t == Tail(s)
<1>1. Head(s) \in S /\ t \in Seq(S) /\ Head(s) = s[1] /\ Len(s) \in Nat \ {0}
  OBVIOUS
<1>2. Len(t) = Len(s) - 1 /\ \A i \in 1 .. Len(s) - 1 : t[i] = s[i + 1]
  OBVIOUS
<1> HIDE DEF t
<1>3. ASSUME NEW x \in ToSet(s) PROVE x \in {Head(s)} \cup ToSet(t)
  <2>1. PICK i \in 1 .. Len(s) : x = s[i]
    BY <1>3, Entries
  <2>2. CASE i = 1
    BY <2>1, <2>2, <1>1
  <2>3. CASE i # 1
    <3>1. i - 1 \in 1 .. Len(t) /\ t[i - 1] = x
      BY <2>1, <2>3, <1>1, <1>2
    <3> QED
      BY <3>1, <1>1, Entries
  <2> QED
    BY <2>2, <2>3
<1>4. Head(s) \in ToSet(s)
  BY <1>1, Entries
<1>5. ASSUME NEW x \in ToSet(t) PROVE x \in ToSet(s)
  <2>1. PICK i \in 1 .. Len(t) : x = t[i]
    BY <1>5, <1>1, Entries
  <2>2. i + 1 \in 1 .. Len(s) /\ s[i + 1] = x
    BY <2>1, <1>1, <1>2
  <2> QED
    BY <2>2, Entries
<1> QED
  BY <1>1, <1>3, <1>4, <1>5 DEF t

\* Appending adds one element.
LEMMA AppendElements ==
  ASSUME NEW S, NEW s \in Seq(S), NEW e \in S
  PROVE  Append(s, e) \in Seq(S) /\ ToSet(Append(s, e)) = ToSet(s) \cup {e}
<1>1. /\ Append(s, e) \in Seq(S) /\ Len(Append(s, e)) = Len(s) + 1
      /\ \A i \in 1 .. Len(s) : Append(s, e)[i] = s[i]
      /\ Append(s, e)[Len(s) + 1] = e
  OBVIOUS
<1>2. ASSUME NEW x \in ToSet(Append(s, e)) PROVE x \in ToSet(s) \cup {e}
  <2>1. PICK i \in 1 .. Len(s) + 1 : x = Append(s, e)[i]
    BY <1>1, <1>2 DEF ToSet
  <2> QED
    BY <2>1, <1>1 DEF ToSet
<1>3. ASSUME NEW x \in ToSet(s) \cup {e} PROVE x \in ToSet(Append(s, e))
  <2>1. CASE x = e
    <3>1. Len(s) + 1 \in 1 .. Len(Append(s, e))
      BY <1>1
    <3> QED
      BY <2>1, <3>1, <1>1 DEF ToSet
  <2>2. CASE x \in ToSet(s)
    <3>1. PICK i \in 1 .. Len(s) : x = s[i]
      BY <2>2 DEF ToSet
    <3>2. i \in 1 .. Len(Append(s, e))
      BY <1>1
    <3> QED
      BY <3>1, <3>2, <1>1 DEF ToSet
  <2> QED
    BY <1>3, <2>1, <2>2
<1> QED
  BY <1>1, <1>2, <1>3

\* The elements of a sequence over S are in S; only << >> has none.
LEMMA Elements ==
  ASSUME NEW S, NEW s \in Seq(S)
  PROVE  ToSet(s) \subseteq S /\ (s # << >> => Len(s) > 0) /\ ToSet(<< >>) = {}
BY DEF ToSet

-----------------------------------------------------------------------------
(* Types.                                                                  *)

\* The flag: only StartRun, TakeAlbum and Finish write it.
LEMMA FlagStep == TypeOK /\ [Next]_vars => canceled' \in BOOLEAN
<1> SUFFICES ASSUME TypeOK, [Next]_vars PROVE canceled' \in BOOLEAN
  OBVIOUS
<1> USE DEF TypeOK
<1>1. CASE StartRun
  BY <1>1 DEF StartRun
<1>2. CASE OpenStore \/ GiveUp \/ Resolve \/ ResolveFails \/ Interrupt \/ Crash \/ UNCHANGED vars
  BY <1>2 DEF OpenStore, GiveUp, Resolve, ResolveFails, Interrupt, Crash, vars
<1>3. CASE Finish
  BY <1>3 DEF Finish
<1>4. ASSUME NEW w \in Worker, WorkerStep(w) PROVE canceled' \in BOOLEAN
  BY <1>4 DEF WorkerStep, TakeAlbum, NoMoreWork, Filter, AlbumEmpty, Precheck, Request, Post,
     SendOk, SendFails, ImageProcessFailed, MarkSent, AlbumSent, MarkFailed, AlbumFailed, control
<1> QED
  BY <1>1, <1>2, <1>3, <1>4 DEF Next

\* The files to record are those of the request.
LEMMA TodoFilled ==
  ASSUME NEW w \in Worker, Precheck(w) \/ Request(w),
         files \in [Worker -> Seq(File)], todo \in [Worker -> Seq(File)]
  PROVE  todo' \in [Worker -> Seq(File)]
<1>1. CASE todo' = [todo EXCEPT ![w] = files[w]]
  BY <1>1
<1>2. CASE todo' = todo
  BY <1>2
<1>3. CASE Precheck(w)
  BY <1>1, <1>2, <1>3 DEF Precheck
<1>4. CASE Request(w)
  BY <1>1, <1>2, <1>4 DEF Request
<1> QED
  BY <1>3, <1>4

\* Every step keeps the values of the other variables in their sets.
LEMMA ValuesStep == TypeOK /\ [Next]_vars => ValuesOK'
<1> SUFFICES ASSUME TypeOK, [Next]_vars PROVE ValuesOK'
  OBVIOUS
<1> USE UploadAssumption DEF TypeOK, ValuesOK, Pc
<1>9. CASE OpenStore
  <2>1. uploads' \in [File -> {"none", "sent", "failed"}]
    BY <1>9 DEF OpenStore, Maintained
  <2>2. excused' \subseteq File
    BY <1>9 DEF OpenStore
  <2> QED
    BY <1>9, <2>1, <2>2 DEF OpenStore, counters, server
<1>10. CASE GiveUp
  BY <1>10 DEF GiveUp, counters, server
<1>1. CASE StartRun
  BY <1>1 DEF StartRun
<1>2. CASE Resolve
  <2>1. work' \in Seq(Albums)
    <3>1. Len(Album) \in Nat /\ Albums = 1 .. Len(Album)
      BY DEF Albums
    <3> QED
      BY <1>2, <3>1 DEF Resolve
  <2>2. pc' \in [Worker -> Pc]
    BY <1>2 DEF Resolve
  <2> QED
    BY <1>2, <2>1, <2>2 DEF Resolve, counters, server
<1>3. CASE ResolveFails
  BY <1>3 DEF ResolveFails, counters, server
<1>4. CASE Finish
  BY <1>4 DEF Finish, counters, server
<1>5. CASE Interrupt
  BY <1>5 DEF Interrupt, counters, server
<1>6. CASE Crash
  <2>1. \A w \in Worker : Unrecorded(w) \subseteq File
    BY Elements DEF Unrecorded, FilesOf
  <2>2. excused' \subseteq File
    BY <1>6, <2>1 DEF Crash
  <2> QED
    BY <1>6, <2>2 DEF Crash, counters, server
<1>7. ASSUME NEW w \in Worker, WorkerStep(w) PROVE ValuesOK'
  <2>1. CASE TakeAlbum(w)
    <3>1. work \in Seq(Albums) /\ work # << >>
      BY <2>1 DEF TakeAlbum
    <3>2. Head(work) \in Albums /\ Tail(work) \in Seq(Albums)
      BY <3>1, HeadTail
    <3>3. Album[Head(work)] \in Seq(File)
      BY <3>2 DEF Albums
    <3>4. files' \in [Worker -> Seq(File)]
      BY <2>1 DEF TakeAlbum
    <3>5. todo' \in [Worker -> Seq(File)] /\ pc' \in [Worker -> Pc]
      <4>1. CASE ctxErr = "canceled"
        BY <2>1, <4>1 DEF TakeAlbum, Goto
      <4>2. CASE ctxErr # "canceled"
        BY <2>1, <3>3, <4>2 DEF TakeAlbum, Goto
      <4> QED
        BY <4>1, <4>2
    <3> QED
      BY <2>1, <3>2, <3>4, <3>5 DEF TakeAlbum, counters, server
  <2>2. CASE NoMoreWork(w)
    BY <2>2 DEF NoMoreWork, Goto, control, counters, server
  <2>3. CASE Filter(w)
    <3>1. Head(todo[w]) \in File /\ Tail(todo[w]) \in Seq(File)
      BY <2>3, HeadTail DEF Filter
    <3>2. Append(files[w], Head(todo[w])) \in Seq(File)
      BY <3>1
    <3>3. todo' \in [Worker -> Seq(File)]
      BY <2>3, <3>1 DEF Filter
    <3>4. /\ files' \in [Worker -> Seq(File)] /\ skippedFiles' \in Nat
          /\ excused' \subseteq File
      <4>1. files' = files \/ files' = [files EXCEPT ![w] = Append(@, Head(todo[w]))]
        BY <2>3 DEF Filter
      <4>2. files' \in [Worker -> Seq(File)]
        <5>1. files \in [Worker -> Seq(File)]
          OBVIOUS
        <5> HIDE DEF TypeOK, ValuesOK, Pc
        <5> QED
          BY <4>1, <3>2, <5>1
      <4>3. skippedFiles' = skippedFiles + 1 \/ skippedFiles' = skippedFiles
        BY <2>3 DEF Filter
      <4>4. skippedFiles' \in Nat
        BY <4>3
      <4>5. excused' \subseteq excused \cup {Head(todo[w])}
        BY <2>3 DEF Filter
      <4>6. excused' \subseteq File
        BY <4>5, <3>1
      <4> QED
        BY <4>2, <4>4, <4>6
    <3> QED
      BY <2>3, <3>3, <3>4 DEF Filter, control, server
  <2>4. CASE AlbumEmpty(w)
    BY <2>4 DEF AlbumEmpty, Goto, control, counters, server
  <2>5. CASE Precheck(w)
    <3>1. pc' \in [Worker -> Pc]
      BY <2>5 DEF Precheck, Goto
    <3>2. todo' \in [Worker -> Seq(File)]
      BY <2>5, TodoFilled
    <3> QED
      BY <2>5, <3>1, <3>2 DEF Precheck, control, counters, server
  <2>6. CASE Request(w)
    <3>1. pc' \in [Worker -> Pc]
      BY <2>6 DEF Request, Goto
    <3>2. todo' \in [Worker -> Seq(File)]
      BY <2>6, TodoFilled
    <3> QED
      BY <2>6, <3>1, <3>2 DEF Request, control, counters, server
  <2>7. CASE Post(w)
    <3>1. chat' \in [File -> Nat] /\ postedNow' \in Seq(File)
      BY <2>7 DEF Post
    <3> QED
      BY <2>7, <3>1 DEF Post, Goto, control, counters
  <2>8. CASE SendOk(w)
    BY <2>8 DEF SendOk, Goto, control, counters, server
  <2>9. CASE SendFails(w)
    <3>1. Unrecorded(w) \subseteq File
      BY Elements DEF Unrecorded, FilesOf
    <3> QED
      BY <2>9, <3>1 DEF SendFails, Goto, control, counters, server
  <2>10. CASE ImageProcessFailed(w)
    BY <2>10 DEF ImageProcessFailed, Goto, control, counters, server
  <2>11. CASE MarkSent(w)
    <3>1. Head(todo[w]) \in File /\ Tail(todo[w]) \in Seq(File)
      BY <2>11, HeadTail DEF MarkSent
    <3>2. uploads' \in [File -> {"none", "sent", "failed"}]
      BY <2>11, <3>1 DEF MarkSent, Store
    <3>4. todo' \in [Worker -> Seq(File)]
      BY <2>11, <3>1 DEF MarkSent
    <3>3. excused' \subseteq File
      BY <2>11, <3>1 DEF MarkSent
    <3> QED
      BY <2>11, <3>2, <3>4, <3>3 DEF MarkSent, control, counters, server
  <2>12. CASE AlbumSent(w)
    <3>1. Len(files[w]) \in Nat
      OBVIOUS
    <3>2. pc' \in [Worker -> Pc]
      BY <2>12 DEF AlbumSent, Goto
    <3>3. sentFiles' \in Nat
      BY <2>12, <3>1 DEF AlbumSent
    <3> QED
      BY <2>12, <3>2, <3>3 DEF AlbumSent, control, server
  <2>13. CASE MarkFailed(w)
    <3>1. Head(todo[w]) \in File /\ Tail(todo[w]) \in Seq(File)
      BY <2>13, HeadTail DEF MarkFailed
    <3>2. uploads' \in [File -> {"none", "sent", "failed"}]
      BY <2>13, <3>1 DEF MarkFailed, Store
    <3>4. todo' \in [Worker -> Seq(File)]
      BY <2>13, <3>1 DEF MarkFailed
    <3> QED
      BY <2>13, <3>2, <3>4 DEF MarkFailed, control, counters, server
  <2>14. CASE AlbumFailed(w)
    <3>1. Len(files[w]) \in Nat
      OBVIOUS
    <3>2. pc' \in [Worker -> Pc]
      BY <2>14 DEF AlbumFailed, Goto
    <3>3. failedFiles' \in Nat
      BY <2>14, <3>1 DEF AlbumFailed
    <3> QED
      BY <2>14, <3>2, <3>3 DEF AlbumFailed, control, server
  <2> QED
    BY <1>7, <2>1, <2>2, <2>3, <2>4, <2>5, <2>6, <2>7, <2>8, <2>9, <2>10, <2>11, <2>12,
       <2>13, <2>14 DEF WorkerStep
<1>8. CASE UNCHANGED vars
  BY <1>8 DEF vars
<1> QED
  BY <1>1, <1>2, <1>3, <1>4, <1>5, <1>6, <1>7, <1>8, <1>9, <1>10 DEF Next

LEMMA TypeInit == Init => TypeOK
<1> SUFFICES ASSUME Init PROVE TypeOK
  OBVIOUS
<1>1. canceled \in BOOLEAN
  BY DEF Init
<1>2. ValuesOK
  BY UploadAssumption DEF Init, ValuesOK, Pc
<1> QED
  BY <1>1, <1>2 DEF TypeOK

\* The variables of the pipeline keep their types.
THEOREM TypeCorrect == Spec => []TypeOK
<1>1. TypeOK /\ [Next]_vars => TypeOK'
  BY FlagStep, ValuesStep DEF TypeOK
<1> QED
  BY TypeInit, <1>1, PTL DEF Spec

-----------------------------------------------------------------------------
(* What steps leave alone.                                                 *)

\* A worker's step leaves the other workers where they are.
LEMMA Others ==
  ASSUME TypeOK, NEW w \in Worker, WorkerStep(w), NEW v \in Worker, v # w
  PROVE  pc'[v] = pc[v] /\ files'[v] = files[v] /\ todo'[v] = todo[v]
<1> USE DEF TypeOK, ValuesOK, Goto
<1>1. CASE TakeAlbum(w) \/ NoMoreWork(w)
  BY <1>1 DEF TakeAlbum, NoMoreWork
<1>2. CASE Filter(w)
  BY <1>2 DEF Filter
<1>3. CASE AlbumEmpty(w) \/ Precheck(w)
  BY <1>3 DEF AlbumEmpty, Precheck
<1>4. CASE Request(w) \/ Post(w) \/ SendOk(w) \/ SendFails(w) \/ ImageProcessFailed(w)
  BY <1>4 DEF Request, Post, SendOk, SendFails, ImageProcessFailed
<1>5. CASE MarkSent(w) \/ AlbumSent(w) \/ MarkFailed(w) \/ AlbumFailed(w)
  BY <1>5 DEF MarkSent, AlbumSent, MarkFailed, AlbumFailed
<1> QED
  BY <1>1, <1>2, <1>3, <1>4, <1>5 DEF WorkerStep

\* Only the server writes the chat.
LEMMA ChatStep ==
  ASSUME TypeOK, [Next]_vars
  PROVE  UNCHANGED chat \/ \E w \in Worker : Post(w)
<1> USE DEF server
<1>1. CASE OpenStore \/ GiveUp \/ StartRun \/ Resolve \/ ResolveFails \/ Finish \/ Interrupt \/ Crash
  BY <1>1 DEF OpenStore, GiveUp, StartRun, Resolve, ResolveFails, Finish, Interrupt, Crash
<1>2. ASSUME NEW w \in Worker, WorkerStep(w), ~Post(w) PROVE UNCHANGED chat
  BY <1>2 DEF WorkerStep, TakeAlbum, NoMoreWork, Filter, AlbumEmpty, Precheck, Request,
     SendOk, SendFails, ImageProcessFailed, MarkSent, AlbumSent, MarkFailed, AlbumFailed
<1>3. CASE UNCHANGED vars
  BY <1>3 DEF vars
<1> QED
  BY <1>1, <1>2, <1>3 DEF Next

InChat(f) == chat[f] > 0

\* What is in the chat stays there.
LEMMA ChatGrows ==
  ASSUME TypeOK, [Next]_vars, NEW f \in File, InChat(f)
  PROVE  InChat(f)'
<1>1. CASE UNCHANGED chat
  BY <1>1 DEF InChat
<1>2. ASSUME NEW w \in Worker, Post(w) PROVE InChat(f)'
  BY <1>2 DEF InChat, Post, TypeOK, ValuesOK
<1> QED
  BY <1>1, <1>2, ChatStep

-----------------------------------------------------------------------------
(* SentMeansPosted.                                                        *)

\* An album whose request is answered is in the chat; so are the files that
\* are still to be recorded as sent.
Posted == \A w \in Worker :
  /\ pc[w] \in {"posted", "markSent"} => \A f \in FilesOf(files[w]) : InChat(f)
  /\ pc[w] = "markSent" => \A f \in FilesOf(todo[w]) : InChat(f)

\* Posted is preserved: MarkSent is reached through Post and SendOk only.
LEMMA PostedStep == TypeOK /\ Posted /\ [Next]_vars => Posted'
<1> SUFFICES ASSUME TypeOK, Posted, [Next]_vars, NEW v \in Worker
             PROVE  /\ pc'[v] \in {"posted", "markSent"} => \A f \in FilesOf(files'[v]) : InChat(f)'
                    /\ pc'[v] = "markSent" => \A f \in FilesOf(todo'[v]) : InChat(f)'
  BY DEF Posted
<1>1. FilesOf(files[v]) \subseteq File /\ FilesOf(todo[v]) \subseteq File
  BY Elements DEF TypeOK, ValuesOK, FilesOf
<1>2. CASE pc'[v] = pc[v] /\ files'[v] = files[v] /\ todo'[v] = todo[v]
  BY <1>1, <1>2, ChatGrows DEF Posted
<1>3. CASE pc'[v] \notin {"posted", "markSent"}
  BY <1>3
<1>4. CASE OpenStore \/ GiveUp \/ StartRun \/ ResolveFails \/ Finish \/ Interrupt \/ UNCHANGED vars
  BY <1>2, <1>4 DEF OpenStore, GiveUp, StartRun, ResolveFails, Finish, Interrupt, vars
<1>5. CASE Resolve \/ Crash
  BY <1>3, <1>5 DEF Resolve, Crash
<1>6. ASSUME NEW w \in Worker, WorkerStep(w), w # v PROVE pc'[v] = pc[v] /\ files'[v] = files[v] /\ todo'[v] = todo[v]
  BY <1>6, Others
<1>7. CASE WorkerStep(v)
  <2> USE DEF TypeOK, ValuesOK, Goto
  <2>1. CASE Post(v)
    <3>1. pc'[v] = "posted" /\ files'[v] = files[v]
      BY <2>1 DEF Post
    <3>2. \A f \in FilesOf(files[v]) : InChat(f)'
      BY <2>1, <1>1 DEF Post, InChat
    <3> QED
      BY <3>1, <3>2
  <2>2. CASE SendOk(v)
    <3>1. /\ pc[v] = "posted" /\ pc'[v] = "markSent"
          /\ files'[v] = files[v] /\ todo'[v] = files[v]
      BY <2>2 DEF SendOk
    <3> QED
      BY <3>1, <1>1, ChatGrows DEF Posted
  <2>3. CASE MarkSent(v)
    <3>1. /\ pc[v] = "markSent" /\ pc'[v] = pc[v] /\ files'[v] = files[v]
          /\ todo[v] # << >> /\ todo'[v] = Tail(todo[v])
      BY <2>3 DEF MarkSent
    <3>2. FilesOf(todo'[v]) \subseteq FilesOf(todo[v])
      BY <3>1, HeadTail DEF FilesOf
    <3> QED
      BY <3>1, <3>2, <1>1, ChatGrows DEF Posted
  <2>4. CASE Filter(v) \/ MarkFailed(v)
    BY <2>4, <1>3 DEF Filter, MarkFailed
  <2>5. CASE TakeAlbum(v) \/ NoMoreWork(v) \/ AlbumEmpty(v) \/ AlbumSent(v) \/ AlbumFailed(v)
    BY <2>5, <1>3 DEF TakeAlbum, NoMoreWork, AlbumEmpty, AlbumSent, AlbumFailed
  <2>6. CASE Precheck(v) \/ Request(v) \/ SendFails(v) \/ ImageProcessFailed(v)
    BY <2>6, <1>3 DEF Precheck, Request, SendFails, ImageProcessFailed
  <2> QED
    BY <1>7, <2>1, <2>2, <2>3, <2>4, <2>5, <2>6 DEF WorkerStep
<1> QED
  BY <1>2, <1>4, <1>5, <1>6, <1>7 DEF Next

\* A row turns to 'sent' in MarkSent only.
LEMMA SentStep == TypeOK /\ Posted /\ SentMeansPosted /\ [Next]_vars => SentMeansPosted'
<1> SUFFICES ASSUME TypeOK, Posted, SentMeansPosted, [Next]_vars,
                    NEW f \in File, uploads'[f] = "sent"
             PROVE  InChat(f)'
  BY DEF SentMeansPosted, InChat
<1>1. CASE uploads[f] = "sent"
  BY <1>1, ChatGrows DEF SentMeansPosted, InChat
<1>2. CASE GiveUp \/ StartRun \/ Resolve \/ ResolveFails \/ Finish \/ Interrupt \/ Crash \/ UNCHANGED vars
  BY <1>1, <1>2 DEF GiveUp, StartRun, Resolve, ResolveFails, Finish, Interrupt, Crash, vars
<1>4. CASE OpenStore
  BY <1>1, <1>4 DEF OpenStore, Maintained
<1>3. ASSUME NEW w \in Worker, WorkerStep(w) PROVE InChat(f)'
  <2>1. CASE MarkSent(w)
    <3>1. CASE f = Head(todo[w])
      <4>1. f \in FilesOf(todo[w]) /\ pc[w] = "markSent"
        BY <2>1, <3>1, HeadTail DEF MarkSent, FilesOf, TypeOK, ValuesOK
      <4> QED
        BY <4>1, ChatGrows DEF Posted
    <3>2. CASE f # Head(todo[w])
      BY <1>1, <2>1, <3>2 DEF MarkSent, Store, TypeOK, ValuesOK
    <3> QED
      BY <3>1, <3>2
  <2>2. CASE MarkFailed(w)
    BY <1>1, <2>2 DEF MarkFailed, Store, TypeOK, ValuesOK
  <2>3. CASE ~MarkSent(w) /\ ~MarkFailed(w)
    <3>1. UNCHANGED uploads
      BY <1>3, <2>3 DEF WorkerStep, TakeAlbum, NoMoreWork, Filter, AlbumEmpty, Precheck, Request, Post,
         SendOk, SendFails, ImageProcessFailed, AlbumSent, AlbumFailed
    <3> QED
      BY <1>1, <3>1
  <2> QED
    BY <2>1, <2>2, <2>3
<1> QED
  BY <1>2, <1>3, <1>4 DEF Next

\* The checkpoint never claims more than was done (markSent, run.go:262).
THEOREM SentOnlyAfterPost == Spec => []SentMeansPosted
<1>1. Init => Posted /\ SentMeansPosted
  BY DEF Init, Posted, SentMeansPosted
<1> QED
  BY <1>1, TypeCorrect, PostedStep, SentStep, PTL DEF Spec

-----------------------------------------------------------------------------
(* SuccessMeansDelivered.                                                  *)

\* The run may still end with 0.
Clean == phase = "working" /\ ~canceled /\ failedFiles = 0

\* Worker w has file f in hand.
Holds(w, f) ==
  \/ pc[w] = "filter" /\ f \in FilesOf(todo[w])
  \/ pc[w] \notin {"exited", "take"} /\ f \in FilesOf(files[w])

\* As long as the run may end with 0, a file of the plan is in the chat, in an
\* album of the channel or in the hands of a worker.
Covered == Clean =>
  \A a \in Albums : \A f \in FilesOf(Album[a]) :
    InChat(f) \/ a \in ToSet(work) \/ \E w \in Worker : Holds(w, f)

\* A worker past the filter has something to send.
SomethingToSend == \A w \in Worker : pc[w] \notin {"exited", "take", "filter"} => files[w] # << >>

\* While there are albums in the channel, somebody is there to take them.
Manned == phase = "working" /\ ~canceled => work = << >> \/ \E w \in Worker : pc[w] # "exited"

\* SomethingToSend is preserved: Precheck is the way past the filter.
LEMMA SomethingStep == TypeOK /\ SomethingToSend /\ [Next]_vars => SomethingToSend'
<1> SUFFICES ASSUME TypeOK, SomethingToSend, [Next]_vars, NEW v \in Worker,
                    pc'[v] \notin {"exited", "take", "filter"}
             PROVE  files'[v] # << >>
  BY DEF SomethingToSend
<1>1. CASE pc'[v] = pc[v] /\ files'[v] = files[v]
  BY <1>1 DEF SomethingToSend
<1>2. CASE OpenStore \/ GiveUp \/ StartRun \/ ResolveFails \/ Finish \/ Interrupt \/ UNCHANGED vars
  BY <1>1, <1>2 DEF OpenStore, GiveUp, StartRun, ResolveFails, Finish, Interrupt, vars
<1>3. CASE Resolve \/ Crash
  BY <1>3 DEF Resolve, Crash
<1>4. ASSUME NEW w \in Worker, WorkerStep(w), w # v PROVE pc'[v] = pc[v] /\ files'[v] = files[v]
  BY <1>4, Others
<1>5. CASE WorkerStep(v)
  <2> USE DEF TypeOK, ValuesOK, Goto
  <2>1. CASE Precheck(v)
    BY <2>1 DEF Precheck
  <2>2. CASE TakeAlbum(v) \/ NoMoreWork(v) \/ Filter(v) \/ AlbumEmpty(v) \/ AlbumSent(v) \/ AlbumFailed(v)
    BY <2>2 DEF TakeAlbum, NoMoreWork, Filter, AlbumEmpty, AlbumSent, AlbumFailed
  <2>3. CASE Request(v) \/ Post(v) \/ SendOk(v) \/ SendFails(v) \/ ImageProcessFailed(v)
    BY <2>3 DEF Request, Post, SendOk, SendFails, ImageProcessFailed, SomethingToSend
  <2>4. CASE MarkSent(v) \/ MarkFailed(v)
    BY <2>4 DEF MarkSent, MarkFailed, SomethingToSend
  <2> QED
    BY <1>5, <2>1, <2>2, <2>3, <2>4 DEF WorkerStep
<1> QED
  BY <1>1, <1>2, <1>3, <1>4, <1>5 DEF Next

\* Manned is preserved: a worker leaves an open channel only if it is empty or
\* the run is cancelled, and it says so.
LEMMA MannedStep == TypeOK /\ Manned /\ [Next]_vars => Manned'
<1> SUFFICES ASSUME TypeOK, Manned, [Next]_vars, phase' = "working", ~canceled', work' # << >>
             PROVE  \E v \in Worker : pc'[v] # "exited"
  BY DEF Manned
<1>1. CASE OpenStore \/ GiveUp \/ StartRun \/ ResolveFails \/ Finish \/ Crash
  BY <1>1 DEF OpenStore, GiveUp, StartRun, ResolveFails, Finish, Crash
<1>2. CASE Interrupt \/ UNCHANGED vars
  BY <1>2 DEF Interrupt, vars, Manned
<1>3. CASE Resolve
  <2>1. PICK some \in SUBSET Worker :
          /\ Cardinality(some) =
               IF Cardinality(Worker) > Len(Album) THEN Len(Album) ELSE Cardinality(Worker)
          /\ pc' = [w \in Worker |-> IF w \in some THEN "take" ELSE "exited"]
    BY <1>3 DEF Resolve
  <2>2. Cardinality(Worker) \in Nat /\ Cardinality(Worker) # 0
    BY UploadAssumption, FS_CardinalityType, FS_EmptySet
  <2>3. Len(Album) \in Nat /\ Len(Album) # 0
    BY UploadAssumption
  <2>4. some # {}
    BY <2>1, <2>2, <2>3, FS_EmptySet
  <2> QED
    BY <2>1, <2>4
<1>4. ASSUME NEW w \in Worker, WorkerStep(w) PROVE \E v \in Worker : pc'[v] # "exited"
  <2> USE DEF TypeOK, ValuesOK, Goto, control
  <2>1. CASE TakeAlbum(w)
    BY <2>1 DEF TakeAlbum
  <2>2. CASE NoMoreWork(w)
    BY <2>2 DEF NoMoreWork
  <2>3. CASE Filter(w)
    BY <2>3 DEF Filter
  <2>4. CASE AlbumEmpty(w) \/ Precheck(w) \/ Request(w) \/ Post(w) \/ SendOk(w) \/ SendFails(w)
    BY <2>4 DEF AlbumEmpty, Precheck, Request, Post, SendOk, SendFails
  <2>5. CASE ImageProcessFailed(w) \/ MarkSent(w) \/ AlbumSent(w) \/ MarkFailed(w) \/ AlbumFailed(w)
    BY <2>5 DEF ImageProcessFailed, MarkSent, AlbumSent, MarkFailed, AlbumFailed
  <2> QED
    BY <1>4, <2>1, <2>2, <2>3, <2>4, <2>5 DEF WorkerStep
<1> QED
  BY <1>1, <1>2, <1>3, <1>4 DEF Next

\* What a worker holds goes into the chat before it lets go of it, unless
\* the run fails.
LEMMA HoldsStep ==
  ASSUME TypeOK, SentMeansPosted, Posted, SomethingToSend, [Next]_vars,
         NEW w \in Worker, WorkerStep(w), NEW f \in File, Holds(w, f),
         failedFiles = 0, failedFiles' = 0
  PROVE  InChat(f)' \/ Holds(w, f)'
<1> USE DEF TypeOK, ValuesOK, Goto
<1>1. CASE TakeAlbum(w) \/ NoMoreWork(w)
  BY <1>1 DEF TakeAlbum, NoMoreWork, Holds
<1>2. CASE Filter(w)
  <2> DEFINE g == Head(todo[w])
  <2>1. /\ pc[w] = "filter" /\ pc'[w] = "filter"
        /\ todo[w] # << >> /\ todo'[w] = Tail(todo[w])
    BY <1>2 DEF Filter
  <2>2. g \in File /\ FilesOf(todo[w]) = {g} \cup FilesOf(todo'[w])
    BY <2>1, HeadTail DEF FilesOf
  <2>3. files'[w] = files[w] \/ files'[w] = Append(files[w], g)
    BY <1>2 DEF Filter
  <2>4. FilesOf(Append(files[w], g)) = FilesOf(files[w]) \cup {g}
    BY <2>2, AppendElements DEF FilesOf
  <2>5. CASE f \in FilesOf(files[w]) \/ f \in FilesOf(todo'[w])
    BY <2>1, <2>3, <2>4, <2>5 DEF Holds
  <2>6. CASE f = g /\ files'[w] = Append(files[w], g)
    BY <2>1, <2>4, <2>6 DEF Holds
  <2>7. CASE f = g /\ files'[w] # Append(files[w], g)
    <3>1. uploads[g] = "sent"
      BY <1>2, <2>7 DEF Filter, IsDone
    <3> QED
      BY <2>7, <3>1, ChatGrows DEF SentMeansPosted, InChat
  <2> QED
    BY <2>1, <2>2, <2>5, <2>6, <2>7 DEF Holds
<1>3. CASE AlbumEmpty(w)
  BY <1>3, Elements DEF AlbumEmpty, Holds, FilesOf
<1>4. CASE Precheck(w)
  BY <1>4, Elements DEF Precheck, Holds, FilesOf
<1>5. CASE Request(w) \/ Post(w) \/ SendOk(w) \/ SendFails(w) \/ ImageProcessFailed(w)
  BY <1>5 DEF Request, Post, SendOk, SendFails, ImageProcessFailed, Holds
<1>6. CASE MarkSent(w) \/ MarkFailed(w)
  BY <1>6 DEF MarkSent, MarkFailed, Holds
<1>7. CASE AlbumSent(w)
  <2>1. pc[w] = "markSent" /\ f \in FilesOf(files[w])
    BY <1>7 DEF AlbumSent, Holds
  <2> QED
    BY <2>1, ChatGrows DEF Posted
<1>8. CASE AlbumFailed(w)
  <2>1. files[w] # << >> /\ failedFiles' = failedFiles + Len(files[w])
    BY <1>8 DEF AlbumFailed, SomethingToSend
  <2> QED
    BY <2>1, Elements
<1> QED
  BY <1>1, <1>2, <1>3, <1>4, <1>5, <1>6, <1>7, <1>8 DEF WorkerStep

\* A worker's step takes an album out of the channel only to hold its files.
LEMMA ChannelStep ==
  ASSUME TypeOK, NEW w \in Worker, WorkerStep(w), ~canceled',
         NEW a \in Albums, NEW f \in FilesOf(Album[a]), a \in ToSet(work)
  PROVE  a \in ToSet(work') \/ Holds(w, f)'
<1> USE DEF TypeOK, ValuesOK
<1>1. CASE TakeAlbum(w)
  <2>1. work # << >> /\ work' = Tail(work)
    BY <1>1 DEF TakeAlbum
  <2>2. ToSet(work) = {Head(work)} \cup ToSet(work')
    BY <2>1, HeadTail
  <2>3. ctxErr # "canceled"
    BY <1>1 DEF TakeAlbum
  <2>4. pc'[w] = "filter" /\ todo'[w] = Album[Head(work)]
    BY <1>1, <2>3 DEF TakeAlbum, Goto
  <2> QED
    BY <2>2, <2>4 DEF Holds
<1>2. CASE ~TakeAlbum(w)
  <2>1. UNCHANGED work
    BY <1>2 DEF WorkerStep, NoMoreWork, Filter, AlbumEmpty, Precheck, Request, Post,
       SendOk, SendFails, ImageProcessFailed, MarkSent, AlbumSent, MarkFailed, AlbumFailed
  <2> QED
    BY <2>1
<1> QED
  BY <1>1, <1>2

\* A run that may end with 0 might have before.
LEMMA CleanStep ==
  ASSUME TypeOK, NEW w \in Worker, WorkerStep(w), Clean'
  PROVE  Clean
<1> USE DEF TypeOK, ValuesOK, Clean, control, counters
<1>1. CASE TakeAlbum(w)
  BY <1>1 DEF TakeAlbum
<1>2. CASE AlbumFailed(w)
  <2>1. Len(files[w]) \in Nat /\ failedFiles' = failedFiles + Len(files[w])
    BY <1>2 DEF AlbumFailed
  <2>2. failedFiles = 0
    BY <2>1
  <2> QED
    BY <1>2, <2>2 DEF AlbumFailed
<1>3. CASE Filter(w)
  BY <1>3 DEF Filter
<1>4. CASE NoMoreWork(w) \/ AlbumEmpty(w) \/ Precheck(w) \/ Request(w) \/ Post(w) \/ SendOk(w)
  BY <1>4 DEF NoMoreWork, AlbumEmpty, Precheck, Request, Post, SendOk
<1>5. CASE SendFails(w) \/ ImageProcessFailed(w) \/ MarkSent(w) \/ AlbumSent(w) \/ MarkFailed(w)
  BY <1>5 DEF SendFails, ImageProcessFailed, MarkSent, AlbumSent, MarkFailed
<1> QED
  BY <1>1, <1>2, <1>3, <1>4, <1>5 DEF WorkerStep

CoverInv == SentMeansPosted /\ Posted /\ SomethingToSend /\ Covered

\* Covered is preserved.
LEMMA CoveredStep == TypeOK /\ CoverInv /\ [Next]_vars => Covered'
<1> SUFFICES ASSUME TypeOK, CoverInv, [Next]_vars, Clean',
                    NEW a \in Albums, NEW f \in FilesOf(Album[a])
             PROVE  InChat(f)' \/ a \in ToSet(work') \/ \E w \in Worker : Holds(w, f)'
  BY DEF Covered
<1>1. f \in File
  <2>1. Album[a] \in Seq(File)
    BY UploadAssumption DEF Albums
  <2> QED
    BY <2>1, Elements DEF FilesOf
<1>2. CASE OpenStore \/ GiveUp \/ StartRun \/ ResolveFails \/ Finish \/ Crash
  BY <1>2 DEF OpenStore, GiveUp, StartRun, ResolveFails, Finish, Crash, Clean
<1>3. CASE Resolve
  BY <1>3 DEF Resolve, ToSet
<1>4. CASE Interrupt \/ UNCHANGED vars
  <2>1. UNCHANGED <<phase, canceled, failedFiles, chat, work, pc, todo, files>>
    BY <1>4 DEF Interrupt, vars, counters, server
  <2> QED
    BY <2>1 DEF CoverInv, Covered, Clean, InChat, Holds
<1>5. ASSUME NEW w \in Worker, WorkerStep(w)
      PROVE  InChat(f)' \/ a \in ToSet(work') \/ \E v \in Worker : Holds(v, f)'
  <2>1. Clean
    BY <1>5, CleanStep
  <2>2. CASE InChat(f)
    BY <1>1, <2>2, ChatGrows
  <2>3. CASE a \in ToSet(work)
    BY <1>5, <2>3, ChannelStep DEF Clean
  <2>4. ASSUME NEW v \in Worker, Holds(v, f) PROVE InChat(f)' \/ Holds(v, f)'
    <3>1. CASE v = w
      BY <1>1, <1>5, <2>1, <2>4, <3>1, HoldsStep DEF CoverInv, Clean
    <3>2. CASE v # w
      BY <1>5, <2>4, <3>2, Others DEF Holds
    <3> QED
      BY <3>1, <3>2
  <2> QED
    BY <2>1, <2>2, <2>3, <2>4 DEF CoverInv, Covered
<1> QED
  BY <1>2, <1>3, <1>4, <1>5 DEF Next

\* The exit code 0 is given when every file is in the chat, and stays true.
LEMMA DeliveredStep ==
  TypeOK /\ Covered /\ Manned /\ SuccessMeansDelivered /\ [Next]_vars => SuccessMeansDelivered'
<1> SUFFICES ASSUME TypeOK, Covered, Manned, SuccessMeansDelivered, [Next]_vars, exit' = 0,
                    NEW a \in Albums, NEW f \in FilesOf(Album[a])
             PROVE  InChat(f)'
  BY DEF SuccessMeansDelivered, InChat
<1>1. f \in File
  <2>1. Album[a] \in Seq(File)
    BY UploadAssumption DEF Albums
  <2> QED
    BY <2>1, Elements DEF FilesOf
<1>2. CASE exit = 0
  BY <1>1, <1>2, ChatGrows DEF SuccessMeansDelivered, InChat
<1>3. CASE Finish
  <2>1. Clean
    BY <1>3 DEF Finish, Clean, TypeOK, ValuesOK
  <2>2. \A w \in Worker : ~Holds(w, f)
    BY <1>3 DEF Finish, AllExited, Holds
  <2>3. work = << >>
    BY <1>3, <2>1 DEF Finish, AllExited, Manned, Clean
  <2>4. a \notin ToSet(work)
    BY <2>3, Elements DEF TypeOK, ValuesOK
  <2>5. InChat(f)
    BY <2>1, <2>2, <2>4 DEF Covered
  <2> QED
    BY <1>1, <2>5, ChatGrows
<1>4. CASE OpenStore \/ GiveUp \/ ResolveFails \/ Crash
  BY <1>4 DEF OpenStore, GiveUp, ResolveFails, Crash
<1>5. CASE StartRun \/ Resolve \/ Interrupt \/ UNCHANGED vars
  BY <1>2, <1>5 DEF StartRun, Resolve, Interrupt, vars
<1>6. ASSUME NEW w \in Worker, WorkerStep(w) PROVE exit' = exit
  BY <1>6 DEF WorkerStep, TakeAlbum, NoMoreWork, Filter, AlbumEmpty, Precheck, Request, Post,
     SendOk, SendFails, ImageProcessFailed, MarkSent, AlbumSent, MarkFailed, AlbumFailed, control
<1> QED
  BY <1>2, <1>3, <1>4, <1>5, <1>6 DEF Next

\* A run that exits with 0 leaves no file of the plan out of the chat, with any
\* number of files, albums, workers and earlier runs (Run, run.go:23-110).
THEOREM SuccessDelivers == Spec => []SuccessMeansDelivered
<1>1. Init => CoverInv /\ Manned /\ SuccessMeansDelivered
  BY DEF Init, CoverInv, SentMeansPosted, Posted, SomethingToSend, Covered, Clean, Manned,
     SuccessMeansDelivered
<1>2. TypeOK /\ CoverInv /\ [Next]_vars => CoverInv'
  BY SentStep, PostedStep, SomethingStep, CoveredStep DEF CoverInv
<1>3. TypeOK /\ CoverInv /\ Manned /\ SuccessMeansDelivered /\ [Next]_vars => SuccessMeansDelivered'
  BY DeliveredStep DEF CoverInv
<1> QED
  BY <1>1, <1>2, <1>3, TypeCorrect, MannedStep, PTL DEF Spec
-----------------------------------------------------------------------------
(* PostedOncePerRun, RepostExcused and SentIsFinal, for a plan that names  *)
(* each file once.                                                         *)

\* The plan is a partition of the files that were found: what PlanIsPartition
\* (Preparation) says of the albums the planner makes.
Partitioned ==
  \A a, b \in Albums : \A i \in 1 .. Len(Album[a]), k \in 1 .. Len(Album[b]) :
    Album[a][i] = Album[b][k] => a = b /\ i = k

Once(s) == \A i, j \in 1 .. Len(s) : i # j => s[i] # s[j]

\* A sequence without repetition keeps none in its tail, which has lost the head.
LEMMA OnceTail ==
  ASSUME NEW S, NEW s \in Seq(S), s # << >>, Once(s)
  PROVE  Once(Tail(s)) /\ Head(s) \notin ToSet(Tail(s))
<1> DEFINE t == Tail(s)
<1>1. t \in Seq(S) /\ Head(s) = s[1] /\ Len(s) \in Nat \ {0}
  OBVIOUS
<1>2. Len(t) = Len(s) - 1 /\ \A i \in 1 .. Len(s) - 1 : t[i] = s[i + 1]
  OBVIOUS
<1> HIDE DEF t
<1>3. Once(t)
  <2> SUFFICES ASSUME NEW i \in 1 .. Len(t), NEW j \in 1 .. Len(t), i # j PROVE t[i] # t[j]
    BY DEF Once
  <2>1. i + 1 \in 1 .. Len(s) /\ j + 1 \in 1 .. Len(s) /\ i + 1 # j + 1
    BY <1>1, <1>2
  <2> QED
    BY <2>1, <1>2 DEF Once
<1>4. ASSUME Head(s) \in ToSet(t) PROVE FALSE
  <2>1. PICK i \in 1 .. Len(t) : Head(s) = t[i]
    BY <1>4, <1>1, Entries
  <2>2. i + 1 \in 1 .. Len(s) /\ 1 \in 1 .. Len(s) /\ i + 1 # 1 /\ s[i + 1] = s[1]
    BY <2>1, <1>1, <1>2
  <2> QED
    BY <2>2 DEF Once
<1> QED
  BY <1>3, <1>4 DEF t

\* Two sequences without repetition and with no element in common make one.
LEMMA OnceConcat ==
  ASSUME NEW S, NEW s \in Seq(S), NEW t \in Seq(S),
         Once(s), Once(t), ToSet(s) \cap ToSet(t) = {}
  PROVE  Once(s \o t)
<1>1. Len(s) \in Nat /\ Len(t) \in Nat /\ Len(s \o t) = Len(s) + Len(t)
  OBVIOUS
<1>2. \A i \in 1 .. Len(s) + Len(t) :
        (s \o t)[i] = IF i <= Len(s) THEN s[i] ELSE t[i - Len(s)]
  OBVIOUS
<1> SUFFICES ASSUME NEW i \in 1 .. Len(s) + Len(t), NEW j \in 1 .. Len(s) + Len(t), i # j
             PROVE  (s \o t)[i] # (s \o t)[j]
  BY <1>1 DEF Once
<1>3. \A k \in 1 .. Len(s) : s[k] \in ToSet(s)
  BY Entries
<1>4. \A k \in 1 .. Len(t) : t[k] \in ToSet(t)
  BY Entries
<1>5. CASE i <= Len(s) /\ j <= Len(s)
  <2>1. i \in 1 .. Len(s) /\ j \in 1 .. Len(s)
    BY <1>1, <1>5
  <2> QED
    BY <1>2, <1>5, <2>1 DEF Once
<1>6. CASE i > Len(s) /\ j > Len(s)
  <2>1. i - Len(s) \in 1 .. Len(t) /\ j - Len(s) \in 1 .. Len(t) /\ i - Len(s) # j - Len(s)
    BY <1>1, <1>6
  <2>2. (s \o t)[i] = t[i - Len(s)] /\ (s \o t)[j] = t[j - Len(s)]
    BY <1>1, <1>2, <1>6
  <2> QED
    BY <2>1, <2>2 DEF Once
<1>7. CASE i <= Len(s) /\ j > Len(s)
  <2>1. i \in 1 .. Len(s) /\ j - Len(s) \in 1 .. Len(t)
    BY <1>1, <1>7
  <2>2. (s \o t)[i] = s[i] /\ (s \o t)[j] = t[j - Len(s)]
    BY <1>1, <1>2, <1>7
  <2> QED
    BY <1>3, <1>4, <2>1, <2>2
<1>8. CASE i > Len(s) /\ j <= Len(s)
  <2>1. j \in 1 .. Len(s) /\ i - Len(s) \in 1 .. Len(t)
    BY <1>1, <1>8
  <2>2. (s \o t)[j] = s[j] /\ (s \o t)[i] = t[i - Len(s)]
    BY <1>1, <1>2, <1>8
  <2> QED
    BY <1>3, <1>4, <2>1, <2>2
<1> QED
  BY <1>1, <1>5, <1>6, <1>7, <1>8

\* The elements of a concatenation.
LEMMA ConcatElements ==
  ASSUME NEW S, NEW s \in Seq(S), NEW t \in Seq(S)
  PROVE  s \o t \in Seq(S) /\ ToSet(s \o t) = ToSet(s) \cup ToSet(t)
<1>1. Len(s) \in Nat /\ Len(t) \in Nat /\ Len(s \o t) = Len(s) + Len(t) /\ s \o t \in Seq(S)
  OBVIOUS
<1>2. \A i \in 1 .. Len(s) + Len(t) :
        (s \o t)[i] = IF i <= Len(s) THEN s[i] ELSE t[i - Len(s)]
  OBVIOUS
<1>3. ASSUME NEW x \in ToSet(s \o t) PROVE x \in ToSet(s) \cup ToSet(t)
  <2>1. PICK i \in 1 .. Len(s) + Len(t) : x = (s \o t)[i]
    BY <1>1, <1>3, Entries
  <2>2. CASE i <= Len(s)
    <3>1. i \in 1 .. Len(s) /\ x = s[i]
      BY <1>1, <1>2, <2>1, <2>2
    <3> QED
      BY <3>1, Entries
  <2>3. CASE i > Len(s)
    <3>1. i - Len(s) \in 1 .. Len(t) /\ x = t[i - Len(s)]
      BY <1>1, <1>2, <2>1, <2>3
    <3> QED
      BY <3>1, Entries
  <2> QED
    BY <1>1, <2>2, <2>3
<1>4. ASSUME NEW x \in ToSet(s) PROVE x \in ToSet(s \o t)
  <2>1. PICK i \in 1 .. Len(s) : x = s[i]
    BY <1>4, Entries
  <2>2. i \in 1 .. Len(s \o t) /\ (s \o t)[i] = x
    BY <1>1, <1>2, <2>1
  <2> QED
    BY <1>1, <2>2, Entries
<1>5. ASSUME NEW x \in ToSet(t) PROVE x \in ToSet(s \o t)
  <2>1. PICK i \in 1 .. Len(t) : x = t[i]
    BY <1>5, Entries
  <2>2. Len(s) + i \in 1 .. Len(s \o t) /\ (s \o t)[Len(s) + i] = x
    BY <1>1, <1>2, <2>1
  <2> QED
    BY <1>1, <2>2, Entries
<1> QED
  BY <1>1, <1>3, <1>4, <1>5

\* A new element, appended, is no repetition.
LEMMA OnceAppend ==
  ASSUME NEW S, NEW s \in Seq(S), NEW e \in S, Once(s), e \notin ToSet(s)
  PROVE  Once(Append(s, e))
<1>1. /\ Append(s, e) \in Seq(S) /\ Len(Append(s, e)) = Len(s) + 1 /\ Len(s) \in Nat
      /\ \A i \in 1 .. Len(s) : Append(s, e)[i] = s[i]
      /\ Append(s, e)[Len(s) + 1] = e
  OBVIOUS
<1>2. \A i \in 1 .. Len(s) : s[i] # e
  BY Entries
<1> SUFFICES ASSUME NEW i \in 1 .. Len(s) + 1, NEW j \in 1 .. Len(s) + 1, i # j
             PROVE  Append(s, e)[i] # Append(s, e)[j]
  BY <1>1 DEF Once
<1>3. CASE i \in 1 .. Len(s) /\ j \in 1 .. Len(s)
  BY <1>1, <1>3 DEF Once
<1>4. CASE i = Len(s) + 1
  <2>1. j \in 1 .. Len(s)
    BY <1>1, <1>4
  <2> QED
    BY <1>1, <1>2, <1>4, <2>1
<1>5. CASE j = Len(s) + 1
  <2>1. i \in 1 .. Len(s)
    BY <1>1, <1>5
  <2> QED
    BY <1>1, <1>2, <1>5, <2>1
<1>6. i \in 1 .. Len(s) \/ i = Len(s) + 1
  BY <1>1
<1>7. j \in 1 .. Len(s) \/ j = Len(s) + 1
  BY <1>1
<1> QED
  BY <1>3, <1>4, <1>5, <1>6, <1>7
-----------------------------------------------------------------------------
(* What every step leaves alone.                                           *)

\* The steps of the process, not of a worker.
RunStep ==
  \/ OpenStore \/ GiveUp \/ StartRun \/ Resolve \/ ResolveFails \/ Finish
  \/ Interrupt \/ Crash \/ UNCHANGED vars

\* Worker w is between two albums or gone.
Parked(w) == pc[w] \in {"exited", "take"}

\* Outside of upload.Run no worker lives; nothing is posted when a run starts.
Idle ==
  /\ phase # "working" => work = << >> /\ AllExited
  /\ phase = "starting" => postedNow = << >>

\* What a worker's step may write.
LEMMA WorkerFrame ==
  ASSUME TypeOK, NEW w \in Worker, WorkerStep(w)
  PROVE  /\ UNCHANGED <<phase, policy, database, ctxErr>>
         /\ TakeAlbum(w) \/ UNCHANGED work
         /\ Post(w) \/ UNCHANGED <<chat, postedNow>>
         /\ MarkSent(w) \/ MarkFailed(w) \/ UNCHANGED uploads
         /\ pc[w] # "exited"
         /\ excused \subseteq excused'
<1> USE DEF control, server
<1>1. CASE TakeAlbum(w) \/ NoMoreWork(w)
  BY <1>1 DEF TakeAlbum, NoMoreWork
<1>2. CASE Filter(w)
  BY <1>2 DEF Filter
<1>3. CASE AlbumEmpty(w) \/ Precheck(w)
  BY <1>3 DEF AlbumEmpty, Precheck
<1>4. CASE Request(w) \/ Post(w) \/ SendOk(w) \/ SendFails(w) \/ ImageProcessFailed(w)
  BY <1>4 DEF Request, Post, SendOk, SendFails, ImageProcessFailed
<1>5. CASE MarkSent(w) \/ AlbumSent(w) \/ MarkFailed(w) \/ AlbumFailed(w)
  BY <1>5 DEF MarkSent, AlbumSent, MarkFailed, AlbumFailed
<1> QED
  BY <1>1, <1>2, <1>3, <1>4, <1>5 DEF WorkerStep

\* A step of the process leaves the workers and the rows alone, or no worker
\* has an album after it.
LEMMA RunFrame ==
  ASSUME TypeOK, Idle, RunStep
  PROVE  \/ /\ UNCHANGED <<phase, policy, database, work, pc, files, todo, uploads, chat,
                           postedNow, excused>>
            /\ ctxErr' \in {ctxErr, "canceled"}
         \/ /\ \A w \in Worker : Parked(w)'
            /\ UNCHANGED chat /\ excused \subseteq excused'
            /\ UNCHANGED postedNow \/ postedNow' = << >>
            /\ work' = << >> \/ Resolve
<1> USE DEF Idle, AllExited, Parked, server, counters
<1>1. CASE OpenStore
  BY <1>1 DEF OpenStore
<1>2. CASE GiveUp \/ StartRun \/ ResolveFails
  BY <1>2 DEF GiveUp, StartRun, ResolveFails
<1>3. CASE Resolve
  BY <1>3 DEF Resolve
<1>4. CASE Finish
  BY <1>4 DEF Finish
<1>5. CASE Crash
  BY <1>5 DEF Crash
<1>6. CASE Interrupt \/ UNCHANGED vars
  BY <1>6 DEF Interrupt, vars
<1> QED
  BY <1>1, <1>2, <1>3, <1>4, <1>5, <1>6 DEF RunStep

\* A step is one of the process or of a worker.
LEMMA TwoKinds == [Next]_vars => RunStep \/ \E w \in Worker : WorkerStep(w)
BY DEF Next, RunStep

\* Idle is preserved: workers live from Resolve to Finish or Crash.
LEMMA IdleStep == TypeOK /\ Idle /\ [Next]_vars => Idle'
<1> SUFFICES ASSUME TypeOK, Idle, [Next]_vars PROVE Idle'
  OBVIOUS
<1> USE DEF Idle, AllExited, server, counters
<1>1. CASE OpenStore
  BY <1>1 DEF OpenStore
<1>2. CASE GiveUp \/ StartRun \/ ResolveFails
  BY <1>2 DEF GiveUp, StartRun, ResolveFails
<1>3. CASE Resolve
  BY <1>3 DEF Resolve
<1>4. CASE Finish
  BY <1>4 DEF Finish
<1>5. CASE Crash
  BY <1>5 DEF Crash
<1>6. CASE Interrupt \/ UNCHANGED vars
  BY <1>6 DEF Interrupt, vars
<1>7. ASSUME NEW w \in Worker, WorkerStep(w) PROVE Idle'
  <2>1. pc[w] # "exited" /\ phase' = phase
    BY <1>7, WorkerFrame
  <2>2. phase = "working"
    BY <2>1
  <2> QED
    BY <2>1, <2>2
<1> QED
  BY <1>1, <1>2, <1>3, <1>4, <1>5, <1>6, <1>7, TwoKinds DEF RunStep

-----------------------------------------------------------------------------
(* A file is in one place.                                                 *)

\* The files of the albums nobody has taken yet, and those worker w deals with.
Queued == UNION {FilesOf(Album[a]) : a \in ToSet(work)}
Held(w) == IF Parked(w) THEN {} ELSE FilesOf(files[w]) \cup FilesOf(todo[w])

\* A file is queued or in the hands of one worker.
Apart ==
  /\ Once(work)
  /\ \A w \in Worker : Held(w) \cap Queued = {}
  /\ \A w, v \in Worker : w # v => Held(w) \cap Held(v) = {}

\* In a partition different albums share no file, and none repeats one.
LEMMA AlbumsApart ==
  ASSUME Partitioned
  PROVE  /\ \A a \in Albums : Once(Album[a])
         /\ \A a, b \in Albums : a # b => FilesOf(Album[a]) \cap FilesOf(Album[b]) = {}
<1>1. \A a \in Albums : Album[a] \in Seq(File)
  BY UploadAssumption DEF Albums
<1>2. \A a \in Albums : Once(Album[a])
  BY DEF Partitioned, Once
<1>3. ASSUME NEW a \in Albums, NEW b \in Albums, a # b,
             NEW f \in FilesOf(Album[a]), f \in FilesOf(Album[b])
      PROVE  FALSE
  <2>1. PICK i \in 1 .. Len(Album[a]) : f = Album[a][i]
    BY <1>1, <1>3, Entries DEF FilesOf
  <2>2. PICK k \in 1 .. Len(Album[b]) : f = Album[b][k]
    BY <1>1, <1>3, Entries DEF FilesOf
  <2> QED
    BY <1>3, <2>1, <2>2 DEF Partitioned
<1> QED
  BY <1>2, <1>3

\* TakeAlbum moves the files of one album from the channel to the worker, if
\* to anybody.
LEMMA TakesOne ==
  ASSUME TypeOK, Partitioned, Once(work), NEW w \in Worker, TakeAlbum(w)
  PROVE  /\ Once(work)' /\ Queued' \subseteq Queued
         /\ Held(w)' \subseteq Queued /\ Held(w)' \cap Queued' = {}
         /\ Parked(w)' \/ /\ pc'[w] = "filter" /\ files'[w] = << >>
                          /\ Once(todo'[w])
<1>1. work \in Seq(Albums) /\ work # << >> /\ work' = Tail(work)
  BY DEF TakeAlbum, TypeOK, ValuesOK
<1>2. /\ Head(work) \in Albums /\ work' \in Seq(Albums)
      /\ ToSet(work) = {Head(work)} \cup ToSet(work')
  BY <1>1, HeadTail
<1>3. Once(work)' /\ Head(work) \notin ToSet(work')
  <2>1. Once(work') /\ Head(work) \notin ToSet(work')
    BY <1>1, OnceTail
  <2> QED
    BY <2>1 DEF Once
<1>4. ToSet(work') \subseteq Albums
  BY <1>2, Elements
<1>5. Queued = FilesOf(Album[Head(work)]) \cup Queued'
  BY <1>2 DEF Queued, FilesOf
<1>6. FilesOf(Album[Head(work)]) \cap Queued' = {}
  <2>1. \A a \in ToSet(work') : FilesOf(Album[Head(work)]) \cap FilesOf(Album[a]) = {}
    BY <1>2, <1>3, <1>4, AlbumsApart
  <2> QED
    BY <2>1 DEF Queued, FilesOf
<1>7. CASE ctxErr = "canceled"
  <2>1. Parked(w)'
    BY <1>7 DEF TakeAlbum, Goto, Parked, TypeOK, ValuesOK
  <2>2. Held(w)' = {}
    BY <2>1 DEF Held
  <2> QED
    BY <1>3, <1>5, <2>1, <2>2
<1>8. CASE ctxErr # "canceled"
  <2>1. pc'[w] = "filter" /\ files'[w] = << >> /\ todo'[w] = Album[Head(work)]
    BY <1>8 DEF TakeAlbum, Goto, TypeOK, ValuesOK
  <2>2. Held(w)' = FilesOf(Album[Head(work)])
    <3>1. FilesOf(<< >>) = {}
      BY DEF FilesOf, ToSet
    <3> QED
      BY <2>1, <3>1 DEF Held, Parked, FilesOf
  <2>3. Once(Album[Head(work)])
    BY <1>2, AlbumsApart
  <2> QED
    BY <1>3, <1>5, <1>6, <2>1, <2>2, <2>3
<1> QED
  BY <1>7, <1>8

\* In any other step a worker holds at most what it held.
LEMMA HeldShrinks ==
  ASSUME TypeOK, NEW w \in Worker, WorkerStep(w), ~TakeAlbum(w)
  PROVE  Held(w)' \subseteq Held(w)
<1> USE DEF TypeOK, ValuesOK, Goto
<1>1. CASE NoMoreWork(w) \/ AlbumEmpty(w) \/ AlbumSent(w) \/ AlbumFailed(w)
  <2>1. Parked(w)'
    BY <1>1 DEF NoMoreWork, AlbumEmpty, AlbumSent, AlbumFailed, Parked
  <2> QED
    BY <2>1 DEF Held
<1>2. CASE Filter(w)
  <2> DEFINE g == Head(todo[w])
  <2>1. pc[w] = "filter" /\ todo[w] # << >> /\ todo'[w] = Tail(todo[w])
    BY <1>2 DEF Filter
  <2>2. g \in File /\ FilesOf(todo[w]) = {g} \cup FilesOf(todo'[w])
    BY <2>1, HeadTail DEF FilesOf
  <2>3. files'[w] = files[w] \/ files'[w] = Append(files[w], g)
    BY <1>2 DEF Filter
  <2>4. FilesOf(Append(files[w], g)) = FilesOf(files[w]) \cup {g}
    BY <2>2, AppendElements DEF FilesOf
  <2>5. FilesOf(files'[w]) \cup FilesOf(todo'[w]) \subseteq FilesOf(files[w]) \cup FilesOf(todo[w])
    BY <2>2, <2>3, <2>4
  <2>6. ~Parked(w)
    BY <2>1 DEF Parked
  <2>7. Held(w) = FilesOf(files[w]) \cup FilesOf(todo[w])
    BY <2>6 DEF Held
  <2>8. Held(w)' \subseteq FilesOf(files'[w]) \cup FilesOf(todo'[w])
    BY DEF Held, FilesOf
  <2> QED
    BY <2>5, <2>7, <2>8
<1>3. CASE MarkSent(w) \/ MarkFailed(w)
  <2>1. /\ pc[w] \in {"markSent", "markFailed"} /\ files'[w] = files[w]
        /\ todo[w] # << >> /\ todo'[w] = Tail(todo[w])
    BY <1>3 DEF MarkSent, MarkFailed
  <2>2. FilesOf(todo'[w]) \subseteq FilesOf(todo[w])
    BY <2>1, HeadTail DEF FilesOf
  <2>3. Held(w)' \subseteq FilesOf(files'[w]) \cup FilesOf(todo'[w])
    BY DEF Held, FilesOf
  <2> QED
    BY <2>1, <2>2, <2>3 DEF Held, Parked
<1>4. CASE Precheck(w) \/ Request(w) \/ Post(w) \/ SendOk(w) \/ SendFails(w) \/ ImageProcessFailed(w)
  <2>1. /\ ~Parked(w) /\ files'[w] = files[w] /\ todo'[w] \in {todo[w], files[w]}
    BY <1>4 DEF Precheck, Request, Post, SendOk, SendFails, ImageProcessFailed, Parked
  <2>2. Held(w)' \subseteq FilesOf(files'[w]) \cup FilesOf(todo'[w])
    BY DEF Held, FilesOf
  <2> QED
    BY <2>1, <2>2 DEF Held
<1> QED
  BY <1>1, <1>2, <1>3, <1>4 DEF WorkerStep

\* The other workers hold what they held.
LEMMA HeldByOthers ==
  ASSUME TypeOK, NEW w \in Worker, WorkerStep(w), NEW v \in Worker, v # w
  PROVE  Held(v)' = Held(v)
BY Others DEF Held, Parked, FilesOf

\* Apart is preserved: files leave the channel one album at a time, for the
\* hands of the worker that takes it.
LEMMA ApartStep == Partitioned /\ TypeOK /\ Idle /\ Apart /\ [Next]_vars => Apart'
<1> SUFFICES ASSUME Partitioned, TypeOK, Idle, Apart, [Next]_vars PROVE Apart'
  OBVIOUS
<1>1. CASE RunStep
  <2>1. CASE UNCHANGED <<work, pc, files, todo>>
    BY <2>1 DEF Apart, Once, Held, Parked, Queued, FilesOf
  <2>2. CASE /\ \A w \in Worker : Parked(w)'
             /\ work' = << >> \/ Resolve
    <3>1. \A w \in Worker : Held(w)' = {}
      BY <2>2 DEF Held
    <3>2. Once(work)'
      <4>1. CASE work' = << >>
        BY <4>1 DEF Once
      <4>2. CASE Resolve
        BY <4>2, UploadAssumption DEF Resolve, Once, Albums
      <4> QED
        BY <2>2, <4>1, <4>2
    <3> QED
      BY <3>1, <3>2 DEF Apart
  <2> QED
    BY <1>1, <2>1, <2>2, RunFrame
<1>2. ASSUME NEW w \in Worker, WorkerStep(w) PROVE Apart'
  <2>1. /\ Once(work)' /\ Queued' \subseteq Queued
        /\ Held(w)' \subseteq Held(w) \cup Queued /\ Held(w)' \cap Queued' = {}
    <3>1. CASE TakeAlbum(w)
      BY <3>1, TakesOne DEF Apart
    <3>2. CASE ~TakeAlbum(w)
      <4>1. work' = work
        BY <1>2, <3>2, WorkerFrame
      <4>2. Held(w)' \subseteq Held(w)
        BY <1>2, <3>2, HeldShrinks
      <4>3. Once(work)' /\ Queued' = Queued
        BY <4>1 DEF Apart, Once, Queued
      <4> QED
        BY <4>2, <4>3 DEF Apart
    <3> QED
      BY <3>1, <3>2
  <2>2. \A v \in Worker : v # w => Held(v)' = Held(v)
    BY <1>2, HeldByOthers
  <2>3. \A v \in Worker : Held(v)' \cap Queued' = {}
    BY <2>1, <2>2 DEF Apart
  <2>4. ASSUME NEW v \in Worker, v # w PROVE Held(w)' \cap Held(v)' = {}
    <3>1. Held(w) \cap Held(v) = {} /\ Held(v) \cap Queued = {} /\ Held(v)' = Held(v)
      BY <2>2, <2>4 DEF Apart
    <3> QED
      BY <2>1, <3>1
  <2>5. ASSUME NEW u \in Worker, NEW v \in Worker, u # v PROVE Held(u)' \cap Held(v)' = {}
    <3>1. CASE u = w
      BY <2>4, <2>5, <3>1
    <3>2. CASE v = w
      BY <2>4, <2>5, <3>2
    <3>3. CASE u # w /\ v # w
      BY <2>2, <2>5, <3>3 DEF Apart
    <3> QED
      BY <3>1, <3>2, <3>3
  <2> QED
    BY <2>1, <2>3, <2>5 DEF Apart
<1> QED
  BY <1>1, <1>2, TwoKinds
-----------------------------------------------------------------------------
(* PostedOncePerRun.                                                       *)

\* Worker w may still post what it holds.
ToPost(w) == pc[w] \in {"filter", "send", "inflight"}

\* Within an album, too, a file comes once.
Single(w) ==
  /\ Once(files[w])
  /\ pc[w] = "filter" => Once(todo[w]) /\ FilesOf(files[w]) \cap FilesOf(todo[w]) = {}

\* What is posted is not queued and nobody will post it.
Past ==
  /\ Queued \cap FilesOf(postedNow) = {}
  /\ \A w \in Worker : ToPost(w) => Held(w) \cap FilesOf(postedNow) = {} /\ Single(w)
  /\ PostedOncePerRun

\* The files of a request are among those its worker holds.
LEMMA FilesHeld ==
  ASSUME NEW w \in Worker, ~Parked(w)
  PROVE  FilesOf(files[w]) \subseteq Held(w) /\ FilesOf(todo[w]) \subseteq Held(w)
BY DEF Held

\* A worker that may post after a step and took no album might have before.
LEMMA StillToPost ==
  ASSUME TypeOK, NEW w \in Worker, WorkerStep(w), ~TakeAlbum(w), ToPost(w)'
  PROVE  ToPost(w)
<1> USE DEF TypeOK, ValuesOK, Goto, ToPost
<1>1. CASE NoMoreWork(w) \/ AlbumEmpty(w) \/ AlbumSent(w) \/ AlbumFailed(w) \/ Post(w) \/ SendOk(w)
  BY <1>1 DEF NoMoreWork, AlbumEmpty, AlbumSent, AlbumFailed, Post, SendOk
<1>2. CASE Filter(w) \/ Precheck(w) \/ Request(w) \/ ImageProcessFailed(w)
  BY <1>2 DEF Filter, Precheck, Request, ImageProcessFailed
<1>3. CASE SendFails(w) \/ MarkSent(w) \/ MarkFailed(w)
  BY <1>3 DEF SendFails, MarkSent, MarkFailed
<1> QED
  BY <1>1, <1>2, <1>3 DEF WorkerStep

\* The filter keeps the order of the album and repeats nothing.
LEMMA SingleStep ==
  ASSUME TypeOK, NEW w \in Worker, WorkerStep(w), ~TakeAlbum(w), ToPost(w)', Single(w)
  PROVE  Single(w)'
<1> USE DEF TypeOK, ValuesOK, Goto
<1>1. CASE Filter(w)
  <2> DEFINE g == Head(todo[w])
  <2>1. /\ pc[w] = "filter" /\ pc'[w] = "filter"
        /\ todo[w] # << >> /\ todo'[w] = Tail(todo[w])
        /\ todo[w] \in Seq(File) /\ files[w] \in Seq(File)
    BY <1>1 DEF Filter
  <2>2. /\ Once(todo[w]) /\ Once(files[w])
        /\ FilesOf(files[w]) \cap FilesOf(todo[w]) = {}
    BY <2>1 DEF Single
  <2>3. /\ g \in File /\ FilesOf(todo[w]) = {g} \cup FilesOf(Tail(todo[w]))
    BY <2>1, HeadTail DEF FilesOf
  <2>4. Once(Tail(todo[w])) /\ g \notin FilesOf(Tail(todo[w]))
    BY <2>1, <2>2, OnceTail DEF FilesOf
  <2>5. g \notin FilesOf(files[w])
    BY <2>2, <2>3
  <2>6. /\ Once(Append(files[w], g))
        /\ FilesOf(Append(files[w], g)) = FilesOf(files[w]) \cup {g}
    BY <2>1, <2>3, <2>5, <2>2, OnceAppend, AppendElements DEF FilesOf
  <2>7. files'[w] = files[w] \/ files'[w] = Append(files[w], g)
    BY <1>1 DEF Filter
  <2>8. Once(files'[w]) /\ FilesOf(files'[w]) \cap FilesOf(todo'[w]) = {}
    <3>1. todo'[w] = Tail(todo[w])
      BY <2>1
    <3>2. CASE files'[w] = files[w]
      BY <2>2, <2>3, <3>1, <3>2
    <3>3. CASE files'[w] = Append(files[w], g)
      BY <2>2, <2>3, <2>4, <2>6, <3>1, <3>3
    <3> QED
      BY <2>7, <3>2, <3>3
  <2>9. Once(todo'[w])
    BY <2>1, <2>4
  <2> QED
    BY <2>8, <2>9 DEF Single, Once, FilesOf
<1>2. CASE Precheck(w) \/ Request(w) \/ ImageProcessFailed(w)
  <2>1. files'[w] = files[w] /\ pc'[w] # "filter"
    BY <1>2 DEF Precheck, Request, ImageProcessFailed
  <2> QED
    BY <2>1 DEF Single, Once
<1>3. CASE NoMoreWork(w) \/ AlbumEmpty(w) \/ AlbumSent(w) \/ AlbumFailed(w) \/ Post(w) \/ SendOk(w)
  BY <1>3 DEF NoMoreWork, AlbumEmpty, AlbumSent, AlbumFailed, Post, SendOk, ToPost
<1>4. CASE SendFails(w) \/ MarkSent(w) \/ MarkFailed(w)
  BY <1>4 DEF SendFails, MarkSent, MarkFailed, ToPost
<1> QED
  BY <1>1, <1>2, <1>3, <1>4 DEF WorkerStep

\* The server adds to what is posted the files of one request, which were not
\* posted yet and are in nobody else's hands.
LEMMA PostAdds ==
  ASSUME TypeOK, Apart, Past, NEW w \in Worker, Post(w)
  PROVE  /\ FilesOf(postedNow') = FilesOf(postedNow) \cup FilesOf(files[w])
         /\ FilesOf(files[w]) \subseteq Held(w)
         /\ PostedOncePerRun'
<1>1. /\ postedNow \in Seq(File) /\ files[w] \in Seq(File)
      /\ postedNow' = postedNow \o files[w] /\ pc[w] = "inflight"
  BY DEF Post, TypeOK, ValuesOK
<1>2. ToPost(w) /\ ~Parked(w)
  BY <1>1 DEF ToPost, Parked
<1>3. FilesOf(postedNow') = FilesOf(postedNow) \cup FilesOf(files[w])
  BY <1>1, ConcatElements DEF FilesOf
<1>4. FilesOf(files[w]) \subseteq Held(w)
  BY <1>2, FilesHeld
<1>5. Once(files[w]) /\ FilesOf(files[w]) \cap FilesOf(postedNow) = {}
  BY <1>2, <1>4 DEF Past, Single
<1>6. Once(postedNow)
  BY DEF Past, PostedOncePerRun, Once
<1>7. Once(postedNow')
  BY <1>1, <1>5, <1>6, OnceConcat DEF FilesOf
<1> QED
  BY <1>3, <1>4, <1>7 DEF PostedOncePerRun, Once

\* Past is preserved: what a worker is about to post was in the channel, and
\* then in its hands only, since the run began.
LEMMA PastStep == Partitioned /\ TypeOK /\ Idle /\ Apart /\ Past /\ [Next]_vars => Past'
<1> SUFFICES ASSUME Partitioned, TypeOK, Idle, Apart, Past, [Next]_vars PROVE Past'
  OBVIOUS
<1>1. CASE RunStep
  <2>1. CASE UNCHANGED <<work, pc, files, todo, postedNow>>
    BY <2>1 DEF Past, PostedOncePerRun, ToPost, Single, Once, Held, Parked, Queued, FilesOf
  <2>2. CASE /\ \A w \in Worker : Parked(w)'
             /\ UNCHANGED postedNow \/ postedNow' = << >>
             /\ work' = << >> \/ Resolve
    <3>1. \A w \in Worker : ~ToPost(w)'
      BY <2>2 DEF ToPost, Parked
    <3>2. PostedOncePerRun'
      <4>1. CASE postedNow' = << >>
        BY <4>1 DEF PostedOncePerRun
      <4>2. CASE UNCHANGED postedNow
        BY <4>2 DEF Past, PostedOncePerRun
      <4> QED
        BY <2>2, <4>1, <4>2
    <3>3. (Queued \cap FilesOf(postedNow) = {})'
      <4>1. CASE work' = << >>
        BY <4>1 DEF Queued, ToSet
      <4>2. CASE Resolve
        <5>1. postedNow' = << >>
          BY <4>2 DEF Resolve, Idle, server
        <5> QED
          BY <5>1 DEF FilesOf, ToSet
      <4> QED
        BY <2>2, <4>1, <4>2
    <3> QED
      BY <3>1, <3>2, <3>3 DEF Past
  <2> QED
    BY <1>1, <2>1, <2>2, RunFrame
<1>2. ASSUME NEW w \in Worker, Post(w), WorkerStep(w) PROVE Past'
  <2>1. /\ FilesOf(postedNow') = FilesOf(postedNow) \cup FilesOf(files[w])
        /\ FilesOf(files[w]) \subseteq Held(w) /\ PostedOncePerRun'
    BY <1>2, PostAdds
  <2>2. ~TakeAlbum(w)
    BY <1>2 DEF Post, TakeAlbum
  <2>3. work' = work
    BY <1>2, <2>2, WorkerFrame
  <2>4. (Queued \cap FilesOf(postedNow) = {})'
    <3>1. Queued' = Queued /\ FilesOf(postedNow)' = FilesOf(postedNow')
      BY <2>3 DEF Queued, FilesOf
    <3> QED
      BY <2>1, <3>1 DEF Past, Apart
  <2>5. ASSUME NEW v \in Worker, ToPost(v)' PROVE (Held(v) \cap FilesOf(postedNow) = {} /\ Single(v))'
    <3>1. v # w
      BY <1>2, <2>5 DEF Post, Goto, ToPost, TypeOK, ValuesOK
    <3>2. pc'[v] = pc[v] /\ files'[v] = files[v] /\ todo'[v] = todo[v] /\ Held(v)' = Held(v)
      BY <1>2, <3>1, Others, HeldByOthers
    <3>3. ToPost(v)
      BY <2>5, <3>2 DEF ToPost
    <3>4. Single(v)'
      BY <3>2, <3>3 DEF Past, Single, Once, FilesOf
    <3>5. Held(v) \cap Held(w) = {} /\ Held(v) \cap FilesOf(postedNow) = {}
      BY <3>1, <3>3 DEF Past, Apart
    <3>6. Held(v) \cap FilesOf(postedNow') = {}
      BY <2>1, <3>5
    <3> QED
      BY <3>2, <3>4, <3>6 DEF FilesOf
  <2> QED
    BY <2>1, <2>4, <2>5 DEF Past
<1>3. ASSUME NEW w \in Worker, WorkerStep(w), ~Post(w) PROVE Past'
  <2>1. postedNow' = postedNow
    BY <1>3, WorkerFrame
  <2>2. PostedOncePerRun' /\ FilesOf(postedNow)' = FilesOf(postedNow)
    BY <2>1 DEF Past, PostedOncePerRun, FilesOf
  <2>3. Queued' \subseteq Queued
    <3>1. CASE TakeAlbum(w)
      BY <3>1, TakesOne DEF Apart
    <3>2. CASE ~TakeAlbum(w)
      BY <1>3, <3>2, WorkerFrame DEF Queued
    <3> QED
      BY <3>1, <3>2
  <2>4. ASSUME ToPost(w)' PROVE Held(w)' \cap FilesOf(postedNow) = {} /\ Single(w)'
    <3>1. CASE TakeAlbum(w)
      <4>1. /\ Held(w)' \subseteq Queued
            /\ pc'[w] = "filter" /\ files'[w] = << >> /\ Once(todo'[w])
        BY <2>4, <3>1, TakesOne DEF Apart, ToPost, Parked
      <4>2. Once(<< >>) /\ FilesOf(<< >>) = {}
        BY DEF Once, FilesOf, ToSet
      <4>3. Once(files[w])' /\ Once(todo[w])' /\ FilesOf(files[w])' = {}
        BY <4>1, <4>2 DEF Once, FilesOf
      <4> QED
        BY <4>1, <4>3 DEF Past, Single
    <3>2. CASE ~TakeAlbum(w)
      <4>1. ToPost(w)
        BY <1>3, <2>4, <3>2, StillToPost
      <4>2. Held(w)' \subseteq Held(w)
        BY <1>3, <3>2, HeldShrinks
      <4>3. Single(w)'
        BY <1>3, <2>4, <3>2, <4>1, SingleStep DEF Past
      <4> QED
        BY <4>1, <4>2, <4>3 DEF Past
    <3> QED
      BY <3>1, <3>2
  <2>5. ASSUME NEW v \in Worker, v # w, ToPost(v)'
        PROVE  Held(v)' \cap FilesOf(postedNow) = {} /\ Single(v)'
    <3>1. pc'[v] = pc[v] /\ files'[v] = files[v] /\ todo'[v] = todo[v] /\ Held(v)' = Held(v)
      BY <1>3, <2>5, Others, HeldByOthers
    <3>2. ToPost(v)
      BY <2>5, <3>1 DEF ToPost
    <3>3. Single(v)'
      BY <3>1, <3>2 DEF Past, Single, Once, FilesOf
    <3> QED
      BY <3>1, <3>2, <3>3 DEF Past
  <2>6. (Queued \cap FilesOf(postedNow) = {})'
    BY <2>2, <2>3 DEF Past
  <2>7. \A v \in Worker : ToPost(v)' => Held(v)' \cap FilesOf(postedNow)' = {} /\ Single(v)'
    BY <2>2, <2>4, <2>5
  <2> QED
    BY <2>2, <2>6, <2>7 DEF Past
<1> QED
  BY <1>1, <1>2, <1>3, TwoKinds

\* At first nobody has anything.
LEMMA OnceInit == Init => Idle /\ Apart /\ Past
<1> SUFFICES ASSUME Init PROVE Idle /\ Apart /\ Past
  OBVIOUS
<1>1. \A w \in Worker : Parked(w) /\ Held(w) = {} /\ ~ToPost(w)
  BY DEF Init, Parked, Held, ToPost
<1>2. work = << >> /\ postedNow = << >> /\ phase = "none" /\ AllExited
  BY DEF Init, AllExited
<1>3. Idle
  BY <1>2 DEF Idle
<1>4. Once(work) /\ PostedOncePerRun
  BY <1>2 DEF Once, PostedOncePerRun
<1>5. Queued = {}
  BY <1>2 DEF Queued, ToSet
<1> QED
  BY <1>1, <1>3, <1>4, <1>5 DEF Apart, Past

\* No run posts a file twice, with any plan that is a partition and any number
\* of workers on the channel (processAlbum and sendWithRetry, run.go:131-316): the
\* second try as a document comes only after a request that was refused.
THEOREM PostedOnce ==
  ASSUME Partitioned
  PROVE  Spec => []PostedOncePerRun
<1>1. Idle /\ Apart /\ Past => PostedOncePerRun
  BY DEF Past
<1>2. TypeOK /\ Idle /\ [Next]_vars => Idle'
  BY IdleStep
<1>3. TypeOK /\ Idle /\ Apart /\ [Next]_vars => Apart'
  BY ApartStep
<1>4. TypeOK /\ Idle /\ Apart /\ Past /\ [Next]_vars => Past'
  BY PastStep
<1> QED
  BY <1>1, <1>2, <1>3, <1>4, OnceInit, TypeCorrect, PTL DEF Spec
-----------------------------------------------------------------------------
(* RepostExcused.                                                          *)

\* A file that is posted is recorded, about to be recorded, or excused; ...
Excusable(f) == chat[f] = 0 \/ f \in excused

Accounted ==
  \A f \in File : Excusable(f) \/ uploads[f] = "sent" \/ \E w \in Worker : f \in Unrecorded(w)

\* ... and a worker sends, or marks as failed, no other.
Careful(w) ==
  /\ ToPost(w) => \A f \in FilesOf(files[w]) : Excusable(f)
  /\ pc[w] = "markFailed" => \A f \in FilesOf(todo[w]) : Excusable(f)
  /\ Unrecorded(w) \subseteq FilesOf(postedNow)

Excuses == Accounted /\ RepostExcused /\ \A w \in Worker : Careful(w)

\* What Unrecorded is at each place of a worker.
LEMMA UnrecordedAt ==
  ASSUME NEW w \in Worker
  PROVE  /\ pc[w] = "posted" => Unrecorded(w) = FilesOf(files[w])
         /\ pc[w] = "markSent" => Unrecorded(w) = FilesOf(todo[w])
         /\ pc[w] \notin {"posted", "markSent"} => Unrecorded(w) = {}
BY DEF Unrecorded

\* A posted file stays unrecorded until its row says sent or it is excused.
LEMMA UnrecordedKept ==
  ASSUME TypeOK, NEW w \in Worker, WorkerStep(w), ~Post(w)
  PROVE  /\ Unrecorded(w)' \subseteq Unrecorded(w)
         /\ \A f \in Unrecorded(w) :
              f \in Unrecorded(w)' \/ f \in excused' \/ uploads'[f] = "sent"
<1> USE DEF TypeOK, ValuesOK, Goto
<1>1. CASE TakeAlbum(w) \/ NoMoreWork(w) \/ AlbumEmpty(w) \/ AlbumFailed(w)
  <2>1. pc[w] \notin {"posted", "markSent"} /\ pc'[w] \notin {"posted", "markSent"}
    BY <1>1 DEF TakeAlbum, NoMoreWork, AlbumEmpty, AlbumFailed
  <2> QED
    BY <2>1 DEF Unrecorded
<1>2. CASE Filter(w) \/ Precheck(w) \/ Request(w) \/ ImageProcessFailed(w) \/ MarkFailed(w)
  <2>1. pc[w] \notin {"posted", "markSent"} /\ pc'[w] \notin {"posted", "markSent"}
    BY <1>2 DEF Filter, Precheck, Request, ImageProcessFailed, MarkFailed
  <2> QED
    BY <2>1 DEF Unrecorded
<1>3. CASE AlbumSent(w)
  <2>1. pc[w] = "markSent" /\ todo[w] = << >> /\ pc'[w] = "take"
    BY <1>3 DEF AlbumSent
  <2>2. Unrecorded(w) = {} /\ Unrecorded(w)' = {}
    BY <2>1 DEF Unrecorded, FilesOf, ToSet
  <2> QED
    BY <2>2
<1>4. CASE SendOk(w)
  <2>1. /\ pc[w] = "posted" /\ pc'[w] = "markSent"
        /\ todo'[w] = files[w] /\ files'[w] = files[w]
    BY <1>4 DEF SendOk
  <2>2. Unrecorded(w)' = Unrecorded(w)
    BY <2>1 DEF Unrecorded, FilesOf
  <2> QED
    BY <2>2
<1>5. CASE SendFails(w)
  <2>1. pc'[w] = "markFailed" /\ excused' = excused \cup Unrecorded(w)
    BY <1>5 DEF SendFails
  <2>2. Unrecorded(w)' = {}
    BY <2>1 DEF Unrecorded
  <2> QED
    BY <2>1, <2>2
<1>6. CASE MarkSent(w)
  <2>1. /\ pc[w] = "markSent" /\ pc'[w] = "markSent"
        /\ todo[w] # << >> /\ todo'[w] = Tail(todo[w]) /\ todo[w] \in Seq(File)
    BY <1>6 DEF MarkSent
  <2>2. FilesOf(todo[w]) = {Head(todo[w])} \cup FilesOf(todo'[w])
    BY <2>1, HeadTail DEF FilesOf
  <2>3. Unrecorded(w) = FilesOf(todo[w]) /\ Unrecorded(w)' = FilesOf(todo'[w])
    BY <2>1 DEF Unrecorded, FilesOf
  <2>4. Head(todo[w]) \in excused' \/ uploads'[Head(todo[w])] = "sent"
    BY <1>6 DEF MarkSent
  <2> QED
    BY <2>2, <2>3, <2>4
<1> QED
  BY <1>1, <1>2, <1>3, <1>4, <1>5, <1>6 DEF WorkerStep

\* A row stops saying sent in MarkFailed, or when maintenance deletes it.
LEMMA RowLost ==
  ASSUME TypeOK, [Next]_vars, NEW f \in File, uploads[f] = "sent", uploads'[f] # "sent"
  PROVE  \/ phase # "working" /\ f \in excused'
         \/ \E w \in Worker : /\ MarkFailed(w) /\ f = Head(todo[w])
                              /\ uploads' = [uploads EXCEPT ![f] = "failed"] /\ ctxErr = "nil"
<1> USE DEF TypeOK, ValuesOK
<1>1. CASE OpenStore
  BY <1>1 DEF OpenStore, Maintained, Expired
<1>2. CASE GiveUp \/ StartRun \/ Resolve \/ ResolveFails \/ Finish \/ Interrupt \/ Crash \/ UNCHANGED vars
  BY <1>2 DEF GiveUp, StartRun, Resolve, ResolveFails, Finish, Interrupt, Crash, vars
<1>3. ASSUME NEW w \in Worker, WorkerStep(w)
      PROVE  /\ MarkFailed(w) /\ f = Head(todo[w])
             /\ uploads' = [uploads EXCEPT ![f] = "failed"] /\ ctxErr = "nil"
  <2>1. CASE MarkFailed(w)
    BY <2>1 DEF MarkFailed, Store
  <2>2. CASE MarkSent(w)
    BY <2>2 DEF MarkSent, Store
  <2>3. CASE ~MarkFailed(w) /\ ~MarkSent(w)
    BY <1>3, <2>3, WorkerFrame
  <2> QED
    BY <2>1, <2>2, <2>3
<1> QED
  BY <1>1, <1>2, <1>3 DEF Next

\* A file stays excusable until it is posted.
LEMMA ExcusableStays ==
  ASSUME TypeOK, NEW w \in Worker, WorkerStep(w), NEW f \in File, Excusable(f),
         ~Post(w) \/ f \notin FilesOf(files[w])
  PROVE  Excusable(f)'
<1>1. excused \subseteq excused'
  BY WorkerFrame
<1>2. chat'[f] = chat[f]
  <2>1. CASE Post(w)
    BY <2>1 DEF Post, TypeOK, ValuesOK
  <2>2. CASE ~Post(w)
    BY <2>2, WorkerFrame
  <2> QED
    BY <2>1, <2>2
<1> QED
  BY <1>1, <1>2 DEF Excusable

\* The process accounts for what its workers had posted: it ends in a crash,
\* or after they are done.
LEMMA AccountedRun ==
  ASSUME TypeOK, Idle, Accounted, RunStep, [Next]_vars
  PROVE  Accounted'
<1> SUFFICES ASSUME NEW f \in File
             PROVE  Excusable(f)' \/ uploads'[f] = "sent" \/ \E w \in Worker : f \in Unrecorded(w)'
  BY DEF Accounted
<1>1. UNCHANGED chat /\ excused \subseteq excused'
  BY RunFrame
<1>2. CASE Excusable(f)
  BY <1>1, <1>2 DEF Excusable
<1>3. CASE uploads[f] = "sent"
  <2>1. CASE uploads'[f] # "sent"
    <3>1. (phase # "working" /\ f \in excused') \/ \E w \in Worker : MarkFailed(w)
      BY <1>3, <2>1, RowLost
    <3>2. ASSUME NEW w \in Worker, MarkFailed(w) PROVE FALSE
      <4>1. pc[w] = "markFailed" /\ pc'[w] = "markFailed" /\ uploads' # uploads
        BY <1>3, <2>1, <3>2 DEF MarkFailed
      <4> QED
        BY <4>1, RunFrame DEF Parked
    <3> QED
      BY <3>1, <3>2 DEF Excusable
  <2> QED
    BY <2>1
<1>4. ASSUME NEW w \in Worker, f \in Unrecorded(w)
      PROVE  f \in Unrecorded(w)' \/ f \in excused'
  <2>1. CASE Crash
    BY <1>4, <2>1 DEF Crash
  <2>2. CASE Interrupt \/ UNCHANGED vars
    <3>1. UNCHANGED <<pc, files, todo>>
      BY <2>2 DEF Interrupt, vars
    <3> QED
      BY <1>4, <3>1 DEF Unrecorded, FilesOf
  <2>3. CASE OpenStore \/ GiveUp \/ StartRun \/ Resolve \/ ResolveFails \/ Finish
    <3>1. pc[w] = "exited"
      BY <2>3 DEF OpenStore, GiveUp, StartRun, Resolve, ResolveFails, Finish, Idle, AllExited
    <3> QED
      BY <1>4, <3>1, UnrecordedAt
  <2> QED
    BY <2>1, <2>2, <2>3 DEF RunStep
<1> QED
  BY <1>2, <1>3, <1>4 DEF Accounted, Excusable

\* A worker's step accounts for the files it posts, records or gives up.
LEMMA AccountedWork ==
  ASSUME TypeOK, Excuses, [Next]_vars, NEW w \in Worker, WorkerStep(w)
  PROVE  Accounted'
<1> SUFFICES ASSUME NEW f \in File
             PROVE  Excusable(f)' \/ uploads'[f] = "sent" \/ \E v \in Worker : f \in Unrecorded(v)'
  BY DEF Accounted
<1>1. excused \subseteq excused'
  BY WorkerFrame
<1>2. CASE Post(w) /\ f \in FilesOf(files[w])
  <2>1. pc'[w] = "posted" /\ files'[w] = files[w]
    BY <1>2 DEF Post, Goto, TypeOK, ValuesOK
  <2>2. f \in Unrecorded(w)'
    BY <1>2, <2>1 DEF Unrecorded, FilesOf
  <2> QED
    BY <2>2
<1>3. CASE ~Post(w) \/ f \notin FilesOf(files[w])
  <2>1. CASE Excusable(f)
    BY <1>3, <2>1, ExcusableStays
  <2>2. CASE uploads[f] = "sent" /\ uploads'[f] # "sent"
    <3>1. CASE f \in excused'
      BY <3>1 DEF Excusable
    <3>2. CASE f \notin excused'
      <4>1. PICK v \in Worker : MarkFailed(v) /\ f = Head(todo[v])
        BY <2>2, <3>2, RowLost
      <4>2. f \in FilesOf(todo[v]) /\ pc[v] = "markFailed"
        BY <4>1, HeadTail DEF MarkFailed, FilesOf, TypeOK, ValuesOK
      <4>3. Excusable(f)
        BY <4>2 DEF Excuses, Careful
      <4> QED
        BY <1>3, <4>3, ExcusableStays
    <3> QED
      BY <3>1, <3>2
  <2>3. ASSUME NEW v \in Worker, f \in Unrecorded(v)
        PROVE  f \in Unrecorded(v)' \/ f \in excused' \/ uploads'[f] = "sent"
    <3>1. CASE v = w
      <4>1. ~Post(w)
        BY <2>3, <3>1, UnrecordedAt DEF Post
      <4> QED
        BY <2>3, <3>1, <4>1, UnrecordedKept
    <3>2. CASE v # w
      BY <2>3, <3>2, Others DEF Unrecorded, FilesOf
    <3> QED
      BY <3>1, <3>2
  <2> QED
    BY <2>1, <2>2, <2>3 DEF Excuses, Accounted, Excusable
<1> QED
  BY <1>2, <1>3

\* RepostExcused is preserved: who posts a file of the chat is excused.
LEMMA RepostStep == TypeOK /\ Idle /\ Excuses /\ [Next]_vars => RepostExcused'
<1> SUFFICES ASSUME TypeOK, Idle, Excuses, [Next]_vars, NEW f \in File, chat'[f] > 1
             PROVE  f \in excused'
  BY DEF RepostExcused
<1>1. excused \subseteq excused'
  <2>1. CASE RunStep
    BY <2>1, RunFrame
  <2>2. ASSUME NEW w \in Worker, WorkerStep(w) PROVE excused \subseteq excused'
    BY <2>2, WorkerFrame
  <2> QED
    BY <2>1, <2>2, TwoKinds
<1>2. CASE UNCHANGED chat
  BY <1>1, <1>2 DEF Excuses, RepostExcused
<1>3. ASSUME NEW w \in Worker, Post(w) PROVE f \in excused'
  <2>1. CASE f \in FilesOf(files[w])
    <3>1. Excusable(f)
      BY <1>3, <2>1 DEF Excuses, Careful, Post, ToPost
    <3>2. chat'[f] = chat[f] + 1 /\ chat[f] \in Nat
      BY <1>3, <2>1 DEF Post, TypeOK, ValuesOK
    <3> QED
      BY <1>1, <3>1, <3>2 DEF Excusable
  <2>2. CASE f \notin FilesOf(files[w])
    BY <1>1, <1>3, <2>2 DEF Post, Excuses, RepostExcused
  <2> QED
    BY <2>1, <2>2
<1> QED
  BY <1>2, <1>3, ChatStep

\* What a worker lets through its filter is excusable: the row does not say
\* sent, and nobody has posted the file in this run.
LEMMA FilterCareful ==
  ASSUME TypeOK, Apart, Past, Excuses, NEW w \in Worker, Filter(w),
         NEW f \in FilesOf(files'[w])
  PROVE  Excusable(f)'
<1> DEFINE g == Head(todo[w])
<1>1. /\ pc[w] = "filter" /\ todo[w] # << >> /\ todo[w] \in Seq(File) /\ files[w] \in Seq(File)
      /\ chat' = chat /\ excused \subseteq excused'
  BY DEF Filter, server, TypeOK, ValuesOK
<1>2. g \in FilesOf(todo[w]) /\ g \in File
  BY <1>1, HeadTail DEF FilesOf
<1>3. CASE f \in FilesOf(files[w])
  <2>1. Excusable(f)
    BY <1>1, <1>3 DEF Excuses, Careful, ToPost
  <2> QED
    BY <1>1, <2>1 DEF Excusable
<1>4. CASE f \notin FilesOf(files[w])
  <2>1. files'[w] = files[w] \/ files'[w] = Append(files[w], g)
    BY DEF Filter, TypeOK, ValuesOK
  <2>2. FilesOf(Append(files[w], g)) = FilesOf(files[w]) \cup {g}
    BY <1>1, <1>2, AppendElements DEF FilesOf
  <2>3. f = g /\ files'[w] # files[w]
    BY <1>4, <2>1, <2>2
  <2>4. g \in excused' \/ uploads[g] # "sent"
    BY <2>3 DEF Filter, IsDone, TypeOK, ValuesOK
  <2>5. CASE g \in excused'
    BY <2>3, <2>5 DEF Excusable
  <2>6. CASE uploads[g] # "sent"
    <3>1. Held(w) \cap FilesOf(postedNow) = {} /\ g \in Held(w)
      BY <1>1, <1>2 DEF Past, ToPost, Held, Parked
    <3>2. \A v \in Worker : g \notin Unrecorded(v)
      BY <3>1 DEF Excuses, Careful
    <3>3. Excusable(g)
      BY <1>2, <2>6, <3>2 DEF Excuses, Accounted
    <3> QED
      BY <1>1, <2>3, <3>3 DEF Excusable
  <2> QED
    BY <2>4, <2>5, <2>6
<1> QED
  BY <1>3, <1>4

\* A worker's step leaves it careful.
LEMMA CarefulStep ==
  ASSUME TypeOK, Apart, Past, Excuses, NEW w \in Worker, WorkerStep(w)
  PROVE  Careful(w)'
<1> USE DEF TypeOK, ValuesOK, Goto
<1>9. FilesOf(files[w]) \subseteq File /\ FilesOf(todo[w]) \subseteq File
  BY Elements DEF FilesOf
<1>1. Unrecorded(w)' \subseteq FilesOf(postedNow)'
  <2>1. CASE Post(w)
    <3>1. pc'[w] = "posted" /\ files'[w] = files[w]
      BY <2>1 DEF Post
    <3>2. FilesOf(postedNow') = FilesOf(postedNow) \cup FilesOf(files[w])
      BY <2>1, PostAdds
    <3>3. Unrecorded(w)' = FilesOf(files[w])
      BY <3>1 DEF Unrecorded, FilesOf
    <3> QED
      BY <3>2, <3>3 DEF FilesOf
  <2>2. CASE ~Post(w)
    <3>1. Unrecorded(w)' \subseteq Unrecorded(w)
      BY <2>2, UnrecordedKept
    <3>2. postedNow' = postedNow
      BY <2>2, WorkerFrame
    <3> QED
      BY <3>1, <3>2 DEF Excuses, Careful, FilesOf
  <2> QED
    BY <2>1, <2>2
<1>2. ASSUME ToPost(w)', NEW f \in FilesOf(files'[w]) PROVE Excusable(f)'
  <2>1. CASE TakeAlbum(w)
    <3>1. files'[w] = << >>
      BY <2>1 DEF TakeAlbum
    <3> QED
      BY <1>2, <3>1 DEF FilesOf, ToSet
  <2>2. CASE Filter(w)
    BY <1>2, <2>2, FilterCareful
  <2>3. CASE Precheck(w) \/ Request(w) \/ ImageProcessFailed(w)
    <3>1. files'[w] = files[w] /\ ToPost(w) /\ ~Post(w)
      BY <2>3 DEF Precheck, Request, ImageProcessFailed, ToPost, Post
    <3>2. Excusable(f) /\ f \in File
      BY <1>2, <1>9, <3>1 DEF Excuses, Careful
    <3> QED
      BY <3>1, <3>2, ExcusableStays
  <2>4. CASE NoMoreWork(w) \/ AlbumEmpty(w) \/ AlbumSent(w) \/ AlbumFailed(w) \/ Post(w) \/ SendOk(w)
    BY <1>2, <2>4 DEF NoMoreWork, AlbumEmpty, AlbumSent, AlbumFailed, Post, SendOk, ToPost
  <2>5. CASE SendFails(w) \/ MarkSent(w) \/ MarkFailed(w)
    BY <1>2, <2>5 DEF SendFails, MarkSent, MarkFailed, ToPost
  <2> QED
    BY <2>1, <2>2, <2>3, <2>4, <2>5 DEF WorkerStep
<1>3. ASSUME pc'[w] = "markFailed", NEW f \in FilesOf(todo'[w]) PROVE Excusable(f)'
  <2>1. CASE Precheck(w) \/ Request(w)
    <3>1. todo'[w] = files[w] /\ ToPost(w) /\ ~Post(w)
      BY <1>3, <2>1 DEF Precheck, Request, ToPost, Post
    <3>2. Excusable(f) /\ f \in File
      BY <1>3, <1>9, <3>1 DEF Excuses, Careful
    <3> QED
      BY <3>1, <3>2, ExcusableStays
  <2>2. CASE SendFails(w)
    <3>1. todo'[w] = files[w] /\ excused' = excused \cup Unrecorded(w) /\ ~Post(w)
      BY <2>2 DEF SendFails, Post
    <3>2. CASE pc[w] = "posted"
      <4>1. f \in excused'
        BY <1>3, <3>1, <3>2, UnrecordedAt
      <4> QED
        BY <4>1 DEF Excusable
    <3>3. CASE pc[w] = "inflight"
      <4>1. Excusable(f) /\ f \in File
        BY <1>3, <1>9, <3>1, <3>3 DEF Excuses, Careful, ToPost
      <4> QED
        BY <3>1, <4>1, ExcusableStays
    <3> QED
      BY <2>2, <3>2, <3>3 DEF SendFails
  <2>3. CASE MarkFailed(w)
    <3>1. pc[w] = "markFailed" /\ todo[w] # << >> /\ todo'[w] = Tail(todo[w]) /\ ~Post(w)
      BY <2>3 DEF MarkFailed, Post
    <3>2. FilesOf(todo'[w]) \subseteq FilesOf(todo[w])
      BY <3>1, HeadTail DEF FilesOf
    <3>3. Excusable(f) /\ f \in File
      BY <1>3, <1>9, <3>1, <3>2 DEF Excuses, Careful
    <3> QED
      BY <3>1, <3>3, ExcusableStays
  <2>4. CASE TakeAlbum(w) \/ NoMoreWork(w) \/ AlbumEmpty(w) \/ AlbumSent(w) \/ AlbumFailed(w)
    BY <1>3, <2>4 DEF TakeAlbum, NoMoreWork, AlbumEmpty, AlbumSent, AlbumFailed
  <2>5. CASE Filter(w) \/ Post(w) \/ SendOk(w) \/ ImageProcessFailed(w) \/ MarkSent(w)
    BY <1>3, <2>5 DEF Filter, Post, SendOk, ImageProcessFailed, MarkSent
  <2> QED
    BY <2>1, <2>2, <2>3, <2>4, <2>5 DEF WorkerStep
<1> QED
  BY <1>1, <1>2, <1>3 DEF Careful, FilesOf

\* So does another worker's: what that one posts is in its own hands.
LEMMA CarefulOthers ==
  ASSUME TypeOK, Apart, Past, Excuses, NEW w \in Worker, WorkerStep(w),
         NEW v \in Worker, v # w
  PROVE  Careful(v)'
<1>1. pc'[v] = pc[v] /\ files'[v] = files[v] /\ todo'[v] = todo[v]
  BY Others
<1>2. FilesOf(files[v]) \subseteq File /\ FilesOf(todo[v]) \subseteq File
  BY Elements DEF FilesOf, TypeOK, ValuesOK
<1>3. ASSUME ~Parked(v), NEW f \in FilesOf(files[v]) \cup FilesOf(todo[v]), Excusable(f)
      PROVE  Excusable(f)'
  <2>1. f \in Held(v) /\ f \in File
    BY <1>2, <1>3 DEF Held
  <2>2. CASE Post(w)
    <3>1. f \notin FilesOf(files[w])
      BY <2>1, <2>2, PostAdds DEF Apart
    <3> QED
      BY <1>3, <2>1, <3>1, ExcusableStays
  <2>3. CASE ~Post(w)
    BY <1>3, <2>1, <2>3, ExcusableStays
  <2> QED
    BY <2>2, <2>3
<1>4. FilesOf(postedNow) \subseteq FilesOf(postedNow')
  BY PostAdds, WorkerFrame
<1>5. Unrecorded(v)' = Unrecorded(v)
  BY <1>1 DEF Unrecorded, FilesOf
<1>6. ToPost(v)' => \A f \in FilesOf(files'[v]) : Excusable(f)'
  BY <1>1, <1>3 DEF Excuses, Careful, ToPost, Parked
<1>7. pc'[v] = "markFailed" => \A f \in FilesOf(todo'[v]) : Excusable(f)'
  BY <1>1, <1>3 DEF Excuses, Careful, Parked
<1>8. Unrecorded(v)' \subseteq FilesOf(postedNow')
  BY <1>4, <1>5 DEF Excuses, Careful
<1> QED
  BY <1>6, <1>7, <1>8 DEF Careful, FilesOf

\* Excuses is preserved.
LEMMA ExcusesStep == TypeOK /\ Idle /\ Apart /\ Past /\ Excuses /\ [Next]_vars => Excuses'
<1> SUFFICES ASSUME TypeOK, Idle, Apart, Past, Excuses, [Next]_vars PROVE Excuses'
  OBVIOUS
<1>1. RepostExcused'
  BY RepostStep
<1>2. CASE RunStep
  <2>1. Accounted'
    BY <1>2, AccountedRun DEF Excuses
  <2>2. CASE UNCHANGED <<pc, files, todo, chat, postedNow, excused>>
    BY <1>1, <2>1, <2>2 DEF Excuses, Careful, ToPost, Excusable, Unrecorded, FilesOf
  <2>3. CASE \A w \in Worker : Parked(w)'
    <3>1. \A w \in Worker : Careful(w)'
      BY <2>3 DEF Careful, ToPost, Unrecorded, Parked
    <3> QED
      BY <1>1, <2>1, <3>1 DEF Excuses
  <2> QED
    BY <1>2, <2>2, <2>3, RunFrame
<1>3. ASSUME NEW w \in Worker, WorkerStep(w) PROVE Excuses'
  BY <1>1, <1>3, AccountedWork, CarefulStep, CarefulOthers DEF Excuses
<1> QED
  BY <1>2, <1>3, TwoKinds

\* A file is in the chat twice only if the pipeline could not know better, run
\* after run: the resume filter and the records of markSent (run.go:140-169,
\* run.go:429-440) lose no file but the excused ones.
THEOREM RepostsAreExcused ==
  ASSUME Partitioned
  PROVE  Spec => []RepostExcused
<1>1. Init => Excuses
  BY DEF Init, Excuses, Accounted, Excusable, RepostExcused, Careful, ToPost, Unrecorded
<1>2. TypeOK /\ Idle /\ [Next]_vars => Idle'
  BY IdleStep
<1>3. TypeOK /\ Idle /\ Apart /\ [Next]_vars => Apart'
  BY ApartStep
<1>4. TypeOK /\ Idle /\ Apart /\ Past /\ [Next]_vars => Past'
  BY PastStep
<1>5. Excuses => RepostExcused
  BY DEF Excuses
<1> QED
  BY <1>1, <1>2, <1>3, <1>4, <1>5, ExcusesStep, OnceInit, TypeCorrect, PTL DEF Spec
-----------------------------------------------------------------------------
(* SentIsFinal, for a run that resumes: without the resume filter nobody   *)
(* reads the rows, and a file that fails to be sent again loses its record. *)

\* While nothing keeps the filter from seeing a row that says sent, its file
\* is neither sent again nor marked as failed.
Spares(w) ==
  /\ ToPost(w) \/ pc[w] = "posted" => \A f \in FilesOf(files[w]) : uploads[f] # "sent"
  /\ pc[w] = "markFailed" => \A f \in FilesOf(todo[w]) : uploads[f] # "sent"

\* The filter sees every row.
Seeing == database = "sound" /\ policy # "upload" /\ ctxErr = "nil"

Spared == Seeing => \A w \in Worker : Spares(w)

\* A worker's step turns a row to sent only if the worker posted its file.
LEMMA RowGained ==
  ASSUME TypeOK, NEW w \in Worker, WorkerStep(w),
         NEW f \in File, uploads[f] # "sent", uploads'[f] = "sent"
  PROVE  MarkSent(w) /\ f \in FilesOf(todo[w]) /\ pc[w] = "markSent"
<1> USE DEF TypeOK, ValuesOK
<1>1. CASE MarkSent(w)
  <2>1. f = Head(todo[w])
    BY <1>1 DEF MarkSent, Store
  <2> QED
    BY <1>1, <2>1, HeadTail DEF MarkSent, FilesOf
<1>2. CASE MarkFailed(w)
  BY <1>2 DEF MarkFailed, Store
<1>3. CASE ~MarkFailed(w) /\ ~MarkSent(w)
  BY <1>3, WorkerFrame
<1> QED
  BY <1>1, <1>2, <1>3

\* A worker that sees spares the rows in its own hands.
LEMMA SparesStep ==
  ASSUME TypeOK, Resume, Seeing, NEW w \in Worker, WorkerStep(w), Spares(w)
  PROVE  Spares(w)'
<1> USE DEF TypeOK, ValuesOK, Goto
<1>1. CASE MarkSent(w)
  <2>1. pc'[w] = "markSent"
    BY <1>1 DEF MarkSent
  <2> QED
    BY <2>1 DEF Spares, ToPost
<1>2. CASE MarkFailed(w)
  <2>1. /\ pc[w] = "markFailed" /\ pc'[w] = "markFailed"
        /\ todo[w] # << >> /\ todo[w] \in Seq(File) /\ todo'[w] = Tail(todo[w])
    BY <1>2 DEF MarkFailed
  <2>2. FilesOf(todo'[w]) \subseteq FilesOf(todo[w]) /\ FilesOf(todo[w]) \subseteq File
    BY <2>1, HeadTail, Elements DEF FilesOf
  <2>3. ASSUME NEW f \in FilesOf(todo'[w]) PROVE uploads'[f] # "sent"
    <3>1. uploads[f] # "sent" /\ f \in File /\ ~MarkSent(w)
      BY <2>1, <2>2, <2>3 DEF Spares, MarkSent
    <3> QED
      BY <3>1, RowGained
  <2> QED
    BY <2>1, <2>3 DEF Spares, ToPost, FilesOf
<1>3. CASE ~MarkSent(w) /\ ~MarkFailed(w)
  <2>1. uploads' = uploads
    BY <1>3, WorkerFrame
  <2>2. CASE TakeAlbum(w)
    <3>1. pc'[w] \notin {"send", "inflight", "posted", "markFailed"} /\ files'[w] = << >>
      BY <2>2 DEF TakeAlbum
    <3>2. FilesOf(files'[w]) = {}
      BY <3>1 DEF FilesOf, ToSet
    <3> QED
      BY <3>1, <3>2 DEF Spares, FilesOf
  <2>3. CASE NoMoreWork(w) \/ AlbumEmpty(w) \/ AlbumSent(w) \/ AlbumFailed(w) \/ SendOk(w)
    BY <2>3 DEF NoMoreWork, AlbumEmpty, AlbumSent, AlbumFailed, SendOk, Spares, ToPost
  <2>4. CASE Filter(w)
    <3> DEFINE g == Head(todo[w])
    <3>1. /\ pc[w] = "filter" /\ pc'[w] = "filter" /\ files[w] \in Seq(File)
          /\ todo[w] # << >> /\ todo[w] \in Seq(File)
      BY <2>4 DEF Filter
    <3>2. files'[w] = files[w] \/ (files'[w] = Append(files[w], g) /\ uploads[g] # "sent")
      BY <2>4 DEF Filter, IsDone, Seeing
    <3>3. g \in File
      BY <3>1, HeadTail
    <3>4. FilesOf(Append(files[w], g)) = FilesOf(files[w]) \cup {g}
      BY <3>1, <3>3, AppendElements DEF FilesOf
    <3>5. \A f \in FilesOf(files[w]) : uploads[f] # "sent"
      BY <3>1 DEF Spares, ToPost
    <3>6. \A f \in FilesOf(files'[w]) : uploads'[f] # "sent"
      BY <2>1, <3>2, <3>4, <3>5
    <3> QED
      BY <3>1, <3>6 DEF Spares, FilesOf
  <2>5. CASE Precheck(w) \/ Request(w) \/ Post(w) \/ SendFails(w) \/ ImageProcessFailed(w)
    <3>1. /\ ToPost(w) \/ pc[w] = "posted"
          /\ pc'[w] = "markFailed" => todo'[w] = files[w]
      BY <2>5 DEF Precheck, Request, Post, SendFails, ImageProcessFailed, ToPost
    <3>2. \A f \in FilesOf(files[w]) : uploads[f] # "sent"
      BY <3>1 DEF Spares
    <3>3. files'[w] = files[w]
      BY <2>5 DEF Precheck, Request, Post, SendFails, ImageProcessFailed
    <3> QED
      BY <2>1, <3>1, <3>2, <3>3 DEF Spares, FilesOf
  <2> QED
    BY <1>3, <2>2, <2>3, <2>4, <2>5 DEF WorkerStep
<1> QED
  BY <1>1, <1>2, <1>3

\* So does another worker's step: it records only what is in its own hands.
LEMMA SparesOthers ==
  ASSUME TypeOK, Apart, NEW w \in Worker, WorkerStep(w), NEW v \in Worker, v # w, Spares(v)
  PROVE  Spares(v)'
<1>1. pc'[v] = pc[v] /\ files'[v] = files[v] /\ todo'[v] = todo[v]
  BY Others
<1>2. FilesOf(files[v]) \subseteq File /\ FilesOf(todo[v]) \subseteq File
  BY Elements DEF FilesOf, TypeOK, ValuesOK
<1>3. ASSUME ~Parked(v), NEW f \in FilesOf(files[v]) \cup FilesOf(todo[v]), uploads[f] # "sent"
      PROVE  uploads'[f] # "sent"
  <2>1. f \in Held(v) /\ f \in File
    BY <1>2, <1>3 DEF Held
  <2>2. ASSUME f \in FilesOf(todo[w]), pc[w] = "markSent" PROVE FALSE
    <3>1. f \in Held(w)
      BY <2>2 DEF Held, Parked
    <3> QED
      BY <2>1, <3>1 DEF Apart
  <2> QED
    BY <1>3, <2>1, <2>2, RowGained
<1>4. ToPost(v)' \/ pc'[v] = "posted" => \A f \in FilesOf(files'[v]) : uploads'[f] # "sent"
  BY <1>1, <1>3 DEF Spares, ToPost, Parked
<1>5. pc'[v] = "markFailed" => \A f \in FilesOf(todo'[v]) : uploads'[f] # "sent"
  BY <1>1, <1>3 DEF Spares, Parked
<1> QED
  BY <1>4, <1>5 DEF Spares, FilesOf

\* Spared is preserved: a run that sees every row does so from its beginning.
LEMMA SparedStep == Resume /\ TypeOK /\ Idle /\ Apart /\ Spared /\ [Next]_vars => Spared'
<1> SUFFICES ASSUME Resume, TypeOK, Idle, Apart, Spared, [Next]_vars, Seeing'
             PROVE  \A v \in Worker : Spares(v)'
  BY DEF Spared
<1>1. CASE RunStep
  <2>1. CASE /\ UNCHANGED <<policy, database, pc, files, todo, uploads>>
             /\ ctxErr' \in {ctxErr, "canceled"}
    <3>1. Seeing
      BY <2>1 DEF Seeing
    <3> QED
      BY <2>1, <3>1 DEF Spared, Spares, ToPost, FilesOf
  <2>2. CASE \A w \in Worker : Parked(w)'
    BY <2>2 DEF Spares, ToPost, Parked
  <2> QED
    BY <1>1, <2>1, <2>2, RunFrame
<1>2. ASSUME NEW w \in Worker, WorkerStep(w) PROVE \A v \in Worker : Spares(v)'
  <2>1. Seeing
    BY <1>2, WorkerFrame DEF Seeing
  <2> QED
    BY <1>2, <2>1, SparesStep, SparesOthers DEF Spared
<1> QED
  BY <1>1, <1>2, TwoKinds

\* What is recorded as sent stays so, but for maintenance that keeps no failed
\* rows, the policy "upload" and a failing database: a cancelled run overwrites
\* nothing, since MarkFailed goes through the same context as the request
\* (processAlbum, run.go:131-283; ApplyMaintenance, sqlite_store.go).
THEOREM SentStaysSent ==
  ASSUME Partitioned, Resume
  PROVE  Spec => SentIsFinal
<1> DEFINE Step == \A f \in File : uploads[f] = "sent" /\ uploads'[f] # "sent" =>
                     IF phase = "working" THEN policy = "upload" \/ database = "faulty"
                     ELSE f \in excused'
<1>1. TypeOK /\ Idle /\ Spared /\ [Next]_vars => [Step]_vars
  <2> SUFFICES ASSUME TypeOK, Idle, Spared, [Next]_vars,
                      NEW f \in File, uploads[f] = "sent", uploads'[f] # "sent"
               PROVE  IF phase = "working" THEN policy = "upload" \/ database = "faulty"
                      ELSE f \in excused'
    OBVIOUS
  <2>1. ASSUME NEW w \in Worker, MarkFailed(w), f = Head(todo[w]), ctxErr = "nil"
        PROVE  phase = "working" /\ (policy = "upload" \/ database = "faulty")
    <3>1. pc[w] = "markFailed" /\ f \in FilesOf(todo[w])
      BY <2>1, HeadTail DEF MarkFailed, FilesOf, TypeOK, ValuesOK
    <3>2. phase = "working"
      BY <3>1 DEF Idle, AllExited
    <3>3. ~Seeing
      BY <3>1 DEF Spared, Spares
    <3> QED
      BY <2>1, <3>2, <3>3 DEF Seeing, TypeOK, ValuesOK
  <2> QED
    BY <2>1, RowLost
<1>2. Init => Spared
  BY DEF Init, Spared, Spares, ToPost
<1>3. TypeOK /\ Idle /\ [Next]_vars => Idle'
  BY IdleStep
<1>4. TypeOK /\ Idle /\ Apart /\ [Next]_vars => Apart'
  BY ApartStep
<1>5. TypeOK /\ Idle /\ Apart /\ Spared /\ [Next]_vars => Spared'
  BY SparedStep
<1> QED
  BY <1>1, <1>2, <1>3, <1>4, <1>5, OnceInit, TypeCorrect, PTL DEF Spec, SentIsFinal
=============================================================================
