---------------------------- MODULE AlbumsProofs ----------------------------
(***************************************************************************)
(* Lemmas about the operators of Discovery and Albums, for every tree and  *)
(* every list: where EvalSymlinks leads, what a directory lists, what      *)
(* sorting keeps, and that Build puts every item of a sorted list into one *)
(* album at one place (BuildPartitions).  The loops of the code are        *)
(* recursive functions in the model; that such a function has its values   *)
(* is shown by building it up to any length (the lemmas named ...Trace),   *)
(* and what holds after every turn by AllUpTo.                             *)
(***************************************************************************)
EXTENDS Albums, FiniteSetTheorems, SequenceTheorems, WellFoundedInduction, TLAPS

-----------------------------------------------------------------------------
(* Numbers and paths.                                                      *)

\* A set of natural numbers has a smallest one.
LEMMA Smallest ==
  ASSUME NEW T \in SUBSET Nat, T # {}
  PROVE  \E x \in T : \A y \in T : x <= y
<1> DEFINE R == OpToRel(<, Nat)
<1>1. IsWellFoundedOn(R, Nat)
  BY NatLessThanWellFounded
<1>2. PICK x \in T : \A y \in T : <<y, x>> \notin R
  <2> HIDE DEF R
  <2> QED
    BY <1>1, WFMin
<1>3. \A y \in T : <<y, x>> \notin R => x <= y
  BY DEF OpToRel
<1> QED
  BY <1>2, <1>3

\* Induction on 0 .. N for a set of numbers: all of them are in it.
LEMMA AllUpTo ==
  ASSUME NEW N \in Nat, NEW S, 0 \in S, \A n \in 1 .. N : n - 1 \in S => n \in S
  PROVE  \A n \in 0 .. N : n \in S
<1> DEFINE T == {n \in 0 .. N : n \notin S}
<1> SUFFICES ASSUME T # {} PROVE FALSE
  OBVIOUS
<1>0. T \in SUBSET Nat
  OBVIOUS
<1>1. PICK n \in T : \A m \in T : n <= m
  <2> HIDE DEF T
  <2> QED
    BY <1>0, Smallest
<1>2. n \in 1 .. N /\ n - 1 \in 0 .. N
  BY <1>1
<1>3. n - 1 \in S
  BY <1>1, <1>2
<1> QED
  BY <1>1, <1>2, <1>3

\* The real paths of the beginnings of a path.
Trace(nodes, path, n, at) ==
  at = [i \in 0 .. n |-> IF i = 0 THEN << >> ELSE Target(nodes, Append(at[i - 1], path[i]))]

\* EvalSymlinks comes to an end of every path.
LEMMA TraceExists ==
  ASSUME NEW nodes, NEW path, NEW N \in Nat
  PROVE  \E at : Trace(nodes, path, N, at)
<1> DEFINE S == {n \in 0 .. N : \E at : Trace(nodes, path, n, at)}
<1>1. 0 \in S
  <2> DEFINE at == [i \in 0 .. 0 |-> << >>]
  <2>1. Trace(nodes, path, 0, at)
    BY DEF Trace
  <2> HIDE DEF at
  <2> QED
    BY <2>1
<1>2. ASSUME NEW n \in 1 .. N, n - 1 \in S PROVE n \in S
  <2>1. PICK f : Trace(nodes, path, n - 1, f)
    BY <1>2
  <2> DEFINE last == Target(nodes, Append(f[n - 1], path[n]))
             g == [i \in 0 .. n |-> IF i = n THEN last ELSE f[i]]
  <2>2. \A i \in 0 .. n - 1 : g[i] = f[i]
    OBVIOUS
  <2>3. g[n] = Target(nodes, Append(g[n - 1], path[n]))
    OBVIOUS
  <2>4. \A i \in 0 .. n - 1 :
          f[i] = IF i = 0 THEN << >> ELSE Target(nodes, Append(f[i - 1], path[i]))
    BY <2>1 DEF Trace
  <2>5. \A i \in 0 .. n : g[i] = IF i = 0 THEN << >> ELSE Target(nodes, Append(g[i - 1], path[i]))
    BY <2>2, <2>3, <2>4
  <2>6. g = [i \in 0 .. n |-> g[i]]
    OBVIOUS
  <2> HIDE DEF g
  <2>7. Trace(nodes, path, n, g)
    BY <2>5, <2>6 DEF Trace
  <2> QED
    BY <2>7
<1> HIDE DEF S
<1>3. N \in S
  BY <1>1, <1>2, AllUpTo
<1> QED
  BY <1>3 DEF S

\* Where it comes to depends on the names it has gone through only.
LEMMA TraceUnique ==
  ASSUME NEW nodes, NEW path, NEW other, NEW N \in Nat, NEW M \in Nat, N <= M,
         \A i \in 1 .. N : path[i] = other[i],
         NEW f, Trace(nodes, path, N, f), NEW g, Trace(nodes, other, M, g)
  PROVE  f[N] = g[N]
<1> DEFINE S == {n \in 0 .. N : f[n] = g[n]}
<1>0. /\ \A i \in 0 .. N : f[i] = IF i = 0 THEN << >> ELSE Target(nodes, Append(f[i - 1], path[i]))
      /\ \A i \in 0 .. M : g[i] = IF i = 0 THEN << >> ELSE Target(nodes, Append(g[i - 1], other[i]))
  BY DEF Trace
<1>1. 0 \in S
  BY <1>0
<1>2. ASSUME NEW n \in 1 .. N, n - 1 \in S PROVE n \in S
  <2>1. f[n - 1] = g[n - 1] /\ n \in 0 .. N /\ n \in 0 .. M /\ n # 0
    BY <1>2
  <2>2. f[n] = Target(nodes, Append(f[n - 1], path[n]))
    BY <1>0, <2>1
  <2>3. g[n] = Target(nodes, Append(g[n - 1], other[n]))
    BY <1>0, <2>1
  <2> QED
    BY <2>1, <2>2, <2>3
<1> HIDE DEF S
<1>3. N \in S
  BY <1>1, <1>2, AllUpTo
<1> QED
  BY <1>3 DEF S

\* RealIn is the last of such a trace.
LEMMA RealIsTrace ==
  ASSUME NEW nodes, NEW path, Len(path) \in Nat
  PROVE  \E at : Trace(nodes, path, Len(path), at) /\ RealIn(nodes, path) = at[Len(path)]
<1> DEFINE at[i \in 0 .. Len(path)] ==
             IF i = 0 THEN << >> ELSE Target(nodes, Append(at[i - 1], path[i]))
<1>1. RealIn(nodes, path) = at[Len(path)]
  BY DEF RealIn
<1>2. \E f : f = [i \in 0 .. Len(path) |->
                    IF i = 0 THEN << >> ELSE Target(nodes, Append(f[i - 1], path[i]))]
  <2>1. PICK f : Trace(nodes, path, Len(path), f)
    BY TraceExists
  <2> QED
    BY <2>1 DEF Trace
<1>3. Trace(nodes, path, Len(path), at)
  BY <1>2 DEF Trace
<1> HIDE DEF at
<1> QED
  BY <1>1, <1>3

\* EvalSymlinks goes on from the real path of the directory.
LEMMA RealAppend ==
  ASSUME NEW nodes, NEW path \in Seq(Nat), NEW name \in Nat
  PROVE  RealIn(nodes, Append(path, name)) = Target(nodes, Append(RealIn(nodes, path), name))
<1> DEFINE p == Append(path, name)
           n == Len(path)
<1>1. n \in Nat /\ Len(p) = n + 1 /\ p[n + 1] = name /\ \A i \in 1 .. n : path[i] = p[i]
  OBVIOUS
<1>2. PICK f : Trace(nodes, path, n, f) /\ RealIn(nodes, path) = f[n]
  BY <1>1, RealIsTrace
<1> HIDE DEF p, n
<1>3. PICK g : Trace(nodes, p, n + 1, g) /\ RealIn(nodes, p) = g[n + 1]
  <2>1. Len(p) \in Nat
    BY <1>1
  <2>2. PICK g : Trace(nodes, p, Len(p), g) /\ RealIn(nodes, p) = g[Len(p)]
    BY <2>1, RealIsTrace
  <2> QED
    BY <1>1, <2>2
<1>4. f[n] = g[n]
  BY <1>1, <1>2, <1>3, TraceUnique
<1>5. g[n + 1] = Target(nodes, Append(g[n], p[n + 1]))
  BY <1>1, <1>3 DEF Trace
<1> QED
  BY <1>1, <1>2, <1>3, <1>4, <1>5 DEF p

\* The root is its own real path.
LEMMA RealEmpty == ASSUME NEW nodes PROVE RealIn(nodes, << >>) = << >>
<1>1. PICK f : Trace(nodes, << >>, 0, f) /\ RealIn(nodes, << >>) = f[0]
  BY RealIsTrace
<1> QED
  BY <1>1 DEF Trace

\* A path and its last name.
LEMMA FrontLast ==
  ASSUME NEW path \in Seq(Nat), path # << >>
  PROVE  /\ Front(path) \in Seq(Nat) /\ Last(path) \in Nat /\ Len(Front(path)) = Len(path) - 1
         /\ path = Append(Front(path), Last(path))
<1>1. PICK s \in Seq(Nat), name \in Nat : path = Append(s, name)
  BY SequenceEmptyOrAppend
<1>2. Len(path) = Len(s) + 1 /\ Len(s) \in Nat
  BY <1>1
<1>3. Last(path) = name
  BY <1>1, <1>2 DEF Last
<1>4. Front(path) = s
  <2>1. Front(path) \in Seq(Nat) /\ Len(Front(path)) = Len(s)
    BY <1>2, SubSeqProperties DEF Front
  <2>2. \A i \in 1 .. Len(s) : Front(path)[i] = s[i]
    BY <1>1, <1>2 DEF Front
  <2> QED
    BY <2>1, <2>2, SeqEqual
<1> QED
  BY <1>1, <1>2, <1>3, <1>4

\* A name in a directory, taken apart.
LEMMA FrontAppend ==
  ASSUME NEW path \in Seq(Nat), NEW name \in Nat
  PROVE  /\ Append(path, name) \in Seq(Nat) /\ Append(path, name) # << >>
         /\ Front(Append(path, name)) = path /\ Last(Append(path, name)) = name
<1>1. Append(path, name) \in Seq(Nat) /\ Append(path, name) # << >>
  BY AppendProperties
<1>2. Append(path, name) = Append(Front(Append(path, name)), Last(Append(path, name)))
  BY <1>1, FrontLast
<1> DEFINE p == Append(path, name)
<1>3. Front(p) \in Seq(Nat) /\ Last(p) \in Nat
  <2> HIDE DEF p
  <2> QED
    BY <1>1, FrontLast DEF p
<1>4. path = Front(p) /\ name = Last(p)
  BY <1>2, <1>3, AppendInjective
<1> QED
  BY <1>1, <1>4

\* A beginning of a path is one of what is below it.
LEMMA PrefixBelow ==
  ASSUME NEW root \in Seq(Nat), NEW path \in Seq(Nat), NEW name \in Nat, IsPrefix(root, path)
  PROVE  IsPrefix(root, Append(path, name))
<1>1. Len(Append(path, name)) = Len(path) + 1 /\ Len(root) <= Len(path) /\ Len(path) \in Nat
      /\ Len(root) \in Nat
  BY DEF IsPrefix
<1>2. \A i \in 1 .. Len(root) : Append(path, name)[i] = path[i]
  BY <1>1
<1>3. SubSeq(Append(path, name), 1, Len(root)) = SubSeq(path, 1, Len(root))
  BY <1>1, <1>2
<1> QED
  BY <1>1, <1>3 DEF IsPrefix

\* The real path of a name is that of its directory and the name, or what the
\* link there points to.
LEMMA RealPlace ==
  ASSUME NEW nodes, NEW path \in Seq(Nat), path # << >>
  PROVE  RealIn(nodes, path) = Target(nodes, Append(RealIn(nodes, Front(path)), Last(path)))
<1> DEFINE front == Front(path)
           name == Last(path)
<1>1. front \in Seq(Nat) /\ name \in Nat /\ path = Append(front, name)
  BY FrontLast
<1> HIDE DEF front, name
<1>2. RealIn(nodes, path) = Target(nodes, Append(RealIn(nodes, front), name))
  BY <1>1, RealAppend
<1> QED
  BY <1>2 DEF front, name

\* A real path is that of no link, and is its own.
IsReal(nodes, p) ==
  /\ p \in Seq(Nat) /\ RealIn(nodes, p) = p
  /\ p \in DOMAIN nodes => nodes[p].kind # "link"

\* What EvalSymlinks returns is a real path.
LEMMA RealReal ==
  ASSUME NEW nodes, IsTree(nodes), NEW path \in Seq(Nat)
  PROVE  IsReal(nodes, RealIn(nodes, path))
<1> DEFINE S == {n \in 0 .. Len(path) : IsReal(nodes, RealIn(nodes, SubSeq(path, 1, n)))}
<1>1. 0 \in S
  <2>1. SubSeq(path, 1, 0) = << >>
    OBVIOUS
  <2>2. IsReal(nodes, << >>)
    <3>1. << >> \in Seq(Nat)
      OBVIOUS
    <3>2. RealIn(nodes, << >>) = << >>
      BY RealEmpty
    <3> QED
      BY <3>1, <3>2 DEF IsReal, IsTree
  <2>3. RealIn(nodes, SubSeq(path, 1, 0)) = << >>
    BY <2>1, RealEmpty
  <2>4. 0 \in 0 .. Len(path)
    OBVIOUS
  <2> QED
    BY <2>2, <2>3, <2>4
<1>2. ASSUME NEW n \in 1 .. Len(path), n - 1 \in S PROVE n \in S
  <2> DEFINE before == SubSeq(path, 1, n - 1)
             r == RealIn(nodes, before)
             p == Append(r, path[n])
  <2>1. before \in Seq(Nat) /\ path[n] \in Nat
    BY SubSeqProperties
  <2>2. SubSeq(path, 1, n) = Append(before, path[n])
    OBVIOUS
  <2>3. IsReal(nodes, r)
    BY <1>2
  <2> HIDE DEF r, before
  <2>4. RealIn(nodes, SubSeq(path, 1, n)) = Target(nodes, p)
    BY <2>1, <2>2, RealAppend DEF r
  <2>5. p \in Seq(Nat) /\ RealIn(nodes, p) = Target(nodes, p)
    BY <2>1, <2>3, RealAppend, AppendProperties DEF IsReal
  <2> HIDE DEF p
  <2>6. IsReal(nodes, Target(nodes, p))
    <3>1. CASE p \in DOMAIN nodes /\ nodes[p].kind = "link"
      BY <3>1 DEF Target, IsReal, IsTree
    <3>2. CASE ~(p \in DOMAIN nodes /\ nodes[p].kind = "link")
      BY <2>5, <3>2 DEF Target, IsReal
    <3> QED
      BY <3>1, <3>2
  <2> QED
    BY <2>4, <2>6
<1>3. SubSeq(path, 1, Len(path)) = path /\ Len(path) \in Nat
  OBVIOUS
<1> HIDE DEF S
<1>4. \A n \in 0 .. Len(path) : n \in S
  BY <1>1, <1>2, <1>3, AllUpTo
<1>5. Len(path) \in S
  BY <1>3, <1>4
<1> QED
  BY <1>3, <1>5 DEF S

-----------------------------------------------------------------------------
(* Places in the tree.                                                     *)

\* A sequence, of whatever.
Proper(s) == \E S : s \in Seq(S)

\* Where a name lies: its directory's real path, and the name.
Place(path) == Append(Real(Front(path)), Last(path))

\* The node behind a path that leads to a file or a directory.
LEMMA NodeBehind ==
  ASSUME IsTree(tree), NEW path \in Seq(Nat), Node(path).kind \in {"dir", "file"}
  PROVE  /\ Real(path) \in DOMAIN tree /\ tree[Real(path)].kind = Node(path).kind
         /\ Stat(path) = Node(path)
         /\ path = << >> => Node(path).kind = "dir"
         /\ path # << >> => Place(path) \in DOMAIN tree /\ Lstat(path) = tree[Place(path)]
         /\ path # << >> /\ ~cfg.follow => Real(path) = Place(path)
<1>1. ASSUME path = << >> PROVE Real(path) = << >> /\ Node(path) = tree[<< >>]
  BY <1>1, RealEmpty DEF Real, Node, Lstat, IsTree
<1>2. ASSUME path # << >>
      PROVE  /\ Lstat(path) = NodeAt(Place(path)) /\ Real(path) = Target(tree, Place(path))
  BY <1>2, RealPlace DEF Real, Lstat, Place
<1>3. CASE path = << >>
  BY <1>1, <1>3 DEF Stat, NodeAt, IsTree
<1>4. CASE path # << >> /\ Lstat(path).kind # "link"
  <2>1. Node(path) = NodeAt(Place(path))
    BY <1>2, <1>4 DEF Node
  <2>2. Place(path) \in DOMAIN tree /\ Lstat(path) = tree[Place(path)]
    BY <1>2, <1>4, <2>1 DEF NodeAt
  <2>3. Real(path) = Place(path)
    BY <1>2, <1>4, <2>2 DEF Target
  <2> QED
    BY <1>4, <2>1, <2>2, <2>3 DEF Stat, NodeAt
<1>5. CASE path # << >> /\ Lstat(path).kind = "link"
  <2>1. cfg.follow /\ Node(path) = NodeAt(Real(path))
    BY <1>5 DEF Node, Stat
  <2>2. Place(path) \in DOMAIN tree /\ Lstat(path) = tree[Place(path)]
    BY <1>2, <1>5 DEF NodeAt
  <2>3. Real(path) \in DOMAIN tree
    BY <2>1 DEF NodeAt
  <2> QED
    BY <1>5, <2>1, <2>2, <2>3 DEF Stat, NodeAt
<1> QED
  BY <1>3, <1>4, <1>5

\* A path always leads to one of these.
LEMMA NodeKinds ==
  ASSUME IsTree(tree), NEW path \in Seq(Nat)
  PROVE  Node(path).kind \in {"dir", "file", "missing", "skipped"}
<1>1. \A p : p \in DOMAIN tree => tree[p].kind \in {"dir", "file", "link"}
  BY DEF IsTree
<1>2. CASE Lstat(path).kind # "link"
  BY <1>1, <1>2 DEF Node, Lstat, NodeAt, IsTree
<1>3. CASE Lstat(path).kind = "link"
  <2>1. IsReal(tree, Real(path))
    BY RealReal DEF Real
  <2>2. Stat(path).kind \in {"dir", "file", "missing"}
    BY <1>1, <2>1 DEF Stat, NodeAt, IsReal
  <2> QED
    BY <1>3, <2>2 DEF Node
<1> QED
  BY <1>2, <1>3

\* Two paths to one place lead to the same.
LEMMA PlaceDecides ==
  ASSUME NEW path \in Seq(Nat), NEW other \in Seq(Nat),
         path # << >>, other # << >>, Place(path) = Place(other)
  PROVE  /\ Real(path) = Real(other) /\ Lstat(path) = Lstat(other)
         /\ Stat(path) = Stat(other) /\ Node(path) = Node(other)
<1>1. Real(path) = Real(other)
  BY RealPlace DEF Real, Place
<1>2. Lstat(path) = Lstat(other)
  BY DEF Lstat, Place
<1>3. Stat(path) = Stat(other)
  BY <1>1 DEF Stat
<1> QED
  BY <1>1, <1>2, <1>3 DEF Node

\* What a directory holds is at its place.
LEMMA ChildPlace ==
  ASSUME IsTree(tree), NEW path \in Seq(Nat), NEW q \in ChildrenIn(Real(path))
  PROVE  q \in Seq(Nat) /\ q # << >> /\ Place(q) = q /\ Last(q) \in Nat
         /\ q = Append(Real(path), Last(q))
<1>1. q \in Seq(Nat) /\ q # << >> /\ Front(q) = Real(path)
  BY DEF ChildrenIn, IsTree
<1>2. Real(Real(path)) = Real(path)
  BY RealReal DEF Real, IsReal
<1>3. q = Append(Front(q), Last(q)) /\ Last(q) \in Nat
  BY <1>1, FrontLast
<1> QED
  BY <1>1, <1>2, <1>3 DEF Place

\* Names in a directory are at its real path.
LEMMA EntryPlace ==
  ASSUME IsTree(tree), NEW path \in Seq(Nat), NEW q \in ChildrenIn(Real(path))
  PROVE  /\ Append(path, Last(q)) \in Seq(Nat) \ {<< >>}
         /\ Front(Append(path, Last(q))) = path
         /\ Place(Append(path, Last(q))) = q
<1>1. Last(q) \in Nat /\ q = Append(Real(path), Last(q))
  BY ChildPlace
<1> QED
  BY <1>1, FrontAppend DEF Place

-----------------------------------------------------------------------------
(* Lists.                                                                  *)

\* What appending does to a sequence.
LEMMA Appended ==
  ASSUME NEW s, Proper(s), NEW e
  PROVE  /\ Proper(Append(s, e))
         /\ Len(s) \in Nat /\ DOMAIN s = 1 .. Len(s)
         /\ DOMAIN Append(s, e) = 1 .. Len(s) + 1
         /\ \A i \in 1 .. Len(s) : Append(s, e)[i] = s[i]
         /\ Append(s, e)[Len(s) + 1] = e
<1>1. PICK S : s \in Seq(S)
  BY DEF Proper
<1> DEFINE T == S \cup {e}
<1>2. s \in Seq(T) /\ e \in T
  <2>1. Len(s) \in Nat /\ s \in [1 .. Len(s) -> S]
    BY <1>1
  <2>2. s \in [1 .. Len(s) -> T]
    BY <2>1
  <2> QED
    BY <2>1, <2>2
<1> HIDE DEF T
<1>3. Append(s, e) \in Seq(T)
  BY <1>2
<1> QED
  BY <1>2, <1>3 DEF Proper

\* What joining does to sequences of one kind.
LEMMA JoinedOfKind ==
  ASSUME NEW S, NEW s \in Seq(S), NEW t \in Seq(S)
  PROVE  /\ s \o t \in Seq(S) /\ Len(s \o t) = Len(s) + Len(t)
         /\ Len(s) \in Nat /\ DOMAIN s = 1 .. Len(s)
         /\ Len(t) \in Nat /\ DOMAIN t = 1 .. Len(t)
         /\ DOMAIN (s \o t) = 1 .. Len(s) + Len(t)
         /\ \A i \in 1 .. Len(s) : (s \o t)[i] = s[i]
         /\ \A i \in 1 .. Len(t) : (s \o t)[Len(s) + i] = t[i]
BY ConcatProperties, LenProperties

\* The beginning of a path.
LEMMA Beginning ==
  ASSUME NEW s \in Seq(Nat), NEW m \in Nat, m <= Len(s)
  PROVE  /\ SubSeq(s, 1, m) \in Seq(Nat) /\ Len(SubSeq(s, 1, m)) = m
         /\ \A i \in 1 .. m : SubSeq(s, 1, m)[i] = s[i]
OBVIOUS

\* The rest of a path.
LEMMA Ending ==
  ASSUME NEW s \in Seq(Nat), NEW m \in Nat, m <= Len(s)
  PROVE  LET rest == SubSeq(s, m + 1, Len(s)) IN
         /\ rest \in Seq(Nat) /\ Len(rest) = Len(s) - m
         /\ \A i \in 1 .. Len(s) - m : rest[i] = s[m + i]
OBVIOUS

\* A prefix, name by name.
LEMMA PrefixNames ==
  ASSUME NEW s \in Seq(Nat), NEW t \in Seq(Nat)
  PROVE  IsPrefix(s, t) <=> Len(s) <= Len(t) /\ \A i \in 1 .. Len(s) : s[i] = t[i]
<1>1. Len(s) \in Nat /\ Len(t) \in Nat
  OBVIOUS
<1>2. CASE Len(s) <= Len(t)
  <2>1. PICK p, q : p = SubSeq(s, 1, Len(s)) /\ q = SubSeq(t, 1, Len(s))
    OBVIOUS
  <2>2. /\ p \in Seq(Nat) /\ Len(p) = Len(s) /\ \A i \in 1 .. Len(s) : p[i] = s[i]
        /\ q \in Seq(Nat) /\ Len(q) = Len(s) /\ \A i \in 1 .. Len(s) : q[i] = t[i]
    BY <1>1, <1>2, <2>1, Beginning
  <2>3. p = q <=> \A i \in 1 .. Len(s) : s[i] = t[i]
    <3>1. ASSUME \A i \in 1 .. Len(s) : s[i] = t[i] PROVE p = q
      BY <2>2, <3>1, SeqEqual
    <3> QED
      BY <2>2, <3>1
  <2> QED
    BY <1>2, <2>1, <2>3 DEF IsPrefix
<1> QED
  BY <1>2 DEF IsPrefix

\* A sequence of the elements of a finite set has each of them once.
LEMMA AllOnce ==
  ASSUME NEW S, IsFiniteSet(S), NEW s \in SetToSeqs(S)
  PROVE  /\ s \in Seq(S) /\ Len(s) = Cardinality(S) /\ Len(s) \in Nat
         /\ \A i, j \in DOMAIN s : s[i] = s[j] => i = j
         /\ \A x \in S : \E i \in DOMAIN s : s[i] = x
<1> DEFINE D == 1 .. Cardinality(S)
<1>1. Cardinality(S) \in Nat
  BY FS_CardinalityType
<1>2. s \in [D -> S] /\ \A i, j \in D : i # j => s[i] # s[j]
  BY DEF SetToSeqs
<1>3. s \in Injection(D, S)
  BY <1>2 DEF Injection, IsInjective
<1>4. IsFiniteSet(D) /\ Cardinality(D) = Cardinality(S)
  <2>1. 1 \in Int /\ Cardinality(S) \in Int /\ Cardinality(S) >= 0
    BY <1>1
  <2> QED
    BY <2>1, FS_Interval
<1>5. s \in Surjection(D, S)
  BY <1>3, <1>4, FS_Injection
<1>6. \A x \in S : \E i \in D : s[i] = x
  BY <1>5 DEF Surjection
<1>7. s \in Seq(S) /\ Len(s) = Cardinality(S) /\ DOMAIN s = D
  BY <1>1, <1>2
<1> QED
  BY <1>1, <1>2, <1>6, <1>7

\* ReadDir lists the names of all that the directory holds.
LEMMA ListingComplete ==
  ASSUME IsTree(tree), NEW path, NEW names \in Listings(path)
  PROVE  /\ Proper(names)
         /\ \A i \in DOMAIN names : \E q \in ChildrenIn(Real(path)) : names[i] = Last(q)
         /\ \A q \in ChildrenIn(Real(path)) : \E i \in DOMAIN names : names[i] = Last(q)
<1> DEFINE C == ChildrenIn(Real(path))
           N == {Last(p) : p \in C}
           f == [p \in C |-> Last(p)]
<1>1. IsFiniteSet(C)
  <2>1. C \subseteq DOMAIN tree
    BY DEF ChildrenIn
  <2> QED
    BY <2>1, FS_Subset DEF IsTree
<1>2. f \in Surjection(C, N)
  BY DEF Surjection
<1>3. IsFiniteSet(N)
  <2> HIDE DEF f, N, C
  <2> QED
    BY <1>1, <1>2, FS_Surjection
<1>4. names \in SetToSeqs(N)
  BY DEF Listings
<1> HIDE DEF C, f
<1>5. names \in Seq(N) /\ \A x \in N : \E i \in DOMAIN names : names[i] = x
  <2> HIDE DEF N
  <2> QED
    BY <1>3, <1>4, AllOnce
<1>6. \A i \in DOMAIN names : names[i] \in N
  <2> HIDE DEF N
  <2> QED
    BY <1>5
<1> QED
  BY <1>5, <1>6 DEF Proper, C

\* The element at i was moved there from p[i].
Moved(p, list, other) ==
  /\ \A i \in DOMAIN list : p[i] \in DOMAIN list /\ other[i] = list[p[i]]
  /\ \A i, j \in DOMAIN list : p[i] = p[j] => i = j
  /\ \A x \in DOMAIN list : \E i \in DOMAIN list : p[i] = x

\* Sorting moves the elements of a list.
LEMMA ArrangedBy ==
  ASSUME NEW S, NEW list \in Seq(S), NEW other \in Arrangements(list)
  PROVE  /\ other \in Seq(S) /\ Len(other) = Len(list) /\ DOMAIN other = DOMAIN list
         /\ \E p : Moved(p, list, other)
<1> DEFINE D == DOMAIN list
<1>1. Len(list) \in Nat /\ D = 1 .. Len(list)
  OBVIOUS
<1>2. IsFiniteSet(D) /\ Cardinality(D) = Len(list)
  BY <1>1, FS_Interval
<1>3. PICK p \in SetToSeqs(D) : other = [i \in D |-> list[p[i]]]
  BY DEF Arrangements
<1>4. /\ p \in Seq(D) /\ Len(p) = Len(list)
      /\ \A i, j \in DOMAIN p : p[i] = p[j] => i = j
      /\ \A x \in D : \E i \in DOMAIN p : p[i] = x
  BY <1>2, AllOnce
<1>5. DOMAIN p = D /\ \A i \in D : p[i] \in D
  BY <1>1, <1>4
<1>6. \A i \in D : other[i] = list[p[i]]
  BY <1>3
<1>7. other \in [1 .. Len(list) -> S]
  BY <1>1, <1>3, <1>5
<1>8. other \in Seq(S) /\ Len(other) = Len(list) /\ DOMAIN other = D
  BY <1>1, <1>7
<1> HIDE DEF D
<1>9. Moved(p, list, other)
  BY <1>4, <1>5, <1>6 DEF D, Moved
<1> QED
  BY <1>8, <1>9 DEF D

\* So it loses and repeats nothing.
LEMMA Arranged ==
  ASSUME NEW S, NEW list \in Seq(S), NEW other \in Arrangements(list)
  PROVE  /\ \A i \in DOMAIN list : \E j \in DOMAIN list : other[i] = list[j]
         /\ \A i \in DOMAIN list : \E j \in DOMAIN list : other[j] = list[i]
<1>1. PICK p : Moved(p, list, other)
  BY ArrangedBy
<1>2. ASSUME NEW i \in DOMAIN list PROVE \E j \in DOMAIN list : other[j] = list[i]
  <2>1. PICK j \in DOMAIN list : p[j] = i
    BY <1>1 DEF Moved
  <2> QED
    BY <1>1, <2>1 DEF Moved
<1> QED
  BY <1>1, <1>2 DEF Moved

-----------------------------------------------------------------------------
(* The order of the items and their groups.                                *)

\* Sorted in any order, and reversed or not, a list has the same elements.
LEMMA OrderingKeeps ==
  ASSUME NEW S, NEW list \in Seq(S), NEW order, NEW reverse,
         NEW sorted \in Orderings(list, order, reverse)
  PROVE  sorted \in Seq(S) /\ Len(sorted) = Len(list) /\ \E p : Moved(p, list, sorted)
<1>1. PICK s \in Arrangements(list) : sorted = s \/ sorted = Reverse(s)
  BY DEF Orderings
<1>2. s \in Seq(S) /\ Len(s) = Len(list) /\ DOMAIN s = DOMAIN list /\ \E p : Moved(p, list, s)
  BY ArrangedBy
<1>3. PICK p : Moved(p, list, s)
  BY <1>2
<1> DEFINE n == Len(list)
<1>4. n \in Nat /\ DOMAIN list = 1 .. n
  OBVIOUS
<1>5. CASE sorted = s
  BY <1>2, <1>5
<1>6. CASE sorted = Reverse(s)
  <2> DEFINE q == [i \in 1 .. n |-> p[n - i + 1]]
  <2>1. sorted = [i \in 1 .. n |-> s[n - i + 1]]
    BY <1>2, <1>6 DEF Reverse
  <2>2. \A i \in 1 .. n : n - i + 1 \in 1 .. n
    BY <1>4
  <2>3. sorted \in Seq(S) /\ Len(sorted) = n
    <3>1. \A i \in 1 .. n : s[i] \in S
      BY <1>2, <1>4
    <3>2. sorted \in [1 .. n -> S]
      BY <2>1, <2>2, <3>1
    <3> QED
      BY <1>4, <3>2
  <2>4. \A i \in 1 .. n : q[i] \in 1 .. n /\ sorted[i] = list[q[i]]
    BY <1>3, <1>4, <2>1, <2>2 DEF Moved
  <2>5. ASSUME NEW i \in 1 .. n, NEW j \in 1 .. n, q[i] = q[j] PROVE i = j
    <3>1. p[n - i + 1] = p[n - j + 1]
      BY <2>5
    <3>2. \A x, y \in 1 .. n : p[x] = p[y] => x = y
      BY <1>3, <1>4 DEF Moved
    <3>3. n - i + 1 = n - j + 1
      BY <2>2, <3>1, <3>2
    <3> QED
      BY <1>4, <3>3
  <2>6. ASSUME NEW x \in 1 .. n PROVE \E i \in 1 .. n : q[i] = x
    <3>1. PICK i \in 1 .. n : p[i] = x
      BY <1>3, <1>4 DEF Moved
    <3>2. n - i + 1 \in 1 .. n /\ n - (n - i + 1) + 1 = i
      BY <1>4
    <3> QED
      BY <3>1, <3>2
  <2> HIDE DEF q
  <2>7. Moved(q, list, sorted)
    BY <1>4, <2>4, <2>5, <2>6 DEF Moved
  <2> QED
    BY <2>3, <2>7
<1> QED
  BY <1>1, <1>5, <1>6

\* The groups after the first items of a list.
GroupTrace(list, n, at) ==
  at = [i \in 0 .. n |-> IF i = 0 THEN NoGroups ELSE Put(at[i - 1], list[i])]

\* The loop of Build runs over any list.
LEMMA GroupTraceExists ==
  ASSUME NEW list, NEW N \in Nat
  PROVE  \E at : GroupTrace(list, N, at)
<1> DEFINE S == {n \in 0 .. N : \E at : GroupTrace(list, n, at)}
<1>1. 0 \in S
  <2> DEFINE at == [i \in 0 .. 0 |-> NoGroups]
  <2>1. GroupTrace(list, 0, at)
    BY DEF GroupTrace
  <2> HIDE DEF at
  <2> QED
    BY <2>1
<1>2. ASSUME NEW n \in 1 .. N, n - 1 \in S PROVE n \in S
  <2>1. PICK f : GroupTrace(list, n - 1, f)
    BY <1>2
  <2> DEFINE g == [i \in 0 .. n |-> IF i = n THEN Put(f[n - 1], list[n]) ELSE f[i]]
  <2>2. \A i \in 0 .. n - 1 : g[i] = f[i]
    OBVIOUS
  <2>3. g[n] = Put(g[n - 1], list[n])
    OBVIOUS
  <2>4. \A i \in 0 .. n - 1 : f[i] = IF i = 0 THEN NoGroups ELSE Put(f[i - 1], list[i])
    BY <2>1 DEF GroupTrace
  <2>5. \A i \in 0 .. n : g[i] = IF i = 0 THEN NoGroups ELSE Put(g[i - 1], list[i])
    BY <2>2, <2>3, <2>4
  <2>6. g = [i \in 0 .. n |-> g[i]]
    OBVIOUS
  <2> HIDE DEF g
  <2>7. GroupTrace(list, n, g)
    BY <2>5, <2>6 DEF GroupTrace
  <2> QED
    BY <2>7
<1> HIDE DEF S
<1>3. N \in S
  BY <1>1, <1>2, AllUpTo
<1> QED
  BY <1>3 DEF S

\* Its groups are the last of such a trace.
LEMMA GroupedIsTrace ==
  ASSUME NEW list, Len(list) \in Nat
  PROVE  \E at : GroupTrace(list, Len(list), at) /\ Grouped(list) = at[Len(list)]
<1> DEFINE at[i \in 0 .. Len(list)] == IF i = 0 THEN NoGroups ELSE Put(at[i - 1], list[i])
<1>1. Grouped(list) = at[Len(list)]
  BY DEF Grouped
<1>2. \E f : f = [i \in 0 .. Len(list) |-> IF i = 0 THEN NoGroups ELSE Put(f[i - 1], list[i])]
  <2>1. PICK f : GroupTrace(list, Len(list), f)
    BY GroupTraceExists
  <2> QED
    BY <2>1 DEF GroupTrace
<1>3. GroupTrace(list, Len(list), at)
  BY <1>2 DEF GroupTrace
<1> HIDE DEF at
<1> QED
  BY <1>1, <1>3

\* A group: items of the key among the first n of the list, none repeated.
GroupOk(list, n, key, group) ==
  /\ Proper(group) /\ Len(group) >= 1
  /\ \A x \in DOMAIN group : \E i \in 1 .. n : group[x] = list[i] /\ GroupKey(list[i]) = key
  /\ \A x, y \in DOMAIN group : group[x] = group[y] => x = y

\* The groups have all of these items, and the order every key once.
GroupsOk(list, n, g) ==
  /\ Proper(g.order)
  /\ \A a, b \in DOMAIN g.order : g.order[a] = g.order[b] => a = b
  /\ \A a \in DOMAIN g.order : g.order[a] \in DOMAIN g.of
  /\ \A key \in DOMAIN g.of :
       GroupOk(list, n, key, g.of[key]) /\ \E a \in DOMAIN g.order : g.order[a] = key
  /\ \A i \in 1 .. n : \E key \in DOMAIN g.of : \E x \in DOMAIN g.of[key] : g.of[key][x] = list[i]

\* One more item.
LEMMA PutSound ==
  ASSUME NEW list, NEW n \in Nat \ {0}, \A i \in 1 .. n - 1 : list[i] # list[n],
         NEW g, GroupsOk(list, n - 1, g)
  PROVE  GroupsOk(list, n, Put(g, list[n]))
<1> DEFINE item == list[n]
           key == GroupKey(item)
           known == DOMAIN g.of
           old == IF key \in known THEN g.of[key] ELSE << >>
           new == Append(old, item)
           h == Put(g, item)
<1>1. /\ h.order = IF key \in known THEN g.order ELSE Append(g.order, key)
      /\ DOMAIN h.of = known \cup {key} /\ h.of[key] = new
      /\ \A k \in known : k # key => h.of[k] = g.of[k]
  BY DEF Put
<1> HIDE DEF h
<1>2. \A k \in known : GroupOk(list, n - 1, k, g.of[k])
  BY DEF GroupsOk
<1>3. /\ Proper(old)
      /\ \A x \in DOMAIN old : \E i \in 1 .. n - 1 : old[x] = list[i] /\ GroupKey(list[i]) = key
      /\ \A x, y \in DOMAIN old : old[x] = old[y] => x = y
  <2>1. CASE key \in known
    BY <1>2, <2>1 DEF GroupOk
  <2>2. CASE key \notin known
    <3>1. << >> \in Seq({}) /\ DOMAIN << >> = {}
      OBVIOUS
    <3> QED
      BY <2>2, <3>1 DEF Proper
  <2> QED
    BY <2>1, <2>2
<1>4. key \in known => old = g.of[key]
  OBVIOUS
<1> HIDE DEF old
<1>5. /\ Proper(new) /\ Len(old) \in Nat
      /\ DOMAIN old = 1 .. Len(old) /\ DOMAIN new = 1 .. Len(old) + 1
      /\ \A x \in 1 .. Len(old) : new[x] = old[x]
      /\ new[Len(old) + 1] = item
  BY <1>3, Appended
<1> HIDE DEF new
<1>6. \A x \in DOMAIN new : x = Len(old) + 1 \/ (x \in DOMAIN old /\ new[x] = old[x])
  BY <1>5
<1>7. GroupOk(list, n, key, new)
  <2>1. Len(new) >= 1
    BY <1>5 DEF Proper
  <2>2. ASSUME NEW x \in DOMAIN new
        PROVE  \E i \in 1 .. n : new[x] = list[i] /\ GroupKey(list[i]) = key
    <3>1. CASE x = Len(old) + 1
      BY <1>5, <3>1
    <3>2. CASE x \in DOMAIN old /\ new[x] = old[x]
      BY <1>3, <3>2
    <3> QED
      BY <1>6, <3>1, <3>2
  <2>3. \A x \in DOMAIN old : old[x] # item
    BY <1>3
  <2>4. \A x, y \in DOMAIN new : new[x] = new[y] => x = y
    BY <1>3, <1>5, <1>6, <2>3
  <2> QED
    BY <1>5, <2>1, <2>2, <2>4 DEF GroupOk
<1>8. ASSUME NEW k, NEW s, GroupOk(list, n - 1, k, s) PROVE GroupOk(list, n, k, s)
  <2>1. ASSUME NEW x \in DOMAIN s PROVE \E i \in 1 .. n : s[x] = list[i] /\ GroupKey(list[i]) = k
    <3>1. PICK i \in 1 .. n - 1 : s[x] = list[i] /\ GroupKey(list[i]) = k
      BY <1>8 DEF GroupOk
    <3> QED
      BY <3>1
  <2> QED
    BY <1>8, <2>1 DEF GroupOk
<1>9. \A k \in DOMAIN h.of : GroupOk(list, n, k, h.of[k])
  BY <1>1, <1>2, <1>7, <1>8
<1>10. /\ Proper(h.order)
       /\ \A a, b \in DOMAIN h.order : h.order[a] = h.order[b] => a = b
       /\ \A a \in DOMAIN h.order : h.order[a] \in DOMAIN h.of
       /\ \A k \in DOMAIN h.of : \E a \in DOMAIN h.order : h.order[a] = k
  <2>0. /\ Proper(g.order)
        /\ \A a, b \in DOMAIN g.order : g.order[a] = g.order[b] => a = b
        /\ \A a \in DOMAIN g.order : g.order[a] \in known
        /\ \A k \in known : \E a \in DOMAIN g.order : g.order[a] = k
    BY DEF GroupsOk
  <2>1. CASE key \in known
    <3>1. h.order = g.order /\ DOMAIN h.of = known
      BY <1>1, <2>1
    <3> QED
      BY <2>0, <3>1
  <2>2. CASE key \notin known
    <3>1. h.order = Append(g.order, key) /\ DOMAIN h.of = known \cup {key}
      BY <1>1, <2>2
    <3> DEFINE m == Len(g.order)
    <3>2. /\ Proper(h.order) /\ m \in Nat
          /\ DOMAIN g.order = 1 .. m /\ DOMAIN h.order = 1 .. m + 1
          /\ \A a \in 1 .. m : h.order[a] = g.order[a]
          /\ h.order[m + 1] = key
      BY <2>0, <3>1, Appended
    <3> HIDE DEF m
    <3>3. \A a \in DOMAIN h.order :
            \/ a = m + 1 /\ h.order[a] = key
            \/ a \in DOMAIN g.order /\ h.order[a] = g.order[a]
      BY <3>2
    <3>4. m + 1 \in DOMAIN h.order /\ \A a \in DOMAIN g.order : a \in DOMAIN h.order
      BY <3>2
    <3>5. \A a, b \in DOMAIN h.order : h.order[a] = h.order[b] => a = b
      BY <2>0, <2>2, <3>3
    <3>6. \A a \in DOMAIN h.order : h.order[a] \in DOMAIN h.of
      BY <2>0, <3>1, <3>3
    <3>7. ASSUME NEW k \in DOMAIN h.of PROVE \E a \in DOMAIN h.order : h.order[a] = k
      <4>1. CASE k = key
        BY <3>2, <3>4, <4>1
      <4>2. CASE k \in known
        <5>1. PICK a \in DOMAIN g.order : g.order[a] = k
          BY <2>0, <4>2
        <5> QED
          BY <3>2, <3>4, <5>1
      <4> QED
        BY <3>1, <4>1, <4>2
    <3> QED
      BY <3>2, <3>5, <3>6, <3>7
  <2> QED
    BY <2>1, <2>2
<1>11. ASSUME NEW i \in 1 .. n
       PROVE  \E k \in DOMAIN h.of : \E x \in DOMAIN h.of[k] : h.of[k][x] = list[i]
  <2>1. CASE i = n
    BY <1>1, <1>5, <2>1
  <2>2. CASE i # n
    <3>1. i \in 1 .. n - 1
      BY <2>2
    <3>2. PICK k \in known : \E x \in DOMAIN g.of[k] : g.of[k][x] = list[i]
      BY <3>1 DEF GroupsOk
    <3>5. PICK x \in DOMAIN g.of[k] : g.of[k][x] = list[i]
      BY <3>2
    <3>3. CASE k # key
      BY <1>1, <3>5, <3>3
    <3>4. CASE k = key
      <4>1. x \in DOMAIN old /\ old[x] = list[i]
        BY <1>4, <3>5, <3>4
      <4>2. x \in DOMAIN new /\ new[x] = list[i]
        BY <1>5, <4>1
      <4> QED
        BY <1>1, <4>2
    <3> QED
      BY <3>3, <3>4
  <2> QED
    BY <2>1, <2>2
<1> QED
  BY <1>9, <1>10, <1>11 DEF GroupsOk, h

\* The groups of a list without repetitions.
LEMMA GroupedSound ==
  ASSUME NEW list, Len(list) \in Nat, \A i, j \in 1 .. Len(list) : list[i] = list[j] => i = j
  PROVE  GroupsOk(list, Len(list), Grouped(list))
<1>0. PICK N \in Nat : N = Len(list)
  OBVIOUS
<1>1. PICK at : GroupTrace(list, N, at) /\ Grouped(list) = at[N]
  BY <1>0, GroupedIsTrace
<1>2. at[0] = NoGroups /\ \A i \in 1 .. N : at[i] = Put(at[i - 1], list[i])
  BY <1>1 DEF GroupTrace
<1> DEFINE S == {n \in 0 .. N : GroupsOk(list, n, at[n])}
<1>3. 0 \in S
  <2>1. << >> \in Seq({}) /\ DOMAIN << >> = {}
    OBVIOUS
  <2>2. at[0].order = << >> /\ at[0].of = << >>
    BY <1>2 DEF NoGroups
  <2>3. ASSUME NEW g, g.order = << >>, g.of = << >> PROVE GroupsOk(list, 0, g)
    BY <2>1, <2>3 DEF GroupsOk, Proper
  <2> QED
    BY <2>2, <2>3
<1>4. ASSUME NEW n \in 1 .. N, n - 1 \in S PROVE n \in S
  <2>1. \A i \in 1 .. n - 1 : list[i] # list[n]
    BY <1>0
  <2>2. GroupsOk(list, n - 1, at[n - 1]) /\ n \in Nat \ {0}
    BY <1>4
  <2>3. GroupsOk(list, n, Put(at[n - 1], list[n]))
    BY <2>1, <2>2, PutSound
  <2> QED
    BY <1>2, <2>3
<1> HIDE DEF S
<1>5. N \in S
  BY <1>0, <1>3, <1>4, AllUpTo
<1> QED
  BY <1>0, <1>1, <1>5 DEF S

-----------------------------------------------------------------------------
(* The chunks of a group.                                                  *)

\* The number of chunks is the length over the size, rounded up.
LEMMA RoundUp ==
  ASSUME NEW n \in Nat, NEW size \in Nat \ {0}
  PROVE  /\ (n + size - 1) \div size \in Nat
         /\ ((n + size - 1) \div size) * size >= n
         /\ ((n + size - 1) \div size) * size < n + size
OBVIOUS

\* More chunks begin no earlier.
LEMMA TimesMonotonic ==
  ASSUME NEW a \in Nat, NEW b \in Nat, a <= b, NEW c \in Nat
  PROVE  a * c <= b * c
OBVIOUS

\* A chunk begins after those before it, and is full unless it is the last.
LEMMA Chunk ==
  ASSUME NEW S, NEW s \in Seq(S), NEW size \in Nat \ {0}, NEW i \in DOMAIN Split(s, size)
  PROVE  /\ Split(s, size)[i] \in Seq(S) /\ Len(Split(s, size)[i]) \in 1 .. size
         /\ \A x \in 1 .. Len(Split(s, size)[i]) :
              /\ (i - 1) * size + x \in 1 .. Len(s)
              /\ Split(s, size)[i][x] = s[(i - 1) * size + x]
         /\ \A j \in DOMAIN Split(s, size) : i < j => Len(Split(s, size)[i]) = size
<1> DEFINE m == (Len(s) + size - 1) \div size
           from == (i - 1) * size
           to == Min({i * size, Len(s)})
           chunk == Split(s, size)[i]
<1>0. Len(s) \in Nat
  OBVIOUS
<1>1. Len(s) \in Nat /\ m \in Nat /\ m * size >= Len(s) /\ m * size < Len(s) + size
  BY <1>0, RoundUp, Zenon
<1>2. DOMAIN Split(s, size) = 1 .. m
  BY DEF Split
<1>3. chunk = SubSeq(s, from + 1, to)
  BY <1>2 DEF Split
<1> HIDE DEF m, chunk
<1>4. i \in Nat /\ i >= 1 /\ i <= m
  BY <1>1, <1>2
<1>5. from \in Nat /\ i * size = from + size
  BY <1>4
<1>6. i * size <= m * size
  BY <1>1, <1>4, TimesMonotonic
<1>7. from < Len(s)
  BY <1>1, <1>5, <1>6
<1>8. to = IF from + size <= Len(s) THEN from + size ELSE Len(s)
  BY <1>1, <1>5 DEF Min
<1> HIDE DEF from, to
<1>9. to \in Nat /\ from < to /\ to <= Len(s) /\ to <= from + size
  BY <1>1, <1>5, <1>7, <1>8
<1>10. /\ chunk \in Seq(S) /\ Len(chunk) = to - from
       /\ \A x \in 1 .. to - from : chunk[x] = s[from + x]
  BY <1>1, <1>3, <1>5, <1>9, SubSeqProperties
<1>11. ASSUME NEW j \in DOMAIN Split(s, size), i < j PROVE Len(chunk) = size
  <2>1. j \in Nat /\ i + 1 <= j /\ j <= m
    BY <1>1, <1>2, <1>4, <1>11
  <2>2. j - 1 \in Nat /\ i <= j - 1 /\ j - 1 <= m - 1 /\ m - 1 \in Nat
    BY <1>1, <1>4, <2>1
  <2>3. i * size <= (m - 1) * size
    BY <1>4, <2>2, TimesMonotonic
  <2>4. (m - 1) * size = m * size - size
    BY <1>1
  <2>5. from + size < Len(s)
    BY <1>1, <1>5, <2>3, <2>4
  <2> QED
    BY <1>1, <1>5, <1>8, <1>10, <2>5
<1>12. \A x \in 1 .. to - from : from + x \in 1 .. Len(s)
  BY <1>1, <1>5, <1>9
<1> QED
  BY <1>5, <1>9, <1>10, <1>11, <1>12 DEF chunk, from

\* Every element is in a chunk.
LEMMA ChunksCover ==
  ASSUME NEW S, NEW s \in Seq(S), NEW size \in Nat \ {0}, NEW k \in 1 .. Len(s)
  PROVE  \E i \in DOMAIN Split(s, size) : \E x \in DOMAIN Split(s, size)[i] :
           Split(s, size)[i][x] = s[k]
<1> DEFINE m == (Len(s) + size - 1) \div size
           i == (k + size - 1) \div size
           x == k - (i - 1) * size
<1>0. Len(s) \in Nat
  OBVIOUS
<1>1. Len(s) \in Nat /\ m \in Nat /\ m * size >= Len(s) /\ m * size < Len(s) + size
  BY <1>0, RoundUp, Zenon
<1>2. k \in Nat /\ i \in Nat /\ i * size >= k /\ i * size < k + size
  <2>1. k \in Nat
    BY <1>0
  <2> QED
    BY <2>1, RoundUp, Zenon
<1>3. DOMAIN Split(s, size) = 1 .. m
  BY DEF Split
<1> HIDE DEF m, i
<1>4. i >= 1
  BY <1>2
<1>5. i <= m
  <2>1. CASE m < i
    <3>1. m * size <= (i - 1) * size
      BY <1>1, <1>2, <1>4, <2>1, TimesMonotonic
    <3>2. (i - 1) * size = i * size - size
      BY <1>2
    <3> QED
      BY <1>1, <1>2, <3>1, <3>2
  <2> QED
    BY <1>1, <1>2, <2>1
<1>6. i \in DOMAIN Split(s, size)
  BY <1>1, <1>2, <1>3, <1>4, <1>5
<1>7. (i - 1) * size = i * size - size
  BY <1>2
<1>8. x \in 1 .. size
  BY <1>2, <1>7
<1> DEFINE chunk == Split(s, size)[i]
           from == (i - 1) * size
           to == Min({i * size, Len(s)})
<1>9. chunk = SubSeq(s, from + 1, to)
  BY <1>3, <1>6 DEF Split
<1> HIDE DEF chunk
<1>10. from \in Nat /\ i * size = from + size /\ k = from + x
  BY <1>2, <1>4, <1>7
<1>11. to = IF from + size <= Len(s) THEN from + size ELSE Len(s)
  BY <1>1, <1>10 DEF Min
<1> HIDE DEF from, to, x
<1>12. to \in Nat /\ from < to /\ to <= Len(s) /\ x <= to - from
  BY <1>1, <1>8, <1>10, <1>11
<1>13. /\ chunk \in Seq(S) /\ Len(chunk) = to - from
       /\ \A y \in 1 .. to - from : chunk[y] = s[from + y]
  BY <1>1, <1>9, <1>10, <1>12, SubSeqProperties
<1>14. x \in DOMAIN chunk /\ chunk[x] = s[k]
  BY <1>8, <1>10, <1>12, <1>13
<1> QED
  BY <1>6, <1>14 DEF chunk

\* A number of one block of n is less than any of a later block.
LEMMA NextBlock ==
  ASSUME NEW p \in Nat, NEW q \in Nat, NEW n \in Nat, p + n <= q,
         NEW v \in 1 .. n, NEW w \in 1 .. n
  PROVE  p + v < q + w
OBVIOUS

\* An element that is not repeated is in one chunk only, at one place.
LEMMA ChunksApart ==
  ASSUME NEW S, NEW s \in Seq(S), \A k, l \in 1 .. Len(s) : s[k] = s[l] => k = l,
         NEW size \in Nat \ {0},
         NEW i \in DOMAIN Split(s, size), NEW x \in 1 .. Len(Split(s, size)[i]),
         NEW j \in DOMAIN Split(s, size), NEW y \in 1 .. Len(Split(s, size)[j]),
         Split(s, size)[i][x] = Split(s, size)[j][y]
  PROVE  i = j /\ x = y
<1>1. i \in Nat /\ j \in Nat /\ i >= 1 /\ j >= 1
  <2>1. DOMAIN Split(s, size) = 1 .. (Len(s) + size - 1) \div size
    BY DEF Split
  <2>2. (Len(s) + size - 1) \div size \in Nat
    BY RoundUp
  <2> QED
    BY <2>1, <2>2
<1>2. /\ Len(Split(s, size)[i]) \in 1 .. size /\ Len(Split(s, size)[j]) \in 1 .. size
      /\ (i - 1) * size + x \in 1 .. Len(s) /\ Split(s, size)[i][x] = s[(i - 1) * size + x]
      /\ (j - 1) * size + y \in 1 .. Len(s) /\ Split(s, size)[j][y] = s[(j - 1) * size + y]
  BY Chunk
<1>3. (i - 1) * size + x = (j - 1) * size + y
  BY <1>2
<1>4. x \in 1 .. size /\ y \in 1 .. size
  BY <1>2
<1>5. ASSUME NEW a \in Nat, NEW b \in Nat, a < b, NEW v \in 1 .. size, NEW w \in 1 .. size
      PROVE  a * size + v < b * size + w
  <2>1. a + 1 <= b /\ a + 1 \in Nat
    BY <1>5
  <2>2. (a + 1) * size <= b * size
    BY <2>1, TimesMonotonic
  <2>3. (a + 1) * size = a * size + size
    OBVIOUS
  <2>4. a * size + size <= b * size
    BY <2>2, <2>3
  <2>5. a * size \in Nat /\ b * size \in Nat
    OBVIOUS
  <2> QED
    BY <2>4, <2>5, NextBlock
<1>6. i - 1 \in Nat /\ j - 1 \in Nat
  BY <1>1
<1>7. ~(i - 1 < j - 1)
  <2>1. CASE i - 1 < j - 1
    <3>1. (i - 1) * size + x < (j - 1) * size + y
      BY <1>4, <1>5, <1>6, <2>1
    <3> QED
      BY <1>2, <1>3, <3>1
  <2> QED
    BY <2>1
<1>8. ~(j - 1 < i - 1)
  <2>1. CASE j - 1 < i - 1
    <3>1. (j - 1) * size + y < (i - 1) * size + x
      BY <1>4, <1>5, <1>6, <2>1
    <3> QED
      BY <1>2, <1>3, <3>1
  <2> QED
    BY <2>1
<1>9. i = j
  BY <1>1, <1>7, <1>8
<1>10. (i - 1) * size \in Nat
  BY <1>1
<1> QED
  BY <1>3, <1>4, <1>9, <1>10

-----------------------------------------------------------------------------
(* The albums.                                                             *)

\* What joining does to sequences.
LEMMA Joined ==
  ASSUME NEW s, Proper(s), NEW t, Proper(t)
  PROVE  /\ Proper(s \o t) /\ Len(s) \in Nat /\ Len(t) \in Nat
         /\ DOMAIN s = 1 .. Len(s) /\ DOMAIN t = 1 .. Len(t)
         /\ DOMAIN (s \o t) = 1 .. Len(s) + Len(t)
         /\ \A i \in 1 .. Len(s) : (s \o t)[i] = s[i]
         /\ \A i \in 1 .. Len(t) : (s \o t)[Len(s) + i] = t[i]
         /\ s = << >> => s \o t = t
<1>1. PICK A, B : s \in Seq(A) /\ t \in Seq(B)
  BY DEF Proper
<1> DEFINE S == A \cup B
<1>2. s \in Seq(S) /\ t \in Seq(S)
  <2>1. Len(s) \in Nat /\ s \in [1 .. Len(s) -> A] /\ Len(t) \in Nat /\ t \in [1 .. Len(t) -> B]
    BY <1>1
  <2>2. s \in [1 .. Len(s) -> S] /\ t \in [1 .. Len(t) -> S]
    BY <2>1
  <2> QED
    BY <2>1, <2>2
<1> HIDE DEF S
<1>3. s \o t \in Seq(S)
  BY <1>2, JoinedOfKind
<1>4. s = << >> => s \o t = t
  BY <1>2
<1> QED
  BY <1>2, <1>3, <1>4, JoinedOfKind DEF Proper

\* The sequence f joins the first n of seqs: at a it has element C[a] of
\* number G[a].
Flattened(seqs, n, f, G, C) ==
  /\ Proper(f)
  /\ \A a \in DOMAIN f :
       G[a] \in 1 .. n /\ C[a] \in DOMAIN seqs[G[a]] /\ f[a] = seqs[G[a]][C[a]]
  /\ \A a, b \in DOMAIN f : a < b => G[a] < G[b] \/ (G[a] = G[b] /\ C[a] < C[b])
  /\ \A k \in 1 .. n : \A c \in DOMAIN seqs[k] : \E a \in DOMAIN f : G[a] = k /\ C[a] = c

\* Joining one more.
LEMMA FlattenedStep ==
  ASSUME NEW seqs, NEW n \in Nat \ {0}, Proper(seqs[n]),
         NEW f, NEW G, NEW C, Flattened(seqs, n - 1, f, G, C)
  PROVE  \E H, D : Flattened(seqs, n, f \o seqs[n], H, D)
<1> DEFINE s == seqs[n]
           h == f \o s
           l == Len(f)
           H == [a \in DOMAIN h |-> IF a <= l THEN G[a] ELSE n]
           D == [a \in DOMAIN h |-> IF a <= l THEN C[a] ELSE a - l]
<1>1. /\ Proper(h) /\ l \in Nat /\ Len(s) \in Nat
      /\ DOMAIN f = 1 .. l /\ DOMAIN s = 1 .. Len(s) /\ DOMAIN h = 1 .. l + Len(s)
      /\ \A i \in 1 .. l : h[i] = f[i]
      /\ \A i \in 1 .. Len(s) : h[l + i] = s[i]
  <2>1. Proper(f) /\ Proper(s)
    BY DEF Flattened
  <2> HIDE DEF s
  <2> QED
    BY <2>1, Joined
<1> HIDE DEF h, l
<1>2. ASSUME NEW a \in DOMAIN h, a <= l
      PROVE  /\ a \in DOMAIN f /\ H[a] = G[a] /\ D[a] = C[a]
             /\ H[a] \in 1 .. n - 1 /\ D[a] \in DOMAIN seqs[H[a]] /\ h[a] = seqs[H[a]][D[a]]
  <2>1. a \in DOMAIN f /\ H[a] = G[a] /\ D[a] = C[a] /\ h[a] = f[a]
    BY <1>1, <1>2
  <2> QED
    BY <2>1 DEF Flattened
<1>3. ASSUME NEW a \in DOMAIN h, ~(a <= l)
      PROVE  H[a] = n /\ D[a] = a - l /\ a - l \in DOMAIN s /\ h[a] = s[a - l]
  <2>1. a - l \in 1 .. Len(s) /\ l + (a - l) = a
    BY <1>1, <1>3
  <2> QED
    BY <1>1, <1>3, <2>1
<1>4. ASSUME NEW a \in DOMAIN f PROVE a \in DOMAIN h /\ H[a] = G[a] /\ D[a] = C[a]
  BY <1>1
<1>5. ASSUME NEW c \in DOMAIN s
      PROVE  l + c \in DOMAIN h /\ H[l + c] = n /\ D[l + c] = c
  <2>1. l + c \in DOMAIN h /\ ~(l + c <= l) /\ l + c - l = c
    BY <1>1
  <2> QED
    BY <1>1, <2>1
<1> HIDE DEF H, D
<1>6. ASSUME NEW a \in DOMAIN h
      PROVE  H[a] \in 1 .. n /\ D[a] \in DOMAIN seqs[H[a]] /\ h[a] = seqs[H[a]][D[a]]
  BY <1>2, <1>3
<1>7. ASSUME NEW a \in DOMAIN h, NEW b \in DOMAIN h, a < b
      PROVE  H[a] < H[b] \/ (H[a] = H[b] /\ D[a] < D[b])
  <2>0. a \in Nat /\ b \in Nat
    BY <1>1
  <2>1. CASE b <= l
    <3>1. a <= l
      BY <1>1, <1>7, <2>0, <2>1
    <3> QED
      BY <1>2, <1>7, <2>1, <3>1 DEF Flattened
  <2>2. CASE a <= l /\ ~(b <= l)
    BY <1>2, <1>3, <2>2
  <2>3. CASE ~(a <= l) /\ ~(b <= l)
    BY <1>1, <1>3, <1>7, <2>0, <2>3
  <2> QED
    BY <1>1, <1>7, <2>0, <2>1, <2>2, <2>3
<1>8. ASSUME NEW k \in 1 .. n, NEW c \in DOMAIN seqs[k]
      PROVE  \E a \in DOMAIN h : H[a] = k /\ D[a] = c
  <2>1. CASE k = n
    BY <1>5, <2>1
  <2>2. CASE k # n
    <3>1. k \in 1 .. n - 1
      BY <2>2
    <3>2. PICK a \in DOMAIN f : G[a] = k /\ C[a] = c
      BY <3>1 DEF Flattened
    <3> QED
      BY <1>4, <3>2
  <2> QED
    BY <2>1, <2>2
<1>9. Flattened(seqs, n, h, H, D)
  BY <1>1, <1>6, <1>7, <1>8 DEF Flattened
<1> QED
  BY <1>9 DEF h

\* The sequences that FlattenSeq joins on the way.
FlatTrace(seqs, n, at) ==
  at = [i \in 1 .. n |-> IF i = 1 THEN seqs[i] ELSE at[i - 1] \o seqs[i]]

\* Sequences can be joined one after the other.
LEMMA FlatTraceExists ==
  ASSUME NEW seqs, NEW N \in Nat
  PROVE  \E at : FlatTrace(seqs, N, at)
<1> DEFINE S == {n \in 0 .. N : \E at : FlatTrace(seqs, n, at)}
<1>1. 0 \in S
  <2> DEFINE at == [i \in 1 .. 0 |-> << >>]
  <2>1. FlatTrace(seqs, 0, at)
    BY DEF FlatTrace
  <2> HIDE DEF at
  <2> QED
    BY <2>1
<1>2. ASSUME NEW n \in 1 .. N, n - 1 \in S PROVE n \in S
  <2>1. PICK f : FlatTrace(seqs, n - 1, f)
    BY <1>2
  <2> DEFINE g == [i \in 1 .. n |-> IF i = n THEN IF n = 1 THEN seqs[n] ELSE f[n - 1] \o seqs[n]
                                    ELSE f[i]]
  <2>2. \A i \in 1 .. n - 1 : g[i] = f[i]
    OBVIOUS
  <2>3. g[n] = IF n = 1 THEN seqs[n] ELSE g[n - 1] \o seqs[n]
    OBVIOUS
  <2>4. \A i \in 1 .. n - 1 : f[i] = IF i = 1 THEN seqs[i] ELSE f[i - 1] \o seqs[i]
    BY <2>1 DEF FlatTrace
  <2>5. \A i \in 1 .. n : g[i] = IF i = 1 THEN seqs[i] ELSE g[i - 1] \o seqs[i]
    BY <2>2, <2>3, <2>4
  <2>6. g = [i \in 1 .. n |-> g[i]]
    OBVIOUS
  <2> HIDE DEF g
  <2>7. FlatTrace(seqs, n, g)
    BY <2>5, <2>6 DEF FlatTrace
  <2> QED
    BY <2>7
<1> HIDE DEF S
<1>3. N \in S
  BY <1>1, <1>2, AllUpTo
<1> QED
  BY <1>3 DEF S

\* FlattenSeq joins them all, in order.
LEMMA FlattenSeqSound ==
  ASSUME NEW seqs, Proper(seqs), \A k \in DOMAIN seqs : Proper(seqs[k])
  PROVE  \E G, C : Flattened(seqs, Len(seqs), FlattenSeq(seqs), G, C)
<1>0. PICK N \in Nat : N = Len(seqs) /\ DOMAIN seqs = 1 .. N
  BY DEF Proper
<1>1. ASSUME NEW f, f = << >> PROVE \E G, C : Flattened(seqs, 0, f, G, C)
  <2>1. << >> \in Seq({}) /\ DOMAIN << >> = {}
    OBVIOUS
  <2> QED
    BY <1>1, <2>1 DEF Flattened, Proper
<1>2. CASE N = 0
  <2>1. FlattenSeq(seqs) = seqs /\ seqs = << >>
    BY <1>0, <1>2 DEF FlattenSeq, Proper
  <2> QED
    BY <1>0, <1>1, <1>2, <2>1
<1>3. CASE N # 0
  <2> DEFINE at[i \in 1 .. Len(seqs)] == IF i = 1 THEN seqs[i] ELSE at[i - 1] \o seqs[i]
  <2>1. FlattenSeq(seqs) = at[N]
    BY <1>0, <1>3 DEF FlattenSeq
  <2>2. \E f : f = [i \in 1 .. Len(seqs) |-> IF i = 1 THEN seqs[i] ELSE f[i - 1] \o seqs[i]]
    <3>1. PICK f : FlatTrace(seqs, N, f)
      BY <1>0, FlatTraceExists
    <3> QED
      BY <1>0, <3>1 DEF FlatTrace
  <2>3. FlatTrace(seqs, N, at)
    BY <1>0, <2>2 DEF FlatTrace
  <2> HIDE DEF at
  <2>4. \A i \in 1 .. N : at[i] = IF i = 1 THEN seqs[i] ELSE at[i - 1] \o seqs[i]
    BY <2>3 DEF FlatTrace
  <2> DEFINE F(n) == IF n = 0 THEN << >> ELSE at[n]
             S == {n \in 0 .. N : \E G, C : Flattened(seqs, n, F(n), G, C)}
  <2>5. 0 \in S
    BY <1>1
  <2>6. ASSUME NEW n \in 1 .. N, n - 1 \in S PROVE n \in S
    <3>1. Proper(seqs[n])
      BY <1>0
    <3>2. PICK G, C : Flattened(seqs, n - 1, F(n - 1), G, C)
      BY <2>6
    <3>3. F(n) = F(n - 1) \o seqs[n]
      <4>1. CASE n = 1
        <5>1. Proper(<< >>)
          BY <3>2, <4>1 DEF Flattened
        <5> QED
          BY <2>4, <3>1, <4>1, <5>1, Joined
      <4>2. CASE n # 1
        <5>1. n # 0 /\ n - 1 # 0
          BY <1>0, <4>2
        <5>2. at[n] = at[n - 1] \o seqs[n]
          BY <2>4, <4>2
        <5> QED
          BY <5>1, <5>2
      <4> QED
        BY <4>1, <4>2
    <3> HIDE DEF F
    <3>4. \E G2, C2 : Flattened(seqs, n, F(n), G2, C2)
      BY <3>1, <3>2, <3>3, FlattenedStep
    <3> QED
      BY <3>4
  <2> HIDE DEF S
  <2>7. \A n \in 0 .. N : n \in S
    BY <1>0, <2>5, <2>6, AllUpTo
  <2> QED
    BY <1>0, <1>3, <2>1, <2>7 DEF S
<1> QED
  BY <1>2, <1>3

\* A function on 1 .. n is a sequence.
LEMMA ProperFunction ==
  ASSUME NEW n \in Nat, NEW f, f = [i \in 1 .. n |-> f[i]]
  PROVE  Proper(f) /\ Len(f) = n /\ DOMAIN f = 1 .. n
<1> DEFINE T == {f[i] : i \in 1 .. n}
<1>1. f \in [1 .. n -> T]
  OBVIOUS
<1> HIDE DEF T
<1>2. f \in Seq(T) /\ Len(f) = n /\ DOMAIN f = 1 .. n
  BY <1>1
<1> QED
  BY <1>2 DEF Proper

\* The plan: all items, none twice, in albums of one key that are full unless
\* they are the last of their group.
Partitioned(sorted, size, plan) ==
  /\ \A i \in DOMAIN sorted : \E a \in DOMAIN plan :
       \E k \in DOMAIN plan[a].items : plan[a].items[k] = sorted[i]
  /\ \A a, b \in DOMAIN plan :
       \A k \in DOMAIN plan[a].items, l \in DOMAIN plan[b].items :
         plan[a].items[k] = plan[b].items[l] => a = b /\ k = l
  /\ \A a \in DOMAIN plan :
       /\ Len(plan[a].items) \in 1 .. size
       /\ \A k \in DOMAIN plan[a].items : \E i \in DOMAIN sorted :
            plan[a].items[k] = sorted[i] /\ GroupKey(sorted[i]) = plan[a].key
       /\ \A b \in DOMAIN plan : a < b /\ plan[a].key = plan[b].key => Len(plan[a].items) = size

\* The chunks of the group that comes k-th.
Chunks(g, size, k) == Split(g.of[g.order[k]], size)

\* They are of items of its key, none repeated, and full except for the last.
ChunksOk(sorted, size, key, chunks) ==
  /\ Proper(chunks)
  /\ \A c \in DOMAIN chunks :
       /\ Len(chunks[c]) \in 1 .. size /\ DOMAIN chunks[c] = 1 .. Len(chunks[c])
       /\ \A x \in DOMAIN chunks[c] : \E i \in DOMAIN sorted :
            chunks[c][x] = sorted[i] /\ GroupKey(sorted[i]) = key
       /\ \A d \in DOMAIN chunks : c < d => Len(chunks[c]) = size
  /\ \A c, d \in DOMAIN chunks : \A x \in DOMAIN chunks[c], y \in DOMAIN chunks[d] :
       chunks[c][x] = chunks[d][y] => c = d /\ x = y

\* The chunks of a group are such.
LEMMA GroupChunks ==
  ASSUME NEW sorted, Len(sorted) \in Nat, DOMAIN sorted = 1 .. Len(sorted),
         NEW g, GroupsOk(sorted, Len(sorted), g), NEW size \in Nat \ {0}
  PROVE  \A k \in DOMAIN g.order : ChunksOk(sorted, size, g.order[k], Chunks(g, size, k))
<1>1. ASSUME NEW k \in DOMAIN g.order
      PROVE  ChunksOk(sorted, size, g.order[k], Chunks(g, size, k))
  <2>1. PICK s : s = g.of[g.order[k]]
    OBVIOUS
  <2>2. GroupOk(sorted, Len(sorted), g.order[k], s)
    BY <2>1 DEF GroupsOk
  <2>3. PICK S : s \in Seq(S)
    BY <2>2 DEF GroupOk, Proper
  <2>4. PICK chunks : chunks = Split(s, size)
    OBVIOUS
  <2>5. Chunks(g, size, k) = chunks
    BY <2>1, <2>4 DEF Chunks
  <2>6. Proper(chunks)
    <3>1. Len(s) \in Nat
      BY <2>3
    <3>2. PICK m \in Nat : m = (Len(s) + size - 1) \div size
      BY <3>1, RoundUp, Zenon
    <3>3. chunks = [c \in 1 .. m |-> chunks[c]]
      BY <2>4, <3>2 DEF Split
    <3> QED
      BY <3>2, <3>3, ProperFunction
  <2>7. ASSUME NEW c \in DOMAIN chunks
        PROVE  /\ Len(chunks[c]) \in 1 .. size /\ DOMAIN chunks[c] = 1 .. Len(chunks[c])
               /\ \A x \in DOMAIN chunks[c] : \E i \in DOMAIN sorted :
                    chunks[c][x] = sorted[i] /\ GroupKey(sorted[i]) = g.order[k]
               /\ \A d \in DOMAIN chunks : c < d => Len(chunks[c]) = size
    <3>1. /\ chunks[c] \in Seq(S) /\ Len(chunks[c]) \in 1 .. size
          /\ \A d \in DOMAIN chunks : c < d => Len(chunks[c]) = size
      BY <2>3, <2>4, Chunk
    <3>2. DOMAIN chunks[c] = 1 .. Len(chunks[c])
      BY <3>1
    <3>3. ASSUME NEW x \in DOMAIN chunks[c]
          PROVE  \E i \in DOMAIN sorted :
                   chunks[c][x] = sorted[i] /\ GroupKey(sorted[i]) = g.order[k]
      <4>1. PICK y \in 1 .. Len(s) : chunks[c][x] = s[y]
        BY <2>3, <2>4, <3>2, Chunk
      <4>2. y \in DOMAIN s
        BY <2>3
      <4> QED
        BY <2>2, <4>1, <4>2 DEF GroupOk
    <3> QED
      BY <3>1, <3>2, <3>3
  <2>8. ASSUME NEW c \in DOMAIN chunks, NEW d \in DOMAIN chunks,
               NEW x \in DOMAIN chunks[c], NEW y \in DOMAIN chunks[d], chunks[c][x] = chunks[d][y]
        PROVE  c = d /\ x = y
    <3>1. \A i, j \in 1 .. Len(s) : s[i] = s[j] => i = j
      <4>1. DOMAIN s = 1 .. Len(s)
        BY <2>3
      <4> QED
        BY <2>2, <4>1 DEF GroupOk
    <3>2. x \in 1 .. Len(chunks[c]) /\ y \in 1 .. Len(chunks[d])
      BY <2>7
    <3> QED
      BY <2>3, <2>4, <2>8, <3>1, <3>2, ChunksApart
  <2> QED
    BY <2>5, <2>6, <2>7, <2>8 DEF ChunksOk
<1> QED
  BY <1>1

\* Every item is in a chunk of a group.
InChunk(item, g, size) ==
  \E k \in DOMAIN g.order :
    \E c \in DOMAIN Chunks(g, size, k) : \E x \in DOMAIN Chunks(g, size, k)[c] :
      Chunks(g, size, k)[c][x] = item

\* The chunks of the groups have all the items of the list.
LEMMA GroupChunksCover ==
  ASSUME NEW sorted, NEW g, GroupsOk(sorted, Len(sorted), g), NEW size \in Nat \ {0},
         NEW i \in 1 .. Len(sorted)
  PROVE  InChunk(sorted[i], g, size)
<1>1. PICK key \in DOMAIN g.of : \E y \in DOMAIN g.of[key] : g.of[key][y] = sorted[i]
  BY DEF GroupsOk
<1>2. PICK s : s = g.of[key]
  OBVIOUS
<1>3. PICK y \in DOMAIN s : s[y] = sorted[i]
  BY <1>1, <1>2
<1>4. PICK k \in DOMAIN g.order : g.order[k] = key
  BY DEF GroupsOk
<1>5. PICK S : s \in Seq(S)
  BY <1>2 DEF GroupsOk, GroupOk, Proper
<1>6. y \in 1 .. Len(s)
  BY <1>5
<1>7. \E c \in DOMAIN Split(s, size) : \E x \in DOMAIN Split(s, size)[c] :
        Split(s, size)[c][x] = s[y]
  BY <1>5, <1>6, ChunksCover
<1>8. Chunks(g, size, k) = Split(s, size)
  BY <1>2, <1>4 DEF Chunks
<1> QED
  BY <1>3, <1>7, <1>8 DEF InChunk

\* Build makes such a plan of a sorted list.
LEMMA BuildPartitions ==
  ASSUME NEW S, NEW sorted \in Seq(S), \A i, j \in DOMAIN sorted : sorted[i] = sorted[j] => i = j,
         NEW size \in Nat \ {0}
  PROVE  Partitioned(sorted, size, Build(sorted, size))
<1>1. Len(sorted) \in Nat /\ DOMAIN sorted = 1 .. Len(sorted)
  OBVIOUS
<1>2. PICK g : g = Grouped(sorted)
  OBVIOUS
<1>3. GroupsOk(sorted, Len(sorted), g)
  BY <1>1, <1>2, GroupedSound
<1> DEFINE Album(k, c) == [key |-> g.order[k], items |-> Chunks(g, size, k)[c]]
           seqs == [k \in DOMAIN g.order |-> [c \in DOMAIN Chunks(g, size, k) |-> Album(k, c)]]
<1>4. PICK plan : plan = Build(sorted, size)
  OBVIOUS
<1>5. plan = FlattenSeq(seqs)
  BY <1>2, <1>4 DEF Build, Chunks
<1>6. \A k \in DOMAIN g.order : ChunksOk(sorted, size, g.order[k], Chunks(g, size, k))
  BY <1>1, <1>3, GroupChunks
<1>7. \A i \in DOMAIN sorted : InChunk(sorted[i], g, size)
  BY <1>1, <1>3, GroupChunksCover
<1>8. PICK n \in Nat : DOMAIN g.order = 1 .. n
  BY <1>3 DEF GroupsOk, Proper
<1>9. Proper(seqs) /\ Len(seqs) = n /\ DOMAIN seqs = DOMAIN g.order
  <2>1. seqs = [k \in 1 .. n |-> seqs[k]]
    BY <1>8
  <2> HIDE DEF seqs
  <2> QED
    BY <1>8, <2>1, ProperFunction
<1>10. ASSUME NEW k \in DOMAIN seqs
       PROVE  /\ Proper(seqs[k]) /\ DOMAIN seqs[k] = DOMAIN Chunks(g, size, k)
              /\ \A c \in DOMAIN seqs[k] : seqs[k][c] = Album(k, c)
  <2>1. k \in DOMAIN g.order
    BY <1>9
  <2>2. PICK m \in Nat : DOMAIN Chunks(g, size, k) = 1 .. m
    BY <1>6, <2>1 DEF ChunksOk, Proper
  <2>3. seqs[k] = [c \in 1 .. m |-> Album(k, c)]
    BY <2>1, <2>2
  <2>4. seqs[k] = [c \in 1 .. m |-> seqs[k][c]]
    BY <2>3
  <2> HIDE DEF seqs
  <2>5. Proper(seqs[k]) /\ DOMAIN seqs[k] = 1 .. m
    BY <2>2, <2>4, ProperFunction
  <2> HIDE DEF Album
  <2> QED
    BY <2>2, <2>3, <2>5
<1>11. PICK G, C : Flattened(seqs, n, plan, G, C)
  <2> HIDE DEF seqs
  <2> QED
    BY <1>5, <1>9, <1>10, FlattenSeqSound
<1> HIDE DEF seqs
<1>12. ASSUME NEW a \in DOMAIN plan
       PROVE  /\ G[a] \in DOMAIN g.order /\ G[a] \in Nat
              /\ C[a] \in DOMAIN Chunks(g, size, G[a])
              /\ plan[a].key = g.order[G[a]] /\ plan[a].items = Chunks(g, size, G[a])[C[a]]
  <2>1. G[a] \in 1 .. n /\ C[a] \in DOMAIN seqs[G[a]] /\ plan[a] = seqs[G[a]][C[a]]
    BY <1>11 DEF Flattened
  <2>2. G[a] \in DOMAIN seqs
    BY <1>8, <1>9, <2>1
  <2>3. plan[a] = Album(G[a], C[a])
    BY <1>10, <2>1, <2>2
  <2> QED
    BY <1>8, <1>9, <1>10, <2>1, <2>2, <2>3
<1> HIDE DEF Album
<1>13. ASSUME NEW a \in DOMAIN plan, NEW k \in DOMAIN plan[a].items
       PROVE  \E i \in DOMAIN sorted :
                plan[a].items[k] = sorted[i] /\ GroupKey(sorted[i]) = plan[a].key
  BY <1>6, <1>12 DEF ChunksOk
<1>14. \A a, b \in DOMAIN plan : plan[a].key = plan[b].key => G[a] = G[b]
  BY <1>3, <1>12 DEF GroupsOk
<1>15. \A a \in DOMAIN plan : Len(plan[a].items) \in 1 .. size
  BY <1>6, <1>12 DEF ChunksOk
<1>16. ASSUME NEW a \in DOMAIN plan, NEW b \in DOMAIN plan, a < b, plan[a].key = plan[b].key
       PROVE  Len(plan[a].items) = size
  <2>1. G[a] = G[b]
    BY <1>14, <1>16
  <2>2. C[a] < C[b]
    BY <1>11, <1>12, <1>16, <2>1 DEF Flattened
  <2> QED
    BY <1>6, <1>12, <2>1, <2>2 DEF ChunksOk
<1>17. ASSUME NEW a \in DOMAIN plan, NEW b \in DOMAIN plan,
              NEW k \in DOMAIN plan[a].items, NEW l \in DOMAIN plan[b].items,
              plan[a].items[k] = plan[b].items[l]
       PROVE  a = b /\ k = l
  <2>1. plan[a].key = plan[b].key
    <3>1. PICK i \in DOMAIN sorted :
            plan[a].items[k] = sorted[i] /\ GroupKey(sorted[i]) = plan[a].key
      BY <1>13
    <3>2. PICK j \in DOMAIN sorted :
            plan[b].items[l] = sorted[j] /\ GroupKey(sorted[j]) = plan[b].key
      BY <1>13
    <3>3. i = j
      BY <1>17, <3>1, <3>2
    <3> QED
      BY <3>1, <3>2, <3>3
  <2>2. G[a] = G[b]
    BY <1>14, <2>1
  <2>3. C[a] = C[b] /\ k = l
    BY <1>6, <1>12, <1>17, <2>2 DEF ChunksOk
  <2>4. a \in Nat /\ b \in Nat
    BY <1>11 DEF Flattened, Proper
  <2>5. ~(a < b) /\ ~(b < a)
    <3>1. \A c \in DOMAIN Chunks(g, size, G[a]) : ~(c < c)
      <4>1. PICK m \in Nat : DOMAIN Chunks(g, size, G[a]) = 1 .. m
        BY <1>6, <1>12 DEF ChunksOk, Proper
      <4> QED
        BY <4>1
    <3> QED
      BY <1>11, <1>12, <2>2, <2>3, <3>1 DEF Flattened
  <2> QED
    BY <2>3, <2>4, <2>5
<1>18. ASSUME NEW i \in DOMAIN sorted
       PROVE  \E a \in DOMAIN plan : \E k \in DOMAIN plan[a].items : plan[a].items[k] = sorted[i]
  <2>1. PICK k \in DOMAIN g.order : \E c \in DOMAIN Chunks(g, size, k) :
          \E x \in DOMAIN Chunks(g, size, k)[c] : Chunks(g, size, k)[c][x] = sorted[i]
    BY <1>7 DEF InChunk
  <2>2. PICK c \in DOMAIN Chunks(g, size, k) :
          \E x \in DOMAIN Chunks(g, size, k)[c] : Chunks(g, size, k)[c][x] = sorted[i]
    BY <2>1
  <2>3. k \in 1 .. n /\ c \in DOMAIN seqs[k]
    BY <1>8, <1>9, <1>10
  <2>4. PICK a \in DOMAIN plan : G[a] = k /\ C[a] = c
    BY <1>11, <2>3 DEF Flattened
  <2> QED
    BY <1>12, <2>2, <2>4
<1>19. Partitioned(sorted, size, plan)
  BY <1>13, <1>15, <1>16, <1>17, <1>18 DEF Partitioned
<1> QED
  BY <1>4, <1>19
=============================================================================
