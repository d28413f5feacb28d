-------------------------- MODULE PreparationProofs --------------------------
(***************************************************************************)
(* Proofs about Preparation for every set of scenes: every tree, every     *)
(* configuration.  A setting has the value the highest layer gives it; a   *)
(* walk that follows links reads no directory twice, whatever cycles the   *)
(* links form; it lists what the sources and options ask for and nothing   *)
(* else, each file once, and for a tool call only what is below an allowed *)
(* root; the plan is a partition of what was listed.  The photos of an     *)
(* album are treated as PhotoSearch says, for all qualities of the two     *)
(* encoders and whatever outputs fit.                                      *)
(***************************************************************************)
EXTENDS Preparation, AlbumsProofs

-----------------------------------------------------------------------------
(* The walk.                                                               *)

\* A directory that was read is in seenDirs by its real path, and none is
\* there for two reads.
ReadOnce ==
  /\ Proper(reads)
  /\ \A i \in DOMAIN reads : Real(reads[i]) \in seenDirs
  /\ \A i, j \in DOMAIN reads : Real(reads[i]) = Real(reads[j]) => i = j

\* Nothing is read before the walk; a walk that follows links reads once.
WalkInv ==
  /\ stage = "config" => reads = << >>
  /\ stage = "scan" /\ cfg.follow => ReadOnce

\* scanDir reads a directory only if its real path is new.
LEMMA ScanDirReadsOnce ==
  ASSUME NEW path, NEW root, NEW rest, ReadOnce, cfg.follow, ScanDir(path, root, rest),
         UNCHANGED scene
  PROVE  ReadOnce'
<1>0. tree' = tree
  BY DEF tree
<1>1. CASE Real(path) \in seenDirs
  <2>1. reads' = reads /\ seenDirs' = seenDirs
    BY <1>1 DEF ScanDir
  <2> QED
    BY <2>1, <1>0 DEF ReadOnce, Real
<1>2. CASE Real(path) \notin seenDirs
  <2>1. reads' = Append(reads, path) /\ seenDirs' = seenDirs \cup {Real(path)}
    BY <1>2 DEF ScanDir
  <2>2. Proper(reads)
    BY DEF ReadOnce
  <2>3. /\ Proper(reads') /\ Len(reads) \in Nat
        /\ DOMAIN reads = 1 .. Len(reads) /\ DOMAIN reads' = 1 .. Len(reads) + 1
        /\ \A i \in 1 .. Len(reads) : reads'[i] = reads[i]
        /\ reads'[Len(reads) + 1] = path
    BY <2>1, <2>2, Appended
  <2>4. \A i \in DOMAIN reads' :
          \/ i = Len(reads) + 1
          \/ i \in DOMAIN reads /\ reads'[i] = reads[i]
    BY <2>3
  <2>5. ASSUME NEW i \in DOMAIN reads' PROVE RealIn(tree, reads'[i]) \in seenDirs'
    BY <2>1, <2>3, <2>4 DEF ReadOnce, Real
  <2>6. ASSUME NEW i \in DOMAIN reads', NEW j \in DOMAIN reads',
               RealIn(tree, reads'[i]) = RealIn(tree, reads'[j])
        PROVE  i = j
    BY <1>2, <2>3, <2>4, <2>6 DEF ReadOnce, Real
  <2> QED
    BY <1>0, <2>3, <2>5, <2>6 DEF ReadOnce, Real
<1> QED
  BY <1>1, <1>2

\* A step of the walk that reads nothing keeps what was read.
LEMMA NothingRead ==
  ASSUME ReadOnce, UNCHANGED <<scene, reads, seenDirs>>
  PROVE  ReadOnce'
BY DEF ReadOnce, Real, tree

\* The invariant of the walk.
LEMMA WalkStep ==
  ASSUME WalkInv, [Next]_vars
  PROVE  WalkInv'
<1>1. CASE Resolve
  <2>1. stage = "config" /\ reads = << >> /\ reads' = << >>
    BY <1>1 DEF Resolve, WalkInv
  <2>2. stage' # "config"
    BY <1>1 DEF Resolve
  <2>3. Proper(<< >>) /\ DOMAIN << >> = {}
    <3>1. << >> \in Seq({})
      OBVIOUS
    <3> QED
      BY <3>1 DEF Proper
  <2>4. ReadOnce'
    BY <2>1, <2>3 DEF ReadOnce
  <2> QED
    BY <2>2, <2>4 DEF WalkInv
<1>2. CASE ScanPath
  <2>1. stage = "scan" /\ UNCHANGED <<scene, cfg>> /\ stage' # "config"
    <3>1. stage = "scan" /\ UNCHANGED <<scene, cfg>>
      BY <1>2 DEF ScanPath
    <3>2. stage' \in {"failed", stage}
      BY <1>2 DEF ScanPath
    <3> QED
      BY <3>1, <3>2
  <2>2. \/ UNCHANGED <<seenDirs, reads>>
        \/ \E path, root : ScanDir(path, root, << >>)
    BY <1>2 DEF ScanPath, MaybeAppendItem
  <2> QED
    BY <2>1, <2>2, ScanDirReadsOnce, NothingRead DEF WalkInv
<1>3. CASE ScanEntry
  <2>1. stage = "scan" /\ UNCHANGED <<scene, cfg, stage>>
    BY <1>3 DEF ScanEntry
  <2>2. \/ UNCHANGED <<seenDirs, reads>>
        \/ \E path, root : ScanDir(path, root, Tail(todo))
    BY <1>3 DEF ScanEntry, MaybeAppendItem
  <2> QED
    BY <2>1, <2>2, ScanDirReadsOnce, NothingRead DEF WalkInv
<1>4. CASE ScanFails
  BY <1>4 DEF ScanFails, WalkInv
<1>5. CASE ScanDone
  <2>1. stage' \in {"empty", "plan"}
    BY <1>5, Zenon DEF ScanDone
  <2> QED
    BY <2>1 DEF WalkInv
<1>6. CASE Plan
  <2>1. stage' \in {"planned", "over"}
    BY <1>6, Zenon DEF Plan
  <2> QED
    BY <2>1 DEF WalkInv
<1>7. CASE StartAlbum \/ CompressAlbum
  <2>1. stage = "planned" /\ stage' = "planned"
    BY <1>7, Zenon DEF StartAlbum, CompressAlbum, prepVars
  <2> QED
    BY <2>1 DEF WalkInv
<1>8. CASE AllSent
  BY <1>8 DEF AllSent, WalkInv
<1>9. CASE UNCHANGED vars
  <2>1. UNCHANGED <<stage, cfg, scene, reads, seenDirs>>
    BY <1>9 DEF vars, prepVars, walk
  <2> QED
    BY <2>1, NothingRead DEF WalkInv
<1> QED
  BY <1>1, <1>2, <1>3, <1>4, <1>5, <1>6, <1>7, <1>8, <1>9, Zenon DEF Next, Discover

\* Links may form a cycle, but a walk that follows them reads no directory
\* twice (scan.go, seenDirs).
THEOREM DirectoriesReadOnce == Spec => []NoDirectoryTwice
<1>1. Init => WalkInv
  <2> SUFFICES ASSUME Init PROVE WalkInv
    OBVIOUS
  <2>1. stage = "config" /\ reads = << >>
    BY Zenon DEF Init
  <2> QED
    BY <2>1 DEF WalkInv
<1>2. WalkInv /\ [Next]_vars => WalkInv'
  BY WalkStep
<1>3. WalkInv => NoDirectoryTwice
  BY DEF WalkInv, ReadOnce, NoDirectoryTwice
<1> QED
  BY <1>1, <1>2, <1>3, PTL DEF Spec

-----------------------------------------------------------------------------
(* What the walk finds: its vocabulary.                                    *)

\* The directories that were read, the sources, what the filters let through,
\* and all that a walk has come across.
ReadDirs == {Real(reads[i]) : i \in DOMAIN reads}
Meets(q) == Node(q).kind = "file" /\ Allowed(Lstat(q).ext)
Around == Starts \cup UNION {ChildrenIn(d) : d \in ReadDirs}

\* The tree, and what the options make of it, is the same after every step of
\* the walk.
LEMMA Same ==
  ASSUME UNCHANGED <<scene, cfg>>
  PROVE  /\ tree' = tree /\ Directories' = Directories
         /\ Starts' = Starts /\ SourceDirs' = SourceDirs
         /\ \A p : /\ Real(p)' = Real(p) /\ Lstat(p)' = Lstat(p) /\ Stat(p)' = Stat(p)
                   /\ Node(p)' = Node(p) /\ Meets(p)' = Meets(p) /\ ChildrenIn(p)' = ChildrenIn(p)
                   /\ SubDirs(p)' = SubDirs(p) /\ Start(p)' = Start(p)
<1>1. tree' = tree
  BY DEF tree
<1>2. ASSUME NEW p PROVE Real(p)' = Real(p)
  BY <1>1 DEF Real
<1>3. ASSUME NEW p PROVE Stat(p)' = Stat(p)
  BY <1>1, <1>2 DEF Stat, NodeAt
<1>4. ASSUME NEW p PROVE Lstat(p)' = Lstat(p)
  BY <1>1, <1>2 DEF Lstat, NodeAt
<1>5. ASSUME NEW p PROVE Node(p)' = Node(p)
  BY <1>3, <1>4 DEF Node
<1>6. ASSUME NEW p PROVE Meets(p)' = Meets(p)
  BY <1>4, <1>5 DEF Meets, Allowed
<1>7. ASSUME NEW p PROVE ChildrenIn(p)' = ChildrenIn(p)
  BY <1>1 DEF ChildrenIn
<1>8. ASSUME NEW p PROVE SubDirs(p)' = SubDirs(p)
  BY <1>2, <1>5, <1>7 DEF SubDirs
<1>9. Directories' = Directories
  BY <1>1 DEF Directories
<1>10. ASSUME NEW p PROVE Start(p)' = Start(p)
  BY DEF Start, Absolute
<1>11. Starts' = Starts
  BY <1>10 DEF Starts
<1>12. SourceDirs' = SourceDirs
  BY <1>2, <1>5, <1>11 DEF SourceDirs
<1> QED
  BY <1>1, <1>2, <1>3, <1>4, <1>5, <1>6, <1>7, <1>8, <1>9, <1>10, <1>11, <1>12

\* What the list of entries to visit is of.
Entry == [path : Seq(Nat) \ {<< >>}, root : Seq(Nat)]

\* A set of directories that the sources are in and that nothing leads out of.
Closed(C) ==
  /\ C \subseteq Directories /\ SourceDirs \subseteq C
  /\ cfg.recursive => \A d \in C : SubDirs(d) \subseteq C

\* A root is a directory; an item is a file, placed relative to its root.
RootOk(root) == root \in Seq(Nat) /\ Stat(root).kind = "dir"
ItemOk(item) ==
  /\ item.path \in Seq(Nat) /\ NodeAt(Real(item.path)).kind = "file"
  /\ RootOk(item.root) /\ item.parent = ParentDir(Real(item.path), item.root)

\* The stack holds names in directories that were read.
EntryOk(e) ==
  e \in Entry /\ Real(Front(e.path)) \in ReadDirs /\ Place(e.path) \in DOMAIN tree /\ RootOk(e.root)

\* Every directory that was read is in each closed set.
ReadsOk ==
  /\ reads \in Seq(Seq(Nat))
  /\ ReadDirs \subseteq Directories
  /\ \A C : Closed(C) => ReadDirs \subseteq C
  /\ \A k \in seenDirs : Real(k) \in ReadDirs

TodoOk == todo \in Seq(Entry) /\ \A i \in DOMAIN todo : EntryOk(todo[i])

\* No file is listed twice, however it was come by.
ListedOnce ==
  \A i, j \in DOMAIN items : Real(items[i].path) = Real(items[j].path) => i = j

\* A file is seen when it is listed, and because it was asked for.
FoundOk ==
  /\ \A f \in seenFiles : \E q \in Around : Meets(q) /\ f = Real(q)
  /\ \A f \in seenFiles : \E i \in DOMAIN items : Real(items[i].path) = f
  /\ Proper(items) /\ ListedOnce
  /\ \A i \in DOMAIN items : Real(items[i].path) \in seenFiles /\ ItemOk(items[i])

-----------------------------------------------------------------------------
(* What reading a directory and listing a file do.                         *)

\* Reading a directory.
LEMMA ScanDirSound ==
  ASSUME IsTree(tree), UNCHANGED <<scene, cfg>>, NEW path \in Seq(Nat), NEW root, RootOk(root),
         NEW rest \in Seq(Entry), \A i \in DOMAIN rest : EntryOk(rest[i]),
         Real(path) \in Directories, \A C : Closed(C) => Real(path) \in C,
         ReadsOk, ScanDir(path, root, rest)
  PROVE  /\ ReadsOk' /\ TodoOk'
         /\ Real(path) \in ReadDirs' /\ ReadDirs \subseteq ReadDirs'
         /\ \A i \in DOMAIN rest : \E j \in DOMAIN todo' : todo'[j] = rest[i]
         /\ \A d \in ReadDirs' : \A q \in ChildrenIn(d) :
              d \in ReadDirs \/ \E i \in DOMAIN todo' : Place(todo'[i].path) = q
<1>0. \A C : Closed(C)' = Closed(C)
  BY Same DEF Closed
<1>1. CASE todo' = rest /\ UNCHANGED <<seenDirs, reads>> /\ Real(path) \in ReadDirs
  <2>1. ReadDirs' = ReadDirs
    BY <1>1, Same DEF ReadDirs
  <2>2. ReadsOk'
    BY <1>0, <1>1, <2>1, Same DEF ReadsOk
  <2>3. TodoOk'
    BY <1>1, <2>1, Same DEF TodoOk, EntryOk, Place, RootOk
  <2> QED
    BY <1>1, <2>1, <2>2, <2>3
<1>2. ASSUME NEW names \in Listings(path), NEW key, Real(key) = Real(path),
             seenDirs' = seenDirs \cup {key}, reads' = Append(reads, path),
             todo' = [i \in DOMAIN names |-> [path |-> Append(path, names[i]), root |-> root]]
                       \o rest
      PROVE  /\ ReadsOk' /\ TodoOk'
             /\ Real(path) \in ReadDirs' /\ ReadDirs \subseteq ReadDirs'
             /\ \A i \in DOMAIN rest : \E j \in DOMAIN todo' : todo'[j] = rest[i]
             /\ \A d \in ReadDirs' : \A q \in ChildrenIn(d) :
                  d \in ReadDirs \/ \E i \in DOMAIN todo' : Place(todo'[i].path) = q
  <2> DEFINE new == [i \in DOMAIN names |-> [path |-> Append(path, names[i]), root |-> root]]
             n == Len(names)
  <2>1. n \in Nat /\ DOMAIN names = 1 .. n
    BY ListingComplete DEF Proper
  <2>2. reads' \in Seq(Seq(Nat)) /\ ReadDirs' = ReadDirs \cup {Real(path)}
    <3>1. reads \in Seq(Seq(Nat))
      BY DEF ReadsOk
    <3>2. /\ reads' \in Seq(Seq(Nat)) /\ Len(reads) \in Nat
          /\ DOMAIN reads = 1 .. Len(reads) /\ DOMAIN reads' = 1 .. Len(reads) + 1
          /\ \A i \in 1 .. Len(reads) : reads'[i] = reads[i]
          /\ reads'[Len(reads) + 1] = path
      BY <1>2, <3>1
    <3>3. \A d : d \in ReadDirs' <=> \E i \in DOMAIN reads' : d = Real(reads'[i])
      BY Same DEF ReadDirs
    <3>4. \A d : d \in ReadDirs <=> \E i \in DOMAIN reads : d = Real(reads[i])
      BY DEF ReadDirs
    <3>5. Len(reads) + 1 \in DOMAIN reads'
      BY <3>2
    <3>6. ASSUME NEW d, d \in ReadDirs \cup {Real(path)} PROVE d \in ReadDirs'
      <4>1. CASE d = Real(path)
        BY <3>2, <3>3, <3>5, <4>1
      <4>2. CASE d \in ReadDirs
        <5>1. PICK i \in DOMAIN reads : d = Real(reads[i])
          BY <3>4, <4>2
        <5>2. i \in DOMAIN reads' /\ reads'[i] = reads[i]
          BY <3>2
        <5> QED
          BY <3>3, <5>1, <5>2
      <4> QED
        BY <3>6, <4>1, <4>2
    <3>7. ASSUME NEW d, d \in ReadDirs' PROVE d \in ReadDirs \cup {Real(path)}
      <4>1. PICK i \in DOMAIN reads' : d = Real(reads'[i])
        BY <3>3, <3>7
      <4>2. i = Len(reads) + 1 \/ (i \in DOMAIN reads /\ reads'[i] = reads[i])
        BY <3>2
      <4> QED
        BY <3>2, <3>4, <4>1, <4>2
    <3> QED
      BY <3>2, <3>6, <3>7
  <2>3. ReadsOk'
    BY <1>0, <1>2, <2>2, Same DEF ReadsOk
  <2>4. ASSUME NEW i \in 1 .. n
        PROVE  \E q \in ChildrenIn(Real(path)) :
                 /\ new[i].path \in Seq(Nat) \ {<< >>} /\ Front(new[i].path) = path
                 /\ Place(new[i].path) = q /\ new[i].root = root
    <3>0. i \in DOMAIN names
      BY <2>1
    <3>1. PICK q \in ChildrenIn(Real(path)) : names[i] = Last(q)
      BY <3>0, ListingComplete
    <3>2. new[i].path = Append(path, Last(q)) /\ new[i].root = root
      BY <2>1, <3>1
    <3> QED
      BY <3>2, EntryPlace
  <2>5. new \in Seq(Entry) /\ Len(new) = n
    <3>1. \A i \in 1 .. n : new[i] \in Entry
      BY <2>1, <2>4 DEF Entry, RootOk
    <3> QED
      BY <2>1, <3>1
  <2>6. /\ todo' \in Seq(Entry) /\ Len(todo') = n + Len(rest) /\ Len(rest) \in Nat
        /\ \A i \in 1 .. n : todo'[i] = new[i]
        /\ \A i \in 1 .. Len(rest) : todo'[n + i] = rest[i]
    <3> HIDE DEF new, n
    <3>1. todo' = new \o rest
      BY <1>2 DEF new
    <3>2. PICK first : first = new
      OBVIOUS
    <3>3. first \in Seq(Entry) /\ Len(first) = n /\ todo' = first \o rest
      BY <2>5, <3>1, <3>2
    <3> QED
      BY <3>2, <3>3, JoinedOfKind
  <2> HIDE DEF new, n
  <2>7. ASSUME NEW i \in 1 .. n PROVE EntryOk(new[i])'
    <3>1. PICK q \in ChildrenIn(Real(path)) :
            /\ new[i].path \in Seq(Nat) \ {<< >>} /\ Front(new[i].path) = path
            /\ Place(new[i].path) = q /\ new[i].root = root
      BY <2>4
    <3>2. new[i] \in Entry
      BY <2>5
    <3>3. q \in DOMAIN tree
      BY DEF ChildrenIn
    <3> QED
      BY <2>2, <3>1, <3>2, <3>3, Same DEF EntryOk, Place, RootOk
  <2>8. ASSUME NEW i \in DOMAIN rest PROVE EntryOk(rest[i])'
    BY <2>2, Same DEF EntryOk, Place, RootOk
  <2>0. DOMAIN rest = 1 .. Len(rest) /\ DOMAIN todo' = 1 .. n + Len(rest)
    BY <2>1, <2>6, LenProperties
  <2>9. ASSUME NEW i \in DOMAIN todo'
        PROVE  \/ i \in 1 .. n /\ todo'[i] = new[i]
               \/ i - n \in DOMAIN rest /\ todo'[i] = rest[i - n]
    <3>1. CASE i <= n
      BY <2>0, <2>1, <2>6, <3>1
    <3>2. CASE ~(i <= n)
      <4>1. i - n \in 1 .. Len(rest) /\ n + (i - n) = i
        BY <2>0, <2>1, <2>6, <3>2
      <4> QED
        BY <2>0, <2>6, <4>1
    <3> QED
      BY <3>1, <3>2
  <2>10. TodoOk'
    BY <2>6, <2>7, <2>8, <2>9 DEF TodoOk
  <2>11. ASSUME NEW i \in DOMAIN rest PROVE \E j \in DOMAIN todo' : todo'[j] = rest[i]
    <3>1. n + i \in DOMAIN todo'
      BY <2>0, <2>1, <2>6
    <3> QED
      BY <2>0, <2>6, <3>1
  <2>12. ASSUME NEW q \in ChildrenIn(Real(path))
         PROVE  \E i \in DOMAIN todo' : Place(todo'[i].path) = q
    <3>1. PICK i \in 1 .. n : names[i] = Last(q)
      BY <2>1, ListingComplete
    <3>2. new[i].path = Append(path, Last(q))
      BY <2>1, <3>1 DEF new
    <3>3. Place(new[i].path) = q
      BY <3>2, EntryPlace
    <3>4. i \in DOMAIN todo' /\ todo'[i] = new[i]
      BY <2>1, <2>6, <2>0
    <3> QED
      BY <3>3, <3>4
  <2> QED
    BY <2>2, <2>3, <2>10, <2>11, <2>12
<1>3. \/ todo' = rest /\ UNCHANGED <<seenDirs, reads>> /\ Real(path) \in ReadDirs
      \/ \E names \in Listings(path) : \E key :
           /\ Real(key) = Real(path)
           /\ seenDirs' = seenDirs \cup {key} /\ reads' = Append(reads, path)
           /\ todo' = [i \in DOMAIN names |-> [path |-> Append(path, names[i]), root |-> root]]
                        \o rest
  <2> DEFINE key == IF cfg.follow THEN Real(path) ELSE path
  <2>1. Real(key) = Real(path)
    BY RealReal DEF Real, IsReal
  <2>2. CASE key \in seenDirs
    BY <2>1, <2>2 DEF ScanDir, ReadsOk
  <2>3. CASE key \notin seenDirs
    BY <2>1, <2>3 DEF ScanDir
  <2> QED
    BY <2>2, <2>3
<1> QED
  BY <1>1, <1>2, <1>3

\* Listing a file.
LEMMA AppendSound ==
  ASSUME IsTree(tree), UNCHANGED <<scene, cfg, reads>>,
         NEW path \in Seq(Nat), NEW root, RootOk(root), NEW rest, Node(path).kind = "file",
         NEW q \in Around, Real(q) = Real(path), Node(q) = Node(path), Lstat(q) = Lstat(path),
         FoundOk, MaybeAppendItem(path, root, rest)
  PROVE  FoundOk' /\ seenFiles \subseteq seenFiles' /\ (Meets(path) => Real(path) \in seenFiles')
<1>1. /\ path # << >> /\ Lstat(path) = tree[Place(path)]
      /\ Real(path) \in DOMAIN tree /\ tree[Real(path)].kind = "file"
  BY NodeBehind
<1>2. Around' = Around
  BY Same DEF Around, ReadDirs
<1>3. \A x : ItemOk(x)' = ItemOk(x)
  <2>1. ASSUME NEW x PROVE ItemOk(x)' = ItemOk(x)
    BY Same DEF ItemOk, RootOk, NodeAt
  <2> QED
    BY <2>1
<1>4. CASE UNCHANGED <<seenFiles, items>> /\ (~Allowed(Lstat(path).ext) \/ Real(path) \in seenFiles)
  <2>1. FoundOk'
    BY <1>2, <1>3, <1>4, Same DEF FoundOk, ListedOnce
  <2> QED
    BY <1>4, <2>1 DEF Meets
<1>5. ASSUME Allowed(Lstat(path).ext), Real(path) \notin seenFiles,
             seenFiles' = seenFiles \cup {Real(path)}, NEW item, items' = Append(items, item),
             item.path = (IF cfg.follow THEN Real(path) ELSE path),
             item.root = root, item.parent = ParentDir(Real(path), root)
      PROVE  /\ FoundOk' /\ seenFiles \subseteq seenFiles'
             /\ Meets(path) => Real(path) \in seenFiles'
  <2>1. item.path \in Seq(Nat) /\ Real(item.path) = Real(path)
    BY <1>5, RealReal DEF Real, IsReal
  <2>2. ItemOk(item)
    BY <1>1, <1>5, <2>1 DEF ItemOk, NodeAt
  <2>3. Meets(q) /\ Real(q) = Real(path)
    BY <1>5 DEF Meets
  <2>4. /\ Proper(items') /\ Len(items) \in Nat
        /\ DOMAIN items = 1 .. Len(items) /\ DOMAIN items' = 1 .. Len(items) + 1
        /\ \A i \in 1 .. Len(items) : items'[i] = items[i]
        /\ items'[Len(items) + 1] = item
    BY <1>5, Appended DEF FoundOk
  <2>5. \A f \in seenFiles' : \E p \in Around' : Meets(p)' /\ f = Real(p)'
    <3> SUFFICES ASSUME NEW f \in seenFiles' PROVE \E p \in Around' : Meets(p)' /\ f = Real(p)'
      OBVIOUS
    <3>1. \E p \in Around : Meets(p) /\ f = Real(p)
      BY <1>5, <2>3 DEF FoundOk
    <3> QED
      BY <1>2, <3>1, Same
  <2>6. \A f \in seenFiles' : \E i \in DOMAIN items' : Real(items'[i].path) = f
    <3> SUFFICES ASSUME NEW f \in seenFiles' PROVE \E i \in DOMAIN items' : Real(items'[i].path) = f
      OBVIOUS
    <3>1. CASE f = Real(path)
      <4>1. Len(items) + 1 \in DOMAIN items'
        BY <2>4
      <4> QED
        BY <2>1, <2>4, <3>1, <4>1
    <3>2. CASE f \in seenFiles
      BY <2>4, <3>2 DEF FoundOk
    <3> QED
      BY <1>5, <3>1, <3>2
  <2>7. \A i \in DOMAIN items' : Real(items'[i].path) \in seenFiles' /\ ItemOk(items'[i])
    <3> SUFFICES ASSUME NEW i \in DOMAIN items'
                 PROVE  Real(items'[i].path) \in seenFiles' /\ ItemOk(items'[i])
      OBVIOUS
    <3>1. i = Len(items) + 1 \/ i \in DOMAIN items
      BY <2>4
    <3>2. CASE i = Len(items) + 1
      BY <1>5, <2>1, <2>2, <2>4, <3>2
    <3>3. CASE i \in DOMAIN items
      BY <1>5, <2>4, <3>3 DEF FoundOk
    <3> QED
      BY <3>1, <3>2, <3>3
  <2>8. \A i, j \in DOMAIN items' : Real(items'[i].path) = Real(items'[j].path) => i = j
    <3>1. \A i \in DOMAIN items' :
            \/ i = Len(items) + 1 /\ Real(items'[i].path) = Real(path)
            \/ /\ i \in DOMAIN items /\ items'[i] = items[i]
               /\ Real(items'[i].path) \in seenFiles
      BY <2>1, <2>4 DEF FoundOk
    <3> QED
      BY <1>5, <3>1 DEF FoundOk, ListedOnce
  <2>9. FoundOk'
    BY <1>3, <2>4, <2>5, <2>6, <2>7, <2>8, Same DEF FoundOk, ListedOnce
  <2> QED
    BY <1>5, <2>9
<1>6. Lstat(path).ext = tree[Append(Real(Front(path)), Last(path))].ext
  BY <1>1 DEF Place
<1>7. CASE ~Allowed(Lstat(path).ext) \/ Real(path) \in seenFiles
  BY <1>4, <1>6, <1>7 DEF MaybeAppendItem
<1>8. CASE Allowed(Lstat(path).ext) /\ Real(path) \notin seenFiles
  <2>1. seenFiles' = seenFiles \cup {Real(path)}
    BY <1>6, <1>8 DEF MaybeAppendItem
  <2>2. \E item : /\ items' = Append(items, item)
                  /\ item.path = (IF cfg.follow THEN Real(path) ELSE path)
                  /\ item.root = root /\ item.parent = ParentDir(Real(path), root)
    BY <1>6, <1>8 DEF MaybeAppendItem
  <2> QED
    BY <1>5, <1>8, <2>1, <2>2
<1> QED
  BY <1>7, <1>8

\* The root of a source that is there is a directory.
LEMMA SourceRootOk ==
  ASSUME IsTree(tree), NEW src \in Seq(Nat), Node(src).kind \in {"dir", "file"}
  PROVE  RootOk(SourceRoot(src))
<1> DEFINE root == IF Stat(src).kind = "dir" THEN src ELSE Front(src)
<1>1. root \in Seq(Nat) /\ Stat(root).kind = "dir"
  <2>1. CASE Stat(src).kind = "dir"
    BY <2>1
  <2>2. CASE Stat(src).kind # "dir"
    <3>1. src # << >> /\ Place(src) \in DOMAIN tree
      BY <2>2, NodeBehind
    <3>2. Front(src) \in Seq(Nat) /\ Last(src) \in Nat
      BY <3>1, FrontLast
    <3>3. Real(Front(src)) \in Seq(Nat)
      BY <3>2, RealReal DEF Real, IsReal
    <3>4. Place(src) # << >> /\ Front(Place(src)) = Real(Front(src))
      BY <3>2, <3>3, FrontAppend DEF Place
    <3>5. Real(Front(src)) \in DOMAIN tree /\ tree[Real(Front(src))].kind = "dir"
      BY <3>1, <3>4 DEF IsTree
    <3> QED
      BY <2>2, <3>2, <3>5 DEF Stat, NodeAt
  <2> QED
    BY <2>1, <2>2
<1> HIDE DEF root
<1>2. Real(root) \in Seq(Nat) /\ Stat(Real(root)) = Stat(root)
  BY <1>1, RealReal DEF Real, IsReal, Stat
<1>3. SourceRoot(src) = IF cfg.follow THEN Real(root) ELSE root
  BY DEF SourceRoot, root
<1> QED
  BY <1>1, <1>2, <1>3 DEF RootOk

\* What was to become of a name in a directory that was read, and of a source.
Done(q) ==
  /\ Node(q).kind = "dir" /\ cfg.recursive => Real(q) \in ReadDirs
  /\ Meets(q) => Real(q) \in seenFiles
SourceDone(q) ==
  /\ Node(q).kind = "dir" => Real(q) \in ReadDirs
  /\ Meets(q) => Real(q) \in seenFiles

\* A list of sources has one where a walk starts at q.
StartsAt(q, list) == \E i \in DOMAIN list : list[i] \notin Blank /\ Start(list[i]) = q

\* Nothing is forgotten: it was seen, or it is still to come.
Pending ==
  /\ \A d \in ReadDirs : \A q \in ChildrenIn(d) :
       (\E i \in DOMAIN todo : Place(todo[i].path) = q) \/ Done(q)
  /\ \A q \in Starts : StartsAt(q, sources) \/ SourceDone(q)

\* A step that does, or puts on the stack, what it takes from it forgets nothing.
LEMMA PendingKept ==
  ASSUME UNCHANGED <<scene, cfg>>, Pending,
         ReadDirs \subseteq ReadDirs', seenFiles \subseteq seenFiles',
         \A i \in DOMAIN todo : \A q :
           q = Place(todo[i].path) => (\E j \in DOMAIN todo' : todo'[j] = todo[i]) \/ Done(q)',
         \A q : StartsAt(q, sources) => StartsAt(q, sources') \/ SourceDone(q)',
         \A d \in ReadDirs' : \A q \in ChildrenIn(d) :
           d \in ReadDirs \/ \E i \in DOMAIN todo' : Place(todo'[i].path) = q
  PROVE  Pending'
<1>0. \A p : Place(p)' = Place(p) /\ StartsAt(p, sources)' = StartsAt(p, sources')
  <2>1. ASSUME NEW p PROVE Place(p)' = Place(p) /\ StartsAt(p, sources)' = StartsAt(p, sources')
    BY Same DEF Place, StartsAt
  <2> QED
    BY <2>1
<1>1. \A q : (Done(q) => Done(q)') /\ (SourceDone(q) => SourceDone(q)')
  <2>1. ASSUME NEW q PROVE (Done(q) => Done(q)') /\ (SourceDone(q) => SourceDone(q)')
    BY Same DEF Done, SourceDone
  <2> QED
    BY <2>1
<1>2. ASSUME NEW d \in ReadDirs', NEW q \in ChildrenIn(d)
      PROVE  (\E i \in DOMAIN todo' : Place(todo'[i].path) = q) \/ Done(q)'
  <2>1. CASE d \notin ReadDirs
    BY <2>1
  <2>2. CASE Done(q)
    BY <1>1, <2>2
  <2>3. ASSUME NEW i \in DOMAIN todo, Place(todo[i].path) = q
        PROVE  (\E j \in DOMAIN todo' : Place(todo'[j].path) = q) \/ Done(q)'
    BY <2>3
  <2> QED
    BY <2>1, <2>2, <2>3 DEF Pending
<1>3. ASSUME NEW q \in Starts
      PROVE  StartsAt(q, sources') \/ SourceDone(q)'
  BY <1>1 DEF Pending
<1> QED
  BY <1>0, <1>2, <1>3, Same DEF Pending

-----------------------------------------------------------------------------
(* The invariant of the walk.                                              *)

\* The sources still to come are among those that were asked for.
SourcesOk ==
  /\ sources \in Seq(Path)
  /\ \A i \in DOMAIN sources : \E j \in DOMAIN cfg.src : sources[i] = cfg.src[j]

\* The configuration is what was merged, and the sources of a tool call are
\* allowed.
Ready ==
  /\ cfg = Merged(scene) /\ Resolvable(scene)
  /\ scene.door = "mcp" => SourcesAllowed(cfg.src)

\* Before the walk there is nothing.
Nothing ==
  /\ sources = << >> /\ todo = << >> /\ seenDirs = {} /\ seenFiles = {}
  /\ items = << >> /\ reads = << >>

\* What was found so far; and while no operation has failed, what is still to
\* come, which is nothing once the walk is over.
Found == Ready /\ ReadsOk /\ FoundOk
Walking ==
  stage # "failed" =>
    /\ TodoOk /\ SourcesOk /\ Pending
    /\ stage # "scan" => todo = << >> /\ sources = << >>

\* The invariant of the walk and of its list.
DiscoveryInv ==
  /\ scene \in Scenes
  /\ \/ stage \in {"config", "failed"} /\ Nothing
     \/ stage # "config" /\ Found /\ Walking

\* A configuration that was resolved has sources and a size of albums.
LEMMA Typed ==
  ASSUME scene \in Scenes, Ready
  PROVE  /\ IsTree(tree) /\ cfg.src \in Seq(Path) /\ cfg.album_max \in Int
         /\ scene.roots \subseteq Seq(Nat)
         /\ \A s \in Path : Absolute(s) \in Seq(Nat) /\ Start(s) \in Seq(Nat)
<1>1. IsTree(tree) /\ cfg.src \in Seq(Path) /\ scene.cwd \in Seq(Nat) /\ cfg.album_max \in Int
      /\ scene.roots \subseteq Seq(Nat)
  BY ScenesTyped DEF Ready, tree
<1>2. ASSUME NEW s \in Path PROVE Absolute(s) \in Seq(Nat)
  BY <1>1 DEF Path, Absolute
<1>3. \A s \in Path : TrimSpace(s) \in Path
  BY TrimmedAssumption DEF TrimSpace
<1> QED
  BY <1>1, <1>2, <1>3 DEF Start

\* What a step keeps that leaves the scene and the configuration alone.
LEMMA ReadyKept ==
  ASSUME Ready, UNCHANGED <<scene, cfg>>
  PROVE  Ready'
<1>1. \A x : SourcesAllowed(x)' = SourcesAllowed(x)
  <2>1. ASSUME NEW x PROVE SourcesAllowed(x)' = SourcesAllowed(x)
    BY Same DEF SourcesAllowed, Within, Eval, Absolute
  <2> QED
    BY <2>1
<1> QED
  BY <1>1 DEF Ready

\* ... that reads no directory,
LEMMA ReadsKept ==
  ASSUME ReadsOk, UNCHANGED <<scene, cfg, reads, seenDirs>>
  PROVE  ReadsOk' /\ ReadDirs' = ReadDirs
<1>1. ReadDirs' = ReadDirs
  BY Same DEF ReadDirs
<1>2. \A C : Closed(C)' = Closed(C)
  <2>1. ASSUME NEW C PROVE Closed(C)' = Closed(C)
    BY Same DEF Closed
  <2> QED
    BY <2>1
<1> QED
  BY <1>1, <1>2, Same DEF ReadsOk

\* ... that lists no file,
LEMMA FoundKept ==
  ASSUME FoundOk, UNCHANGED <<scene, cfg, seenFiles, items>>, ReadDirs \subseteq ReadDirs'
  PROVE  FoundOk'
<1>1. Around \subseteq Around'
  BY Same DEF Around
<1>2. \A x : ItemOk(x)' = ItemOk(x)
  <2>1. ASSUME NEW x PROVE ItemOk(x)' = ItemOk(x)
    BY Same DEF ItemOk, RootOk, NodeAt
  <2> QED
    BY <2>1
<1>3. \A f \in seenFiles : \E q \in Around' : Meets(q)' /\ f = Real(q)'
  BY <1>1, Same DEF FoundOk
<1> QED
  BY <1>2, <1>3, Same DEF FoundOk, ListedOnce

\* ... and that only takes from the stack.
LEMMA TodoKept ==
  ASSUME UNCHANGED <<scene, cfg>>, ReadDirs \subseteq ReadDirs', todo' \in Seq(Entry),
         \A i \in DOMAIN todo' : EntryOk(todo'[i])
  PROVE  TodoOk'
<1>1. \A e : EntryOk(e) => EntryOk(e)'
  <2>1. ASSUME NEW e, EntryOk(e) PROVE EntryOk(e)'
    BY <2>1, Same DEF EntryOk, Place, RootOk
  <2> QED
    BY <2>1
<1> QED
  BY <1>1 DEF TodoOk

\* The next source.
LEMMA ScanPathStep ==
  ASSUME DiscoveryInv, ScanPath
  PROVE  DiscoveryInv'
<1> DEFINE s == Head(sources)
<1>0. PICK src, kind : /\ src = Start(s)
                       /\ kind = IF s \in Blank THEN "skipped" ELSE Node(src).kind
  OBVIOUS
<1>1. /\ stage = "scan" /\ todo = << >> /\ sources # << >> /\ UNCHANGED <<scene, cfg>>
      /\ sources' = Tail(sources)
  BY DEF ScanPath
<1>2. scene \in Scenes /\ Found /\ TodoOk /\ SourcesOk /\ Pending
  BY <1>1 DEF DiscoveryInv, Walking
<1>3. IsTree(tree) /\ cfg.src \in Seq(Path) /\ \A x \in Path : Start(x) \in Seq(Nat)
  BY <1>2, Typed DEF Found
<1>4. /\ sources \in Seq(Path) /\ Len(sources) \in Nat /\ Len(sources) >= 1
      /\ DOMAIN sources = 1 .. Len(sources) /\ s = sources[1]
      /\ sources' \in Seq(Path) /\ DOMAIN sources' = 1 .. Len(sources) - 1
      /\ \A i \in 1 .. Len(sources) - 1 : sources'[i] = sources[i + 1]
  BY <1>1, <1>2 DEF SourcesOk
<1>5. s \in Path /\ src \in Seq(Nat)
  BY <1>0, <1>3, <1>4
<1>6. PICK j \in DOMAIN cfg.src : s = cfg.src[j]
  BY <1>2, <1>4 DEF SourcesOk
<1>7. s \notin Blank => src \in Starts /\ src \in Around
  BY <1>0, <1>6 DEF Starts, Around
<1>8. SourcesOk'
  <2>1. \A i \in DOMAIN sources' : \E k \in DOMAIN cfg.src : sources'[i] = cfg.src[k]
    <3> SUFFICES ASSUME NEW i \in DOMAIN sources'
                 PROVE  \E k \in DOMAIN cfg.src : sources'[i] = cfg.src[k]
      OBVIOUS
    <3>1. i + 1 \in DOMAIN sources /\ sources'[i] = sources[i + 1]
      BY <1>4
    <3> QED
      BY <1>2, <3>1 DEF SourcesOk
  <2> QED
    BY <1>1, <1>4, <2>1 DEF SourcesOk
<1>9. Ready'
  BY <1>1, <1>2, ReadyKept DEF Found
<1>10. \A q : StartsAt(q, sources) => StartsAt(q, sources') \/ (q = src /\ s \notin Blank)
  <2>1. ASSUME NEW i \in DOMAIN sources, i # 1
        PROVE  \E k \in DOMAIN sources' : sources'[k] = sources[i]
    <3>1. i - 1 \in DOMAIN sources' /\ sources'[i - 1] = sources[i]
      BY <1>4, <2>1
    <3> QED
      BY <3>1
  <2> QED
    BY <1>0, <1>4, <2>1 DEF StartsAt
<1>11. << >> \in Seq(Entry) /\ DOMAIN << >> = {}
  OBVIOUS
<1> HIDE DEF s
<1>12. CASE kind = "missing"
  <2>1. stage' = "failed" /\ UNCHANGED <<todo, seenDirs, seenFiles, items, reads>>
    BY <1>0, <1>12 DEF ScanPath, s
  <2> QED
    BY <1>1, <1>2, <1>9, <2>1, ReadsKept, FoundKept DEF DiscoveryInv, Found, Walking
<1>13. CASE kind = "skipped"
  <2>1. UNCHANGED <<stage, todo, seenDirs, seenFiles, items, reads>>
    BY <1>0, <1>13 DEF ScanPath, s
  <2>2. Found' /\ ReadDirs' = ReadDirs
    BY <1>1, <1>2, <1>9, <2>1, ReadsKept, FoundKept DEF Found
  <2>3. TodoOk'
    BY <1>1, <1>11, <2>1, <2>2, TodoKept
  <2>4. s \notin Blank => SourceDone(src)'
    BY <1>0, <1>1, <1>13, Same DEF SourceDone, Meets
  <2>5. Pending'
    BY <1>1, <1>2, <1>10, <2>1, <2>2, <2>4, PendingKept
  <2> QED
    BY <1>1, <1>2, <1>8, <2>1, <2>2, <2>3, <2>5 DEF DiscoveryInv, Walking
<1>14. CASE kind = "dir"
  <2>0. s \notin Blank /\ Node(src).kind = "dir"
    BY <1>0, <1>14
  <2>1. stage' = stage /\ ScanDir(src, SourceRoot(src), << >>)
    BY <1>0, <1>14 DEF ScanPath, s
  <2>2. RootOk(SourceRoot(src))
    BY <1>3, <1>5, <2>0, SourceRootOk
  <2>3. Real(src) \in Directories
    BY <1>3, <1>5, <2>0, NodeBehind DEF Directories
  <2>4. Real(src) \in SourceDirs
    BY <1>7, <2>0 DEF SourceDirs
  <2>5. \A C : Closed(C) => Real(src) \in C
    BY <2>4 DEF Closed
  <2>6. /\ ReadsOk' /\ TodoOk' /\ Real(src) \in ReadDirs' /\ ReadDirs \subseteq ReadDirs'
        /\ \A d \in ReadDirs' : \A q \in ChildrenIn(d) :
             d \in ReadDirs \/ \E i \in DOMAIN todo' : Place(todo'[i].path) = q
    <3>1. \A i \in DOMAIN << >> : EntryOk(<< >>[i])
      OBVIOUS
    <3> QED
      BY <1>1, <1>2, <1>3, <1>5, <1>11, <2>1, <2>2, <2>3, <2>5, <3>1, ScanDirSound DEF Found
  <2>7. UNCHANGED <<seenFiles, items>>
    BY <2>1 DEF ScanDir
  <2>8. FoundOk'
    BY <1>1, <1>2, <2>6, <2>7, FoundKept DEF Found
  <2>9. SourceDone(src)'
    BY <1>1, <2>0, <2>6, Same DEF SourceDone, Meets
  <2>10. Pending'
    BY <1>1, <1>2, <1>10, <1>11, <2>6, <2>7, <2>9, PendingKept
  <2> QED
    BY <1>1, <1>2, <1>8, <1>9, <2>1, <2>6, <2>8, <2>10 DEF DiscoveryInv, Found, Walking
<1>15. CASE kind = "file"
  <2>0. s \notin Blank /\ Node(src).kind = "file"
    BY <1>0, <1>15
  <2>1. stage' = stage /\ MaybeAppendItem(src, SourceRoot(src), << >>)
    BY <1>0, <1>15 DEF ScanPath, s
  <2>2. RootOk(SourceRoot(src))
    BY <1>3, <1>5, <2>0, SourceRootOk
  <2>3. todo' = << >> /\ UNCHANGED <<seenDirs, reads>>
    BY <2>1 DEF MaybeAppendItem
  <2>4. FoundOk' /\ seenFiles \subseteq seenFiles' /\ (Meets(src) => Real(src) \in seenFiles')
    BY <1>1, <1>2, <1>3, <1>5, <1>7, <2>0, <2>1, <2>2, <2>3, AppendSound DEF Found
  <2>5. ReadsOk' /\ ReadDirs' = ReadDirs
    BY <1>1, <1>2, <2>3, ReadsKept DEF Found
  <2>6. TodoOk'
    BY <1>1, <1>11, <2>3, <2>5, TodoKept
  <2>7. SourceDone(src)'
    BY <1>1, <2>0, <2>4, Same DEF SourceDone
  <2>8. Pending'
    BY <1>1, <1>2, <1>10, <1>11, <2>3, <2>4, <2>5, <2>7, PendingKept
  <2> QED
    BY <1>1, <1>2, <1>8, <1>9, <2>1, <2>4, <2>5, <2>6, <2>8 DEF DiscoveryInv, Found, Walking
<1> QED
  BY <1>0, <1>3, <1>5, <1>12, <1>13, <1>14, <1>15, NodeKinds

\* The next entry.
LEMMA ScanEntryStep ==
  ASSUME DiscoveryInv, ScanEntry
  PROVE  DiscoveryInv'
<1> DEFINE rest == Tail(todo)
<1>0. PICK path, root, q : path = Head(todo).path /\ root = Head(todo).root /\ q = Place(path)
  OBVIOUS
<1>1. stage = "scan" /\ todo # << >> /\ UNCHANGED <<scene, cfg, stage, sources>>
  BY DEF ScanEntry
<1>2. scene \in Scenes /\ Found /\ TodoOk /\ SourcesOk /\ Pending
  BY <1>1 DEF DiscoveryInv, Walking
<1>3. IsTree(tree)
  BY <1>2, Typed DEF Found
<1>4. /\ todo \in Seq(Entry) /\ Len(todo) \in Nat /\ Len(todo) >= 1
      /\ DOMAIN todo = 1 .. Len(todo) /\ Head(todo) = todo[1]
      /\ rest \in Seq(Entry) /\ DOMAIN rest = 1 .. Len(todo) - 1
      /\ \A i \in 1 .. Len(todo) - 1 : rest[i] = todo[i + 1]
  BY <1>1, <1>2 DEF TodoOk
<1> HIDE DEF rest
<1>5. ASSUME NEW i \in DOMAIN rest PROVE EntryOk(rest[i])
  <2>1. i + 1 \in DOMAIN todo /\ rest[i] = todo[i + 1]
    BY <1>4
  <2> QED
    BY <1>2, <2>1 DEF TodoOk
<1>6. /\ path \in Seq(Nat) /\ path # << >> /\ RootOk(root)
      /\ Real(Front(path)) \in ReadDirs /\ q \in DOMAIN tree
  <2>1. EntryOk(todo[1])
    BY <1>2, <1>4 DEF TodoOk
  <2> QED
    BY <1>0, <1>4, <2>1 DEF EntryOk, Entry
<1>7. PICK d : d = Real(Front(path))
  OBVIOUS
<1>8. q \in ChildrenIn(d) /\ Front(path) \in Seq(Nat)
  <2>1. Front(path) \in Seq(Nat) /\ Last(path) \in Nat
    BY <1>6, FrontLast
  <2>2. d \in Seq(Nat)
    BY <1>3, <1>7, <2>1, RealReal DEF Real, IsReal
  <2>3. Front(q) = d /\ q # << >>
    BY <1>0, <1>7, <2>1, <2>2, FrontAppend DEF Place
  <2> QED
    BY <1>6, <2>1, <2>3 DEF ChildrenIn
<1>9. /\ q \in Seq(Nat) /\ q # << >> /\ Place(q) = q
      /\ Real(q) = Real(path) /\ Lstat(q) = Lstat(path) /\ Node(q) = Node(path)
  <2>1. q \in Seq(Nat) /\ q # << >> /\ Place(q) = q
    BY <1>3, <1>7, <1>8, ChildPlace
  <2> QED
    BY <1>0, <1>6, <2>1, PlaceDecides
<1>10. q \in Around
  BY <1>6, <1>7, <1>8 DEF Around
<1>11. \A i \in DOMAIN todo : \A x :
         x = Place(todo[i].path) => (\E j \in DOMAIN rest : rest[j] = todo[i]) \/ x = q
  <2> SUFFICES ASSUME NEW i \in DOMAIN todo, i # 1 PROVE \E j \in DOMAIN rest : rest[j] = todo[i]
    BY <1>0, <1>4
  <2>1. i - 1 \in DOMAIN rest /\ rest[i - 1] = todo[i]
    BY <1>4
  <2> QED
    BY <2>1
<1>12. Ready' /\ SourcesOk'
  BY <1>1, <1>2, ReadyKept DEF Found, SourcesOk
<1>13. ASSUME ReadsOk', FoundOk', TodoOk', Pending' PROVE DiscoveryInv'
  BY <1>1, <1>2, <1>12, <1>13 DEF DiscoveryInv, Found, Walking
<1>14. CASE Node(path).kind = "dir" /\ cfg.recursive
  <2>1. ScanDir(path, root, rest)
    BY <1>0, <1>14 DEF ScanEntry, rest
  <2>2. Real(path) \in Directories
    BY <1>3, <1>6, <1>14, NodeBehind DEF Directories
  <2>3. Real(path) \in SubDirs(d)
    BY <1>8, <1>9, <1>14 DEF SubDirs
  <2>4. \A C : Closed(C) => Real(path) \in C
    BY <1>2, <1>6, <1>7, <1>14, <2>3 DEF Found, ReadsOk, Closed
  <2>5. /\ ReadsOk' /\ TodoOk' /\ Real(path) \in ReadDirs' /\ ReadDirs \subseteq ReadDirs'
        /\ \A i \in DOMAIN rest : \E j \in DOMAIN todo' : todo'[j] = rest[i]
        /\ \A x \in ReadDirs' : \A y \in ChildrenIn(x) :
             x \in ReadDirs \/ \E i \in DOMAIN todo' : Place(todo'[i].path) = y
    BY <1>1, <1>2, <1>3, <1>4, <1>5, <1>6, <2>1, <2>2, <2>4, ScanDirSound DEF Found
  <2>6. UNCHANGED <<seenFiles, items>>
    BY <2>1 DEF ScanDir
  <2>7. FoundOk'
    BY <1>1, <1>2, <2>5, <2>6, FoundKept DEF Found
  <2>8. Done(q)'
    BY <1>1, <1>9, <1>14, <2>5, Same DEF Done, Meets
  <2>9. \A i \in DOMAIN todo : \A x :
          x = Place(todo[i].path) => (\E j \in DOMAIN todo' : todo'[j] = todo[i]) \/ Done(x)'
    BY <1>11, <2>5, <2>8
  <2>10. Pending'
    BY <1>1, <1>2, <2>5, <2>6, <2>9, PendingKept
  <2> QED
    BY <1>13, <2>5, <2>7, <2>10
<1>15. CASE Node(path).kind = "file"
  <2>1. MaybeAppendItem(path, root, rest)
    BY <1>0, <1>15 DEF ScanEntry, rest
  <2>2. todo' = rest /\ UNCHANGED <<seenDirs, reads>>
    BY <2>1 DEF MaybeAppendItem
  <2>3. FoundOk' /\ seenFiles \subseteq seenFiles' /\ (Meets(path) => Real(path) \in seenFiles')
    BY <1>1, <1>2, <1>3, <1>6, <1>9, <1>10, <1>15, <2>1, <2>2, AppendSound DEF Found
  <2>4. ReadsOk' /\ ReadDirs' = ReadDirs
    BY <1>1, <1>2, <2>2, ReadsKept DEF Found
  <2>5. TodoOk'
    BY <1>1, <1>4, <1>5, <2>2, <2>4, TodoKept
  <2>6. Done(q)'
    BY <1>1, <1>9, <1>15, <2>3, Same DEF Done, Meets
  <2>7. Pending'
    BY <1>1, <1>2, <1>11, <2>2, <2>3, <2>4, <2>6, PendingKept
  <2> QED
    BY <1>13, <2>3, <2>4, <2>5, <2>7
<1>16. CASE ~(Node(path).kind = "dir" /\ cfg.recursive) /\ Node(path).kind # "file"
  <2>1. todo' = rest /\ UNCHANGED <<seenDirs, seenFiles, items, reads>>
    BY <1>0, <1>16 DEF ScanEntry, rest
  <2>2. ReadsOk' /\ ReadDirs' = ReadDirs /\ FoundOk'
    BY <1>1, <1>2, <2>1, ReadsKept, FoundKept DEF Found
  <2>3. TodoOk'
    BY <1>1, <1>4, <1>5, <2>1, <2>2, TodoKept
  <2>4. Done(q)'
    BY <1>1, <1>9, <1>16, Same DEF Done, Meets
  <2>5. Pending'
    BY <1>1, <1>2, <1>11, <2>1, <2>2, <2>4, PendingKept
  <2> QED
    BY <1>13, <2>2, <2>3, <2>5
<1> QED
  BY <1>14, <1>15, <1>16

\* The sources of the configuration are all still to come.
LEMMA ResolveStep ==
  ASSUME DiscoveryInv, Resolve
  PROVE  DiscoveryInv'
<1>1. /\ stage = "config" /\ scene' = scene
      /\ UNCHANGED <<todo, seenDirs, seenFiles, items, reads>>
  BY DEF Resolve
<1>2. scene \in Scenes /\ Nothing
  BY <1>1 DEF DiscoveryInv
<1>3. CASE stage' = "failed" /\ UNCHANGED <<cfg, sources>>
  BY <1>1, <1>2, <1>3 DEF DiscoveryInv, Nothing
<1>4. CASE /\ stage' = "scan" /\ Resolvable(scene)
           /\ scene.door = "mcp" => SourcesAllowed(Merged(scene).src)
           /\ cfg' = Merged(scene) /\ sources' = Merged(scene).src
  <2>1. Ready'
    <3>1. \A x : SourcesAllowed(x)' = SourcesAllowed(x)
      BY <1>1 DEF SourcesAllowed, Within, Eval, Absolute, Stat, Real, NodeAt, tree
    <3> QED
      BY <1>1, <1>4, <3>1 DEF Ready
  <2>2. sources' = cfg'.src /\ cfg'.src \in Seq(Path)
    BY <1>2, <1>4, ScenesTyped
  <2>3. /\ todo' = << >> /\ seenFiles' = {} /\ seenDirs' = {} /\ items' = << >> /\ reads' = << >>
    BY <1>1, <1>2 DEF Nothing
  <2>4. DOMAIN << >> = {} /\ (\A S : << >> \in Seq(S))
    OBVIOUS
  <2>5. ReadDirs' = {}
    BY <2>3, <2>4 DEF ReadDirs
  <2>6. ReadsOk'
    BY <2>3, <2>4, <2>5 DEF ReadsOk
  <2>7. FoundOk'
    BY <2>3, <2>4 DEF FoundOk, Proper, ListedOnce
  <2>8. TodoOk' /\ SourcesOk'
    BY <2>2, <2>3, <2>4 DEF TodoOk, SourcesOk
  <2>9. Pending'
    BY <2>2, <2>5 DEF Pending, Starts, StartsAt
  <2> QED
    BY <1>1, <1>2, <1>4, <2>1, <2>6, <2>7, <2>8, <2>9 DEF DiscoveryInv, Found, Walking
<1> QED
  BY <1>3, <1>4 DEF Resolve

\* Sorting the list loses and repeats nothing.
LEMMA FoundSorted ==
  ASSUME FoundOk, UNCHANGED <<scene, cfg, seenFiles, reads>>, items' \in Arrangements(items)
  PROVE  FoundOk'
<1>1. PICK S : items \in Seq(S)
  BY DEF FoundOk, Proper
<1>2. /\ items' \in Seq(S) /\ DOMAIN items' = DOMAIN items
      /\ \A i \in DOMAIN items : \E j \in DOMAIN items : items'[i] = items[j]
      /\ \A i \in DOMAIN items : \E j \in DOMAIN items : items'[j] = items[i]
  BY <1>1, ArrangedBy, Arranged
<1>3. PICK p : Moved(p, items, items')
  BY <1>1, ArrangedBy
<1>5. ListedOnce'
  <2> SUFFICES ASSUME NEW i \in DOMAIN items, NEW j \in DOMAIN items,
                      Real(items'[i].path) = Real(items'[j].path)
               PROVE  i = j
    BY <1>2, Same DEF ListedOnce
  <2>1. p[i] \in DOMAIN items /\ p[j] \in DOMAIN items
        /\ items'[i] = items[p[i]] /\ items'[j] = items[p[j]]
    BY <1>3 DEF Moved
  <2>2. p[i] = p[j]
    BY <2>1 DEF FoundOk, ListedOnce
  <2> QED
    BY <1>3, <2>2 DEF Moved
<1>6. Around' = Around
  BY Same DEF Around, ReadDirs
<1>7. \A x : ItemOk(x)' = ItemOk(x)
  <2>1. ASSUME NEW x PROVE ItemOk(x)' = ItemOk(x)
    BY Same DEF ItemOk, RootOk, NodeAt
  <2> QED
    BY <2>1
<1>8. \A f \in seenFiles : \E q \in Around' : Meets(q)' /\ f = Real(q)'
  BY <1>6, Same DEF FoundOk
<1>9. \A f \in seenFiles : \E i \in DOMAIN items' : Real(items'[i].path) = f
  <2> SUFFICES ASSUME NEW f \in seenFiles PROVE \E i \in DOMAIN items' : Real(items'[i].path) = f
    OBVIOUS
  <2>1. PICK i \in DOMAIN items : Real(items[i].path) = f
    BY DEF FoundOk
  <2> QED
    BY <1>2, <2>1
<1>10. \A i \in DOMAIN items' : Real(items'[i].path) \in seenFiles /\ ItemOk(items'[i])
  BY <1>2 DEF FoundOk
<1>11. Proper(items')
  BY <1>2 DEF Proper
<1>12. (\A i \in DOMAIN items : Real(items[i].path) \in seenFiles /\ ItemOk(items[i]))'
  BY <1>7, <1>10, Same
<1>13. (\A f \in seenFiles : \E i \in DOMAIN items : Real(items[i].path) = f)'
  BY <1>9, Same
<1> QED
  BY <1>5, <1>8, <1>11, <1>12, <1>13 DEF FoundOk

\* Whatever the walk does not touch.
LEMMA NothingFound ==
  ASSUME DiscoveryInv, UNCHANGED <<scene, cfg, walk>>,
         \/ stage' = stage
         \/ stage \notin {"config", "failed"} /\ stage' = "failed"
         \/ stage \notin {"config", "failed", "scan"} /\ stage' \notin {"config", "failed", "scan"}
  PROVE  DiscoveryInv'
<1>1. UNCHANGED <<sources, todo, seenDirs, seenFiles, items, reads>>
  BY DEF walk
<1>2. Nothing => Nothing'
  BY <1>1 DEF Nothing
<1>3. ASSUME Found PROVE Found'
  BY <1>1, <1>3, ReadyKept, ReadsKept, FoundKept DEF Found
<1>4. ASSUME Found, TodoOk, SourcesOk, Pending PROVE TodoOk' /\ SourcesOk' /\ Pending'
  <2>1. ReadDirs' = ReadDirs
    BY <1>1, <1>4, ReadsKept DEF Found
  <2>2. TodoOk'
    BY <1>1, <1>4, <2>1, TodoKept DEF TodoOk
  <2>3. SourcesOk'
    BY <1>1, <1>4 DEF SourcesOk
  <2>4. Pending'
    BY <1>1, <1>4, <2>1, PendingKept
  <2> QED
    BY <2>2, <2>3, <2>4
<1> QED
  BY <1>1, <1>2, <1>3, <1>4 DEF DiscoveryInv, Walking

\* Every step keeps the invariant, ...
LEMMA DiscoveryStep ==
  ASSUME DiscoveryInv, [Next]_vars
  PROVE  DiscoveryInv'
<1>1. CASE Resolve
  BY <1>1, ResolveStep
<1>2. CASE ScanPath
  BY <1>2, ScanPathStep
<1>3. CASE ScanEntry
  BY <1>3, ScanEntryStep
<1>4. CASE ScanFails
  <2>1. stage = "scan" /\ stage' = "failed" /\ UNCHANGED <<scene, cfg, walk>>
    BY <1>4 DEF ScanFails
  <2> QED
    BY <2>1, NothingFound
<1>5. CASE ScanDone
  <2>1. /\ stage = "scan" /\ todo = << >> /\ sources = << >> /\ items' \in Arrangements(items)
        /\ UNCHANGED <<scene, cfg, sources, todo, seenDirs, seenFiles, reads>>
    BY <1>5 DEF ScanDone
  <2>2. stage' \in {"empty", "plan"}
    BY <1>5, Zenon DEF ScanDone
  <2>3. scene \in Scenes /\ Found /\ TodoOk /\ SourcesOk /\ Pending
    BY <2>1 DEF DiscoveryInv, Walking
  <2>4. Found' /\ ReadDirs' = ReadDirs
    BY <2>1, <2>3, ReadyKept, ReadsKept, FoundSorted DEF Found
  <2>5. TodoOk' /\ SourcesOk'
    BY <2>1, <2>3, <2>4, TodoKept DEF TodoOk, SourcesOk
  <2>6. Pending'
    BY <2>1, <2>3, <2>4, PendingKept
  <2> QED
    BY <2>1, <2>2, <2>3, <2>4, <2>5, <2>6 DEF DiscoveryInv, Walking
<1>6. CASE Plan
  <2>1. stage = "plan" /\ stage' \in {"planned", "over"} /\ UNCHANGED <<scene, cfg, walk>>
    BY <1>6, Zenon DEF Plan
  <2> QED
    BY <2>1, NothingFound
<1>7. CASE StartAlbum \/ CompressAlbum
  <2>1. UNCHANGED <<scene, cfg, stage, walk>>
    BY <1>7, Zenon DEF StartAlbum, CompressAlbum, prepVars
  <2> QED
    BY <2>1, NothingFound
<1>8. CASE AllSent
  <2>1. stage = "planned" /\ stage' = "over" /\ UNCHANGED <<scene, cfg, walk>>
    BY <1>8 DEF AllSent
  <2> QED
    BY <2>1, NothingFound
<1>9. CASE UNCHANGED vars
  <2>1. UNCHANGED <<scene, cfg, stage, walk>>
    BY <1>9 DEF vars, prepVars
  <2> QED
    BY <2>1, NothingFound
<1> QED
  BY <1>1, <1>2, <1>3, <1>4, <1>5, <1>6, <1>7, <1>8, <1>9, Zenon DEF Next, Discover

\* ... so it always holds.
LEMMA Discovers == Spec => []DiscoveryInv
<1>1. Init => DiscoveryInv
  <2> SUFFICES ASSUME Init PROVE DiscoveryInv
    OBVIOUS
  <2>1. scene \in Scenes /\ stage = "config" /\ Nothing
    BY Zenon DEF Init, Nothing
  <2> QED
    BY <2>1 DEF DiscoveryInv
<1> QED
  BY <1>1, DiscoveryStep, PTL DEF Spec

-----------------------------------------------------------------------------
(* What the walk has found.                                                *)

\* However many names lead to a file, and from however many sources, it is
\* listed once (scan.go, seenFiles).
THEOREM FilesListedOnce == Spec => []ListedOnce
<1>1. DiscoveryInv => ListedOnce
  BY DEF DiscoveryInv, Nothing, Found, FoundOk, ListedOnce
<1> QED
  BY <1>1, Discovers, PTL

\* A source of a tool call that is there is below an allowed root.
LEMMA SourceBelowRoot ==
  ASSUME scene \in Scenes, Ready, scene.door = "mcp",
         ~Untrimmed, NEW src \in Starts, Node(src).kind \in {"dir", "file"}
  PROVE  \E root \in scene.roots : IsPrefix(Eval(root), Real(src))
<1>1. IsTree(tree) /\ cfg.src \in Seq(Path) /\ \A s \in Path : Absolute(s) \in Seq(Nat)
  BY Typed
<1>2. PICK i \in DOMAIN cfg.src : src = Absolute(cfg.src[i])
  BY DEF Starts, Start, TrimSpace, Untrimmed
<1>3. src \in Seq(Nat)
  BY <1>1, <1>2
<1>4. Eval(src) = Real(src)
  BY <1>1, <1>3, NodeBehind DEF Eval
<1> QED
  BY <1>2, <1>4 DEF Ready, SourcesAllowed, Within

\* Without links a walk stays below the roots it starts from.
LEMMA ReadsBelowRoot ==
  ASSUME scene \in Scenes, Ready, ReadsOk, scene.door = "mcp", ~cfg.follow, ~Untrimmed
  PROVE  \A d \in ReadDirs : Real(d) = d /\ \E root \in scene.roots : IsPrefix(Eval(root), d)
<1> DEFINE Below(p) == \E root \in scene.roots : IsPrefix(Eval(root), p)
           C == {d \in Directories : Real(d) = d /\ Below(d)}
<1>1. IsTree(tree) /\ cfg.src \in Seq(Path) /\ scene.roots \subseteq Seq(Nat)
      /\ \A s \in Path : Start(s) \in Seq(Nat)
  BY Typed
<1>2. \A path \in Seq(Nat) : Real(path) \in Seq(Nat) /\ Real(Real(path)) = Real(path)
  BY <1>1, RealReal DEF Real, IsReal
<1>3. \A root \in scene.roots : Eval(root) \in Seq(Nat)
  BY <1>1, <1>2 DEF Eval
<1>4. SourceDirs \subseteq C
  <2> SUFFICES ASSUME NEW src \in Starts, Node(src).kind = "dir" PROVE Real(src) \in C
    BY DEF SourceDirs, Starts
  <2>1. src \in Seq(Nat)
    BY <1>1 DEF Starts
  <2>2. Real(src) \in Directories
    BY <1>1, <2>1, NodeBehind DEF Directories
  <2> QED
    BY <1>2, <2>1, <2>2, SourceBelowRoot
<1>5. ASSUME NEW d \in C, NEW q \in ChildrenIn(d), Node(q).kind = "dir" PROVE Real(q) \in C
  <2>1. q \in Seq(Nat) /\ q # << >> /\ d \in Seq(Nat) /\ Real(d) = d
    BY <1>1 DEF ChildrenIn, Directories, IsTree
  <2>2. Real(q) = q /\ q = Append(d, Last(q)) /\ Last(q) \in Nat
    BY <1>1, <1>5, <2>1, ChildPlace, NodeBehind
  <2>3. Below(q)
    BY <1>3, <2>1, <2>2, PrefixBelow
  <2>4. q \in Directories
    BY <1>1, <1>5, <2>1, <2>2, NodeBehind DEF Directories
  <2> QED
    BY <2>2, <2>3, <2>4
<1>6. \A d \in C : SubDirs(d) \subseteq C
  BY <1>5 DEF SubDirs
<1>7. Closed(C)
  <2>1. C \subseteq Directories
    OBVIOUS
  <2> HIDE DEF C
  <2> QED
    BY <1>4, <1>6, <2>1 DEF Closed
<1>8. ReadDirs \subseteq C
  <2> HIDE DEF C
  <2> QED
    BY <1>7 DEF ReadsOk
<1> QED
  BY <1>8

\* What a tool call lists lies below an allowed root by its real path, as long
\* as no source has blanks around it (bridge.go, validatePaths; scan.go:50).
THEOREM ToolListsAllowed == Spec => []OnlyAllowedRoots
<1>1. DiscoveryInv => OnlyAllowedRoots
  <2> SUFFICES ASSUME DiscoveryInv, scene.door = "mcp", ~cfg.follow, ~Untrimmed,
                      NEW i \in DOMAIN items
               PROVE  \E root \in scene.roots : IsPrefix(Eval(root), Real(items[i].path))
    BY DEF OnlyAllowedRoots
  <2>1. scene \in Scenes /\ Found
    BY DEF DiscoveryInv, Nothing
  <2>2. IsTree(tree) /\ scene.roots \subseteq Seq(Nat)
    BY <2>1, Typed DEF Found
  <2>3. PICK q \in Around : Meets(q) /\ Real(items[i].path) = Real(q)
    BY <2>1 DEF Found, FoundOk
  <2>4. Node(q).kind = "file"
    BY <2>3 DEF Meets
  <2>5. CASE q \in Starts
    BY <2>1, <2>3, <2>4, <2>5, SourceBelowRoot DEF Found
  <2>6. ASSUME NEW d \in ReadDirs, q \in ChildrenIn(d)
        PROVE  \E root \in scene.roots : IsPrefix(Eval(root), Real(q))
    <3>1. PICK root \in scene.roots : IsPrefix(Eval(root), d) /\ Real(d) = d
      BY <2>1, ReadsBelowRoot DEF Found
    <3>2. q \in Seq(Nat) /\ q # << >> /\ d \in Seq(Nat)
      BY <2>1, <2>2, <2>6 DEF ChildrenIn, Directories, IsTree, Found, ReadsOk
    <3>3. Real(q) = q /\ q = Append(d, Last(q)) /\ Last(q) \in Nat
      BY <2>2, <2>4, <2>6, <3>1, <3>2, ChildPlace, NodeBehind
    <3>4. Eval(root) \in Seq(Nat)
      BY <2>2, RealReal DEF Eval, Real, IsReal
    <3> QED
      BY <3>1, <3>2, <3>3, <3>4, PrefixBelow
  <2> QED
    BY <2>3, <2>5, <2>6 DEF Around
<1> QED
  BY <1>1, Discovers, PTL

\* A walk that is over has read the directories that the options reach, ...
LEMMA ReadsReached ==
  ASSUME ReadsOk, Pending, todo = << >>, sources = << >>
  PROVE  ReachedDirs = ReadDirs
<1>1. Closed(ReadDirs)
  <2>1. SourceDirs \subseteq ReadDirs
    BY DEF SourceDirs, Pending, StartsAt, SourceDone
  <2>2. cfg.recursive => \A d \in ReadDirs : SubDirs(d) \subseteq ReadDirs
    BY DEF SubDirs, Pending, Done
  <2> QED
    BY <2>1, <2>2 DEF Closed, ReadsOk
<1>2. \A C \in SUBSET Directories :
        Closed(C) <=>
          /\ SourceDirs \subseteq C
          /\ \A d \in C :
               [e \in Directories |-> IF cfg.recursive THEN SubDirs(e) ELSE {}][d] \subseteq C
  BY DEF Closed
<1>3. ReachedDirs = {d \in Directories : \A C \in SUBSET Directories : Closed(C) => d \in C}
  BY <1>2 DEF ReachedDirs
<1>4. ReadDirs \subseteq Directories /\ \A C : Closed(C) => ReadDirs \subseteq C
  BY DEF ReadsOk
<1> QED
  BY <1>1, <1>3, <1>4

\* ... and has seen what they ask for.
LEMMA SeenWanted ==
  ASSUME ReadsOk, FoundOk, Pending, todo = << >>, sources = << >>
  PROVE  seenFiles = Wanted
<1>1. Around = (UNION {ChildrenIn(d) : d \in ReachedDirs}) \cup Starts
  BY ReadsReached DEF Around
<1>2. Wanted = {Real(p) : p \in {q \in Around : Meets(q)}}
  BY <1>1 DEF Wanted, Meets, Starts
<1>3. ASSUME NEW q \in Around, Meets(q) PROVE Real(q) \in seenFiles
  BY <1>3 DEF Around, Pending, Done, StartsAt, SourceDone
<1> QED
  BY <1>2, <1>3 DEF FoundOk

\* The walk lists what the sources and options ask for, all of it and nothing
\* else, each file once (scan.go, Discover).
THEOREM WalkListsExactly == Spec => []DiscoveryExact
<1>1. DiscoveryInv => DiscoveryExact
  <2> SUFFICES ASSUME DiscoveryInv, stage \in {"plan", "empty"}
               PROVE  /\ {Real(items[i].path) : i \in DOMAIN items} = Wanted
                      /\ Len(items) = Cardinality(Wanted)
    BY DEF DiscoveryExact
  <2>1. ReadsOk /\ FoundOk /\ Pending /\ todo = << >> /\ sources = << >>
    BY DEF DiscoveryInv, Walking, Found
  <2>2. seenFiles = Wanted
    BY <2>1, SeenWanted
  <2>3. {Real(items[i].path) : i \in DOMAIN items} = seenFiles
    BY <2>1 DEF FoundOk
  <2>4. Len(items) \in Nat /\ DOMAIN items = 1 .. Len(items)
    BY <2>1 DEF FoundOk, Proper
  <2> DEFINE f == [i \in 1 .. Len(items) |-> Real(items[i].path)]
  <2>5. f \in Bijection(1 .. Len(items), seenFiles)
    <3>1. f \in [1 .. Len(items) -> seenFiles]
      BY <2>3, <2>4
    <3>2. \A i, j \in 1 .. Len(items) : f[i] = f[j] => i = j
      BY <2>1, <2>4 DEF FoundOk, ListedOnce
    <3>3. \A x \in seenFiles : \E i \in 1 .. Len(items) : f[i] = x
      BY <2>3, <2>4
    <3> HIDE DEF f
    <3> QED
      BY <3>1, <3>2, <3>3 DEF Bijection, Injection, Surjection, IsInjective
  <2> HIDE DEF f
  <2>6. Cardinality(seenFiles) = Len(items)
    BY <2>4, <2>5, FS_CountingElements DEF ExistsBijection
  <2> QED
    BY <2>2, <2>3, <2>6
<1> QED
  BY <1>1, Discovers, PTL

-----------------------------------------------------------------------------
(* The plan.                                                               *)

\* A file is in the directory its group is named for, unless that is by the
\* last name.
LEMMA FrontBelow ==
  ASSUME IsTree(tree), NEW item, ItemOk(item), ~Upward(Front(Real(item.path)), item.root)
  PROVE  Front(Real(item.path)) = item.root \o item.parent
<1>1. PICK file, root : file = Real(item.path) /\ root = item.root
  OBVIOUS
<1>2. file \in Seq(Nat) /\ root \in Seq(Nat)
  BY <1>1, RealReal DEF ItemOk, RootOk, Real, IsReal
<1>3. file # << >>
  BY <1>1 DEF ItemOk, NodeAt, IsTree
<1>4. Len(root) \in Nat /\ Len(file) \in Nat /\ Len(file) > 0
  BY <1>2, <1>3
<1>7. PICK front : front = Front(file)
  OBVIOUS
<1>8. /\ front \in Seq(Nat) /\ Len(front) = Len(file) - 1
      /\ \A i \in 1 .. Len(file) - 1 : front[i] = file[i]
  <2>1. Len(file) - 1 \in Nat /\ Len(file) - 1 <= Len(file)
    BY <1>4
  <2> QED
    BY <1>2, <1>7, <2>1, Beginning DEF Front
<1>9. ~Upward(front, root) /\ IsPrefix(root, front)
  BY <1>1, <1>7 DEF Upward
<1>5. Len(root) <= Len(front) /\ \A i \in 1 .. Len(root) : root[i] = front[i]
  BY <1>2, <1>8, <1>9, PrefixNames
<1>10. item.parent = SubSeq(front, Len(root) + 1, Len(file) - 1)
  BY <1>1, <1>7, <1>9 DEF ItemOk, ParentDir
<1>11. PICK parent : parent = item.parent
  OBVIOUS
<1>12. /\ parent \in Seq(Nat) /\ Len(parent) = Len(front) - Len(root)
       /\ \A i \in 1 .. Len(front) - Len(root) : parent[i] = front[Len(root) + i]
  <2>1. Len(root) <= Len(front) /\ Len(file) - 1 = Len(front)
    BY <1>4, <1>5, <1>8
  <2>2. parent = SubSeq(front, Len(root) + 1, Len(front))
    BY <1>10, <1>11, <2>1
  <2> QED
    BY <1>4, <1>8, <2>1, <2>2, Ending
<1>13. PICK whole : whole = root \o parent
  OBVIOUS
<1>14. /\ whole \in Seq(Nat) /\ Len(whole) = Len(front)
       /\ \A i \in 1 .. Len(root) : whole[i] = root[i]
       /\ \A i \in 1 .. Len(parent) : whole[Len(root) + i] = parent[i]
  <2>1. Len(front) = Len(root) + Len(parent)
    BY <1>4, <1>5, <1>8, <1>12
  <2> QED
    BY <1>2, <1>12, <1>13, <2>1, JoinedOfKind
<1>15. ASSUME NEW i \in 1 .. Len(front) PROVE whole[i] = front[i]
  <2>1. CASE i <= Len(root)
    <3>1. i \in 1 .. Len(root)
      BY <1>4, <2>1
    <3> QED
      BY <1>5, <1>8, <1>14, <3>1
  <2>2. CASE ~(i <= Len(root))
    <3>1. i - Len(root) \in 1 .. Len(parent) /\ Len(root) + (i - Len(root)) = i
      BY <1>4, <1>8, <1>12, <2>2
    <3> QED
      BY <1>12, <1>14, <3>1
  <2> QED
    BY <2>1, <2>2
<1>16. front = whole
  BY <1>8, <1>14, <1>15, SeqEqual
<1> QED
  BY <1>1, <1>7, <1>11, <1>13, <1>16

\* The plan was built from the items in one of the orders that were asked for.
Planned ==
  stage \in {"planned", "over"} =>
    \E sorted \in Orderings(items, cfg.order, cfg.reverse) : albums = Build(sorted, cfg.album_max)

\* Every step keeps it.
LEMMA PlannedStep ==
  ASSUME Planned, [Next]_vars
  PROVE  Planned'
<1>1. CASE Plan
  BY <1>1, Zenon DEF Plan, Planned, walk
<1>2. CASE Resolve \/ Discover
  <2>1. stage' \in {"failed", "scan", "empty", "plan"}
    BY <1>2, Zenon DEF Resolve, Discover, ScanPath, ScanEntry, ScanFails, ScanDone
  <2> QED
    BY <2>1 DEF Planned
<1>3. CASE StartAlbum \/ CompressAlbum \/ AllSent \/ UNCHANGED vars
  <2>1. UNCHANGED <<cfg, walk, albums>>
    BY <1>3, Zenon DEF StartAlbum, CompressAlbum, AllSent, vars, prepVars
  <2>2. UNCHANGED <<cfg, items, albums>>
    BY <2>1 DEF walk
  <2>3. stage' = stage \/ stage = "planned"
    BY <1>3, Zenon DEF StartAlbum, CompressAlbum, AllSent, vars, prepVars
  <2> QED
    BY <2>2, <2>3 DEF Planned
<1> QED
  BY <1>1, <1>2, <1>3, Zenon DEF Next

\* The plan loses and repeats nothing; an album is of one directory, where
\* parentDir does not go by the last name, and never empty, too long, or cut
\* short while its group has more (plan/build.go, README.md:360, scan.go:262).
THEOREM PlanPartitions == Spec => []PlanIsPartition
<1>1. Init => Planned
  BY Zenon DEF Init, Planned
<1>2. DiscoveryInv /\ Planned => PlanIsPartition
  <2> SUFFICES ASSUME DiscoveryInv, Planned, stage \in {"planned", "over"} PROVE PlanIsPartition
    BY DEF PlanIsPartition
  <2>1. scene \in Scenes /\ Ready /\ FoundOk
    BY DEF DiscoveryInv, Found
  <2>2. IsTree(tree) /\ cfg.album_max \in Nat \ {0}
    <3>1. cfg.album_max \in Int /\ cfg.album_max > 0
      BY <2>1, Typed DEF Ready, Resolvable, Valid
    <3> QED
      BY <2>1, <3>1, Typed
  <2>3. PICK sorted \in Orderings(items, cfg.order, cfg.reverse) :
          albums = Build(sorted, cfg.album_max)
    BY DEF Planned
  <2>4. PICK S : items \in Seq(S)
    BY <2>1 DEF FoundOk, Proper
  <2>5. sorted \in Seq(S) /\ Len(sorted) = Len(items) /\ \E p : Moved(p, items, sorted)
    BY <2>4, OrderingKeeps
  <2>6. PICK p : Moved(p, items, sorted)
    BY <2>5
  <2>7. DOMAIN items = DOMAIN sorted
    BY <2>4, <2>5
  <2>8. \A i, j \in DOMAIN items : items[i] = items[j] => i = j
    BY <2>1 DEF FoundOk, ListedOnce
  <2>9. \A i, j \in DOMAIN sorted : sorted[i] = sorted[j] => i = j
    <3> SUFFICES ASSUME NEW i \in DOMAIN items, NEW j \in DOMAIN items, sorted[i] = sorted[j]
                 PROVE  i = j
      BY <2>7
    <3>1. p[i] \in DOMAIN items /\ p[j] \in DOMAIN items /\ items[p[i]] = items[p[j]]
      BY <2>6 DEF Moved
    <3>2. p[i] = p[j]
      BY <2>8, <3>1
    <3> QED
      BY <2>6, <3>2 DEF Moved
  <2>10. Partitioned(sorted, cfg.album_max, albums)
    <3>1. PICK size \in Nat \ {0} : size = cfg.album_max
      BY <2>2
    <3>2. Partitioned(sorted, size, Build(sorted, size))
      BY <2>5, <2>9, <3>1, BuildPartitions
    <3> QED
      BY <2>3, <3>1, <3>2
  <2>11. ASSUME NEW i \in DOMAIN items
         PROVE  \E a \in DOMAIN albums : \E k \in DOMAIN albums[a].items :
                  albums[a].items[k] = items[i]
    <3>1. PICK j \in DOMAIN items : p[j] = i
      BY <2>6 DEF Moved
    <3>2. sorted[j] = items[i]
      BY <2>6, <3>1 DEF Moved
    <3> QED
      BY <2>7, <2>10, <3>1, <3>2 DEF Partitioned
  <2>12. ASSUME NEW a \in DOMAIN albums, NEW k \in DOMAIN albums[a].items
         PROVE  \E i \in DOMAIN items : /\ albums[a].items[k] = items[i]
                                        /\ ItemOk(items[i]) /\ GroupKey(items[i]) = albums[a].key
    <3>1. PICK j \in DOMAIN items :
            albums[a].items[k] = sorted[j] /\ GroupKey(sorted[j]) = albums[a].key
      BY <2>7, <2>10 DEF Partitioned
    <3>2. PICK i \in DOMAIN items : sorted[j] = items[i]
      BY <2>6 DEF Moved
    <3> QED
      BY <2>1, <3>1, <3>2 DEF FoundOk
  <2>13. ASSUME NEW a \in DOMAIN albums PROVE ToSet(albums[a].items) \subseteq ToSet(items)
    BY <2>12 DEF ToSet
  <2>14. ASSUME NEW a \in DOMAIN albums PROVE OneDirectory(albums[a].items)
    <3> SUFFICES ASSUME NEW k \in DOMAIN albums[a].items, NEW l \in DOMAIN albums[a].items
                 PROVE  /\ albums[a].items[k].root = albums[a].items[l].root
                        /\ /\ ~Upward(Front(Real(albums[a].items[k].path)), albums[a].items[k].root)
                           /\ ~Upward(Front(Real(albums[a].items[l].path)), albums[a].items[l].root)
                           => Front(Real(albums[a].items[k].path))
                                = Front(Real(albums[a].items[l].path))
      BY DEF OneDirectory
    <3>1. PICK x : x = albums[a].items[k] /\ ItemOk(x) /\ GroupKey(x) = albums[a].key
      BY <2>12
    <3>2. PICK y : y = albums[a].items[l] /\ ItemOk(y) /\ GroupKey(y) = albums[a].key
      BY <2>12
    <3>3. x.root = y.root /\ x.parent = y.parent
      BY <3>1, <3>2 DEF GroupKey
    <3> QED
      BY <2>2, <3>1, <3>2, <3>3, FrontBelow
  <2> QED
    BY <2>10, <2>11, <2>13, <2>14 DEF PlanIsPartition, Partitioned
<1> QED
  BY <1>1, <1>2, Discovers, PlannedStep, PTL DEF Spec

-----------------------------------------------------------------------------
(* The layers of the configuration.                                        *)

\* Merging a layer: it says nothing of a setting, or its first name counts.
LEMMA ApplyTakes ==
  ASSUME NEW c, NEW layer, NEW s \in Setting
  PROVE  /\ (\A n \in DOMAIN Keys(s) : Keys(s)[n] \notin DOMAIN layer) => Apply(c, layer)[s] = c[s]
         /\ \A n \in DOMAIN Keys(s) :
              /\ Keys(s)[n] \in DOMAIN layer
              /\ \A m \in 1 .. n - 1 : Keys(s)[m] \notin DOMAIN layer
              => Apply(c, layer)[s] = layer[Keys(s)[n]]
<1>1. Apply(c, layer)[s] =
        IF SetBy(s, layer) = {} THEN c[s] ELSE layer[Keys(s)[Min(SetBy(s, layer))]]
  BY DEF Apply
<1>2. DOMAIN Keys(s) \in {1 .. 1, 1 .. 3}
  BY DEF Keys
<1>3. ASSUME NEW n \in DOMAIN Keys(s), Keys(s)[n] \in DOMAIN layer,
             \A m \in 1 .. n - 1 : Keys(s)[m] \notin DOMAIN layer
      PROVE  Apply(c, layer)[s] = layer[Keys(s)[n]]
  <2>1. n \in SetBy(s, layer) /\ n \in Int
    BY <1>2, <1>3 DEF SetBy
  <2>2. \A m \in SetBy(s, layer) : m \in Int /\ n <= m
    BY <1>2, <1>3, <2>1 DEF SetBy
  <2>3. Min(SetBy(s, layer)) = n
    <3>1. \A x \in SetBy(s, layer) : (\A y \in SetBy(s, layer) : x <= y) => x = n
      BY <2>1, <2>2
    <3> QED
      BY <2>1, <2>2, <3>1 DEF Min
  <2> QED
    BY <1>1, <2>1, <2>3
<1> QED
  BY <1>1, <1>3 DEF SetBy

\* An overlay carries what the layer of that name says of setting s.
Carries(overlay, name, s) ==
  \A n \in DOMAIN Keys(s) :
    /\ Keys(s)[n] \in DOMAIN overlay <=> Keys(s)[n] \in Says(name, s)
    /\ Keys(s)[n] \in Says(name, s) =>
         overlay[Keys(s)[n]] = Meant(LayerOf(name)[Keys(s)[n]], s, name)

\* The value after a layer was merged over c: what the layer says of the
\* setting under the first of its names, or what c has.
Wins(value, c, name, s) ==
  /\ Says(name, s) = {} => value = c[s]
  /\ \A n \in DOMAIN Keys(s) :
       /\ Keys(s)[n] \in Says(name, s)
       /\ \A m \in 1 .. n - 1 : Keys(s)[m] \notin Says(name, s)
       => value = Meant(LayerOf(name)[Keys(s)[n]], s, name)

\* Merging an overlay does that.
LEMMA LayerTakes ==
  ASSUME NEW c, NEW overlay, NEW name, NEW s \in Setting, Carries(overlay, name, s)
  PROVE  Wins(Apply(c, overlay)[s], c, name, s)
<1>1. DOMAIN Keys(s) \in {1 .. 1, 1 .. 3}
  BY DEF Keys
<1>2. ASSUME Says(name, s) = {} PROVE Apply(c, overlay)[s] = c[s]
  <2>1. \A n \in DOMAIN Keys(s) : Keys(s)[n] \notin DOMAIN overlay
    BY <1>2 DEF Carries
  <2> QED
    BY <2>1, ApplyTakes
<1>3. ASSUME NEW n \in DOMAIN Keys(s), Keys(s)[n] \in Says(name, s),
             \A m \in 1 .. n - 1 : Keys(s)[m] \notin Says(name, s)
      PROVE  Apply(c, overlay)[s] = Meant(LayerOf(name)[Keys(s)[n]], s, name)
  <2>1. \A m \in 1 .. n - 1 : m \in DOMAIN Keys(s)
    BY <1>1
  <2>2. \A m \in 1 .. n - 1 : Keys(s)[m] \notin DOMAIN overlay
    BY <1>3, <2>1 DEF Carries
  <2>3. Keys(s)[n] \in DOMAIN overlay
        /\ overlay[Keys(s)[n]] = Meant(LayerOf(name)[Keys(s)[n]], s, name)
    BY <1>3 DEF Carries
  <2> QED
    BY <2>2, <2>3, ApplyTakes
<1> QED
  BY <1>2, <1>3 DEF Wins

\* A key of a setting is one of its names.
LEMMA KeysOf ==
  ASSUME NEW s, NEW n \in DOMAIN Keys(s)
  PROVE  /\ Keys(s)[n] \in ToSet(Keys(s))
         /\ s # "state" => Keys(s)[n] = s
         /\ s = "state" => Keys(s)[n] \in {"paths.state", "paths.state_path", "upload.state"}
BY DEF Keys, ToSet

\* The command: the flags as they are, a tool call without what is empty.
LEMMA AskedCarries ==
  ASSUME NEW s \in Merging
  PROVE  Carries(IF scene.door = "mcp" THEN SpecToOverlay(scene.asked)
                 ELSE FlagLayer(scene.asked), "asked", s)
<1> DEFINE O == IF scene.door = "mcp" THEN SpecToOverlay(scene.asked) ELSE FlagLayer(scene.asked)
<1> SUFFICES ASSUME NEW n \in DOMAIN Keys(s)
             PROVE  /\ Keys(s)[n] \in DOMAIN O <=> Keys(s)[n] \in Says("asked", s)
                    /\ Keys(s)[n] \in Says("asked", s) =>
                         O[Keys(s)[n]] = Meant(LayerOf("asked")[Keys(s)[n]], s, "asked")
  BY DEF Carries
<1> DEFINE k == Keys(s)[n]
<1>1. /\ k \in ToSet(Keys(s))
      /\ k = s \/ (s = "state" /\ k \in {"paths.state", "paths.state_path", "upload.state"})
  BY KeysOf
<1>2. Meant(LayerOf("asked")[k], s, "asked") = LayerOf("asked")[k]
  BY DEF Meant
<1> HIDE DEF k
<1>3. CASE scene.door # "mcp"
  <2>1. O = LayerOf("asked")
    BY <1>3 DEF LayerOf
  <2>2. k \in Says("asked", s) <=> k \in DOMAIN LayerOf("asked")
    BY <1>1, <1>3 DEF Says, Unset
  <2> QED
    BY <1>2, <2>1, <2>2 DEF k
<1>4. CASE scene.door = "mcp"
  <2>1. O = SpecToOverlay(scene.asked) /\ LayerOf("asked") = scene.asked
    BY <1>4 DEF LayerOf
  <2>2. k \in Says("asked", s) <=> k \in DOMAIN scene.asked /\ ~Unset("asked", s)
    BY <1>1, <2>1 DEF Says
  <2>3. s \in {"order", "album_max", "recursive", "follow", "src", "state"}
    BY DEF Merging
  <2>4. k \in DOMAIN O <=> k \in DOMAIN scene.asked /\ ~Unset("asked", s)
    BY <1>1, <1>4, <2>1, <2>3 DEF SpecToOverlay, Unset
  <2>5. k \in DOMAIN O => O[k] = scene.asked[k]
    BY <2>1 DEF SpecToOverlay
  <2> QED
    BY <1>2, <2>1, <2>2, <2>4, <2>5 DEF k
<1> QED
  BY <1>3, <1>4

\* The environment.
LEMMA EnvCarries ==
  ASSUME NEW s \in Merging
  PROVE  Carries(LoadEnv(scene.env), "env", s)
<1>1. LayerOf("env") = LoadEnv(scene.env)
  BY DEF LayerOf
<1>2. \A n \in DOMAIN Keys(s) : Keys(s)[n] \in ToSet(Keys(s))
  BY KeysOf
<1>3. \A k \in ToSet(Keys(s)) : k \in Says("env", s) <=> k \in DOMAIN LoadEnv(scene.env)
  BY <1>1 DEF Says, Unset
<1> QED
  BY <1>1, <1>2, <1>3 DEF Carries, Meant

\* A file: its paths are relative to where it is.
LEMMA FileCarries ==
  ASSUME NEW s \in Merging, NEW name \in {"file", "global", "project"}, name \in DOMAIN scene.files
  PROVE  Carries(LoadFile(scene.files[name]), name, s)
<1> DEFINE file == scene.files[name]
           says == file.says
<1>1. LayerOf(name) = says
  BY DEF LayerOf
<1>2. \A k \in ToSet(Keys(s)) : k \in Says(name, s) <=> k \in DOMAIN says
  BY <1>1 DEF Says, Unset
<1>3. DOMAIN LoadFile(file) = DOMAIN says
  BY DEF LoadFile
<1>4. \A path : Against(path, file.dir) = Placed(path, name)
  BY DEF Against, Placed
<1>5. ASSUME NEW n \in DOMAIN Keys(s), Keys(s)[n] \in DOMAIN says
      PROVE  LoadFile(file)[Keys(s)[n]] = Meant(says[Keys(s)[n]], s, name)
  <2>1. s # "state" => Keys(s)[n] = s
    BY KeysOf
  <2>2. s = "state" => Keys(s)[n] \in {"paths.state", "paths.state_path", "upload.state"}
    BY KeysOf
  <2>3. CASE s = "src"
    <3>1. LoadFile(file)["src"] = [i \in DOMAIN says.src |-> Against(says.src[i], file.dir)]
      BY <1>5, <2>1, <2>3 DEF LoadFile
    <3>2. Meant(says.src, "src", name) = [i \in DOMAIN says.src |-> Placed(says.src[i], name)]
      BY DEF Meant
    <3> QED
      BY <1>4, <2>1, <2>3, <3>1, <3>2
  <2>4. CASE s = "state"
    <3>1. LoadFile(file)[Keys(s)[n]] = Against(says[Keys(s)[n]], file.dir)
      BY <1>5, <2>2, <2>4 DEF LoadFile
    <3>2. Meant(says[Keys(s)[n]], s, name) = Placed(says[Keys(s)[n]], name)
      BY <2>4 DEF Meant
    <3> QED
      BY <1>4, <3>1, <3>2
  <2>5. CASE s \notin {"src", "state"}
    <3>1. s \in {"order", "album_max", "recursive", "follow"}
      BY <2>5 DEF Merging
    <3>2. LoadFile(file)[s] = says[s]
      BY <1>5, <2>1, <2>5, <3>1 DEF LoadFile
    <3>3. Meant(says[s], s, name) = says[s]
      BY <2>5 DEF Meant
    <3> QED
      BY <2>1, <2>5, <3>2, <3>3
  <2> QED
    BY <2>3, <2>4, <2>5
<1> QED
  BY <1>1, <1>2, <1>3, <1>5, KeysOf DEF Carries

\* Every layer wins over what is below it.
LEMMA MergedInLayers ==
  ASSUME scene \in Scenes, NEW s \in Merging
  PROVE  \E lower :
           /\ \E unasked : /\ Wins(Merged(scene)[s], unasked, "asked", s)
                       /\ Wins(unasked[s], lower, "env", s)
           /\ "file" \in DOMAIN scene.files => Wins(lower[s], Default, "file", s)
           /\ "file" \notin DOMAIN scene.files =>
                \E lowest : /\ Wins(lower[s], lowest, "project", s)
                            /\ Wins(lowest[s], Default, "global", s)
<1> DEFINE asked == IF scene.door = "mcp" THEN SpecToOverlay(scene.asked)
                    ELSE FlagLayer(scene.asked)
           lower == FromFiles(scene)
           unasked == Apply(lower, LoadEnv(scene.env))
<1>0. s \in Setting
  BY DEF Merging, Setting
<1>1. Merged(scene) = Apply(unasked, asked)
  BY DEF Merged
<1>2. Wins(Merged(scene)[s], unasked, "asked", s)
  <2>1. Carries(asked, "asked", s)
    BY AskedCarries
  <2> HIDE DEF asked, unasked
  <2> QED
    BY <1>0, <1>1, <2>1, LayerTakes
<1>3. Wins(unasked[s], lower, "env", s)
  <2> HIDE DEF lower
  <2> QED
    BY <1>0, EnvCarries, LayerTakes
<1>4. ASSUME "file" \in DOMAIN scene.files PROVE Wins(lower[s], Default, "file", s)
  <2>1. lower = Apply(Default, LoadFile(scene.files["file"]))
    BY <1>4 DEF FromFiles
  <2>2. Carries(LoadFile(scene.files["file"]), "file", s)
    BY <1>4, FileCarries
  <2> HIDE DEF lower
  <2> QED
    BY <1>0, <2>1, <2>2, LayerTakes
<1>5. ASSUME "file" \notin DOMAIN scene.files
      PROVE  \E lowest : /\ Wins(lower[s], lowest, "project", s)
                         /\ Wins(lowest[s], Default, "global", s)
  <2> DEFINE lowest == Apply(Default, LoadFile(scene.files["global"]))
  <2>1. lower = Apply(lowest, LoadFile(scene.files["project"]))
    BY <1>5 DEF FromFiles
  <2>2. /\ Carries(LoadFile(scene.files["global"]), "global", s)
        /\ Carries(LoadFile(scene.files["project"]), "project", s)
    BY <1>5, ScenesAssumption, FileCarries
  <2>3. Wins(lowest[s], Default, "global", s)
    BY <1>0, <2>2, LayerTakes
  <2> HIDE DEF lower, lowest
  <2>4. Wins(lower[s], lowest, "project", s)
    BY <1>0, <2>1, <2>2, LayerTakes
  <2> QED
    BY <2>3, <2>4
<1> HIDE DEF lower, unasked
<1> QED
  BY <1>2, <1>3, <1>4, <1>5

\* Every layer of the ranking wins over what is below it.
LEMMA MergedFollows ==
  ASSUME scene \in Scenes, NEW s \in Merging
  PROVE  \A i \in DOMAIN Ranking, n \in DOMAIN Keys(s) :
           /\ \A k \in 1 .. i - 1 : Says(Ranking[k], s) = {}
           /\ Keys(s)[n] \in Says(Ranking[i], s)
           /\ \A m \in 1 .. n - 1 : Keys(s)[m] \notin Says(Ranking[i], s)
           => Merged(scene)[s] = Meant(LayerOf(Ranking[i])[Keys(s)[n]], s, Ranking[i])
<1>1. PICK unasked, lower :
        /\ Wins(Merged(scene)[s], unasked, "asked", s) /\ Wins(unasked[s], lower, "env", s)
        /\ "file" \in DOMAIN scene.files => Wins(lower[s], Default, "file", s)
        /\ "file" \notin DOMAIN scene.files =>
             \E lowest : /\ Wins(lower[s], lowest, "project", s)
                         /\ Wins(lowest[s], Default, "global", s)
  BY MergedInLayers
<1> SUFFICES ASSUME NEW i \in DOMAIN Ranking, NEW n \in DOMAIN Keys(s),
                    \A k \in 1 .. i - 1 : Says(Ranking[k], s) = {},
                    Keys(s)[n] \in Says(Ranking[i], s),
                    \A m \in 1 .. n - 1 : Keys(s)[m] \notin Says(Ranking[i], s)
             PROVE  Merged(scene)[s] = Meant(LayerOf(Ranking[i])[Keys(s)[n]], s, Ranking[i])
  OBVIOUS
<1>2. i \in 1 .. 4 /\ Ranking[1] = "asked" /\ Ranking[2] = "env"
  BY DEF Ranking
<1>3. \A k \in 1 .. 4 : k < i => Says(Ranking[k], s) = {}
  BY <1>2
<1>4. CASE i = 1
  BY <1>1, <1>2, <1>4 DEF Wins
<1>5. CASE i = 2
  <2>1. Merged(scene)[s] = unasked[s]
    BY <1>1, <1>2, <1>3, <1>5 DEF Wins
  <2> QED
    BY <1>1, <1>2, <1>5, <2>1 DEF Wins
<1>6. CASE i \in {3, 4}
  <2>1. Merged(scene)[s] = lower[s]
    BY <1>1, <1>2, <1>3, <1>6 DEF Wins
  <2>2. CASE "file" \in DOMAIN scene.files
    <3>1. i = 3 /\ Ranking[i] = "file"
      BY <1>6, <2>2 DEF Ranking
    <3> QED
      BY <1>1, <2>1, <2>2, <3>1 DEF Wins
  <2>3. CASE "file" \notin DOMAIN scene.files
    <3>1. Ranking[3] = "project" /\ Ranking[4] = "global"
      BY <2>3 DEF Ranking
    <3>2. PICK lowest : /\ Wins(lower[s], lowest, "project", s)
                        /\ Wins(lowest[s], Default, "global", s)
      BY <1>1, <2>3
    <3>3. CASE i = 3
      BY <2>1, <3>1, <3>2, <3>3 DEF Wins
    <3>4. CASE i = 4
      <4>1. lower[s] = lowest[s]
        BY <1>3, <3>1, <3>2, <3>4 DEF Wins
      <4> QED
        BY <2>1, <3>1, <3>2, <3>4, <4>1 DEF Wins
    <3> QED
      BY <1>6, <3>3, <3>4
  <2> QED
    BY <2>2, <2>3
<1> QED
  BY <1>2, <1>4, <1>5, <1>6

\* Under all of them is the default.
LEMMA MergedDefault ==
  ASSUME scene \in Scenes, NEW s \in Merging,
         \A i \in DOMAIN Ranking : Says(Ranking[i], s) = {}
  PROVE  Merged(scene)[s] = Default[s]
<1>1. PICK unasked, lower :
        /\ Wins(Merged(scene)[s], unasked, "asked", s) /\ Wins(unasked[s], lower, "env", s)
        /\ "file" \in DOMAIN scene.files => Wins(lower[s], Default, "file", s)
        /\ "file" \notin DOMAIN scene.files =>
             \E lowest : /\ Wins(lower[s], lowest, "project", s)
                         /\ Wins(lowest[s], Default, "global", s)
  BY MergedInLayers
<1>2. Says("asked", s) = {} /\ Says("env", s) = {}
  BY DEF Ranking
<1>3. Merged(scene)[s] = lower[s]
  BY <1>1, <1>2 DEF Wins
<1>4. CASE "file" \in DOMAIN scene.files
  <2>1. Says("file", s) = {}
    BY <1>4 DEF Ranking
  <2> QED
    BY <1>1, <1>3, <1>4, <2>1 DEF Wins
<1>5. CASE "file" \notin DOMAIN scene.files
  <2>1. Says("project", s) = {} /\ Says("global", s) = {}
    BY <1>5 DEF Ranking
  <2> QED
    BY <1>1, <1>3, <1>5, <2>1 DEF Wins
<1> QED
  BY <1>4, <1>5

\* Until the walk ends the configuration is what was merged.
Resolved ==
  /\ scene \in Scenes
  /\ stage = "scan" => cfg = Merged(scene)

\* README.md:272: "CLI > ENV > config file > defaults" (loader.go, merge.go).
THEOREM RankingDecides == Spec => []HighestLayerWins
<1>1. Init => Resolved
  BY Zenon DEF Init, Resolved
<1>2. Resolved /\ [Next]_vars => Resolved'
  <2> SUFFICES ASSUME Resolved, [Next]_vars PROVE Resolved'
    OBVIOUS
  <2>1. scene' = scene
    BY Zenon DEF Next, Resolve, Discover, ScanPath, ScanEntry, ScanFails, ScanDone, Plan,
       StartAlbum, CompressAlbum, AllSent, vars, prepVars
  <2>2. CASE Resolve
    BY <2>1, <2>2 DEF Resolve, Resolved
  <2>3. CASE ScanPath \/ ScanEntry \/ ScanFails
    <3>1. stage = "scan" /\ cfg' = cfg
      BY <2>3, Zenon DEF ScanPath, ScanEntry, ScanFails
    <3> QED
      BY <2>1, <3>1 DEF Resolved
  <2>4. CASE ScanDone \/ Plan \/ StartAlbum \/ CompressAlbum \/ AllSent
    <3>1. stage' \in {"empty", "plan", "planned", "over"}
      BY <2>4, Zenon DEF ScanDone, Plan, StartAlbum, CompressAlbum, AllSent, prepVars
    <3> QED
      BY <2>1, <3>1 DEF Resolved
  <2>5. CASE UNCHANGED vars
    BY <2>5 DEF vars, prepVars, Resolved
  <2> QED
    BY <2>2, <2>3, <2>4, <2>5, Zenon DEF Next, Discover
<1>3. Resolved => HighestLayerWins
  <2> SUFFICES ASSUME Resolved, stage = "scan", NEW s \in Merging
               PROVE  /\ (\A i \in DOMAIN Ranking : Says(Ranking[i], s) = {}) => cfg[s] = Default[s]
                      /\ \A i \in DOMAIN Ranking, n \in DOMAIN Keys(s) :
                           /\ \A k \in 1 .. i - 1 : Says(Ranking[k], s) = {}
                           /\ Keys(s)[n] \in Says(Ranking[i], s)
                           /\ \A m \in 1 .. n - 1 : Keys(s)[m] \notin Says(Ranking[i], s)
                           => cfg[s] = Meant(LayerOf(Ranking[i])[Keys(s)[n]], s, Ranking[i])
    BY Zenon DEF HighestLayerWins
  <2> QED
    BY MergedFollows, MergedDefault DEF Resolved
<1> QED
  BY <1>1, <1>2, <1>3, PTL DEF Spec

-----------------------------------------------------------------------------
(* The photos: the heart is Bracketed, the loop invariant of the two       *)
(* binary searches.  What is better than the open interval does not fit at *)
(* its edge, and what is worse, if anything was kept, is what was kept.    *)

USE DEF Tool, Mode

\* The current mode and its tool are what they are named for.
LEMMA CurrentMode ==
  ASSUME NEW ms \in Seq(Mode), ms # << >>
  PROVE  Head(ms) \in Mode
OBVIOUS

\* The next mode of the list is tried when one fails.
LEMMA NextMode ==
  ASSUME NEW ms \in Seq(Mode), Len(ms) > 1
  PROVE  Tail(ms) \in Seq(Mode) /\ Tail(ms) # << >> /\ Head(Tail(ms)) = ms[2]
OBVIOUS

\* The middle of an interval that is not empty lies in it.
LEMMA Middle ==
  ASSUME NEW l \in Nat, NEW h \in Nat, l <= h
  PROVE  /\ (l + h + 1) \div 2 \in l .. h
         /\ (l + h) \div 2 \in l .. h
OBVIOUS

\* Loop invariant of the searches.
Bracketed ==
  step = "search" =>
    IF tool = "stdlib"
      THEN /\ 1 <= low /\ low <= high + 1 /\ high < Highest
           /\ high + 1 \notin fitting
           /\ result = low - 1 /\ (result # 0 => result \in fitting)
      ELSE /\ 2 <= low /\ low <= high + 1 /\ high <= Coarsest
           /\ low - 1 \notin fitting
           /\ \/ result = 0
              \/ result = high + 1 /\ result \in fitting

\* The inductive invariant of what happens to photos.
IInv == PhotoTypeOK /\ Bracketed /\ NoTempLeft /\ NoBetterNeighbour

\* It holds before the first request.
LEMMA InitIInv == PhotoInit => IInv
BY PhotoAssumption DEF PhotoInit, IInv, PhotoTypeOK, Bracketed, NoTempLeft, NoBetterNeighbour

-----------------------------------------------------------------------------
(* A mode that fails leaves nothing behind, wherever it fails.             *)

\* A mode that fails is followed by the next, or the photo is sent as it is.
LEMMA ModeFailsStep ==
  ASSUME IInv, ModeFails, step \in {"quick", "search"}
  PROVE  IInv'
<1> USE PhotoAssumption
<1>1. temps' \subseteq cleanups'
  BY DEF IInv, NoTempLeft, ModeFails
<1>2. CASE Len(modes) > 1
  <2>1. step' = "quick" /\ modes' = Tail(modes) /\ ffmpeg' = ffmpeg
        /\ fitting' \subseteq Qualities(ToolOf(modes[2], ffmpeg))
    BY <1>2 DEF ModeFails
  <2>2. modes' \in Seq(Mode) /\ modes' # << >> /\ Head(modes') = modes[2]
    BY <2>1, <1>2, NextMode DEF IInv, PhotoTypeOK
  <2>3. fitting' \subseteq Qualities(tool)'
    BY <2>1, <2>2 DEF tool, Current, Qualities
  <2>4. PhotoTypeOK'
    BY <2>1, <2>2, <2>3 DEF IInv, PhotoTypeOK, ModeFails
  <2> QED BY <2>1, <2>4, <1>1 DEF IInv, Bracketed, NoTempLeft, NoBetterNeighbour
<1>3. CASE ~(Len(modes) > 1)
  <2>1. step' = "next" /\ modes' = << >>
    BY <1>3 DEF ModeFails
  <2>2. PhotoTypeOK'
    BY <2>1 DEF IInv, PhotoTypeOK, ModeFails
  <2> QED BY <2>1, <2>2, <1>1 DEF IInv, Bracketed, NoTempLeft, NoBetterNeighbour
<1> QED BY <1>2, <1>3

-----------------------------------------------------------------------------
(* The searches.                                                           *)

\* The best quality fits and is kept, or the search begins below it.
LEMMA QuickCheckStep ==
  ASSUME IInv, QuickCheck
  PROVE  IInv'
<1> USE PhotoAssumption
<1>1. modes' = modes /\ ffmpeg' = ffmpeg /\ fitting' = fitting /\ photo' = photo
      /\ cleanups' = cleanups /\ tool' = tool /\ Current' = Current
  BY DEF QuickCheck, tool, Current
<1>2. Current \in Mode /\ tool \in Tool /\ BestOf(tool) \in Nat
  BY CurrentMode DEF IInv, PhotoTypeOK, QuickCheck, Current, tool, ToolOf, BestOf
<1>3. temps \subseteq cleanups
  BY DEF IInv, NoTempLeft, QuickCheck
<1>4. CASE BestOf(tool) \in fitting
  <2>1. step' = "found" /\ result' = BestOf(tool) /\ low' = low /\ high' = high
        /\ temps' = temps \cup {<<photo, Current, BestOf(tool)>>}
    BY <1>4 DEF QuickCheck, Temp
  <2>2. PhotoTypeOK'
    BY <1>1, <1>2, <2>1 DEF IInv, PhotoTypeOK, QuickCheck, Qualities
  <2>3. NoTempLeft' /\ NoBetterNeighbour' /\ Bracketed'
    BY <1>1, <1>3, <1>4, <2>1 DEF NoTempLeft, NoBetterNeighbour, Bracketed, Temp, BestOf
  <2> QED BY <2>2, <2>3 DEF IInv
<1>5. CASE BestOf(tool) \notin fitting
  <2>1. step' = "search" /\ result' = 0 /\ temps' = temps
        /\ low' = (IF tool = "stdlib" THEN 1 ELSE 2)
        /\ high' = (IF tool = "stdlib" THEN Highest - 1 ELSE Coarsest)
    BY <1>5 DEF QuickCheck
  <2>2. PhotoTypeOK'
    BY <1>1, <1>2, <2>1 DEF IInv, PhotoTypeOK, QuickCheck, Qualities
  <2>3. Bracketed'
    BY <1>1, <1>2, <1>5, <2>1 DEF Bracketed, BestOf
  <2>4. NoTempLeft' /\ NoBetterNeighbour'
    BY <1>1, <1>3, <2>1 DEF NoTempLeft, NoBetterNeighbour
  <2> QED BY <2>2, <2>3, <2>4 DEF IInv
<1> QED BY <1>4, <1>5

\* What the two probes have in common: nothing but the kept output moves.
LEMMA ProbeFrame ==
  ASSUME IInv, step = "search", low <= high,
         UNCHANGED <<step, photos, photo, ffmpeg, modes, fitting, cleanups>>,
         NEW q \in Nat, Keep(q) \/ UNCHANGED <<result, temps>>
  PROVE  /\ tool' = tool /\ tool \in Tool
         /\ result' \in Nat
         /\ temps' \subseteq Nat \X Mode \X Nat
         /\ NoTempLeft' /\ NoBetterNeighbour'
<1>1. Current' = Current /\ tool' = tool /\ tool \in Tool
  BY DEF tool, Current, ToolOf
<1>2. Current \in Mode
  BY CurrentMode DEF IInv, PhotoTypeOK, Current
<1>3. temps \subseteq cleanups \cup {<<photo, Current, result>>}
  BY DEF IInv, NoTempLeft, Temp
<1>4. CASE Keep(q)
  BY <1>1, <1>2, <1>3, <1>4 DEF IInv, PhotoTypeOK, Keep, NoTempLeft, NoBetterNeighbour, Temp
<1>5. CASE UNCHANGED <<result, temps>>
  BY <1>1, <1>2, <1>3, <1>5 DEF IInv, PhotoTypeOK, NoTempLeft, NoBetterNeighbour, Temp
<1> QED BY <1>4, <1>5

\* A probe of the search for the highest quality halves the interval.
LEMMA ProbeStdlibStep ==
  ASSUME IInv, ProbeStdlib
  PROVE  IInv' /\ high' - low' < high - low
<1> DEFINE mid == (low + high + 1) \div 2
<1> USE PhotoAssumption
<1>1. low \in Nat /\ high \in Nat /\ result \in Nat /\ low <= high /\ step = "search"
      /\ tool = "stdlib" /\ UNCHANGED <<step, photos, photo, ffmpeg, modes, fitting, cleanups>>
  BY DEF IInv, PhotoTypeOK, ProbeStdlib
<1>2. mid \in low .. high
  BY <1>1, Middle
<1>3. \/ mid \in fitting /\ Keep(mid) /\ low' = mid + 1 /\ high' = high
      \/ mid \notin fitting /\ high' = mid - 1 /\ UNCHANGED <<low, result, temps>>
  BY DEF ProbeStdlib
<1> HIDE DEF mid
<1>4. mid \in Nat
  BY <1>1, <1>2
<1>5. /\ tool' = tool /\ result' \in Nat
      /\ temps' \subseteq Nat \X Mode \X Nat
      /\ NoTempLeft' /\ NoBetterNeighbour'
  BY <1>1, <1>3, <1>4, ProbeFrame
<1>6. 1 <= low /\ high < Highest /\ high + 1 \notin fitting
      /\ result = low - 1 /\ (result # 0 => result \in fitting)
  BY <1>1 DEF IInv, Bracketed
<1>7. CASE mid \in fitting /\ Keep(mid) /\ low' = mid + 1 /\ high' = high
  <2>1. result' = mid
    BY <1>7 DEF Keep
  <2>2. Bracketed'
    BY <1>1, <1>2, <1>4, <1>5, <1>6, <1>7, <2>1 DEF Bracketed
  <2>3. PhotoTypeOK'
    BY <1>1, <1>4, <1>5, <1>7 DEF IInv, PhotoTypeOK, tool, Current
  <2> QED BY <1>1, <1>2, <1>4, <1>5, <1>7, <2>2, <2>3 DEF IInv
<1>8. CASE mid \notin fitting /\ high' = mid - 1 /\ UNCHANGED <<low, result, temps>>
  <2>1. high' \in Nat
    BY <1>1, <1>2, <1>4, <1>6, <1>8
  <2>2. Bracketed'
    BY <1>1, <1>2, <1>4, <1>5, <1>6, <1>8 DEF Bracketed
  <2>3. PhotoTypeOK'
    BY <1>1, <1>5, <1>8, <2>1 DEF IInv, PhotoTypeOK, tool, Current
  <2> QED BY <1>1, <1>2, <1>4, <1>5, <1>8, <2>2, <2>3 DEF IInv
<1> QED BY <1>3, <1>7, <1>8

\* A probe of the search for the lowest scale halves the interval.
LEMMA ProbeFFmpegStep ==
  ASSUME IInv, ProbeFFmpeg
  PROVE  IInv' /\ high' - low' < high - low
<1> DEFINE mid == (low + high) \div 2
<1> USE PhotoAssumption
<1>1. low \in Nat /\ high \in Nat /\ result \in Nat /\ low <= high /\ step = "search"
      /\ tool = "ffmpeg" /\ UNCHANGED <<step, photos, photo, ffmpeg, modes, fitting, cleanups>>
  BY DEF IInv, PhotoTypeOK, ProbeFFmpeg
<1>2. mid \in low .. high
  BY <1>1, Middle
<1>3. \/ mid \in fitting /\ Keep(mid) /\ high' = mid - 1 /\ low' = low
      \/ mid \notin fitting /\ low' = mid + 1 /\ UNCHANGED <<high, result, temps>>
  BY DEF ProbeFFmpeg
<1> HIDE DEF mid
<1>4. mid \in Nat
  BY <1>1, <1>2
<1>5. /\ tool' = tool /\ result' \in Nat
      /\ temps' \subseteq Nat \X Mode \X Nat
      /\ NoTempLeft' /\ NoBetterNeighbour'
  BY <1>1, <1>3, <1>4, ProbeFrame
<1>6. 2 <= low /\ high <= Coarsest /\ low - 1 \notin fitting
      /\ (result = 0 \/ (result = high + 1 /\ result \in fitting))
  BY <1>1 DEF IInv, Bracketed
<1>7. CASE mid \in fitting /\ Keep(mid) /\ high' = mid - 1 /\ low' = low
  <2>1. result' = mid /\ high' \in Nat
    BY <1>1, <1>2, <1>4, <1>6, <1>7 DEF Keep
  <2>2. Bracketed'
    BY <1>1, <1>2, <1>4, <1>5, <1>6, <1>7, <2>1 DEF Bracketed
  <2>3. PhotoTypeOK'
    BY <1>1, <1>4, <1>5, <1>7, <2>1 DEF IInv, PhotoTypeOK, tool, Current
  <2> QED BY <1>1, <1>2, <1>4, <1>5, <1>7, <2>2, <2>3 DEF IInv
<1>8. CASE mid \notin fitting /\ low' = mid + 1 /\ UNCHANGED <<high, result, temps>>
  <2>2. Bracketed'
    BY <1>1, <1>2, <1>4, <1>5, <1>6, <1>8 DEF Bracketed
  <2>3. PhotoTypeOK'
    BY <1>1, <1>4, <1>5, <1>8 DEF IInv, PhotoTypeOK, tool, Current
  <2> QED BY <1>1, <1>2, <1>4, <1>5, <1>8, <2>2, <2>3 DEF IInv
<1> QED BY <1>3, <1>7, <1>8

\* What a search kept when its interval is empty is the copy, or the mode fails.
LEMMA SearchEndsStep ==
  ASSUME IInv, SearchEnds
  PROVE  IInv'
<1> USE PhotoAssumption
<1>1. step = "search" /\ low > high /\ low \in Nat /\ high \in Nat /\ result \in Nat
  BY DEF IInv, PhotoTypeOK, SearchEnds
<1>2. CASE result # 0
  <2>1. /\ step' = "found"
        /\ UNCHANGED <<photos, photo, ffmpeg, modes, fitting, search, temps, cleanups>>
    BY <1>2 DEF SearchEnds
  <2>2. tool' = tool /\ Current' = Current
    BY <2>1 DEF tool, Current
  <2>3. PhotoTypeOK' /\ NoTempLeft' /\ Bracketed'
    BY <1>1, <2>1, <2>2 DEF IInv, PhotoTypeOK, NoTempLeft, Bracketed, Temp, search
  <2>4. result \in fitting /\ (result # BestOf(tool) => Better(tool, result) \notin fitting)
    BY <1>1, <1>2 DEF IInv, Bracketed, BestOf, Better
  <2> QED BY <2>1, <2>2, <2>3, <2>4 DEF IInv, NoBetterNeighbour, search
<1>3. CASE result = 0
  BY <1>1, <1>3, ModeFailsStep DEF SearchEnds
<1> QED BY <1>2, <1>3

-----------------------------------------------------------------------------
(* The steps of the loop over the images and of the request.               *)

\* The modes of a photo that is too large are set, with an encoder for the first.
LEMMA CompressStep ==
  ASSUME IInv, Compress
  PROVE  IInv'
<1> USE PhotoAssumption
<1>1. PICK f \in {"missing", "found"},
           ms \in {<<"none", "sumWH", "longEdge">>, <<"sumWH", "longEdge">>} :
        ffmpeg' = f /\ modes' = ms /\ fitting' \in SUBSET Qualities(ToolOf(Head(ms), f))
  BY DEF Compress
<1>2. ms \in Seq(Mode) /\ ms # << >>
  <2>1. CASE ms = <<"none", "sumWH", "longEdge">>  BY <2>1
  <2>2. CASE ms = <<"sumWH", "longEdge">>          BY <2>2
  <2> QED BY <2>1, <2>2
<1>3. fitting' \subseteq Qualities(tool)'
  BY <1>1 DEF tool, Current, Qualities
<1>4. PhotoTypeOK'
  BY <1>1, <1>2, <1>3 DEF IInv, PhotoTypeOK, Compress, search
<1> QED BY <1>4 DEF IInv, Compress, Bracketed, NoTempLeft, NoBetterNeighbour

\* The copy replaces the photo in the request.
LEMMA UseCopyStep ==
  ASSUME IInv, UseCopy
  PROVE  IInv'
<1> USE PhotoAssumption
<1>1. Current \in Mode
  BY CurrentMode DEF IInv, PhotoTypeOK, UseCopy, Current
<1>2. temps \subseteq cleanups \cup {<<photo, Current, result>>}
  BY DEF IInv, NoTempLeft, UseCopy, Temp
<1>3. PhotoTypeOK'
  BY <1>1 DEF IInv, PhotoTypeOK, UseCopy, Temp
<1>4. temps' \subseteq cleanups'
  BY <1>2 DEF UseCopy, Temp
<1> QED BY <1>3, <1>4 DEF IInv, UseCopy, Bracketed, NoTempLeft, NoBetterNeighbour

\* A request begins with the photos of its album.
LEMMA BeginStep ==
  ASSUME IInv, NEW n \in Nat, Begin(n)
  PROVE  IInv'
BY PhotoAssumption
DEF IInv, PhotoTypeOK, Bracketed, NoTempLeft, NoBetterNeighbour, Begin, search

\* The steps that try nothing: a photo that is sent as it is, the request itself.
LEMMA OtherSteps ==
  ASSUME IInv, SendAsIs \/ Send \/ CleanUp \/ UNCHANGED photoVars
  PROVE  IInv'
<1> USE PhotoAssumption
<1>1. CASE SendAsIs
  BY <1>1 DEF IInv, PhotoTypeOK, Bracketed, NoTempLeft, NoBetterNeighbour, SendAsIs, search
<1>2. CASE Send
  BY <1>2 DEF IInv, PhotoTypeOK, Bracketed, NoTempLeft, NoBetterNeighbour, Send, search
<1>3. CASE CleanUp
  BY <1>3 DEF IInv, PhotoTypeOK, Bracketed, NoTempLeft, NoBetterNeighbour, CleanUp, search
<1>4. CASE UNCHANGED photoVars
  <2>1. tool' = tool /\ Current' = Current
    BY <1>4 DEF tool, Current, photoVars
  <2> QED
    BY <1>4, <2>1
    DEF IInv, PhotoTypeOK, Bracketed, NoTempLeft, NoBetterNeighbour, photoVars, search, Temp
<1> QED BY <1>1, <1>2, <1>3, <1>4

\* Every step keeps the invariant, ...
LEMMA NextIInv == IInv /\ [PhotoNext]_photoVars => IInv'
<1> SUFFICES ASSUME IInv, [PhotoNext]_photoVars PROVE IInv'
  OBVIOUS
<1>1. CASE Compress                 BY <1>1, CompressStep
<1>2. CASE QuickCheck               BY <1>2, QuickCheckStep
<1>3. CASE QuickFails \/ ProbeFails BY <1>3, ModeFailsStep DEF QuickFails, ProbeFails
<1>4. CASE ProbeStdlib              BY <1>4, ProbeStdlibStep
<1>5. CASE ProbeFFmpeg              BY <1>5, ProbeFFmpegStep
<1>6. CASE SearchEnds               BY <1>6, SearchEndsStep
<1>7. CASE UseCopy                  BY <1>7, UseCopyStep
<1>8. CASE SendAsIs \/ Send \/ CleanUp \/ UNCHANGED photoVars
  BY <1>8, OtherSteps
<1>9. CASE \E n \in Nat : Begin(n)   BY <1>9, BeginStep
<1> QED BY <1>1, <1>2, <1>3, <1>4, <1>5, <1>6, <1>7, <1>8, <1>9 DEF PhotoNext, PhotoStep

\* ... so it always holds.
LEMMA Invariance == PhotoSpec => []IInv
BY InitIInv, NextIInv, PTL DEF PhotoSpec

-----------------------------------------------------------------------------
(* Theorems.                                                               *)

\* The variables keep their types.
THEOREM TypeCorrect == PhotoSpec => []PhotoTypeOK
<1>1. IInv => PhotoTypeOK BY DEF IInv
<1> QED BY <1>1, Invariance, PTL

\* However the sizes of the outputs depend on the quality, the copy that
\* CompressPhoto returns fits and the next better quality does not.
THEOREM CopyHasNoBetterNeighbour == PhotoSpec => []NoBetterNeighbour
<1>1. IInv => NoBetterNeighbour BY DEF IInv
<1> QED BY <1>1, Invariance, PTL

\* If sizes grow with the quality, it is the best copy that fits.
THEOREM CopyIsBest == PhotoSpec => []BestCopy
<1>1. IInv => BestCopy
  <2> SUFFICES ASSUME IInv, step = "found", Monotone, NEW q \in fitting
               PROVE  IF tool = "stdlib" THEN q <= result ELSE q >= result
    BY DEF BestCopy
  <2>1. fitting \subseteq Qualities(tool) /\ result \in fitting
        /\ (result # BestOf(tool) => Better(tool, result) \notin fitting)
    BY DEF IInv, PhotoTypeOK, NoBetterNeighbour
  <2>2. \A r \in Qualities(tool) :
          (IF tool = "stdlib" THEN r < q ELSE r > q) => r \in fitting
    BY DEF Monotone
  <2>3. CASE tool = "stdlib"
    BY <2>1, <2>2, <2>3, PhotoAssumption DEF Qualities, BestOf, Better
  <2>4. CASE tool # "stdlib"
    BY <2>1, <2>2, <2>4, PhotoAssumption DEF Qualities, BestOf, Better
  <2> QED BY <2>3, <2>4
<1> QED BY <1>1, Invariance, PTL

\* No temporary file is left when the request is over.
THEOREM TempsRemoved == PhotoSpec => []NoTempLeft
<1>1. IInv => NoTempLeft BY DEF IInv
<1> QED BY <1>1, Invariance, PTL

\* The searches come to an end: every step of theirs leaves less to search.
THEOREM SearchComesToAnEnd == PhotoSpec => SearchNarrows
<1>1. IInv /\ [PhotoNext]_photoVars =>
        [step = "search" /\ step' = "search" => high' - low' < high - low]_photoVars
  <2> SUFFICES ASSUME IInv, PhotoNext, step = "search", step' = "search"
               PROVE  high' - low' < high - low
    BY DEF photoVars
  <2>1. ~ModeFails
    BY DEF ModeFails
  <2>2. ProbeStdlib \/ ProbeFFmpeg
    BY <2>1 DEF PhotoNext, PhotoStep, Begin, SendAsIs, Compress, QuickCheck, QuickFails, ProbeFails,
       SearchEnds, UseCopy, Send, CleanUp
  <2> QED BY <2>2, ProbeStdlibStep, ProbeFFmpegStep
<1> QED BY <1>1, Invariance, PTL DEF PhotoSpec, SearchNarrows

\* Whatever the plan and the mode, what happens to photos is PhotoSearch: one
\* request after the other, and nothing else touches its variables
\* (upload/run.go, CompressPhoto in media/image.go).
THEOREM CompressesByPhotoSearch == Spec => PhotoSpec
<1>1. Init => PhotoInit
  BY Zenon DEF Init
<1>2. [Next]_vars => [PhotoNext]_photoVars
  <2>1. Resolve \/ Discover \/ Plan \/ AllSent \/ UNCHANGED vars => UNCHANGED photoVars
    BY Zenon DEF Resolve, Discover, Plan, AllSent, vars
  <2>2. StartAlbum => \E n \in Nat : Begin(n)
    <3> SUFFICES ASSUME StartAlbum PROVE \E n \in Nat : Begin(n)
      OBVIOUS
    <3>1. PICK n : Begin(n)
      BY Zenon DEF StartAlbum
    <3>2. n \in Nat
      BY <3>1 DEF Begin
    <3> QED
      BY <3>1, <3>2
  <2>3. CompressAlbum => PhotoStep
    BY Zenon DEF CompressAlbum
  <2> QED
    BY <2>1, <2>2, <2>3, Zenon DEF Next, PhotoNext
<1> QED
  BY <1>1, <1>2, PTL DEF Spec, PhotoSpec

\* So a command leaves no temporary file when a request is over.
THEOREM CommandLeavesNoTemp == Spec => []NoTempLeft
BY CompressesByPhotoSearch, TempsRemoved, PTL

\* ... and the copies it sends are the best next to their neighbours.
THEOREM CommandSendsBestCopy == Spec => []NoBetterNeighbour
BY CompressesByPhotoSearch, CopyHasNoBetterNeighbour, PTL
==============================================================================
