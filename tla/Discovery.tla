------------------------------ MODULE Discovery ------------------------------
(***************************************************************************)
(* Discovery of media files, internal/scan/scan.go: a depth-first walk over*)
(* the sources, with symbolic links, filters and two sets that keep a      *)
(* directory from being read and a file from being listed twice.           *)
(*                                                                         *)
(* The tree is a function from paths to nodes; a path is a sequence of     *)
(* names, and a name is a number, greater for a greater string.  No name   *)
(* is the beginning of another one, so that comparing paths name by name   *)
(* is comparing strings.  Links point to real paths, or nowhere.  An       *)
(* operation of the file system may fail at any point (something was       *)
(* removed, or may not be read).                                           *)
(***************************************************************************)
EXTENDS Settings, FiniteSets, TLC

CONSTANT Dotted  \* the names that begin with two dots

VARIABLES
  scene,      \* what the run finds: the tree, the layers of the configuration
  cfg,        \* the resolved configuration
  stage,      \* "config", "scan", "plan", "planned", "empty", "failed", "over"
  sources,    \* the sources the loop has not come to
  todo,       \* the stack of entries to visit, each with its source root
  seenDirs, seenFiles,
  items,      \* the items found, in order
  reads       \* history: the directories read, in order

walk == <<sources, todo, seenDirs, seenFiles, items, reads>>

tree == scene.tree

\* EvalSymlinks: the real path, link by link.
Target(nodes, p) == IF p \in DOMAIN nodes /\ nodes[p].kind = "link" THEN nodes[p].to ELSE p
RealIn(nodes, path) ==
  LET at[i \in 0 .. Len(path)] ==
        IF i = 0 THEN << >> ELSE Target(nodes, Append(at[i - 1], path[i])) IN
  at[Len(path)]
Real(path) == RealIn(tree, path)

\* A tree: what is not the root is in a directory, and a link points to a real
\* path, which may be that of nothing.
IsTree(nodes) ==
  /\ DOMAIN nodes \subseteq Seq(Nat) /\ IsFiniteSet(DOMAIN nodes)
  /\ << >> \in DOMAIN nodes /\ nodes[<< >>].kind = "dir"
  /\ \A p \in DOMAIN nodes :
       /\ nodes[p].kind \in {"dir", "file", "link"}
       /\ p # << >> => Front(p) \in DOMAIN nodes /\ nodes[Front(p)].kind = "dir"
       /\ nodes[p].kind = "link" =>
            LET to == nodes[p].to IN
            /\ to \in Seq(Nat) /\ RealIn(nodes, to) = to
            /\ to \in DOMAIN nodes => nodes[to].kind # "link"

\* The node a path names, itself (Lstat) or behind links (Stat).
NodeAt(p) == IF p \in DOMAIN tree THEN tree[p] ELSE [kind |-> "missing"]
Lstat(path) == IF path = << >> THEN tree[<< >>] ELSE NodeAt(Append(Real(Front(path)), Last(path)))
Stat(path) == NodeAt(Real(path))

\* What the walk makes of an entry: its node, or that of its target if links
\* are followed.
Node(path) ==
  IF Lstat(path).kind # "link" THEN Lstat(path)
  ELSE IF cfg.follow THEN Stat(path) ELSE [kind |-> "skipped"]

\* os.ReadDir: the names in a directory, in order.
ChildrenIn(d) == {p \in DOMAIN tree : p # << >> /\ Front(p) = d}
Listings(path) ==
  {names \in SetToSeqs({Last(p) : p \in ChildrenIn(Real(path))}) :
     \A i, j \in DOMAIN names : i < j => names[i] < names[j]}

Absolute(path) == IF path.abs THEN path.at ELSE scene.cwd \o path.at

\* sourceRoot: the source or the directory it is in, resolved if links are
\* followed.
SourceRoot(src) ==
  LET root == IF Stat(src).kind = "dir" THEN src ELSE Front(src) IN
  IF cfg.follow THEN Real(root) ELSE root

\* The path from the root to the directory begins with two dots: the directory
\* lies elsewhere, or the first name on the way does.
Upward(dir, root) ==
  ~IsPrefix(root, dir) \/ (dir # root /\ dir[Len(root) + 1] \in Dotted)

\* parentDir: relative to the source root, or the last name if that is upward.
ParentDir(file, root) ==
  IF Upward(Front(file), root)
  THEN <<Last(Front(file))>>
  ELSE SubSeq(Front(file), Len(root) + 1, Len(file) - 1)

\* extAllowed and detectKind.
Kind(ext) == IF ext \in {"jpg", "png"} THEN "image" ELSE IF ext = "mp4" THEN "video" ELSE "none"
Allowed(ext) ==
  /\ ext \notin cfg.exclude
  /\ cfg.include = {} \/ ext \in cfg.include
  /\ Kind(ext) # "none"

\* Mutant: the key is the path, not what it resolves to.
ScanDirByPath(path, root, rest) ==
  IF path \in seenDirs
  THEN todo' = rest /\ UNCHANGED <<seenDirs, seenFiles, items, reads>>
  ELSE /\ seenDirs' = seenDirs \cup {path}
       /\ reads' = Append(reads, path)
       /\ \E names \in Listings(path) :
            todo' = [i \in DOMAIN names |-> [path |-> Append(path, names[i]), root |-> root]]
                      \o rest
       /\ UNCHANGED <<seenFiles, items>>

\* scanDir: a directory not seen before has its entries visited in order.
ScanDir(path, root, rest) ==
  LET key == IF cfg.follow THEN Real(path) ELSE path IN
  IF key \in seenDirs
  THEN todo' = rest /\ UNCHANGED <<seenDirs, seenFiles, items, reads>>
  ELSE /\ seenDirs' = seenDirs \cup {key}
       /\ reads' = Append(reads, path)
       /\ \E names \in Listings(path) :
            todo' = [i \in DOMAIN names |-> [path |-> Append(path, names[i]), root |-> root]]
                      \o rest
       /\ UNCHANGED <<seenFiles, items>>

\* Mutant: a file is known by its path.
MaybeAppendByPath(path, root, rest) ==
  LET name == Append(Real(Front(path)), Last(path)) IN
  /\ todo' = rest
  /\ IF ~Allowed(tree[name].ext) \/ path \in seenFiles
     THEN UNCHANGED <<seenFiles, items>>
     ELSE /\ seenFiles' = seenFiles \cup {path}
          /\ items' = Append(items,
               [path |-> IF cfg.follow THEN Real(path) ELSE path, root |-> root,
                parent |-> ParentDir(Real(path), root), kind |-> Kind(tree[name].ext),
                mtime |-> Stat(path).mtime, size |-> Stat(path).size])
  /\ UNCHANGED <<seenDirs, reads>>

\* maybeAppendItem: the extension is that of the name that was met, the key
\* is the real path.
MaybeAppendItem(path, root, rest) ==
  LET name == Append(Real(Front(path)), Last(path)) IN
  /\ todo' = rest
  /\ IF ~Allowed(tree[name].ext) \/ Real(path) \in seenFiles
     THEN UNCHANGED <<seenFiles, items>>
     ELSE /\ seenFiles' = seenFiles \cup {Real(path)}
          /\ items' = Append(items,
               [path |-> IF cfg.follow THEN Real(path) ELSE path, root |-> root,
                parent |-> ParentDir(Real(path), root), kind |-> Kind(tree[name].ext),
                mtime |-> Stat(path).mtime, size |-> Stat(path).size])
  /\ UNCHANGED <<seenDirs, reads>>

-----------------------------------------------------------------------------
(* Discover.                                                               *)

\* Where the walk of a source starts.
Start(source) == Absolute(TrimSpace(source))

\* scanPath: the next source, trimmed.  It is skipped if it is blank, or a link
\* and links are not followed.
ScanPath ==
  /\ stage = "scan" /\ todo = << >> /\ sources # << >>
  /\ LET src == Start(Head(sources))
         kind == IF Head(sources) \in Blank THEN "skipped" ELSE Node(src).kind IN
     /\ sources' = Tail(sources)
     /\ CASE kind = "missing" ->
               stage' = "failed" /\ UNCHANGED <<todo, seenDirs, seenFiles, items, reads>>
          [] kind = "skipped" ->
               UNCHANGED <<stage, todo, seenDirs, seenFiles, items, reads>>
          [] kind = "dir" -> ScanDir(src, SourceRoot(src), << >>) /\ UNCHANGED stage
          [] OTHER -> MaybeAppendItem(src, SourceRoot(src), << >>) /\ UNCHANGED stage
  /\ UNCHANGED <<scene, cfg>>

\* The loop of scanDir: the next entry.  A directory is entered only if the
\* scan is recursive; a link that is not followed or leads nowhere is left.
ScanEntry ==
  /\ stage = "scan" /\ todo # << >>
  /\ LET entry == Head(todo)
         kind == Node(entry.path).kind IN
     CASE kind = "dir" /\ cfg.recursive -> ScanDir(entry.path, entry.root, Tail(todo))
       [] kind = "file" -> MaybeAppendItem(entry.path, entry.root, Tail(todo))
       [] OTHER -> todo' = Tail(todo) /\ UNCHANGED <<seenDirs, seenFiles, items, reads>>
  /\ UNCHANGED <<scene, cfg, stage, sources>>

\* Lstat or ReadDir fails: so does the scan.
ScanFails ==
  /\ stage = "scan" /\ (todo # << >> \/ sources # << >>)
  /\ stage' = "failed"
  /\ UNCHANGED <<scene, cfg, walk>>

\* Paths are compared name by name, a path before what is below it.
PathLess(p, q) ==
  \/ IsStrictPrefix(p, q)
  \/ \E i \in 1 .. Min({Len(p), Len(q)}) :
       SubSeq(p, 1, i - 1) = SubSeq(q, 1, i - 1) /\ p[i] < q[i]

\* What sort.Slice may make of a list.
Arrangements(list) ==
  {[i \in DOMAIN list |-> list[p[i]]] : p \in SetToSeqs(DOMAIN list)}

\* The items are sorted by path; without any the run is over.
ScanDone ==
  /\ stage = "scan" /\ todo = << >> /\ sources = << >>
  /\ items' \in Arrangements(items)
  /\ \A i, j \in DOMAIN items : i < j => ~PathLess(items'[j].path, items'[i].path)
  /\ stage' = IF items = << >> THEN "empty" ELSE "plan"
  /\ UNCHANGED <<scene, cfg, sources, todo, seenDirs, seenFiles, reads>>
==============================================================================
