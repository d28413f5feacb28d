----------------------------- MODULE Preparation -----------------------------
(***************************************************************************)
(* From a command line to the albums of a request: the configuration is    *)
(* resolved (Settings), the sources are walked (Discovery), the plan is    *)
(* built (Albums), and in image mode "compress" the photos of one album    *)
(* after the other are replaced by smaller copies (PhotoSearch).  It is    *)
(* RunUpload (internal/app/run.go) up to the upload, ExecuteDryRun         *)
(* (internal/app/dryrun.go) and RunJob (internal/mcp/bridge.go).  How the  *)
(* albums are sent is the subject of Upload; here they follow each other.  *)
(***************************************************************************)
EXTENDS Albums, PhotoSearch

CONSTANT Scenes  \* the situations in which the command is given

\* There is an explicit file, or there are places for a global and a project
\* file (a file that does not exist says nothing).
ASSUME ScenesAssumption ==
  \A sc \in Scenes : "file" \in DOMAIN sc.files \/ {"global", "project"} \subseteq DOMAIN sc.files

\* The types of what a run finds: src is a []string, album_max an int.
ASSUME ScenesTyped ==
  \A sc \in Scenes :
    /\ IsTree(sc.tree)
    /\ sc.cwd \in Seq(Nat) /\ sc.roots \subseteq Seq(Nat)
    /\ Resolvable(sc) => /\ Merged(sc).src \in Seq(Path)
                         /\ Merged(sc).album_max \in Int

VARIABLES
  albums,   \* the plan
  request   \* the albums sent so far, the current one included

prepVars == <<scene, cfg, stage, walk, albums, request>>
vars == <<prepVars, photoVars>>

Init ==
  /\ scene \in Scenes
  /\ cfg = Default
  /\ stage = "config"
  /\ sources = << >> /\ todo = << >>
  /\ seenDirs = {} /\ seenFiles = {} /\ items = << >> /\ reads = << >>
  /\ albums = << >> /\ request = 0
  /\ PhotoInit

-----------------------------------------------------------------------------

\* EnsureWithinRoot: both paths are resolved if they can be.
Eval(path) == IF Stat(path).kind = "missing" THEN path ELSE Real(path)
Within(root, path) == IsPrefix(Eval(root), Eval(path))

\* validatePaths, for tool calls: every source must be below an allowed root, as
\* it stands, with the blanks that the walk will trim.
SourcesAllowed(src) ==
  \A i \in DOMAIN src : \E root \in scene.roots : Within(root, Absolute(src[i]))

\* Mutant: the sources of the tool call are validated, not the resolved ones.
ResolveUnmerged ==
  /\ stage = "config"
  /\ IF /\ Resolvable(scene)
        /\ scene.door = "mcp" /\ "src" \in DOMAIN scene.asked => SourcesAllowed(scene.asked.src)
     THEN /\ stage' = "scan"
          /\ cfg' = Merged(scene) /\ sources' = Merged(scene).src
     ELSE stage' = "failed" /\ UNCHANGED <<cfg, sources>>
  /\ UNCHANGED <<scene, todo, seenDirs, seenFiles, items, reads, albums, request, photoVars>>

\* The configuration is resolved and validated, and so are the sources of a
\* tool call; if it cannot be the command ends.
Resolve ==
  /\ stage = "config"
  /\ IF /\ Resolvable(scene)
        /\ scene.door = "mcp" => SourcesAllowed(Merged(scene).src)
     THEN /\ stage' = "scan"
          /\ cfg' = Merged(scene) /\ sources' = Merged(scene).src
     ELSE stage' = "failed" /\ UNCHANGED <<cfg, sources>>
  /\ UNCHANGED <<scene, todo, seenDirs, seenFiles, items, reads, albums, request, photoVars>>

Discover ==
  /\ ScanPath \/ ScanEntry \/ ScanFails \/ ScanDone
  /\ UNCHANGED <<albums, request, photoVars>>

\* The plan.  Only the command run goes on from here: a dry run prints it,
\* and for a job of the tool server "full upload [is] not yet wired".
Plan ==
  /\ stage = "plan"
  /\ \E sorted \in Orderings(items, cfg.order, cfg.reverse) :
       albums' = Build(sorted, cfg.album_max)
  /\ stage' = IF scene.door = "run" THEN "planned" ELSE "over"
  /\ UNCHANGED <<scene, cfg, walk, request, photoVars>>

Images(album) == Len(SelectSeq(album.items, LAMBDA item : item.kind = "image"))

\* The request for the next album; its photos are compressed first.
StartAlbum ==
  /\ stage = "planned" /\ cfg.image_mode = "compress" /\ request < Len(albums)
  /\ Begin(Images(albums[request + 1]))
  /\ request' = request + 1
  /\ UNCHANGED <<scene, cfg, stage, walk, albums>>

CompressAlbum ==
  /\ stage = "planned" /\ PhotoStep
  /\ UNCHANGED prepVars

\* In the other modes nothing happens to the photos.
AllSent ==
  /\ stage = "planned" /\ step = "done"
  /\ cfg.image_mode # "compress" \/ request = Len(albums)
  /\ stage' = "over"
  /\ UNCHANGED <<scene, cfg, walk, albums, request, photoVars>>

Next == Resolve \/ Discover \/ Plan \/ StartAlbum \/ CompressAlbum \/ AllSent

Spec == Init /\ [][Next]_vars

-----------------------------------------------------------------------------
(* Properties.                                                             *)

\* README.md:272: "CLI > ENV > config file > defaults", the project file
\* above the global one, an explicit file instead of both: the value of a
\* setting is what the highest layer says of it, under whatever name, and a
\* path in a file is relative to the directory of the file.
LayerOf(name) ==
  CASE name = "asked" -> IF scene.door = "mcp" THEN scene.asked ELSE FlagLayer(scene.asked)
    [] name = "env" -> LoadEnv(scene.env)
    [] OTHER -> IF name \in DOMAIN scene.files THEN scene.files[name].says ELSE << >>
Ranking ==
  IF "file" \in DOMAIN scene.files THEN <<"asked", "env", "file">>
  ELSE <<"asked", "env", "project", "global">>
Unset(name, s) ==
  /\ name = "asked" /\ scene.door = "mcp"
  /\ (s = "src" /\ scene.asked.src = << >>) \/ (s = "order" /\ scene.asked.order = "")
Says(name, s) ==
  {k \in ToSet(Keys(s)) \cap DOMAIN LayerOf(name) : ~Unset(name, s)}
Placed(path, name) ==
  IF path.abs THEN path ELSE [abs |-> TRUE, at |-> scene.files[name].dir \o path.at]
Meant(value, s, name) ==
  IF name \in {"asked", "env"} \/ s \notin {"src", "state"} THEN value
  ELSE IF s = "state" THEN Placed(value, name)
  ELSE [i \in DOMAIN value |-> Placed(value[i], name)]

Merging == {"order", "album_max", "recursive", "follow", "src", "state"}

HighestLayerWins ==
  stage = "scan" =>
    \A s \in Merging :
      LET Silent(i) == Says(Ranking[i], s) = {} IN
      /\ (\A i \in DOMAIN Ranking : Silent(i)) => cfg[s] = Default[s]
      /\ \A i \in DOMAIN Ranking, n \in DOMAIN Keys(s) :
           /\ \A k \in 1 .. i - 1 : Silent(k)
           /\ Keys(s)[n] \in Says(Ranking[i], s)
           /\ \A m \in 1 .. n - 1 : Keys(s)[m] \notin Says(Ranking[i], s)
           => cfg[s] = Meant(LayerOf(Ranking[i])[Keys(s)[n]], s, Ranking[i])

\* What a tool call lists lies below an allowed root by its real path, from
\* whatever layer the sources come and whatever links lead to them, unless it
\* asked to follow links or a source has blanks around it: such a source is
\* checked with them (bridge.go:106) and walked without (scan.go:50).
Untrimmed == \E i \in DOMAIN cfg.src : cfg.src[i] \in DOMAIN Trimmed
OnlyAllowedRoots ==
  scene.door = "mcp" /\ ~cfg.follow /\ ~Untrimmed =>
    \A i \in DOMAIN items : \E root \in scene.roots :
      IsPrefix(Eval(root), Real(items[i].path))

\* The directories the options reach, by their real paths: those in every set
\* that has the sources and, if the walk is recursive, what is in its members.
Starts == {Start(cfg.src[i]) : i \in {j \in DOMAIN cfg.src : cfg.src[j] \notin Blank}}
SourceDirs == {Real(p) : p \in {q \in Starts : Node(q).kind = "dir"}}
Directories == {d \in DOMAIN tree : tree[d].kind = "dir"}
SubDirs(d) == {Real(p) : p \in {q \in ChildrenIn(d) : Node(q).kind = "dir"}}
ReachedDirs ==
  LET below == [d \in Directories |-> IF cfg.recursive THEN SubDirs(d) ELSE {}]
      closed == {C \in SUBSET Directories :
                   SourceDirs \subseteq C /\ \A d \in C : below[d] \subseteq C} IN
  {d \in Directories : \A C \in closed : d \in C}
Wanted ==
  {Real(p) : p \in
     {q \in (UNION {ChildrenIn(d) : d \in ReachedDirs}) \cup Starts :
        Node(q).kind = "file" /\ Allowed(Lstat(q).ext)}}

\* The walk lists what the sources and options ask for, all of it and nothing
\* else, each file once however many names lead to it.
DiscoveryExact ==
  stage \in {"plan", "empty"} =>
    /\ {Real(items[i].path) : i \in DOMAIN items} = Wanted
    /\ Len(items) = Cardinality(Wanted)

\* Links may form a cycle, but no directory is read twice when they are
\* followed, so that the walk comes to an end.
NoDirectoryTwice ==
  stage = "scan" /\ cfg.follow =>
    \A i, j \in DOMAIN reads : Real(reads[i]) = Real(reads[j]) => i = j

\* The files of an album come from one source, and from one directory, as long
\* as the path from the source to it does not begin with two dots: otherwise
\* the album goes by the last name of the directory.
OneDirectory(list) ==
  \A i, j \in DOMAIN list :
    LET DirOf(item) == Front(Real(item.path)) IN
    /\ list[i].root = list[j].root
    /\ ~Upward(DirOf(list[i]), list[i].root) /\ ~Upward(DirOf(list[j]), list[j].root) =>
         DirOf(list[i]) = DirOf(list[j])

\* The plan loses and repeats nothing; an album is of one directory (README.md:360,
\* "group by src_root + parent_dir"), and never empty, too long, or cut short
\* while its group has more.
PlanIsPartition ==
  stage \in {"planned", "over"} /\ albums # << >> =>
    /\ \A i \in DOMAIN items :
         \E a \in DOMAIN albums : \E k \in DOMAIN albums[a].items : albums[a].items[k] = items[i]
    /\ \A a, b \in DOMAIN albums :
         \A k \in DOMAIN albums[a].items, l \in DOMAIN albums[b].items :
           albums[a].items[k] = albums[b].items[l] => a = b /\ k = l
    /\ \A a \in DOMAIN albums :
         /\ ToSet(albums[a].items) \subseteq ToSet(items)
         /\ OneDirectory(albums[a].items)
         /\ Len(albums[a].items) \in 1 .. cfg.album_max
         /\ \A b \in DOMAIN albums : a < b /\ albums[a].key = albums[b].key =>
              Len(albums[a].items) = cfg.album_max
==============================================================================
