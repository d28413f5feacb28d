------------------------------ MODULE Settings ------------------------------
(***************************************************************************)
(* The configuration of a run, internal/config: layers of optional         *)
(* settings merged over the defaults and validated.  The settings are those*)
(* that decide what is sent, and the state path, which has three names in  *)
(* a file.  Every other setting is treated like "order".                   *)
(*                                                                         *)
(* A layer is a function from some keys to values.  A variable of the      *)
(* environment holds a text; a flag holds the texts it was given, in order.*)
(* A path is a sequence of names with the flag abs; the syntax of lists and*)
(* files is left out: what cannot be parsed is in scene.unreadable.  Blanks*)
(* around a path are part of it, until somebody trims them: " /x" is a     *)
(* relative path, of a blank name and x.                                   *)
(***************************************************************************)
EXTENDS Integers, Sequences, SequencesExt, FiniteSetsExt, TLC

CONSTANTS
  Blank,    \* paths that are nothing but blanks
  Trimmed   \* of other paths with blanks around them, what is between the blanks

Path == [abs : BOOLEAN, at : Seq(Nat)]

ASSUME TrimmedAssumption == Trimmed \in [DOMAIN Trimmed -> Path] /\ Blank \cap DOMAIN Trimmed = {}

\* strings.TrimSpace, of a path that is not blank.
TrimSpace(path) == IF path \in DOMAIN Trimmed THEN Trimmed[path] ELSE path

Setting == {"src", "recursive", "follow", "include", "exclude", "order", "reverse", "album_max",
            "image_mode", "state"}

\* Default.
Default ==
  [src |-> << >>, recursive |-> TRUE, follow |-> FALSE, include |-> {}, exclude |-> {},
   order |-> "mtime", reverse |-> FALSE, album_max |-> 10, image_mode |-> "auto",
   state |-> [abs |-> FALSE, at |-> <<"data", "state">>]]

\* The keys of a setting, the one that counts first.
Keys(s) == IF s = "state" THEN <<"paths.state", "paths.state_path", "upload.state">> ELSE <<s>>

SetBy(s, layer) == {i \in DOMAIN Keys(s) : Keys(s)[i] \in DOMAIN layer}

\* ResolveAgainst, for the path keys of a file.
Against(path, dir) == IF path.abs THEN path ELSE [abs |-> TRUE, at |-> dir \o path.at]

\* LoadFile: relative paths are relative to the directory of the file.
LoadFile(file) ==
  [k \in DOMAIN file.says |->
     IF k = "src" THEN [i \in DOMAIN file.says.src |-> Against(file.says.src[i], file.dir)]
     ELSE IF k \in {"paths.state", "paths.state_path", "upload.state"}
       THEN Against(file.says[k], file.dir)
     ELSE file.says[k]]

\* parseBoolLike, for variables, and strconv.ParseBool, for flags.
EnvSwitch ==
  [text \in {"1", "true", "yes", "on", "0", "false", "no", "off"} |->
     text \in {"1", "true", "yes", "on"}]
FlagSwitch ==
  [text \in {"1", "t", "T", "true", "TRUE", "True", "0", "f", "F", "false", "FALSE", "False"} |->
     text \in {"1", "t", "T", "true", "TRUE", "True"}]

\* A text stands for a value of key k.  (Bound: numbers have one digit.)
Readable(k, text, switch) ==
  /\ k \in {"recursive", "follow", "reverse"} => text \in DOMAIN switch
  /\ k = "album_max" => \E n \in 0 .. 9 : ToString(n) = text
Parse(k, text, switch) ==
  CASE k \in {"recursive", "follow", "reverse"} -> switch[text]
    [] k = "album_max" -> CHOOSE n \in 0 .. 9 : ToString(n) = text
    [] OTHER -> text

\* splitCSV and csvValue.Set: the parts of a list are trimmed, and blank ones
\* dropped.
SplitCSV(list) ==
  LET parts == SelectSeq(list, LAMBDA path : path \notin Blank) IN
  [i \in DOMAIN parts |-> TrimSpace(parts[i])]

\* loadEnv: a variable that is set counts, even if it is empty.
LoadEnv(env) ==
  [k \in DOMAIN env |->
     IF k = "src" THEN SplitCSV(env.src)
     ELSE IF k \in {"paths.state", "paths.state_path"} THEN TrimSpace(env[k])
     ELSE Parse(k, env[k], EnvSwitch)]
EnvReadable(env) == \A k \in DOMAIN env : Readable(k, env[k], EnvSwitch)

\* The flags: a list grows with every flag of its name, of others the last counts.
FlagLayer(given) ==
  [k \in DOMAIN given |->
     CASE k = "src" -> SplitCSV(FlattenSeq(given[k]))
       [] k \in {"include", "exclude"} -> UNION ToSet(given[k])
       [] OTHER -> Parse(k, Last(given[k]), FlagSwitch)]
FlagsReadable(given) ==
  \A k \in DOMAIN given : \A i \in DOMAIN given[k] : Readable(k, given[k][i], FlagSwitch)

\* specToOverlay: what is empty in the arguments of a tool call is not set.
SpecToOverlay(spec) ==
  [k \in {x \in DOMAIN spec :
            /\ x = "src" => spec[x] # << >>
            /\ x \in {"include", "exclude"} => spec[x] # {}
            /\ x \in {"order", "image_mode"} => spec[x] # ""} |-> spec[k]]

\* A command line that has --state and --state-path is refused.
FlagsConflict(sc) ==
  sc.door # "mcp" /\ {"paths.state", "paths.state_path"} \subseteq DOMAIN sc.asked

\* The two variables for the state path may both be set, to the same value.
VariablesConflict(env) ==
  /\ {"paths.state", "paths.state_path"} \subseteq DOMAIN env
  /\ TrimSpace(env["paths.state"]) # TrimSpace(env["paths.state_path"])

\* Mutant: upload.state is applied last, over paths.state.
ApplyCompatLast(cfg, layer) ==
  [s \in Setting |->
     IF SetBy(s, layer) = {} THEN cfg[s] ELSE layer[Keys(s)[Max(SetBy(s, layer))]]]

\* applyTelegram ... applyMCP: a layer overrides what it sets.
Apply(cfg, layer) ==
  [s \in Setting |->
     IF SetBy(s, layer) = {} THEN cfg[s] ELSE layer[Keys(s)[Min(SetBy(s, layer))]]]

\* The files, an explicit one or the global and the project file, over the
\* defaults.
FromFiles(sc) ==
  IF "file" \in DOMAIN sc.files THEN Apply(Default, LoadFile(sc.files["file"]))
  ELSE Apply(Apply(Default, LoadFile(sc.files["global"])), LoadFile(sc.files["project"]))

\* Merge: the environment and what the command says come on top.
Merged(sc) ==
  Apply(Apply(FromFiles(sc), LoadEnv(sc.env)),
        IF sc.door = "mcp" THEN SpecToOverlay(sc.asked) ELSE FlagLayer(sc.asked))

\* Validate.
Valid(cfg) ==
  /\ cfg.src # << >>
  /\ cfg.order \in {"name", "mtime", "size", "random"}
  /\ cfg.album_max > 0
  /\ cfg.image_mode \in {"auto", "photo", "document", "compress"}

\* Resolve succeeds.
Resolvable(sc) ==
  /\ ~FlagsConflict(sc) /\ (sc.door # "mcp" => FlagsReadable(sc.asked))
  /\ ~VariablesConflict(sc.env) /\ EnvReadable(sc.env) /\ sc.unreadable = {}
  /\ Valid(Merged(sc))
=============================================================================
