---------------------------- MODULE MCPreparation ----------------------------
(***************************************************************************)
(* Scenes for TLC, in five families: trees with links, scanned with every  *)
(* combination of sources and options; tool calls on them; layers of the   *)
(* configuration over a small tree; a directory whose name begins with two *)
(* dots; and one album after the other in image mode "compress".           *)
(***************************************************************************)
EXTENDS Preparation

Abs(at) == [abs |-> TRUE, at |-> at]
Rel(at) == [abs |-> FALSE, at |-> at]

\* The name 8 is a blank: " " is blank and " /2" is trimmed to "/2".  The name
\* 0, less than any other one, begins with two dots.
OneBlank == {Rel(<<8>>)}
SomeTrimmed == Rel(<<8, 2>>) :> Abs(<<2>>)
LeastName == {0}

Dir == [kind |-> "dir"]
File(ext, mtime, size) == [kind |-> "file", ext |-> ext, mtime |-> mtime, size |-> size]
Link(to, ext) == [kind |-> "link", to |-> to, ext |-> ext]

NoFiles == [global |-> [dir |-> <<1>>, says |-> << >>], project |-> [dir |-> <<1>>, says |-> << >>]]
Scene == [door |-> "run", files |-> NoFiles, env |-> << >>, asked |-> << >>, unreadable |-> {},
          tree |-> << >> :> Dir, roots |-> {}, cwd |-> <<1>>]

-----------------------------------------------------------------------------
(* /1 holds a photo, /1/1 with two files, /1/2 with one; /2 holds a file of*)
(* no use and /2/1 with a photo.  One link is in /1/1, another one in /2.  *)
BaseTree ==
  (<< >> :> Dir) @@ (<<1>> :> Dir) @@ (<<1, 1>> :> Dir) @@ (<<1, 2>> :> Dir)
    @@ (<<2>> :> Dir) @@ (<<2, 1>> :> Dir)
    @@ (<<1, 3>> :> File("jpg", 2, 3)) @@ (<<1, 1, 3>> :> File("mp4", 1, 2))
    @@ (<<1, 1, 4>> :> File("jpg", 1, 1)) @@ (<<1, 2, 3>> :> File("png", 3, 1))
    @@ (<<2, 1, 3>> :> File("jpg", 2, 2)) @@ (<<2, 3>> :> File("txt", 1, 1))

FirstLinks ==
  {<< >>} \cup
  {<<1, 1, 5>> :> Link(target, "jpg") :
     target \in {<<1>>, <<2>>, <<1, 2>>, <<1, 2, 3>>, <<2, 1, 3>>, <<9>>}}
SecondLinks == {<< >>, <<2, 7>> :> Link(<<1>>, ""), <<2, 7>> :> Link(<<1, 1>>, "")}
Trees == {BaseTree @@ a @@ b : a \in FirstLinks, b \in SecondLinks}

Sources ==
  {<<Abs(<<1>>)>>, <<Abs(<<1, 1>>), Abs(<<1>>)>>, <<Abs(<<1>>), Abs(<<2>>), Abs(<<1>>)>>,
   <<Abs(<<2, 7, 1>>), Abs(<<2, 7>>)>>, <<Rel(<<3>>), Abs(<<1, 1, 5>>)>>, <<Abs(<<9>>)>>,
   <<Rel(<<8>>), Rel(<<8, 2>>)>>}
Plans ==
  {[order |-> "mtime", reverse |-> FALSE, album_max |-> 2],
   [order |-> "size", reverse |-> TRUE, album_max |-> 1],
   [order |-> "name", reverse |-> TRUE, album_max |-> 3],
   [order |-> "name", reverse |-> FALSE, album_max |-> 2]}
Filters == {[include |-> {}, exclude |-> {}], [include |-> {"jpg", "txt"}, exclude |-> {}],
            [include |-> {"jpg", "png"}, exclude |-> {"png"}]}

\* A layer as text, and as flags that are given once.
AsText(layer) ==
  [k \in DOMAIN layer |->
     CASE k \in {"recursive", "follow", "reverse"} -> IF layer[k] THEN "true" ELSE "false"
       [] k = "album_max" -> ToString(layer[k])
       [] OTHER -> layer[k]]
Flags(layer) == LET text == AsText(layer) IN [k \in DOMAIN layer |-> <<text[k]>>]

Asked(src, recursive, follow, filter, plan) ==
  Flags([src |-> src, recursive |-> recursive, follow |-> follow] @@ filter @@ plan)

TreeScenes ==
  {[Scene EXCEPT !.tree = t, !.asked = Asked(s, r, f, x, p)] :
     t \in Trees, s \in Sources, r \in BOOLEAN, f \in BOOLEAN, x \in Filters, p \in Plans}
RandomScenes ==
  {[Scene EXCEPT !.tree = BaseTree,
                 !.asked = Asked(<<Abs(<<1>>)>>, TRUE, FALSE, x,
                                 [order |-> "random", reverse |-> TRUE, album_max |-> 1])] :
     x \in Filters}

\* The tool server allows /1, or what /2/7 leads to.  The sources are below it,
\* elsewhere, behind a link, or blank and with blanks around.
CallSources ==
  {<<Abs(<<1>>)>>, <<Abs(<<1, 1>>), Rel(<<2>>)>>, <<Abs(<<2, 7, 1>>)>>, <<Abs(<<1, 1, 5>>)>>,
   <<Abs(<<1, 1, 5, 1>>)>>, <<Abs(<<1, 2>>), Abs(<<2, 1>>)>>, <<Rel(<<8>>), Rel(<<8, 2>>)>>}
CallScenes ==
  {[Scene EXCEPT !.tree = t, !.roots = {r}, !.door = "mcp",
                 !.asked = [src |-> s, recursive |-> TRUE, follow |-> f, order |-> "name"]] :
     t \in Trees, r \in {<<1>>, <<2, 7>>}, s \in CallSources, f \in BOOLEAN}

-----------------------------------------------------------------------------
(* /1 and /2 hold one photo each; the files of the configuration are there,*)
(* and the tool server allows /1.                                          *)
SmallTree ==
  (<< >> :> Dir) @@ (<<1>> :> Dir) @@ (<<2>> :> Dir)
    @@ (<<1, 3>> :> File("jpg", 1, 1)) @@ (<<2, 4>> :> File("jpg", 1, 1))

Anywhere ==
  {<< >>,
   [src |-> <<Rel(<<1>>)>>, order |-> "size"],
   [src |-> <<Abs(<<2>>)>>, album_max |-> 3],
   [order |-> "size", album_max |-> 0],
   ("paths.state_path" :> Rel(<<4>>)) @@ ("follow" :> TRUE)}
InFile == Anywhere \cup
  {("paths.state" :> Rel(<<1>>)) @@ ("upload.state" :> Abs(<<2>>)),
   ("paths.state_path" :> Rel(<<2>>)) @@ ("paths.state" :> Abs(<<3>>)),
   ("paths.state_path" :> Rel(<<4>>)) @@ ("upload.state" :> Rel(<<5>>))}
InEnv == {AsText(layer) : layer \in Anywhere} \cup
  {[recursive |-> "off", order |-> ""], [follow |-> "t"], [album_max |-> "x"], [src |-> << >>],
   [src |-> <<Rel(<<8, 2>>), Rel(<<8>>)>>]} \cup
  {("paths.state" :> Rel(<<1>>)) @@ ("paths.state_path" :> Rel(<<1>>)),
   ("paths.state" :> Rel(<<1>>)) @@ ("paths.state_path" :> Rel(<<2>>))}
InFlags == {Flags(layer) : layer \in Anywhere} \cup
  {Flags(("paths.state" :> Abs(<<1>>)) @@ ("paths.state_path" :> Rel(<<2>>))),
   [src |-> <<<<Abs(<<1>>)>>, <<Abs(<<2>>)>>>>, order |-> <<"size", "name">>],
   [src |-> <<<<Abs(<<1>>)>>>>, recursive |-> <<"on">>], [follow |-> <<"false", "T">>]}
InCall == {[src |-> << >>, include |-> {}, order |-> ""],
           [src |-> <<Abs(<<1>>)>>, include |-> {"jpg"}, order |-> ""],
           [src |-> <<Abs(<<2>>)>>, include |-> {}, order |-> "name"]}

Named == [Scene EXCEPT !.tree = SmallTree, !.cwd = << >>, !.roots = {<<1>>}]
LayerScenes ==
  {[Named EXCEPT !.files.global = [dir |-> << >>, says |-> a],
                 !.files.project = [dir |-> <<2>>, says |-> b], !.env = e, !.asked = q] :
     a \in InFile, b \in InFile, e \in InEnv, q \in InFlags}
  \cup
  {[Named EXCEPT !.files = [file |-> [dir |-> << >>, says |-> a]], !.env = e, !.asked = q,
                 !.door = d] :
     a \in InFile, e \in InEnv, q \in InFlags, d \in {"run", "dry_run"}}
  \cup
  {[Named EXCEPT !.files.project = [dir |-> << >>, says |-> b], !.env = e, !.asked = q,
                 !.door = "mcp"] :
     b \in InFile, e \in InEnv, q \in InCall}
  \cup
  {[Named EXCEPT !.unreadable = {"file"}, !.asked = Flags([src |-> <<Abs(<<1>>)>>])]}

-----------------------------------------------------------------------------
(* Two albums, of two images and of one image and a video.                 *)
CompressScene ==
  [Scene EXCEPT
     !.tree = (<< >> :> Dir) @@ (<<1>> :> Dir) @@ (<<1, 1>> :> Dir)
                @@ (<<1, 3>> :> File("jpg", 1, 1)) @@ (<<1, 4>> :> File("png", 1, 2))
                @@ (<<1, 1, 3>> :> File("jpg", 2, 1)) @@ (<<1, 1, 4>> :> File("mp4", 3, 2)),
     !.asked = Flags([src |-> <<Abs(<<1>>)>>, image_mode |-> "compress"])]

-----------------------------------------------------------------------------
(* Photos in /1, /1/2, /1/2/2, /1/0 and /1/0/2, where 0 begins with two    *)
(* dots: those of /1/2 and /1/0/2 come under one parent.                   *)
DottedTree ==
  (<< >> :> Dir) @@ (<<1>> :> Dir) @@ (<<1, 0>> :> Dir) @@ (<<1, 2>> :> Dir)
    @@ (<<1, 0, 2>> :> Dir) @@ (<<1, 2, 2>> :> Dir)
    @@ (<<1, 3>> :> File("jpg", 1, 1)) @@ (<<1, 2, 3>> :> File("jpg", 3, 1))
    @@ (<<1, 2, 2, 3>> :> File("jpg", 2, 3)) @@ (<<1, 0, 3>> :> File("jpg", 2, 2))
    @@ (<<1, 0, 2, 3>> :> File("jpg", 1, 3))
DottedScenes ==
  {[Scene EXCEPT !.tree = DottedTree,
                 !.asked = Asked(s, TRUE, f, [include |-> {}, exclude |-> {}], p)] :
     s \in {<<Abs(<<1>>)>>, <<Abs(<<1, 2>>), Abs(<<1>>)>>, <<Abs(<<1, 0>>), Abs(<<1>>)>>},
     f \in BOOLEAN, p \in Plans}

AllScenes ==
  TreeScenes \cup RandomScenes \cup CallScenes \cup LayerScenes \cup DottedScenes
    \cup {CompressScene}
==============================================================================
