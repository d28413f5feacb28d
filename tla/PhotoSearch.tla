----------------------------- MODULE PhotoSearch -----------------------------
(***************************************************************************)
(* Image mode "compress": the photos of an album that exceed the limits of *)
(* Telegram are replaced by temporary JPEG copies of the highest quality   *)
(* that fits (internal/media/image.go, compressOversizedImages in          *)
(* internal/upload/run.go).  The quality is found by binary search, with   *)
(* image/jpeg (1 is the worst) or with ffmpeg (1 is the best).             *)
(*                                                                         *)
(* Which qualities fit is arbitrary: nothing is assumed of the encoder.    *)
(* The process is one goroutine; encoding, comparing and removing what is  *)
(* too big are one step.                                                   *)
(***************************************************************************)
EXTENDS Integers, FiniteSets, Sequences

CONSTANTS
  Highest,  \* the best quality of image/jpeg (100)
  Coarsest  \* the worst quality of ffmpeg (31)

ASSUME PhotoAssumption ==
  /\ Highest \in Nat /\ Highest > 1
  /\ Coarsest \in Nat /\ Coarsest > 1

Tool == {"stdlib", "ffmpeg"}
Mode == {"none", "sumWH", "longEdge"}

\* The qualities of a tool, its best one, and the next better one.
Qualities(t) == 1 .. (IF t = "stdlib" THEN Highest ELSE Coarsest)
BestOf(t) == IF t = "stdlib" THEN Highest ELSE 1
Better(t, q) == IF t = "stdlib" THEN q + 1 ELSE q - 1

VARIABLES
  step,      \* "next", "quick", "search", "found", "send", "done"
  photos,    \* how many images the album has
  photo,     \* images considered so far
  ffmpeg,    \* whether LookPath found ffmpeg
  modes,     \* the scale modes still to try, the current one first
  fitting,   \* the qualities whose output fits, in the current mode
  low, high,
  result,    \* quality of the best output so far, 0 if there is none
  temps,     \* temporary files, named by photo, mode and quality
  cleanups   \* those that the deferred cleanup removes

search == <<low, high, result>>
photoVars == <<step, photos, photo, ffmpeg, modes, fitting, low, high, result, temps, cleanups>>

Current == Head(modes)
ToolOf(mode, f) == IF mode = "none" \/ f = "missing" THEN "stdlib" ELSE "ffmpeg"
tool == ToolOf(Current, ffmpeg)
Temp(q) == <<photo, Current, q>>

PhotoInit ==
  /\ step = "done" /\ photos = 0 /\ photo = 0 /\ ffmpeg = "missing"
  /\ modes = << >> /\ fitting = {}
  /\ low = 0 /\ high = 0 /\ result = 0
  /\ temps = {} /\ cleanups = {}

-----------------------------------------------------------------------------
(* An album with n images is to be sent.                                   *)
Begin(n) ==
  /\ step = "done" /\ n \in Nat
  /\ step' = "next" /\ photos' = n /\ photo' = 0 /\ cleanups' = {}
  /\ UNCHANGED <<ffmpeg, modes, fitting, search, temps>>

-----------------------------------------------------------------------------
(* CompressPhoto.                                                          *)

\* The image is sent as it is: it cannot be opened or decoded, is neither
\* JPEG nor PNG, is within the limits, or is longer than 20 times its width.
SendAsIs ==
  /\ step = "next" /\ photo < photos
  /\ photo' = photo + 1
  /\ UNCHANGED <<step, photos, ffmpeg, modes, fitting, search, temps, cleanups>>

\* The image is too big or too large: only in bytes (then its dimensions are
\* kept at first), or in its dimensions.
Compress ==
  /\ step = "next" /\ photo < photos
  /\ photo' = photo + 1
  /\ step' = "quick"
  /\ \E f \in {"missing", "found"},
        ms \in {<<"none", "sumWH", "longEdge">>, <<"sumWH", "longEdge">>} :
       /\ ffmpeg' = f /\ modes' = ms
       /\ fitting' \in SUBSET Qualities(ToolOf(Head(ms), f))
  /\ UNCHANGED <<photos, search, temps, cleanups>>

\* The mode fails; what it kept is removed.  The next one is tried, and when
\* there is none the image is sent as it is, with a warning.
ModeFails ==
  /\ temps' = temps \ {Temp(result)}
  /\ low' = 0 /\ high' = 0 /\ result' = 0
  /\ IF Len(modes) > 1
       THEN /\ step' = "quick" /\ modes' = Tail(modes)
            /\ fitting' \in SUBSET Qualities(ToolOf(modes[2], ffmpeg))
       ELSE step' = "next" /\ modes' = << >> /\ fitting' = {}
  /\ UNCHANGED <<photos, photo, ffmpeg, cleanups>>

\* The best quality is tried first; if it fits there is nothing to search.
QuickCheck ==
  /\ step = "quick"
  /\ IF BestOf(tool) \in fitting
       THEN /\ step' = "found" /\ result' = BestOf(tool)
            /\ temps' = temps \cup {Temp(BestOf(tool))}
            /\ UNCHANGED <<low, high>>
       ELSE /\ step' = "search" /\ result' = 0
            /\ low' = (IF tool = "stdlib" THEN 1 ELSE 2)
            /\ high' = (IF tool = "stdlib" THEN Highest - 1 ELSE Coarsest)
            /\ UNCHANGED temps
  /\ UNCHANGED <<photos, photo, ffmpeg, modes, fitting, cleanups>>

\* The source cannot be opened or decoded, or the first encoding fails.
QuickFails == step = "quick" /\ ModeFails

\* Mutant: the output that is replaced is not removed.
KeepLeaky(q) ==
  /\ temps' = temps \cup {Temp(q)}
  /\ result' = q

\* An output that fits replaces the one kept so far.
Keep(q) ==
  /\ temps' = (temps \ {Temp(result)}) \cup {Temp(q)}
  /\ result' = q

\* searchBestStdlibQ: encode at the middle, rounded up.
ProbeStdlib ==
  LET mid == (low + high + 1) \div 2 IN
  /\ step = "search" /\ tool = "stdlib" /\ low <= high
  /\ IF mid \in fitting
       THEN Keep(mid) /\ low' = mid + 1 /\ UNCHANGED high
       ELSE high' = mid - 1 /\ UNCHANGED <<low, result, temps>>
  /\ UNCHANGED <<step, photos, photo, ffmpeg, modes, fitting, cleanups>>

\* Mutant: the search goes on as if a higher number were a better quality.
ProbeFFmpegUpward ==
  LET mid == (low + high) \div 2 IN
  /\ step = "search" /\ tool = "ffmpeg" /\ low <= high
  /\ IF mid \in fitting
       THEN Keep(mid) /\ low' = mid + 1 /\ UNCHANGED high
       ELSE high' = mid - 1 /\ UNCHANGED <<low, result, temps>>
  /\ UNCHANGED <<step, photos, photo, ffmpeg, modes, fitting, cleanups>>

\* searchBestFFmpegQ: the same the other way round.
ProbeFFmpeg ==
  LET mid == (low + high) \div 2 IN
  /\ step = "search" /\ tool = "ffmpeg" /\ low <= high
  /\ IF mid \in fitting
       THEN Keep(mid) /\ high' = mid - 1 /\ UNCHANGED low
       ELSE low' = mid + 1 /\ UNCHANGED <<high, result, temps>>
  /\ UNCHANGED <<step, photos, photo, ffmpeg, modes, fitting, cleanups>>

\* An encoding fails: the disk is full, ffmpeg exits with an error or writes
\* nothing.  It removes its own output.
ProbeFails == step = "search" /\ low <= high /\ ModeFails

SearchEnds ==
  /\ step = "search" /\ low > high
  /\ IF result # 0
       THEN step' = "found" /\ UNCHANGED <<photos, photo, ffmpeg, modes, fitting, search, temps, cleanups>>
       ELSE ModeFails

-----------------------------------------------------------------------------
(* compressOversizedImages and sendWithRetry.                              *)

\* The copy takes the place of the image and is registered for removal; if
\* it cannot be read it is removed at once.
UseCopy ==
  /\ step = "found"
  /\ step' = "next" /\ modes' = << >> /\ fitting' = {}
  /\ low' = 0 /\ high' = 0 /\ result' = 0
  /\ \/ cleanups' = cleanups \cup {Temp(result)} /\ UNCHANGED temps
     \/ temps' = temps \ {Temp(result)} /\ UNCHANGED cleanups
  /\ UNCHANGED <<photos, photo, ffmpeg>>

\* The request begins when every image was considered; when it is over,
\* whatever its outcome, the copies are removed.
Send ==
  /\ step = "next" /\ photo = photos
  /\ step' = "send"
  /\ UNCHANGED <<photos, photo, ffmpeg, modes, fitting, search, temps, cleanups>>

CleanUp ==
  /\ step = "send"
  /\ step' = "done" /\ temps' = temps \ cleanups
  /\ UNCHANGED <<photos, photo, ffmpeg, modes, fitting, search, cleanups>>

PhotoStep ==
  \/ SendAsIs \/ Compress \/ QuickCheck \/ QuickFails
  \/ ProbeStdlib \/ ProbeFFmpeg \/ ProbeFails \/ SearchEnds
  \/ UseCopy \/ Send \/ CleanUp

PhotoNext == PhotoStep \/ \E n \in Nat : Begin(n)

PhotoSpec == PhotoInit /\ [][PhotoNext]_photoVars

-----------------------------------------------------------------------------
(* Properties.                                                             *)

PhotoTypeOK ==
  /\ step \in {"next", "quick", "search", "found", "send", "done"}
  /\ photos \in Nat /\ photo \in Nat
  /\ ffmpeg \in {"missing", "found"}
  /\ modes \in Seq(Mode)
  /\ step \in {"quick", "search", "found"} => modes # << >> /\ fitting \subseteq Qualities(tool)
  /\ low \in Nat /\ high \in Nat /\ result \in Nat
  /\ temps \subseteq Nat \X Mode \X Nat
  /\ cleanups \subseteq Nat \X Mode \X Nat

\* Every temporary file is either registered for removal or the output the
\* search keeps, so that none is left when the request is over: the files
\* that runFFmpeg and encodeJPEG create are removed on every path.
NoTempLeft ==
  /\ step \in {"search", "found"} => temps \subseteq cleanups \cup {Temp(result)}
  /\ step \in {"next", "quick", "send"} => temps \subseteq cleanups
  /\ step = "done" => temps = {}

\* The copy that is used fits, and the next better quality was tried and did
\* not, whatever sizes the encoder produces.
NoBetterNeighbour ==
  step = "found" =>
    /\ result \in fitting
    /\ result # BestOf(tool) => Better(tool, result) \notin fitting

\* If sizes grow with the quality, the copy is the best one there is: the
\* search for "the highest quality whose output fits" (image.go:165, 254).
Monotone == \A q \in fitting, r \in Qualities(tool) :
              (IF tool = "stdlib" THEN r < q ELSE r > q) => r \in fitting
BestCopy ==
  step = "found" /\ Monotone =>
    \A q \in fitting : IF tool = "stdlib" THEN q <= result ELSE q >= result

\* Every encoding leaves less to search.
SearchNarrows ==
  [][step = "search" /\ step' = "search" => high' - low' < high - low]_photoVars
==============================================================================
