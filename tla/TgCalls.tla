------------------------------- MODULE TgCalls -------------------------------
(***************************************************************************)
(* One SendAlbum (or SendSingle) of the Telegram client,                   *)
(* internal/tg/gotd_transport.go, with the three layers every call of the  *)
(* API goes through, internal/tg/middleware.go: recovery from transport    *)
(* errors around the retry of server errors around the wait for a flood    *)
(* limit.  One goroutine per file uploads it and asks the server for a     *)
(* reference; when all are back, the album is sent.                        *)
(*                                                                         *)
(* The server executes a request or does not, and its answer may be lost.  *)
(* It posts the messages of one RandomID once.                             *)
(***************************************************************************)
EXTENDS Integers, FiniteSets

CONSTANTS
  Item,        \* files
  Largest,     \* the greatest number of files SendAlbum accepts (10)
  Sender,      \* the goroutine that called SendAlbum
  MaxFlood,    \* retries of the flood-wait layer
  MaxRetry,    \* retries of the retry layer
  MaxElapsed   \* time after which the recovery layer gives up

ASSUME TgCallsAssumption ==
  /\ IsFiniteSet(Item) /\ Item # {} /\ Sender \notin Item
  /\ Largest \in Nat \ {0}
  /\ MaxFlood \in Nat /\ MaxRetry \in Nat /\ MaxElapsed \in Nat

Caller == Item \cup {Sender}

VARIABLES
  ctxErr,      \* "nil" or "canceled"
  phase,       \* of the sender: "uploading", "sending", "returned"
  outcome,     \* what SendAlbum returned: "none", "ok", "failed", "imageFailed"
  item,        \* of each file of the request: "file", "media", "filled" or "failed"
  firstError,  \* the error the group keeps: "none" or an error
  call,        \* of each caller: its API call
  posted       \* how often the server posted the album

Requested == DOMAIN item

\* SendSingle: sendAlbumOnce calls it for a file alone.
Single == Cardinality(Requested) = 1

vars == <<ctxErr, phase, outcome, item, firstError, call, posted>>

Idle == [at |-> "idle", err |-> "none", floods |-> 0, retries |-> 0, elapsed |-> 0]
Begun == [Idle EXCEPT !.at = "invoke"]

Init ==
  /\ ctxErr = "nil" /\ phase = "uploading" /\ outcome = "none"
  /\ \E request \in SUBSET Item \ {{}} : item = [i \in request |-> "file"]
  /\ firstError = "none"
  /\ call = [c \in Caller |-> Idle]
  /\ posted = 0

Cancel ==
  /\ ctxErr = "nil" /\ phase # "returned"
  /\ ctxErr' = "canceled"
  /\ UNCHANGED <<phase, outcome, item, firstError, call, posted>>

-----------------------------------------------------------------------------
(* An API call.                                                            *)

Flood == {"flood", "longFlood"}   \* longFlood: more than maxWait
Image == {"imageProcessFailed", "photoSaveFileInvalid"}
Transient == {"server", "photoSaveFileInvalid"}
Errors == Flood \cup Image \cup Transient \cup {"transport", "canceled", "other"}

\* The request is put on the wire, unless the context is done.
Invoke(c) ==
  /\ call[c].at = "invoke"
  /\ IF ctxErr = "canceled"
     THEN call' = [call EXCEPT ![c].at = "answered", ![c].err = "canceled"]
     ELSE call' = [call EXCEPT ![c].at = "wire"]
  /\ UNCHANGED <<ctxErr, phase, outcome, item, firstError, posted>>

\* Mutant: every attempt draws a RandomID of its own.
ExecuteAnew == posted' = posted + 1

\* The server executes messages.sendMedia or messages.sendMultiMedia.
Execute == posted' = 1

\* Times from elapsed on; what is past MaxElapsed is one time.
Later(elapsed) == elapsed .. MaxElapsed + 1

\* The answer of the server, or the error the connection ends with.  An error
\* of the API is the answer to a request that was not executed, or to one that
\* repeats an executed one; it does not find fault with the images then.
Answer(c) ==
  /\ call[c].at = "wire"
  /\ \E err \in Errors \cup {"nil"}, e \in Later(call[c].elapsed) :
       /\ err = "canceled" => ctxErr = "canceled"
       /\ call' = [call EXCEPT ![c].at = "answered", ![c].err = err, ![c].elapsed = e]
       /\ IF c = Sender
          THEN \/ err \in {"nil", "transport", "canceled"} /\ Execute
               \/ /\ err # "nil" /\ UNCHANGED posted
                  /\ posted > 0 => err \notin Image
          ELSE UNCHANGED posted
  /\ UNCHANGED <<ctxErr, phase, outcome, item, firstError>>

Waits(c) == call[c].err = "flood" /\ call[c].floods < MaxFlood

Retries(c) == call[c].err \in Transient /\ call[c].retries < MaxRetry /\ ctxErr = "nil"

Recovers(c) ==
  call[c].err = "transport" /\ call[c].elapsed < MaxElapsed /\ ctxErr = "nil"

\* floodWaitMiddleware: a flood limit is waited for.
FloodWait(c) ==
  /\ call[c].at = "answered" /\ Waits(c)
  /\ call' = [call EXCEPT ![c].at = "floodWait"]
  /\ UNCHANGED <<ctxErr, phase, outcome, item, firstError, posted>>

\* Its timer fires; the wait may have taken the recovery layer's time.
FloodOver(c) ==
  /\ call[c].at = "floodWait"
  /\ \E e \in Later(call[c].elapsed) :
       call' = [call EXCEPT ![c].at = "invoke", ![c].err = "none",
                            ![c].floods = @ + 1, ![c].elapsed = e]
  /\ UNCHANGED <<ctxErr, phase, outcome, item, firstError, posted>>

\* retryMiddleware: at once, with a flood-wait layer that counts from 0 again.
Retry(c) ==
  /\ call[c].at = "answered" /\ Retries(c)
  /\ call' = [call EXCEPT ![c].at = "invoke", ![c].err = "none",
                          ![c].retries = @ + 1, ![c].floods = 0]
  /\ UNCHANGED <<ctxErr, phase, outcome, item, firstError, posted>>

\* recoveryMiddleware: a transport error is waited out.
Recover(c) ==
  /\ call[c].at = "answered" /\ Recovers(c)
  /\ call' = [call EXCEPT ![c].at = "backoff"]
  /\ UNCHANGED <<ctxErr, phase, outcome, item, firstError, posted>>

\* Its timer fires, and both inner layers begin anew.
BackedOff(c) ==
  /\ call[c].at = "backoff"
  /\ \E e \in Later(call[c].elapsed + 1) :
       call' = [call EXCEPT ![c] = [Begun EXCEPT !.elapsed = e]]
  /\ UNCHANGED <<ctxErr, phase, outcome, item, firstError, posted>>

\* Both waits end at once when the context is done.
WaitCancelled(c) ==
  /\ call[c].at \in {"floodWait", "backoff"} /\ ctxErr = "canceled"
  /\ call' = [call EXCEPT ![c].at = "answered", ![c].err = "canceled"]
  /\ UNCHANGED <<ctxErr, phase, outcome, item, firstError, posted>>

\* No layer has a use for the error.
GiveUp(c) ==
  /\ call[c].at = "answered" /\ call[c].err # "nil"
  /\ ~Waits(c) /\ ~Retries(c) /\ ~Recovers(c)
  /\ call' = [call EXCEPT ![c].at = "over"]
  /\ UNCHANGED <<ctxErr, phase, outcome, item, firstError, posted>>

\* An answer without an error passes through the layers.
Success(c) == call[c].at = "answered" /\ call[c].err = "nil"
Failure(c) == call[c].at = "over"

-----------------------------------------------------------------------------
(* The goroutine of a file.                                                *)

Keep(err) == firstError' = IF firstError = "none" THEN err ELSE firstError

\* FromPath uploads the file; a single file needs no reference.
UploadFile(i) ==
  /\ item[i] = "file" /\ Cardinality(Requested) <= Largest
  /\ \/ /\ ctxErr = "nil"
        /\ item' = [item EXCEPT ![i] = IF Single THEN "filled" ELSE "media"]
        /\ call' = [call EXCEPT ![i] = IF Single THEN Idle ELSE Begun]
        /\ UNCHANGED firstError
     \/ /\ item' = [item EXCEPT ![i] = "failed"] /\ Keep("other")
        /\ UNCHANGED call
  /\ UNCHANGED <<ctxErr, phase, outcome, posted>>

\* messages.uploadMedia has succeeded: its reference is stored, if it is one.
FillResult(i) ==
  /\ item[i] = "media" /\ Success(i)
  /\ \/ item' = [item EXCEPT ![i] = "filled"] /\ UNCHANGED firstError
     \/ item' = [item EXCEPT ![i] = "failed"] /\ Keep("other")
  /\ call' = [call EXCEPT ![i] = Idle]
  /\ UNCHANGED <<ctxErr, phase, outcome, posted>>

ItemFails(i) ==
  /\ item[i] = "media" /\ Failure(i)
  /\ item' = [item EXCEPT ![i] = "failed"] /\ Keep(call[i].err)
  /\ call' = [call EXCEPT ![i] = Idle]
  /\ UNCHANGED <<ctxErr, phase, outcome, posted>>

-----------------------------------------------------------------------------
(* The sender.                                                             *)

\* mapGotdError.
MapError(err) == IF err \in Image THEN "imageFailed" ELSE "failed"

\* An album that is too large is refused, before anything is uploaded.
Refuse ==
  /\ phase = "uploading" /\ Cardinality(Requested) > Largest
  /\ phase' = "returned" /\ outcome' = "failed"
  /\ UNCHANGED <<ctxErr, item, firstError, call, posted>>

Finished(i) == item[i] \in {"filled", "failed"}

\* Mutant: the wait is for the results, not for the goroutines.
WaitedForResults == \A i \in Requested : item[i] = "filled"

\* g.Wait.
Waited == \A i \in Requested : Finished(i)

\* Mutant: the error of g.Wait is not looked at.
SendBlindly ==
  /\ phase = "uploading" /\ Waited
  /\ phase' = "sending" /\ call' = [call EXCEPT ![Sender] = Begun]
  /\ UNCHANGED <<ctxErr, outcome, item, firstError, posted>>

\* All files are up: messages.sendMultiMedia (or sendMedia).
Send ==
  /\ phase = "uploading" /\ Waited /\ firstError = "none"
  /\ phase' = "sending" /\ call' = [call EXCEPT ![Sender] = Begun]
  /\ UNCHANGED <<ctxErr, outcome, item, firstError, posted>>

\* One of them is not.
UploadFailed ==
  /\ phase = "uploading" /\ Waited /\ firstError # "none"
  /\ phase' = "returned" /\ outcome' = MapError(firstError)
  /\ UNCHANGED <<ctxErr, item, firstError, call, posted>>

Sent ==
  /\ phase = "sending" /\ Success(Sender)
  /\ phase' = "returned" /\ outcome' = "ok"
  /\ call' = [call EXCEPT ![Sender] = Idle]
  /\ UNCHANGED <<ctxErr, item, firstError, posted>>

SendFailed ==
  /\ phase = "sending" /\ Failure(Sender)
  /\ phase' = "returned" /\ outcome' = MapError(call[Sender].err)
  /\ call' = [call EXCEPT ![Sender] = Idle]
  /\ UNCHANGED <<ctxErr, item, firstError, posted>>

-----------------------------------------------------------------------------
CallStep(c) ==
  \/ Invoke(c) \/ Answer(c)
  \/ FloodWait(c) \/ FloodOver(c) \/ Retry(c) \/ Recover(c) \/ BackedOff(c)
  \/ WaitCancelled(c) \/ GiveUp(c)

ItemStep(i) == i \in Requested /\ (UploadFile(i) \/ FillResult(i) \/ ItemFails(i))

SenderStep == Refuse \/ Send \/ UploadFailed \/ Sent \/ SendFailed

Next ==
  \/ Cancel
  \/ \E c \in Caller : CallStep(c)
  \/ \E i \in Item : ItemStep(i)
  \/ SenderStep

Spec == Init /\ [][Next]_vars

\* Goroutines are scheduled, timers fire, and a request on the wire is answered
\* or its connection ends.
FairSpec ==
  /\ Spec
  /\ \A c \in Caller : WF_vars(CallStep(c))
  /\ \A i \in Item : WF_vars(ItemStep(i))
  /\ WF_vars(SenderStep)

-----------------------------------------------------------------------------
(* Properties.                                                             *)

CallType ==
  [at : {"idle", "invoke", "wire", "answered", "floodWait", "backoff", "over"},
   err : Errors \cup {"none", "nil"},
   floods : 0 .. MaxFlood, retries : 0 .. MaxRetry, elapsed : 0 .. MaxElapsed + 1]

TypeOK ==
  /\ ctxErr \in {"nil", "canceled"} /\ phase \in {"uploading", "sending", "returned"}
  /\ outcome \in {"none", "ok", "failed", "imageFailed"}
  /\ Requested \subseteq Item /\ item \in [Requested -> {"file", "media", "filled", "failed"}]
  /\ firstError \in Errors \cup {"none"}
  /\ call \in [Caller -> CallType]
  /\ posted \in Nat

\* SendAlbum sends an album in which no file is missing, and when it returns,
\* with or without an error, none of its goroutines is left.
CompleteAndQuiet ==
  /\ posted > 0 => \A i \in Requested : item[i] = "filled"
  /\ phase = "returned" =>
       \A i \in Requested : call[i].at = "idle" /\ (Finished(i) \/ Cardinality(Requested) > Largest)

\* SendAlbum is the request the upload pipeline relies on, whatever the layers
\* send again: it posts once, and falls back to documents only if it did not.
Promised == INSTANCE SendOnce WITH
  request <- IF phase = "returned" THEN outcome
             ELSE IF posted = 1 THEN "posted" ELSE IF posted = 0 THEN "inflight" ELSE "posted again"

ImplementsSendOnce == Promised!Spec

\* SendAlbum returns.
CallReturns == <>(phase = "returned")
=============================================================================
