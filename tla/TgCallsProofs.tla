---------------------------- MODULE TgCallsProofs ----------------------------
(***************************************************************************)
(* Proofs about TgCalls, for any files, any limit of the album and any     *)
(* number of retries: SendAlbum implements SendOnce, and it neither sends  *)
(* an album in parts nor leaves a goroutine behind.                        *)
(***************************************************************************)
EXTENDS TgCalls, FiniteSetTheorems, TLAPS

-----------------------------------------------------------------------------
(* Types.                                                                  *)

\* A step of an API call is none of its caller, and touches no other call.
LEMMA CallFrame ==
  ASSUME NEW c \in Caller, CallStep(c), call \in [Caller -> CallType]
  PROVE  /\ UNCHANGED <<ctxErr, phase, outcome, item, firstError>>
         /\ call[c].at # "idle"
         /\ \A d \in Caller : d # c => call'[d] = call[d]
         /\ c # Sender => UNCHANGED posted
<1>1. CASE Answer(c)
  BY <1>1 DEF Answer
<1>2. CASE Invoke(c)
  BY <1>2 DEF Invoke
<1>3. CASE FloodWait(c) \/ Retry(c) \/ Recover(c) \/ GiveUp(c) \/ WaitCancelled(c)
  BY <1>3 DEF FloodWait, Retry, Recover, GiveUp, WaitCancelled
<1>4. CASE FloodOver(c) \/ BackedOff(c)
  BY <1>4 DEF FloodOver, BackedOff
<1> QED
  BY <1>1, <1>2, <1>3, <1>4 DEF CallStep

\* A call that moves on stays typed if what it moves to is typed.
LEMMA CallReplaced ==
  ASSUME NEW c \in Caller, call \in [Caller -> CallType],
         NEW next \in CallType, call' = [call EXCEPT ![c] = next]
  PROVE  call' \in [Caller -> CallType] /\ call'[c] = next
OBVIOUS

\* What a call begins and ends with.
LEMMA BegunTyped ==
  /\ Idle \in CallType /\ Idle.at = "idle"
  /\ Begun \in CallType /\ Begun.at = "invoke"
<1>1. 0 \in 0 .. MaxFlood /\ 0 \in 0 .. MaxRetry /\ 0 \in 0 .. MaxElapsed + 1
  BY TgCallsAssumption
<1>2. Idle \in CallType /\ Idle.at = "idle"
  BY <1>1 DEF CallType, Idle
<1> QED
  BY <1>2 DEF CallType, Begun

\* The times a call may have reached.
LEMMA LaterTime ==
  ASSUME NEW elapsed \in Nat, NEW e \in Later(elapsed)
  PROVE  e \in 0 .. MaxElapsed + 1
BY TgCallsAssumption DEF Later

\* A step of an API call keeps its counters within their limits.
LEMMA CallTyped ==
  ASSUME NEW c \in Caller, CallStep(c), call \in [Caller -> CallType]
  PROVE  call' \in [Caller -> CallType]
<1>0. call[c] \in CallType
  OBVIOUS
<1> DEFINE k == call[c]
<1>1. CASE Invoke(c)
  <2>1. [k EXCEPT !.at = "answered", !.err = "canceled"] \in CallType
    BY <1>0 DEF CallType, Errors
  <2>2. [k EXCEPT !.at = "wire"] \in CallType
    BY <1>0 DEF CallType
  <2> QED
    BY <1>1, <2>1, <2>2 DEF Invoke
<1>2. CASE Answer(c)
  <2>1. PICK err \in Errors \cup {"nil"}, e \in Later(k.elapsed) :
          call' = [call EXCEPT ![c].at = "answered", ![c].err = err, ![c].elapsed = e]
    BY <1>2 DEF Answer
  <2>2. e \in 0 .. MaxElapsed + 1
    BY <1>0, <2>1, LaterTime DEF CallType
  <2>3. [k EXCEPT !.at = "answered", !.err = err, !.elapsed = e] \in CallType
    BY <1>0, <2>2 DEF CallType
  <2> QED
    BY <2>1, <2>3
<1>3. CASE FloodWait(c)
  <2>1. [k EXCEPT !.at = "floodWait"] \in CallType
    BY <1>0 DEF CallType
  <2> QED
    BY <1>3, <2>1 DEF FloodWait
<1>4. CASE FloodOver(c)
  <2>1. PICK e \in Later(k.elapsed) :
          call' = [call EXCEPT ![c].at = "invoke", ![c].err = "none", ![c].floods = @ + 1,
                               ![c].elapsed = e]
    BY <1>4 DEF FloodOver
  <2>2. e \in 0 .. MaxElapsed + 1
    BY <1>0, <2>1, LaterTime DEF CallType
  <2>3. k.floods + 1 \in 0 .. MaxFlood
    BY <1>0, <1>4, TgCallsAssumption DEF FloodOver, Waits, CallType
  <2>4. [k EXCEPT !.at = "invoke", !.err = "none", !.floods = @ + 1, !.elapsed = e] \in CallType
    BY <1>0, <2>2, <2>3 DEF CallType
  <2> QED
    BY <2>1, <2>4
<1>5. CASE Retry(c)
  <2>1. k.retries + 1 \in 0 .. MaxRetry
    BY <1>0, <1>5, TgCallsAssumption DEF Retry, Retries, CallType
  <2>2. 0 \in 0 .. MaxFlood
    BY TgCallsAssumption
  <2>3. [k EXCEPT !.at = "invoke", !.err = "none", !.retries = @ + 1, !.floods = 0] \in CallType
    BY <1>0, <2>1, <2>2 DEF CallType
  <2> QED
    BY <1>5, <2>3 DEF Retry
<1>6. CASE Recover(c)
  <2>1. [k EXCEPT !.at = "backoff"] \in CallType
    BY <1>0 DEF CallType
  <2> QED
    BY <1>6, <2>1 DEF Recover
<1>7. CASE BackedOff(c)
  <2>1. PICK e \in Later(k.elapsed + 1) : call' = [call EXCEPT ![c] = [Begun EXCEPT !.elapsed = e]]
    BY <1>7 DEF BackedOff
  <2>2. e \in 0 .. MaxElapsed + 1
    BY <1>0, <2>1, LaterTime, TgCallsAssumption DEF CallType
  <2>3. [Begun EXCEPT !.elapsed = e] \in CallType
    BY <2>2, BegunTyped DEF CallType
  <2> QED
    BY <2>1, <2>3
<1>8. CASE WaitCancelled(c)
  <2>1. [k EXCEPT !.at = "answered", !.err = "canceled"] \in CallType
    BY <1>0 DEF CallType, Errors
  <2> QED
    BY <1>8, <2>1 DEF WaitCancelled
<1>9. CASE GiveUp(c)
  <2>1. [k EXCEPT !.at = "over"] \in CallType
    BY <1>0 DEF CallType
  <2> QED
    BY <1>9, <2>1 DEF GiveUp
<1> QED
  BY <1>1, <1>2, <1>3, <1>4, <1>5, <1>6, <1>7, <1>8, <1>9 DEF CallStep

-----------------------------------------------------------------------------
(* The inductive invariant.                                                *)

\* Only a goroutine that waits for an answer has a call.
Quiet ==
  /\ \A i \in Item : (i \in Requested => item[i] # "media") => call[i].at = "idle"
  /\ phase # "sending" => call[Sender].at = "idle"

\* The request goes out after its files, which are all there.
Ordered ==
  /\ phase = "uploading" => posted = 0
  /\ phase = "sending" \/ posted > 0 => \A i \in Requested : item[i] = "filled"
  /\ Cardinality(Requested) > Largest => \A i \in Requested : item[i] = "file"
  /\ phase = "returned" => Waited \/ Cardinality(Requested) > Largest
  /\ firstError = "none" => \A i \in Requested : item[i] # "failed"
  /\ phase # "returned" => outcome = "none"

\* An error is there to be looked at when a layer looks at it, and what the
\* answer of the server tells of the album is so.
Known(k) == (k.at = "answered" => k.err # "none") /\ (k.at = "over" => k.err \in Errors)

Truthful ==
  /\ posted \in {0, 1}
  /\ call[Sender].at = "answered" /\ call[Sender].err = "nil" => posted = 1
  /\ call[Sender].at \in {"answered", "over"} /\ call[Sender].err \in Image => posted = 0

Answered == (\A c \in Caller : Known(call[c])) /\ Truthful

IInv == TypeOK /\ Quiet /\ Ordered /\ Answered

LEMMA InitIInv == Init => IInv
<1> SUFFICES ASSUME Init PROVE IInv
  OBVIOUS
<1> USE TgCallsAssumption
<1>1. PICK request \in SUBSET Item \ {{}} : item = [i \in request |-> "file"]
  BY DEF Init
<1>2. Requested = request /\ \A i \in Requested : item[i] = "file"
  BY <1>1 DEF Requested
<1>3. \A c \in Caller : call[c] = Idle
  BY DEF Init
<1>4. TypeOK
  BY <1>1, <1>2, BegunTyped DEF Init, TypeOK
<1>5. Quiet
  BY <1>3, BegunTyped DEF Quiet, Caller
<1>6. Ordered
  BY <1>2 DEF Init, Ordered
<1>7. Answered
  BY <1>3, BegunTyped DEF Init, Answered, Known, Truthful, Caller
<1> QED
  BY <1>4, <1>5, <1>6, <1>7 DEF IInv

\* A step of an API call: the parts about its caller stay, and what the call
\* ends with is known.
LEMMA CallStepKnown ==
  ASSUME IInv, NEW c \in Caller, CallStep(c)
  PROVE  Known(call'[c])
<1>0. call[c] \in CallType /\ Known(call[c])
  BY DEF IInv, TypeOK, Answered
<1>1. CASE Invoke(c)
  BY <1>0, <1>1 DEF Invoke, Known, IInv, TypeOK, CallType
<1>2. CASE Answer(c)
  <2>1. PICK err \in Errors \cup {"nil"}, e \in Later(call[c].elapsed) :
          call' = [call EXCEPT ![c].at = "answered", ![c].err = err, ![c].elapsed = e]
    BY <1>2 DEF Answer
  <2>2. err # "none"
    BY DEF Errors, Flood, Image, Transient
  <2>3. call'[c].at = "answered" /\ call'[c].err = err
    BY <1>0, <2>1 DEF IInv, TypeOK, CallType
  <2> QED
    BY <2>2, <2>3 DEF Known
<1>3. CASE FloodWait(c) \/ FloodOver(c) \/ Retry(c) \/ Recover(c)
  <2>1. call'[c].at \in {"floodWait", "invoke", "backoff"}
    BY <1>0, <1>3 DEF FloodWait, FloodOver, Retry, Recover, IInv, TypeOK, CallType
  <2> QED
    BY <2>1 DEF Known
<1>4. CASE BackedOff(c)
  <2>1. PICK e \in Later(call[c].elapsed + 1) :
          call' = [call EXCEPT ![c] = [Begun EXCEPT !.elapsed = e]]
    BY <1>4 DEF BackedOff
  <2>2. call'[c].at = "invoke"
    BY <2>1, BegunTyped DEF IInv, TypeOK, CallType
  <2> QED
    BY <2>2 DEF Known
<1>5. CASE WaitCancelled(c)
  <2>1. call'[c].at = "answered" /\ call'[c].err = "canceled"
    BY <1>0, <1>5 DEF WaitCancelled, IInv, TypeOK, CallType
  <2> QED
    BY <2>1 DEF Known
<1>6. CASE GiveUp(c)
  <2>1. call[c].err \in Errors
    BY <1>0, <1>6 DEF GiveUp, Known, CallType
  <2>2. call'[c].at = "over" /\ call'[c].err = call[c].err
    BY <1>0, <1>6 DEF GiveUp, IInv, TypeOK, CallType
  <2> QED
    BY <2>1, <2>2 DEF Known
<1> QED
  BY <1>1, <1>2, <1>3, <1>4, <1>5, <1>6 DEF CallStep

\* The answer to the sender's request tells whether the album is posted.
LEMMA SenderStepTruthful ==
  ASSUME IInv, CallStep(Sender)
  PROVE  Truthful' /\ posted =< posted'
<1>0. /\ call \in [Caller -> CallType] /\ Sender \in Caller
      /\ call[Sender] \in CallType /\ Truthful
  BY DEF IInv, TypeOK, Answered, Caller
<1>1. CASE Answer(Sender)
  <2>1. PICK err \in Errors \cup {"nil"}, e \in Later(call[Sender].elapsed) :
          /\ call' = [call EXCEPT ![Sender].at = "answered", ![Sender].err = err,
                                  ![Sender].elapsed = e]
          /\ \/ err \in {"nil", "transport", "canceled"} /\ posted' = 1
             \/ err # "nil" /\ posted' = posted /\ (posted > 0 => err \notin Image)
    BY <1>1 DEF Answer, Execute
  <2>2. call'[Sender].at = "answered" /\ call'[Sender].err = err
    BY <1>0, <2>1 DEF CallType
  <2>3. CASE err \in {"nil", "transport", "canceled"} /\ posted' = 1
    <3>1. err \notin Image
      BY <2>3 DEF Image
    <3> QED
      BY <1>0, <2>2, <2>3, <3>1 DEF Truthful
  <2>4. CASE err # "nil" /\ posted' = posted /\ (posted > 0 => err \notin Image)
    BY <1>0, <2>2, <2>4 DEF Truthful
  <2> QED
    BY <2>1, <2>3, <2>4
<1>2. CASE ~Answer(Sender)
  <2>1. posted' = posted
    BY <1>2 DEF CallStep, Invoke, FloodWait, FloodOver, Retry, Recover, BackedOff,
                WaitCancelled, GiveUp
  <2>2. \/ call'[Sender].at \notin {"answered", "over"}
        \/ call'[Sender].at = "answered" /\ call'[Sender].err = "canceled"
        \/ /\ call[Sender].at = "answered" /\ call'[Sender].at = "over"
           /\ call'[Sender].err = call[Sender].err
    <3>1. CASE Invoke(Sender) \/ WaitCancelled(Sender)
      BY <1>0, <3>1 DEF Invoke, WaitCancelled, CallType
    <3>2. CASE FloodWait(Sender) \/ FloodOver(Sender) \/ Retry(Sender) \/ Recover(Sender)
      BY <1>0, <3>2 DEF FloodWait, FloodOver, Retry, Recover, CallType
    <3>3. CASE BackedOff(Sender)
      <4>1. PICK e \in Later(call[Sender].elapsed + 1) :
              call' = [call EXCEPT ![Sender] = [Begun EXCEPT !.elapsed = e]]
        BY <3>3 DEF BackedOff
      <4> QED
        BY <1>0, <4>1, BegunTyped DEF CallType
    <3>4. CASE GiveUp(Sender)
      BY <1>0, <3>4 DEF GiveUp, CallType
    <3> QED
      BY <1>2, <3>1, <3>2, <3>3, <3>4 DEF CallStep
  <2>3. "canceled" \notin Image
    BY DEF Image
  <2> QED
    BY <1>0, <2>1, <2>2, <2>3 DEF Truthful
<1> QED
  BY <1>1, <1>2

\* The three kinds of steps keep the invariant.
LEMMA CallStepKeeps ==
  ASSUME IInv, NEW c \in Caller, CallStep(c)
  PROVE  IInv'
<1>1. /\ call \in [Caller -> CallType] /\ Requested \subseteq Item /\ Sender \notin Item
      /\ posted \in {0, 1}
  BY TgCallsAssumption DEF IInv, TypeOK, Answered, Truthful
<1>2. /\ UNCHANGED <<ctxErr, phase, outcome, item, firstError>>
      /\ call[c].at # "idle"
      /\ \A d \in Caller : d # c => call'[d] = call[d]
      /\ c # Sender => UNCHANGED posted
  BY <1>1, CallFrame
<1>3. UNCHANGED Requested
  BY <1>2 DEF Requested
<1>4. Truthful' /\ posted =< posted'
  <2>1. CASE c = Sender
    BY <2>1, SenderStepTruthful
  <2>2. CASE c # Sender
    BY <1>1, <1>2, <2>2 DEF IInv, Answered, Truthful, Caller
  <2> QED
    BY <2>1, <2>2
<1>5. TypeOK'
  BY <1>1, <1>2, <1>3, <1>4, CallTyped DEF IInv, TypeOK, Truthful
<1>6. Quiet'
  BY <1>1, <1>2, <1>3 DEF IInv, Quiet, Caller
<1>7. Ordered'
  <2>1. c = Sender => phase = "sending"
    BY <1>2 DEF IInv, Quiet
  <2>2. posted' > 0 => phase = "sending" \/ posted > 0
    BY <1>2, <2>1
  <2>3. phase = "uploading" => posted' = posted
    BY <1>2, <2>1
  <2>4. Waited' <=> Waited
    BY <1>2, <1>3 DEF Waited, Finished
  <2> QED
    BY <1>2, <1>3, <2>2, <2>3, <2>4 DEF IInv, Ordered
<1>8. Answered'
  <2>1. \A d \in Caller : Known(call'[d])
    BY <1>2, CallStepKnown DEF IInv, Answered
  <2> QED
    BY <1>4, <2>1 DEF Answered, Known
<1> QED
  BY <1>5, <1>6, <1>7, <1>8 DEF IInv

\* A request has a size.
LEMMA Sized ==
  ASSUME Requested \subseteq Item
  PROVE  Cardinality(Requested) \in Nat /\ Largest \in Nat
BY FS_Subset, FS_CardinalityType, TgCallsAssumption

\* What a step of a file's goroutine leaves in its item and its call.
LEMMA ItemEffect ==
  ASSUME IInv, NEW i \in Item, ItemStep(i)
  PROVE  \E r \in {"media", "filled", "failed"}, k \in CallType :
           /\ item' = [item EXCEPT ![i] = r] /\ call' = [call EXCEPT ![i] = k]
           /\ Known(k) /\ (r # "media" => k.at = "idle")
           /\ IF r = "failed" THEN firstError' \in Errors ELSE UNCHANGED firstError
<1>1. /\ call \in [Caller -> CallType] /\ i \in Caller /\ i \in Requested
      /\ firstError \in Errors \cup {"none"} /\ call[i] \in CallType /\ Known(call[i])
  BY DEF IInv, TypeOK, ItemStep, Caller, Answered
<1>2. Idle \in CallType /\ Idle.at = "idle" /\ Known(Idle)
  BY BegunTyped DEF Known
<1>3. Begun \in CallType /\ Known(Begun)
  BY BegunTyped DEF Known
<1>4. "other" \in Errors
  BY DEF Errors
<1>5. CASE UploadFile(i)
  <2>1. call[i].at = "idle"
    BY <1>5 DEF UploadFile, IInv, Quiet
  <2>2. call = [call EXCEPT ![i] = call[i]]
    BY <1>1
  <2>3. CASE item' = [item EXCEPT ![i] = "failed"] /\ Keep("other") /\ UNCHANGED call
    BY <1>1, <1>4, <2>1, <2>2, <2>3 DEF Keep
  <2>4. CASE /\ item' = [item EXCEPT ![i] = IF Single THEN "filled" ELSE "media"]
             /\ call' = [call EXCEPT ![i] = IF Single THEN Idle ELSE Begun]
             /\ UNCHANGED firstError
    <3>1. CASE Single
      <4>1. /\ item' = [item EXCEPT ![i] = "filled"] /\ call' = [call EXCEPT ![i] = Idle]
            /\ UNCHANGED firstError
        BY <2>4, <3>1
      <4> QED
        BY <1>2, <4>1
    <3>2. CASE ~Single
      <4>1. /\ item' = [item EXCEPT ![i] = "media"] /\ call' = [call EXCEPT ![i] = Begun]
            /\ UNCHANGED firstError
        BY <2>4, <3>2
      <4> QED
        BY <1>3, <4>1
    <3> QED
      BY <3>1, <3>2
  <2> QED
    BY <1>5, <2>3, <2>4 DEF UploadFile
<1>6. CASE FillResult(i)
  <2>1. call' = [call EXCEPT ![i] = Idle]
    BY <1>6 DEF FillResult
  <2>2. CASE item' = [item EXCEPT ![i] = "filled"] /\ UNCHANGED firstError
    BY <1>2, <2>1, <2>2
  <2>3. CASE item' = [item EXCEPT ![i] = "failed"] /\ Keep("other")
    <3>1. firstError' \in Errors
      BY <1>1, <1>4, <2>3 DEF Keep
    <3> QED
      BY <1>2, <2>1, <2>3, <3>1
  <2> QED
    BY <1>6, <2>2, <2>3 DEF FillResult
<1>7. CASE ItemFails(i)
  <2>1. call[i].err \in Errors
    BY <1>1, <1>7 DEF ItemFails, Failure, Known
  <2>2. firstError' \in Errors
    BY <1>1, <1>7, <2>1 DEF ItemFails, Keep
  <2> QED
    BY <1>2, <1>7, <2>2 DEF ItemFails
<1> QED
  BY <1>5, <1>6, <1>7 DEF ItemStep

LEMMA ItemStepKeeps ==
  ASSUME IInv, NEW i \in Item, ItemStep(i)
  PROVE  IInv'
<1>1. /\ call \in [Caller -> CallType] /\ Requested \subseteq Item /\ Sender \notin Item
      /\ item \in [Requested -> {"file", "media", "filled", "failed"}]
      /\ i \in Requested /\ i \in Caller /\ Sender \in Caller
  BY TgCallsAssumption DEF IInv, TypeOK, ItemStep, Caller
<1>2. /\ UNCHANGED <<ctxErr, phase, outcome, posted>>
      /\ Cardinality(Requested) <= Largest
      /\ item[i] \in {"file", "media"}
  <2>1. CASE item[i] = "media"
    BY <1>1, <2>1, Sized DEF ItemStep, UploadFile, FillResult, ItemFails, IInv, Ordered
  <2>2. CASE item[i] # "media"
    BY <2>2 DEF ItemStep, UploadFile, FillResult, ItemFails
  <2> QED
    BY <2>1, <2>2
<1>3. PICK r \in {"media", "filled", "failed"}, k \in CallType :
        /\ item' = [item EXCEPT ![i] = r] /\ call' = [call EXCEPT ![i] = k]
        /\ Known(k) /\ (r # "media" => k.at = "idle")
        /\ IF r = "failed" THEN firstError' \in Errors ELSE UNCHANGED firstError
  BY ItemEffect
<1>4. /\ UNCHANGED Requested
      /\ item'[i] = r /\ \A j \in Requested : j # i => item'[j] = item[j]
      /\ item' \in [Requested -> {"file", "media", "filled", "failed"}]
  BY <1>1, <1>3 DEF Requested
<1>5. /\ call' \in [Caller -> CallType] /\ call'[i] = k
      /\ \A c \in Caller : c # i => call'[c] = call[c]
  BY <1>1, <1>3
<1>6. i # Sender
  BY <1>1
<1>7. phase = "uploading" /\ posted = 0
  <2>1. phase # "sending" /\ ~(posted > 0)
    BY <1>1, <1>2 DEF IInv, Ordered
  <2>2. ~Waited
    BY <1>1, <1>2 DEF Waited, Finished
  <2>3. ~(Cardinality(Requested) > Largest)
    BY <1>1, <1>2, Sized
  <2> QED
    BY <2>1, <2>2, <2>3 DEF IInv, Ordered, TypeOK
<1>8. TypeOK'
  BY <1>1, <1>2, <1>3, <1>4, <1>5 DEF IInv, TypeOK
<1>9. Quiet'
  BY <1>1, <1>2, <1>3, <1>4, <1>5, <1>6 DEF IInv, Quiet, Caller
<1>10. Ordered'
  <2>1. "none" \notin Errors
    BY DEF Errors, Flood, Image, Transient
  <2>2. firstError' = "none" => \A j \in Requested : item'[j] # "failed"
    BY <1>3, <1>4, <2>1 DEF IInv, Ordered
  <2>3. ~(Cardinality(Requested) > Largest)
    BY <1>1, <1>2, Sized
  <2> QED
    BY <1>2, <1>4, <1>7, <2>2, <2>3 DEF IInv, Ordered
<1>11. Answered'
  BY <1>1, <1>2, <1>3, <1>5, <1>6 DEF IInv, Answered, Truthful, Known
<1> QED
  BY <1>8, <1>9, <1>10, <1>11 DEF IInv

LEMMA SenderStepKeeps ==
  ASSUME IInv, SenderStep
  PROVE  IInv'
<1>1. /\ call \in [Caller -> CallType] /\ Requested \subseteq Item /\ Sender \notin Item
      /\ Sender \in Caller
  BY TgCallsAssumption DEF IInv, TypeOK, Caller
<1>2. UNCHANGED <<ctxErr, item, firstError, posted>> /\ UNCHANGED Requested
  BY DEF SenderStep, Refuse, Send, UploadFailed, Sent, SendFailed, Requested
<1>3. /\ phase' \in {"sending", "returned"}
      /\ IF phase' = "returned" THEN outcome' \in {"ok", "failed", "imageFailed"}
                               ELSE UNCHANGED outcome
      /\ phase = "uploading" => posted = 0
  BY DEF SenderStep, Refuse, Send, UploadFailed, Sent, SendFailed, MapError, IInv, Ordered
<1>4. PICK k \in CallType :
        /\ call' = [call EXCEPT ![Sender] = k]
        /\ k.at = IF phase' = "sending" THEN "invoke" ELSE "idle"
  <2>1. CASE Send
    BY <2>1, BegunTyped DEF Send
  <2>2. CASE Sent \/ SendFailed
    BY <2>2, BegunTyped DEF Sent, SendFailed
  <2>3. CASE Refuse \/ UploadFailed
    <3>1. call = [call EXCEPT ![Sender] = call[Sender]] /\ call[Sender] \in CallType
      BY <1>1
    <3>2. call[Sender].at = "idle"
      BY <2>3 DEF Refuse, UploadFailed, IInv, Quiet
    <3> QED
      BY <2>3, <3>1, <3>2 DEF Refuse, UploadFailed
  <2> QED
    BY <2>1, <2>2, <2>3 DEF SenderStep
<1>5. /\ call' \in [Caller -> CallType] /\ call'[Sender] = k
      /\ \A c \in Caller : c # Sender => call'[c] = call[c]
  BY <1>1, <1>4
<1>6. TypeOK'
  BY <1>1, <1>2, <1>3, <1>5 DEF IInv, TypeOK
<1>7. Quiet'
  BY <1>1, <1>2, <1>3, <1>4, <1>5 DEF IInv, Quiet, Caller
<1>8. Ordered'
  <2>1. Waited' <=> Waited
    BY <1>2 DEF Waited, Finished
  <2>2. phase' = "sending" => \A i \in Requested : item[i] = "filled"
    BY DEF SenderStep, Refuse, Send, UploadFailed, Sent, SendFailed, IInv, Ordered, Waited,
           Finished
  <2>3. phase' = "returned" => Waited \/ Cardinality(Requested) > Largest
    BY DEF SenderStep, Refuse, Send, UploadFailed, Sent, SendFailed, IInv, Ordered, Waited,
           Finished
  <2>4. phase' # "returned" => outcome' = "none"
    BY <1>3 DEF SenderStep, Refuse, Send, UploadFailed, Sent, SendFailed, IInv, Ordered
  <2> QED
    BY <1>2, <1>3, <2>1, <2>2, <2>3, <2>4 DEF IInv, Ordered
<1>9. Answered'
  <2>1. k.at \notin {"answered", "over"}
    BY <1>4
  <2> QED
    BY <1>1, <1>2, <1>5, <2>1 DEF IInv, Answered, Truthful, Known
<1> QED
  BY <1>6, <1>7, <1>8, <1>9 DEF IInv

LEMMA NextKeeps == IInv /\ [Next]_vars => IInv'
<1> SUFFICES ASSUME IInv, [Next]_vars PROVE IInv'
  OBVIOUS
<1>1. CASE Cancel \/ UNCHANGED vars
  <2>1. /\ UNCHANGED <<phase, outcome, item, firstError, call, posted>> /\ UNCHANGED Requested
        /\ ctxErr' \in {"nil", "canceled"}
    BY <1>1 DEF Cancel, vars, Requested, IInv, TypeOK
  <2>2. TypeOK'
    BY <2>1 DEF IInv, TypeOK
  <2>3. Quiet' /\ Answered'
    BY <2>1 DEF IInv, Quiet, Answered, Truthful, Known
  <2>4. Ordered'
    BY <2>1 DEF IInv, Ordered, Waited, Finished
  <2> QED
    BY <2>2, <2>3, <2>4 DEF IInv
<1>2. CASE \E c \in Caller : CallStep(c)
  BY <1>2, CallStepKeeps
<1>3. CASE \E i \in Item : ItemStep(i)
  BY <1>3, ItemStepKeeps
<1>4. CASE SenderStep
  BY <1>4, SenderStepKeeps
<1> QED
  BY <1>1, <1>2, <1>3, <1>4 DEF Next

LEMMA Invariance == Spec => []IInv
BY InitIInv, NextKeeps, PTL DEF Spec

-----------------------------------------------------------------------------
(* Theorems.                                                               *)

\* SendAlbum sends an album in which no file is missing, and when it returns,
\* none of the goroutines of its files is left (uploadItems, g.Wait).
THEOREM AlbumsComplete == Spec => []CompleteAndQuiet
<1>1. IInv => CompleteAndQuiet
  <2> SUFFICES ASSUME IInv PROVE CompleteAndQuiet
    OBVIOUS
  <2>1. posted > 0 => \A i \in Requested : item[i] = "filled"
    BY DEF IInv, Ordered
  <2>2. ASSUME phase = "returned", NEW i \in Requested
        PROVE  call[i].at = "idle" /\ (Finished(i) \/ Cardinality(Requested) > Largest)
    <3>1. Finished(i) \/ Cardinality(Requested) > Largest
      BY <2>2 DEF IInv, Ordered, Waited
    <3>2. item[i] # "media"
      BY <2>2, <3>1 DEF IInv, Ordered, Finished
    <3> QED
      BY <2>2, <3>1, <3>2 DEF IInv, Quiet, TypeOK
  <2> QED
    BY <2>1, <2>2 DEF CompleteAndQuiet
<1> QED
  BY <1>1, Invariance, PTL

\* Whatever the layers send again, SendAlbum posts once, a success means that
\* it posted, and an error about an image that it did not.
THEOREM SendsOnce == Spec => ImplementsSendOnce
<1> DEFINE request == IF phase = "returned" THEN outcome
                      ELSE IF posted = 1 THEN "posted" ELSE IF posted = 0 THEN "inflight"
                      ELSE "posted again"
<1>1. Init => Promised!Init
  BY DEF Init, Promised!Init
<1>2. IInv /\ [Next]_vars => [Promised!Next]_request
  <2> SUFFICES ASSUME IInv, [Next]_vars PROVE [Promised!Next]_request
    OBVIOUS
  <2>1. posted \in {0, 1} /\ (phase = "uploading" => posted = 0) /\ Truthful
    BY DEF IInv, Answered, Truthful, Ordered
  <2>2. CASE Cancel \/ UNCHANGED vars
    BY <2>2 DEF Cancel, vars
  <2>3. ASSUME NEW c \in Caller, CallStep(c) PROVE [Promised!Next]_request
    <3>1. /\ UNCHANGED <<phase, outcome>> /\ call[c].at # "idle" /\ (c # Sender => UNCHANGED posted)
      BY <2>3, CallFrame DEF IInv, TypeOK
    <3>2. CASE c # Sender
      BY <3>1, <3>2
    <3>3. CASE c = Sender
      <4>1. phase = "sending"
        BY <3>1, <3>3 DEF IInv, Quiet
      <4>2. posted' \in {0, 1} /\ posted =< posted'
        BY <2>3, <3>3, SenderStepTruthful DEF Truthful
      <4>3. CASE posted' = posted
        BY <3>1, <4>3
      <4>4. CASE posted = 0 /\ posted' = 1
        <5>1. request = "inflight" /\ request' = "posted"
          BY <3>1, <4>1, <4>4
        <5> QED
          BY <5>1 DEF Promised!Next, Promised!Post
      <4>5. posted' = posted \/ (posted = 0 /\ posted' = 1)
        BY <2>1, <4>2
      <4> QED
        BY <4>3, <4>4, <4>5
    <3> QED
      BY <3>2, <3>3
  <2>4. ASSUME NEW i \in Item, ItemStep(i) PROVE UNCHANGED request
    BY <2>4 DEF ItemStep, UploadFile, FillResult, ItemFails
  <2>5. CASE Refuse \/ UploadFailed
    <3>1. request = "inflight" /\ request' \in {"failed", "imageFailed"}
      BY <2>1, <2>5 DEF Refuse, UploadFailed, MapError
    <3> QED
      BY <3>1 DEF Promised!Next, Promised!Fail, Promised!RejectImage
  <2>6. CASE Send
    BY <2>6 DEF Send
  <2>7. CASE Sent
    <3>1. request = "posted" /\ request' = "ok"
      BY <2>1, <2>7 DEF Sent, Success, Truthful
    <3> QED
      BY <3>1 DEF Promised!Next, Promised!Succeed
  <2>8. CASE SendFailed
    <3>1. phase = "sending" /\ phase' = "returned" /\ outcome' = MapError(call[Sender].err)
      BY <2>8 DEF SendFailed
    <3>2. CASE call[Sender].err \in Image
      <4>1. request = "inflight" /\ request' = "imageFailed"
        BY <2>1, <2>8, <3>1, <3>2 DEF SendFailed, Failure, MapError, Truthful
      <4> QED
        BY <4>1 DEF Promised!Next, Promised!RejectImage
    <3>3. CASE call[Sender].err \notin Image
      <4>1. request \in {"inflight", "posted"} /\ request' = "failed"
        BY <2>1, <3>1, <3>3 DEF MapError
      <4> QED
        BY <4>1 DEF Promised!Next, Promised!Fail
    <3> QED
      BY <3>2, <3>3
  <2> QED
    BY <2>2, <2>3, <2>4, <2>5, <2>6, <2>7, <2>8 DEF Next, SenderStep
<1> QED
  BY <1>1, <1>2, Invariance, PTL DEF Spec, ImplementsSendOnce, Promised!Spec
=============================================================================
