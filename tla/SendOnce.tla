------------------------------ MODULE SendOnce ------------------------------
(***************************************************************************)
(* What the upload pipeline relies on when it hands an album to the        *)
(* Telegram client (sendAlbumOnce, internal/upload/run.go): the album is   *)
(* posted at most once, a success means that it was posted, and the client *)
(* reports a rejected image only if it was not.  A failure says nothing.   *)
(***************************************************************************)
VARIABLE request   \* "inflight", "posted", "ok", "failed" or "imageFailed"

Init == request = "inflight"

Post == request = "inflight" /\ request' = "posted"

Succeed == request = "posted" /\ request' = "ok"

Fail == request \in {"inflight", "posted"} /\ request' = "failed"

RejectImage == request = "inflight" /\ request' = "imageFailed"

Next == Post \/ Succeed \/ Fail \/ RejectImage

Spec == Init /\ [][Next]_request
=============================================================================
