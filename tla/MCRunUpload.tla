---------------------------- MODULE MCRunUpload ----------------------------
(* Model values for checking RunUpload with TLC.                           *)
EXTENDS RunUpload

CONSTANTS f1, f2, u1

TwoFiles == {f1, f2}
OneWorker == {u1}
OnePair == <<<<f1, f2>>>>
SecondBad == {f2}
SkipOnly == {"skip"}
Never == {FALSE}
Either == {"sound", "faulty"}
=============================================================================
