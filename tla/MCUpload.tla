------------------------------ MODULE MCUpload ------------------------------
(* Model values for checking Upload with TLC.                              *)
EXTENDS Upload, TLC

CONSTANTS f1, f2, f3, u1, u2

ThreeFiles == {f1, f2, f3}
TwoFiles == {f1, f2}
TwoWorkers == {u1, u2}
OneWorker == {u1}
PairAndOne == <<<<f1, f2>>, <<f3>>>>
OnePair == <<<<f1, f2>>>>
TwoSingles == <<<<f1>>, <<f2>>>>
NoBad == {}
LastBad == {f3}
SecondBad == {f2}
AllPolicies == {"skip", "ask", "upload"}
SkipOnly == {"skip"}
SkipOrUpload == {"skip", "upload"}
EitherWay == BOOLEAN
Never == {FALSE}
Always == {TRUE}
Sound == {"sound"}
Either == {"sound", "faulty"}
Symmetry == Permutations(TwoWorkers)
=============================================================================
