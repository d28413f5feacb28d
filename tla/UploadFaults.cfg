SPECIFICATION Spec
CONSTANTS
  f1 = f1
  f2 = f2
  f3 = f3
  u1 = u1
  u2 = u2
  File <- ThreeFiles
  Worker <- TwoWorkers
  Album <- PairAndOne
  BadVideo <- NoBad
  Target = "username"
  CleanupNow <- EitherWay
  KeepFailed <- EitherWay
  Resume = TRUE
  Policies <- SkipOrUpload
  StrictMetadata = FALSE
  ImageMode = "auto"
  Interrupts = TRUE
  Crashes = TRUE
  StoreFaults <- Either
  MaxRuns = 2
CHECK_DEADLOCK FALSE
SYMMETRY Symmetry
INVARIANTS TypeOK SentMeansPosted SuccessMeansDelivered PostedOncePerRun RepostExcused
PROPERTIES SentIsFinal
