SPECIFICATION RunFairSpec
CONSTANTS
  f1 = f1
  f2 = f2
  u1 = u1
  File <- TwoFiles
  Worker <- OneWorker
  Album <- OnePair
  BadVideo <- SecondBad
  Target = "username"
  CleanupNow <- Never
  KeepFailed <- Never
  Resume = TRUE
  Policies <- SkipOnly
  StrictMetadata = TRUE
  ImageMode = "auto"
  Interrupts = TRUE
  Crashes = TRUE
  StoreFaults <- Either
  MaxRuns = 2
  Pool = TRUE
CHECK_DEADLOCK FALSE
INVARIANTS TurnHeld ExitTellsRow SessionKept
PROPERTIES ProcessReturns
