SPECIFICATION FairSpec
CONSTANTS
  Run <- Two
  Interval = 1
  TTL = 1
  InsertLag = 0
  MaxGap = 1
  Retention = 0
  CanCrash <- Two
  CanPause <- NoRuns
  CanInterrupt <- NoRuns
  InOrder = TRUE
  MaxClock = 5
  FaultBy = 2
CHECK_DEADLOCK FALSE
INVARIANTS AtMostOneUploading
PROPERTIES ImplementsTurnLine EveryRunServed
