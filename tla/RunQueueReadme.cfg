SPECIFICATION Spec
CONSTANTS
  Run <- Two
  Interval = 1
  TTL = 1
  InsertLag = 0
  MaxGap = 1
  Retention = 0
  CanCrash <- NoRuns
  CanPause <- NoRuns
  CanInterrupt <- NoRuns
  InOrder = FALSE
  MaxClock = 2
  FaultBy = 0
CHECK_DEADLOCK FALSE
INVARIANTS AtMostOneUploading
