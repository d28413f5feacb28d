SPECIFICATION Spec
CONSTANTS
  Run <- Two
  Interval = 1
  TTL = 2
  InsertLag = 0
  MaxGap = 2
  Retention = 0
  CanCrash <- First
  CanPause <- Two
  CanInterrupt <- First
  InOrder = FALSE
  MaxClock = 4
  FaultBy = 2
CHECK_DEADLOCK FALSE
INVARIANTS TypeOK NoOvertaking LiveNeverSwept
PROPERTIES EndIsFinal
