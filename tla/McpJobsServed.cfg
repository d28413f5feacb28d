SPECIFICATION PatientSpec
CONSTANTS
  j1 = j1
  j2 = j2
  j3 = j3
  c1 = c1
  Job <- TwoJobs
  Sync <- TwoJobs
  Client <- OneClient
  MaxQueue = 2
  MaxConcurrent = 1
  MaxCalls = 1
  MaxKills = 0
  EarlyCancel = FALSE
  Failing = {"finish", "get", "cancel"}
CHECK_DEADLOCK FALSE
PROPERTIES CancelTakesEffect EveryJobEnds NoLostWakeup
