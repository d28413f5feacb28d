SPECIFICATION Spec
CONSTANTS
  j1 = j1
  j2 = j2
  j3 = j3
  c1 = c1
  Job <- ThreeJobs
  Sync = {}
  Client <- NoClient
  MaxQueue = 1
  MaxConcurrent = 1
  MaxCalls = 2
  MaxKills = 1
  EarlyCancel = FALSE
  Failing = {"mark", "finish"}
CHECK_DEADLOCK FALSE
SYMMETRY SymmetricThree
INVARIANTS QueueBounded
PROPERTIES ImplementsJobBoard
