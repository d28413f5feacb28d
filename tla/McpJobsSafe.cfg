SPECIFICATION Spec
CONSTANTS
  j1 = j1
  j2 = j2
  j3 = j3
  c1 = c1
  Job <- TwoJobs
  Sync = {}
  Client <- OneClient
  MaxQueue = 1
  MaxConcurrent = 1
  MaxCalls = 2
  MaxKills = 1
  EarlyCancel = TRUE
  Failing = {"mark", "finish"}
CHECK_DEADLOCK FALSE
SYMMETRY Symmetric
INVARIANTS SlotsBounded TerminalEventLast EventAgreesWithRow
PROPERTIES FinalUnlessEarly
