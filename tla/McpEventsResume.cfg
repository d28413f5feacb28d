SPECIFICATION Spec
CONSTANTS
  jA = jA
  jB = jB
  w1 = w1
  w2 = w2
  w3 = w3
  Job <- TwoJobs
  Writer <- TwoWriters
  JobOf <- JobOfTwo
  Cap = 2
  PageSize = 2
  MaxEvents = 3
  MaxConnects = 2
  MaxCleanups = 0
CHECK_DEADLOCK FALSE
INVARIANTS ResumesWhereItLeft
