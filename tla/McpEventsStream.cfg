SPECIFICATION Spec
CONSTANTS
  jA = jA
  jB = jB
  w1 = w1
  w2 = w2
  w3 = w3
  Job <- TwoJobs
  Writer <- ThreeWriters
  JobOf <- JobOfThree
  Cap = 1
  PageSize = 1
  MaxEvents = 3
  MaxConnects = 2
  MaxCleanups = 1
CHECK_DEADLOCK FALSE
INVARIANTS ResumeMissesNothing PollerMissesNothing SeqOrdersJob
