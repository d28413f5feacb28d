SPECIFICATION Spec
CONSTANTS
  Highest = 5
  Coarsest = 5
  Scenes <- AllScenes
  Blank <- OneBlank
  Trimmed <- SomeTrimmed
  Dotted <- LeastName
CHECK_DEADLOCK FALSE
INVARIANTS HighestLayerWins OnlyAllowedRoots DiscoveryExact NoDirectoryTwice PlanIsPartition NoTempLeft NoBetterNeighbour
