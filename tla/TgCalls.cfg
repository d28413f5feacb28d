SPECIFICATION FairSpec
CONSTANTS
  i1 = i1
  i2 = i2
  i3 = i3
  Sender = Sender
  Item <- ThreeItems
  Largest = 2
  MaxFlood = 1
  MaxRetry = 1
  MaxElapsed = 1
CHECK_DEADLOCK FALSE
INVARIANTS CompleteAndQuiet
PROPERTIES ImplementsSendOnce CallReturns
