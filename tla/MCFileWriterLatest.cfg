SPECIFICATION FairSpec
CONSTANTS
  p1 = p1
  p2 = p2
  x1 = x1
  x2 = x2
  f1 = f1
  f2 = f2
  Processes = {p1, p2}
  PoolPartitions = {x1, x2}
  Filenames = {f1, f2}
  None = None
  Pool <- MCLongPool
  Reset = "latest"
  SingleFile = {}
  MaxFaults = 1
INVARIANT NoRunPassedOver
PROPERTY LaterRunsTaken
CHECK_DEADLOCK FALSE
