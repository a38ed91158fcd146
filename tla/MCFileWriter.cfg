SPECIFICATION Spec
CONSTANTS
  p1 = p1
  p2 = p2
  x1 = x1
  x2 = x2
  f1 = f1
  f2 = f2
  Processes = {p1, p2}
  PoolPartitions = {x1, x2}
  Filenames = {f1, f2}
  None = None
  Pool <- MCPool
  Reset = "earliest"
  SingleFile = {p2}
  MaxFaults = 2
INVARIANTS
  TypeOK
  TakenRunsCommitted
  CommittedRunsTaken
  OneProcessPerRun
  FileIsOfItsRun
PROPERTY IsRunPool
CHECK_DEADLOCK FALSE
