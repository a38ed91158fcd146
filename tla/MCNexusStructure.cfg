SPECIFICATION NexusSpec
CONSTANTS
  t1 = t1
  j1 = j1
  a = a
  b = b
  Topics = {t1}
  Keys = {}
  JobIds = {j1}
  MessageIds = {}
  None = None
  All = All
  Fill = Fill
  NotAString = NotAString
  Forever = 9
  Faults = TRUE
  AttributeNames <- MCAttributeNames
  RunStarts <- MCRunStarts
  Registries <- MCRegistries
  Documents <- MCDocuments
INVARIANTS
  NexusTypeOK
  BuiltIffInstantiable
  HoldsTheStructure
  OwnDatasets
PROPERTY BuildsFile
CHECK_DEADLOCK FALSE
