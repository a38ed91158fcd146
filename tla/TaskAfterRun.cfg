SPECIFICATION TaskSpec
CONSTANTS
  ev = ev
  mon = mon
  ctl = ctl
  gone = gone
  k1 = k1
  j1 = j1
  j2 = j2
  Topics = {ev, mon, ctl, gone}
  Keys = {k1}
  JobIds = {j1, j2}
  MessageIds <- MCMessageIds
  Partitions <- MCPartitions
  None = None
  All = All
  Fill = Fill
  AtEnd = AtEnd
  JobPoolTopic = ctl
  Forever = 9
  MaxTimestamp = 6
  SeekBack = 1
  Faults = FALSE
  Structures <- MCTwoPartitions
  RunStarts <- MCOpenRun
  Histories <- MCLateStop
INVARIANT OnlyRunEventsWritten
CHECK_DEADLOCK FALSE
