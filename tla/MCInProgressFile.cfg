SPECIFICATION MCSpec
CONSTANTS
  t1 = t1
  t2 = t2
  k1 = k1
  k2 = k2
  j1 = j1
  j2 = j2
  Topics = {t1, t2}
  Keys = {k1, k2}
  JobIds = {j1, j2}
  MessageIds = {1, 2, 3}
  None = None
  All = All
  Fill = Fill
  Forever = 9
  Faults = TRUE
  Structures <- MCStructures
  RunStarts <- MCRunStarts
  MaxMessages = 3
INVARIANTS
  FileTypeOK
  RoutedAsSubscribed
  OncePerSubscription
  WriterAlwaysFound
  ColumnsAligned
  StopTimeAgreed
PROPERTY
  StopRecordedLast
CHECK_DEADLOCK FALSE
