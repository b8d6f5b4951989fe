\* Two pools, one of them destroyed.
CONSTANTS
  A = A
  B = B
  Pools = {A, B}
  MaxThreads = 1
  Scripts <- Shared
  Caller = Caller
  Nobody = Nobody
SPECIFICATION FairSpec
PROPERTIES JobsRun
\* Both pools are gone at the end.
CHECK_DEADLOCK FALSE
