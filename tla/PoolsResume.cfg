\* A pause and a resume without a sleep in between.
CONSTANTS
  A = A
  B = B
  Pools = {A}
  MaxThreads = 1
  Scripts <- Documented
  Caller = Caller
  Nobody = Nobody
SPECIFICATION FairSpec
PROPERTIES ResumeReleases
\* The threads may be on hold for ever.
CHECK_DEADLOCK FALSE
