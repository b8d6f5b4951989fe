\* One pool that is paused, two in turn, two at once, a pause ended elsewhere,
\* calls during a pause and resumes in a hurry.
CONSTANTS
  A = A
  B = B
  Pools = {A, B}
  MaxThreads = 2
  Scripts <- Programs
  Caller = Caller
  Nobody = Nobody
SPECIFICATION FairSpec
INVARIANTS TypeOK NoStrandedJob PoolsAreWhole
PROPERTIES CallsReturn OnlyHoldBlocks OnlyLateStay JobsRun OnlyHoldDelays
\* The script has ended and every pool that is left is idle, or a thread is on
\* hold for ever.
CHECK_DEADLOCK FALSE
