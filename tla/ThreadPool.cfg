\* Two workers, three jobs, one waiter, the whole life of a pool.  Liveness, so
\* no symmetry.
CONSTANTS
  Threads = {t1, t2}
  Waiters = {w1}
  Jobs = {j1, j2, j3}
  NoJob = NoJob
  Nobody = Nobody
SPECIFICATION FairSpec
INVARIANTS TypeOK NoStrandedJob NoStrandedWaiter FreedWhenDrained
PROPERTIES WaitReturnsDone PoolSpec JobsRun WaiterContinues DestroyTerminates
\* A freed pool with its threads gone stops.
CHECK_DEADLOCK FALSE
