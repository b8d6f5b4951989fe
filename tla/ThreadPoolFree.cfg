\* Two workers, no waiter: what thpool_destroy frees, and when.
CONSTANTS
  Threads = {t1, t2}
  Waiters = {}
  Jobs = {j1}
  NoJob = NoJob
  Nobody = Nobody
SPECIFICATION Spec
SYMMETRY Symmetry
INVARIANTS FinishedBeforeFree
CHECK_DEADLOCK FALSE
