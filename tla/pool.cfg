SPECIFICATION FairSpec
CONSTANTS
  Caller = {c1}
  Thread = {t1, t2, t3}
  Job = {j1, j2}
  Nil = Nil
  pool_siz = 2
CHECK_DEADLOCK FALSE
INVARIANTS StackIsIdle JobIsInOnePlace
PROPERTIES ImplementsJobPool EveryJobRuns PoolShrinks
