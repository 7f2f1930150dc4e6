SPECIFICATION ForkSpec
CONSTANTS
  Caller = {c1}
  Thread = {t1, t2}
  Job = {j1}
  Nil = Nil
  pool_siz = 1
  MaxForks = 1
CHECK_DEADLOCK FALSE
INVARIANTS
  StackIsIdle
