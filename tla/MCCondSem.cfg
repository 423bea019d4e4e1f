\* The threads may all wait for a value that nobody posts: deadlock is not checked.
CONSTANTS
  Thread = {t1, t2, t3}
  NoThread = NoThread
  InitVal <- MCInitVal
  MaxValue = 2
  Spurious = TRUE
SPECIFICATION FairSpec
INVARIANTS NoLostWakeup
PROPERTY ImplementsSem
CHECK_DEADLOCK FALSE
