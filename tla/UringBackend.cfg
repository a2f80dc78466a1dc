CONSTANTS
  t1 = t1
  t2 = t2
  Threads = {t1, t2}
  NoThread = NoThread
  Entries = 2
  MaxCalls = 3
  Faults = {"enter", "signal"}
SPECIFICATION FairSpec
INVARIANTS
  OkIsOwn
  LeftoversWithinFaults
PROPERTY LockIsReleased
CHECK_DEADLOCK FALSE
