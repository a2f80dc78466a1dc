CONSTANTS
  t1 = t1
  t2 = t2
  Threads = {t1, t2}
  NoThread = NoThread
  Entries = 2
  MaxCalls = 3
  Faults = {"enter", "signal"}
SPECIFICATION Spec
INVARIANTS
  OkIsOwn
  TypeOK
  UringInv
  LeftoversWithinFaults
CHECK_DEADLOCK FALSE
