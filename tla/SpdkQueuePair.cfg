CONSTANTS
  t1 = t1
  t2 = t2
  Callers = {t1, t2}
  NoCaller = NoCaller
  MaxCalls = 2
  MaxSegments = 2
  Faults = {"submit", "poll", "timeout"}
SPECIFICATION FairQueueSpec
INVARIANTS
  LeftoversAreAbandoned
PROPERTIES
  OkIsOwn
  LockIsReleased
CHECK_DEADLOCK FALSE
