CONSTANTS
  t1 = t1
  t2 = t2
  Callers = {t1, t2}
  NoCaller = NoCaller
  MaxCalls = 2
  MaxSegments = 2
  Faults = {"timeout"}
SPECIFICATION QueueSpec
INVARIANT ContextOutlivesCommand
CHECK_DEADLOCK FALSE
