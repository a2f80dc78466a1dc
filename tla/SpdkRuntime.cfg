CONSTANTS
  t1 = t1
  t2 = t2
  Threads = {t1, t2}
  b1 = b1
  b2 = b2
  Bufs = {b1, b2}
  NoBuf = NoBuf
  PageSize = 4
  Sizes = {3, 15}
  UsizeMax = 15
  U64Max = 15
  U32Max = 15
  Namespaces <- MCNamespaces
  Requests <- MCRequests
  MaxControllers = 1
SPECIFICATION Spec
INVARIANTS
  MappingsAccounted
  CounterSettles
  SubmittedIsSafe
  RefusedForAReason
SYMMETRY Symmetry
CHECK_DEADLOCK FALSE
