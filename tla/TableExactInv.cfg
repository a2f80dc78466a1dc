CONSTANTS
  b1 = b1
  b2 = b2
  b3 = b3
  Batches = {b1, b2, b3}
  NoBatch = NoBatch
  MaxSegments = 5
  Failures = {"crash"}
SPECIFICATION Spec
INVARIANTS
  TypeOK
  SafeInv
  ExactInv
CHECK_DEADLOCK FALSE
