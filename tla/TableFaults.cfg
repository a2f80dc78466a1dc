CONSTANTS
  b1 = b1
  b2 = b2
  b3 = b3
  Batches = {b1, b2, b3}
  NoBatch = NoBatch
  MaxSegments = 4
  Failures = {"crash", "io", "torn"}
SPECIFICATION Spec
INVARIANT ListedSegmentsWhole
PROPERTIES
  ListedImmutable
  ScansUndisturbed
CHECK_DEADLOCK FALSE
