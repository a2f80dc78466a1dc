CONSTANTS
  PayloadLen = 4
  TornSizes <- MCTornSizes
  MaxAppends = 4
SPECIFICATION LogSpec
INVARIANT AckedIsRead
CHECK_DEADLOCK FALSE
