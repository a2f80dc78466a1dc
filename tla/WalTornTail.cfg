CONSTANTS
  PayloadLen = 4
  TornSizes <- MCTornSizes
  MaxAppends = 4
SPECIFICATION LogSpec
INVARIANT TornTailEndsLog
CHECK_DEADLOCK FALSE
