CONSTANTS
  PayloadLen = 4
  TornSizes <- MCTornSizes
  MaxAppends = 4
SPECIFICATION LogSpec
INVARIANTS
  SeqsNotBehind
  LossIsReported
PROPERTY RecordsOnlyGrow
CHECK_DEADLOCK FALSE
