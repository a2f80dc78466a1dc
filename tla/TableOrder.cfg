CONSTANTS
  BadFileNames = {}
  LaneWidth = 2
  I64Min = 0
  FloatExact = 8
  Schema <- TicksSchema
  CallerSchemas <- AnyOrder
  Faults = {"none"}
  Times = {0, 1, 2}
  MaxRows = 4
  MaxSegments = 4
  Predicates <- SomePredicates
SPECIFICATION Spec
INVARIANT RecoveryIsExact
CHECK_DEADLOCK FALSE
