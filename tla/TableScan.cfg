CONSTANTS
  BadFileNames = {}
  LaneWidth = 2
  I64Min = 0
  FloatExact = 8
  Schema <- TicksSchema
  CallerSchemas <- KnownSchemas
  Faults = {"none", "ragged", "type", "wide", "missing"}
  Times = {0, 1, 2}
  MaxRows = 4
  MaxSegments = 4
  Predicates <- SomePredicates
SPECIFICATION Spec
INVARIANTS
  ScansAreExact
  FiltersAreExact
  RowsKept
  RecoveryIsExact
PROPERTY AdjacentCompactionKeepsOrder
CHECK_DEADLOCK FALSE
