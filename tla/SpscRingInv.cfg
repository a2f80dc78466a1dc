CONSTANTS
  NoItem = NoItem
  Capacity = 2
  IndexMod = 4
  MaxPushes = 10
SPECIFICATION Spec
INVARIANTS
  TypeOK
  RingInv
CHECK_DEADLOCK FALSE
