CONSTANTS
  p1 = p1
  p2 = p2
  Producers = {p1, p2}
  NoItem = NoItem
  Capacity = 2
  IndexMod = 6
  MaxPushes = 3
SPECIFICATION SpecReordered
INVARIANT PreviousLapReleased
CHECK_DEADLOCK FALSE
