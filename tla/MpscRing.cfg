CONSTANTS
  p1 = p1
  p2 = p2
  Producers = {p1, p2}
  NoItem = NoItem
  Capacity = 2
  IndexMod = 6
  MaxPushes = 4
SPECIFICATION FairSpec
INVARIANTS
  SlotExclusive
  ReadsOldestItem
  RingInv
PROPERTIES
  RefusedOnlyWhenFull
  DropsExactlyUnread
  ImplementsFifo
  AcceptedIsDelivered
CHECK_DEADLOCK FALSE
