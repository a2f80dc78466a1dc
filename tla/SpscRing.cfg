CONSTANTS
  NoItem = NoItem
  Capacity = 2
  IndexMod = 4
  MaxPushes = 10
SPECIFICATION FairSpec
INVARIANTS
  SlotsDisjoint
PROPERTIES
  RefusedOnlyWhenFull
  DropsExactlyUnread
  ImplementsFifo
  AcceptedIsDelivered
CHECK_DEADLOCK FALSE
