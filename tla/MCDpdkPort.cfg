CONSTANTS
  t1 = t1
  t2 = t2
  Threads = {t1, t2}
  m1 = m1
  m2 = m2
  m3 = m3
  Mbufs = {m1, m2, m3}
  NoPacket = NoPacket
  DataRoom = 2048
  BufLen = 2097152
  Queues = 1
  Desc = 2
  U16 = 65536
  BurstWidth = 3
  Lengths = {60, 3000}
  Frames <- MCFrames
  MaxBatch = 3
  MaxCalls = 2
  MaxArrivals = 2
SPECIFICATION Spec
INVARIANTS
  MbufsAccounted
  OnlyFailedBatchesLeak
  ReportsWhatMoved
  ParsedAsBuilt
SYMMETRY Symmetry
CHECK_DEADLOCK FALSE
