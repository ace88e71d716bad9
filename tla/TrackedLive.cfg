CONSTANTS
  qe = qe
  la = la
  NoQueue = NoQueue
  NoList = NoList
  Queues = {qe}
  Lists = {la}
  QueueDevice <- DeviceOfQueue
  ListDevice <- DeviceOfList
  Hooked = {}
  Expiry = 1
  RingSize = 1
  PresentOverlaps = FALSE
  Removable = TRUE
  MaxEval = 3
  MaxRecordings = 2
  MaxSubmits = 1
  MaxOps = 2
  OtherOps = 0
  Count = 1
  PerEvaluate = 2
SPECIFICATION TFairSpec
INVARIANTS TablesStand
PROPERTIES ClaimedCompletes PromiseKept
