CONSTANTS
  qe = qe
  qh = qh
  la = la
  lb = lb
  NoQueue = NoQueue
  NoList = NoList
  Queues = {qe}
  Lists = {la}
  QueueDevice <- OneDeviceQ
  ListDevice <- OneDeviceL
  Hooked = {}
  Expiry = 2
  RingSize = 2
  PresentOverlaps = TRUE
  Removable = FALSE
  MaxEval = 2
  MaxRecordings = 1
  MaxSubmits = 2
  MaxOps = 2
  OtherOps = 0
SPECIFICATION Spec
INVARIANTS ReleaseSafe
