CONSTANTS
  qe = qe
  qh = qh
  la = la
  lb = lb
  NoQueue = NoQueue
  NoList = NoList
  Queues = {qe, qh}
  Lists = {la, lb}
  QueueDevice <- OneDeviceQ
  ListDevice <- TwoDevicesL
  Hooked = {qh}
  Expiry = 1
  RingSize = 2
  PresentOverlaps = FALSE
  Removable = TRUE
  MaxEval = 3
  MaxRecordings = 1
  MaxSubmits = 1
  MaxOps = 2
  OtherOps = 0
SPECIFICATION Spec
INVARIANTS ReleaseSafe RingSound AbandonedWindow
