CONSTANTS
  qe = qe
  qh = qh
  la = la
  lb = lb
  NoQueue = NoQueue
  NoList = NoList
  Queues = {qe}
  Lists = {la, lb}
  QueueDevice <- OneDeviceQ
  ListDevice <- OneDeviceL
  Hooked = {}
  Expiry = 2
  RingSize = 1
  PresentOverlaps = FALSE
  Removable = FALSE
  MaxEval = 3
  MaxRecordings = 2
  MaxSubmits = 2
  MaxOps = 2
  OtherOps = 1
SPECIFICATION Spec
INVARIANTS TypeOK ReleaseSafe SerialBehindWork ClaimsWholeList
SYMMETRY SwapLists
