CONSTANTS
  qe = qe
  qh = qh
  la = la
  resource = resource
  model = model
  buffers = buffers
  feature = feature
  NoQueue = NoQueue
  NoList = NoList
  NoFeature = NoFeature
  Queues = {qe}
  Lists = {la}
  QueueDevice <- OneDeviceQ
  ListDevice <- OneDeviceL
  Objects = {resource, model}
  Owner <- Owners
  Hooked = {}
  Expiry = 1
  RingSize = 1
  PresentOverlaps = FALSE
  Removable = FALSE
  FenceFails = FALSE
  MaxEval = 1
  MaxRecordings = 1
  MaxSubmits = 1
  MaxOps = 1
  OtherOps = 2
  Deadline = 1
  MaxUses = 3
  MaxEvals = 4
  Count = 4
  PerEvaluate = 2
SPECIFICATION HSpec
INVARIANTS FreedSafe AnnouncedLast SlotsApart Sized
