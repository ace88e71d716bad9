CONSTANTS
  qe = qe
  qh = qh
  la = la
  resource = resource
  model = model
  buffers = buffers
  feature = feature
  NoQueue = NoQueue
  NoList = NoList
  NoFeature = NoFeature
  Queues = {qe, qh}
  Lists = {la}
  QueueDevice <- OneDeviceQ
  ListDevice <- OneDeviceL
  Objects = {model}
  Owner <- Owners
  Hooked = {qh}
  Expiry = 1
  RingSize = 1
  PresentOverlaps = FALSE
  Removable = FALSE
  FenceFails = FALSE
  MaxEval = 1
  MaxRecordings = 1
  MaxSubmits = 1
  MaxOps = 1
  OtherOps = 2
SPECIFICATION RSpec
INVARIANTS FreedSafe
