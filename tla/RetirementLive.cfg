CONSTANTS
  qe = qe
  qh = qh
  la = la
  resource = resource
  model = model
  buffers = buffers
  feature = feature
  NoQueue = NoQueue
  NoList = NoList
  NoFeature = NoFeature
  Queues = {qe}
  Lists = {la}
  QueueDevice <- OneDeviceQ
  ListDevice <- OneDeviceL
  Objects = {resource}
  Owner <- Owners
  Hooked = {}
  Expiry = 1
  RingSize = 1
  PresentOverlaps = FALSE
  Removable = TRUE
  FenceFails = TRUE
  MaxEval = 2
  MaxRecordings = 1
  MaxSubmits = 1
  MaxOps = 1
  OtherOps = 2
SPECIFICATION RFairSpec
PROPERTY GateOpens
