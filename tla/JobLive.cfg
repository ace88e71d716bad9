SPECIFICATION BFairSpec
CONSTANTS
  Main = Main
  Other = Other
  Slots = 2
  Every = 1
  MaxAge = 1
  MaxQueue = 1
  MaxJobs = 3
  MaxGens = 2
  MaxSettings = 1
  HostFrames = 2
  ListsChange = FALSE
INVARIANTS
  InputsKept AnswerRead SlotsApart3 ModelAlone CapKept WaitsServed
PROPERTIES
  CallsReturn PassesEnd
CHECK_DEADLOCK FALSE
