SPECIFICATION MSpec
CONSTANTS
  EntryPresents = 1
  Ring = 2
  MaxPasses = 2
  MaxLists = 1
  MaxModels = 1
  MaxTroubles = 0
  Faults = {}
  Surprises = {"reenter"}
INVARIANTS ProvenBeforeCall
CHECK_DEADLOCK FALSE
