SPECIFICATION LFairSpec
CONSTANTS
  Values = {1, 2}
  MaxEdits = 2
  MaxStarts = 2
  MaxSilences = 1
  Attempts = 2
  Mishaps = {}
INVARIANTS
  WholePayloads
PROPERTIES
  LinkKept LinkRecovers AskedSettles PendingSettles
CHECK_DEADLOCK FALSE
