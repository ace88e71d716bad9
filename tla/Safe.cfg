SPECIFICATION Spec
CONSTANTS
  MaxEvals = 4
  MaxChanges = 1
  MaxResets = 1
  Modes = {1, 3}
  Passes = {1, 2}
  Spreads = {TRUE, FALSE}
  DropsMidPass = FALSE
  LosesReset = FALSE
  MaxMissed = 1
  EntryPresents = 1
  Ring = 2
  MaxPasses = 2
  MaxLists = 1
  MaxModels = 2
  MaxTroubles = 1
  Faults = {"stop", "f2", "recovery", "show", "removed", "flow"}
  Surprises = {}
  Pids = {1, 2}
  MaxSessions = 4
  MaxTabs = 2
  Ways = {"terminate"}
  Lapses = {}
INVARIANTS
  FTypeOK HistoryReachesBack ResetHonoured CarriedFollows NoGhosts
  ModelKept NoOverlap GameVectors
  CrashRemembered NoFalseAlarm
PROPERTIES HistoryReset
CHECK_DEADLOCK FALSE
