CONSTANTS
  ann = ann bob = bob ai = ai None = None
  Players <- TwoHumans
  AIPlayers = {}
  SnapshotInterval = 2
  MaxActions = 3
  EarlyPlay = TRUE
  Recovers = FALSE
  Faults = {}
SPECIFICATION MCSpec
CHECK_DEADLOCK FALSE
INVARIANTS OneTimer
