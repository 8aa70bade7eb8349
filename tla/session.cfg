CONSTANTS
  ann = ann bob = bob ai = ai None = None
  Players <- WithAI
  AIPlayers = {ai}
  SnapshotInterval = 2
  MaxActions = 3
  EarlyPlay = FALSE
  Recovers = TRUE
  Faults = {"redis", "postgres", "crash"}
SPECIFICATION MCFairSpec
CHECK_DEADLOCK FALSE
INVARIANTS TimerMatchesTurn ClockRuns RecordKept
PROPERTIES EveryTurnEnds SessionCloses
