CONSTANTS
  ann = ann ai1 = ai1 ai2 = ai2 None = None
  Players <- OneHumanTwoAI
  AIPlayers <- TwoAI
  MaxActions = 5
  MaxRequests = 5
  MaxPoolSize = 2
  MaxDeaths = 1
  CanShutDown = TRUE
  PileSizes = {0, 2, 3, 4}
  HandSizes = {1, 2, 4}
SPECIFICATION MCFairSpec
CHECK_DEADLOCK FALSE
INVARIANTS TurnIsPlanned BusyMeansPending PicksUpOnlyInNeed
PROPERTIES AITurnEnds RequestsSettle
