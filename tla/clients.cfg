CONSTANTS
  ann = ann bob = bob None = None
  Players <- TwoPlayers
  MaxActions = 2
  MaxDrops = 1
  MaxWaiting = 0
  MaxSaves = 2
  MaxRestarts = 1
SPECIFICATION MCFairSpec
CHECK_DEADLOCK FALSE
INVARIANTS RoomIsShown
PROPERTIES ViewNeverGoesBack ActionIsShown ControlsComeBack
