CONSTANTS
  Calls = {c1, c2}
  MaxSessions = 2
  MaxIssued = 3
  MaxLost = 1
  MaxEvents = 2
  Window = 3
  MaxTime = 8
  amy = amy g1 = g1
  Users = {amy, ben, cat}
  Games = {g1, g2}
  InitialRating = 1
  MinRating = 0
  MaxChange = 1
  Band = 1
  Processes = {s1, s2, s3}
  Versions = {1, 2, 3}
  MaxCrashes = 1
  MaxRollbacks = 1
  Matches = {p1, p2}
  DueAfter = 2
  MaxVersion = 2
  MaxErrors = 1
  NoVersion = NoVersion
  DeckSize = 4
  Seats = 1
  ZoneSize = 1
  three1 = three1 three2 = three2 three3 = three3 five1 = five1 five2 = five2 five3 = five3
  joker1 = joker1 joker2 = joker2
  Deck <- MCDeck
  RankOf <- MCRankOf
  NumPlayers = 3
  CardsPerZone = 2
  SbobuzCount = 4
SPECIFICATION MCSpec
SYMMETRY Interchangeable
CHECK_DEADLOCK FALSE
INVARIANTS HonestIsKept NoBurst HistoryAgrees OneServerStarts ShutdownKeepsGames FairStart
