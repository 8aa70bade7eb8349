CONSTANTS
  two = two three = three five1 = five1 five2 = five2 nine1 = nine1
  queen1 = queen1 queen2 = queen2 king = king joker = joker
  Deck <- TableDeck
  RankOf <- TableRankOf
  NumPlayers = 3
  CardsPerZone = 1
  HandSize = 1
  LateFor = {2}
  SbobuzCount = 2
SPECIFICATION TableSpec
CHECK_DEADLOCK FALSE
INVARIANTS PhaseMatchesPile SbobuzAlwaysWins
PROPERTIES TurnPassesInOrder TurnsSpec ForfeitPassesTurn
