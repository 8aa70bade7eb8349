CONSTANTS
  two = two three = three five1 = five1 five2 = five2 nine1 = nine1
  queen1 = queen1 queen2 = queen2 king = king joker = joker
  Deck <- DuelDeck
  RankOf <- DuelRankOf
  NumPlayers = 2
  CardsPerZone = 1
  HandSize = 1
  LateFor = {}
  SbobuzCount = 2
SPECIFICATION Spec
SYMMETRY DuelSymmetry
CHECK_DEADLOCK FALSE
INVARIANTS CardsConserved FlagsMatchPile PlayerNeverStuck EnumerationExact BoardOffersMoves
PROPERTIES ZonesInOrder FlowSpec
