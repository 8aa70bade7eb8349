-------------------------- MODULE GameEngineProofs --------------------------
(***************************************************************************)
(* Theorems about GameEngine, for every deck, number of players, zone size *)
(* and Sbobuz size the assumptions allow.                                  *)
(***************************************************************************)
EXTENDS GameBoard, FiniteSetTheorems, TLAPS

(***************************************************************************)
(* Lemmas about the operators.                                             *)
(***************************************************************************)

\* The turn always lands on a seat of the table.
LEMMA AdvanceTurnType ==
    ASSUME NEW i \in Players, NEW d \in {1, -1}
    PROVE  AdvanceTurn(i, d) \in Players
BY PlayersAssumption DEF AdvanceTurn, Players

\* The cards of a pile are cards of the deck.
LEMMA RangeType ==
    ASSUME NEW pile \in Seq(Deck)
    PROVE  Range(pile) \subseteq Deck
BY DEF Range

\* An ordering of cards is a sequence of them, of which there is a first when
\* there are any.
LEMMA OrderingType ==
    ASSUME NEW cards \in SUBSET Deck, NEW order \in Orderings(cards)
    PROVE  /\ order \in Seq(cards) /\ order \in Seq(Deck)
           /\ Range(order) = cards
           /\ Len(order) = Cardinality(cards)
           /\ DOMAIN order = 1 .. Len(order)
<1>1. IsFiniteSet(cards)
  BY DeckAssumption, FS_Subset
<1>2. Cardinality(cards) \in Nat
  BY <1>1, FS_CardinalityType
<1>3. order \in [1 .. Cardinality(cards) -> cards] /\ Range(order) = cards
  BY DEF Orderings
<1> QED BY <1>2, <1>3

\* A play has a first card.
LEMMA OrderingNotEmpty ==
    ASSUME NEW cards \in SUBSET Deck, cards # {}, NEW order \in Orderings(cards)
    PROVE  order # << >> /\ order[1] \in cards
<1>1. Len(order) # 0
  BY OrderingType, FS_Subset, FS_EmptySet, DeckAssumption
<1> QED BY <1>1, OrderingType

\* What a board selects is an ordering of open cards, of one rank.
LEMMA SelectionType ==
    ASSUME TypeOK, NEW p \in Players, NEW ids \in Selections(p)
    PROVE  /\ Range(ids) \in SUBSET OpenCards(p) /\ Range(ids) \subseteq Deck
           /\ ids \in Orderings(Range(ids)) /\ ids \in Seq(Deck)
           /\ Len(ids) = Cardinality(Range(ids)) /\ DOMAIN ids = 1 .. Len(ids)
           /\ ids # << >> => ids[1] \in Range(ids) /\ ids[1] \in Deck
<1>1. PICK cards \in SUBSET OpenCards(p) : ids \in Orderings(cards)
  BY DEF Selections
<1>2. cards \subseteq Deck
  BY DEF OpenCards, TypeOK
<1>3. Range(ids) = cards
  BY <1>1 DEF Orderings
<1>4. /\ ids \in Seq(Deck) /\ Len(ids) = Cardinality(cards) /\ DOMAIN ids = 1 .. Len(ids)
  BY <1>1, <1>2, OrderingType
<1>5. ids # << >> => cards # {}
  <2>1. ids # << >> => 1 \in DOMAIN ids
    BY <1>4
  <2> QED BY <1>3, <2>1 DEF Range
<1> QED BY <1>1, <1>2, <1>3, <1>4, <1>5, OrderingNotEmpty

\* A pile with cards put on it is a pile whose top is the last of them.
LEMMA PileWithCards ==
    ASSUME NEW pile \in Seq(Deck), NEW order \in Seq(Deck), order # << >>
    PROVE  /\ pile \o order \in Seq(Deck)
           /\ pile \o order # << >>
           /\ Top(pile \o order) = Top(order)
           /\ Range(pile \o order) = Range(pile) \cup Range(order)
<1>1. /\ pile \o order \in Seq(Deck)
      /\ Len(pile \o order) = Len(pile) + Len(order)
      /\ Len(order) > 0
  OBVIOUS
<1>2. Top(pile \o order) = Top(order)
  BY <1>1 DEF Top
<1>3. Range(pile \o order) = Range(pile) \cup Range(order)
  <2>1. \A i \in 1 .. Len(pile) : (pile \o order)[i] = pile[i]
    OBVIOUS
  <2>2. \A i \in 1 .. Len(order) : (pile \o order)[Len(pile) + i] = order[i]
    OBVIOUS
  <2>3. \A i \in DOMAIN (pile \o order) :
           (pile \o order)[i] \in Range(pile) \cup Range(order)
    BY <1>1 DEF Range
  <2>4. Range(pile) \subseteq Range(pile \o order)
    BY <2>1, <1>1 DEF Range
  <2>5. Range(order) \subseteq Range(pile \o order)
    <3>1. ASSUME NEW i \in 1 .. Len(order)
          PROVE  Len(pile) + i \in DOMAIN (pile \o order)
      BY <1>1
    <3>2. DOMAIN order = 1 .. Len(order)
      OBVIOUS
    <3>3. ASSUME NEW i \in 1 .. Len(order)
          PROVE  order[i] \in Range(pile \o order)
      BY <2>2, <3>1 DEF Range
    <3> QED BY <3>2, <3>3 DEF Range
  <2> QED BY <2>3, <2>4, <2>5 DEF Range
<1> QED BY <1>1, <1>2, <1>3

\* The same for a single card.
LEMMA PileWithCard ==
    ASSUME NEW pile \in Seq(Deck), NEW card \in Deck
    PROVE  /\ Append(pile, card) \in Seq(Deck)
           /\ Append(pile, card) # << >>
           /\ Top(Append(pile, card)) = card
           /\ Range(Append(pile, card)) = Range(pile) \cup {card}
<1>1. /\ Append(pile, card) \in Seq(Deck)
      /\ Len(Append(pile, card)) = Len(pile) + 1
      /\ Append(pile, card)[Len(pile) + 1] = card
      /\ \A i \in 1 .. Len(pile) : Append(pile, card)[i] = pile[i]
  OBVIOUS
<1>2. Range(Append(pile, card)) = Range(pile) \cup {card}
  <2>1. DOMAIN Append(pile, card) = 1 .. Len(pile) + 1
    BY <1>1
  <2>2. DOMAIN pile = 1 .. Len(pile)
    OBVIOUS
  <2> QED BY <1>1, <2>1, <2>2 DEF Range
<1> QED BY <1>1, <1>2 DEF Top

(***************************************************************************)
(* Type correctness.                                                       *)
(***************************************************************************)

\* The end of a play keeps the types of all it changes.
LEMMA DrawAndSettleType ==
    ASSUME TypeOK, NEW p \in Players, NEW h \in SUBSET Deck, NEW again,
           turnDirection' \in {1, -1}, DrawAndSettle(p, h, again)
    PROVE  /\ drawPile' \subseteq Deck
           /\ hand' \in [Players -> SUBSET Deck]
           /\ phase' \in {Playing, Clearing, "finished"}
           /\ currentPlayerIndex' \in Players
<1>1. PICK drawn \in SUBSET drawPile :
         /\ drawPile' = drawPile \ drawn
         /\ hand' = [hand EXCEPT ![p] = h \cup drawn]
  BY DEF DrawAndSettle, Draws
<1>2. drawPile' \subseteq Deck /\ hand' \in [Players -> SUBSET Deck]
  BY <1>1 DEF TypeOK
<1>3. phase' \in {Playing, Clearing, "finished"}
  BY DEF DrawAndSettle, PhaseAfter
<1>4. currentPlayerIndex' \in Players
  BY AdvanceTurnType DEF DrawAndSettle, NextPlayer, TypeOK
<1> QED BY <1>2, <1>3, <1>4

\* So does a play as a whole.
LEMMA ResolveCardPlayType ==
    ASSUME TypeOK, NEW p \in Players, NEW rank \in Ranks, NEW pile \in Seq(Deck),
           NEW h \in SUBSET Deck, ResolveCardPlay(p, rank, pile, h),
           faceUp' \in [Players -> SUBSET Deck],
           faceDown' \in [Players -> SUBSET Deck]
    PROVE  TypeOK'
<1> DEFINE clears == ClearsPile(rank, pile)
<1>1. playPile' \in Seq(Deck)
  BY DEF ResolveCardPlay
<1>2. burnPile' \subseteq Deck
  BY RangeType DEF ResolveCardPlay, Burn, TypeOK
<1>3. turnDirection' \in {1, -1}
  BY DEF ResolveCardPlay, TypeOK
<1>4. freePlay' \in BOOLEAN /\ nextCardOverride' \in {"lower", "none"}
  BY DEF ResolveCardPlay
<1>5. /\ drawPile' \subseteq Deck
      /\ hand' \in [Players -> SUBSET Deck]
      /\ phase' \in Phases
      /\ currentPlayerIndex' \in Players
  <2>1. CASE /\ phase' = Queening
             /\ hand' = [hand EXCEPT ![p] = h]
             /\ UNCHANGED <<drawPile, currentPlayerIndex>>
    BY <2>1 DEF TypeOK, Phases
  <2>2. CASE DrawAndSettle(p, h, clears)
    BY <1>3, <2>2, DrawAndSettleType DEF Phases, Terminal
  <2> QED BY <2>1, <2>2 DEF ResolveCardPlay
<1> QED BY <1>1, <1>2, <1>3, <1>4, <1>5 DEF TypeOK

\* And taking the pile.
LEMMA TakePileType ==
    ASSUME TypeOK, NEW p \in Players, NEW pile \in Seq(Deck), TakePile(p, pile),
           faceDown' \in [Players -> SUBSET Deck]
    PROVE  TypeOK'
<1>1. Range(pile) \subseteq Deck
  BY RangeType
<1>2. hand' \in [Players -> SUBSET Deck]
  BY <1>1 DEF TakePile, TypeOK
<1>3. currentPlayerIndex' \in Players
  BY AdvanceTurnType DEF TakePile, TypeOK
<1>4. playPile' \in Seq(Deck)
  BY DEF TakePile
<1> QED BY <1>2, <1>3, <1>4 DEF TakePile, TypeOK, Phases

\* Passing the turn.
LEMMA SkipTurnType ==
    ASSUME TypeOK, SkipTurn
    PROVE  TypeOK'
BY AdvanceTurnType DEF SkipTurn, TypeOK, Phases, zones, flags

\* And a declaration, made by the player or by the timer.
LEMMA DeclareType ==
    ASSUME TypeOK, NEW p \in Players, NEW direction, Declare(p, direction)
    PROVE  TypeOK'
<1>1. turnDirection' \in {1, -1}
  BY DEF Declare, TypeOK
<1>2. drawPile' \subseteq Deck /\ hand' \in [Players -> SUBSET Deck]
  BY DEF Declare, DrawAndSettle, Draws, TypeOK
<1>3. phase' \in Phases
  BY DEF Declare, DrawAndSettle, PhaseAfter, Phases, Terminal
<1>4. currentPlayerIndex' \in Players
  BY <1>1, AdvanceTurnType DEF Declare, DrawAndSettle, NextPlayer, TypeOK
<1> QED BY <1>1, <1>2, <1>3, <1>4 DEF Declare, TypeOK

\* The state createInitialState builds is well typed.
LEMMA InitType == Init => TypeOK
<1> SUFFICES ASSUME Init PROVE TypeOK
  OBVIOUS
<1>1. DealtZones \subseteq SUBSET Deck
  BY DEF DealtZones
<1>2. currentPlayerIndex \in Players
  BY DEF Init, StartingPlayers
<1>3. /\ hand \in [Players -> SUBSET Deck]
      /\ faceUp \in [Players -> SUBSET Deck]
      /\ faceDown \in [Players -> SUBSET Deck]
  BY <1>1 DEF Init
<1>4. drawPile \subseteq Deck
  BY DEF Init
<1>5. phase \in Phases /\ playPile \in Seq(Deck) /\ burnPile \subseteq Deck
  BY DEF Init, Phases
<1> QED BY <1>2, <1>3, <1>4, <1>5 DEF Init, TypeOK

\* So is every state a step of the engine leads to.
LEMMA NextType == TypeOK /\ [Next]_vars => TypeOK'
<1> SUFFICES ASSUME TypeOK, [Next]_vars PROVE TypeOK'
  OBVIOUS
<1>1. ASSUME NEW p \in Players, NEW ids \in Selections(p), PlayCards(p, ids)
      PROVE  TypeOK'
  <2>1. ids \in Seq(Deck) /\ ids # << >> /\ ids[1] \in Deck
    BY <1>1, SelectionType DEF PlayCards, MayPlay
  <2>2. playPile \o ids \in Seq(Deck)
    BY <2>1, PileWithCards DEF TypeOK
  <2>3. RankOf[ids[1]] \in Ranks /\ hand[p] \ Range(ids) \in SUBSET Deck
    BY <2>1, DeckAssumption DEF TypeOK
  <2>4. /\ faceUp' \in [Players -> SUBSET Deck]
        /\ faceDown' \in [Players -> SUBSET Deck]
    BY <1>1 DEF PlayCards, TypeOK
  <2> QED BY <1>1, <2>2, <2>3, <2>4, ResolveCardPlayType DEF PlayCards
<1>2. ASSUME NEW p \in Players, NEW card \in faceDown[p], PlayBlind(p, card)
      PROVE  TypeOK'
  <2>1. card \in Deck /\ RankOf[card] \in Ranks
    BY DeckAssumption DEF TypeOK
  <2>2. Append(playPile, card) \in Seq(Deck) /\ hand[p] \in SUBSET Deck
    BY <2>1 DEF TypeOK
  <2>3. faceDown' \in [Players -> SUBSET Deck]
    BY <1>2 DEF PlayBlind, TypeOK
  <2>4. CASE /\ UNCHANGED faceUp
             /\ ResolveCardPlay(p, RankOf[card], Append(playPile, card), hand[p])
    <3>1. faceUp' \in [Players -> SUBSET Deck]
      BY <2>4 DEF TypeOK
    <3> QED BY <2>1, <2>2, <2>3, <2>4, <3>1, ResolveCardPlayType
  <2>5. CASE TakePile(p, Append(playPile, card))
    BY <2>2, <2>3, <2>5, TakePileType
  <2> QED BY <1>2, <2>4, <2>5 DEF PlayBlind
<1>3. ASSUME NEW p \in Players, PickUpPile(p)
      PROVE  TypeOK'
  BY <1>3, TakePileType DEF PickUpPile, TypeOK
<1>4. ASSUME NEW p \in Players, NEW direction, DeclareDirection(p, direction)
      PROVE  TypeOK'
  BY <1>4, DeclareType DEF DeclareDirection
<1>5. ASSUME NEW p \in Players, TimeoutForfeit(p)
      PROVE  TypeOK'
  <2>1. CASE Declare(p, "higher")
    BY <2>1, DeclareType
  <2>2. CASE SkipTurn
    BY <2>2, SkipTurnType
  <2>3. CASE TakePile(p, playPile) /\ UNCHANGED faceDown
    BY <2>3, TakePileType DEF TypeOK
  <2> QED BY <1>5, <2>1, <2>2, <2>3 DEF TimeoutForfeit
<1>6. CASE CancelGame
  BY <1>6 DEF CancelGame, TypeOK, Phases, Terminal, zones, flags
<1>7. CASE UNCHANGED vars
  BY <1>7 DEF vars, TypeOK
<1> QED BY <1>1, <1>2, <1>3, <1>4, <1>5, <1>6, <1>7 DEF Next, PlayerMove, TurnTimeout

\* In every reachable state of every game the engine's state is well typed; in
\* particular the turn is always at a seat of the table, whichever way and
\* however often play changed direction (advanceTurn), and every card is one
\* of the deck's.
THEOREM TypeCorrect == Spec => []TypeOK
BY InitType, NextType, PTL DEF Spec

(***************************************************************************)
(* The pile, its flags and the phase.                                      *)
(***************************************************************************)

\* What PlayCards hands to resolveCardPlay: a pile whose top card has the rank
\* that was played.
LEMMA PlayCardsPile ==
    ASSUME TypeOK, NEW p \in Players, NEW ids \in Selections(p), MayPlay(p, ids)
    PROVE  /\ playPile \o ids \in Seq(Deck) /\ playPile \o ids # << >>
           /\ Top(playPile \o ids) \in Range(ids)
           /\ RankOf[Top(playPile \o ids)] = RankOf[ids[1]]
           /\ RankOf[ids[1]] \in Ranks
           /\ Range(playPile \o ids) = Range(playPile) \cup Range(ids)
<1>1. /\ ids \in Seq(Deck) /\ ids # << >> /\ ids[1] \in Deck
      /\ DOMAIN ids = 1 .. Len(ids)
  BY SelectionType DEF MayPlay
<1>2. Top(ids) \in Range(ids) /\ RankOf[Top(ids)] = RankOf[ids[1]]
  <2>1. Len(ids) \in DOMAIN ids
    BY <1>1
  <2> QED BY <1>1, <2>1 DEF Top, Range, MayPlay
<1>3. /\ playPile \o ids \in Seq(Deck) /\ playPile \o ids # << >>
      /\ Top(playPile \o ids) = Top(ids)
      /\ Range(playPile \o ids) = Range(playPile) \cup Range(ids)
  BY <1>1, PileWithCards DEF TypeOK
<1>4. RankOf[ids[1]] \in Ranks
  BY <1>1, DeckAssumption
<1> QED BY <1>2, <1>3, <1>4

PileInv == FlagsMatchPile /\ PhaseMatchesPile /\ SbobuzAlwaysWins

LEMMA EmptyPileNoSbobuz == ~CheckSbobuz(<< >>)
BY SbobuzAssumption DEF CheckSbobuz

\* A play leaves the flags of its own card and a phase that fits the pile, and
\* no Sbobuz.
LEMMA ResolveCardPlayPile ==
    ASSUME NEW p, NEW rank \in Ranks, NEW pile, NEW h, pile # << >>,
           RankOf[Top(pile)] = rank, ResolveCardPlay(p, rank, pile, h)
    PROVE  PileInv'
<1> DEFINE clears == ClearsPile(rank, pile)
<1>1. /\ clears => playPile' = << >>
      /\ ~clears => playPile' = pile
      /\ freePlay' => ~CheckSbobuz(pile) /\ rank \in {Two, Joker}
      /\ nextCardOverride' = "none"
  BY DEF ResolveCardPlay
<1>2. phase' = Queening => rank = Queen /\ ~CheckSbobuz(pile)
  BY DEF ResolveCardPlay, DrawAndSettle, PhaseAfter, AwaitsDeclaration,
         Queening, Clearing, Playing
<1>3. phase' = Clearing => clears
  BY DEF ResolveCardPlay, DrawAndSettle, PhaseAfter, Queening, Clearing, Playing
<1>4. FlagsMatchPile'
  <2>1. freePlay' => playPile' = pile /\ rank \in {Two, Joker}
    BY <1>1 DEF ClearsPile, Two, King, Joker, Ranks
  <2>2. freePlay' => playPile' # << >> /\ RankOf[Top(playPile')] \in {Two, Joker}
    BY <2>1
  <2> QED BY <1>1, <2>2 DEF FlagsMatchPile
<1>5. PhaseMatchesPile'
  <2>1. phase' = Queening => playPile' = pile /\ rank = Queen /\ ~freePlay'
    BY <1>1, <1>2 DEF ClearsPile, Two, Queen, King, Joker, Ranks
  <2>2. phase' = Clearing => playPile' = << >> /\ ~freePlay'
    BY <1>1, <1>3 DEF ClearsPile, Two, King, Joker, Ranks
  <2> QED BY <1>1, <2>1, <2>2 DEF PhaseMatchesPile
<1>6. SbobuzAlwaysWins'
  BY <1>1, EmptyPileNoSbobuz DEF ClearsPile, SbobuzAlwaysWins
<1> QED BY <1>4, <1>5, <1>6 DEF PileInv

LEMMA TakePilePile ==
    ASSUME NEW p, NEW pile, TakePile(p, pile)
    PROVE  PileInv'
BY EmptyPileNoSbobuz DEF TakePile, PileInv, FlagsMatchPile, PhaseMatchesPile,
   SbobuzAlwaysWins, Playing, Queening, Clearing

LEMMA DeclarePile ==
    ASSUME PileInv, phase = Queening, NEW p, NEW direction, Declare(p, direction)
    PROVE  PileInv'
<1>1. phase' \notin {Queening, Clearing}
  BY DEF Declare, DrawAndSettle, PhaseAfter, Playing, Queening, Clearing
<1> QED BY <1>1 DEF Declare, PileInv, FlagsMatchPile, PhaseMatchesPile, SbobuzAlwaysWins

LEMMA SkipTurnPile ==
    ASSUME PileInv, SkipTurn
    PROVE  PileInv'
BY DEF SkipTurn, flags, PileInv, FlagsMatchPile, PhaseMatchesPile, SbobuzAlwaysWins,
   Playing, Queening, Clearing

LEMMA NextPile == TypeOK /\ PileInv /\ [Next]_vars => PileInv'
<1> SUFFICES ASSUME TypeOK, PileInv, [Next]_vars PROVE PileInv'
  OBVIOUS
<1>1. ASSUME NEW p \in Players, NEW ids \in Selections(p), PlayCards(p, ids)
      PROVE  PileInv'
  BY <1>1, PlayCardsPile, ResolveCardPlayPile DEF PlayCards
<1>2. ASSUME NEW p \in Players, NEW card \in faceDown[p], PlayBlind(p, card)
      PROVE  PileInv'
  <2>1. card \in Deck /\ RankOf[card] \in Ranks
    BY DeckAssumption DEF TypeOK
  <2>2. Append(playPile, card) # << >> /\ Top(Append(playPile, card)) = card
    BY <2>1, PileWithCard DEF TypeOK
  <2>3. CASE ResolveCardPlay(p, RankOf[card], Append(playPile, card), hand[p])
    BY <2>1, <2>2, <2>3, ResolveCardPlayPile
  <2>4. CASE TakePile(p, Append(playPile, card))
    BY <2>4, TakePilePile
  <2> QED BY <1>2, <2>3, <2>4 DEF PlayBlind
<1>3. ASSUME NEW p \in Players, PickUpPile(p)
      PROVE  PileInv'
  BY <1>3, TakePilePile DEF PickUpPile
<1>4. ASSUME NEW p \in Players, NEW direction, DeclareDirection(p, direction)
      PROVE  PileInv'
  BY <1>4, DeclarePile DEF DeclareDirection, MayAct
<1>5. ASSUME NEW p \in Players, TimeoutForfeit(p)
      PROVE  PileInv'
  BY <1>5, DeclarePile, SkipTurnPile, TakePilePile DEF TimeoutForfeit
<1>6. CASE CancelGame
  BY <1>6 DEF CancelGame, PileInv, FlagsMatchPile, PhaseMatchesPile, SbobuzAlwaysWins,
              flags, Queening, Clearing
<1>7. CASE UNCHANGED vars
  BY <1>7 DEF vars, PileInv, FlagsMatchPile, PhaseMatchesPile, SbobuzAlwaysWins
<1> QED BY <1>1, <1>2, <1>3, <1>4, <1>5, <1>6, <1>7 DEF Next, PlayerMove, TurnTimeout

LEMMA InitPile == Init => PileInv
BY EmptyPileNoSbobuz DEF Init, PileInv, FlagsMatchPile, PhaseMatchesPile,
   SbobuzAlwaysWins, Playing, Queening, Clearing

LEMMA PileCorrect == Spec => []PileInv
BY InitPile, NextPile, TypeCorrect, PTL DEF Spec

\* Free play and the "lower" rule of a Queen never outlive the card that set
\* them, through plays, blind reveals, pick-ups, burns and timeouts.
THEOREM FlagsBelongToTopCard == Spec => []FlagsMatchPile
BY PileCorrect, PTL DEF PileInv

\* A declaration is awaited only for a Queen on top of the pile, a second play
\* only on an empty one.  It is what makes the declaration of a timed-out
\* player (reduceTimeoutForfeit) safe: a Queen is there to be declared.
THEOREM PhaseFitsPile == Spec => []PhaseMatchesPile
BY PileCorrect, PTL DEF PileInv

\* No Sbobuz is ever left on the pile, for every deck and Sbobuz size.
THEOREM NoSbobuzLeft == Spec => []SbobuzAlwaysWins
BY PileCorrect, PTL DEF PileInv

-----------------------------------------------------------------------------
(***************************************************************************)
(* Where the cards are: none is lost or duplicated, and each moves only as *)
(* CardFlow lets it.                                                       *)
(*                                                                         *)
(* Moving cards about.  Each lemma moves some cards between two places of  *)
(* a partition and yields a partition.                                     *)
(***************************************************************************)

\* A player's cards go to the table.
LEMMA CardsToTable ==
    ASSUME NEW p \in Players,
           NEW h, NEW u, NEW d, NEW draw, NEW table, NEW burn,
           h \in [Players -> SUBSET Deck],
           u \in [Players -> SUBSET Deck], d \in [Players -> SUBSET Deck],
           Partition(h, u, d, draw, table, burn),
           NEW cards, cards \subseteq h[p] \cup u[p] \cup d[p]
    PROVE  Partition([h EXCEPT ![p] = @ \ cards], [u EXCEPT ![p] = @ \ cards],
                     [d EXCEPT ![p] = @ \ cards], draw, table \cup cards, burn)
<1> DEFINE h1 == [h EXCEPT ![p] = @ \ cards]
           u1 == [u EXCEPT ![p] = @ \ cards]
           d1 == [d EXCEPT ![p] = @ \ cards]
<1>1. /\ h1[p] = h[p] \ cards /\ u1[p] = u[p] \ cards /\ d1[p] = d[p] \ cards
      /\ \A q \in Players \ {p} : h1[q] = h[q] /\ u1[q] = u[q] /\ d1[q] = d[q]
  OBVIOUS
<1>2. \A q \in Players : cards \cap (h1[q] \cup u1[q] \cup d1[q]) = {}
  BY <1>1 DEF Partition
<1>3. \A q \in Players : h1[q] \subseteq h[q] /\ u1[q] \subseteq u[q] /\ d1[q] \subseteq d[q]
  BY <1>1
<1>4. cards \cap (draw \cup table \cup burn) = {}
  BY DEF Partition
<1> HIDE DEF h1, u1, d1
<1>5. ASSUME NEW q \in Players
      PROVE  /\ h1[q] \cap u1[q] = {} /\ h1[q] \cap d1[q] = {} /\ u1[q] \cap d1[q] = {}
             /\ (h1[q] \cup u1[q] \cup d1[q]) \cap (draw \cup (table \cup cards) \cup burn) = {}
             /\ \A r \in Players \ {q} :
                   (h1[q] \cup u1[q] \cup d1[q]) \cap (h1[r] \cup u1[r] \cup d1[r]) = {}
  BY <1>2, <1>3 DEF Partition
<1>6. /\ draw \cap (table \cup cards) = {} /\ draw \cap burn = {}
      /\ (table \cup cards) \cap burn = {}
  BY <1>4 DEF Partition
<1>7. Deck = draw \cup (table \cup cards) \cup burn
                  \cup UNION {h1[q] \cup u1[q] \cup d1[q] : q \in Players}
  <2>1. cards \subseteq Deck
    OBVIOUS
  <2>2. UNION {h1[q] \cup u1[q] \cup d1[q] : q \in Players} \subseteq Deck
    BY <1>3
  <2>3. ASSUME NEW q \in Players
        PROVE  h[q] \cup u[q] \cup d[q] \subseteq cards \cup (h1[q] \cup u1[q] \cup d1[q])
    BY <1>1
  <2>4. UNION {h[q] \cup u[q] \cup d[q] : q \in Players}
           \subseteq cards \cup UNION {h1[q] \cup u1[q] \cup d1[q] : q \in Players}
    BY <2>3
  <2> QED BY <2>1, <2>2, <2>4 DEF Partition
<1>8. Partition(h1, u1, d1, draw, table \cup cards, burn)
  BY <1>5, <1>6, <1>7 DEF Partition
<1> QED BY <1>8 DEF h1, u1, d1

\* A player takes cards, from the draw pile or from the table.
LEMMA CardsToHand ==
    ASSUME NEW p \in Players,
           NEW h, NEW u, NEW d, NEW draw, NEW table, NEW burn,
           h \in [Players -> SUBSET Deck],
           Partition(h, u, d, draw, table, burn),
           NEW cards, cards \subseteq draw \cup table
    PROVE  Partition([h EXCEPT ![p] = @ \cup cards], u, d,
                     draw \ cards, table \ cards, burn)
<1> DEFINE h1 == [h EXCEPT ![p] = @ \cup cards]
<1>1. h1[p] = h[p] \cup cards /\ \A q \in Players \ {p} : h1[q] = h[q]
  OBVIOUS
<1> HIDE DEF h1
<1>2. ASSUME NEW q \in Players
      PROVE  /\ h1[q] \cap u[q] = {} /\ h1[q] \cap d[q] = {} /\ u[q] \cap d[q] = {}
             /\ (h1[q] \cup u[q] \cup d[q])
                   \cap ((draw \ cards) \cup (table \ cards) \cup burn) = {}
  BY <1>1 DEF Partition
<1>3. ASSUME NEW q \in Players, NEW r \in Players \ {q}
      PROVE  (h1[q] \cup u[q] \cup d[q]) \cap (h1[r] \cup u[r] \cup d[r]) = {}
  <2>1. CASE q = p
    BY <1>1, <2>1 DEF Partition
  <2>2. CASE r = p
    BY <1>1, <2>2 DEF Partition
  <2>3. CASE q # p /\ r # p
    BY <1>1, <2>3 DEF Partition
  <2> QED BY <2>1, <2>2, <2>3
<1>4. /\ (draw \ cards) \cap (table \ cards) = {} /\ (draw \ cards) \cap burn = {}
      /\ (table \ cards) \cap burn = {}
  BY DEF Partition
<1>5. UNION {h1[q] \cup u[q] \cup d[q] : q \in Players}
         = cards \cup UNION {h[q] \cup u[q] \cup d[q] : q \in Players}
  BY <1>1
<1>6. Deck = (draw \ cards) \cup (table \ cards) \cup burn
                \cup UNION {h1[q] \cup u[q] \cup d[q] : q \in Players}
  BY <1>5 DEF Partition
<1>7. Partition(h1, u, d, draw \ cards, table \ cards, burn)
  BY <1>2, <1>3, <1>4, <1>6 DEF Partition
<1> QED BY <1>7 DEF h1

\* The table is burnt.
LEMMA TableBurnt ==
    ASSUME NEW h, NEW u, NEW d, NEW draw, NEW table, NEW burn,
           Partition(h, u, d, draw, table, burn)
    PROVE  Partition(h, u, d, draw, {}, burn \cup table)
BY DEF Partition

(***************************************************************************)
(* The pile as a sequence without repetition.                              *)
(***************************************************************************)

\* An ordering of cards names each once.
LEMMA OrderingInjective ==
    ASSUME NEW cards \in SUBSET Deck, NEW order \in Orderings(cards)
    PROVE  IsInjective(order)
<1> DEFINE n == Cardinality(cards)
<1>1. IsFiniteSet(cards) /\ n \in Nat
  BY DeckAssumption, FS_Subset, FS_CardinalityType
<1>2. IsFiniteSet(1 .. n) /\ Cardinality(1 .. n) = n
  BY <1>1, FS_Interval
<1>3. order \in [1 .. n -> cards] /\ \A c \in cards : \E i \in 1 .. n : order[i] = c
  BY DEF Orderings, Range
<1>4. order \in Surjection(1 .. n, cards)
  BY <1>3 DEF Surjection
<1>5. order \in Injection(1 .. n, cards)
  BY <1>1, <1>2, <1>4, FS_SurjSameCardinalityImpliesInj
<1> QED BY <1>5 DEF Injection, IsInjective

\* Cards put on a pile of other cards leave every card on it once.
LEMMA PileInjective ==
    ASSUME NEW pile \in Seq(Deck), NEW order \in Seq(Deck),
           IsInjective(pile), IsInjective(order), Range(pile) \cap Range(order) = {}
    PROVE  IsInjective(pile \o order)
<1> DEFINE both == pile \o order
<1>1. DOMAIN both = 1 .. Len(pile) + Len(order)
  OBVIOUS
<1>2. \A i \in DOMAIN both : both[i] = IF i =< Len(pile) THEN pile[i] ELSE order[i - Len(pile)]
  OBVIOUS
<1>3. DOMAIN pile = 1 .. Len(pile) /\ DOMAIN order = 1 .. Len(order)
  OBVIOUS
<1>4. Len(pile) \in Nat /\ Len(order) \in Nat
  OBVIOUS
<1>5. \A i \in 1 .. Len(pile), j \in 1 .. Len(order) : pile[i] # order[j]
  BY <1>3 DEF Range
<1> HIDE DEF both
<1>6. ASSUME NEW i \in DOMAIN both, NEW j \in DOMAIN both, both[i] = both[j]
      PROVE  i = j
  <2>1. CASE i =< Len(pile) /\ j =< Len(pile)
    BY <1>1, <1>2, <1>3, <1>4, <1>6, <2>1 DEF IsInjective
  <2>2. CASE i > Len(pile) /\ j > Len(pile)
    <3>1. i - Len(pile) \in DOMAIN order /\ j - Len(pile) \in DOMAIN order
      BY <1>1, <1>3, <1>4, <2>2
    <3>2. order[i - Len(pile)] = order[j - Len(pile)]
      BY <1>1, <1>2, <1>4, <1>6, <2>2
    <3>3. i - Len(pile) = j - Len(pile)
      BY <3>1, <3>2 DEF IsInjective
    <3> QED BY <1>1, <1>4, <3>3
  <2>3. CASE i =< Len(pile) /\ j > Len(pile)
    BY <1>1, <1>2, <1>4, <1>5, <1>6, <2>3
  <2>4. CASE i > Len(pile) /\ j =< Len(pile)
    BY <1>1, <1>2, <1>4, <1>5, <1>6, <2>4
  <2> QED BY <1>1, <1>4, <2>1, <2>2, <2>3, <2>4
<1>7. IsInjective(both)
  BY <1>6 DEF IsInjective
<1> QED BY <1>7 DEF both

(***************************************************************************)
(* The steps.                                                              *)
(***************************************************************************)

\* Drawing at the end of a play or a declaration.
LEMMA DrawKeepsCards ==
    ASSUME NEW p \in Players, NEW h \in [Players -> SUBSET Deck], NEW u, NEW d,
           NEW table, NEW burn, NEW again, NEW held, held = h[p],
           Partition(h, u, d, drawPile, table, burn),
           \A q \in Players \ {p} : h[q] = hand[q],
           hand \in [Players -> SUBSET Deck],
           DrawAndSettle(p, held, again)
    PROVE  Partition(hand', u, d, drawPile', table, burn)
<1>1. PICK drawn \in SUBSET drawPile :
         /\ drawPile' = drawPile \ drawn
         /\ hand' = [hand EXCEPT ![p] = held \cup drawn]
  BY DEF DrawAndSettle, Draws
<1>2. hand' = [h EXCEPT ![p] = @ \cup drawn]
  BY <1>1
<1>3. table \ drawn = table
  BY <1>1 DEF Partition
<1>4. Partition([h EXCEPT ![p] = @ \cup drawn], u, d, drawPile \ drawn, table \ drawn, burn)
  <2>1. drawn \subseteq drawPile \cup table
    OBVIOUS
  <2> QED BY <2>1, CardsToHand
<1> QED BY <1>1, <1>2, <1>3, <1>4

\* A play: the cards leave the player's zones for the pile, which may be burnt.
LEMMA ResolveKeepsCards ==
    ASSUME TypeOK, CardsConserved, NEW p \in Players, NEW rank, NEW cards, NEW pile,
           cards \subseteq hand[p] \cup faceUp[p] \cup faceDown[p],
           IsInjective(pile), Range(pile) = Range(playPile) \cup cards,
           NEW h, h = hand[p] \ cards,
           ResolveCardPlay(p, rank, pile, h),
           faceUp' = [faceUp EXCEPT ![p] = @ \ cards],
           faceDown' = [faceDown EXCEPT ![p] = @ \ cards]
    PROVE  CardsConserved'
<1> DEFINE h1 == [hand EXCEPT ![p] = @ \ cards]
           clears == ClearsPile(rank, pile)
<1>1. Partition(h1, faceUp', faceDown', drawPile, Range(pile), burnPile)
  <2>1. /\ hand \in [Players -> SUBSET Deck]
        /\ faceUp \in [Players -> SUBSET Deck]
        /\ faceDown \in [Players -> SUBSET Deck]
        /\ Partition(hand, faceUp, faceDown, drawPile, Range(playPile), burnPile)
    BY DEF TypeOK, CardsConserved
  <2>2. Partition(h1, [faceUp EXCEPT ![p] = @ \ cards], [faceDown EXCEPT ![p] = @ \ cards],
                  drawPile, Range(playPile) \cup cards, burnPile)
    BY <2>1, CardsToTable
  <2> QED BY <2>2
<1>2. Partition(h1, faceUp', faceDown', drawPile, {}, burnPile \cup Range(pile))
  BY <1>1, TableBurnt
<1>3. Range(<< >>) = {} /\ IsInjective(<< >>)
  BY DEF Range, IsInjective
<1>4. \/ playPile' = pile /\ burnPile' = burnPile
      \/ playPile' = << >> /\ burnPile' = burnPile \cup Range(pile)
  BY DEF ResolveCardPlay, Burn
<1>5. /\ Partition(h1, faceUp', faceDown', drawPile, Range(playPile'), burnPile')
      /\ IsInjective(playPile')
  BY <1>1, <1>2, <1>3, <1>4
<1>6. h1 \in [Players -> SUBSET Deck] /\ h1[p] = h /\ \A q \in Players \ {p} : h1[q] = hand[q]
  BY DEF TypeOK
<1> HIDE DEF h1
<1>7. Partition(hand', faceUp', faceDown', drawPile', Range(playPile'), burnPile')
  <2>1. CASE hand' = [hand EXCEPT ![p] = h] /\ UNCHANGED drawPile
    <3>1. hand' = h1
      BY <2>1 DEF h1
    <3> QED BY <1>5, <2>1, <3>1
  <2>2. CASE DrawAndSettle(p, h, clears)
    BY <1>5, <1>6, <2>2, DrawKeepsCards DEF TypeOK
  <2> QED BY <2>1, <2>2 DEF ResolveCardPlay
<1> QED BY <1>5, <1>7 DEF CardsConserved, Partition, Range, IsInjective

\* Taking the pile, with the card revealed in vain if there is one.
LEMMA TakeKeepsCards ==
    ASSUME TypeOK, CardsConserved, NEW p \in Players, NEW cards, NEW pile,
           cards \subseteq faceDown[p], Range(pile) = Range(playPile) \cup cards,
           TakePile(p, pile), faceDown' = [faceDown EXCEPT ![p] = @ \ cards]
    PROVE  CardsConserved'
<1>1. /\ hand \in [Players -> SUBSET Deck]
      /\ faceUp \in [Players -> SUBSET Deck]
      /\ faceDown \in [Players -> SUBSET Deck]
      /\ Partition(hand, faceUp, faceDown, drawPile, Range(playPile), burnPile)
  BY DEF TypeOK, CardsConserved
<1>2. Partition([hand EXCEPT ![p] = @ \ cards], [faceUp EXCEPT ![p] = @ \ cards],
                [faceDown EXCEPT ![p] = @ \ cards],
                drawPile, Range(playPile) \cup cards, burnPile)
  BY <1>1, CardsToTable
<1>3. hand[p] \ cards = hand[p] /\ faceUp[p] \ cards = faceUp[p]
  BY <1>1 DEF Partition
<1>4. /\ [hand EXCEPT ![p] = @ \ cards] = hand
      /\ [faceUp EXCEPT ![p] = @ \ cards] = faceUp
  BY <1>1, <1>3
<1>5. Partition(hand, faceUp, faceDown', drawPile, Range(pile), burnPile)
  BY <1>2, <1>4
<1>6. Partition([hand EXCEPT ![p] = @ \cup Range(pile)], faceUp, faceDown',
                drawPile \ Range(pile), Range(pile) \ Range(pile), burnPile)
  <2>1. Range(pile) \subseteq drawPile \cup Range(pile)
    OBVIOUS
  <2> QED BY <1>1, <1>5, <2>1, CardsToHand
<1>7. drawPile \ Range(pile) = drawPile
  BY <1>5 DEF Partition
<1>8. Range(pile) \ Range(pile) = Range(<< >>) /\ IsInjective(<< >>)
  BY DEF Range, IsInjective
<1>9. Partition(hand', faceUp', faceDown', drawPile', Range(playPile'), burnPile')
  BY <1>6, <1>7, <1>8 DEF TakePile
<1>10. IsInjective(playPile')
  BY <1>8 DEF TakePile
<1> QED BY <1>9, <1>10 DEF CardsConserved, Partition, Range, IsInjective

\* A declaration moves no card but those drawn.
LEMMA DeclareKeepsCards ==
    ASSUME TypeOK, CardsConserved, NEW p \in Players, NEW direction, Declare(p, direction)
    PROVE  CardsConserved'
<1>1. PICK drawn \in SUBSET drawPile :
         /\ drawPile' = drawPile \ drawn
         /\ hand' = [hand EXCEPT ![p] = @ \cup drawn]
  BY DEF Declare, DrawAndSettle, Draws, TypeOK
<1>2. /\ hand \in [Players -> SUBSET Deck]
      /\ Partition(hand, faceUp, faceDown, drawPile, Range(playPile), burnPile)
      /\ drawn \subseteq drawPile \cup Range(playPile)
  BY DEF TypeOK, CardsConserved
<1>3. Partition([hand EXCEPT ![p] = @ \cup drawn], faceUp, faceDown,
                drawPile \ drawn, Range(playPile) \ drawn, burnPile)
  BY <1>2, CardsToHand
<1>4. Range(playPile) \ drawn = Range(playPile)
  BY <1>2 DEF Partition
<1>5. /\ Partition(hand', faceUp', faceDown', drawPile', Range(playPile'), burnPile')
      /\ IsInjective(playPile')
  BY <1>1, <1>3, <1>4 DEF Declare, CardsConserved
<1> QED BY <1>5 DEF CardsConserved, Partition, Range, IsInjective

LEMMA NextKeepsCards == TypeOK /\ CardsConserved /\ [Next]_vars => CardsConserved'
<1> SUFFICES ASSUME TypeOK, CardsConserved, [Next]_vars PROVE CardsConserved'
  OBVIOUS
<1> USE DEF TypeOK
<1>1. ASSUME NEW p \in Players, NEW ids \in Selections(p), PlayCards(p, ids)
      PROVE  CardsConserved'
  <2> DEFINE cards == Range(ids)
  <2>1. cards \subseteq Deck /\ cards \subseteq hand[p] \cup faceUp[p]
    BY <1>1, SelectionType DEF OpenCards
  <2>2. ids \in Seq(Deck) /\ IsInjective(ids)
    BY <2>1, SelectionType, OrderingInjective
  <2>3. Range(playPile) \cap cards = {}
    BY <2>1 DEF CardsConserved, Partition
  <2>4. IsInjective(playPile \o ids)
    BY <2>2, <2>3, PileInjective DEF CardsConserved
  <2>5. Range(playPile \o ids) = Range(playPile) \cup cards
    BY <1>1, PlayCardsPile DEF PlayCards
  <2>6. faceDown[p] \ cards = faceDown[p]
    BY <2>1 DEF CardsConserved, Partition
  <2>7. /\ faceUp' = [faceUp EXCEPT ![p] = @ \ cards]
        /\ faceDown' = [faceDown EXCEPT ![p] = @ \ cards]
        /\ ResolveCardPlay(p, RankOf[ids[1]], playPile \o ids, hand[p] \ cards)
    BY <1>1, <2>6 DEF PlayCards
  <2> HIDE DEF cards
  <2> QED BY <2>1, <2>4, <2>5, <2>7, ResolveKeepsCards
<1>2. ASSUME NEW p \in Players, NEW card \in faceDown[p], PlayBlind(p, card)
      PROVE  CardsConserved'
  <2>1. card \in Deck /\ faceDown' = [faceDown EXCEPT ![p] = @ \ {card}]
    BY <1>2 DEF PlayBlind
  <2>2. /\ Append(playPile, card) = playPile \o << card >>
        /\ << card >> \in Seq(Deck) /\ IsInjective(<< card >>)
    BY <2>1 DEF IsInjective
  <2>3. Range(Append(playPile, card)) = Range(playPile) \cup {card}
    BY <2>1, PileWithCard
  <2>4. CASE /\ UNCHANGED faceUp
             /\ ResolveCardPlay(p, RankOf[card], Append(playPile, card), hand[p])
    <3>1. hand[p] \ {card} = hand[p] /\ faceUp[p] \ {card} = faceUp[p]
      BY DEF CardsConserved, Partition
    <3>2. faceUp' = [faceUp EXCEPT ![p] = @ \ {card}]
      BY <2>4, <3>1
    <3>3. Range(playPile) \cap Range(<< card >>) = {}
      BY <2>1 DEF CardsConserved, Partition, Range
    <3>4. IsInjective(Append(playPile, card))
      BY <2>2, <3>3, PileInjective DEF CardsConserved
    <3> QED BY <2>1, <2>3, <2>4, <3>1, <3>2, <3>4, ResolveKeepsCards
  <2>5. CASE TakePile(p, Append(playPile, card))
    <3>1. {card} \subseteq faceDown[p]
      OBVIOUS
    <3> HIDE DEF TypeOK
    <3> QED BY <2>1, <2>3, <2>5, <3>1, TakeKeepsCards
  <2> QED BY <1>2, <2>4, <2>5 DEF PlayBlind
<1>3. ASSUME NEW p \in Players, TakePile(p, playPile), UNCHANGED faceDown
      PROVE  CardsConserved'
  <2>1. PICK none : none = {}
    OBVIOUS
  <2>2. /\ none \subseteq faceDown[p] /\ Range(playPile) = Range(playPile) \cup none
        /\ faceDown' = [faceDown EXCEPT ![p] = @ \ none]
    BY <1>3, <2>1
  <2> HIDE DEF TypeOK
  <2> QED BY <1>3, <2>2, TakeKeepsCards
<1>4. ASSUME SkipTurn PROVE CardsConserved'
  BY <1>4 DEF SkipTurn, zones, CardsConserved, Partition, Range, IsInjective
<1>5. ASSUME NEW p \in Players, NEW direction, DeclareDirection(p, direction)
      PROVE  CardsConserved'
  BY <1>5, DeclareKeepsCards DEF DeclareDirection
<1>6. ASSUME NEW p \in Players, TimeoutForfeit(p)
      PROVE  CardsConserved'
  BY <1>3, <1>4, <1>6, DeclareKeepsCards DEF TimeoutForfeit
<1>7. CASE CancelGame
  BY <1>7 DEF CancelGame, zones, CardsConserved, Partition, Range, IsInjective
<1>8. CASE UNCHANGED vars
  BY <1>8 DEF vars, CardsConserved, Partition, Range, IsInjective
<1> QED BY <1>1, <1>2, <1>3, <1>5, <1>6, <1>7, <1>8
        DEF Next, PlayerMove, TurnTimeout, PickUpPile

LEMMA InitCards == Init => CardsConserved
<1> SUFFICES ASSUME Init PROVE CardsConserved
  OBVIOUS
<1>1. Range(playPile) = {} /\ IsInjective(playPile)
  BY DEF Init, Range, IsInjective
<1>2. \A p \in Players : /\ hand[p] \subseteq Dealt(hand)
                         /\ faceUp[p] \subseteq Dealt(faceUp)
                         /\ faceDown[p] \subseteq Dealt(faceDown)
  BY DEF Dealt
<1>3. Dealt(hand) \cup Dealt(faceUp) \cup Dealt(faceDown)
         = UNION {hand[p] \cup faceUp[p] \cup faceDown[p] : p \in Players}
  BY DEF Dealt
<1>4. Dealt(hand) \cup Dealt(faceUp) \cup Dealt(faceDown) \subseteq Deck
  BY InitType DEF Dealt, TypeOK
<1>5. ASSUME NEW p \in Players
      PROVE  /\ hand[p] \cap faceUp[p] = {} /\ hand[p] \cap faceDown[p] = {}
             /\ faceUp[p] \cap faceDown[p] = {}
             /\ (hand[p] \cup faceUp[p] \cup faceDown[p]) \cap drawPile = {}
  BY <1>2 DEF Init, Disjoint
<1>6. ASSUME NEW p \in Players, NEW q \in Players \ {p}
      PROVE  (hand[p] \cup faceUp[p] \cup faceDown[p])
                \cap (hand[q] \cup faceUp[q] \cup faceDown[q]) = {}
  BY <1>2 DEF Init, Disjoint
<1>7. burnPile = {}
  BY DEF Init
<1>8. Deck = drawPile \cup Range(playPile) \cup burnPile
                \cup UNION {hand[p] \cup faceUp[p] \cup faceDown[p] : p \in Players}
  BY <1>1, <1>3, <1>4, <1>7 DEF Init
<1> QED BY <1>1, <1>5, <1>6, <1>7, <1>8 DEF CardsConserved, Partition

\* In every game, with any deck and number of players, each card is in exactly
\* one place: no play, reveal, pick-up, burn or draw loses or duplicates one, as
\* long as no play names a card twice, which no board does (Selections).
THEOREM NoCardLost == Spec => []CardsConserved
BY InitCards, NextKeepsCards, TypeCorrect, PTL DEF Spec

(***************************************************************************)
(* The flow of cards.                                                      *)
(***************************************************************************)

\* What a player holds after a step that touches only his cards.
HeldBecomes(p, cards) ==
    \A q \in Players : Held(q)' = IF q = p THEN cards ELSE Held(q)

LEMMA FlowPlay ==
    ASSUME NEW p \in Players, NEW cards, cards \subseteq Held(p), cards # {},
           NEW drawn \in SUBSET drawPile,
           HeldBecomes(p, (Held(p) \ cards) \cup drawn), drawPile' = drawPile \ drawn,
           \/ Range(playPile)' = Range(playPile) \cup cards /\ burnPile' = burnPile
           \/ Range(playPile)' = {} /\ burnPile' = burnPile \cup Range(playPile) \cup cards,
           phase' = "finished" <=> drawPile' = {} /\ Held(p)' = {},
           phase' # "cancelled"
    PROVE  Flow!Play(p)
<1> DEFINE held == [q \in Players |-> Held(q)]
<1>1. held[p] = Held(p) /\ held'[p] = Held(p)'
  OBVIOUS
<1>2. held' = [held EXCEPT ![p] = (@ \ cards) \cup drawn]
  BY DEF HeldBecomes
<1>3. cards \in (SUBSET held[p]) \ {{}}
  BY <1>1
<1>4. Flow!Settle(p)
  BY <1>1 DEF Flow!Settle
<1> QED BY <1>2, <1>3, <1>4 DEF Flow!Play

LEMMA FlowPlayLast ==
    ASSUME NEW p \in Players, drawPile = {}, Held(p) # {},
           HeldBecomes(p, {}), Range(playPile)' = Range(playPile) \cup Held(p),
           UNCHANGED <<drawPile, burnPile>>,
           phase \notin Terminal, phase' \notin Terminal
    PROVE  Flow!PlayLast(p)
<1> DEFINE held == [q \in Players |-> Held(q)]
<1>1. held[p] = Held(p) /\ held' = [held EXCEPT ![p] = {}]
  BY DEF HeldBecomes
<1> QED BY <1>1 DEF Flow!PlayLast, Terminal

LEMMA FlowDraw ==
    ASSUME NEW p \in Players, NEW drawn \in SUBSET drawPile,
           HeldBecomes(p, Held(p) \cup drawn), drawPile' = drawPile \ drawn,
           UNCHANGED <<playPile, burnPile>>,
           phase' = "finished" <=> drawPile' = {} /\ Held(p)' = {},
           phase' # "cancelled"
    PROVE  Flow!Draw(p)
<1> DEFINE held == [q \in Players |-> Held(q)]
<1>1. /\ held[p] = Held(p) /\ held'[p] = Held(p)'
      /\ held' = [held EXCEPT ![p] = @ \cup drawn]
  BY DEF HeldBecomes
<1>2. Flow!Settle(p)
  BY <1>1 DEF Flow!Settle
<1>3. UNCHANGED Range(playPile)
  BY DEF Range
<1> QED BY <1>1, <1>2, <1>3 DEF Flow!Draw

LEMMA FlowPickUp ==
    ASSUME NEW p \in Players, Range(playPile) # {}, Range(playPile)' = {},
           HeldBecomes(p, Held(p) \cup Range(playPile)),
           UNCHANGED <<drawPile, burnPile>>,
           phase \notin Terminal, phase' \notin Terminal
    PROVE  Flow!PickUp(p)
<1> DEFINE held == [q \in Players |-> Held(q)]
<1>1. held' = [held EXCEPT ![p] = @ \cup Range(playPile)]
  BY DEF HeldBecomes
<1> QED BY <1>1 DEF Flow!PickUp, Terminal

\* The end of a play or of a declaration.
LEMMA SettleFlows ==
    ASSUME TypeOK, NEW p \in Players, NEW h \in SUBSET Deck, NEW again, DrawAndSettle(p, h, again)
    PROVE  \E drawn \in SUBSET drawPile :
              /\ drawPile' = drawPile \ drawn
              /\ hand' = [hand EXCEPT ![p] = h \cup drawn]
              /\ phase' = "finished" <=> drawPile' = {} /\ Held(p)' = {}
              /\ phase' # "cancelled"
<1>1. PICK drawn \in Draws(h) : /\ drawPile' = drawPile \ drawn
                                /\ hand' = [hand EXCEPT ![p] = h \cup drawn]
  BY DEF DrawAndSettle
<1>2. /\ phase' = "finished" <=> drawPile' = {} /\ Held(p)' = {}
      /\ phase' # "cancelled"
  BY DEF DrawAndSettle, PhaseAfter, HasWon, Held, Playing, Clearing
<1> QED BY <1>1, <1>2 DEF Draws

\* A play, of cards from any zone.
LEMMA ResolveFlows ==
    ASSUME TypeOK, CardsConserved, NEW p \in Players, NEW rank, NEW cards, NEW pile,
           cards # {}, cards \subseteq Held(p), Range(pile) = Range(playPile) \cup cards,
           NEW h, h = hand[p] \ cards, phase \notin Terminal,
           ResolveCardPlay(p, rank, pile, h),
           faceUp' = [faceUp EXCEPT ![p] = @ \ cards],
           faceDown' = [faceDown EXCEPT ![p] = @ \ cards]
    PROVE  Flow!Play(p) \/ Flow!PlayLast(p)
<1>1. Range(<< >>) = {}
  BY DEF Range
<1>2. \/ Range(playPile)' = Range(playPile) \cup cards /\ burnPile' = burnPile
      \/ Range(playPile)' = {} /\ burnPile' = burnPile \cup Range(playPile) \cup cards
  BY <1>1 DEF ResolveCardPlay, Burn, Range
<1>3. ASSUME NEW drawn \in SUBSET drawPile, hand' = [hand EXCEPT ![p] = h \cup drawn]
      PROVE  HeldBecomes(p, (Held(p) \ cards) \cup drawn)
  <2>1. \A q \in Players \ {p} : /\ hand'[q] = hand[q] /\ faceUp'[q] = faceUp[q]
                                 /\ faceDown'[q] = faceDown[q]
    BY <1>3 DEF TypeOK
  <2>2. /\ hand'[p] = (hand[p] \ cards) \cup drawn /\ faceUp'[p] = faceUp[p] \ cards
        /\ faceDown'[p] = faceDown[p] \ cards
    BY <1>3 DEF TypeOK
  <2> QED BY <2>1, <2>2 DEF HeldBecomes, Held
<1>4. CASE DrawAndSettle(p, h, ClearsPile(rank, pile))
  <2>1. PICK drawn \in SUBSET drawPile :
              /\ drawPile' = drawPile \ drawn
              /\ hand' = [hand EXCEPT ![p] = h \cup drawn]
              /\ phase' = "finished" <=> drawPile' = {} /\ Held(p)' = {}
              /\ phase' # "cancelled"
    BY <1>4, SettleFlows DEF TypeOK
  <2> QED BY <1>2, <1>3, <2>1, FlowPlay
<1>5. CASE /\ AwaitsDeclaration(rank, pile) /\ phase' = Queening
           /\ hand' = [hand EXCEPT ![p] = h]
           /\ UNCHANGED <<drawPile, currentPlayerIndex>>
  <2>1. PICK drawn : drawn = {}
    OBVIOUS
  <2>2. drawn \in SUBSET drawPile /\ h \cup drawn = h /\ drawPile' = drawPile \ drawn
    BY <1>5, <2>1
  <2>3. HeldBecomes(p, (Held(p) \ cards) \cup drawn)
    BY <1>3, <1>5, <2>2
  <2>4. phase' \notin {"finished", "cancelled"}
    BY <1>5 DEF Queening
  <2>5. CASE drawPile = {} /\ Held(p) \ cards = {}
    <3>1. cards = Held(p) /\ HeldBecomes(p, {})
      BY <2>1, <2>3, <2>5
    <3>2. ~ClearsPile(rank, pile)
      BY <1>5 DEF AwaitsDeclaration, ClearsPile, King, Queen
    <3>3. Range(playPile)' = Range(playPile) \cup Held(p) /\ UNCHANGED <<drawPile, burnPile>>
      BY <1>5, <3>1, <3>2 DEF ResolveCardPlay, Range
    <3> QED BY <2>4, <2>5, <3>1, <3>3, FlowPlayLast DEF Terminal
  <2>6. CASE ~(drawPile = {} /\ Held(p) \ cards = {})
    <3>1. ~(drawPile' = {} /\ Held(p)' = {})
      BY <1>5, <2>1, <2>3, <2>6 DEF HeldBecomes
    <3> QED BY <1>2, <2>2, <2>3, <2>4, <3>1, FlowPlay
  <2> QED BY <2>5, <2>6
<1> QED BY <1>4, <1>5 DEF ResolveCardPlay

\* The pile is taken, with the card revealed in vain if there is one.
LEMMA TakeFlows ==
    ASSUME TypeOK, NEW p \in Players, NEW cards, NEW pile, playPile # << >>,
           cards \subseteq faceDown[p], Range(pile) = Range(playPile) \cup cards,
           TakePile(p, pile), faceDown' = [faceDown EXCEPT ![p] = @ \ cards],
           phase \notin Terminal
    PROVE  Flow!PickUp(p)
<1>1. playPile[1] \in Range(playPile)
  BY DEF Range, TypeOK
<1>2. Range(playPile)' = {}
  BY DEF TakePile, Range
<1>3. HeldBecomes(p, Held(p) \cup Range(playPile))
  <2>1. \A q \in Players \ {p} : /\ hand'[q] = hand[q] /\ faceUp'[q] = faceUp[q]
                                 /\ faceDown'[q] = faceDown[q]
    BY DEF TypeOK, TakePile
  <2>2. /\ hand'[p] = hand[p] \cup Range(playPile) \cup cards /\ faceUp'[p] = faceUp[p]
        /\ faceDown'[p] = faceDown[p] \ cards
    BY DEF TypeOK, TakePile
  <2> QED BY <2>1, <2>2 DEF HeldBecomes, Held
<1> QED BY <1>1, <1>2, <1>3, FlowPickUp DEF TakePile, Terminal, Playing

LEMMA DeclareFlows ==
    ASSUME TypeOK, NEW p \in Players, NEW direction, Declare(p, direction)
    PROVE  Flow!Draw(p)
<1>1. PICK drawn \in SUBSET drawPile :
              /\ drawPile' = drawPile \ drawn
              /\ hand' = [hand EXCEPT ![p] = hand[p] \cup drawn]
              /\ phase' = "finished" <=> drawPile' = {} /\ Held(p)' = {}
              /\ phase' # "cancelled"
  BY SettleFlows DEF Declare, TypeOK
<1>2. HeldBecomes(p, Held(p) \cup drawn)
  BY <1>1 DEF HeldBecomes, Held, Declare, TypeOK
<1> QED BY <1>1, <1>2, FlowDraw DEF Declare

LEMMA SkipFlows ==
    ASSUME SkipTurn, phase \notin Terminal
    PROVE  UNCHANGED Flow!vars
BY DEF SkipTurn, zones, Flow!vars, Held, Range, Terminal, Playing

\* A pile a revealed card may not be played on is not empty.
LEMMA IllegalOnPile == ASSUME NEW card, ~IsLegal(card) PROVE playPile # << >>
BY DEF IsLegal, IsCardLegal, MustCompare

LEMMA NextFlows == TypeOK /\ CardsConserved /\ [Next]_vars => [Flow!Next]_(Flow!vars)
<1> SUFFICES ASSUME TypeOK, CardsConserved, [Next]_vars
             PROVE  Flow!Next \/ UNCHANGED Flow!vars
  OBVIOUS
<1>1. ASSUME phase \notin Terminal,
             \E p \in Players : Flow!Play(p) \/ Flow!PlayLast(p) \/ Flow!Draw(p) \/ Flow!PickUp(p)
      PROVE  Flow!Next
  BY <1>1 DEF Flow!Next, Terminal
<1>2. ASSUME NEW p \in Players, NEW ids \in Selections(p), PlayCards(p, ids)
      PROVE  Flow!Next
  <2> DEFINE cards == Range(ids)
  <2>1. /\ cards \subseteq Deck /\ cards \subseteq hand[p] \cup faceUp[p]
        /\ phase \notin Terminal
    BY <1>2, SelectionType DEF OpenCards, PlayCards, MayPlay, MayAct, Terminal, Playing, Clearing
  <2>2. cards # {}
    BY <1>2, SelectionType DEF PlayCards, MayPlay
  <2>3. Range(playPile \o ids) = Range(playPile) \cup cards
    BY <1>2, PlayCardsPile DEF PlayCards
  <2>4. faceDown[p] \ cards = faceDown[p]
    BY <2>1 DEF CardsConserved, Partition
  <2>5. /\ faceUp' = [faceUp EXCEPT ![p] = @ \ cards]
        /\ faceDown' = [faceDown EXCEPT ![p] = @ \ cards]
        /\ ResolveCardPlay(p, RankOf[ids[1]], playPile \o ids, hand[p] \ cards)
    BY <1>2, <2>4 DEF PlayCards, TypeOK
  <2>6. cards \subseteq Held(p)
    BY <2>1 DEF Held
  <2> HIDE DEF cards
  <2>7. Flow!Play(p) \/ Flow!PlayLast(p)
    BY <2>1, <2>2, <2>3, <2>5, <2>6, ResolveFlows
  <2> QED BY <1>1, <2>1, <2>7
<1>3. ASSUME NEW p \in Players, NEW card \in faceDown[p], PlayBlind(p, card)
      PROVE  Flow!Next
  <2>1. /\ card \in Deck /\ phase \notin Terminal
        /\ faceDown' = [faceDown EXCEPT ![p] = @ \ {card}]
    BY <1>3 DEF PlayBlind, MayPlayBlind, MayAct, TypeOK, Terminal, Playing, Clearing
  <2>2. Range(Append(playPile, card)) = Range(playPile) \cup {card}
    BY <2>1, PileWithCard DEF TypeOK
  <2>3. CASE /\ UNCHANGED faceUp
             /\ ResolveCardPlay(p, RankOf[card], Append(playPile, card), hand[p])
    <3>1. hand[p] \ {card} = hand[p] /\ faceUp[p] \ {card} = faceUp[p]
      BY DEF CardsConserved, Partition
    <3>2. faceUp' = [faceUp EXCEPT ![p] = @ \ {card}] /\ {card} \subseteq Held(p)
      BY <2>3, <3>1 DEF Held, TypeOK
    <3>3. Flow!Play(p) \/ Flow!PlayLast(p)
      BY <2>1, <2>2, <2>3, <3>1, <3>2, ResolveFlows
    <3> QED BY <1>1, <2>1, <3>3
  <2>4. CASE ~IsLegal(card) /\ TakePile(p, Append(playPile, card))
    <3>1. {card} \subseteq faceDown[p]
      OBVIOUS
    <3>2. Flow!PickUp(p)
      BY <2>1, <2>2, <2>4, <3>1, IllegalOnPile, TakeFlows
    <3> QED BY <1>1, <2>1, <3>2
  <2> QED BY <1>3, <2>3, <2>4 DEF PlayBlind
<1>4. ASSUME NEW p \in Players, phase = Playing, playPile # << >>, TakePile(p, playPile),
             UNCHANGED faceDown
      PROVE  Flow!Next
  <2>1. PICK none : none = {}
    OBVIOUS
  <2>2. /\ none \subseteq faceDown[p] /\ Range(playPile) = Range(playPile) \cup none
        /\ faceDown' = [faceDown EXCEPT ![p] = @ \ none] /\ phase \notin Terminal
    BY <1>4, <2>1 DEF TypeOK, Terminal, Playing
  <2>3. Flow!PickUp(p)
    BY <1>4, <2>2, TakeFlows
  <2> QED BY <1>1, <2>2, <2>3
<1>5. ASSUME NEW p \in Players, NEW direction, phase = Queening, Declare(p, direction)
      PROVE  Flow!Next
  BY <1>1, <1>5, DeclareFlows DEF Terminal, Queening
<1>6. CASE TurnTimeout
  BY <1>4, <1>5, <1>6, SkipFlows DEF TurnTimeout, TimeoutForfeit
<1>7. CASE CancelGame
  <2>1. Flow!Cancel
    BY <1>7 DEF CancelGame, Flow!Cancel, zones, Held, Range
  <2> QED BY <2>1 DEF Flow!Next
<1>8. CASE UNCHANGED vars
  BY <1>8 DEF vars, Flow!vars, Held, Range
<1> QED BY <1>2, <1>3, <1>4, <1>5, <1>6, <1>7, <1>8
        DEF Next, PlayerMove, PickUpPile, DeclareDirection, MayAct

LEMMA InitFlows == Init => Flow!Init
<1> SUFFICES ASSUME Init PROVE Flow!Init
  OBVIOUS
<1> DEFINE held == [q \in Players |-> Held(q)]
<1>1. TypeOK /\ CardsConserved
  BY InitType, InitCards
<1>2. held \in [Players -> SUBSET Deck]
  BY <1>1 DEF TypeOK, Held
<1>3. \A p, q \in Players : p # q => held[p] \cap held[q] = {}
  BY <1>1 DEF CardsConserved, Partition, Held
<1>4. Range(playPile) = {} /\ burnPile = {} /\ phase = Playing
  BY DEF Init, Range
<1>5. drawPile = Deck \ UNION {held[p] : p \in Players}
  <2>1. Dealt(hand) \cup Dealt(faceUp) \cup Dealt(faceDown) = UNION {held[p] : p \in Players}
    BY DEF Dealt, Held
  <2> QED BY <2>1 DEF Init
<1> QED BY <1>2, <1>3, <1>4, <1>5 DEF Flow!Init, Playing

\* The engine implements CardFlow: in every game a card goes from the stock to
\* a player, from a player to the table, and from there out of the game or back
\* to one player; and only a player without cards wins, with the stock gone.
THEOREM EngineMovesCards == Spec => FlowSpec
BY InitFlows, NextFlows, TypeCorrect, NoCardLost, PTL DEF Spec, FlowSpec, Flow!Spec

-----------------------------------------------------------------------------
(***************************************************************************)
(* What a step of the engine may do (pass the turn, use up the zones) and  *)
(* the moves a player has: there is one, the AI enumerator lists them all  *)
(* and the board offers them all.                                          *)
(*                                                                         *)
(* The turn.                                                               *)
(***************************************************************************)

\* A play whose top card is not burnt yet.
LEMMA ResolveTurn ==
    ASSUME NEW p \in Players, NEW rank \in Ranks, NEW pile \in Seq(Deck), NEW h,
           pile # << >>, RankOf[Top(pile)] = rank, Top(pile) \notin burnPile,
           ResolveCardPlay(p, rank, pile, h)
    PROVE  TurnStep
<1> DEFINE sbobuz == CheckSbobuz(pile)
           clears == ClearsPile(rank, pile)
<1>1. Top(pile) \in Range(pile)
  BY DEF Top, Range
<1>2. clears => burnPile' # burnPile /\ playPile' = << >>
  BY <1>1 DEF ResolveCardPlay, Burn
<1>3. ~clears => playPile' = pile
  BY DEF ResolveCardPlay
<1>4. turnDirection' # turnDirection => sbobuz \/ rank = Joker
  BY DEF ResolveCardPlay
<1>5. CASE AwaitsDeclaration(rank, pile) /\ phase' = Queening /\ UNCHANGED currentPlayerIndex
  <2>1. ~sbobuz /\ rank # Joker
    BY <1>5 DEF AwaitsDeclaration, Queen, Joker
  <2> QED BY <1>4, <1>5, <2>1 DEF TurnStep
<1>6. CASE DrawAndSettle(p, h, clears)
  <2>1. phase' \notin Terminal => phase' = IF clears THEN Clearing ELSE Playing
    BY <1>6 DEF DrawAndSettle, PhaseAfter, Terminal
  <2>2. currentPlayerIndex' = IF phase' = Playing THEN AdvanceTurn(currentPlayerIndex, turnDirection')
                                                  ELSE currentPlayerIndex
    BY <1>6 DEF DrawAndSettle, NextPlayer
  <2>3. CASE clears /\ phase' \notin Terminal
    <3>1. phase' = Clearing
      BY <2>1, <2>3
    <3> QED BY <1>2, <2>2, <2>3, <3>1 DEF TurnStep, Playing, Clearing
  <2>4. CASE ~clears /\ phase' \notin Terminal
    <3>1. phase' = Playing
      BY <2>1, <2>4
    <3>2. turnDirection' # turnDirection => playPile' # << >> /\ RankOf[Top(playPile')] = Joker
      BY <1>3, <1>4, <2>4 DEF ClearsPile
    <3> QED BY <2>2, <3>1, <3>2 DEF TurnStep, Playing, Clearing, Queening
  <2> QED BY <2>3, <2>4 DEF TurnStep
<1> QED BY <1>5, <1>6 DEF ResolveCardPlay

LEMMA DeclareTurn ==
    ASSUME NEW p \in Players, NEW direction, Declare(p, direction)
    PROVE  TurnStep
BY DEF Declare, DrawAndSettle, PhaseAfter, NextPlayer, TurnStep, Terminal,
       Playing, Queening, Clearing

LEMMA TakePileTurn ==
    ASSUME NEW p \in Players, NEW pile, TakePile(p, pile)
    PROVE  TurnStep
BY DEF TakePile, TurnStep, Playing, Queening, Clearing

LEMMA NextTurn == TypeOK /\ CardsConserved /\ [Next]_vars => [TurnStep]_vars
<1> SUFFICES ASSUME TypeOK, CardsConserved, Next PROVE TurnStep
  OBVIOUS
<1>1. ASSUME NEW p \in Players, NEW ids \in Selections(p), PlayCards(p, ids)
      PROVE  TurnStep
  <2>1. Range(ids) \cap burnPile = {}
    BY <1>1, SelectionType DEF OpenCards, CardsConserved, Partition
  <2>2. /\ playPile \o ids \in Seq(Deck) /\ playPile \o ids # << >>
        /\ RankOf[Top(playPile \o ids)] = RankOf[ids[1]] /\ RankOf[ids[1]] \in Ranks
        /\ Top(playPile \o ids) \notin burnPile
    BY <1>1, <2>1, PlayCardsPile DEF PlayCards
  <2> QED BY <1>1, <2>2, ResolveTurn DEF PlayCards
<1>2. ASSUME NEW p \in Players, NEW card \in faceDown[p], PlayBlind(p, card)
      PROVE  TurnStep
  <2>1. card \in Deck /\ RankOf[card] \in Ranks /\ card \notin burnPile
    BY DeckAssumption DEF TypeOK, CardsConserved, Partition
  <2>2. /\ Append(playPile, card) \in Seq(Deck) /\ Append(playPile, card) # << >>
        /\ Top(Append(playPile, card)) = card
    BY <2>1, PileWithCard DEF TypeOK
  <2>3. CASE ResolveCardPlay(p, RankOf[card], Append(playPile, card), hand[p])
    BY <2>1, <2>2, <2>3, ResolveTurn
  <2>4. CASE TakePile(p, Append(playPile, card))
    BY <2>4, TakePileTurn
  <2> QED BY <1>2, <2>3, <2>4 DEF PlayBlind
<1>3. ASSUME NEW p \in Players, PickUpPile(p) PROVE TurnStep
  BY <1>3, TakePileTurn DEF PickUpPile
<1>4. ASSUME NEW p \in Players, NEW direction, DeclareDirection(p, direction) PROVE TurnStep
  BY <1>4, DeclareTurn DEF DeclareDirection
<1>5. ASSUME SkipTurn PROVE TurnStep
  BY <1>5 DEF SkipTurn, TurnStep, Playing, Queening, Clearing
<1>6. ASSUME NEW p \in Players, TimeoutForfeit(p) PROVE TurnStep
  BY <1>5, <1>6, DeclareTurn, TakePileTurn DEF TimeoutForfeit
<1>7. CASE CancelGame
  BY <1>7 DEF CancelGame, TurnStep, Terminal
<1> QED BY <1>1, <1>2, <1>3, <1>4, <1>6, <1>7 DEF Next, PlayerMove, TurnTimeout

\* In every game the turn is kept or goes to the neighbour, and the direction
\* turns only with a joker or a Sbobuz.
THEOREM TurnInOrder == Spec => TurnPassesInOrder
BY TypeCorrect, NoCardLost, NextTurn, PTL DEF Spec, TurnPassesInOrder

(***************************************************************************)
(* The zones.                                                              *)
(***************************************************************************)

LEMMA ZonesKept ==
    ASSUME UNCHANGED <<faceUp, faceDown>>
    PROVE  ZoneStep
BY DEF ZoneStep

LEMMA NextZones == TypeOK /\ CardsConserved /\ [Next]_vars => [ZoneStep]_vars
<1> SUFFICES ASSUME TypeOK, CardsConserved, Next PROVE ZoneStep
  OBVIOUS
<1>1. ASSUME NEW p \in Players, NEW ids \in Selections(p), PlayCards(p, ids)
      PROVE  ZoneStep
  <2> DEFINE cards == Range(ids)
  <2>1. faceUp' = [faceUp EXCEPT ![p] = @ \ cards] /\ UNCHANGED faceDown
    BY <1>1 DEF PlayCards
  <2>2. faceUp[p] \ cards # faceUp[p] => hand[p] = {} /\ drawPile = {}
    <3>1. hand[p] \cap faceUp[p] = {}
      BY DEF CardsConserved, Partition
    <3>2. ~(hand[p] = {} /\ drawPile = {}) => cards \subseteq hand[p]
      BY SelectionType DEF OpenCards, ActiveZone
    <3> QED BY <3>1, <3>2
  <2>3. \A q \in Players : faceUp'[q] = IF q = p THEN faceUp[p] \ cards ELSE faceUp[q]
    BY <2>1 DEF TypeOK
  <2> QED BY <2>1, <2>2, <2>3 DEF ZoneStep
<1>2. ASSUME NEW p \in Players, NEW card \in faceDown[p], PlayBlind(p, card)
      PROVE  ZoneStep
  <2>1. faceDown' = [faceDown EXCEPT ![p] = @ \ {card}] /\ UNCHANGED faceUp
    BY <1>2 DEF PlayBlind, TakePile
  <2>2. hand[p] = {} /\ drawPile = {} /\ faceUp[p] = {}
    BY <1>2 DEF PlayBlind, MayPlayBlind, ActiveZone
  <2>3. \A q \in Players : faceDown'[q] = IF q = p THEN faceDown[p] \ {card} ELSE faceDown[q]
    BY <2>1 DEF TypeOK
  <2> QED BY <2>1, <2>2, <2>3 DEF ZoneStep
<1>3. ASSUME NEW p \in Players, PickUpPile(p) PROVE ZoneStep
  BY <1>3, ZonesKept DEF PickUpPile, TakePile
<1>4. ASSUME NEW p \in Players, NEW direction, DeclareDirection(p, direction) PROVE ZoneStep
  BY <1>4, ZonesKept DEF DeclareDirection, Declare
<1>5. ASSUME NEW p \in Players, TimeoutForfeit(p) PROVE ZoneStep
  BY <1>5, ZonesKept DEF TimeoutForfeit, Declare, SkipTurn, TakePile, zones
<1>6. CASE CancelGame
  BY <1>6, ZonesKept DEF CancelGame, zones
<1> QED BY <1>1, <1>2, <1>3, <1>4, <1>5, <1>6 DEF Next, PlayerMove, TurnTimeout

\* In every game the face-up cards are played only with hand and draw pile
\* empty, the face-down cards one by one after them, and neither is refilled.
THEOREM ZonesUsedInOrder == Spec => ZonesInOrder
BY TypeCorrect, NoCardLost, NextZones, PTL DEF Spec, ZonesInOrder

(***************************************************************************)
(* What the session manager relies on.                                     *)
(***************************************************************************)

\* If a step ends the game, it is won, and the turn stays.
EndsInTurn == /\ phase' # "cancelled"
              /\ phase' \in Terminal => UNCHANGED currentPlayerIndex

\* A step but a cancel starts in a game that is on.
LEMMA NextStatus ==
    ASSUME Next, ~CancelGame
    PROVE  phase \notin Terminal /\ EndsInTurn
<1>1. ASSUME NEW p, NEW h, NEW again, DrawAndSettle(p, h, again)
      PROVE  EndsInTurn
  BY <1>1 DEF DrawAndSettle, PhaseAfter, EndsInTurn, Terminal, Playing, Clearing
<1>2. ASSUME NEW p, NEW rank, NEW pile, NEW h, ResolveCardPlay(p, rank, pile, h)
      PROVE  EndsInTurn
  BY <1>1, <1>2 DEF ResolveCardPlay, EndsInTurn, Terminal, Queening
<1>3. ASSUME NEW p, NEW pile, TakePile(p, pile) PROVE EndsInTurn
  BY <1>3 DEF TakePile, EndsInTurn, Terminal, Playing
<1>4. ASSUME NEW p, NEW direction, Declare(p, direction)
      PROVE  EndsInTurn
  BY <1>1, <1>4 DEF Declare
<1>5. SkipTurn => EndsInTurn
  BY DEF SkipTurn, EndsInTurn, Terminal, Playing
<1> USE DEF MayAct, Terminal, Playing, Queening, Clearing
<1>6. ASSUME NEW p, NEW ids, PlayCards(p, ids)
      PROVE  phase \notin Terminal /\ EndsInTurn
  BY <1>2, <1>6 DEF PlayCards, MayPlay
<1>7. ASSUME NEW p, NEW card, PlayBlind(p, card)
      PROVE  phase \notin Terminal /\ EndsInTurn
  BY <1>2, <1>3, <1>7 DEF PlayBlind, MayPlayBlind
<1>8. ASSUME NEW p, PickUpPile(p)
      PROVE  phase \notin Terminal /\ EndsInTurn
  BY <1>3, <1>8 DEF PickUpPile
<1>9. ASSUME NEW p, NEW direction, DeclareDirection(p, direction)
      PROVE  phase \notin Terminal /\ EndsInTurn
  BY <1>4, <1>9 DEF DeclareDirection
<1>10. ASSUME NEW p, TimeoutForfeit(p)
       PROVE  phase \notin Terminal /\ EndsInTurn
  BY <1>3, <1>4, <1>5, <1>10 DEF TimeoutForfeit
<1> QED BY <1>6, <1>7, <1>8, <1>9, <1>10 DEF Next, PlayerMove, TurnTimeout

\* The engine implements Turns: whatever is played, and whoever is made to
\* forfeit, the turn stays at the table, and a game that is over is never on
\* again: all that can become of it is a cancelled one.
THEOREM EngineTakesTurns == Spec => TurnsSpec
<1>1. Init /\ TypeOK => SessionTurns!Init
  BY DEF Init, TypeOK, SessionTurns!Init, Terminal, Playing
<1>2. TypeOK /\ TypeOK' /\ [Next]_vars => [SessionTurns!Next]_(SessionTurns!vars)
  <2>1. ASSUME TypeOK, TypeOK', Next PROVE SessionTurns!Next
    <3>1. CASE CancelGame
      <4>1. SessionTurns!Cancel
        BY <3>1 DEF CancelGame, SessionTurns!Cancel, Terminal
      <4> QED BY <4>1 DEF SessionTurns!Next
    <3>2. CASE ~CancelGame
      <4>1. /\ phase \notin Terminal
            /\ phase' \in Terminal => UNCHANGED currentPlayerIndex
            /\ phase' # "cancelled"
            /\ currentPlayerIndex \in Players /\ currentPlayerIndex' \in Players
        BY <2>1, <3>2, NextStatus DEF TypeOK, EndsInTurn
      <4>2. phase' \in Terminal => phase' = "finished"
        BY <4>1 DEF Terminal
      <4>3. SessionTurns!Play(currentPlayerIndex)
        <5>1. CASE phase' \notin Terminal
          BY <4>1, <5>1 DEF SessionTurns!Play
        <5>2. CASE phase' \in Terminal
          BY <4>1, <4>2, <5>2 DEF SessionTurns!Play
        <5> QED BY <5>1, <5>2
      <4> QED BY <4>1, <4>3 DEF SessionTurns!Next
    <3> QED BY <3>1, <3>2
  <2>2. UNCHANGED vars => UNCHANGED SessionTurns!vars
    BY DEF vars, SessionTurns!vars, Terminal
  <2> QED BY <2>1, <2>2
<1> QED BY <1>1, <1>2, TypeCorrect, PTL DEF Spec, TurnsSpec, SessionTurns!Spec

LEMMA NeighbourDiffers ==
    ASSUME NEW i \in Players, NEW d \in {1, -1}
    PROVE  AdvanceTurn(i, d) \in Players \ {i}
<1>1. CASE NumPlayers = 2
  BY <1>1 DEF AdvanceTurn, Players
<1>2. CASE NumPlayers = 3
  BY <1>2 DEF AdvanceTurn, Players
<1>3. CASE NumPlayers = 4
  BY <1>3 DEF AdvanceTurn, Players
<1>4. CASE NumPlayers = 5
  BY <1>4 DEF AdvanceTurn, Players
<1> QED BY <1>1, <1>2, <1>3, <1>4, PlayersAssumption

LEMMA NextForfeit == TypeOK /\ [Next]_vars => [ForfeitStep]_vars
<1> SUFFICES ASSUME TypeOK, TurnTimeout PROVE SessionTurns!Forfeit(currentPlayerIndex)
  BY DEF ForfeitStep
<1> DEFINE p == currentPlayerIndex
<1>1. p \in Players /\ turnDirection \in {1, -1} /\ phase \notin Terminal
  BY DEF TypeOK, TurnTimeout, TimeoutForfeit
<1>2. AdvanceTurn(p, turnDirection) \in Players \ {p}
  BY <1>1, NeighbourDiffers
<1>3. ASSUME currentPlayerIndex' = AdvanceTurn(p, turnDirection), phase' = Playing
      PROVE  SessionTurns!Forfeit(p)
  BY <1>1, <1>2, <1>3 DEF SessionTurns!Forfeit, Terminal, Playing
<1>4. ASSUME NEW q \in Players, Declare(q, "higher") PROVE SessionTurns!Forfeit(p)
  <2>1. /\ phase' = IF HasWon(q)' THEN "finished" ELSE Playing
        /\ currentPlayerIndex' = IF phase' = Playing THEN AdvanceTurn(p, turnDirection)
                                                     ELSE p
    BY <1>4 DEF Declare, DrawAndSettle, PhaseAfter, NextPlayer
  <2>2. CASE phase' = Playing
    BY <1>3, <2>1, <2>2
  <2>3. CASE phase' = "finished"
    BY <1>1, <2>1, <2>3 DEF SessionTurns!Forfeit, Terminal, Playing
  <2> QED BY <2>1, <2>2, <2>3
<1> QED BY <1>3, <1>4 DEF TurnTimeout, TimeoutForfeit, SkipTurn, TakePile

\* In every game a forfeit passes the turn on or ends the game.
THEOREM ForfeitTakesTurn == Spec => ForfeitPassesTurn
BY TypeCorrect, NextForfeit, PTL DEF Spec, ForfeitPassesTurn

(***************************************************************************)
(* Nobody is stuck.                                                        *)
(***************************************************************************)

\* Somebody who has cards, and cards in hand as long as there are cards to draw.
Supplied(p) == Held(p) # {} /\ (drawPile # {} => hand[p] # {})

\* Whoever is to play, now or later, is supplied.  Only the player whose Queen is
\* to be declared has not drawn yet; he may have no card left.  This needs that
\* nobody declares it for him as another player who forfeits.
PlayersSupplied ==
    LateFor = {} =>
        \A p \in Players :
            \/ phase \in {Playing, Clearing}
            \/ phase = Queening /\ p # currentPlayerIndex
            => Supplied(p)

\* performDraw stops with a full hand or an empty draw pile.
LEMMA DrawSupplies ==
    ASSUME NEW p \in Players, NEW h \in SUBSET Deck, NEW again, DrawAndSettle(p, h, again),
           hand \in [Players -> SUBSET Deck], drawPile \subseteq Deck
    PROVE  /\ drawPile' \subseteq drawPile
           /\ drawPile' # {} => hand'[p] # {}
           /\ \A q \in Players \ {p} : hand'[q] = hand[q]
<1>1. PICK drawn \in Draws(h) : /\ drawPile' = drawPile \ drawn
                                /\ hand' = [hand EXCEPT ![p] = h \cup drawn]
  BY DEF DrawAndSettle
<1>2. ASSUME drawPile' # {} PROVE h \cup drawn # {}
  <2>1. drawn # drawPile
    BY <1>1, <1>2
  <2>2. Cardinality(h) + Cardinality(drawn) >= HandSize
    BY <1>1, <2>1 DEF Draws
  <2>3. Cardinality({}) = 0 /\ HandSize \in Nat /\ HandSize >= 1
    BY FS_EmptySet, HandSizeAssumption, ZoneAssumption
  <2>4. ASSUME h = {}, drawn = {} PROVE FALSE
    <3>1. Cardinality(h) = 0 /\ Cardinality(drawn) = 0
      BY <2>3, <2>4, Zenon
    <3> QED BY <2>2, <2>3, <3>1
  <2> QED BY <2>4
<1> QED BY <1>1, <1>2 DEF Draws

\* So after a play or a declaration whoever plays is supplied, if the others were.
LEMMA SettleSupplies ==
    ASSUME TypeOK, NEW p \in Players, NEW h \in SUBSET Deck, NEW again,
           DrawAndSettle(p, h, again),
           \A q \in Players \ {p} : Supplied(q),
           \A q \in Players \ {p} : faceUp'[q] = faceUp[q] /\ faceDown'[q] = faceDown[q]
    PROVE  PlayersSupplied'
<1>1. /\ drawPile' \subseteq drawPile
      /\ drawPile' # {} => hand'[p] # {}
      /\ \A q \in Players \ {p} : hand'[q] = hand[q]
  BY DrawSupplies DEF TypeOK
<1>2. \A q \in Players \ {p} : Supplied(q)'
  BY <1>1 DEF Supplied, Held
<1>3. phase' \in {Playing, Clearing, Queening} => Supplied(p)'
  <2>1. phase' \in {Playing, Clearing, Queening} => ~HasWon(p)'
    BY DEF DrawAndSettle, PhaseAfter, Playing, Clearing, Queening
  <2> QED BY <1>1, <2>1 DEF Supplied, Held, HasWon
<1> QED BY <1>2, <1>3 DEF PlayersSupplied

LEMMA ResolveSupplies ==
    ASSUME TypeOK, NEW p \in Players, p = currentPlayerIndex, NEW rank, NEW pile,
           NEW h \in SUBSET Deck, ResolveCardPlay(p, rank, pile, h),
           \A q \in Players : Supplied(q),
           \A q \in Players \ {p} : faceUp'[q] = faceUp[q] /\ faceDown'[q] = faceDown[q]
    PROVE  PlayersSupplied'
<1>1. CASE /\ phase' = Queening /\ hand' = [hand EXCEPT ![p] = h]
           /\ UNCHANGED <<drawPile, currentPlayerIndex>>
  <2>1. \A q \in Players \ {p} : hand'[q] = hand[q]
    BY <1>1 DEF TypeOK
  <2>2. \A q \in Players \ {p} : Supplied(q)'
    BY <1>1, <2>1 DEF Supplied, Held
  <2> QED BY <1>1, <2>2 DEF PlayersSupplied, Playing, Clearing, Queening
<1>2. CASE DrawAndSettle(p, h, ClearsPile(rank, pile))
  BY <1>2, SettleSupplies
<1> QED BY <1>1, <1>2 DEF ResolveCardPlay

\* Whoever takes a pile that is not empty has cards in hand.
LEMMA TakeSupplies ==
    ASSUME TypeOK, NEW p \in Players, NEW pile \in Seq(Deck), pile # << >>,
           TakePile(p, pile),
           \A q \in Players : Supplied(q),
           \A q \in Players \ {p} : faceDown'[q] = faceDown[q]
    PROVE  PlayersSupplied'
<1>1. pile[1] \in Range(pile)
  BY DEF Range
<1>2. /\ hand'[p] # {} /\ UNCHANGED <<drawPile, faceUp>>
      /\ \A q \in Players \ {p} : hand'[q] = hand[q]
  BY <1>1 DEF TakePile, TypeOK
<1>3. \A q \in Players : Supplied(q)'
  BY <1>2 DEF Supplied, Held
<1> QED BY <1>3 DEF PlayersSupplied

LEMMA DeclareSupplies ==
    ASSUME TypeOK, LateFor = {}, PlayersSupplied, phase = Queening, NEW p \in Players,
           p = currentPlayerIndex, NEW direction, Declare(p, direction)
    PROVE  PlayersSupplied'
<1>1. \A q \in Players \ {p} : Supplied(q)
  BY DEF PlayersSupplied
<1> QED BY <1>1, SettleSupplies DEF Declare, TypeOK

LEMMA SkipSupplies ==
    ASSUME PlayersSupplied, phase \in {Playing, Clearing}, SkipTurn
    PROVE  PlayersSupplied'
BY DEF SkipTurn, zones, PlayersSupplied, Supplied, Held

LEMMA NextSupplies == TypeOK /\ PlayersSupplied /\ [Next]_vars => PlayersSupplied'
<1> SUFFICES ASSUME TypeOK, LateFor = {}, PlayersSupplied, [Next]_vars
             PROVE  PlayersSupplied'
  BY DEF PlayersSupplied
<1>1. ASSUME phase \in {Playing, Clearing} PROVE \A q \in Players : Supplied(q)
  BY <1>1 DEF PlayersSupplied
<1>2. ASSUME NEW p \in Players, NEW ids \in Selections(p), PlayCards(p, ids)
      PROVE  PlayersSupplied'
  <2>1. p = currentPlayerIndex /\ phase \in {Playing, Clearing}
    BY <1>2 DEF PlayCards, MayPlay, MayAct
  <2>2. hand[p] \ Range(ids) \in SUBSET Deck
    BY DEF TypeOK
  <2>3. \A q \in Players \ {p} : faceUp'[q] = faceUp[q] /\ faceDown'[q] = faceDown[q]
    BY <1>2 DEF PlayCards, TypeOK
  <2> QED BY <1>1, <1>2, <2>1, <2>2, <2>3, ResolveSupplies DEF PlayCards
<1>3. ASSUME NEW p \in Players, NEW card \in faceDown[p], PlayBlind(p, card)
      PROVE  PlayersSupplied'
  <2>1. p = currentPlayerIndex /\ phase \in {Playing, Clearing} /\ card \in Deck
    BY <1>3 DEF PlayBlind, MayPlayBlind, MayAct, TypeOK
  <2>2. \A q \in Players \ {p} : faceDown'[q] = faceDown[q]
    BY <1>3 DEF PlayBlind, TypeOK
  <2>3. CASE /\ UNCHANGED faceUp
             /\ ResolveCardPlay(p, RankOf[card], Append(playPile, card), hand[p])
    BY <1>1, <2>1, <2>2, <2>3, ResolveSupplies DEF TypeOK
  <2>4. CASE TakePile(p, Append(playPile, card))
    <3>1. Append(playPile, card) \in Seq(Deck) /\ Append(playPile, card) # << >>
      BY <2>1, PileWithCard DEF TypeOK
    <3> QED BY <1>1, <2>1, <2>2, <2>4, <3>1, TakeSupplies
  <2> QED BY <1>3, <2>3, <2>4 DEF PlayBlind
<1>4. ASSUME NEW p \in Players, phase = Playing, playPile # << >>, TakePile(p, playPile),
             UNCHANGED faceDown
      PROVE  PlayersSupplied'
  BY <1>1, <1>4, TakeSupplies DEF TypeOK
<1>5. ASSUME NEW p \in Players, NEW direction, DeclareDirection(p, direction)
      PROVE  PlayersSupplied'
  BY <1>5, DeclareSupplies DEF DeclareDirection, MayAct
<1>6. CASE TurnTimeout
  BY <1>4, <1>6, DeclareSupplies, SkipSupplies DEF TurnTimeout, TimeoutForfeit
<1>7. CASE CancelGame
  BY <1>7 DEF CancelGame, PlayersSupplied, Playing, Clearing, Queening
<1>8. CASE UNCHANGED vars
  BY <1>8 DEF vars, PlayersSupplied, Supplied, Held
<1> QED BY <1>2, <1>3, <1>4, <1>5, <1>6, <1>7, <1>8
        DEF Next, PlayerMove, PickUpPile, MayAct

LEMMA InitSupplied == Init => PlayersSupplied
<1>1. ASSUME NEW s \in DealtZones PROVE s # {}
  BY FS_EmptySet, ZoneAssumption DEF DealtZones
<1> QED BY <1>1 DEF Init, PlayersSupplied, Supplied, Held

LEMMA AllSupplied == Spec => []PlayersSupplied
BY InitSupplied, NextSupplies, TypeCorrect, PTL DEF Spec

\* Any open card can be selected alone.
LEMMA CardIsSelection ==
    ASSUME NEW p \in Players, NEW card \in OpenCards(p)
    PROVE  << card >> \in Selections(p)
<1>1. Cardinality({card}) = 1
  BY FS_Singleton
<1>2. << card >> \in [1 .. 1 -> {card}] /\ Range(<< card >>) = {card}
  BY DEF Range
<1>3. << card >> \in Orderings({card})
  BY <1>1, <1>2 DEF Orderings
<1> QED BY <1>3 DEF Selections

\* A supplied player has a move: on an empty pile any of his cards goes, and a
\* pile that is not empty he may pick up, as nothing is played twice on one.
LEMMA SuppliedMoves ==
    ASSUME TypeOK, PhaseMatchesPile, PlayersSupplied
    PROVE  PlayerNeverStuck
<1> SUFFICES ASSUME LateFor = {}, phase \in {Playing, Clearing}
             PROVE  SomeMoveAccepted(currentPlayerIndex)
  BY DEF PlayerNeverStuck
<1> DEFINE p == currentPlayerIndex
<1>1. p \in Players /\ Supplied(p)
  BY DEF TypeOK, PlayersSupplied
<1>2. ActiveZone(p) # "finished"
  BY <1>1 DEF ActiveZone, Supplied, Held
<1>3. CASE playPile # << >>
  <2>1. phase = Playing
    BY <1>3 DEF PhaseMatchesPile
  <2> QED BY <1>2, <1>3, <2>1 DEF SomeMoveAccepted, MayAct
<1>4. CASE playPile = << >>
  <2>1. \A c \in Deck : IsLegal(c)
    BY <1>4 DEF IsLegal, IsCardLegal, MustCompare
  <2>2. CASE ActiveZone(p) = "faceDown"
    <3>1. PICK card \in faceDown[p] : TRUE
      BY <2>2 DEF ActiveZone
    <3> QED BY <1>2, <2>2, <3>1 DEF SomeMoveAccepted, MayPlayBlind, MayAct
  <2>3. CASE ActiveZone(p) # "faceDown"
    <3>1. OpenCards(p) # {}
      BY <1>1, <1>2, <2>3 DEF OpenCards, ActiveZone, Supplied, Held
    <3>2. PICK card \in OpenCards(p) : TRUE
      BY <3>1
    <3>3. card \in Deck
      BY <1>1, <3>2 DEF OpenCards, TypeOK
    <3>4. << card >> \in Selections(p)
      BY <1>1, <3>2, CardIsSelection
    <3>5. MayPlay(p, << card >>)
      BY <1>2, <2>1, <3>2, <3>3 DEF MayPlay, MayAct, Range
    <3> QED BY <3>4, <3>5 DEF SomeMoveAccepted
  <2> QED BY <2>2, <2>3
<1> QED BY <1>3, <1>4

\* In every game in which only the player on turn is made to forfeit, whoever
\* must play has a move the validator accepts, whatever was burnt, picked up or
\* drawn before.
THEOREM NobodyStuck == Spec => []PlayerNeverStuck
BY SuppliedMoves, AllSupplied, PhaseFitsPile, TypeCorrect, PTL

(***************************************************************************)
(* The moves listed and shown.                                             *)
(***************************************************************************)

\* Of a finite set any number of elements can be taken.
LEMMA SubsetOfSize ==
    ASSUME NEW S, IsFiniteSet(S), NEW n \in 1 .. Cardinality(S)
    PROVE  \E T \in SUBSET S : Cardinality(T) = n
<1>1. Cardinality(S) \in Nat /\ ExistsBijection(1 .. Cardinality(S), S)
  BY FS_CardinalityType
<1>2. PICK f \in Bijection(1 .. Cardinality(S), S) : TRUE
  BY <1>1 DEF ExistsBijection
<1>3. /\ f \in [1 .. Cardinality(S) -> S]
      /\ \A i, j \in 1 .. Cardinality(S) : f[i] = f[j] => i = j
  BY <1>2 DEF Bijection, Injection, IsInjective
<1> DEFINE T == {f[i] : i \in 1 .. n}
           g == [i \in 1 .. n |-> f[i]]
<1>4. T \in SUBSET S
  BY <1>1, <1>3
<1>5. IsFiniteSet(1 .. n) /\ Cardinality(1 .. n) = n
  BY <1>1, FS_Interval
<1>6. g \in Surjection(1 .. n, T)
  BY DEF Surjection
<1>7. g \in Injection(1 .. n, T)
  BY <1>1, <1>3 DEF Injection, IsInjective
<1>8. Cardinality(T) = n
  BY <1>5, <1>6, <1>7, FS_Surjection
<1> QED BY <1>4, <1>8

\* Legality is a matter of the rank.
LEMMA LegalByRank ==
    ASSUME NEW c, NEW d, RankOf[c] = RankOf[d]
    PROVE  IsLegal(c) <=> IsLegal(d)
BY DEF IsLegal, IsCardLegal, MustCompare

LEMMA OpenCardsFinite ==
    ASSUME TypeOK, NEW p \in Players, NEW cards \in SUBSET OpenCards(p)
    PROVE  /\ IsFiniteSet(cards) /\ Cardinality(cards) \in Nat
           /\ Cardinality(OpenCards(p)) \in Nat
           /\ Cardinality(cards) =< Cardinality(OpenCards(p))
           /\ cards \subseteq Deck
           /\ cards # {} => Cardinality(cards) >= 1
<1>1. OpenCards(p) \subseteq Deck
  BY DEF OpenCards, TypeOK
<1>2. IsFiniteSet(OpenCards(p)) /\ IsFiniteSet(cards)
  BY <1>1, DeckAssumption, FS_Subset
<1>3. Cardinality(cards) # 0 <=> cards # {}
  BY <1>2, FS_EmptySet
<1> QED BY <1>1, <1>2, <1>3, FS_Subset, FS_CardinalityType

\* A finite set can be listed.
LEMMA OrderingExists ==
    ASSUME NEW cards \in SUBSET Deck
    PROVE  \E order : order \in Orderings(cards)
<1>1. IsFiniteSet(cards)
  BY DeckAssumption, FS_Subset
<1>2. PICK f \in Bijection(1 .. Cardinality(cards), cards) : TRUE
  BY <1>1, FS_CardinalityType DEF ExistsBijection
<1>3. /\ f \in [1 .. Cardinality(cards) -> cards]
      /\ \A c \in cards : \E i \in 1 .. Cardinality(cards) : f[i] = c
  BY <1>2 DEF Bijection, Surjection
<1>4. Range(f) = cards
  BY <1>3 DEF Range
<1> QED BY <1>3, <1>4 DEF Orderings

\* Every play the validator accepts is listed.
LEMMA AcceptedIsListed ==
    ASSUME TypeOK, NEW p \in Players, NEW ids \in Selections(p), MayPlay(p, ids)
    PROVE  <<RankOf[ids[1]], Len(ids)>> \in EnumeratePlays(p)
<1> DEFINE rank == RankOf[ids[1]]
           cards == Range(ids)
<1>1. /\ cards \in SUBSET OpenCards(p) /\ Len(ids) = Cardinality(cards)
      /\ ids \in Seq(Deck) /\ ids # << >> /\ ids[1] \in cards /\ ids[1] \in Deck
      /\ DOMAIN ids = 1 .. Len(ids) /\ IsLegal(ids[1])
  BY SelectionType DEF MayPlay
<1>2. \A c \in cards : RankOf[c] = rank
  <2>1. \A i \in DOMAIN ids : RankOf[ids[i]] = rank
    BY <1>1 DEF MayPlay
  <2> QED BY <2>1 DEF Range
<1> HIDE DEF cards
<1>3. cards \subseteq SameRank(p, rank)
  BY <1>1, <1>2 DEF SameRank
<1>4. SameRank(p, rank) \in SUBSET OpenCards(p) /\ SameRank(p, rank) # {}
  BY <1>1, <1>3 DEF SameRank
<1>5. /\ Cardinality(cards) =< Cardinality(SameRank(p, rank))
      /\ Cardinality(cards) \in 1 .. Cardinality(OpenCards(p))
  BY <1>1, <1>3, <1>4, OpenCardsFinite, FS_Subset
<1>6. ASSUME rank = Joker PROVE Len(ids) = 1
  BY <1>1, <1>6 DEF MayPlay
<1>7. \A c \in SameRank(p, rank) : IsLegal(c)
  BY <1>1, LegalByRank DEF SameRank
<1>8. rank \in Ranks
  BY <1>1, DeckAssumption
<1> QED BY <1>1, <1>4, <1>5, <1>6, <1>7, <1>8 DEF EnumeratePlays

\* And every play listed for a player who may act is one the validator accepts.
LEMMA ListedIsAccepted ==
    ASSUME TypeOK, NEW p \in Players, MayAct(p, {Playing, Clearing}),
           NEW play \in EnumeratePlays(p)
    PROVE  \E ids \in Selections(p) :
              MayPlay(p, ids) /\ play = <<RankOf[ids[1]], Len(ids)>>
<1> DEFINE rank  == play[1]
           count == play[2]
<1>1. /\ rank \in Ranks /\ count \in 1 .. Cardinality(OpenCards(p))
      /\ count =< IF rank = Joker THEN 1 ELSE Cardinality(SameRank(p, rank))
      /\ SameRank(p, rank) # {}
      /\ \A c \in SameRank(p, rank) : IsLegal(c)
      /\ play = <<rank, count>>
  BY DEF EnumeratePlays
<1> HIDE DEF rank, count
<1>2. SameRank(p, rank) \in SUBSET OpenCards(p)
  BY DEF SameRank
<1>3. /\ IsFiniteSet(SameRank(p, rank)) /\ Cardinality(SameRank(p, rank)) >= 1
      /\ Cardinality(SameRank(p, rank)) \in Nat /\ Cardinality(OpenCards(p)) \in Nat
  BY <1>1, <1>2, OpenCardsFinite
<1>4. PICK cards \in SUBSET SameRank(p, rank) : Cardinality(cards) = count
  BY <1>1, <1>3, SubsetOfSize
<1>5. cards \in SUBSET OpenCards(p) /\ cards \subseteq Deck
  BY <1>2, <1>4, OpenCardsFinite
<1>6. \A c \in cards : RankOf[c] = rank /\ IsLegal(c)
  BY <1>1, <1>4 DEF SameRank
<1>7. PICK ids : ids \in Orderings(cards)
  BY <1>5, OrderingExists
<1>8. ids \in Selections(p)
  BY <1>5, <1>6, <1>7 DEF Selections
<1>9. /\ Range(ids) = cards /\ Len(ids) = count /\ DOMAIN ids = 1 .. count
      /\ \A i \in DOMAIN ids : ids[i] \in cards
  BY <1>4, <1>5, <1>7, OrderingType DEF Range
<1>10. ids # << >> /\ 1 \in DOMAIN ids /\ count \in Nat
  BY <1>1, <1>3, <1>9
<1>11. MayPlay(p, ids)
  BY <1>1, <1>3, <1>5, <1>6, <1>9, <1>10 DEF MayPlay, Joker
<1> QED BY <1>1, <1>6, <1>8, <1>9, <1>10, <1>11

LEMMA PlaysExact ==
    ASSUME TypeOK, NEW p \in Players, MayAct(p, {Playing, Clearing})
    PROVE  EnumeratePlays(p) = AcceptedMoves(p).plays
<1> DEFINE accepted == {<<RankOf[ids[1]], Len(ids)>> :
                           ids \in {s \in Selections(p) : MayPlay(p, s)}}
<1>1. accepted \subseteq EnumeratePlays(p)
  BY AcceptedIsListed
<1>2. ASSUME NEW play \in EnumeratePlays(p) PROVE play \in accepted
  BY ListedIsAccepted
<1> QED BY <1>1, <1>2 DEF AcceptedMoves

\* Whatever the state, the enumerator lists what the validator accepts.
LEMMA ListsExact == TypeOK => EnumerationExact
<1> SUFFICES ASSUME TypeOK, NEW p \in Players
             PROVE  EnumerateLegalMoves(p) = AcceptedMoves(p)
  BY DEF EnumerationExact
<1>1. /\ Playing # Queening /\ Clearing # Queening /\ Playing # Clearing
      /\ {Playing, Queening, Clearing} \cap Terminal = {}
  BY DEF Playing, Queening, Clearing, Terminal
<1>2. phase \in {Playing, Queening, Clearing} \cup Terminal
  BY DEF TypeOK, Phases
<1>3. ASSUME ~MayAct(p, {Playing, Clearing})
      PROVE  AcceptedMoves(p) =
                [plays |-> {}, blind |-> {}, pickUp |-> FALSE,
                 declare |-> {d \in {"higher", "lower"} : MayAct(p, {Queening})}]
  BY <1>3 DEF AcceptedMoves, MayPlay, MayPlayBlind, MayAct
<1>4. CASE ~MayAct(p, {Playing, Queening, Clearing})
  <2>1. AcceptedMoves(p) = NoMoves
    BY <1>3, <1>4 DEF MayAct, NoMoves
  <2> QED BY <1>2, <1>4, <2>1 DEF EnumerateLegalMoves, MayAct
<1>5. CASE MayAct(p, {Queening})
  <2>1. AcceptedMoves(p) =
          [plays |-> {}, blind |-> {}, pickUp |-> FALSE, declare |-> {"higher", "lower"}]
    BY <1>1, <1>3, <1>5 DEF MayAct
  <2> QED BY <1>1, <1>5, <2>1 DEF EnumerateLegalMoves, MayAct
<1>6. CASE MayAct(p, {Playing, Clearing})
  <2>1. EnumerateLegalMoves(p) =
          [plays   |-> EnumeratePlays(p),
           blind   |-> IF ActiveZone(p) = "faceDown" THEN faceDown[p] ELSE {},
           pickUp  |-> PickUpListed(p),
           declare |-> {}]
    BY <1>1, <1>6 DEF EnumerateLegalMoves, MayAct
  <2>2. AcceptedMoves(p).blind = IF ActiveZone(p) = "faceDown" THEN faceDown[p] ELSE {}
    BY <1>6 DEF AcceptedMoves, MayPlayBlind
  <2>3. AcceptedMoves(p).pickUp = PickUpListed(p)
    BY <1>1, <1>6 DEF AcceptedMoves, PickUpListed, MayAct
  <2>4. AcceptedMoves(p).declare = {}
    BY <1>1, <1>6 DEF AcceptedMoves, MayAct
  <2>5. AcceptedMoves(p) =
          [plays   |-> AcceptedMoves(p).plays, blind |-> AcceptedMoves(p).blind,
           pickUp  |-> AcceptedMoves(p).pickUp, declare |-> AcceptedMoves(p).declare]
    BY DEF AcceptedMoves
  <2> QED BY <1>6, <2>1, <2>2, <2>3, <2>4, <2>5, PlaysExact
<1> QED BY <1>4, <1>5, <1>6 DEF MayAct

\* In every state of every game the moves listed for an AI player are exactly
\* those the validator would accept.
THEOREM MovesListedExactly == Spec => []EnumerationExact
BY ListsExact, TypeCorrect, PTL

\* The counts of a view tell which zone is in play.
LEMMA BoardZoneIsActive ==
    ASSUME TypeOK, NEW p \in Players
    PROVE  LET view == SanitizeStateForPlayer(p)
           IN  BoardZone(view.players[p], view.drawPileCount) = ActiveZone(p)
<1> DEFINE view == SanitizeStateForPlayer(p)
           player == view.players[p]
<1>1. /\ player.shown = TRUE /\ player.hand = hand[p] /\ player.faceUpCards = faceUp[p]
      /\ player.faceDownCount = Cardinality(faceDown[p])
      /\ view.drawPileCount = Cardinality(drawPile)
  BY DEF SanitizeStateForPlayer, SanitizePlayer
<1>2. \A s \in SUBSET Deck : /\ IsFiniteSet(s) /\ Cardinality(s) \in Nat
                             /\ Cardinality(s) = 0 <=> s = {}
  BY DeckAssumption, FS_Subset, FS_CardinalityType, FS_EmptySet
<1>3. /\ Cardinality(hand[p]) > 0 <=> hand[p] # {}
      /\ Cardinality(drawPile) > 0 <=> drawPile # {}
      /\ Cardinality(faceDown[p]) > 0 <=> faceDown[p] # {}
  BY <1>2 DEF TypeOK
<1> HIDE DEF view
<1> QED BY <1>1, <1>3 DEF BoardZone, ActiveZone, HandCount, view

LEMMA BoardExact == TypeOK => BoardOffersMoves
<1> SUFFICES ASSUME TypeOK, NEW p \in Players
             PROVE  LET controls == Controls(p, SanitizeStateForPlayer(p))
                        accepted == AcceptedMoves(p)
                    IN  /\ \A ids \in Selections(p) :
                              MayPlay(p, ids) => Range(ids) \subseteq controls.play
                        /\ Cardinality(accepted.blind) =< Cardinality(controls.blind)
                        /\ accepted.pickUp => controls.pickUp
                        /\ accepted.declare \subseteq controls.declare
                        /\ controls # NoControls => p = currentPlayerIndex
  BY DEF BoardOffersMoves
<1> DEFINE view == SanitizeStateForPlayer(p)
           player == view.players[p]
           controls == Controls(p, view)
           accepted == AcceptedMoves(p)
<1>1. /\ view.currentPlayerIndex = currentPlayerIndex /\ view.phase = phase
      /\ player.shown = TRUE /\ player.hand = hand[p] /\ player.faceUpCards = faceUp[p]
      /\ player.faceDownCount = Cardinality(faceDown[p])
  BY DEF SanitizeStateForPlayer, SanitizePlayer
<1>2. BoardZone(player, view.drawPileCount) = ActiveZone(p)
  BY BoardZoneIsActive
<1> HIDE DEF view
<1>3. controls = IF p # currentPlayerIndex THEN NoControls
        ELSE [play    |-> hand[p] \cup (IF ActiveZone(p) = "faceUp" THEN faceUp[p] ELSE {}),
              blind   |-> IF ActiveZone(p) = "faceDown" THEN 1 .. Cardinality(faceDown[p]) ELSE {},
              pickUp  |-> phase # Queening,
              declare |-> IF phase = Queening THEN {"higher", "lower"} ELSE {}]
  BY <1>1, <1>2 DEF Controls, OnTurn, HandCards, FaceUpCards, FaceDownPlaces
<1> HIDE DEF controls
<1>4. \A ids \in Selections(p) : MayPlay(p, ids) => Range(ids) \subseteq controls.play
  BY <1>3 DEF MayPlay, MayAct, OpenCards
<1>5. Cardinality(accepted.blind) =< Cardinality(controls.blind)
  <2>1. IsFiniteSet(faceDown[p]) /\ Cardinality(faceDown[p]) \in Nat
    BY DeckAssumption, FS_Subset, FS_CardinalityType DEF TypeOK
  <2>2. CASE p = currentPlayerIndex /\ ActiveZone(p) = "faceDown"
    <3>1. Cardinality(controls.blind) = Cardinality(faceDown[p])
      BY <1>3, <2>1, <2>2, FS_Interval
    <3>2. accepted.blind \subseteq faceDown[p]
      BY DEF AcceptedMoves
    <3> QED BY <2>1, <3>1, <3>2, FS_Subset
  <2>3. CASE ~(p = currentPlayerIndex /\ ActiveZone(p) = "faceDown")
    <3>1. controls.blind = {}
      BY <1>3, <2>3 DEF NoControls
    <3>2. accepted.blind = {}
      BY <2>3 DEF AcceptedMoves, MayPlayBlind, MayAct
    <3> QED BY <3>1, <3>2, FS_EmptySet
  <2> QED BY <2>2, <2>3
<1>6. accepted.pickUp => controls.pickUp
  BY <1>3 DEF AcceptedMoves, MayAct, Playing, Queening
<1>7. accepted.declare \subseteq controls.declare
  BY <1>3 DEF AcceptedMoves, MayAct
<1>8. controls # NoControls => p = currentPlayerIndex
  BY <1>3
<1> QED BY <1>4, <1>5, <1>6, <1>7, <1>8 DEF controls, view

\* In every state of every game the board offers the player on turn, from his
\* view alone, every move the validator would accept, and the others none.
THEOREM BoardSuffices == Spec => []BoardOffersMoves
BY BoardExact, TypeCorrect, PTL

=============================================================================
