----------------------------- MODULE GameEngine -----------------------------
(***************************************************************************)
(* The authoritative game state and the engine's pipeline: validateAction  *)
(* (validator.ts) decides whether an action is accepted and reduce         *)
(* (reducer.ts) computes the next state, in one synchronous call, so each  *)
(* accepted action is one step here.  Players are seats of turnOrder.      *)
(*                                                                         *)
(* Data abstracted: a zone is a set of cards (no rule reads its order); so *)
(* is the draw pile, whose shuffled order nobody knows: a draw takes any   *)
(* cards of it.  The play pile keeps its order, which the rules read.      *)
(* gameId, config, rngSeed and actionCount never change a decision here.   *)
(***************************************************************************)
EXTENDS StartingPlayer

CONSTANTS
    HandSize,     \* cards a player draws up to (performDraw: 3)
    LateFor       \* players who are made to forfeit also when not on turn

ASSUME HandSizeAssumption == HandSize \in 1 .. CardsPerZone
ASSUME LateForAssumption == LateFor \subseteq Players

VARIABLES
    phase,               \* GamePhase
    drawPile,            \* set of cards not drawn yet
    playPile,            \* sequence of cards, the top last
    burnPile,            \* set of cards out of the game
    hand, faceUp, faceDown,   \* PlayerState: [Players -> set of cards]
    currentPlayerIndex,  \* seat whose turn it is
    turnDirection,       \* 1 or -1
    freePlay,            \* the next card may be anything
    nextCardOverride     \* "lower" after a Queen declared lower, else "none"

zones == <<hand, faceUp, faceDown>>
flags == <<freePlay, nextCardOverride>>
vars  == <<phase, drawPile, playPile, burnPile, hand, faceUp, faceDown,
           currentPlayerIndex, turnDirection, freePlay, nextCardOverride>>

Playing  == "playing"
Queening == "awaiting_queen_declaration"
Clearing == "awaiting_post_clear_play"
Terminal == {"finished", "cancelled"}
Phases   == {Playing, Queening, Clearing} \cup Terminal

-----------------------------------------------------------------------------
(* createInitialState: shuffle, deal, choose who starts.                   *)

\* Three disjoint zones of CardsPerZone cards for each player.
DealtZones == {s \in SUBSET Deck : Cardinality(s) = CardsPerZone}

Disjoint(zone, taken) ==
    \A p \in Players : /\ zone[p] \cap taken = {}
                       /\ \A q \in Players \ {p} : zone[p] \cap zone[q] = {}

Dealt(zone) == UNION {zone[p] : p \in Players}

Init ==
    /\ phase = Playing
    /\ hand \in [Players -> DealtZones] /\ Disjoint(hand, {})
    /\ faceUp \in [Players -> DealtZones] /\ Disjoint(faceUp, Dealt(hand))
    /\ faceDown \in [Players -> DealtZones]
    /\ Disjoint(faceDown, Dealt(hand) \cup Dealt(faceUp))
    /\ drawPile = Deck \ (Dealt(hand) \cup Dealt(faceUp) \cup Dealt(faceDown))
    /\ playPile = << >>
    /\ burnPile = {}
    /\ currentPlayerIndex \in StartingPlayers(hand)
    /\ turnDirection = 1
    /\ freePlay = FALSE
    /\ nextCardOverride = "none"

-----------------------------------------------------------------------------
(* What the validator and the reducer derive from the state.               *)

\* Mutant: the zone follows the draw pile alone, cards still in hand forgotten.
MutantZoneByDrawPile(p) ==
    IF drawPile # {}         THEN "hand"
    ELSE IF faceUp[p] # {}   THEN "faceUp"
    ELSE IF faceDown[p] # {} THEN "faceDown"
    ELSE "finished"

\* getActiveZone
ActiveZone(p) ==
    IF hand[p] # {} \/ drawPile # {} THEN "hand"
    ELSE IF faceUp[p] # {}           THEN "faceUp"
    ELSE IF faceDown[p] # {}         THEN "faceDown"
    ELSE "finished"

\* getActiveZoneCards, for the zones PLAY_CARDS accepts
OpenCards(p) == IF ActiveZone(p) = "hand" THEN hand[p]
                ELSE IF ActiveZone(p) = "faceUp" THEN faceUp[p]
                ELSE {}

\* checkWinCondition
HasWon(p) == /\ drawPile = {}
             /\ hand[p] = {} /\ faceUp[p] = {} /\ faceDown[p] = {}

IsLegal(card) == IsCardLegal(card, playPile, freePlay, nextCardOverride)

\* validateAction, steps 1 and 2, for an action that belongs to the turn
MayAct(p, phases) ==
    /\ phase \in phases
    /\ p = currentPlayerIndex
    /\ ActiveZone(p) # "finished"

(***************************************************************************)
(* validatePlayCards: ids is the list of cards as sent.  Nothing looks for *)
(* a card listed twice; the legality asked for is that of the first card.  *)
(***************************************************************************)
MayPlay(p, ids) ==
    /\ MayAct(p, {Playing, Clearing})
    /\ ids # << >> /\ Range(ids) \subseteq OpenCards(p)
    /\ Len(ids) > 1 =>
          \A i \in DOMAIN ids : RankOf[ids[i]] # Joker /\ RankOf[ids[i]] = RankOf[ids[1]]
    /\ IsLegal(ids[1])

\* validatePlayBlind
MayPlayBlind(p, card) ==
    /\ MayAct(p, {Playing, Clearing})
    /\ ActiveZone(p) = "faceDown"
    /\ card \in faceDown[p]

\* advanceTurn: % is TLA+'s, never negative, as the code's double modulus is
AdvanceTurn(index, direction) == (index + direction) % NumPlayers

\* performDraw: what a player holding h may draw
Draws(h) ==
    {s \in SUBSET drawPile :
        /\ s # {} => Cardinality(h) + Cardinality(s) =< HandSize
        /\ s # drawPile => Cardinality(h) + Cardinality(s) >= HandSize}

\* The orders in which a set of cards may be listed
Orderings(cards) ==
    {s \in [1 .. Cardinality(cards) -> cards] : Range(s) = cards}

(***************************************************************************)
(* selectCard: the lists of cards the players' boards and the enumerator   *)
(* send.  A card selected already is not added again.  (Lists of several   *)
(* ranks, which can be selected but are always refused, are left out.)     *)
(***************************************************************************)
Selections(p) ==
    LET one == {cards \in SUBSET OpenCards(p) : \A c, d \in cards : RankOf[c] = RankOf[d]}
    IN  UNION {Orderings(cards) : cards \in one}

-----------------------------------------------------------------------------
(* The reducer.                                                            *)

\* Mutant: a cleared pile is to be played on even by a player without cards.
MutantClearBeforeWin(p, again) ==
    IF again THEN Clearing ELSE IF HasWon(p)' THEN "finished" ELSE Playing

PhaseAfter(p, again) ==
    IF HasWon(p)' THEN "finished" ELSE IF again THEN Clearing ELSE Playing

\* Mutant: the direction before the play is used.
MutantStaleDirection == AdvanceTurn(currentPlayerIndex, turnDirection)

\* The turn passes in the direction the step leaves.
NextPlayer == AdvanceTurn(currentPlayerIndex, turnDirection')

(***************************************************************************)
(* End of a play or of a declaration: the player, left with h in hand,     *)
(* draws up to HandSize; if all zones are empty the game is won and the    *)
(* turn stays; if the pile was cleared the same player plays again; else   *)
(* the turn advances.                                                      *)
(***************************************************************************)
DrawAndSettle(p, h, again) ==
    /\ \E drawn \in Draws(h) : /\ drawPile' = drawPile \ drawn
                               /\ hand' = [hand EXCEPT ![p] = h \cup drawn]
    /\ phase' = PhaseAfter(p, again)
    /\ currentPlayerIndex' = IF phase' = Playing THEN NextPlayer ELSE currentPlayerIndex

\* Mutant: the effect of a Queen is looked at before the Sbobuz.
MutantQueenFirst(rank, pile) == rank = Queen

AwaitsDeclaration(rank, pile) == rank = Queen /\ ~CheckSbobuz(pile)

\* Mutant: a card with an effect of its own has it, Sbobuz or not.
MutantEffectFirst(rank, pile) ==
    IF rank \in {Two, Queen, King, Joker} THEN rank = King ELSE CheckSbobuz(pile)

ClearsPile(rank, pile) == CheckSbobuz(pile) \/ rank = King

\* Mutant: the cards burnt before are forgotten.
MutantBurnAnew(pile) == Range(pile)

Burn(pile) == burnPile \cup Range(pile)

(***************************************************************************)
(* resolveCardPlay: pile is the play pile with the cards of that rank just *)
(* put on it, h the hand left to p.  A Sbobuz overrides the card's effect; *)
(* a Queen waits for its declaration, before any draw or win check.        *)
(***************************************************************************)
ResolveCardPlay(p, rank, pile, h) ==
    LET sbobuz == CheckSbobuz(pile)
        clears == ClearsPile(rank, pile)
    IN
    /\ playPile' = IF clears THEN << >> ELSE pile
    /\ burnPile' = IF clears THEN Burn(pile) ELSE burnPile
    /\ turnDirection' = IF sbobuz \/ rank = Joker THEN -turnDirection ELSE turnDirection
    /\ freePlay' = (~sbobuz /\ rank \in {Two, Joker})
    /\ nextCardOverride' = "none"
    /\ \/ /\ AwaitsDeclaration(rank, pile)
          /\ phase' = Queening
          /\ hand' = [hand EXCEPT ![p] = h]
          /\ UNCHANGED <<drawPile, currentPlayerIndex>>
       \/ /\ ~AwaitsDeclaration(rank, pile)
          /\ DrawAndSettle(p, h, clears)

\* Mutant: free play outlives the pile it was set on.
MutantFlagKept(p, pile) ==
    /\ hand' = [hand EXCEPT ![p] = @ \cup Range(pile)]
    /\ playPile' = << >>
    /\ nextCardOverride' = "none"
    /\ currentPlayerIndex' = AdvanceTurn(currentPlayerIndex, turnDirection)
    /\ phase' = Playing
    /\ UNCHANGED <<drawPile, burnPile, turnDirection, faceUp, freePlay>>

\* The pile goes to p's hand, with no effect, and the turn advances.
TakePile(p, pile) ==
    /\ hand' = [hand EXCEPT ![p] = @ \cup Range(pile)]
    /\ playPile' = << >>
    /\ freePlay' = FALSE
    /\ nextCardOverride' = "none"
    /\ currentPlayerIndex' = AdvanceTurn(currentPlayerIndex, turnDirection)
    /\ phase' = Playing
    /\ UNCHANGED <<drawPile, burnPile, turnDirection, faceUp>>

\* reduceDeclareDirection
Declare(p, direction) ==
    /\ nextCardOverride' = IF direction = "lower" THEN "lower" ELSE "none"
    /\ UNCHANGED <<playPile, burnPile, faceUp, faceDown, turnDirection, freePlay>>
    /\ DrawAndSettle(p, hand[p], FALSE)

\* Mutant: the turn does not move on.
MutantTurnKept ==
    /\ phase' = Playing
    /\ UNCHANGED <<drawPile, playPile, burnPile, zones, currentPlayerIndex,
                   turnDirection, flags>>

SkipTurn ==
    /\ currentPlayerIndex' = AdvanceTurn(currentPlayerIndex, turnDirection)
    /\ phase' = Playing
    /\ UNCHANGED <<drawPile, playPile, burnPile, zones, turnDirection, flags>>

-----------------------------------------------------------------------------
(* The actions: validator and reducer together.                            *)

\* PLAY_CARDS: one or more cards of one rank from the hand or face-up zone
PlayCards(p, ids) ==
    /\ MayPlay(p, ids)
    /\ faceUp' = [faceUp EXCEPT ![p] = @ \ Range(ids)]
    /\ UNCHANGED faceDown
    /\ ResolveCardPlay(p, RankOf[ids[1]], playPile \o ids, hand[p] \ Range(ids))

\* Mutant: the revealed card does not go back with the pile.
MutantRevealedCardLost(p, card) ==
    /\ MayPlayBlind(p, card)
    /\ faceDown' = [faceDown EXCEPT ![p] = @ \ {card}]
    /\ \/ /\ IsLegal(card)
          /\ UNCHANGED faceUp
          /\ ResolveCardPlay(p, RankOf[card], Append(playPile, card), hand[p])
       \/ /\ ~IsLegal(card)
          /\ TakePile(p, playPile)

\* PLAY_BLIND: a face-down card, which is only now looked at
PlayBlind(p, card) ==
    /\ MayPlayBlind(p, card)
    /\ faceDown' = [faceDown EXCEPT ![p] = @ \ {card}]
    /\ \/ /\ IsLegal(card)
          /\ UNCHANGED faceUp
          /\ ResolveCardPlay(p, RankOf[card], Append(playPile, card), hand[p])
       \/ /\ ~IsLegal(card)
          /\ TakePile(p, Append(playPile, card))

\* PICK_UP_PILE: always allowed in the playing phase when there is a pile
PickUpPile(p) ==
    /\ MayAct(p, {Playing})
    /\ playPile # << >>
    /\ TakePile(p, playPile)
    /\ UNCHANGED faceDown

\* DECLARE_DIRECTION
DeclareDirection(p, direction) ==
    /\ MayAct(p, {Queening})
    /\ Declare(p, direction)

\* Mutant: a forfeit is let pass when the game is over.
MutantForfeitAnytime(p) ==
    \/ phase = Queening /\ Declare(p, "higher")
    \/ phase = Clearing /\ SkipTurn
    \/ phase \notin {Queening, Clearing} /\ playPile # << >> /\ TakePile(p, playPile)
                                       /\ UNCHANGED faceDown
    \/ phase \notin {Queening, Clearing} /\ playPile = << >> /\ SkipTurn

(***************************************************************************)
(* TIMEOUT_FORFEIT: the validator checks neither the turn nor the zone, the*)
(* reducer acts for the player named in the action.                        *)
(***************************************************************************)
TimeoutForfeit(p) ==
    /\ phase \notin Terminal
    /\ \/ phase = Queening /\ Declare(p, "higher")
       \/ phase = Clearing /\ SkipTurn
       \/ phase = Playing /\ playPile # << >> /\ TakePile(p, playPile) /\ UNCHANGED faceDown
       \/ phase = Playing /\ playPile = << >> /\ SkipTurn

(***************************************************************************)
(* CANCEL_GAME: the validator lets it pass before any check, in every      *)
(* phase.  The server sends it while the game is on; from a client, whose  *)
(* actions processAction relays whatever their type, it may come any time. *)
(***************************************************************************)
CancelGame ==
    /\ phase' = "cancelled"
    /\ UNCHANGED <<drawPile, playPile, burnPile, zones, currentPlayerIndex,
                   turnDirection, flags>>

PlayerMove(p) ==
    \/ \E ids \in Selections(p) : PlayCards(p, ids)
    \/ \E card \in faceDown[p] : PlayBlind(p, card)
    \/ PickUpPile(p)
    \/ \E direction \in {"higher", "lower"} : DeclareDirection(p, direction)

(***************************************************************************)
(* The turn timer is armed for the player whose turn it is.  One that was  *)
(* not stopped (GameSession models when) forfeits for a player not on turn,*)
(* and so does a TIMEOUT_FORFEIT that processAction relays from a client.  *)
(***************************************************************************)
TurnTimeout ==
    \E p \in Players : /\ p = currentPlayerIndex \/ p \in LateFor
                      /\ TimeoutForfeit(p)

Next ==
    \/ \E p \in Players : PlayerMove(p)
    \/ TurnTimeout
    \/ CancelGame

Spec == Init /\ [][Next]_vars

-----------------------------------------------------------------------------
(* Properties.                                                             *)

\* The turn is always at a seat of the table, whichever way and however often
\* play changed direction, and every zone holds cards of the deck.
TypeOK ==
    /\ phase \in Phases
    /\ drawPile \subseteq Deck
    /\ playPile \in Seq(Deck)
    /\ burnPile \subseteq Deck
    /\ hand \in [Players -> SUBSET Deck]
    /\ faceUp \in [Players -> SUBSET Deck]
    /\ faceDown \in [Players -> SUBSET Deck]
    /\ currentPlayerIndex \in Players
    /\ turnDirection \in {1, -1}
    /\ freePlay \in BOOLEAN
    /\ nextCardOverride \in {"lower", "none"}

Held(p) == hand[p] \cup faceUp[p] \cup faceDown[p]

\* The zones h, u and d of the players, the draw pile, the cards on the table
\* and the burnt ones are apart from each other and make up the deck.
Partition(h, u, d, draw, table, burn) ==
    /\ \A p \in Players :
          /\ h[p] \cap u[p] = {} /\ h[p] \cap d[p] = {} /\ u[p] \cap d[p] = {}
          /\ (h[p] \cup u[p] \cup d[p]) \cap (draw \cup table \cup burn) = {}
          /\ \A q \in Players \ {p} :
                (h[p] \cup u[p] \cup d[p]) \cap (h[q] \cup u[q] \cup d[q]) = {}
    /\ draw \cap table = {} /\ draw \cap burn = {} /\ table \cap burn = {}
    /\ Deck = draw \cup table \cup burn \cup UNION {h[p] \cup u[p] \cup d[p] : p \in Players}

\* Every card is in one place, and once on the pile: no play, blind reveal,
\* pick-up, burn or draw loses or duplicates a card.  As the validator accepts
\* a card listed twice, this rests on the boards, which select it once.
CardsConserved ==
    /\ IsInjective(playPile)
    /\ Partition(hand, faceUp, faceDown, drawPile, Range(playPile), burnPile)

\* The flags, which outlive the turn that set them, always belong to the card
\* on top of the pile: free play to a 2 or a joker, "lower" to a Queen; a pile
\* that was taken or burnt leaves none behind, nor does a card played since.
FlagsMatchPile ==
    /\ freePlay => playPile # << >> /\ RankOf[Top(playPile)] \in {Two, Joker}
    /\ nextCardOverride = "lower" => playPile # << >> /\ RankOf[Top(playPile)] = Queen

\* A declaration is awaited only for a Queen on top of the pile, and a second
\* play only after the pile was cleared, in both cases with no flag left over
\* from before the play.
PhaseMatchesPile ==
    /\ phase = Queening => /\ playPile # << >> /\ RankOf[Top(playPile)] = Queen
                           /\ ~freePlay /\ nextCardOverride = "none"
    /\ phase = Clearing => /\ playPile = << >>
                           /\ ~freePlay /\ nextCardOverride = "none"

\* SBOBUZ_ENGINE_SPEC.md: "Sbobuz always wins".  Whoever completes it, over
\* however many turns, and even with Queens or Kings: no Sbobuz is ever left
\* lying on the pile.
SbobuzAlwaysWins == ~CheckSbobuz(playPile)

\* Whoever must play a card or pick up has an accepted action: the validator
\* never leaves the player on turn with nothing but the timeout, as long as
\* only the player on turn forfeits.  (A forfeit of another player while a
\* Queen is awaited declares it for him and can leave the turn, in the end, to
\* a player whose last card that Queen was.)
SomeMoveAccepted(p) ==
    \/ \E ids \in Selections(p) : MayPlay(p, ids)
    \/ \E card \in faceDown[p] : MayPlayBlind(p, card)
    \/ MayAct(p, {Playing}) /\ playPile # << >>

PlayerNeverStuck ==
    LateFor = {} /\ phase \in {Playing, Clearing} => SomeMoveAccepted(currentPlayerIndex)

\* Every step that leaves the game on either keeps the turn, because a Queen
\* is to be declared or the pile was cleared, or passes it to the neighbour in
\* the direction of play as the step leaves it.  The direction turns only with
\* a joker on the pile or a Sbobuz, which clears it.
TurnStep ==
    phase' \notin Terminal =>
        /\ currentPlayerIndex' = IF phase' \in {Queening, Clearing}
                                 THEN currentPlayerIndex
                                 ELSE AdvanceTurn(currentPlayerIndex, turnDirection')
        /\ turnDirection' # turnDirection =>
              \/ phase' = Clearing /\ burnPile' # burnPile
              \/ playPile' # << >> /\ RankOf[Top(playPile')] = Joker

TurnPassesInOrder == [][TurnStep]_vars

\* The zones are used up in order: a face-up card leaves only with no card in
\* hand or to draw, a face-down card only when the face-up ones are gone too
\* and one at a time; and neither zone ever gets a card back.
ZoneStep ==
    \A p \in Players :
        /\ faceUp'[p] \subseteq faceUp[p]
        /\ faceDown'[p] \subseteq faceDown[p]
        /\ faceUp'[p] # faceUp[p] => hand[p] = {} /\ drawPile = {}
        /\ faceDown'[p] # faceDown[p] =>
              /\ hand[p] = {} /\ drawPile = {} /\ faceUp[p] = {}
              /\ \E card \in faceDown[p] : faceDown'[p] = faceDown[p] \ {card}

ZonesInOrder == [][ZoneStep]_vars

\* The engine implements the abstract flow of cards.
Flow == INSTANCE CardFlow WITH
            stock   <- drawPile,
            held    <- [p \in Players |-> Held(p)],
            table   <- Range(playPile),
            discard <- burnPile,
            outcome <- CASE phase = "finished"  -> "won"
                         [] phase = "cancelled" -> "cancelled"
                         [] OTHER -> "open"

FlowSpec == Flow!Spec

\* win-condition-evaluator.md, scenario 11: a player whose last card was a
\* Queen wins by declaring a direction.  The declaration is to be accepted.
QueenPlayerMayDeclare ==
    phase = Queening => MayAct(currentPlayerIndex, {Queening})

-----------------------------------------------------------------------------
(* What the session manager relies on.                                     *)

SessionTurns ==
    INSTANCE Turns WITH turn <- currentPlayerIndex,
                        status <- IF phase \in Terminal THEN phase ELSE "playing"

\* Every engine action, whoever it comes from, is a step of Turns: the seat it
\* leaves the turn at exists, and a game that is over is never on again and
\* keeps its last player; all that can still become of it is a cancelled one.
TurnsSpec == SessionTurns!Spec

ForfeitStep == TurnTimeout => SessionTurns!Forfeit(currentPlayerIndex)

\* A forfeit, of whomever, never leaves the turn where it was, in any phase: the
\* timer started after it always runs for somebody else, or the game is over.
ForfeitPassesTurn == [][ForfeitStep]_vars

=============================================================================
