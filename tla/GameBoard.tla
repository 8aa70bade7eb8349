------------------------------ MODULE GameBoard ------------------------------
(***************************************************************************)
(* What a player can do at his board.  The server sends him a view of the  *)
(* state with counts in place of the cards he may not see (sanitizer.ts);  *)
(* the browser knows nothing else, works out again from the counts which   *)
(* of his zones is in play (GameBoard.tsx), and shows the controls that go *)
(* with it.  Only the server judges a move; a move the board does not      *)
(* offer cannot be made at all.                                            *)
(*                                                                         *)
(* Abstracted: how the selected cards get to the pile (the Play button, a  *)
(* tap or a drop on it), the disabled state while an answer is awaited     *)
(* (GameClient), and everything that is only drawn.                        *)
(***************************************************************************)
EXTENDS LegalMoves

\* sanitizePlayer; a hand not shown is null
SanitizePlayer(q, viewer) ==
    [shown         |-> q = viewer,
     hand          |-> IF q = viewer THEN hand[q] ELSE {},
     handCount     |-> Cardinality(hand[q]),
     faceUpCards   |-> faceUp[q],
     faceDownCount |-> Cardinality(faceDown[q])]

\* sanitizeStateForPlayer, without the parts only shown
SanitizeStateForPlayer(viewer) ==
    [phase              |-> phase,
     drawPileCount      |-> Cardinality(drawPile),
     players            |-> [q \in Players |-> SanitizePlayer(q, viewer)],
     currentPlayerIndex |-> currentPlayerIndex]

-----------------------------------------------------------------------------
(* The board, from the view alone.                                         *)

HandCount(player) == IF player.shown THEN Cardinality(player.hand) ELSE player.handCount

\* getActiveZone of GameBoard.tsx
BoardZone(player, drawPileCount) ==
    IF HandCount(player) > 0 \/ drawPileCount > 0 THEN "hand"
    ELSE IF player.faceUpCards # {}               THEN "faceUp"
    ELSE IF player.faceDownCount > 0              THEN "faceDown"
    ELSE "finished"

\* The cards of the hand can be selected whatever the zone in play.
HandCards(player) == IF player.shown THEN player.hand ELSE {}

FaceUpCards(player, zone) == IF zone = "faceUp" THEN player.faceUpCards ELSE {}

\* The places among the face-down cards that can be clicked, counted from 1.
FaceDownPlaces(player, zone) ==
    IF zone = "faceDown" THEN 1 .. player.faceDownCount ELSE {}

OnTurn(me, view) == view.currentPlayerIndex = me

NoControls == [play |-> {}, blind |-> {}, pickUp |-> FALSE, declare |-> {}]

\* Mutant: the button to pick up the pile goes with the hand.
MutantControls(me, view) ==
    LET player == view.players[me]
        zone   == BoardZone(player, view.drawPileCount)
    IN  IF ~OnTurn(me, view)
        THEN NoControls
        ELSE [play    |-> HandCards(player) \cup FaceUpCards(player, zone),
              blind   |-> FaceDownPlaces(player, zone),
              pickUp  |-> view.phase # Queening /\ HandCards(player) # {},
              declare |-> IF view.phase = Queening THEN {"higher", "lower"} ELSE {}]

(***************************************************************************)
(* The controls of the player with this view.  The declaration takes the   *)
(* place of the other buttons; the pile stays a target for selected cards, *)
(* and so do the face-down cards, in every phase.                          *)
(***************************************************************************)
Controls(me, view) ==
    LET player == view.players[me]
        zone   == BoardZone(player, view.drawPileCount)
    IN  IF ~OnTurn(me, view)
        THEN NoControls
        ELSE [play    |-> HandCards(player) \cup FaceUpCards(player, zone),
              blind   |-> FaceDownPlaces(player, zone),
              pickUp  |-> view.phase # Queening,
              declare |-> IF view.phase = Queening THEN {"higher", "lower"} ELSE {}]

-----------------------------------------------------------------------------
\* use-game.ts: the board holds no rules of its own.  Every move the validator
\* would accept from a player, in whatever phase and zone the moves of both
\* have led to, can be made with the controls his view gives him, and no
\* other player has any: the counts sent in place of hidden cards suffice for
\* the browser to find the zone the server would find.
BoardOffersMoves ==
    \A p \in Players :
        LET controls == Controls(p, SanitizeStateForPlayer(p))
            accepted == AcceptedMoves(p)
        IN  /\ \A ids \in Selections(p) : MayPlay(p, ids) => Range(ids) \subseteq controls.play
            /\ Cardinality(accepted.blind) =< Cardinality(controls.blind)
            /\ accepted.pickUp => controls.pickUp
            /\ accepted.declare \subseteq controls.declare
            /\ controls # NoControls => p = currentPlayerIndex

=============================================================================
