---------------------------- MODULE MCGameEngine ----------------------------
(***************************************************************************)
(* Small decks and deals for GameEngine, LegalMoves and GameBoard.         *)
(***************************************************************************)
EXTENDS GameBoard, TLC

CONSTANTS two, three, five1, five2, nine1, queen1, queen2, king, joker

CardTable == (two :> Two) @@ (three :> 1) @@ (five1 :> 3) @@ (five2 :> 3)
             @@ (nine1 :> 7) @@ (queen1 :> Queen) @@ (queen2 :> Queen)
             @@ (king :> King) @@ (joker :> Joker)

\* Duel: two players, seven cards, every deal, one card left to draw.
DuelDeck == {two, five1, five2, nine1, queen1, king, joker}
DuelRankOf == [c \in DuelDeck |-> CardTable[c]]
DuelSymmetry == Permutations({five1, five2})

\* Table: three players, nine cards, all dealt.
TableDeck == {two, three, five1, five2, nine1, queen1, queen2, king, joker}
TableRankOf == [c \in TableDeck |-> CardTable[c]]
TableInit ==
    /\ faceDown = (0 :> {three} @@ 1 :> {five1} @@ 2 :> {queen1})
    /\ faceUp = (0 :> {king} @@ 1 :> {nine1} @@ 2 :> {two})
    /\ Init
    /\ hand[0] = {joker}
TableSpec == TableInit /\ [][Next]_vars

\* Clock: two players, six cards, every deal, nothing to draw.
ClockDeck == {two, five1, five2, queen1, king, joker}
ClockRankOf == [c \in ClockDeck |-> CardTable[c]]

=============================================================================
