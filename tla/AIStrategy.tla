----------------------------- MODULE AIStrategy -----------------------------
(***************************************************************************)
(* The strategies of AI players: at random (strategies/random.ts), and the *)
(* heuristic one (strategies/heuristic.ts), with the score of a move and   *)
(* the moves it may return.  What is drawn from the seeded generator, a    *)
(* move or the variance from -5 to 5, is any of its values.  The cards of  *)
(* one play have one rank; two moves with the same ranks have the same     *)
(* score and are one move here.  Which direction to declare is left out.   *)
(***************************************************************************)
EXTENDS Integers, FiniteSets

LOCAL INSTANCE FiniteSetsExt

CONSTANTS
    PileSizes,          \* bound: sizes of the play pile
    HandSizes,          \* bound: cards in the active zone
    None

VARIABLES
    strategy,   \* AIPlayer.strategyId, from the difficulty
    situation,  \* what the strategy sees
    moves,      \* the legal moves
    chosen      \* the move returned

strategyVars == <<strategy, situation, moves, chosen>>

J == 11
Q == 12
K == 13

PickUp == [type |-> "PICK_UP_PILE"]

ASSUME StrategyAssumption ==
    PileSizes \subseteq Nat /\ HandSizes \subseteq Nat /\ None # PickUp

isLowCard(rank) == rank =< 7
isHighCard(rank) == rank >= J
isSpecialCard(rank) == rank \in {2, K, Q}

\* The part of the score that depends on the rank and on what lies on the pile
RankScore(move, s) ==   \* jokers have no rank
    LET rank == move.rank
        same == IF s.topRank = rank THEN s.topCount + move.count ELSE 0
    IN    (IF isLowCard(rank) THEN 10 * move.count ELSE 0)
        + (IF isHighCard(rank) /\ ~isSpecialCard(rank) THEN -5 * move.count ELSE 0)
        + (IF rank = 2 THEN IF s.pile >= 5 THEN 8 ELSE IF s.pile < 3 THEN -3 ELSE 0 ELSE 0)
        + (IF rank = K THEN IF s.pile >= 4 THEN 25 ELSE 5 ELSE 0)
        + (IF same >= 4 THEN 40 ELSE IF same = 3 THEN 20 ELSE 0)

\* The score of a PLAY_CARDS move
PlayScore(move, s) ==
    (IF move.rank = None THEN 15 ELSE RankScore(move, s))
    + 6 * (move.count - 1) + 8 * move.count + 5 * s.closeOpponents
    + (IF s.zone = "faceUp" /\ s.cards = move.count /\ s.drawPileEmpty THEN 12 ELSE 0)

\* Mutant: the penalty is not multiplied.
MutantFlatPenalty(move, s) ==
    CASE move = PickUp -> IF s.pile =< 2 THEN -2 ELSE -3
      [] move.type = "PLAY_BLIND" -> 0
      [] move.type = "PLAY_CARDS" -> PlayScore(move, s)

\* All face-down cards are equally unknown.
scoreAction(move, s) ==
    CASE move = PickUp -> IF s.pile =< 2 THEN -2 ELSE -3 * s.pile
      [] move.type = "PLAY_BLIND" -> 0
      [] move.type = "PLAY_CARDS" -> PlayScore(move, s)

\* The three best after the first sort; ties are in any order.
TopMoves(s) ==
    {top \in kSubset(IF Cardinality(moves) < 3 THEN Cardinality(moves) ELSE 3, moves) :
        \A m \in top, n \in moves \ top : scoreAction(m, s) >= scoreAction(n, s)}

\* move can be first once the moves in top have their variance
MayWin(move, top, s) ==
    \A other \in moves \ {move} :
        scoreAction(move, s) + (IF move \in top THEN 5 ELSE 0)
            >= scoreAction(other, s) - (IF other \in top THEN 5 ELSE 0)

\* What may be played where: the cards on the table are active only when the
\* draw pile is empty (getActiveZone).
Situations ==
    {s \in [pile : PileSizes, topRank : {5, J, None}, topCount : {0, 1, 3},
            zone : {"hand", "faceUp", "faceDown"}, cards : HandSizes, drawPileEmpty : BOOLEAN,
            closeOpponents : {0, 2}] :
        /\ s.topCount =< s.pile /\ (s.topRank = None <=> s.topCount = 0)
        /\ s.drawPileEmpty <=> s.zone # "hand"}

LegalPlays(s) ==
    IF s.zone = "faceDown"
    THEN {[type |-> "PLAY_BLIND", cardIndex |-> i] : i \in 0 .. s.cards - 1}
    ELSE {[type |-> "PLAY_CARDS", rank |-> r, count |-> n] :
             r \in {2, 5, J, K, None}, n \in {n \in 1 .. 4 : n =< s.cards}}

\* Every face-down card may be played blind; of the others none, one or two ways
\* to play are legal.
OfferedPlays(s) ==
    IF s.zone = "faceDown" THEN {LegalPlays(s)}
    ELSE {{}} \cup {{m, n} : m, n \in LegalPlays(s)}

\* And the pile may be taken up if there is one.
StrategyInit ==
    /\ strategy \in {"heuristic", "random"}
    /\ situation \in Situations
    /\ \E plays \in OfferedPlays(situation) :
           moves = plays \cup (IF situation.pile > 0 THEN {PickUp} ELSE {})
    /\ moves # {}
    /\ chosen = None

\* A single legal move is returned unscored.
selectHeuristicMove ==
    /\ strategy = "heuristic" /\ chosen = None
    /\ \E top \in TopMoves(situation), move \in moves :
           MayWin(move, top, situation) /\ chosen' = move
    /\ UNCHANGED <<strategy, situation, moves>>

selectRandomMove ==
    /\ strategy = "random" /\ chosen = None
    /\ chosen' \in moves
    /\ UNCHANGED <<strategy, situation, moves>>

computeMoveDirectly == selectHeuristicMove \/ selectRandomMove

StrategySpec == StrategyInit /\ [][computeMoveDirectly]_strategyVars

-----------------------------------------------------------------------------

\* The heuristic strategy does not take up a pile of three or more cards while
\* it can play one it sees, whatever the variance: avoidLargePickupPerCard
\* outweighs the penalty of every single high card.  A blind play is worth
\* nothing, so a pile of three may be taken up instead of it, one of four not.
PicksUpOnlyInNeed ==
    strategy = "heuristic" /\ chosen = PickUp =>
        \/ moves = {PickUp}
        \/ situation.pile =< (IF situation.zone = "faceDown" THEN 3 ELSE 2)

=============================================================================
