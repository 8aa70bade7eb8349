--------------------------- MODULE StartingPlayer ---------------------------
(***************************************************************************)
(* starting-player.ts: who plays first.  Players are their seats,          *)
(* 0 .. NumPlayers-1, and hands maps each of them to the set of cards it   *)
(* was dealt.                                                              *)
(***************************************************************************)
EXTENDS CardRules

CONSTANTS
    NumPlayers,   \* players at the table (2 to 5)
    CardsPerZone  \* CARDS_PER_ZONE of deck.ts, and maxPositions (3)

ASSUME PlayersAssumption == NumPlayers \in 2 .. 5
ASSUME ZoneAssumption    == CardsPerZone \in Nat \ {0}

Players == 0 .. NumPlayers - 1

(***************************************************************************)
(* sortedHandOrdinals(h)[k]: the k-th lowest ordinal of a hand, and the    *)
(* joker's when the hand is shorter.                                       *)
(***************************************************************************)
KthOrdinal(h, k) ==
    IF k > Cardinality(h)
    THEN Joker
    ELSE CHOOSE r \in Ranks :
            /\ Cardinality({c \in h : RankOf[c] < r}) < k
            /\ Cardinality({c \in h : RankOf[c] =< r}) >= k

\* Mutant: the highest cards are never compared.
MutantLastCardIgnored(hands) ==
    LET left[k \in 0 .. CardsPerZone] ==
            IF k = 0
            THEN Players
            ELSE {p \in left[k-1] : \A q \in left[k-1] :
                     KthOrdinal(hands[p], k) =< KthOrdinal(hands[q], k)}
    IN  left[CardsPerZone - 1]

(***************************************************************************)
(* The candidates left after the k lowest cards have been compared: of     *)
(* the players still tied, those whose k-th lowest card is lowest.         *)
(***************************************************************************)
Candidates(hands) ==
    LET left[k \in 0 .. CardsPerZone] ==
            IF k = 0
            THEN Players
            ELSE {p \in left[k-1] : \A q \in left[k-1] :
                     KthOrdinal(hands[p], k) =< KthOrdinal(hands[q], k)}
    IN  left[CardsPerZone]

\* Seats from p forward to q.
Distance(p, q) == (q - p) % NumPlayers

(***************************************************************************)
(* determineStartingPlayer: the seats it may return.  Of exactly two tied  *)
(* players the one with the shorter way to the other starts; any other tie *)
(* is broken by the seeded generator, here by choice.                      *)
(***************************************************************************)
StartingPlayers(hands) ==
    LET tied == Candidates(hands)
    IN  {p \in Players :
           /\ p \in tied
           /\ Cardinality(tied) = 2 =>
                 \A q \in tied \ {p} : Distance(p, q) =< Distance(q, p)}

-----------------------------------------------------------------------------
(* What SBOBUZ_ENGINE_SPEC.md section 4.1 asks, said without the algorithm. *)

\* Hands of the same size compare by their lowest card in which they differ:
\* g is lower than h when it has more cards of the lowest rank of which they
\* do not have equally many.
CountOf(h, rank) == Cardinality({c \in h : RankOf[c] = rank})

LowerHand(g, h) ==
    \E r \in Ranks : /\ CountOf(g, r) > CountOf(h, r)
                     /\ \A s \in 0 .. r - 1 : CountOf(g, s) = CountOf(h, s)

SameHand(g, h) == \A r \in Ranks : CountOf(g, r) = CountOf(h, r)

=============================================================================
