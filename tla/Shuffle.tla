------------------------------- MODULE Shuffle -------------------------------
(***************************************************************************)
(* shuffle of rng.ts and dealCards of deck.ts, on a deck of any length.    *)
(* The generator's answers are a parameter: picks[i] is the index drawn    *)
(* for index i, from 0 to i.                                               *)
(***************************************************************************)
EXTENDS Naturals, Sequences, FiniteSets

CONSTANTS
    DeckSize,       \* DECK_SIZE
    Seats,          \* number of players
    ZoneSize        \* CARDS_PER_ZONE

ASSUME ShuffleAssumption ==
    /\ DeckSize \in Nat \ {0} /\ Seats \in Nat /\ ZoneSize \in Nat \ {0}
    /\ Seats * 3 * ZoneSize =< DeckSize

\* Mutant: drawn from the indices below i.
MutantDrawn(i) == 0 .. i - 1

\* nextInt(rng, 0, i)
Drawn(i) == 0 .. i

Picks == {picks \in [1 .. DeckSize - 1 -> 0 .. DeckSize - 1] :
             \A i \in DOMAIN picks : picks[i] \in Drawn(i)}

\* shuffle: from the last index down to 1, swap with the index drawn.  The deck
\* is in the order of its cards' numbers; indices start with 0.
Shuffled(picks) ==
    LET swapped(deck, i, j) == [deck EXCEPT ![i] = deck[j], ![j] = deck[i]]
        left[n \in 0 .. DeckSize - 1] ==
            IF n = 0 THEN [i \in 0 .. DeckSize - 1 |-> i]
            ELSE swapped(left[n - 1], DeckSize - n, picks[DeckSize - n])
    IN  left[DeckSize - 1]

\* dealCards: zone 0 is face down, 1 face up, 2 the hand; and what is left
DealCards(deck) ==
    [zone  |-> [s \in 0 .. Seats - 1 |-> [z \in 0 .. 2 |->
                    {deck[(3 * s + z) * ZoneSize + k] : k \in 0 .. ZoneSize - 1}]],
     draws |-> {deck[k] : k \in 3 * Seats * ZoneSize .. DeckSize - 1}]

-----------------------------------------------------------------------------

Zones(deal) == {deal.zone[s][z] : s \in 0 .. Seats - 1, z \in 0 .. 2}

\* Every order of the deck comes of exactly one sequence of draws, so a uniform
\* generator makes all of them equally likely; and the deal gives every card
\* to one zone or to the draw pile.
ShuffleIsFair ==
    LET orders == {Shuffled(picks) : picks \in Picks}
    IN  /\ Cardinality(orders) = Cardinality(Picks)
        /\ orders = {order \in [0 .. DeckSize - 1 -> 0 .. DeckSize - 1] :
                        \A i, j \in 0 .. DeckSize - 1 : i # j => order[i] # order[j]}
        /\ \A deck \in orders :
               LET deal == DealCards(deck)
                   zones == Zones(deal)
               IN  /\ (UNION zones) \cup deal.draws = 0 .. DeckSize - 1
                   /\ Cardinality(zones) = 3 * Seats /\ \A zone \in zones :
                         Cardinality(zone) = ZoneSize /\ zone \cap deal.draws = {}

=============================================================================
