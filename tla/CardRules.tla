------------------------------ MODULE CardRules ------------------------------
(***************************************************************************)
(* The rules that decide whether a card may be played and whether a pile   *)
(* is a Sbobuz: rank-comparator.ts and sbobuz-detector.ts, and the deck    *)
(* they speak of (deck.ts).  A card is an element of Deck; all the engine  *)
(* reads of it is its ordinal, RankOf[card], the index of its rank in      *)
(* RANK_ORDER ("2" is 0, "Q" 10, "K" 11, "A" 12).  A joker has no rank in  *)
(* the source; it gets ordinal 13, the JOKER_ORDINAL of starting-player.ts.*)
(* Suits are never read by the rules and are abstracted away.              *)
(***************************************************************************)
EXTENDS Integers, Sequences, FiniteSets, Functions

CONSTANTS
    Deck,         \* the cards of one game
    RankOf,       \* the ordinal of each card
    SbobuzCount   \* SBOBUZ_COUNT: cards of one rank that make a Sbobuz (4)

Two   == 0
Queen == 10
King  == 11
Joker == 13
Ranks == 0 .. Joker

ASSUME DeckAssumption ==
    /\ IsFiniteSet(Deck)
    /\ RankOf \in [Deck -> Ranks]

ASSUME SbobuzAssumption == SbobuzCount \in Nat \ {0}

Top(pile) == pile[Len(pile)]

(***************************************************************************)
(* isCardLegal, with buildContext inlined; free and override are the two   *)
(* flags of the game state.  A joker, a 2, and any card on an empty pile,  *)
(* on a joker or under free play is legal; every other card must be at     *)
(* least as high as the top card, or at least as low after a Queen that    *)
(* declared lower.                                                         *)
(***************************************************************************)
MustCompare(card, pile, free) ==
    /\ RankOf[card] \notin {Two, Joker}
    /\ pile # << >>
    /\ ~free
    /\ RankOf[Top(pile)] # Joker

IsCardLegal(card, pile, free, override) ==
    MustCompare(card, pile, free) =>
        IF override = "lower" THEN RankOf[card] =< RankOf[Top(pile)]
                              ELSE RankOf[card] >= RankOf[Top(pile)]

(***************************************************************************)
(* checkSbobuz: the top SbobuzCount cards are of one rank, none a joker.   *)
(***************************************************************************)
CheckSbobuz(pile) ==
    /\ Len(pile) >= SbobuzCount
    /\ RankOf[Top(pile)] # Joker
    /\ \A i \in Len(pile) - SbobuzCount + 1 .. Len(pile) :
          RankOf[pile[i]] = RankOf[Top(pile)]

=============================================================================
