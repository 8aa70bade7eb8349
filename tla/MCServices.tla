----------------------------- MODULE MCServices -----------------------------
(***************************************************************************)
(* The parts of the server that do not interact, each explored on its own: *)
(* the part is chosen in the initial state and the others stay as they     *)
(* begin.  The part "deal" is determineStartingPlayer on every deal of two *)
(* cards to three players, and the shuffle.                                *)
(***************************************************************************)
EXTENDS Auth, RateLimiter, Leaderboard, Migrator, Shutdown, Shuffle, StartingPlayer, TLC

CONSTANTS amy, g1, three1, three2, three3, five1, five2, five3, joker1, joker2

MCDeck == {three1, three2, three3, five1, five2, five3, joker1, joker2}
MCRankOf == (three1 :> 1) @@ (three2 :> 1) @@ (three3 :> 1) @@ (five1 :> 3)
            @@ (five2 :> 3) @@ (five3 :> 3) @@ (joker1 :> Joker) @@ (joker2 :> Joker)

VARIABLES
    part,               \* the part explored; never changes
    hands, starter      \* a deal, and who starts

mcVars == <<authVars, limiterVars, leaderboardVars, migratorVars, shutdownVars, part, hands, starter>>

Nobody == NumPlayers   \* no seat

Deals ==
    {deal \in [Players -> {h \in SUBSET Deck : Cardinality(h) = CardsPerZone}] :
        \A p, q \in Players : p # q => deal[p] \cap deal[q] = {}}

MCInit ==
    /\ part \in {"auth", "sockets", "limiter", "leaderboard", "migrator", "shutdown", "deal"}
    /\ AuthInit /\ LimiterInit /\ LeaderboardInit /\ MigratorInit /\ ShutdownInit
    /\ hands \in IF part = "deal" THEN Deals ELSE {[p \in Players |-> {}]}
    /\ starter = Nobody

ChooseStarter ==
    /\ starter = Nobody
    /\ starter' \in StartingPlayers(hands)
    /\ UNCHANGED hands

MCNext ==
    /\ UNCHANGED part
    /\ \/ /\ part = "auth" /\ AuthNext
          /\ UNCHANGED <<limiterVars, leaderboardVars, migratorVars, shutdownVars, hands, starter>>
       \/ /\ part \in {"sockets", "limiter"} /\ LimiterNext
          /\ part = "sockets" => UNCHANGED <<entries, ttl, refused, admitted, crowded>>
          /\ part = "limiter" => UNCHANGED <<timestamps, allowed>>
          /\ UNCHANGED <<authVars, leaderboardVars, migratorVars, shutdownVars, hands, starter>>
       \/ /\ part = "leaderboard" /\ LeaderboardNext
          /\ jobs'[g1].pc # "waits" => jobs'[g1].winner = amy
          /\ UNCHANGED <<authVars, limiterVars, migratorVars, shutdownVars, hands, starter>>
       \/ /\ part = "migrator" /\ MigratorNext
          /\ UNCHANGED <<authVars, limiterVars, leaderboardVars, shutdownVars, hands, starter>>
       \/ /\ part = "shutdown" /\ ShutdownNext
          /\ UNCHANGED <<authVars, limiterVars, leaderboardVars, migratorVars, hands, starter>>
       \/ /\ part = "deal" /\ ChooseStarter
          /\ UNCHANGED <<authVars, limiterVars, leaderboardVars, migratorVars, shutdownVars>>

MCSpec == MCInit /\ [][MCNext]_mcVars

\* Somebody wins the game g1: it may as well be amy.
Interchangeable == Permutations(Calls) \cup Permutations(Users \ {amy})

\* Nobody holds a lower hand than the player who starts, however many of the
\* lowest cards are shared; a joker counts as the highest card.  When exactly
\* one other player holds the same ranks as the starter, that player is no
\* farther from him, in the direction of play, than he from it.
LowestHandStarts ==
    starter # Nobody =>
        LET equals == {q \in Players \ {starter} : SameHand(hands[q], hands[starter])}
            way(p, q) == (q + NumPlayers - p) % NumPlayers
        IN  /\ \A q \in Players : ~LowerHand(hands[q], hands[starter])
            /\ Cardinality(equals) = 1 => \A q \in equals : way(starter, q) =< way(q, starter)

\* Every order of the deck is as likely as any other, and dealt completely.
DealIsFair == part = "deal" /\ starter = Nobody => ShuffleIsFair

\* Before the first turn: the deal favours no order of the cards, and the
\* players, comparing their hands, agree on who starts.
FairStart == LowestHandStarts /\ DealIsFair
=============================================================================
