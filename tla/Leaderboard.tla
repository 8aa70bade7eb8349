----------------------------- MODULE Leaderboard -----------------------------
(***************************************************************************)
(* Ratings after games: processGameResult of leaderboard-service.ts, with  *)
(* getRatings, applyRatingUpdate and recordMatchResult of repository.ts.   *)
(* Results of several games are processed at a time, one statement after   *)
(* the other, and any statement may fail.  calculateMultiplayerRatings is  *)
(* known by its bounds: the winner's rating does not fall, a loser's does  *)
(* not rise, no change exceeds MaxChange (the K-factor) and no rating      *)
(* falls below MinRating.                                                  *)
(***************************************************************************)
EXTENDS Integers, FiniteSets, SequencesExt

CONSTANTS
    Users,
    Games,
    InitialRating, MinRating, MaxChange,    \* 1200, 100, 40 in the code
    Band                                    \* 50 in the code

ASSUME RatingAssumption ==
    /\ MinRating \in Nat /\ InitialRating \in Nat /\ MinRating =< InitialRating
    /\ MaxChange \in Nat /\ Band \in Nat
    /\ IsFiniteSet(Users)

VARIABLES
    ratings,        \* table ratings, without the rows' dates
    matchResults,   \* table match_results
    jobs            \* for each game, how far processGameResult is

leaderboardVars == <<ratings, matchResults, jobs>>

New == [rating |-> InitialRating, peak |-> InitialRating, won |-> 0, lost |-> 0,
        streak |-> 0, best |-> 0]

LeaderboardInit ==
    /\ ratings = [u \in Users |-> New]
    /\ matchResults = {}
    /\ jobs = [g \in Games |-> [pc |-> "waits"]]

\* A game ends.  Only humans are rated, and only if there are two of them.
ProcessGameResult(g) ==
    /\ jobs[g].pc = "waits"
    /\ \E winner \in Users, humans \in SUBSET Users :
        /\ winner \in humans /\ Cardinality(humans) >= 2
        /\ jobs' = [jobs EXCEPT ![g] =
               [pc |-> "read", winner |-> winner, humans |-> humans,
                seen |-> [u \in {} |-> New], todo |-> humans, user |-> winner, after |-> 0]]
    /\ UNCHANGED <<ratings, matchResults>>

\* getRatings: one player after the other
ReadRating(g) ==
    /\ jobs[g].pc = "read"
    /\ \E u \in jobs[g].todo :
        LET seen == [v \in (DOMAIN jobs[g].seen) \cup {u} |->
                         IF v = u THEN ratings[u] ELSE jobs[g].seen[v]]
            left == jobs[g].todo \ {u}
        IN  jobs' = [jobs EXCEPT ![g].seen = seen,
                                 ![g].todo = IF left = {} THEN jobs[g].humans ELSE left,
                                 ![g].pc = IF left = {} THEN "apply" ELSE "read"]
    /\ UNCHANGED <<ratings, matchResults>>

Larger(a, b) == IF a >= b THEN a ELSE b

\* calculateMultiplayerRatings, for one player
NewRatings(rating, wins) ==
    {Larger(rating + (IF wins THEN change ELSE -change), MinRating) : change \in 0 .. MaxChange}

\* Mutant: the row is computed from the one read before.
MutantFromRowRead(u, seen, after, wins) ==
    [rating |-> after, peak |-> Larger(seen.peak, after),
     won |-> seen.won + (IF wins THEN 1 ELSE 0),
     lost |-> seen.lost + (IF wins THEN 0 ELSE 1),
     streak |-> IF wins THEN seen.streak + 1 ELSE 0,
     best |-> IF wins THEN Larger(seen.best, seen.streak + 1) ELSE seen.best]

\* applyRatingUpdate: the rating is the one computed, the rest of the row goes on
\* from what it is now.
UpdatedRow(u, seen, after, wins) ==
    [rating |-> after, peak |-> Larger(ratings[u].peak, after),
     won |-> ratings[u].won + (IF wins THEN 1 ELSE 0),
     lost |-> ratings[u].lost + (IF wins THEN 0 ELSE 1),
     streak |-> IF wins THEN ratings[u].streak + 1 ELSE 0,
     best |-> IF wins THEN Larger(ratings[u].best, ratings[u].streak + 1) ELSE ratings[u].best]

\* The winner's update comes first.
ApplyRatingUpdate(g) ==
    /\ jobs[g].pc = "apply"
    /\ \E u \in jobs[g].todo :
        LET wins == u = jobs[g].winner
        IN  /\ jobs[g].winner \in jobs[g].todo => wins
            /\ \E after \in NewRatings(jobs[g].seen[u].rating, wins) :
                /\ ratings' = [ratings EXCEPT ![u] = UpdatedRow(u, jobs[g].seen[u], after, wins)]
                /\ jobs' = [jobs EXCEPT ![g].pc = "record", ![g].user = u, ![g].after = after,
                                        ![g].todo = @ \ {u}]
    /\ UNCHANGED matchResults

RecordMatchResult(g) ==
    /\ jobs[g].pc = "record"
    /\ matchResults' = matchResults \cup
           {[game |-> g, user |-> jobs[g].user, wins |-> jobs[g].user = jobs[g].winner,
             after |-> jobs[g].after]}
    /\ jobs' = [jobs EXCEPT ![g].pc = IF jobs[g].todo = {} THEN "done" ELSE "apply"]
    /\ UNCHANGED ratings

\* A statement fails: processGameResult throws.
StatementFails(g) ==
    /\ jobs[g].pc \in {"read", "apply", "record"}
    /\ jobs' = [jobs EXCEPT ![g].pc = IF @ = "record" THEN "torn" ELSE "failed"]
    /\ UNCHANGED <<ratings, matchResults>>

LeaderboardNext ==
    \E g \in Games : \/ ProcessGameResult(g) \/ ReadRating(g) \/ ApplyRatingUpdate(g)
                     \/ RecordMatchResult(g) \/ StatementFails(g)

LeaderboardSpec == LeaderboardInit /\ [][LeaderboardNext]_leaderboardVars

-----------------------------------------------------------------------------
(* The queries.  Each executes ROW_NUMBER() OVER (ORDER BY rating DESC) anew *)
(* and may get another ranking: nothing orders players of equal rating.     *)

HasPlayed(u) == ratings[u].won + ratings[u].lost > 0

Rankings ==
    {s \in SetToSeqs({u \in Users : HasPlayed(u)}) :
        \A i, j \in DOMAIN s : i < j => ratings[s[i]].rating >= ratings[s[j]].rating}

Limited(s, limit) == SubSeq(s, 1, IF limit =< Len(s) THEN limit ELSE Len(s))

\* getTopPlayers
GetTopPlayers(ranking, limit, offset) ==
    Limited(SubSeq(ranking, offset + 1, Len(ranking)), limit)

\* getPlayerRank: none for a player without a game
GetPlayerRank(ranking, u) == {i \in DOMAIN ranking : ranking[i] = u}

\* getNearbyRanks, as a set: those whose rating lies in a band around a rating
\* of the player's, read by a query before, the best 2 * range + 1 of them.
GetNearbyRanks(ranking, playerRating, range) ==
    LET inBand == {i \in DOMAIN ranking :
                      /\ ratings[ranking[i]].rating >= playerRating - range * Band
                      /\ ratings[ranking[i]].rating =< playerRating + range * Band}
    IN  {ranking[i] : i \in {j \in inBand : Cardinality(inBand \cap 1 .. j - 1) < 2 * range + 1}}

-----------------------------------------------------------------------------
(* Properties.                                                             *)

Results(u, wins) == {m \in matchResults : m.user = u /\ m.wins = wins}

\* The games in the row of u, but not, or not yet, in the history
Torn(u, wins) ==
    {g \in Games : /\ jobs[g].pc \in {"record", "torn"}
                   /\ jobs[g].user = u /\ wins = (u = jobs[g].winner)}

\* The row of a player and the history of his matches agree, whatever results
\* are processed at a time and wherever one fails: a win or loss more than the
\* history has is one whose record was not written, and no rating recorded
\* exceeds the peak.
RowsMatchResults ==
    \A u \in Users :
        /\ ratings[u].won = Cardinality(Results(u, TRUE)) + Cardinality(Torn(u, TRUE))
        /\ ratings[u].lost = Cardinality(Results(u, FALSE)) + Cardinality(Torn(u, FALSE))
        /\ ratings[u].best >= ratings[u].streak
        /\ \A m \in matchResults : m.user = u => m.after =< ratings[u].peak

\* Read page by page, the leaderboard lists every player who has played, at the
\* rank getPlayerRank gives, as long as no two of them have the same rating; and
\* a player is always among those near him, though results come after his rating
\* was read, unless they move it out of the band or as many as the limit admits
\* stand beside or above him in it.
RanksMatchRows ==
    LET ranked == {u \in Users : HasPlayed(u)}
        rankings == Rankings
        tied == \E u, v \in ranked : u # v /\ ratings[u].rating = ratings[v].rating
        ahead(u, top) ==
            {v \in ranked \ {u} : /\ ratings[v].rating >= ratings[u].rating
                                  /\ ratings[v].rating =< top}
    IN  \A u \in ranked, first \in rankings :
            /\ ~tied => \A second \in rankings : \A r \in GetPlayerRank(second, u) :
                            GetTopPlayers(first, 1, r - 1) = <<u>>
            /\ \A range \in {0, 1} :
               \A old \in ratings[u].rating - range * Band .. ratings[u].rating + range * Band :
                  Cardinality(ahead(u, old + range * Band)) < 2 * range + 1 =>
                      u \in GetNearbyRanks(first, old, range)

\* The rows, the history and the queries tell the same.
HistoryAgrees == RowsMatchResults /\ RanksMatchRows

=============================================================================
