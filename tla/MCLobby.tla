------------------------------- MODULE MCLobby -------------------------------
(***************************************************************************)
(* A small lobby, with a history variable: whether two requests were ever  *)
(* in flight together, one of them failed, or a member of a room logged    *)
(* out.                                                                    *)
(***************************************************************************)
EXTENDS Lobby, TLC

CONSTANTS ann, bob, cat, r1, r2, s1, s2, easy

VARIABLES
    disturbed,          \* two requests overlapped, one was cut short,
                        \* or a member of a room logged out
    scenario            \* which part of the instance is explored; never changes

mcVars == <<vars, disturbed, scenario>>

\* Settings of a room that is created, and what they may be changed to
OpenOrPrivate == {[max |-> 2, allowAI |-> TRUE, private |-> FALSE],
                  [max |-> 2, allowAI |-> FALSE, private |-> TRUE]}
OneLargerNoAI == {[max |-> 3, allowAI |-> FALSE]}

Busy == {s \in Slots : request[s] # None}

\* The history
Watch ==
    disturbed' = (disturbed \/ Cardinality(Busy') > 1
                  \/ (Busy # {} /\ \E s \in Slots : Fail(s))
                  \/ (Busy # {} /\ \E r \in RoomIds : Expire(r))
                  \/ (\E u \in Users : current[u] # None /\ Logout(u)))

\* The whole lobby, of which a run explores three parts
WatchedInit == Init /\ disturbed = FALSE
WatchedSpec == WatchedInit /\ [][Next /\ Watch]_<<vars, disturbed>>

\* "ai": two users and AI players in one room, two requests at a time;
\* "crowd": three users in one room, two requests at a time, no settings and
\* no lists;
\* "serial": three users, AI players and two rooms, one request at a time,
\* no settings and no game.
Public(q) == q.kind = "create" => ~q.copy.private

Within(q) ==
    CASE scenario = "ai"     -> q.user # cat /\ q.room # r2
      [] scenario = "crowd"  -> /\ q.kind \notin {"addAI", "update", "list"}
                                /\ q.room # r2 /\ Public(q)
      [] scenario = "serial" -> /\ q.kind \notin {"update", "ready", "list"}
                                /\ Cardinality(Busy') =< 1 /\ Public(q)

MCInit ==
    /\ WatchedInit
    /\ scenario \in {"ai", "crowd", "serial"}

MCNext ==
    /\ Next
    /\ \A s \in Slots : request'[s] # None => Within(request'[s])
    /\ Watch
    /\ UNCHANGED scenario

MCSpec == MCInit /\ [][MCNext]_mcVars

\* While requests come one at a time, none fails and nobody logs out (which
\* clears the mapping only), a user's current room is exactly the room that
\* lists the user: leaveRoom, removePlayer and joinRoom keep the two in step
\* between requests.
MembershipExact ==
    ~disturbed /\ Busy = {} =>
        \A u \in Users, r \in RoomIds :
            current[u] = r <=> (rooms[r] # None /\ u \in Humans(rooms[r]))

LobbySymmetry == Permutations({ann, bob}) \cup Permutations(Slots)
=============================================================================
