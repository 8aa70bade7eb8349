----------------------------- MODULE MCPresence -----------------------------
(***************************************************************************)
(* Sockets for Presence, with a history variable: whether an event ever    *)
(* came while a handler was waiting for Redis.                             *)
(***************************************************************************)
EXTENDS Presence, TLC

CONSTANTS ann, bob, r1, r2, s1, s2, s3

VARIABLES
    disturbed,          \* an event came while a handler was waiting
    scenario            \* which part of the instance is explored; never changes

mcVars == <<vars, disturbed, scenario>>

AnnTwiceAndBob == (s1 :> ann) @@ (s2 :> ann) @@ (s3 :> bob)

\* The history
Watch == disturbed' = (disturbed \/ (queue # << >> /\ Events))

\* The whole of it, of which a run explores three parts
WatchedInit == Init /\ disturbed = FALSE
WatchedSpec == WatchedInit /\ [][Next /\ Watch]_<<vars, disturbed>>

\* "moves": one user, two rooms, clients wait for the handlers;
\* "overlap": one user, one room, two client events at a time;
\* "pair": two users with a socket each in one room, clients wait for the
\* handlers.
MCInit ==
    /\ WatchedInit
    /\ scenario \in {"moves", "overlap", "pair"}

\* The second user and the second room are for the scenarios that name them.
MCNext ==
    /\ Next
    /\ IF scenario = "pair" THEN s2 \in unused'
                            ELSE s3 \in unused' /\ current'[bob] = None
    /\ scenario # "moves" => current'[ann] # r2
                             /\ \A i \in DOMAIN queue' : queue'[i].room # r2
    /\ scenario # "overlap" => queue = << >> \/ ~ClientEvents
    /\ Watch
    /\ UNCHANGED scenario

MCSpec == MCInit /\ [][MCNext]_mcVars
MCFairSpec == MCSpec /\ Fairness

\* As long as each event finds no handler waiting, the three accounts of a
\* user agree between events: online in exactly the room of the connection,
\* disconnected exactly where a grace timer runs.
PresenceExact ==
    ~disturbed /\ queue = << >> =>
        \A r \in Rooms, u \in Users :
            /\ presence[r][u] = "ONLINE" <=>
                   connections[u] # None /\ connections[u].room = r
            /\ presence[r][u] = "DISCONNECTED" <=> <<r, u>> \in graceTimers

\* A player who has disconnected is back, or out of the room's player list,
\* in the end (startGraceTimer, handleGracePeriodExpired), unless events
\* overlap: a join that is overtaken by its own socket's end clears the timer.
AbandonedIsRemoved ==
    \A r \in Rooms, u \in Users :
        (presence[r][u] = "DISCONNECTED" /\ ~disturbed)
        ~> (presence[r][u] = "ONLINE" \/ <<r, u>> \notin members \/ disturbed)

\* Once a grace period is over, the room's game ends, however the handler is
\* overtaken and even if the room has gone (handleGracePeriodExpired).
ExpiryEndsGame ==
    \A r \in Rooms :
        (/\ r \in playing
         /\ \E i \in DOMAIN queue : /\ queue[i].room = r
                                    /\ queue[i].at \in {"expire", "leaveRoom", "cancelGame"})
        ~> r \notin playing

\* A connection whose socket has closed is forgotten or replaced in the end,
\* also one that closed before it was registered (startHeartbeatSweep).
ClosedIsForgotten ==
    \A u \in Users, s \in Sockets :
        (connections[u] # None /\ connections[u].socket = s /\ s \notin open)
        ~> (connections[u] = None \/ connections[u].socket # s)

=============================================================================
