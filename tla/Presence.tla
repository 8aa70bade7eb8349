------------------------------ MODULE Presence ------------------------------
(***************************************************************************)
(* Connections and presence (modules/realtime) on one server.  JavaScript  *)
(* runs a handler up to its next await; all handlers send their commands   *)
(* over one connection to Redis, which answers them in order.  So the      *)
(* handlers under way are a queue, ordered by the command each waits for,  *)
(* and executing the first command, its answer and what its handler does   *)
(* up to its next command are one step.                                    *)
(*                                                                         *)
(* Left out: device info and time stamps, the rate limits (a dropped event *)
(* is an event that did not happen) and what is broadcast.  The lobby is   *)
(* seen from here: its operations are atomic (module Lobby has their       *)
(* races).                                                                 *)
(***************************************************************************)
EXTENDS Naturals, Sequences

CONSTANTS
    Users, Rooms,
    Sockets,            \* bound: sockets that ever connect
    Owner,              \* the user of each socket's token
    MaxWaiting,         \* bound: clients wait while so many handlers do
    None

ASSUME PresenceAssumption ==
    /\ Owner \in [Sockets -> Users]
    /\ MaxWaiting \in Nat \ {0}
    /\ None \notin Users \cup Rooms \cup Sockets

\* PresenceStatus (nothing sets AWAY), and what the map connections holds
Statuses   == {"ONLINE", "DISCONNECTED"}
Connection == [socket : Sockets, room : Rooms \cup {None}]

ASSUME NoneAssumption == None \notin Statuses \cup Connection

VARIABLES
    unused, open,       \* sockets to come, sockets connected
    connections,        \* the map connections: a socket and its room, by user
    socketToUser,       \* sockets that map to their owner
    graceTimers,        \* <<room, user>> whose timer is armed
    userSocket,         \* Redis: the socket registered for a user
    presence,           \* Redis: status of a user in a room
    graceKey,           \* Redis: users with a grace key
    queue,              \* handlers waiting for Redis
    members, current,   \* lobby: <<room, user>> listed, user:current_room
    playing             \* rooms with an active game

sockets == <<unused, open>>
inMemory == <<connections, socketToUser, graceTimers>>
redis == <<userSocket, presence, graceKey>>
lobby == <<members, current, playing>>
vars == <<sockets, inMemory, redis, queue, lobby>>

Init ==
    /\ unused = Sockets /\ open = {}
    /\ connections = [u \in Users |-> None]
    /\ socketToUser = {} /\ graceTimers = {}
    /\ userSocket = [u \in Users |-> None]
    /\ presence = [r \in Rooms |-> [u \in Users |-> None]]
    /\ graceKey = {}
    /\ queue = << >>
    /\ members = {} /\ current = [u \in Users |-> None]
    /\ playing = {}

-----------------------------------------------------------------------------
(* A handler waiting for Redis: the command, whose it is, the room, and    *)
(* what it remembers.                                                      *)

Wait(at, socket, room, memo) ==
    [at |-> at, socket |-> socket, user |-> Owner[socket], room |-> room,
     memo |-> memo]

Handler == Head(queue)
At(command) == queue # << >> /\ Handler.at = command

Then(command) == [Handler EXCEPT !.at = command]
Continues(handler) == queue' = Append(Tail(queue), handler)
Returns == queue' = Tail(queue)

\* getConnectionBySocketId: the connection of the socket's user
ConnectionOf(s) == IF s \in socketToUser THEN connections[Owner[s]] ELSE None

\* whether unregisterConnection finds the socket to be the user's current one
IsCurrent(s) == ConnectionOf(s) # None /\ ConnectionOf(s).socket = s

RoomOf(s) == IF ConnectionOf(s) = None THEN None ELSE ConnectionOf(s).room

\* updateConnectionRoom
ConnectionInRoom(s, room) ==
    IF IsCurrent(s) THEN [connections EXCEPT ![Owner[s]].room = room]
    ELSE connections

-----------------------------------------------------------------------------
(* Sockets come and go.                                                    *)

\* What handleDisconnect leaves waiting when socket s goes
Leaving(s) ==
    IF IsCurrent(s) THEN <<Wait("unregister", s, RoomOf(s), None)>>
    ELSE IF RoomOf(s) # None THEN <<Wait("setDisconnected", s, RoomOf(s), None)>>
    ELSE << >>

\* handleDisconnect and unregisterConnection up to the first command, with
\* arrivals waiting behind it
Drops(s, arrivals) ==
    /\ connections' = IF IsCurrent(s)
                      THEN [connections EXCEPT ![Owner[s]] = None]
                      ELSE connections
    /\ socketToUser' = IF IsCurrent(s) THEN socketToUser ELSE socketToUser \ {s}
    /\ queue' = queue \o Leaving(s) \o arrivals

\* registerConnection: a socket the user has is closed first, its handler
\* runs at once.
Connect(s) ==
    /\ s \in unused
    /\ unused' = unused \ {s}
    /\ LET existing == connections[Owner[s]]
       IN  \/ /\ existing = None
              /\ open' = open \cup {s}
              /\ queue' = Append(queue, Wait("getSocket", s, None, None))
              /\ UNCHANGED <<connections, socketToUser>>
           \/ /\ existing # None
              /\ LET clean == <<Wait("supersede", s, None, existing.socket)>>
                 IN  IF existing.socket \in open
                     THEN /\ open' = (open \ {existing.socket}) \cup {s}
                          /\ Drops(existing.socket, clean)
                     ELSE /\ open' = open \cup {s}
                          /\ queue' = queue \o clean
                          /\ UNCHANGED <<connections, socketToUser>>
    /\ UNCHANGED <<graceTimers, redis, lobby>>

\* The client goes, or the sweep finds its connection stale.
Disconnect(s) ==
    /\ s \in open
    /\ open' = open \ {s}
    /\ Drops(s, << >>)
    /\ UNCHANGED <<unused, graceTimers, redis, lobby>>

\* Mutant: the sweep only closes sockets, and leaves a closed one's connection.
MutantSweep(u) == FALSE /\ UNCHANGED vars

\* startHeartbeatSweep, when the socket of a stale connection is gone
Sweep(u) ==
    /\ connections[u] # None /\ connections[u].socket \notin open
    /\ IsCurrent(connections[u].socket)
    /\ connections' = [connections EXCEPT ![u] = None]
    /\ queue' = Append(queue, Wait("unregister", connections[u].socket, None, None))
    /\ UNCHANGED <<sockets, socketToUser, graceTimers, redis, lobby>>

\* removeConnectionFromRedis of the superseded socket
Supersede ==
    /\ At("supersede")
    /\ userSocket' = [userSocket EXCEPT ![Handler.user] = None]
    /\ socketToUser' = socketToUser \ {Handler.memo}
    /\ Continues(Then("getSocket"))
    /\ UNCHANGED <<sockets, connections, graceTimers, presence, graceKey, lobby>>

\* connections.set and socketToUser.set; a socket that has closed meanwhile is
\* registered all the same
Register ==
    /\ connections' = [connections EXCEPT ![Handler.user] =
                          [socket |-> Handler.socket, room |-> None]]
    /\ socketToUser' = socketToUser \cup {Handler.socket}
    /\ Continues(Then("saveSocket"))

\* redis.get(socketUserKey): another socket's key is removed first
GetSocket ==
    /\ At("getSocket")
    /\ IF userSocket[Handler.user] \in {None, Handler.socket}
       THEN Register
       ELSE /\ Continues(Then("removeSocket"))
            /\ UNCHANGED <<connections, socketToUser>>
    /\ UNCHANGED <<sockets, graceTimers, redis, lobby>>

RemoveSocket ==
    /\ At("removeSocket")
    /\ userSocket' = [userSocket EXCEPT ![Handler.user] = None]
    /\ Register
    /\ UNCHANGED <<sockets, graceTimers, presence, graceKey, lobby>>

SaveSocket ==
    /\ At("saveSocket")
    /\ userSocket' = [userSocket EXCEPT ![Handler.user] = Handler.socket]
    /\ Returns
    /\ UNCHANGED <<sockets, inMemory, presence, graceKey, lobby>>

\* The rest of unregisterConnection, and of handleDisconnect
Unregister ==
    /\ At("unregister")
    /\ userSocket' = [userSocket EXCEPT ![Handler.user] = None]
    /\ socketToUser' = socketToUser \ {Handler.socket}
    /\ IF Handler.room = None THEN Returns ELSE Continues(Then("setDisconnected"))
    /\ UNCHANGED <<sockets, connections, graceTimers, presence, graceKey, lobby>>

-----------------------------------------------------------------------------
(* Presence and grace periods                                              *)

SetPresence(status) ==
    presence' = [presence EXCEPT ![Handler.room][Handler.user] = status]

InGrace == <<Handler.room, Handler.user>>

\* setDisconnected, and startGraceTimer when it is answered
SetDisconnected ==
    /\ At("setDisconnected")
    /\ SetPresence("DISCONNECTED")
    /\ graceKey' = graceKey \cup {Handler.user}
    /\ graceTimers' = graceTimers \cup {InGrace}
    /\ Returns
    /\ UNCHANGED <<sockets, connections, socketToUser, userSocket, lobby>>

\* Mutant: the timer of the grace period is left to run.
MutantTimerKept ==
    /\ At("setOnline")
    /\ SetPresence("ONLINE")
    /\ Continues(Then("clearGraceKey"))
    /\ UNCHANGED <<sockets, inMemory, userSocket, graceKey, lobby>>

\* setOnline: the timer is cleared when hset is answered, then the key
SetOnline ==
    /\ At("setOnline")
    /\ SetPresence("ONLINE")
    /\ graceTimers' = graceTimers \ {InGrace}
    /\ Continues(Then("clearGraceKey"))
    /\ UNCHANGED <<sockets, connections, socketToUser, userSocket, graceKey, lobby>>

ClearGraceKey ==
    /\ At("clearGraceKey")
    /\ graceKey' = graceKey \ {Handler.user}
    /\ Returns
    /\ UNCHANGED <<sockets, inMemory, userSocket, presence, lobby>>

\* removePresence from a room
RemovePresence(room) ==
    /\ presence' = [presence EXCEPT ![room][Handler.user] = None]
    /\ graceKey' = graceKey \ {Handler.user}
    /\ graceTimers' = graceTimers \ {<<room, Handler.user>>}

\* The grace key expires after 30 seconds.
KeyExpires(u) ==
    /\ u \in graceKey
    /\ graceKey' = graceKey \ {u}
    /\ UNCHANGED <<sockets, inMemory, userSocket, presence, queue, lobby>>

\* The callback of startGraceTimer, and handleGracePeriodExpired up to its
\* first command
GraceTimerFires(room, u) ==
    /\ <<room, u>> \in graceTimers
    /\ graceTimers' = graceTimers \ {<<room, u>>}
    /\ queue' = Append(queue, [at |-> "expire", socket |-> None, user |-> u,
                               room |-> room, memo |-> None])
    /\ UNCHANGED <<sockets, connections, socketToUser, redis, lobby>>

Expire ==
    /\ At("expire")
    /\ RemovePresence(Handler.room)
    /\ Continues(Then("leaveRoom"))
    /\ UNCHANGED <<sockets, connections, socketToUser, userSocket, lobby>>

\* Mutant: only the pointer is cleared, the player stays listed.
MutantListedStill ==
    /\ At("leaveRoom")
    /\ current' = [current EXCEPT ![Handler.user] = None]
    /\ Continues(Then("cancelGame"))
    /\ UNCHANGED <<sockets, inMemory, redis, members, playing>>

\* leaveRoom; if it fails, for a user who is no longer in the room, the
\* pointer to the current room is cleared all the same
LeaveLobby ==
    /\ At("leaveRoom")
    /\ members' = members \ {InGrace}
    /\ current' = [current EXCEPT ![Handler.user] = None]
    /\ Continues(Then("cancelGame"))
    /\ UNCHANGED <<sockets, inMemory, redis, playing>>

\* Mutant: a room that is gone ends the handler before the game is cancelled.
MutantGameForgotten ==
    /\ At("cancelGame")
    /\ playing' = IF \E u \in Users : <<Handler.room, u>> \in members
                  THEN playing \ {Handler.room} ELSE playing
    /\ Returns
    /\ UNCHANGED <<sockets, inMemory, redis, members, current>>

\* handlePlayerDisconnectTimeout, after the room has been read again
CancelGame ==
    /\ At("cancelGame")
    /\ playing' = playing \ {Handler.room}
    /\ Returns
    /\ UNCHANGED <<sockets, inMemory, redis, members, current>>

-----------------------------------------------------------------------------
(* room:join, room:leave and presence:heartbeat                            *)

Join(s, room) ==
    /\ s \in open
    /\ queue' = Append(queue, Wait("isInGracePeriod", s, room, None))
    /\ UNCHANGED <<sockets, inMemory, redis, lobby>>

IsInGracePeriod ==
    /\ At("isInGracePeriod")
    /\ Continues([Then("getRoom") EXCEPT !.memo =
           /\ presence[Handler.room][Handler.user] = "DISCONNECTED"
           /\ Handler.user \in graceKey])
    /\ UNCHANGED <<sockets, inMemory, redis, lobby>>

\* socket.join, updateConnectionRoom, and the branch on the grace period
Enter(inGrace) ==
    /\ connections' = ConnectionInRoom(Handler.socket, Handler.room)
    /\ Continues(Then(IF inGrace THEN "graceExists" ELSE "setOnline"))

\* getRoom; a connection that is in another room leaves that first
GetRoom ==
    /\ At("getRoom")
    /\ LET from == RoomOf(Handler.socket)
       IN  IF InGrace \notin members THEN Returns /\ UNCHANGED connections
           ELSE IF from \in {None, Handler.room} THEN Enter(Handler.memo)
           ELSE /\ Continues([Then("leaveOther") EXCEPT !.memo =
                                 [inGrace |-> Handler.memo, from |-> from]])
                /\ UNCHANGED connections
    /\ UNCHANGED <<sockets, socketToUser, graceTimers, redis, lobby>>

LeaveOther ==
    /\ At("leaveOther")
    /\ RemovePresence(Handler.memo.from)
    /\ Enter(Handler.memo.inGrace)
    /\ UNCHANGED <<sockets, socketToUser, userSocket, lobby>>

\* handleReconnection: with or without the key, setOnline follows
GraceExists ==
    /\ At("graceExists")
    /\ Continues(Then("setOnline"))
    /\ UNCHANGED <<sockets, inMemory, redis, lobby>>

Leave(s) ==
    /\ s \in open /\ RoomOf(s) # None
    /\ connections' = ConnectionInRoom(s, None)
    /\ queue' = Append(queue, Wait("removePresence", s, RoomOf(s), None))
    /\ UNCHANGED <<sockets, socketToUser, graceTimers, redis, lobby>>

LeavePresence ==
    /\ At("removePresence")
    /\ RemovePresence(Handler.room)
    /\ Returns
    /\ UNCHANGED <<sockets, connections, socketToUser, userSocket, lobby>>

\* updateLastSeen reads the status and writes it back.
Heartbeat(s) ==
    /\ s \in open /\ RoomOf(s) # None
    /\ queue' = Append(queue, Wait("readSeen", s, RoomOf(s), None))
    /\ UNCHANGED <<sockets, inMemory, redis, lobby>>

ReadSeen ==
    /\ At("readSeen")
    /\ LET status == presence[Handler.room][Handler.user]
       IN  IF status = None THEN Returns
           ELSE Continues([Then("writeSeen") EXCEPT !.memo = status])
    /\ UNCHANGED <<sockets, inMemory, redis, lobby>>

WriteSeen ==
    /\ At("writeSeen")
    /\ SetPresence(Handler.memo)
    /\ Returns
    /\ UNCHANGED <<sockets, inMemory, userSocket, graceKey, lobby>>

-----------------------------------------------------------------------------
(* The lobby, as HTTP requests change it                                   *)

LobbyJoin(u, room) ==
    /\ current[u] = None
    /\ room \notin playing /\ <<room, u>> \notin members
    /\ members' = members \cup {<<room, u>>}
    /\ current' = [current EXCEPT ![u] = room]
    /\ UNCHANGED <<sockets, inMemory, redis, queue, playing>>

LobbyLeave(u, room) ==
    /\ <<room, u>> \in members
    /\ members' = members \ {<<room, u>>}
    /\ current' = [current EXCEPT ![u] = None]
    /\ UNCHANGED <<sockets, inMemory, redis, queue, playing>>

GameStarts(room) ==
    /\ \E u \in Users : <<room, u>> \in members
    /\ room \notin playing
    /\ playing' = playing \cup {room}
    /\ UNCHANGED <<sockets, inMemory, redis, queue, members, current>>

GameEnds(room) ==
    /\ room \in playing
    /\ playing' = playing \ {room}
    /\ UNCHANGED <<sockets, inMemory, redis, queue, members, current>>

-----------------------------------------------------------------------------

Answers ==
    \/ Supersede \/ GetSocket \/ RemoveSocket \/ SaveSocket \/ Unregister
    \/ SetDisconnected \/ SetOnline \/ ClearGraceKey
    \/ Expire \/ LeaveLobby \/ CancelGame
    \/ IsInGracePeriod \/ GetRoom \/ LeaveOther \/ GraceExists
    \/ LeavePresence \/ ReadSeen \/ WriteSeen

ClientEvents ==
    /\ Len(queue) < MaxWaiting
    /\ \E s \in Sockets : \/ Connect(s) \/ Disconnect(s) \/ Leave(s)
                          \/ Heartbeat(s)
                          \/ \E room \in Rooms : Join(s, room)

Events ==
    \/ ClientEvents
    \/ \E u \in Users : \/ Sweep(u)
                        \/ \E room \in Rooms : GraceTimerFires(room, u)

Lobby ==
    \/ \E u \in Users, room \in Rooms : LobbyJoin(u, room) \/ LobbyLeave(u, room)
    \/ \E room \in Rooms : GameStarts(room) \/ GameEnds(room)

Next == Answers \/ Events \/ (\E u \in Users : KeyExpires(u)) \/ Lobby

Spec == Init /\ [][Next]_vars

\* Redis answers, timers fire and the sweep comes round; clients owe nothing.
Fairness ==
    /\ WF_vars(Answers)
    /\ \A u \in Users : /\ WF_vars(Sweep(u))
                        /\ \A room \in Rooms : WF_vars(GraceTimerFires(room, u))

FairSpec == Spec /\ Fairness
=============================================================================
