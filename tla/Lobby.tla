-------------------------------- MODULE Lobby --------------------------------
(***************************************************************************)
(* The lobby (modules/lobby).  A room is one JSON value in Redis: every    *)
(* operation reads it, decides on its own copy, and writes the copy back.  *)
(* Each command sent to Redis or PostgreSQL is one step, and the requests  *)
(* in flight interleave between them.                                      *)
(*                                                                         *)
(* Data abstracted: a room keeps its players in joining order (the order   *)
(* of joinedAt), who is ready, its status and the settings that are read   *)
(* here.  An AI player's id is its difficulty and number; players of a     *)
(* room outside Users are AI players.  An invite code is written, deleted  *)
(* and expires with its room, so the room's id stands for it.              *)
(***************************************************************************)
EXTENDS Naturals, Sequences, FiniteSets, Functions

CONSTANTS
    Users,
    RoomIds,            \* every createRoom draws a fresh one
    Slots,              \* bound: requests handled at a time
    MinPlayers,         \* MIN_PLAYERS
    Inputs,             \* what createRoom may be asked for
    Settings,           \* what updateSettings may be asked for
    Difficulties,
    Faults,             \* what may happen: "fail", "expire"
    None

ASSUME LobbyAssumption ==
    /\ MinPlayers \in Nat \ {0}
    /\ Settings \subseteq [max : Nat \ {0}, allowAI : BOOLEAN]
    /\ Inputs \subseteq [max : Nat \ {0}, allowAI : BOOLEAN, private : BOOLEAN]
    /\ Faults \subseteq {"fail", "expire"}
    /\ None \notin Users \cup RoomIds
    /\ Users \cap [ai : Difficulties, n : Nat] = {}

VARIABLES
    rooms,              \* room:{id}, with its invite code
    unused,             \* ids not drawn yet
    current,            \* user:current_room:{id}
    public,             \* rooms:public_list
    archived,           \* primary keys of table rooms
    sessions,           \* how often createGameSession succeeded for a room
    request             \* by slot, the request in flight and its progress

vars == <<rooms, unused, current, public, archived, sessions, request>>

Waiting == "WAITING"
Ready   == "READY"
InGame  == "IN_GAME"

\* What the state is made of.  A request has a kind, a user or player it is
\* about, the command it waits for next, and a copy of the room or a set of ids.
AIPlayers == [ai : Difficulties, n : Nat]
Statuses  == {Waiting, Ready, InGame}

Room ==
    [host : Users, players : Seq(Users \cup AIPlayers), ready : SUBSET Users,
     status : Statuses, max : Nat \ {0}, allowAI : BOOLEAN, private : BOOLEAN]

Kinds  == {"create", "join", "leave", "ready", "start", "addAI", "remove",
           "update", "list"}
Places == {"current", "room", "clear", "archive", "save", "delete", "session",
           "rooms", "unlist"}

Request ==
    [kind : Kinds, user : Users \cup AIPlayers \cup {None},
     room : RoomIds \cup {None}, at : Places,
     copy : Room \cup {None} \cup SUBSET RoomIds]

ASSUME NoneAssumption == None \notin Room \cup Request

Init ==
    /\ rooms = [r \in RoomIds |-> None]
    /\ unused = RoomIds
    /\ current = [u \in Users |-> None]
    /\ public = {} /\ archived = {}
    /\ sessions = [r \in RoomIds |-> 0]
    /\ request = [s \in Slots |-> None]

-----------------------------------------------------------------------------
(* What a room says.                                                       *)

Members(room) == Range(room.players)
Humans(room)  == Members(room) \cap Users
Count(room)   == Len(room.players)
AIs(room)     == {i \in DOMAIN room.players : room.players[i] \notin Users}
Open(room)    == room.status \in {Waiting, Ready}

AllReady(room) == Humans(room) # {} /\ Humans(room) \subseteq room.ready

\* computeRoomStatus
ComputeStatus(room) ==
    IF room.status = InGame THEN InGame
    ELSE IF AllReady(room) /\ Count(room) >= MinPlayers THEN Ready
    ELSE Waiting

Recomputed(room) == [room EXCEPT !.status = ComputeStatus(room)]

NewRoom(user, input) ==
    [host |-> user, players |-> <<user>>, ready |-> {}, status |-> Waiting,
     max |-> input.max, allowAI |-> input.allowAI, private |-> input.private]

\* the players that belong to some set, in joining order
Kept(players, some) ==
    LET places == {i \in DOMAIN players : players[i] \in some}
    IN  [n \in 1 .. Cardinality(places) |->
            players[CHOOSE i \in places : Cardinality({j \in places : j =< i}) = n]]

Without(room, p) ==
    [room EXCEPT !.players = Kept(room.players, Members(room) \ {p}),
                 !.ready = room.ready \ {p}]

-----------------------------------------------------------------------------
(* The checks of each operation, on the room it has read, and what it      *)
(* makes of its copy: None if the room is to be deleted.                   *)

\* Mutant: the room may be overfilled.
MutantNoFullCheck(user, room) ==
    room.status = Waiting /\ user \notin Members(room)

MayJoin(user, room) ==
    /\ room.status = Waiting
    /\ Count(room) < room.max
    /\ user \notin Members(room)

Joined(user, room) ==
    Recomputed([room EXCEPT !.players = Append(@, user)])

MayLeave(user, room) == user \in Members(room)

\* the longest-standing human takes over from a host who leaves
Left(user, room) ==
    LET rest == Without(room, user)
        people == Kept(rest.players, Users)
    IN  IF rest.players = << >> \/ (user = room.host /\ people = << >>)
        THEN None
        ELSE Recomputed(IF user = room.host
                        THEN [rest EXCEPT !.host = Head(people)] ELSE rest)

MaySetReady(user, room) == Open(room) /\ user \in Members(room)

ReadySet(user, isReady, room) ==
    Recomputed([room EXCEPT !.ready = IF isReady THEN @ \cup {user}
                                                 ELSE @ \ {user}])

MayStart(user, room) ==
    /\ user = room.host
    /\ room.status = Ready
    /\ AllReady(room) /\ Count(room) >= MinPlayers

Started(room) == [room EXCEPT !.status = InGame]

MayAddAI(user, room) ==
    /\ user = room.host
    /\ Open(room)
    /\ room.allowAI
    /\ Count(room) < room.max

AIAdded(difficulty, room) ==
    LET ai == [ai |-> difficulty, n |-> Cardinality(AIs(room)) + 1]
    IN  Recomputed([room EXCEPT !.players = Append(@, ai), !.ready = {}])

MayRemove(user, target, room) ==
    /\ user = room.host
    /\ target \in Members(room) \ {user}

\* Mutant: the status is that of the room before the removal.
MutantStatusKept(target, room) == Without(room, target)

Removed(target, room) == Recomputed(Without(room, target))

MayUpdate(user, settings, room) ==
    /\ user = room.host
    /\ Open(room)
    /\ settings.max >= Count(room)

Updated(settings, room) ==
    Recomputed([room EXCEPT
        !.players = IF settings.allowAI THEN @
                    ELSE Kept(@, Users),
        !.max = settings.max, !.allowAI = settings.allowAI, !.ready = {}])

-----------------------------------------------------------------------------
(* A request begins with its first command: one that is refused at once    *)
(* changes nothing.  at names the command it waits for next.               *)

At(s, at) == request[s] # None /\ request[s].at = at

Goes(s, at) == request' = [request EXCEPT ![s].at = at]
Ends(s)     == request' = [request EXCEPT ![s] = None]

Begins(s, kind, gone, r, at, copy) ==
    /\ request[s] = None
    /\ request' = [request EXCEPT ![s] =
           [kind |-> kind, user |-> gone, room |-> r, at |-> at, copy |-> copy]]
    /\ UNCHANGED <<rooms, current, public, archived, sessions>>

Exists(r) == rooms[r] # None

\* createRoom: getUserCurrentRoom, then the id, the code and the room
CreateRoom(s) ==
    \E user \in Users, r \in unused, input \in Inputs :
        /\ current[user] = None
        /\ Begins(s, "create", user, r, "save", NewRoom(user, input))
        /\ unused' = unused \ {r}

\* joinRoom, by the code or by the id of the room
JoinRoom(s) ==
    \E user \in Users, r \in RoomIds \ unused :
        /\ \/ Exists(r) /\ Begins(s, "join", user, r, "current", None)
           \/ current[user] = None /\ Begins(s, "join", user, r, "room", None)
        /\ UNCHANGED unused

\* leaveRoom: a user's request, or the end of the user's grace period
LeaveRoom(s) ==
    \E user \in Users, r \in RoomIds \ unused :
        /\ Exists(r) /\ MayLeave(user, rooms[r])
        /\ Begins(s, "leave", user, r, "clear", Left(user, rooms[r]))
        /\ UNCHANGED unused

SetReady(s) ==
    \E user \in Users, r \in RoomIds \ unused, isReady \in BOOLEAN :
        /\ Exists(r) /\ MaySetReady(user, rooms[r])
        /\ Begins(s, "ready", user, r, "save", ReadySet(user, isReady, rooms[r]))
        /\ UNCHANGED unused

\* Mutant: the room is not archived before it is saved.
MutantNoArchive(s) ==
    \E user \in Users, r \in RoomIds \ unused :
        /\ Exists(r) /\ MayStart(user, rooms[r])
        /\ Begins(s, "start", user, r, "save", Started(rooms[r]))
        /\ UNCHANGED unused

StartGame(s) ==
    \E user \in Users, r \in RoomIds \ unused :
        /\ Exists(r) /\ MayStart(user, rooms[r])
        /\ Begins(s, "start", user, r, "archive", Started(rooms[r]))
        /\ UNCHANGED unused

AddAIPlayer(s) ==
    \E user \in Users, r \in RoomIds \ unused, d \in Difficulties :
        /\ Exists(r) /\ MayAddAI(user, rooms[r])
        /\ Begins(s, "addAI", user, r, "save", AIAdded(d, rooms[r]))
        /\ UNCHANGED unused

\* removePlayer clears the mapping of a human only.
RemovePlayer(s) ==
    \E user \in Users, r \in RoomIds \ unused :
        /\ Exists(r)
        /\ \E target \in Members(rooms[r]) :
              /\ MayRemove(user, target, rooms[r])
              /\ Begins(s, "remove", target, r,
                        IF target \in Users THEN "clear" ELSE "save",
                        Removed(target, rooms[r]))
        /\ UNCHANGED unused

UpdateSettings(s) ==
    \E user \in Users, r \in RoomIds \ unused, settings \in Settings :
        /\ Exists(r) /\ MayUpdate(user, settings, rooms[r])
        /\ Begins(s, "update", user, r, "save", Updated(settings, rooms[r]))
        /\ UNCHANGED unused

\* listPublicRooms reads the ids, then the rooms, then removes stale ids.
ListRooms(s) ==
    /\ public # {}
    /\ Begins(s, "list", None, None, "rooms", public)
    /\ UNCHANGED unused

-----------------------------------------------------------------------------
(* The further commands of a request                                       *)

\* getUserCurrentRoom, in joinRoom after getRoomIdByInviteCode
ReadCurrent(s) ==
    /\ At(s, "current")
    /\ IF current[request[s].user] # None THEN Ends(s) ELSE Goes(s, "room")
    /\ UNCHANGED <<rooms, unused, current, public, archived, sessions>>

\* getRoom, in joinRoom
ReadRoom(s) ==
    /\ At(s, "room")
    /\ LET user == request[s].user
           r == request[s].room
       IN  \/ /\ Exists(r) /\ MayJoin(user, rooms[r])
              /\ request' = [request EXCEPT ![s].at = "save",
                                ![s].copy = Joined(user, rooms[r])]
           \/ /\ Exists(r) => ~MayJoin(user, rooms[r])
              /\ Ends(s)
    /\ UNCHANGED <<rooms, unused, current, public, archived, sessions>>

\* Mutant: the mapping of a user who leaves or is removed stays.
MutantMappingKept(s) ==
    /\ At(s, "clear")
    /\ Goes(s, IF request[s].copy = None THEN "delete" ELSE "save")
    /\ UNCHANGED <<rooms, unused, current, public, archived, sessions>>

\* clearUserCurrentRoom, of leaveRoom and removePlayer
ClearCurrent(s) ==
    /\ At(s, "clear")
    /\ current' = [current EXCEPT ![request[s].user] = None]
    /\ Goes(s, IF request[s].copy = None THEN "delete" ELSE "save")
    /\ UNCHANGED <<rooms, unused, public, archived, sessions>>

\* archiveRoom: the room's id is the primary key
ArchiveRoom(s) ==
    /\ At(s, "archive")
    /\ IF request[s].room \in archived
       THEN Ends(s) /\ UNCHANGED archived
       ELSE /\ archived' = archived \cup {request[s].room}
            /\ Goes(s, "save")
    /\ UNCHANGED <<rooms, unused, current, public, sessions>>

\* saveRoom: one pipeline for the room, the mappings and the public list
SaveRoom(s) ==
    /\ At(s, "save")
    /\ LET q == request[s]
       IN  /\ rooms' = [rooms EXCEPT ![q.room] = q.copy]
           /\ current' = [u \in Users |-> IF u \in Humans(q.copy) THEN q.room
                                          ELSE current[u]]
           /\ public' = IF ~q.copy.private /\ q.copy.status = Waiting
                        THEN public \cup {q.room} ELSE public \ {q.room}
           /\ IF q.kind = "start" THEN Goes(s, "session") ELSE Ends(s)
    /\ UNCHANGED <<unused, archived, sessions>>

\* deleteRoom; nobody human is left in the copy
DeleteRoom(s) ==
    /\ At(s, "delete")
    /\ LET q == request[s]
       IN  /\ rooms' = [rooms EXCEPT ![q.room] = None]
           /\ public' = public \ {q.room}
    /\ Ends(s)
    /\ UNCHANGED <<unused, current, archived, sessions>>

\* The handler of startGame creates the session when the room is saved.
CreateSession(s) ==
    /\ At(s, "session")
    /\ sessions' = [sessions EXCEPT ![request[s].room] = @ + 1]
    /\ Ends(s)
    /\ UNCHANGED <<rooms, unused, current, public, archived>>

Stale(ids) == {r \in ids : Exists(r) => rooms[r].status # Waiting}

ReadRooms(s) ==
    /\ At(s, "rooms")
    /\ LET stale == Stale(request[s].copy)
       IN  IF stale = {} THEN Ends(s)
           ELSE request' = [request EXCEPT ![s].at = "unlist", ![s].copy = stale]
    /\ UNCHANGED <<rooms, unused, current, public, archived, sessions>>

Unlist(s) ==
    /\ At(s, "unlist")
    /\ public' = public \ request[s].copy
    /\ Ends(s)
    /\ UNCHANGED <<rooms, unused, current, archived, sessions>>

\* A command fails, or the server stops: the request goes no further.
Fail(s) ==
    /\ "fail" \in Faults
    /\ request[s] # None
    /\ Ends(s)
    /\ UNCHANGED <<rooms, unused, current, public, archived, sessions>>

\* ROOM_TTL_SECONDS after its last saveRoom; the mappings were set with it,
\* that of a user it no longer lists before it.
Expire(r) ==
    /\ "expire" \in Faults
    /\ rooms[r] # None
    /\ rooms' = [rooms EXCEPT ![r] = None]
    /\ current' = [u \in Users |-> IF current[u] = r THEN None ELSE current[u]]
    /\ UNCHANGED <<unused, public, archived, sessions, request>>

ExpireMapping(u) ==
    /\ "expire" \in Faults
    /\ current[u] # None
    /\ Exists(current[u]) => u \notin Humans(rooms[current[u]])
    /\ current' = [current EXCEPT ![u] = None]
    /\ UNCHANGED <<rooms, unused, public, archived, sessions, request>>

\* The logout handler of modules/auth clears the mapping of a registered
\* user, who stays in the room.
Logout(u) ==
    /\ current' = [current EXCEPT ![u] = None]
    /\ UNCHANGED <<rooms, unused, public, archived, sessions, request>>

Serves(s) ==
    \/ ReadCurrent(s) \/ ReadRoom(s) \/ ClearCurrent(s)
    \/ ArchiveRoom(s) \/ SaveRoom(s) \/ DeleteRoom(s) \/ CreateSession(s)
    \/ ReadRooms(s) \/ Unlist(s)

Next ==
    \/ \E s \in Slots :
          \/ CreateRoom(s) \/ JoinRoom(s) \/ LeaveRoom(s) \/ SetReady(s)
          \/ StartGame(s) \/ AddAIPlayer(s) \/ RemovePlayer(s)
          \/ UpdateSettings(s) \/ ListRooms(s)
          \/ Serves(s) \/ Fail(s)
    \/ \E r \in RoomIds : Expire(r)
    \/ \E u \in Users : ExpireMapping(u) \/ Logout(u)

Spec == Init /\ [][Next]_vars

-----------------------------------------------------------------------------
(* Properties                                                              *)

\* In a stored room nobody sits twice, there are no more players than
\* maxPlayers, and the host is one of the humans, however requests overlap:
\* joinRoom, leaveRoom, removePlayer and updateSettings decide on one copy.
RoomsSound ==
    \A r \in RoomIds : rooms[r] # None =>
        LET room == rooms[r]
        IN  /\ Count(room) =< room.max
            /\ room.host \in Humans(room)
            /\ \A i, j \in DOMAIN room.players :
                  room.players[i] = room.players[j] /\ room.players[i] \in Users => i = j

\* A room that is READY has enough players and all its humans ready, and one
\* that is WAITING lacks something: startGame trusts the stored status.
StatusMatchesPlayers ==
    \A r \in RoomIds : rooms[r] # None =>
        rooms[r].status = ComputeStatus(rooms[r])

\* A room starts one game at most, although a stale copy may put it back to
\* WAITING after it has started: archiveRoom comes before saveRoom and
\* createGameSession, and takes a room once.
StartedOnce == \A r \in RoomIds : sessions[r] =< 1

\* Only a request to leave or to remove a player takes that player out of a
\* room that stays.
JoinKept ==
    [][\A r \in RoomIds, u \in Users :
         (/\ rooms[r] # None /\ u \in Humans(rooms[r])
          /\ rooms'[r] # None /\ u \notin Humans(rooms'[r]))
         => \E s \in Slots : /\ request[s] # None /\ request'[s] = None
                             /\ request[s].kind \in {"leave", "remove"}
                             /\ request[s].user = u]_vars
=============================================================================
