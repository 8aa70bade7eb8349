----------------------------- MODULE RoomClient -----------------------------
(***************************************************************************)
(* A room as one of its players' browsers sees it: room-store.ts, and the  *)
(* lobby and room pages, against the broadcasts of handlers.ts (lobby) and *)
(* room-events.ts.  An update carries the players, the host and the status *)
(* of the room as they were read, and a number it gets when it is built,   *)
(* later; an answer over HTTP carries the settings too.  Both parts are    *)
(* told by a revision: the number of times the part was saved.             *)
(***************************************************************************)
EXTENDS Naturals, Sequences

CONSTANTS
    MaxSaves,       \* bound: times the room is saved, players or settings
    MaxRestarts     \* bound: restarts of the server, and pages left

\* Not read yet, or no room shown; revisions start with 1
NoRoom == 0

VARIABLES
    revision,           \* the room in Redis: players, host and status
    settings,           \* the rest of it
    roomStateVersion,   \* the counter in the server's memory
    updates,            \* broadcasts under way: what was read, or NoRoom, in order
    joins,              \* room:join under way: what was read
    channel,            \* room:state_update on their way to the browser
    replies,            \* rooms on their way to the browser, answers over HTTP
    fetching,           \* HTTP requests of the browser under way
    joined,             \* the browser's socket is in the Socket.IO room
    currentRoom,        \* room-store: the revision shown, or NoRoom
    shownSettings,      \* the rest of room-store's currentRoom
    lastStateVersion,   \* room-store
    restarts

roomVars == <<revision, settings, roomStateVersion, updates, joins, channel, replies,
              fetching, joined, currentRoom, shownSettings, lastStateVersion, restarts>>

RoomInit ==
    /\ revision = 1 /\ settings = 1 /\ roomStateVersion = 0
    /\ updates = << >> /\ joins = {} /\ channel = << >>
    /\ replies = {} /\ fetching = 0
    /\ joined = FALSE /\ lastStateVersion = 0
    /\ currentRoom = NoRoom /\ shownSettings = NoRoom
    /\ restarts = 0

-----------------------------------------------------------------------------
(* The server.                                                             *)

\* Another player's request saves the room, and broadcastRoomState begins.
OtherSaves ==
    /\ revision + settings =< MaxSaves + 1
    /\ revision' = revision + 1
    /\ updates' = Append(updates, NoRoom)
    /\ UNCHANGED <<settings, roomStateVersion, joins, channel, replies, fetching, joined,
                   currentRoom, shownSettings, lastStateVersion, restarts>>

\* The host's updateSettings, with the same broadcast, which carries no settings
UpdateSettings ==
    /\ revision + settings =< MaxSaves + 1
    /\ settings' = settings + 1
    /\ updates' = Append(updates, NoRoom)
    /\ UNCHANGED <<revision, roomStateVersion, joins, channel, replies, fetching, joined,
                   currentRoom, shownSettings, lastStateVersion, restarts>>

\* An answer over HTTP
RoomRead(content) == [content |-> content, settings |-> settings]

\* The browser's own request (join, ready, add an AI player) saves the room; its
\* answer holds the room as saved.
OwnSave ==
    /\ revision + settings =< MaxSaves + 1 /\ fetching > 0
    /\ revision' = revision + 1
    /\ updates' = Append(updates, NoRoom)
    /\ fetching' = fetching - 1 /\ replies' = replies \cup {RoomRead(revision')}
    /\ UNCHANGED <<settings, roomStateVersion, joins, channel, joined, currentRoom,
                   shownSettings, lastStateVersion, restarts>>

\* GET of the room
OwnRead ==
    /\ fetching > 0
    /\ fetching' = fetching - 1 /\ replies' = replies \cup {RoomRead(revision)}
    /\ UNCHANGED <<revision, settings, roomStateVersion, updates, joins, channel, joined,
                   currentRoom, shownSettings, lastStateVersion, restarts>>

\* broadcastRoomState, getRoom: Redis answers in order.
ReadRoom ==
    \E i \in DOMAIN updates :
        /\ updates[i] = NoRoom /\ \A j \in 1 .. i - 1 : updates[j] # NoRoom
        /\ updates' = [updates EXCEPT ![i] = revision]
        /\ UNCHANGED <<revision, settings, roomStateVersion, joins, channel, replies,
                       fetching, joined, currentRoom, shownSettings, lastStateVersion,
                       restarts>>

\* Mutant: the number is taken and the counter left.
MutantNotCounted(content, subscribed) ==
    /\ roomStateVersion' = IF roomStateVersion = 0 THEN 1 ELSE roomStateVersion
    /\ channel' = IF subscribed
                  THEN Append(channel, [content |-> content, version |-> roomStateVersion'])
                  ELSE channel

\* buildRoomStatePayload, and room:state_update to the room
BuildAndSend(content, subscribed) ==
    /\ roomStateVersion' = roomStateVersion + 1
    /\ channel' = IF subscribed
                  THEN Append(channel, [content |-> content, version |-> roomStateVersion'])
                  ELSE channel

\* broadcastRoomState, after getRoomPresence
SendUpdate ==
    /\ updates # << >> /\ Head(updates) # NoRoom
    /\ updates' = Tail(updates)
    /\ BuildAndSend(Head(updates), joined)
    /\ UNCHANGED <<revision, settings, joins, replies, fetching, joined, currentRoom,
                   shownSettings, lastStateVersion, restarts>>

\* handleRoomJoin: the room is read first, then the socket joins and presence is
\* set; the update to all is also the answer to the joining socket.
StartJoin ==
    /\ currentRoom # NoRoom /\ joins = {} /\ ~joined
    /\ joins' = {revision}
    /\ UNCHANGED <<revision, settings, roomStateVersion, updates, channel, replies, fetching,
                   joined, currentRoom, shownSettings, lastStateVersion, restarts>>

SocketJoins ==
    /\ joins # {} /\ ~joined
    /\ joined' = TRUE
    /\ UNCHANGED <<revision, settings, roomStateVersion, updates, joins, channel, replies,
                   fetching, currentRoom, shownSettings, lastStateVersion, restarts>>

FinishJoin ==
    /\ joined /\ joins # {}
    /\ joins' = {}
    /\ BuildAndSend(CHOOSE content \in joins : TRUE, TRUE)
    /\ UNCHANGED <<revision, settings, updates, replies, fetching, joined, currentRoom,
                   shownSettings, lastStateVersion, restarts>>

\* The server starts again: what it had in memory is gone, the counter is 0.
Restart ==
    /\ restarts < MaxRestarts
    /\ restarts' = restarts + 1
    /\ roomStateVersion' = 0
    /\ updates' = << >> /\ joins' = {} /\ channel' = << >>
    /\ replies' = {} /\ fetching' = 0 /\ joined' = FALSE
    /\ UNCHANGED <<revision, settings, currentRoom, shownSettings, lastStateVersion>>

-----------------------------------------------------------------------------
(* The browser.                                                            *)

\* fetchRoom, joinRoom, toggleReady, addAIPlayer: at most one at a time here
Request ==
    /\ fetching = 0 /\ replies = {}
    /\ fetching' = 1
    /\ UNCHANGED <<revision, settings, roomStateVersion, updates, joins, channel, replies,
                   joined, currentRoom, shownSettings, lastStateVersion, restarts>>

\* The answer becomes the current room, whatever the updates have brought.
ReceiveReply ==
    \E reply \in replies :
        /\ replies' = replies \ {reply}
        /\ currentRoom' = reply.content /\ shownSettings' = reply.settings
        /\ UNCHANGED <<revision, settings, roomStateVersion, updates, joins, channel,
                       fetching, joined, lastStateVersion, restarts>>

\* handleRoomStateUpdate: only a higher number is applied; players, host and
\* status are replaced, the rest of the old room is kept.
Applies(update) ==
    /\ currentRoom # NoRoom /\ update.version > lastStateVersion
    /\ currentRoom' = update.content
    /\ lastStateVersion' = update.version

handleRoomStateUpdate ==
    /\ channel # << >>
    /\ channel' = Tail(channel)
    /\ \/ Applies(Head(channel))
       \/ /\ currentRoom = NoRoom \/ Head(channel).version =< lastStateVersion
          /\ UNCHANGED <<currentRoom, lastStateVersion>>
    /\ UNCHANGED <<revision, settings, roomStateVersion, updates, joins, replies, fetching,
                   joined, shownSettings, restarts>>

\* leaveRoom
LeavePage ==
    /\ currentRoom # NoRoom /\ fetching = 0 /\ replies = {} /\ restarts < MaxRestarts
    /\ restarts' = restarts + 1
    /\ joined' = FALSE /\ joins' = {} /\ channel' = << >>
    /\ currentRoom' = NoRoom /\ shownSettings' = NoRoom /\ lastStateVersion' = 0
    /\ UNCHANGED <<revision, settings, roomStateVersion, updates, replies, fetching>>

RoomNext ==
    \/ OtherSaves \/ UpdateSettings \/ OwnSave \/ OwnRead \/ ReadRoom \/ SendUpdate
    \/ StartJoin \/ SocketJoins \/ FinishJoin \/ Restart
    \/ Request \/ ReceiveReply \/ handleRoomStateUpdate \/ LeavePage

RoomSpec == RoomInit /\ [][RoomNext]_roomVars

\* Nothing is under way.
Quiet ==
    updates = << >> /\ joins = {} /\ channel = << >> /\ replies = {} /\ fetching = 0

=============================================================================
