----------------------------- MODULE GameClient -----------------------------
(***************************************************************************)
(* A game as its players' browsers see it: game-store.ts, use-game.ts,     *)
(* use-socket.ts and the game page on one side; game-events.ts and the     *)
(* broadcasts of session-manager.ts on the other; a Socket.IO connection,  *)
(* in order while it lasts, in between.  A state is told by its            *)
(* actionCount, whose turn it is and whether the game is on; that each     *)
(* player gets a view of his own is left out.                              *)
(***************************************************************************)
EXTENDS Naturals, Sequences

CONSTANTS
    Players,
    MaxActions,         \* bound: no action is accepted after so many
    MaxDrops,           \* bound: connections that break
    MaxWaiting,         \* bound: nobody acts with more messages than this unread
    None

\* A state as the clients tell it from others
States == [version : 0 .. MaxActions, turn : Players,
           status : {"playing", "finished", "cancelled"}]

ASSUME ClientAssumption ==
    /\ MaxActions \in Nat /\ MaxDrops \in Nat /\ MaxWaiting \in Nat
    /\ None \notin States

VARIABLES
    turn, status, version,  \* session.state
    announced,      \* broadcastGameStarted was called
    gone,           \* the session is removed
    broadcasts,     \* broadcastGameStarted and broadcastStateToRoom under way
    online,         \* players whose socket is connected
    inRoom,         \* players whose socket is in the Socket.IO room
    joining,        \* players whose room:join is under way
    up, down,       \* what a socket sent and the other side has not handled
    view,           \* game-store: gameState
    submitting,     \* game-store: isSubmittingAction
    isGameOver,     \* game-store
    drops           \* connections broken so far

session == <<turn, status, version>>
server == <<session, announced, gone, broadcasts>>
net == <<online, inRoom, joining, up, down>>
stores == <<view, submitting, isGameOver>>
clientVars == <<server, net, stores, drops>>

Game == INSTANCE Turns

State == [version |-> version, turn |-> turn, status |-> status]

ClientInit ==
    /\ Game!Init /\ version = 0
    /\ announced = FALSE /\ gone = FALSE /\ broadcasts = {}
    /\ online = Players /\ inRoom = Players /\ joining = {}
    /\ up = [p \in Players |-> << >>] /\ down = [p \in Players |-> << >>]
    /\ view = [p \in Players |-> None]
    /\ submitting = [p \in Players |-> FALSE]
    /\ isGameOver = [p \in Players |-> FALSE]
    /\ drops = 0

-----------------------------------------------------------------------------
(* The server.                                                             *)

\* What every socket in the room is sent
ToRoom(message) ==
    [p \in Players |-> IF p \in inRoom THEN Append(down[p], message) ELSE down[p]]

ToPlayer(p, message) == [down EXCEPT ![p] = Append(@, message)]

Message(type, state) == [type |-> type, state |-> state]
Refused == Message("refused", None)

\* A broadcast of what happened by a state; to whom is known after fetchSockets.
Waiting(type, state) == [type |-> type, state |-> state, to |-> None]

\* startGame of the lobby: broadcastGameStarted
BroadcastGameStarted ==
    /\ ~announced
    /\ announced' = TRUE
    /\ broadcasts' = broadcasts \cup {Waiting("started", State)}
    /\ UNCHANGED <<session, gone, net, stores, drops>>

(***************************************************************************)
(* handleGameAction: the sender must be in the room and the game active.   *)
(* An accepted action is broadcast; a refused one is answered, also by the *)
(* acknowledgement.  The boards send plays only (use-game.ts).             *)
(***************************************************************************)
HandleGameAction(p) ==
    /\ up[p] # << >> /\ Head(up[p]) = "game:action"
    /\ up' = [up EXCEPT ![p] = Tail(@)]
    /\ \/ /\ p \in inRoom /\ ~gone /\ version < MaxActions
          /\ Game!Play(p)
          /\ version' = version + 1
          /\ broadcasts' = broadcasts \cup {Waiting("update", State')}
          /\ UNCHANGED down
       \/ /\ down' = ToPlayer(p, Refused)
          /\ UNCHANGED <<session, broadcasts>>
    /\ UNCHANGED <<announced, gone, online, inRoom, joining, stores, drops>>

\* Mutant: all sockets of the room but the one that acted, as socket.to sends.
MutantOthers == inRoom \ {turn}

\* io.in(roomId)
SocketsInRoom == inRoom

\* fetchSockets answers: the list is fixed.
FetchSockets ==
    /\ \E waiting \in broadcasts :
          /\ waiting.to = None
          /\ broadcasts' = (broadcasts \ {waiting}) \cup {[waiting EXCEPT !.to = SocketsInRoom]}
    /\ UNCHANGED <<session, announced, gone, net, stores, drops>>

\* Mutant: the state is captured when the action is accepted.
MutantCaptured(broadcast) == broadcast.state

\* session.state is read after the sockets are fetched.
Broadcast(broadcast) == State

\* What broadcastGameStarted and broadcastStateToRoom send p in the end: the
\* state to the sockets on the list, the end of the game to the room.
SentBy(broadcast, p) ==
    (IF p \in broadcast.to THEN <<Message(broadcast.type, Broadcast(broadcast))>> ELSE << >>) \o
    (IF broadcast.type = "update" /\ status # "playing" /\ p \in inRoom
     THEN <<Message("ended", Broadcast(broadcast))>> ELSE << >>)

BroadcastState ==
    /\ \E broadcast \in broadcasts :
          /\ broadcast.to # None
          /\ broadcasts' = broadcasts \ {broadcast}
          /\ down' = [p \in Players |-> down[p] \o SentBy(broadcast, p)]
    /\ UNCHANGED <<session, announced, gone, online, inRoom, joining, up, stores, drops>>

\* handleGameRequestState; a failure changes nothing at the client.
HandleRequestState(p) ==
    /\ up[p] # << >> /\ Head(up[p]) = "game:request_state"
    /\ up' = [up EXCEPT ![p] = Tail(@)]
    /\ down' = IF gone THEN down ELSE ToPlayer(p, Message("started", State))
    /\ UNCHANGED <<server, online, inRoom, joining, stores, drops>>

\* handleRoomJoin ends.  Only if the server had noticed that the player was
\* gone does the player get state:full_sync.
RoomJoined(p) ==
    /\ p \in joining
    /\ joining' = joining \ {p}
    /\ inRoom' = inRoom \cup {p}
    /\ \/ UNCHANGED down
       \/ ~gone /\ down' = ToPlayer(p, Message("full_sync", State))
    /\ UNCHANGED <<server, online, up, stores, drops>>

\* The turn timer: applyAction, and nothing is sent.
TurnTimerFires ==
    /\ version < MaxActions
    /\ Game!Forfeit(turn)
    /\ version' = version + 1
    /\ UNCHANGED <<announced, gone, broadcasts, net, stores, drops>>

\* handleGracePeriodExpired: only the end is sent.
DisconnectTimeout ==
    /\ version < MaxActions /\ ~gone /\ status = "playing"
    /\ Players \ online # {}
    /\ Game!Cancel
    /\ version' = version + 1
    /\ down' = ToRoom(Message("ended", State'))
    /\ UNCHANGED <<announced, gone, broadcasts, online, inRoom, joining, up, stores, drops>>

\* The end of handleGameCompletion
RemoveSession ==
    /\ status # "playing" /\ ~gone
    /\ gone' = TRUE
    /\ UNCHANGED <<session, announced, broadcasts, net, stores, drops>>

-----------------------------------------------------------------------------
(* The clients.                                                            *)

\* isMyTurn of use-game.ts, as far as the browser knows; once the game is over
\* the modal covers the board.
IsMyTurn(p) == view[p] # None /\ view[p].turn = p /\ view[p].status = "playing"

\* use-game.ts: playCards and its like.  Buttons wait for isSubmittingAction,
\* dragging a card does not.
SendAction(p) ==
    /\ p \in online /\ up[p] = << >> /\ Len(down[p]) =< MaxWaiting
    /\ IsMyTurn(p)
    /\ submitting' = [submitting EXCEPT ![p] = TRUE]
    /\ up' = [up EXCEPT ![p] = Append(@, "game:action")]
    /\ UNCHANGED <<server, online, inRoom, joining, down, view, isGameOver, drops>>

\* Mutant: only a rejection by the validator ends the submission.
MutantStillSubmitting(p, message) ==
    /\ view' = [view EXCEPT ![p] = IF message = Refused THEN @ ELSE message.state]
    /\ submitting' = [submitting EXCEPT ![p] =
           IF message.type \in {"started", "refused"} THEN @ ELSE FALSE]
    /\ isGameOver' = [isGameOver EXCEPT ![p] =
           CASE message.type = "started" -> FALSE
             [] message.type = "ended"   -> TRUE
             [] OTHER                    -> @]

(***************************************************************************)
(* handleGameStarted (also for an answer to game:request_state),           *)
(* handleGameStateUpdate, handleGameEnded, handleFullSyncGameState and     *)
(* handleActionRejected: the state received replaces the one shown.  Only  *)
(* game:started leaves isSubmittingAction and resets isGameOver.           *)
(***************************************************************************)
Apply(p, message) ==
    /\ view' = [view EXCEPT ![p] = IF message = Refused THEN @ ELSE message.state]
    /\ submitting' = [submitting EXCEPT ![p] = IF message.type = "started" THEN @ ELSE FALSE]
    /\ isGameOver' = [isGameOver EXCEPT ![p] =
           CASE message.type = "started" -> FALSE
             [] message.type = "ended"   -> TRUE
             [] OTHER                    -> @]

Receive(p) ==
    /\ down[p] # << >>
    /\ Apply(p, Head(down[p]))
    /\ down' = [down EXCEPT ![p] = Tail(@)]
    /\ UNCHANGED <<server, online, inRoom, joining, up, drops>>

\* A connection breaks, or the page is changed.  The stores live on.  A new
\* connection is another socket, which is on no list made before.
Drop(p) ==
    /\ p \in online /\ drops < MaxDrops
    /\ drops' = drops + 1
    /\ online' = online \ {p} /\ inRoom' = inRoom \ {p} /\ joining' = joining \ {p}
    /\ up' = [up EXCEPT ![p] = << >>] /\ down' = [down EXCEPT ![p] = << >>]
    /\ broadcasts' = {IF b.to = None THEN b ELSE [b EXCEPT !.to = @ \ {p}] : b \in broadcasts}
    /\ UNCHANGED <<session, announced, gone, stores>>

\* The effects of the game page for each new connection: the player joins the
\* room again and asks for the state.
Rejoin(p) ==
    /\ joining' = joining \cup {p}
    /\ up' = [up EXCEPT ![p] = <<"game:request_state">>]

\* use-socket.ts: a new connection
Connect(p) ==
    /\ p \notin online
    /\ online' = online \cup {p}
    /\ Rejoin(p)
    /\ UNCHANGED <<server, inRoom, down, stores, drops>>

-----------------------------------------------------------------------------

Handled(p) == HandleGameAction(p) \/ HandleRequestState(p)

ClientNext ==
    \/ BroadcastGameStarted \/ FetchSockets \/ BroadcastState
    \/ TurnTimerFires \/ DisconnectTimeout \/ RemoveSession
    \/ \E p \in Players :
        \/ Handled(p) \/ RoomJoined(p)
        \/ SendAction(p) \/ Receive(p) \/ Drop(p) \/ Connect(p)

ClientSpec == ClientInit /\ [][ClientNext]_clientVars

\* Messages arrive and are handled as long as the connection lasts; nothing is
\* assumed of players, clocks or connections.
ClientFairness ==
    /\ WF_clientVars(FetchSockets) /\ WF_clientVars(BroadcastState)
    /\ \A p \in Players : WF_clientVars(Handled(p)) /\ WF_clientVars(Receive(p))

-----------------------------------------------------------------------------
(* Properties.                                                             *)

Shown(p) == IF view[p] = None THEN 0 ELSE view[p].version

\* However broadcasts, answers and reconnections interleave, a client never
\* shows a state older than one it has shown (game-store.ts keeps no version).
ViewNeverGoesBack == [][\A p \in Players : Shown(p)' >= Shown(p)]_clientVars

\* Every player in the room by the time its sockets are fetched is shown the
\* outcome of an accepted action, the one who acted too, unless his connection
\* breaks.  (One who joins later sees it by what he asks for himself.)
ActionIsShown ==
    \A p \in Players, n \in 1 .. MaxActions :
        (p \in inRoom /\ \E b \in broadcasts : b.state.version = n /\ b.to = None)
            ~> (Shown(p) >= n \/ p \notin inRoom)

\* The controls come back after every action sent: its outcome is shown or it is
\* refused, for whatever reason, unless the connection breaks (use-game.ts).
ControlsComeBack ==
    \A p \in Players :
        (p \in online /\ up[p] = <<"game:action">>) ~> (~submitting[p] \/ p \notin online)

\* frontend-client.md: when the turn timer is over, the server sends the
\* forfeit by game:state_update and the client processes it.  So once nothing
\* is under way, a player who never lost the connection is shown the state.
QuietMeansShown ==
    /\ drops = 0 /\ announced /\ broadcasts = {}
    /\ \A p \in Players : up[p] = << >> /\ down[p] = << >>
    => \A p \in Players : view[p] = State

=============================================================================
