------------------------------ MODULE MCClients ------------------------------
(***************************************************************************)
(* The two views of a browser side by side: the run explores each on its   *)
(* own.  History variables record whether updates of the room overlapped   *)
(* with something that carries no number, or another, and whether its      *)
(* settings were saved since the browser last got an answer.               *)
(***************************************************************************)
EXTENDS GameClient, RoomClient

CONSTANTS ann, bob

TwoPlayers == {ann, bob}

VARIABLES
    overlap,        \* see Overlaps
    changed,        \* see Changed
    part            \* the part explored; never changes

history == <<overlap, changed>>
mcVars == <<clientVars, roomVars, history, part>>

\* A room:join or an answer over HTTP under way while the room is saved or an
\* update is on its way, or a restart of the server after the first update.
Pending(us, ch) == us # << >> \/ ch # << >>
Overlaps ==
    \/ (joins' # {} \/ fetching' > 0 \/ replies' # {})
         /\ (Pending(updates', channel') \/ revision' # revision \/ settings' # settings)
    \/ roomStateVersion' < lastStateVersion'

Changed ==
    \/ settings' # settings
    \/ changed /\ ~ReceiveReply

MCInit ==
    /\ part \in {"game", "room"}
    /\ ClientInit /\ turn = ann        \* the players are interchangeable
    /\ RoomInit /\ overlap = FALSE /\ changed = FALSE

MCNext ==
    /\ UNCHANGED part
    /\ \/ part = "game" /\ ClientNext /\ UNCHANGED <<roomVars, history>>
       \/ part = "room" /\ RoomNext /\ UNCHANGED clientVars
             /\ overlap' = (overlap \/ Overlaps) /\ changed' = Changed

MCSpec == MCInit /\ [][MCNext]_mcVars

InGame(A) == part = "game" /\ A /\ UNCHANGED <<roomVars, history, part>>

MCFairSpec ==
    /\ MCSpec
    /\ WF_mcVars(InGame(FetchSockets)) /\ WF_mcVars(InGame(BroadcastState))
    /\ \A p \in Players : WF_mcVars(InGame(Handled(p))) /\ WF_mcVars(InGame(Receive(p)))

\* Once nothing is under way, a browser whose socket is in the room shows its
\* players, host and status as they are, as long as updates did not overlap:
\* then the number that an update gets late, and an answer without one, do no
\* harm.  The settings, which no update carries, are shown as they are unless
\* they were changed since the browser's last request was answered.
RoomIsShown ==
    ~overlap /\ Quiet /\ joined /\ currentRoom # NoRoom =>
        currentRoom = revision /\ (changed \/ shownSettings = settings)
=============================================================================
