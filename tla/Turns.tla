-------------------------------- MODULE Turns --------------------------------
(***************************************************************************)
(* What the session manager relies on of the engine: whose turn it is and  *)
(* whether the game is still on.  GameEngine implements it (TurnsSpec),    *)
(* GameSession is built on it.                                             *)
(***************************************************************************)
CONSTANT Players

VARIABLES
    turn,    \* turnOrder[currentPlayerIndex]
    status   \* "playing", "finished" or "cancelled"

vars == <<turn, status>>

Init == turn \in Players /\ status = "playing"

\* Only the player on turn is let act; he may win, and the turn stays his.
Play(p) ==
    /\ status = "playing" /\ p = turn
    /\ \/ turn' \in Players /\ UNCHANGED status
       \/ UNCHANGED turn /\ status' = "finished"

\* A forfeit is accepted for anyone.  It always takes the turn from the player
\* whose turn it is, unless a Queen declared for p wins him the game.
Forfeit(p) ==
    /\ status = "playing" /\ p \in Players
    /\ \/ turn' \in Players \ {turn} /\ UNCHANGED status
       \/ UNCHANGED turn /\ status' = "finished"

\* Accepted in every state.
Cancel == status' = "cancelled" /\ UNCHANGED turn

Next == (\E p \in Players : Play(p) \/ Forfeit(p)) \/ Cancel

Spec == Init /\ [][Next]_vars

=============================================================================
