---------------------------- MODULE AIController ----------------------------
(***************************************************************************)
(* modules/ai/controller.ts and its two partners for one game: the session *)
(* manager, which announces turns (applyAction, notifyAITurnChange), and   *)
(* the adapter of server.ts through which a move is submitted.  A turn of  *)
(* an AI player that is announced becomes a plan: the move is computed at  *)
(* once, from the state announced, and submitted after a delay.            *)
(*                                                                         *)
(* A move is the state it was computed from: the enumerator lists exactly  *)
(* what the validator accepts (LegalMoves), so a move for the current      *)
(* state is accepted; one for an earlier state may still be.  All retries  *)
(* of a plan draw on the old state and happen in one synchronous loop, so  *)
(* they are part of its submission.  The one state in which the validator  *)
(* accepts nothing is a declaration due from a player without cards.       *)
(***************************************************************************)
EXTENDS Naturals

CONSTANTS
    Players,
    AIPlayers,      \* those isAIPlayer holds of
    MaxActions      \* bound: nobody acts after so many actions

ASSUME AIAssumption == AIPlayers \subseteq Players /\ MaxActions \in Nat

VARIABLES
    turn, status,   \* session.state, as Turns sees it
    version,        \* session.state.actionCount
    lastQueen,      \* whoever is on turn has put down a Queen as his last card
    registered,     \* the map aiPlayers of ai-player.ts, one for all games
    started,        \* onGameStarted was called for this game
    plans           \* handleAITurn calls waiting for their delay

session == <<turn, status, version, lastQueen>>
aiVars == <<session, registered, started, plans>>

Game == INSTANCE Turns

\* An id in the map may be left from a game played in another room.
AIInit ==
    /\ Game!Init
    /\ version = 0 /\ lastQueen = FALSE
    /\ registered \in SUBSET AIPlayers
    /\ started = FALSE /\ plans = {}

\* handleAITurn, up to its delay: an unknown AI player is ignored, and so is
\* one without a legal move.
HandleAITurn(known, by) ==
    IF status' = "playing" /\ turn' \in known /\ ~lastQueen'
    THEN {[player |-> turn', version |-> version', by |-> by]}
    ELSE {}

\* applyAction once the engine has accepted, and the announcement of the turn
ApplyAction(rest) ==
    /\ version' = version + 1
    /\ plans' = rest \cup HandleAITurn(registered, "manager")
    /\ UNCHANGED <<registered, started>>

\* A move of a player on turn: after it he may be the one with the last Queen.
Move(p) ==
    /\ version < MaxActions /\ ~lastQueen
    /\ Game!Play(p)
    /\ lastQueen' \in {FALSE, status' = "playing" /\ turn' = p}

\* Mutant: the AI players are asked to play only if nothing was played before.
MutantFirstTurnOnly ==
    /\ ~started /\ started' = TRUE
    /\ registered' = AIPlayers
    /\ UNCHANGED session
    /\ plans' = plans \cup IF version = 0 THEN HandleAITurn(AIPlayers, "start") ELSE {}

\* onGameStarted, called by the start handler after game:started is sent, with
\* the state of that moment, which may already be a later one.  (If the
\* sending fails, it is never called.)
OnGameStarted ==
    /\ ~started /\ started' = TRUE
    /\ registered' = AIPlayers
    /\ UNCHANGED session
    /\ plans' = plans \cup HandleAITurn(AIPlayers, "start")

HumanAction(p) ==
    /\ p \notin AIPlayers
    /\ Move(p)
    /\ ApplyAction(plans)

\* The turn timer, in the middle of whatever an AI player does.  It declares
\* for the player with the last Queen, who wins.
TurnTimerFires ==
    /\ version < MaxActions
    /\ Game!Forfeit(turn)
    /\ lastQueen => status' = "finished"
    /\ lastQueen' = FALSE
    /\ ApplyAction(plans)

\* Only a game that is on is cancelled.
DisconnectTimeout ==
    /\ version < MaxActions /\ status = "playing"
    /\ Game!Cancel
    /\ lastQueen' = FALSE
    /\ ApplyAction(plans)

\* submitAIAction, accepted: the session manager announces the next turn, and
\* the controller goes on by itself if the turn is still the AI player's.
Submit(plan) ==
    /\ Move(plan.player)
    /\ LET followUp == IF turn' = plan.player
                       THEN HandleAITurn(registered, "controller") ELSE {}
       IN  ApplyAction((plans \ {plan}) \cup followUp)

\* Dropped after the delay, because the game is over or all tries are rejected
Discard(plan) ==
    /\ status # "playing" \/ plan.version # version
    /\ plans' = plans \ {plan}
    /\ UNCHANGED <<session, registered, started>>

\* Mutant: a lock, so that a second plan does not act before the first is gone.
MutantWaitForOthers ==
    \E plan \in plans : (plans = {plan} /\ Submit(plan)) \/ Discard(plan)

DelayEnds == \E plan \in plans : Submit(plan) \/ Discard(plan)

AINext ==
    \/ OnGameStarted
    \/ \E p \in Players : HumanAction(p)
    \/ TurnTimerFires \/ DisconnectTimeout
    \/ DelayEnds

AISpec == AIInit /\ [][AINext]_aiVars

\* Delays end.  Nothing is assumed of players, of the clock or of the start.
AIFairness == WF_aiVars(DelayEnds)

-----------------------------------------------------------------------------
(* Properties.                                                             *)

\* An AI player on turn has a plan for exactly the current state, whoever acted
\* last, whatever old plans still wait, and however far the game had come when
\* the AI players were registered: no announcement of a turn is lost.
OnTurnOfAI == status = "playing" /\ turn \in AIPlayers /\ started /\ ~lastQueen

TurnIsPlanned ==
    OnTurnOfAI =>
        LET current == {plan \in plans : plan.version = version}
        IN  current # {} /\ \A plan \in current : plan.player = turn

\* So the turn ends by itself, without the clock; only the declaration after a
\* last Queen, which the validator lets nobody make, is left to it.
AITurnEnds ==
    \A n \in 0 .. MaxActions - 1 :
        (OnTurnOfAI /\ version = n) ~> (status # "playing" \/ version # n)

=============================================================================
