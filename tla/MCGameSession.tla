---------------------------- MODULE MCGameSession ----------------------------
(***************************************************************************)
(* Players for GameSession, and the two parts in which one instance is     *)
(* explored: "result", a game in which nothing fails, with an AI player;   *)
(* "recovery", a game of the humans in which everything may.               *)
(***************************************************************************)
EXTENDS GameSession, TLC

CONSTANTS ann, bob, ai

TwoHumans == {ann, bob}
WithAI == {ann, bob, ai}

VARIABLE scenario       \* the part explored; never changes

mcVars == <<vars, scenario>>

MCInit == Init /\ scenario \in {"result", "recovery"}

\* A crash, a snapshot not written, a row not inserted that its table would
\* take, keys not deleted.
StepFails ==
    \/ creation' = "lost"
    \/ /\ inFlight # << >> /\ inFlight' = Tail(inFlight)
       /\ saved' # Head(inFlight).state
    \/ /\ completion = "game" /\ completion' = "snapshot"
       /\ games = None /\ Winner \notin AIPlayers
    \/ /\ completion = "actions" /\ completion' = "snapshot"
       /\ gameActions' = gameActions
       /\ Recordable(actionLog[Len(gameActions) + 1])
    \/ completion = "done" /\ completion' = "cleaned" /\ saved' # None

In(A) ==
    /\ A
    /\ UNCHANGED scenario
    /\ scenario = "result" => ~StepFails
    /\ scenario = "recovery" => turn' \notin AIPlayers

MCSpec == MCInit /\ [][In(Next)]_mcVars

MCFairSpec ==
    /\ MCSpec
    /\ WF_mcVars(In(TurnTimerFires))
    /\ WF_mcVars(In(SnapshotDone)) /\ WF_mcVars(In(SessionCreated))
    /\ WF_mcVars(In(RemoveSession))
    /\ WF_mcVars(In(InsertGame)) /\ WF_mcVars(In(InsertAction))

\* When nothing fails, the result and the log of the game that was played are
\* in PostgreSQL once the queries are answered (persistGameResult), and Redis
\* holds the final state once the session is removed from memory, with no older
\* snapshot still to come (handleGameCompletion).
RecordKept == scenario = "result" => ResultRecorded /\ FinalStateKept
=============================================================================
