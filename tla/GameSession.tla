----------------------------- MODULE GameSession -----------------------------
(***************************************************************************)
(* session-manager.ts for one game in one room: the session in memory, its *)
(* turn timer, the snapshots in Redis, the result in PostgreSQL.  The      *)
(* engine is called synchronously and enters through module Turns; what is *)
(* awaited in between (Redis, PostgreSQL) answers in steps of its own.     *)
(***************************************************************************)
EXTENDS Integers, Sequences

CONSTANTS
    Players,
    AIPlayers,          \* those whose ids are not user ids
    SnapshotInterval,   \* GAME_SNAPSHOT_INTERVAL_ACTIONS
    MaxActions,         \* bound: no player acts after so many actions
    EarlyPlay,          \* whether a client acts before the creation is done
    Recovers,           \* whether anything calls recoverSession
    Faults,             \* what may fail: "redis", "postgres", "crash"
    None

ASSUME SessionAssumption ==
    /\ AIPlayers \subseteq Players
    /\ SnapshotInterval \in Nat \ {0}
    /\ MaxActions \in Nat
    /\ EarlyPlay \in BOOLEAN /\ Recovers \in BOOLEAN
    /\ Faults \subseteq {"redis", "postgres", "crash"}
    /\ None \notin Players

VARIABLES
    turn, status,        \* session.state, as Turns sees it
    actionCount,         \* session.state.actionCount
    actionLog,           \* session.actionLog: who acted, None for a cancellation
    active,              \* the game is in activeSessions, its room in roomToGame
    creation,            \* progress of createGameSession, or of a crash
    timers,              \* the setTimeout callbacks not fired yet
    turnTimer,           \* session.turnTimer
    inFlight,            \* snapshots sent to Redis and not answered, in order
    lastSnapshot,        \* session.lastSnapshotActionCount
    completion,          \* progress of handleGameCompletion
    saved,               \* the snapshot in Redis
    games,               \* the row of table games
    gameActions          \* the rows of table game_actions, by index

state == <<turn, status, actionCount, actionLog>>
clock == <<timers, turnTimer>>
tables == <<games, gameActions>>
vars == <<state, active, creation, clock, inFlight, lastSnapshot, completion,
          saved, tables>>

Game == INSTANCE Turns

Init ==
    /\ Game!Init
    /\ actionCount = 0 /\ actionLog = << >>
    /\ active = FALSE /\ creation = "none"
    /\ timers = {} /\ turnTimer = None
    /\ inFlight = << >> /\ lastSnapshot = 0 /\ saved = None
    /\ completion = "none"
    /\ games = None /\ gameActions = << >>

-----------------------------------------------------------------------------
(* Parts of the actions.  They are used after turn', status' and           *)
(* actionCount' are known.                                                 *)

\* snapshotToRedis: the state is captured before the await; next says what its
\* caller goes on with.
SnapshotToRedis(next) ==
    inFlight' = Append(inFlight,
        [state |-> [count |-> actionCount', turn |-> turn', status |-> status'],
         next  |-> next])

\* maybeSnapshot; the 30 seconds may have passed at any action
MaybeSnapshot ==
    \/ SnapshotToRedis("none")
    \/ actionCount' - lastSnapshot < SnapshotInterval /\ UNCHANGED inFlight

\* startTurnTimer, by the caller it is called from, with the callbacks in
\* pending still to fire: a timer that runs already is not cleared.
StartTurnTimer(pending, caller) ==
    LET timer == [player |-> turn', started |-> actionCount', by |-> caller]
    IN  /\ timers' = pending \cup {timer}
        /\ turnTimer' = timer

\* Mutant: the timer of the turn that ended is left to run.
MutantTimerKept(pending) == pending

\* clearTurnTimer
ClearTurnTimer(pending) == pending \ {turnTimer}

\* Mutant: the timer is restarted only when the turn passes.
MutantRestartOnPass(actor, pending) ==
    /\ actionCount' = actionCount + 1
    /\ actionLog' = Append(actionLog, actor)
    /\ \/ /\ status' = "playing"
          /\ IF turn' # turn THEN StartTurnTimer(ClearTurnTimer(pending), "action")
                             ELSE timers' = ClearTurnTimer(pending) /\ turnTimer' = None
          /\ MaybeSnapshot
          /\ UNCHANGED completion
       \/ /\ status' # "playing"
          /\ timers' = ClearTurnTimer(pending) /\ turnTimer' = None
          /\ completion' = "game"
          /\ UNCHANGED inFlight
    /\ UNCHANGED <<active, creation, lastSnapshot, saved, tables>>

(***************************************************************************)
(* applyAction once the engine has accepted the action.  The end of a game *)
(* starts handleGameCompletion, up to its first query.                     *)
(***************************************************************************)
ApplyAction(actor, pending) ==
    /\ actionCount' = actionCount + 1
    /\ actionLog' = Append(actionLog, actor)
    /\ \/ /\ status' = "playing"
          /\ StartTurnTimer(ClearTurnTimer(pending), "action")
          /\ MaybeSnapshot
          /\ UNCHANGED completion
       \/ /\ status' # "playing"
          /\ timers' = ClearTurnTimer(pending) /\ turnTimer' = None
          /\ completion' = "game"
          /\ UNCHANGED inFlight
    /\ UNCHANGED <<active, creation, lastSnapshot, saved, tables>>

-----------------------------------------------------------------------------
(* The actions.                                                            *)

\* createGameSession, up to the first await
CreateGameSession ==
    /\ creation = "none"
    /\ creation' = "snapshot"
    /\ active' = TRUE
    /\ UNCHANGED state
    /\ SnapshotToRedis("startTimer")
    /\ UNCHANGED <<clock, lastSnapshot, completion, saved, tables>>

\* A player's, or the AI controller's, accepted action.  AI players are told of
\* the game only when it is created; clients can know it from the saved room.
PlayerAction(p) ==
    /\ active /\ actionCount < MaxActions
    /\ creation = "snapshot" => EarlyPlay /\ p \notin AIPlayers
    /\ Game!Play(p)
    /\ ApplyAction(p, timers)

\* The callback of startTurnTimer.  Timers of equal length fire in the order
\* they were started in.  The engine turns the action down when the game is over.
TurnTimerFires ==
    \E timer \in timers :
        /\ \A other \in timers : timer.started =< other.started
        /\ \/ /\ active /\ actionCount < MaxActions
              /\ Game!Forfeit(timer.player)
              /\ ApplyAction(timer.player, timers \ {timer})
           \/ /\ ~(active /\ status = "playing")
              /\ timers' = timers \ {timer}
              /\ UNCHANGED <<state, active, creation, turnTimer, inFlight,
                             lastSnapshot, completion, saved, tables>>

\* handlePlayerDisconnectTimeout, which first checks that the game is not over
DisconnectTimeout ==
    /\ active /\ status = "playing"
    /\ Game!Cancel
    /\ ApplyAction(None, timers)

\* Redis answers the oldest pipeline: written or failed.  lastSnapshotActionCount
\* is read from the session now, not from the snapshot; a failure inside the
\* pipeline still counts, a failed call does not.
Answer(next) ==
    /\ inFlight # << >> /\ Head(inFlight).next = next
    /\ inFlight' = Tail(inFlight)
    /\ \/ saved' = Head(inFlight).state /\ lastSnapshot' = actionCount
       \/ /\ "redis" \in Faults
          /\ lastSnapshot' \in {lastSnapshot, actionCount}
          /\ UNCHANGED saved

SnapshotDone ==
    /\ Answer("none")
    /\ UNCHANGED <<state, active, creation, clock, completion, tables>>

\* createGameSession goes on
SessionCreated ==
    /\ Answer("startTimer")
    /\ creation' = "done"
    /\ UNCHANGED <<state, active, completion, tables>>
    /\ IF status = "playing" THEN StartTurnTimer(timers, "creation") ELSE UNCHANGED clock

Winner == IF status = "finished" THEN turn ELSE None

\* Mutant: an error of the first query ends handleGameCompletion.
MutantErrorEscapes ==
    /\ completion = "game"
    /\ \/ /\ games = None /\ Winner \notin AIPlayers
          /\ games' = [status |-> status, winner |-> Winner, count |-> actionCount]
          /\ completion' = "actions"
       \/ /\ "postgres" \in Faults
          /\ completion' = "none"
          /\ UNCHANGED games
    /\ UNCHANGED <<state, active, creation, clock, inFlight, lastSnapshot, saved,
                   gameActions>>

\* persistGameResult, first query: the key must be new and the winner a user.
\* An error is logged and handleGameCompletion goes on to the last snapshot.
InsertGame ==
    /\ completion = "game"
    /\ \/ /\ games = None /\ Winner \notin AIPlayers
          /\ games' = [status |-> status, winner |-> Winner, count |-> actionCount]
          /\ completion' = "actions"
          /\ UNCHANGED inFlight
       \/ /\ games # None \/ Winner \in AIPlayers \/ "postgres" \in Faults
          /\ completion' = "snapshot"
          /\ UNCHANGED <<state, games>>
          /\ SnapshotToRedis("remove")
    /\ UNCHANGED <<state, active, creation, clock, lastSnapshot, saved, gameActions>>

\* game_actions.player_id is the id of a user and not null
Recordable(actor) == actor \in Players \ AIPlayers

\* Mutant: the loop stops before the last row.
MutantLastRowMissing ==
    /\ completion = "actions"
    /\ UNCHANGED <<state, active, creation, clock, lastSnapshot, saved, games>>
    /\ LET actor == actionLog[Len(gameActions) + 1]
       IN  \/ /\ Recordable(actor)
              /\ gameActions' = Append(gameActions, actor)
              /\ IF Len(gameActions') >= Len(actionLog) - 1
                 THEN completion' = "snapshot" /\ SnapshotToRedis("remove")
                 ELSE UNCHANGED <<completion, inFlight>>
           \/ /\ ~Recordable(actor)
              /\ completion' = "snapshot"
              /\ SnapshotToRedis("remove")
              /\ UNCHANGED gameActions

\* persistGameResult, the loop: the first error ends it, with the last row
\* the last snapshot is sent.
InsertAction ==
    /\ completion = "actions"
    /\ UNCHANGED <<state, active, creation, clock, lastSnapshot, saved, games>>
    /\ LET actor == actionLog[Len(gameActions) + 1]
       IN  \/ /\ Recordable(actor)
              /\ gameActions' = Append(gameActions, actor)
              /\ IF Len(gameActions') = Len(actionLog)
                 THEN completion' = "snapshot" /\ SnapshotToRedis("remove")
                 ELSE UNCHANGED <<completion, inFlight>>
           \/ /\ ~Recordable(actor) \/ "postgres" \in Faults
              /\ completion' = "snapshot"
              /\ SnapshotToRedis("remove")
              /\ UNCHANGED gameActions

\* Mutant: the last snapshot is not awaited.
MutantNotAwaited ==
    /\ completion = "snapshot"
    /\ completion' = "done"
    /\ active' = FALSE
    /\ UNCHANGED <<state, creation, clock, inFlight, lastSnapshot, saved, tables>>

\* The last snapshot is answered: the session is removed.
RemoveSession ==
    /\ Answer("remove")
    /\ completion' = "done"
    /\ active' = FALSE
    /\ UNCHANGED <<state, creation, clock, tables>>

\* The keys in Redis are deleted a minute later.
CleanUp ==
    /\ completion = "done"
    /\ completion' = "cleaned"
    /\ \/ saved' = None
       \/ "redis" \in Faults /\ UNCHANGED saved
    /\ UNCHANGED <<state, active, creation, clock, inFlight, lastSnapshot, tables>>

(***************************************************************************)
(* The process dies, at most once, and is restarted: nothing in memory is  *)
(* left.  turn, status and actionCount keep what the players saw last.     *)
(***************************************************************************)
Crash ==
    /\ "crash" \in Faults
    /\ creation \in {"snapshot", "done"}
    /\ creation' = "lost"
    /\ active' = FALSE
    /\ actionLog' = << >> /\ lastSnapshot' = 0
    /\ timers' = {} /\ turnTimer' = None
    /\ inFlight' = << >>
    /\ completion' = "none"
    /\ UNCHANGED <<turn, status, actionCount, saved, tables>>

\* Mutant: the timer is left to the next action.
MutantRecoverWithoutTimer ==
    /\ Recovers
    /\ creation = "lost" /\ saved # None
    /\ creation' = "recovered"
    /\ active' = TRUE
    /\ turn' = saved.turn /\ status' = saved.status /\ actionCount' = saved.count
    /\ lastSnapshot' = saved.count
    /\ UNCHANGED <<actionLog, inFlight, completion, saved, tables, clock>>

\* recoverSession: without the log of the actions before.
RecoverSession ==
    /\ Recovers
    /\ creation = "lost" /\ saved # None
    /\ creation' = "recovered"
    /\ active' = TRUE
    /\ turn' = saved.turn /\ status' = saved.status /\ actionCount' = saved.count
    /\ lastSnapshot' = saved.count
    /\ UNCHANGED <<actionLog, inFlight, completion, saved, tables>>
    /\ IF status' = "playing" THEN StartTurnTimer(timers, "recovery") ELSE UNCHANGED clock

Next ==
    \/ CreateGameSession \/ SessionCreated
    \/ \E p \in Players : PlayerAction(p)
    \/ TurnTimerFires
    \/ DisconnectTimeout
    \/ SnapshotDone
    \/ InsertGame \/ InsertAction \/ RemoveSession \/ CleanUp
    \/ Crash \/ RecoverSession

Spec == Init /\ [][Next]_vars

(***************************************************************************)
(* Timers fire, and every command and query is answered or fails: Redis    *)
(* commands have a timeout (REDIS_COMMAND_TIMEOUT_MS).  Nothing is assumed *)
(* of players, connections or crashes.                                     *)
(***************************************************************************)
FairSpec ==
    /\ Spec
    /\ WF_vars(TurnTimerFires)
    /\ WF_vars(SnapshotDone) /\ WF_vars(SessionCreated) /\ WF_vars(RemoveSession)
    /\ WF_vars(InsertGame) /\ WF_vars(InsertAction)

-----------------------------------------------------------------------------
(* Properties.                                                             *)

Timer == [player : Players, started : Nat, by : {"action", "creation", "recovery"}]
Snapshot == [count : Nat, turn : Players, status : {"playing", "finished", "cancelled"}]
Pipeline == [state : Snapshot, next : {"none", "startTimer", "remove"}]

\* A session exists only between its creation and its removal, and every timer,
\* snapshot and row is about a player and a state of this game.
TypeOK ==
    /\ turn \in Players /\ status \in {"playing", "finished", "cancelled"}
    /\ actionCount \in Nat /\ actionLog \in Seq(Players \cup {None})
    /\ active \in BOOLEAN
    /\ creation \in {"none", "snapshot", "done", "lost", "recovered"}
    /\ timers \subseteq Timer /\ turnTimer \in Timer \cup {None}
    /\ inFlight \in Seq(Pipeline)
    /\ lastSnapshot \in Nat
    /\ completion \in {"none", "game", "actions", "snapshot", "done", "cleaned"}
    /\ saved \in Snapshot \cup {None}
    /\ games \in [status : {"playing", "finished", "cancelled"},
                  winner : Players \cup {None}, count : Nat] \cup {None}
    /\ gameActions \in Seq(Players)

\* TIMEOUT_FORFEIT is accepted for any player at any time, so all depends on
\* the timers: one that has not fired is the one the session knows and can
\* clear, and it names the player on turn of a game that is on.
TimerMatchesTurn ==
    \A timer \in timers :
        timer = turnTimer /\ active /\ status = "playing" /\ timer.player = turn

\* A game that is on always has its clock running, once it is created, and
\* again when it is recovered; only a timer makes an absent player's turn end.
ClockRuns ==
    active /\ status = "playing" /\ creation \in {"done", "recovered"} => timers # {}

\* When PostgreSQL has answered all queries the result of the game is there,
\* unless an AI player won; the action log is written in order and without
\* gaps, and all of it if every action was a human player's.
ResultRecorded ==
    completion \in {"snapshot", "done", "cleaned"} =>
        /\ Winner \notin AIPlayers =>
              games = [status |-> status, winner |-> Winner, count |-> actionCount]
        /\ gameActions = SubSeq(actionLog, 1, Len(gameActions))
        /\ games # None /\ (\A i \in DOMAIN actionLog : Recordable(actionLog[i]))
              => gameActions = actionLog

\* A session is removed from memory only when Redis holds the final state: it
\* is what clients are served in the minute after the game, and no snapshot
\* sent earlier overwrites it.
FinalStateKept ==
    completion = "done" => /\ saved = [count |-> actionCount, turn |-> turn, status |-> status]
                           /\ inFlight = << >>

\* No turn lasts for ever, whatever fails.
EveryTurnEnds ==
    \A n \in 0 .. MaxActions - 1 :
        (active /\ status = "playing" /\ actionCount = n)
            ~> (~active \/ status # "playing" \/ actionCount # n)

\* handleGameCompletion, once begun, removes the session, whatever fails.  (A
\* session recovered after the end of its game has no completion to remove it.)
SessionCloses == active /\ completion # "none" ~> ~active

(* Statements of the documents that the code does not keep.                *)

\* game-clock.md: only one timer active at a time per game.
OneTimer == \A s, t \in timers : s = t

=============================================================================
