-------------------------- MODULE GameSessionProofs --------------------------
(***************************************************************************)
(* Theorems about the session manager, for every set of players, snapshot  *)
(* interval and choice of faults.                                          *)
(***************************************************************************)
EXTENDS MCGameSession, SequenceTheorems, TLAPS

Statuses == {"playing", "finished", "cancelled"}

(***************************************************************************)
(* Types.                                                                  *)
(***************************************************************************)

\* The engine's steps.
LEMMA GameType ==
    ASSUME TypeOK, \/ \E p \in Players : Game!Play(p) \/ Game!Forfeit(p)
                   \/ Game!Cancel
    PROVE  turn' \in Players /\ status' \in Statuses
BY DEF TypeOK, Game!Play, Game!Forfeit, Game!Cancel, Statuses

\* What is sent to Redis is a state of the game.
LEMMA SnapshotToRedisType ==
    ASSUME TypeOK, turn' \in Players, status' \in Statuses, actionCount' \in Nat,
           NEW next \in {"none", "startTimer", "remove"}, SnapshotToRedis(next)
    PROVE  inFlight' \in Seq(Pipeline)
<1>1. [state |-> [count |-> actionCount', turn |-> turn', status |-> status'],
       next |-> next] \in Pipeline
  BY DEF Snapshot, Pipeline, Statuses
<1> QED BY <1>1 DEF SnapshotToRedis, TypeOK

LEMMA StartTurnTimerType ==
    ASSUME turn' \in Players, actionCount' \in Nat, NEW pending \in SUBSET Timer,
           NEW caller \in {"action", "creation", "recovery"}, StartTurnTimer(pending, caller)
    PROVE  timers' \subseteq Timer /\ turnTimer' \in Timer \cup {None}
BY DEF StartTurnTimer, Timer

LEMMA ApplyActionType ==
    ASSUME TypeOK, turn' \in Players, status' \in Statuses, NEW actor \in Players \cup {None},
           NEW pending \in SUBSET Timer, ApplyAction(actor, pending)
    PROVE  TypeOK'
<1>1. actionCount' \in Nat
  BY DEF TypeOK, ApplyAction
<1>2. ClearTurnTimer(pending) \in SUBSET Timer
  BY DEF ClearTurnTimer
<1>3. timers' \subseteq Timer /\ turnTimer' \in Timer \cup {None}
  <2>1. CASE StartTurnTimer(ClearTurnTimer(pending), "action")
    BY <1>1, <1>2, <2>1, StartTurnTimerType
  <2>2. CASE timers' = ClearTurnTimer(pending) /\ turnTimer' = None
    BY <1>2, <2>2
  <2> QED BY <2>1, <2>2 DEF ApplyAction
<1>4. inFlight' \in Seq(Pipeline)
  <2>1. CASE SnapshotToRedis("none")
    BY <1>1, <2>1, SnapshotToRedisType
  <2>2. CASE UNCHANGED inFlight
    BY <2>2 DEF TypeOK
  <2> QED BY <2>1, <2>2 DEF ApplyAction, MaybeSnapshot
<1>5. actionLog' \in Seq(Players \cup {None})
  BY DEF TypeOK, ApplyAction
<1>6. completion' \in {"none", "game", "actions", "snapshot", "done", "cleaned"}
  BY DEF TypeOK, ApplyAction
<1> QED BY <1>1, <1>3, <1>4, <1>5, <1>6 DEF TypeOK, ApplyAction, tables, Statuses

LEMMA AnswerType ==
    ASSUME TypeOK, NEW next, Answer(next)
    PROVE  /\ inFlight' \in Seq(Pipeline)
           /\ saved' \in Snapshot \cup {None}
           /\ lastSnapshot' \in Nat
<1>1. inFlight \in Seq(Pipeline) /\ inFlight # << >>
  BY DEF TypeOK, Answer
<1>2. Head(inFlight).state \in Snapshot /\ Tail(inFlight) \in Seq(Pipeline)
  <2>1. Head(inFlight) \in Pipeline /\ Tail(inFlight) \in Seq(Pipeline)
    BY <1>1
  <2> QED BY <2>1 DEF Pipeline
<1> QED BY <1>2 DEF TypeOK, Answer
\* TypeOK is inductive.
THEOREM TypeCorrect == Spec => []TypeOK
<1>1. Init => TypeOK
  <2>1. << >> \in Seq(Players \cup {None}) /\ << >> \in Seq(Pipeline) /\ << >> \in Seq(Players)
    BY EmptySeq
  <2> SUFFICES ASSUME Init PROVE TypeOK
    OBVIOUS
  <2>2. turn \in Players /\ status \in Statuses
    BY DEF Init, Game!Init, Statuses
  <2>3. /\ actionCount \in Nat /\ lastSnapshot \in Nat /\ active \in BOOLEAN
        /\ creation = "none" /\ completion = "none"
    BY DEF Init
  <2>4. /\ timers \subseteq Timer /\ turnTimer \in Timer \cup {None}
        /\ saved \in Snapshot \cup {None} /\ games = None
    BY DEF Init
  <2>5. /\ actionLog \in Seq(Players \cup {None}) /\ inFlight \in Seq(Pipeline)
        /\ gameActions \in Seq(Players)
    BY <2>1 DEF Init
  <2> QED BY <2>2, <2>3, <2>4, <2>5 DEF TypeOK, Statuses
<1>2. TypeOK /\ [Next]_vars => TypeOK'
  <2> SUFFICES ASSUME TypeOK, [Next]_vars PROVE TypeOK'
    OBVIOUS
  <2>1. CASE CreateGameSession
    <3>1. turn' \in Players /\ status' \in Statuses /\ actionCount' \in Nat
      BY <2>1 DEF CreateGameSession, state, TypeOK, Statuses
    <3>2. inFlight' \in Seq(Pipeline)
      BY <2>1, <3>1, SnapshotToRedisType DEF CreateGameSession
    <3> QED BY <2>1, <3>2 DEF CreateGameSession, state, clock, tables, TypeOK
  <2>2. CASE SessionCreated
    <3>1. /\ inFlight' \in Seq(Pipeline) /\ saved' \in Snapshot \cup {None}
          /\ lastSnapshot' \in Nat
      BY <2>2, AnswerType DEF SessionCreated
    <3>2. turn' \in Players /\ actionCount' \in Nat /\ timers \in SUBSET Timer
      BY <2>2 DEF SessionCreated, state, TypeOK
    <3>3. timers' \subseteq Timer /\ turnTimer' \in Timer \cup {None}
      <4>1. CASE StartTurnTimer(timers, "creation")
        BY <3>2, <4>1, StartTurnTimerType
      <4>2. CASE UNCHANGED clock
        BY <4>2 DEF clock, TypeOK
      <4> QED BY <2>2, <4>1, <4>2 DEF SessionCreated
    <3> QED BY <2>2, <3>1, <3>3 DEF SessionCreated, state, tables, TypeOK
  <2>3. ASSUME NEW p \in Players, PlayerAction(p) PROVE TypeOK'
    <3>1. turn' \in Players /\ status' \in Statuses
      BY <2>3, GameType DEF PlayerAction
    <3>2. timers \in SUBSET Timer /\ ApplyAction(p, timers)
      BY <2>3 DEF TypeOK, PlayerAction
    <3> QED BY <3>1, <3>2, ApplyActionType
  <2>4. ASSUME NEW timer \in timers, Game!Forfeit(timer.player),
               ApplyAction(timer.player, timers \ {timer})
        PROVE  TypeOK'
    <3>1. timer.player \in Players /\ timers \ {timer} \in SUBSET Timer
      BY DEF TypeOK, Timer
    <3>2. turn' \in Players /\ status' \in Statuses
      BY <2>4, <3>1, GameType
    <3> QED BY <2>4, <3>1, <3>2, ApplyActionType
  <2>5. CASE TurnTimerFires
    <3>1. PICK timer \in timers :
            \/ /\ Game!Forfeit(timer.player)
               /\ ApplyAction(timer.player, timers \ {timer})
            \/ /\ timers' = timers \ {timer}
               /\ UNCHANGED <<state, active, creation, turnTimer, inFlight,
                              lastSnapshot, completion, saved, tables>>
      BY <2>5 DEF TurnTimerFires
    <3>2. CASE /\ timers' = timers \ {timer}
               /\ UNCHANGED <<state, active, creation, turnTimer, inFlight,
                              lastSnapshot, completion, saved, tables>>
      BY <3>2 DEF TypeOK, state, tables
    <3> QED BY <2>4, <3>1, <3>2
  <2>6. CASE DisconnectTimeout
    <3>1. turn' \in Players /\ status' \in Statuses
      BY <2>6, GameType DEF DisconnectTimeout
    <3>2. timers \in SUBSET Timer /\ ApplyAction(None, timers)
      BY <2>6 DEF TypeOK, DisconnectTimeout
    <3> QED BY <3>1, <3>2, ApplyActionType
  <2>7. CASE SnapshotDone
    BY <2>7, AnswerType DEF SnapshotDone, TypeOK, state, clock, tables
  <2>8. CASE InsertGame
    <3>1. /\ turn' \in Players /\ status' \in Statuses /\ actionCount' \in Nat
          /\ completion' \in {"actions", "snapshot"}
      BY <2>8 DEF InsertGame, state, TypeOK, Statuses
    <3>2. inFlight' \in Seq(Pipeline)
      <4>1. CASE SnapshotToRedis("remove")
        BY <3>1, <4>1, SnapshotToRedisType
      <4>2. CASE UNCHANGED inFlight
        BY <4>2 DEF TypeOK
      <4> QED BY <2>8, <4>1, <4>2 DEF InsertGame
    <3>3. games' \in [status : Statuses, winner : Players \cup {None}, count : Nat] \cup {None}
      BY <2>8 DEF InsertGame, TypeOK, Winner, Statuses
    <3> QED BY <2>8, <3>1, <3>2, <3>3 DEF InsertGame, state, clock, TypeOK, Statuses
  <2>9. CASE InsertAction
    <3>1. /\ turn' \in Players /\ status' \in Statuses /\ actionCount' \in Nat
          /\ completion' \in {"actions", "snapshot"}
      BY <2>9 DEF InsertAction, state, TypeOK, Statuses
    <3>2. inFlight' \in Seq(Pipeline)
      <4>1. CASE SnapshotToRedis("remove")
        BY <3>1, <4>1, SnapshotToRedisType
      <4>2. CASE UNCHANGED inFlight
        BY <4>2 DEF TypeOK
      <4> QED BY <2>9, <4>1, <4>2 DEF InsertAction
    <3>3. gameActions' \in Seq(Players)
      <4>1. gameActions \in Seq(Players)
        BY DEF TypeOK
      <4>2. PICK actor : \/ Recordable(actor) /\ gameActions' = Append(gameActions, actor)
                        \/ UNCHANGED gameActions
        BY <2>9 DEF InsertAction
      <4> QED BY <4>1, <4>2 DEF Recordable
    <3> QED BY <2>9, <3>1, <3>2, <3>3 DEF InsertAction, state, clock, TypeOK
  <2>10. CASE RemoveSession
    BY <2>10, AnswerType DEF RemoveSession, TypeOK, state, clock, tables
  <2>11. CASE CleanUp
    BY <2>11 DEF CleanUp, TypeOK, state, clock, tables
  <2>12. CASE Crash
    BY <2>12, EmptySeq DEF Crash, TypeOK, tables
  <2>13. CASE RecoverSession
    <3>1. saved \in Snapshot
      BY <2>13 DEF RecoverSession, TypeOK
    <3>2. turn' \in Players /\ status' \in Statuses /\ actionCount' \in Nat
      BY <2>13, <3>1 DEF RecoverSession, Snapshot, Statuses
    <3>3. timers' \subseteq Timer /\ turnTimer' \in Timer \cup {None}
      <4>1. CASE StartTurnTimer(timers, "recovery")
        <5>1. timers \in SUBSET Timer
          BY DEF TypeOK
        <5> QED BY <3>2, <4>1, <5>1, StartTurnTimerType
      <4>2. CASE UNCHANGED clock
        BY <4>2 DEF clock, TypeOK
      <4> QED BY <2>13, <4>1, <4>2 DEF RecoverSession
    <3> QED BY <2>13, <3>1, <3>2, <3>3 DEF RecoverSession, TypeOK, Snapshot, Statuses, tables
  <2>14. CASE UNCHANGED vars
    BY <2>14 DEF vars, state, clock, tables, TypeOK
  <2> QED BY <2>1, <2>2, <2>3, <2>5, <2>6, <2>7, <2>8, <2>9, <2>10, <2>11, <2>12,
             <2>13, <2>14 DEF Next
<1> QED BY <1>1, <1>2, PTL DEF Spec

(***************************************************************************)
(* The queue of snapshots in flight.                                       *)
(***************************************************************************)

\* The answer createGameSession waits for is the first of all, the one
\* handleGameCompletion waits for is the last.
QueueInv(queue, creating, completing) ==
    \A i \in DOMAIN queue :
        /\ queue[i].next = "startTimer" => i = 1 /\ creating = "snapshot"
        /\ queue[i].next = "remove" => i = Len(queue) /\ completing = "snapshot"

LEMMA QueueAppend ==
    ASSUME NEW queue \in Seq(Pipeline), NEW creating, NEW before, NEW after,
           QueueInv(queue, creating, before), before # "snapshot",
           NEW pipeline \in Pipeline,
           \/ pipeline.next = "none"
           \/ pipeline.next = "remove" /\ after = "snapshot"
    PROVE  QueueInv(Append(queue, pipeline), creating, after)
<1> DEFINE longer == Append(queue, pipeline)
<1>1. /\ Len(longer) = Len(queue) + 1 /\ longer[Len(longer)] = pipeline
      /\ DOMAIN longer = 1 .. Len(queue) + 1 /\ DOMAIN queue = 1 .. Len(queue)
      /\ \A i \in 1 .. Len(queue) : longer[i] = queue[i]
  OBVIOUS
<1>2. ASSUME NEW i \in 1 .. Len(queue)
      PROVE  /\ longer[i].next = "startTimer" => i = 1 /\ creating = "snapshot"
             /\ longer[i].next # "remove"
  BY <1>1 DEF QueueInv
<1> HIDE DEF longer
<1> QED BY <1>1, <1>2 DEF QueueInv

LEMMA QueueTail ==
    ASSUME NEW queue \in Seq(Pipeline), queue # << >>, NEW before, NEW after,
           NEW completing, QueueInv(queue, before, completing)
    PROVE  QueueInv(Tail(queue), after, completing)
<1>1. /\ Len(Tail(queue)) = Len(queue) - 1 /\ DOMAIN Tail(queue) = 1 .. Len(queue) - 1
      /\ DOMAIN queue = 1 .. Len(queue) /\ Len(queue) \in Nat
      /\ \A i \in DOMAIN Tail(queue) : Tail(queue)[i] = queue[i + 1]
  OBVIOUS
<1>2. ASSUME NEW i \in DOMAIN Tail(queue)
      PROVE  /\ Tail(queue)[i].next # "startTimer"
             /\ Tail(queue)[i].next = "remove" => i = Len(Tail(queue)) /\ completing = "snapshot"
  BY <1>1 DEF QueueInv
<1> QED BY <1>2 DEF QueueInv

LEMMA QueueLast ==
    ASSUME NEW queue \in Seq(Pipeline), queue # << >>, NEW creating, NEW completing,
           QueueInv(queue, creating, completing), Head(queue).next = "remove",
           NEW after
    PROVE  completing = "snapshot" /\ QueueInv(Tail(queue), creating, after)
<1>1. 1 \in DOMAIN queue /\ queue[1] = Head(queue)
  OBVIOUS
<1>2. Len(queue) = 1 /\ completing = "snapshot"
  BY <1>1 DEF QueueInv
<1>3. DOMAIN Tail(queue) = 1 .. Len(queue) - 1
  OBVIOUS
<1> QED BY <1>2, <1>3 DEF QueueInv

FinalState == [count |-> actionCount, turn |-> turn, status |-> status]

\* The last pipeline on its way is that of handleGameCompletion.
LastSent(queue) ==
    queue # << >> /\ queue[Len(queue)] = [state |-> FinalState, next |-> "remove"]

\* handleGameCompletion sends its snapshot.
LEMMA LastSnapshotSent ==
    ASSUME TypeOK, QueueInv(inFlight, creation, completion), completion # "snapshot",
           completion' = "snapshot", UNCHANGED <<state, creation>>, SnapshotToRedis("remove")
    PROVE  QueueInv(inFlight', creation', completion') /\ LastSent(inFlight)'
<1> DEFINE pipeline == [state |-> FinalState, next |-> "remove"]
<1>1. pipeline \in Pipeline /\ pipeline.next = "remove"
  BY DEF Pipeline, Snapshot, TypeOK, FinalState
<1>2. inFlight' = Append(inFlight, pipeline) /\ FinalState' = FinalState
  BY DEF SnapshotToRedis, FinalState, state
<1>3. inFlight \in Seq(Pipeline)
  BY DEF TypeOK
<1>4. /\ Append(inFlight, pipeline) # << >>
      /\ Append(inFlight, pipeline)[Len(Append(inFlight, pipeline))] = pipeline
  BY <1>1, <1>3
<1>5. LastSent(inFlight)'
  BY <1>2, <1>4 DEF LastSent
<1> HIDE DEF pipeline
<1>6. QueueInv(Append(inFlight, pipeline), creation, "snapshot")
  BY <1>1, <1>3, QueueAppend
<1> QED BY <1>2, <1>5, <1>6

(***************************************************************************)
(* The turn timer, when clients act only after the creation.               *)
(***************************************************************************)

\* TimerMatchesTurn holds because there is never a timer to forget: none runs
\* before the creation is done, the answer that ends the creation comes once,
\* and a session whose game is on is not removed.
SessionInv ==
    /\ QueueInv(inFlight, creation, completion)
    /\ creation \in {"none", "snapshot", "lost"} => timers = {}
    /\ creation \in {"none", "lost"} => inFlight = << >> /\ ~active /\ completion = "none"
    /\ creation \notin {"none", "lost"} /\ status = "playing" => active
    /\ completion # "none" => status # "playing"
    /\ TimerMatchesTurn /\ ClockRuns

\* An accepted action of a game that is on, once it is created.
LEMMA ApplyActionInv ==
    ASSUME TypeOK, SessionInv, active, status = "playing",
           turn' \in Players, status' \in Statuses,
           status' # "playing" \/ creation # "snapshot",
           NEW actor, NEW pending, pending \subseteq timers, ApplyAction(actor, pending)
    PROVE  SessionInv'
<1>1. completion = "none" /\ creation \notin {"none", "lost"}
  BY DEF SessionInv
<1>2. ClearTurnTimer(pending) = {}
  BY DEF ClearTurnTimer, SessionInv, TimerMatchesTurn
<1>3. UNCHANGED <<active, creation>>
  BY DEF ApplyAction
<1>4. CASE status' = "playing"
  <2>1. StartTurnTimer({}, "action") /\ MaybeSnapshot /\ UNCHANGED completion
    BY <1>2, <1>4 DEF ApplyAction
  <2>2. QueueInv(inFlight', creation', completion')
    <3>1. CASE SnapshotToRedis("none")
      <4> DEFINE pipeline == [state |-> [count |-> actionCount', turn |-> turn', status |-> status'],
                              next |-> "none"]
      <4>1. actionCount' \in Nat
        BY DEF ApplyAction, TypeOK
      <4>2. pipeline \in Pipeline /\ pipeline.next = "none"
        BY <4>1 DEF Pipeline, Snapshot, Statuses
      <4>3. inFlight' = Append(inFlight, pipeline)
        BY <3>1 DEF SnapshotToRedis
      <4>4. inFlight \in Seq(Pipeline) /\ QueueInv(inFlight, creation, completion)
        BY DEF TypeOK, SessionInv
      <4> HIDE DEF pipeline
      <4>5. QueueInv(Append(inFlight, pipeline), creation, completion)
        BY <1>1, <4>2, <4>4, QueueAppend
      <4> QED BY <1>3, <2>1, <4>3, <4>5
    <3>2. CASE UNCHANGED inFlight
      BY <1>3, <2>1, <3>2 DEF SessionInv
    <3> QED BY <2>1, <3>1, <3>2 DEF MaybeSnapshot
  <2>3. TimerMatchesTurn' /\ ClockRuns'
    BY <1>3, <1>4, <2>1 DEF StartTurnTimer, TimerMatchesTurn, ClockRuns
  <2> QED BY <1>1, <1>3, <1>4, <2>1, <2>2, <2>3 DEF SessionInv
<1>5. CASE status' # "playing"
  <2>1. timers' = {} /\ UNCHANGED inFlight
    BY <1>2, <1>5 DEF ApplyAction
  <2>2. QueueInv(inFlight', creation', completion')
    BY <1>1, <1>3, <2>1 DEF SessionInv, QueueInv
  <2>3. TimerMatchesTurn' /\ ClockRuns'
    BY <1>5, <2>1 DEF TimerMatchesTurn, ClockRuns
  <2> QED BY <1>1, <1>3, <1>5, <2>1, <2>2, <2>3 DEF SessionInv
<1> QED BY <1>4, <1>5

\* An answer of Redis shortens the queue.
LEMMA AnswerInv ==
    ASSUME TypeOK, SessionInv, NEW next, Answer(next), NEW after
    PROVE  QueueInv(inFlight', after, completion)
<1>1. inFlight \in Seq(Pipeline) /\ inFlight # << >> /\ inFlight' = Tail(inFlight)
  BY DEF TypeOK, Answer
<1>2. QueueInv(inFlight, creation, completion)
  BY DEF SessionInv
<1>3. QueueInv(Tail(inFlight), after, completion)
  BY <1>1, <1>2, QueueTail
<1> QED BY <1>1, <1>3

\* SessionInv is inductive when no client acts before the creation is done.
LEMMA SessionInductive ==
    ASSUME EarlyPlay = FALSE, TypeOK, SessionInv, [Next]_vars
    PROVE  SessionInv'
<1>1. CASE CreateGameSession
  <2> DEFINE pipeline == [state |-> [count |-> actionCount', turn |-> turn', status |-> status'],
                          next |-> "startTimer"]
  <2>1. inFlight = << >> /\ timers = {} /\ completion = "none"
    BY <1>1 DEF CreateGameSession, SessionInv
  <2>2. inFlight' = << pipeline >>
    BY <1>1, <2>1 DEF CreateGameSession, SnapshotToRedis
  <2>3. /\ creation' = "snapshot" /\ active' = TRUE
        /\ UNCHANGED <<timers, completion>>
    BY <1>1 DEF CreateGameSession, clock
  <2>4. QueueInv(inFlight', creation', completion')
    BY <2>2, <2>3 DEF QueueInv
  <2> QED BY <2>1, <2>3, <2>4 DEF SessionInv, TimerMatchesTurn, ClockRuns
<1>2. CASE SessionCreated
  <2>1. inFlight # << >> /\ Head(inFlight).next = "startTimer" /\ inFlight \in Seq(Pipeline)
    BY <1>2 DEF SessionCreated, Answer, TypeOK
  <2>2. 1 \in DOMAIN inFlight /\ inFlight[1].next = "startTimer"
    BY <2>1
  <2>3. creation = "snapshot" /\ timers = {}
    BY <2>2 DEF SessionInv, QueueInv
  <2>4. QueueInv(inFlight', "done", completion)
    BY <1>2, AnswerInv DEF SessionCreated
  <2>5. /\ creation' = "done" /\ UNCHANGED <<turn, status, active, completion>>
        /\ IF status = "playing" THEN StartTurnTimer({}, "creation") ELSE timers' = {}
    BY <1>2, <2>3 DEF SessionCreated, state, clock
  <2>6. TimerMatchesTurn' /\ ClockRuns'
    BY <2>3, <2>5 DEF SessionInv, TimerMatchesTurn, ClockRuns, StartTurnTimer
  <2> QED BY <2>3, <2>4, <2>5, <2>6 DEF SessionInv
<1>3. ASSUME NEW p \in Players, PlayerAction(p) PROVE SessionInv'
  <2>1. active /\ creation # "snapshot" /\ ApplyAction(p, timers)
    BY <1>3 DEF PlayerAction
  <2>2. status = "playing"
    BY <1>3 DEF PlayerAction, Game!Play
  <2>3. turn' \in Players /\ status' \in Statuses
    BY <1>3, GameType DEF PlayerAction
  <2> QED BY <2>1, <2>2, <2>3, ApplyActionInv
<1>4. CASE TurnTimerFires
  <2>1. PICK timer \in timers :
          \/ /\ active /\ Game!Forfeit(timer.player)
             /\ ApplyAction(timer.player, timers \ {timer})
          \/ ~(active /\ status = "playing")
    BY <1>4 DEF TurnTimerFires
  <2>2. active /\ status = "playing" /\ creation # "snapshot"
    BY <2>1 DEF SessionInv, TimerMatchesTurn
  <2>3. timer.player \in Players
    BY <2>1 DEF TypeOK, Timer
  <2>4. turn' \in Players /\ status' \in Statuses
    BY <2>1, <2>2, <2>3, GameType
  <2>5. ApplyAction(timer.player, timers \ {timer}) /\ timers \ {timer} \subseteq timers
    BY <2>1, <2>2
  <2> QED BY <2>2, <2>4, <2>5, ApplyActionInv
<1>5. CASE DisconnectTimeout
  <2>1. active /\ status = "playing" /\ status' = "cancelled" /\ ApplyAction(None, timers)
    BY <1>5 DEF DisconnectTimeout, Game!Cancel
  <2>2. turn' \in Players /\ status' \in Statuses
    BY <1>5, GameType DEF DisconnectTimeout
  <2> QED BY <2>1, <2>2, ApplyActionInv
<1>6. CASE SnapshotDone
  <2>1. inFlight # << >> /\ QueueInv(inFlight', creation, completion)
    BY <1>6, AnswerInv DEF SnapshotDone, Answer
  <2>2. UNCHANGED <<turn, status, active, creation, timers, turnTimer, completion>>
    BY <1>6 DEF SnapshotDone, state, clock
  <2> QED BY <2>1, <2>2 DEF SessionInv, TimerMatchesTurn, ClockRuns
\* handleGameCompletion, before its snapshot is answered
<1>7. ASSUME completion \in {"game", "actions"},
             UNCHANGED <<state, active, creation, clock>>,
             \/ completion' = "actions" /\ UNCHANGED inFlight
             \/ completion' = "snapshot" /\ SnapshotToRedis("remove")
      PROVE  SessionInv'
  <2>1. status # "playing" /\ creation \notin {"none", "lost"}
    BY <1>7 DEF SessionInv
  <2>2. UNCHANGED <<turn, status, active, creation, timers, turnTimer>>
    BY <1>7 DEF state, clock
  <2>3. QueueInv(inFlight', creation', completion')
    <3>1. CASE completion' = "actions" /\ UNCHANGED inFlight
      BY <1>7, <2>2, <3>1 DEF SessionInv, QueueInv
    <3>2. CASE completion' = "snapshot" /\ SnapshotToRedis("remove")
      BY <1>7, <3>2, LastSnapshotSent DEF SessionInv
    <3> QED BY <1>7, <3>1, <3>2
  <2> QED BY <2>1, <2>2, <2>3 DEF SessionInv, TimerMatchesTurn, ClockRuns
<1>8. CASE InsertGame
  BY <1>7, <1>8 DEF InsertGame
<1>9. CASE InsertAction
  <2>1. /\ completion = "actions" /\ UNCHANGED <<state, active, creation, clock>>
        /\ \/ UNCHANGED <<completion, inFlight>>
           \/ completion' = "snapshot" /\ SnapshotToRedis("remove")
    BY <1>9 DEF InsertAction
  <2> QED BY <1>7, <2>1
<1>10. CASE RemoveSession
  <2>1. inFlight # << >> /\ Head(inFlight).next = "remove" /\ inFlight' = Tail(inFlight)
    BY <1>10 DEF RemoveSession, Answer
  <2>2. inFlight \in Seq(Pipeline) /\ QueueInv(inFlight, creation, completion)
    BY DEF TypeOK, SessionInv
  <2>3. completion = "snapshot" /\ QueueInv(Tail(inFlight), creation, "done")
    BY <2>1, <2>2, QueueLast
  <2>4. status # "playing" /\ timers = {} /\ creation \notin {"none", "lost"}
    BY <2>3 DEF SessionInv, TimerMatchesTurn
  <2>5. /\ completion' = "done" /\ active' = FALSE
        /\ UNCHANGED <<turn, status, creation, timers>>
    BY <1>10 DEF RemoveSession, state, clock
  <2> QED BY <2>1, <2>3, <2>4, <2>5 DEF SessionInv, TimerMatchesTurn, ClockRuns
<1>11. CASE CleanUp
  <2>1. /\ completion = "done" /\ completion' = "cleaned"
        /\ UNCHANGED <<turn, status, active, creation, timers, turnTimer, inFlight>>
    BY <1>11 DEF CleanUp, state, clock
  <2>2. QueueInv(inFlight', creation', completion')
    BY <2>1 DEF SessionInv, QueueInv
  <2> QED BY <2>1, <2>2 DEF SessionInv, TimerMatchesTurn, ClockRuns
<1>12. CASE Crash
  <2>1. /\ creation' = "lost" /\ active' = FALSE /\ timers' = {}
        /\ inFlight' = << >> /\ completion' = "none"
    BY <1>12 DEF Crash
  <2>2. QueueInv(inFlight', creation', completion')
    BY <2>1 DEF QueueInv
  <2> QED BY <2>1, <2>2 DEF SessionInv, TimerMatchesTurn, ClockRuns
<1>13. CASE RecoverSession
  <2>1. timers = {} /\ inFlight = << >> /\ completion = "none"
    BY <1>13 DEF RecoverSession, SessionInv
  <2>2. /\ creation' = "recovered" /\ active' = TRUE /\ UNCHANGED <<inFlight, completion>>
        /\ IF status' = "playing" THEN StartTurnTimer({}, "recovery") ELSE timers' = {}
    BY <1>13, <2>1 DEF RecoverSession, clock
  <2>3. QueueInv(inFlight', creation', completion')
    BY <2>1, <2>2 DEF QueueInv
  <2>4. TimerMatchesTurn' /\ ClockRuns'
    BY <2>2 DEF TimerMatchesTurn, ClockRuns, StartTurnTimer
  <2> QED BY <2>1, <2>2, <2>3, <2>4 DEF SessionInv
<1>14. CASE UNCHANGED vars
  <2>1. UNCHANGED <<turn, status, active, creation, timers, turnTimer, inFlight, completion>>
    BY <1>14 DEF vars, state, clock
  <2> QED BY <2>1 DEF SessionInv, TimerMatchesTurn, ClockRuns
<1> QED BY <1>1, <1>2, <1>3, <1>4, <1>5, <1>6, <1>8, <1>9, <1>10, <1>11, <1>12,
           <1>13, <1>14 DEF Next

LEMMA SessionInitial == Init => SessionInv
BY DEF Init, Game!Init, SessionInv, QueueInv, TimerMatchesTurn, ClockRuns

\* Whatever Redis, PostgreSQL and a crash do, a timer that can fire is the
\* session's own and forfeits for the player on turn, if no client acts before
\* createGameSession is done.
THEOREM TimerOnTurn ==
    ASSUME EarlyPlay = FALSE
    PROVE  Spec => []TimerMatchesTurn
<1>1. TypeOK /\ SessionInv /\ [Next]_vars => SessionInv'
  BY SessionInductive
<1>2. SessionInv => TimerMatchesTurn
  BY DEF SessionInv
<1> QED BY <1>1, <1>2, SessionInitial, TypeCorrect, PTL DEF Spec

\* And a game that is on never waits without a timer, created or recovered.
THEOREM ClockNeverStops ==
    ASSUME EarlyPlay = FALSE
    PROVE  Spec => []ClockRuns
<1>1. TypeOK /\ SessionInv /\ [Next]_vars => SessionInv'
  BY SessionInductive
<1>2. SessionInv => ClockRuns
  BY DEF SessionInv
<1> QED BY <1>1, <1>2, SessionInitial, TypeCorrect, PTL DEF Spec

(***************************************************************************)
(* What is recorded of a game in which nothing fails.                      *)
(***************************************************************************)

Result == [status |-> status, winner |-> Winner, count |-> actionCount]

\* The rows are a prefix of the log, with no gap.
Prefix(rows, log) ==
    /\ Len(rows) =< Len(log)
    /\ \A i \in 1 .. Len(rows) : rows[i] = log[i]

\* The queries have been answered.
Recorded ==
    /\ Winner \notin AIPlayers => games = Result
    /\ games # None =>
          \/ Len(gameActions) = Len(actionLog)
          \/ \E i \in 1 .. Len(actionLog) : ~Recordable(actionLog[i])

ResultInv ==
    /\ creation \in {"none", "snapshot", "done"}
    /\ creation = "none" => ~active /\ inFlight = << >> /\ completion = "none"
    /\ QueueInv(inFlight, creation, completion)
    /\ completion = "none" => status = "playing"
    /\ completion # "none" => status # "playing" /\ Len(actionLog) > 0
    /\ completion \in {"none", "game"} => games = None /\ gameActions = << >>
    /\ Prefix(gameActions, actionLog)
    /\ completion = "actions" => games = Result /\ Len(gameActions) < Len(actionLog)
    /\ completion = "snapshot" => LastSent(inFlight)
    /\ completion \in {"snapshot", "done", "cleaned"} => Recorded
    /\ completion \in {"done", "cleaned"} => ~active /\ inFlight = << >>
    /\ completion = "done" => saved = FinalState

\* What is recorded is the log, or what precedes the first action of no user.
LEMMA ResultInvGives ==
    ASSUME TypeOK, ResultInv
    PROVE  ResultRecorded /\ FinalStateKept
<1>1. ASSUME completion \in {"snapshot", "done", "cleaned"}
      PROVE  /\ Winner \notin AIPlayers =>
                   games = [status |-> status, winner |-> Winner, count |-> actionCount]
             /\ gameActions = SubSeq(actionLog, 1, Len(gameActions))
             /\ games # None /\ (\A i \in DOMAIN actionLog : Recordable(actionLog[i]))
                   => gameActions = actionLog
  <2>1. /\ gameActions \in Seq(Players \cup {None}) /\ actionLog \in Seq(Players \cup {None})
        /\ Recorded /\ Prefix(gameActions, actionLog)
    BY <1>1 DEF TypeOK, ResultInv
  <2>2. Len(gameActions) \in Nat /\ Len(actionLog) \in Nat /\ DOMAIN actionLog = 1 .. Len(actionLog)
    BY <2>1
  <2>3. gameActions = SubSeq(actionLog, 1, Len(gameActions))
    <3> DEFINE s == SubSeq(actionLog, 1, Len(gameActions))
    <3>1. /\ s \in Seq(Players \cup {None}) /\ Len(s) = Len(gameActions)
          /\ \A i \in 1 .. Len(gameActions) : s[i] = actionLog[i]
      BY <2>1, <2>2 DEF Prefix
    <3>2. \A i \in 1 .. Len(gameActions) : s[i] = gameActions[i]
      BY <2>1, <3>1 DEF Prefix
    <3> HIDE DEF s
    <3> QED BY <2>1, <3>1, <3>2, SeqEqual
  <2>4. Len(gameActions) = Len(actionLog) => gameActions = actionLog
    BY <2>1, <2>2, SeqEqual DEF Prefix
  <2> QED BY <2>1, <2>2, <2>3, <2>4 DEF Recorded, Result
<1>2. ResultRecorded
  BY <1>1 DEF ResultRecorded
<1>3. FinalStateKept
  BY DEF FinalStateKept, ResultInv, FinalState
<1> QED BY <1>2, <1>3

\* An action: the game goes on, or its end begins to be recorded.
LEMMA ApplyActionRecords ==
    ASSUME TypeOK, ResultInv, active, status = "playing",
           turn' \in Players, status' \in Statuses, NEW actor, actor \in Players \cup {None},
           NEW pending, ApplyAction(actor, pending)
    PROVE  ResultInv'
<1>1. completion = "none" /\ creation # "none" /\ games = None /\ gameActions = << >>
  BY DEF ResultInv
<1>2. /\ UNCHANGED <<active, creation, games, gameActions, saved>>
      /\ actionLog' = Append(actionLog, actor) /\ actionCount' = actionCount + 1
      /\ \/ status' = "playing" /\ MaybeSnapshot /\ UNCHANGED completion
         \/ status' # "playing" /\ completion' = "game" /\ UNCHANGED inFlight
  BY DEF ApplyAction, tables
<1>3. Len(actionLog') > 0 /\ Len(actionLog') \in Nat
  BY <1>2 DEF TypeOK
<1>4. inFlight \in Seq(Pipeline) /\ QueueInv(inFlight, creation, "none")
  BY <1>1 DEF TypeOK, ResultInv
<1>5. QueueInv(inFlight', creation', completion')
  <2>1. CASE SnapshotToRedis("none") /\ completion' = "none"
    <3> DEFINE pipeline == [state |-> [count |-> actionCount', turn |-> turn', status |-> status'],
                            next |-> "none"]
    <3>1. pipeline \in Pipeline /\ pipeline.next = "none"
      BY <1>2 DEF TypeOK, Pipeline, Snapshot, Statuses
    <3>2. inFlight' = Append(inFlight, pipeline)
      BY <2>1 DEF SnapshotToRedis
    <3> HIDE DEF pipeline
    <3>3. QueueInv(Append(inFlight, pipeline), creation, "none")
      BY <1>4, <3>1, QueueAppend
    <3> QED BY <1>2, <2>1, <3>2, <3>3
  <2>2. CASE UNCHANGED inFlight
    <3>1. completion' \in {"none", "game"}
      BY <1>1, <1>2
    <3> QED BY <1>2, <1>4, <2>2, <3>1 DEF QueueInv
  <2> QED BY <1>1, <1>2, <2>1, <2>2 DEF MaybeSnapshot
<1>6. Prefix(gameActions', actionLog')
  BY <1>1, <1>2, <1>3 DEF Prefix
<1>7. completion' \in {"none", "game"} /\ (completion' = "none" <=> status' = "playing")
  BY <1>1, <1>2
<1> QED BY <1>1, <1>2, <1>3, <1>5, <1>6, <1>7 DEF ResultInv

\* An answer leaves the last pipeline, unless it is the one answered.
LEMMA AnswerRecords ==
    ASSUME TypeOK, ResultInv, NEW next, next # "remove", Answer(next), NEW after,
           after \in {"snapshot", "done"}, creation' = after,
           UNCHANGED <<state, active, completion, tables>>
    PROVE  ResultInv' /\ (next = "startTimer" => creation = "snapshot")
<1>1. /\ inFlight \in Seq(Pipeline) /\ inFlight # << >> /\ inFlight' = Tail(inFlight)
      /\ Head(inFlight).next = next
  BY DEF TypeOK, Answer
<1>2. 1 \in DOMAIN inFlight /\ inFlight[1] = Head(inFlight) /\ Len(inFlight) \in Nat
  BY <1>1
<1>3. QueueInv(inFlight', after, completion) /\ (next = "startTimer" => creation = "snapshot")
  BY <1>1, <1>2, QueueTail DEF ResultInv, QueueInv
<1>4. /\ UNCHANGED <<status, turn, actionCount, actionLog, active, completion, games, gameActions>>
      /\ FinalState' = FinalState /\ Result' = Result /\ Winner' = Winner
  BY DEF state, tables, FinalState, Result, Winner
<1>5. LastSent(inFlight) => LastSent(inFlight)'
  <2>1. SUFFICES ASSUME LastSent(inFlight) PROVE LastSent(inFlight)'
    OBVIOUS
  <2>2. inFlight[Len(inFlight)].next = "remove"
    BY <2>1 DEF LastSent
  <2>3. Len(inFlight) > 1
    BY <1>1, <1>2, <2>2
  <2>4. Tail(inFlight) # << >> /\ Tail(inFlight)[Len(Tail(inFlight))] = inFlight[Len(inFlight)]
    <3> DEFINE rest == Tail(inFlight)  n == Len(inFlight)
    <3>1. Len(rest) = n - 1 /\ \A i \in 1 .. n - 1 : rest[i] = inFlight[i + 1]
      BY <1>1
    <3>2. n \in Nat /\ n > 1
      BY <1>2, <2>3
    <3>3. Len(<< >>) = 0
      OBVIOUS
    <3> HIDE DEF rest, n
    <3>4. n - 1 \in 1 .. n - 1 /\ (n - 1) + 1 = n /\ n - 1 # 0
      BY <3>2
    <3>5. rest # << >> /\ rest[Len(rest)] = inFlight[n]
      BY <3>1, <3>3, <3>4
    <3> QED BY <3>5 DEF rest, n
  <2> QED BY <1>1, <1>4, <2>1, <2>4 DEF LastSent
<1>6. completion \notin {"done", "cleaned"}
  BY <1>1 DEF ResultInv
<1>7. Recorded => Recorded'
  BY <1>4 DEF Recorded
<1>8. completion = "snapshot" => LastSent(inFlight)'
  BY <1>5 DEF ResultInv
<1>9. completion \in {"snapshot", "done", "cleaned"} => Recorded'
  BY <1>7 DEF ResultInv
<1>10. Prefix(gameActions', actionLog')
  BY <1>4 DEF ResultInv
<1>11. completion = "actions" => games' = Result' /\ Len(gameActions') < Len(actionLog')
  BY <1>4 DEF ResultInv
<1>12. /\ completion' = "none" => status' = "playing"
       /\ completion' # "none" => status' # "playing" /\ Len(actionLog') > 0
       /\ completion' \in {"none", "game"} => games' = None /\ gameActions' = << >>
  BY <1>4 DEF ResultInv
<1> QED BY <1>3, <1>4, <1>6, <1>8, <1>9, <1>10, <1>11, <1>12 DEF ResultInv

\* The result is inserted, or cannot be.
LEMMA InsertGameRecords ==
    ASSUME TypeOK, ResultInv, InsertGame, ~StepFails
    PROVE  ResultInv'
<1>1. /\ completion = "game" /\ games = None /\ gameActions = << >> /\ status # "playing"
      /\ Len(actionLog) > 0 /\ creation # "none"
      /\ UNCHANGED <<status, turn, actionCount, actionLog, active, creation, saved, gameActions>>
  BY DEF InsertGame, ResultInv, state
<1>2. FinalState' = FinalState /\ Result' = Result /\ Winner' = Winner
  BY <1>1 DEF FinalState, Result, Winner
<1>3. QueueInv(inFlight, creation, completion)
  BY DEF ResultInv
<1>4. CASE games' = Result /\ completion' = "actions" /\ UNCHANGED inFlight
  <2>1. QueueInv(inFlight', creation', completion')
    BY <1>1, <1>3, <1>4 DEF QueueInv
  <2> QED BY <1>1, <1>2, <1>4, <2>1 DEF ResultInv, Prefix
<1>5. CASE completion' = "snapshot" /\ UNCHANGED games /\ SnapshotToRedis("remove")
  <2>1. QueueInv(inFlight', creation', completion') /\ LastSent(inFlight)'
    <3>1. UNCHANGED <<state, creation>>
      BY DEF InsertGame
    <3> QED BY <1>1, <1>3, <1>5, <3>1, LastSnapshotSent
  <2>2. Winner \in AIPlayers
    BY <1>1, <1>5 DEF StepFails
  <2>3. Recorded'
    BY <1>1, <1>2, <1>5, <2>2 DEF Recorded
  <2>4. Prefix(gameActions', actionLog')
    BY <1>1 DEF Prefix, ResultInv
  <2> QED BY <1>1, <1>2, <1>5, <2>1, <2>3, <2>4 DEF ResultInv
<1> QED BY <1>4, <1>5 DEF InsertGame, Result

\* A row more, or an action of no user: the log ends there.
LEMMA InsertActionRecords ==
    ASSUME TypeOK, ResultInv, InsertAction, ~StepFails
    PROVE  ResultInv'
<1>1. /\ completion = "actions" /\ games = Result /\ status # "playing" /\ Len(actionLog) > 0
      /\ Prefix(gameActions, actionLog) /\ Len(gameActions) < Len(actionLog)
      /\ creation # "none" /\ creation \in {"none", "snapshot", "done"}
      /\ UNCHANGED <<status, turn, actionCount, actionLog, active, creation, saved, games>>
  BY DEF InsertAction, ResultInv, state
<1>2. FinalState' = FinalState /\ Result' = Result /\ Winner' = Winner
  BY <1>1 DEF FinalState, Result, Winner
<1>3. /\ QueueInv(inFlight, creation, completion)
      /\ gameActions \in Seq(Players) /\ actionLog \in Seq(Players \cup {None})
      /\ Len(gameActions) \in Nat /\ Len(actionLog) \in Nat
  BY DEF ResultInv, TypeOK
<1> DEFINE actor == actionLog[Len(gameActions) + 1]
<1>4. completion' = "snapshot" /\ SnapshotToRedis("remove") =>
          QueueInv(inFlight', creation', completion') /\ LastSent(inFlight)'
  <2>1. UNCHANGED <<state, creation>>
    BY DEF InsertAction
  <2> QED BY <1>1, <1>3, <2>1, LastSnapshotSent
<1>5. CASE /\ Recordable(actor) /\ gameActions' = Append(gameActions, actor)
           /\ IF Len(gameActions') = Len(actionLog)
              THEN completion' = "snapshot" /\ SnapshotToRedis("remove")
              ELSE UNCHANGED <<completion, inFlight>>
  <2>1. Len(gameActions') = Len(gameActions) + 1
    BY <1>3, <1>5
  <2>2. Prefix(gameActions', actionLog')
    BY <1>1, <1>3, <1>5 DEF Prefix
  <2>3. CASE completion' = "snapshot" /\ SnapshotToRedis("remove") /\ Len(gameActions') = Len(actionLog)
    <3>1. Recorded'
      BY <1>1, <1>2, <2>3 DEF Recorded
    <3> QED BY <1>1, <1>4, <2>2, <2>3, <3>1 DEF ResultInv
  <2>4. CASE UNCHANGED <<completion, inFlight>> /\ Len(gameActions') # Len(actionLog)
    <3>1. QueueInv(inFlight', creation', completion')
      BY <1>1, <1>3, <2>4
    <3>2. Len(gameActions') < Len(actionLog')
      BY <1>1, <1>3, <2>1, <2>4
    <3> QED BY <1>1, <1>2, <2>2, <2>4, <3>1, <3>2 DEF ResultInv
  <2> QED BY <1>5, <2>3, <2>4
<1>6. CASE /\ ~Recordable(actor) /\ completion' = "snapshot" /\ SnapshotToRedis("remove")
           /\ UNCHANGED gameActions
  <2>1. Len(gameActions) + 1 \in 1 .. Len(actionLog)
    BY <1>1, <1>3
  <2>2. Recorded'
    BY <1>1, <1>2, <1>6, <2>1 DEF Recorded
  <2>3. Prefix(gameActions', actionLog')
    BY <1>1, <1>6
  <2> QED BY <1>1, <1>4, <1>6, <2>2, <2>3 DEF ResultInv
<1>7. \/ Recordable(actor) /\ gameActions' = Append(gameActions, actor)
      \/ ~Recordable(actor) /\ UNCHANGED gameActions
  BY <1>1 DEF InsertAction, StepFails
<1> QED BY <1>5, <1>6 DEF InsertAction, StepFails

\* The last answer removes the session: Redis holds the final state.
LEMMA RemoveSessionRecords ==
    ASSUME TypeOK, ResultInv, RemoveSession, ~StepFails
    PROVE  ResultInv'
<1>1. /\ inFlight \in Seq(Pipeline) /\ inFlight # << >> /\ Head(inFlight).next = "remove"
      /\ inFlight' = Tail(inFlight) /\ saved' = Head(inFlight).state
  BY DEF TypeOK, RemoveSession, Answer, StepFails
<1>2. 1 \in DOMAIN inFlight /\ inFlight[1] = Head(inFlight) /\ Len(inFlight) \in Nat
  BY <1>1
<1>3. Len(inFlight) = 1 /\ completion = "snapshot"
  BY <1>1, <1>2 DEF ResultInv, QueueInv
<1>4. Tail(inFlight) = << >>
  BY <1>1, <1>3
<1>5. saved' = FinalState
  BY <1>1, <1>2, <1>3 DEF ResultInv, LastSent
<1>6. /\ UNCHANGED <<status, turn, actionCount, actionLog, creation, games, gameActions>>
      /\ completion' = "done" /\ active' = FALSE /\ inFlight' = << >>
  BY <1>1, <1>4 DEF RemoveSession, state, tables
<1>7. FinalState' = FinalState /\ Result' = Result /\ Winner' = Winner
  BY <1>6 DEF FinalState, Result, Winner
<1>8. Recorded' /\ Prefix(gameActions', actionLog')
  BY <1>3, <1>6, <1>7 DEF ResultInv, Recorded
<1>9. QueueInv(inFlight', creation', completion')
  BY <1>6 DEF QueueInv
<1>10. status # "playing" /\ Len(actionLog) > 0 /\ creation \in {"snapshot", "done"}
  BY <1>3 DEF ResultInv
<1> QED BY <1>5, <1>6, <1>7, <1>8, <1>9, <1>10 DEF ResultInv

\* ResultInv is inductive as long as no step fails.
LEMMA RecordInductive ==
    ASSUME TypeOK, ResultInv, [Next]_vars, ~StepFails
    PROVE  ResultInv'
<1>1. CASE CreateGameSession
  <2> DEFINE pipeline == [state |-> [count |-> actionCount', turn |-> turn', status |-> status'],
                          next |-> "startTimer"]
  <2>1. inFlight = << >> /\ completion = "none"
    BY <1>1 DEF CreateGameSession, ResultInv
  <2>2. inFlight' = << pipeline >>
    BY <1>1, <2>1 DEF CreateGameSession, SnapshotToRedis
  <2>3. /\ creation' = "snapshot"
        /\ UNCHANGED <<status, actionLog, completion, games, gameActions>>
    BY <1>1 DEF CreateGameSession, state, tables
  <2>4. QueueInv(inFlight', creation', completion')
    BY <2>2, <2>3 DEF QueueInv
  <2> QED BY <2>1, <2>3, <2>4 DEF ResultInv
<1>2. CASE SessionCreated
  <2>1. /\ Answer("startTimer") /\ creation' = "done"
        /\ UNCHANGED <<state, active, completion, tables>>
    BY <1>2 DEF SessionCreated
  <2> QED BY <2>1, AnswerRecords
<1>3. ASSUME NEW p \in Players, PlayerAction(p) PROVE ResultInv'
  <2>1. active /\ status = "playing" /\ ApplyAction(p, timers)
    BY <1>3 DEF PlayerAction, Game!Play
  <2>2. turn' \in Players /\ status' \in Statuses
    BY <1>3, GameType DEF PlayerAction
  <2>3. p \in Players \cup {None}
    OBVIOUS
  <2> QED BY <2>1, <2>2, <2>3, ApplyActionRecords
<1>4. CASE TurnTimerFires
  <2>1. PICK timer \in timers :
          \/ /\ active /\ Game!Forfeit(timer.player)
             /\ ApplyAction(timer.player, timers \ {timer})
          \/ UNCHANGED <<state, active, creation, inFlight, completion, saved, tables>>
    BY <1>4 DEF TurnTimerFires
  <2>2. CASE /\ active /\ Game!Forfeit(timer.player)
             /\ ApplyAction(timer.player, timers \ {timer})
    <3>1. timer.player \in Players
      BY DEF TypeOK, Timer
    <3>2. turn' \in Players /\ status' \in Statuses
      BY <2>2, <3>1, GameType
    <3>3. status = "playing" /\ timer.player \in Players \cup {None}
      BY <2>2, <3>1 DEF Game!Forfeit
    <3> QED BY <2>2, <3>2, <3>3, ApplyActionRecords
  <2>3. CASE UNCHANGED <<state, active, creation, inFlight, completion, saved, tables>>
    BY <2>3 DEF state, tables, ResultInv, LastSent, FinalState, Recorded, Result, Winner
  <2> QED BY <2>1, <2>2, <2>3
<1>5. CASE DisconnectTimeout
  <2>1. active /\ status = "playing" /\ ApplyAction(None, timers)
    BY <1>5 DEF DisconnectTimeout, Game!Cancel
  <2>2. turn' \in Players /\ status' \in Statuses
    BY <1>5, GameType DEF DisconnectTimeout
  <2>3. None \in Players \cup {None}
    OBVIOUS
  <2> QED BY <2>1, <2>2, <2>3, ApplyActionRecords
<1>6. CASE SnapshotDone
  <2>1. /\ Answer("none") /\ creation' = creation
        /\ UNCHANGED <<state, active, completion, tables>>
    BY <1>6 DEF SnapshotDone
  <2>2. inFlight # << >>
    BY <2>1 DEF Answer
  <2>3. creation \in {"snapshot", "done"}
    BY <2>2 DEF ResultInv
  <2> QED BY <2>1, <2>3, AnswerRecords
<1>7. CASE InsertGame
  BY <1>7, InsertGameRecords
<1>8. CASE InsertAction
  BY <1>8, InsertActionRecords
<1>9. CASE RemoveSession
  BY <1>9, RemoveSessionRecords
<1>10. CASE CleanUp
  <2>1. /\ completion = "done" /\ completion' = "cleaned"
        /\ UNCHANGED <<status, turn, actionCount, actionLog, active, creation, inFlight,
                       games, gameActions>>
    BY <1>10 DEF CleanUp, state, tables
  <2>2. Recorded' /\ Prefix(gameActions', actionLog')
    BY <2>1 DEF ResultInv, Recorded, Result, Winner
  <2>3. QueueInv(inFlight', creation', completion')
    BY <2>1 DEF ResultInv, QueueInv
  <2> QED BY <2>1, <2>2, <2>3 DEF ResultInv
<1>11. CASE Crash
  BY <1>11 DEF Crash, StepFails
<1>12. CASE RecoverSession
  BY <1>12 DEF RecoverSession, ResultInv
<1>13. CASE UNCHANGED vars
  BY <1>13 DEF vars, state, tables, ResultInv, LastSent, FinalState, Recorded, Result, Winner
<1> QED BY <1>1, <1>2, <1>3, <1>4, <1>5, <1>6, <1>7, <1>8, <1>9, <1>10, <1>11, <1>12,
           <1>13 DEF Next

LEMMA RecordInitial == Init => ResultInv
BY DEF Init, Game!Init, ResultInv, QueueInv, Prefix

\* A game in which nothing fails, with early clients and AI players or without.
THEOREM RecordStaysKept == MCSpec => []RecordKept
<1> DEFINE Inv == scenario = "result" => ResultInv
<1>1. MCSpec => Spec
  <2>1. MCInit => Init
    BY DEF MCInit
  <2>2. [In(Next)]_mcVars => [Next]_vars
    BY DEF In, mcVars
  <2> QED BY <2>1, <2>2, PTL DEF MCSpec, Spec
<1>2. MCInit => Inv
  BY RecordInitial DEF MCInit
<1>3. TypeOK /\ Inv /\ [In(Next)]_mcVars => Inv'
  <2>1. SUFFICES ASSUME TypeOK, Inv, [In(Next)]_mcVars, scenario' = "result"
                 PROVE  ResultInv'
    OBVIOUS
  <2>2. CASE In(Next)
    <3>1. scenario = "result" /\ ~StepFails /\ Next
      BY <2>1, <2>2 DEF In
    <3> QED BY <2>1, <3>1, RecordInductive
  <2>3. CASE UNCHANGED mcVars
    <3>1. scenario = "result" /\ UNCHANGED vars
      BY <2>1, <2>3 DEF mcVars
    <3> QED BY <2>1, <3>1 DEF vars, state, tables, ResultInv, LastSent, FinalState, Recorded, Result, Winner
  <2> QED BY <2>1, <2>2, <2>3
<1>4. TypeOK /\ Inv => RecordKept
  BY ResultInvGives DEF RecordKept
<1> HIDE DEF Inv
<1> QED BY <1>1, <1>2, <1>3, <1>4, TypeCorrect, PTL DEF MCSpec

=============================================================================
