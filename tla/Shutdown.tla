------------------------------ MODULE Shutdown ------------------------------
(***************************************************************************)
(* The orderly end of a server process (createShutdownHandler of           *)
(* server.ts) while games are played and while games that are over are     *)
(* being recorded.  The handler awaits one part after the other; the       *)
(* sessions, their timers and their queries go on in between.              *)
(***************************************************************************)
EXTENDS Integers, Sequences, FiniteSets, SequencesExt

CONSTANTS
    Matches,         \* the games in memory
    DueAfter,        \* GAME_SNAPSHOT_INTERVAL_ACTIONS
    MaxVersion,      \* bound: no game sees more actions
    MaxErrors,       \* bound on the errors of Redis and PostgreSQL
    NoVersion

ASSUME ShutdownAssumption ==
    /\ IsFiniteSet(Matches) /\ NoVersion \notin Nat
    /\ DueAfter \in Nat /\ MaxVersion \in Nat /\ MaxErrors \in Nat

VARIABLES
    phase,           \* how far the handler is
    version,         \* state.actionCount of each game
    step,            \* how far handleGameCompletion is with each game
    inMemory,        \* the games in activeSessions
    wire,            \* the pipelines Redis has not answered, in order
    snapshotOf,      \* the version Redis holds of each game
    lastSnapshot,    \* session.lastSnapshotActionCount
    rows,            \* rows inserted: that of games, then those of game_actions
    atSignal,        \* history: the version in memory when the signal arrived
    failed           \* history: the games a command or a query failed for

shutdownVars == <<phase, version, step, inMemory, wire, snapshotOf, lastSnapshot,
                  rows, atSignal, failed>>

ShutdownInit ==
    /\ phase = "serving"
    /\ version = [g \in Matches |-> 0] /\ step = [g \in Matches |-> "on"]
    /\ inMemory = Matches
    /\ wire = << >>
    /\ snapshotOf = [g \in Matches |-> 0] /\ lastSnapshot = [g \in Matches |-> 0]
    /\ rows = [g \in Matches |-> 0]
    /\ atSignal = [g \in Matches |-> NoVersion]
    /\ failed = {}

MayFail(g) == Cardinality(failed \cup {g}) =< MaxErrors

-----------------------------------------------------------------------------
(* The games, up to the end of the process.                                *)

Running == phase # "exited"

Pipeline(g, count, next) == [game |-> g, count |-> count, next |-> next]

\* snapshotToRedis: without a client the error is logged
SnapshotToRedis(g, count, next) ==
    wire' = IF phase = "quitting" THEN wire ELSE Append(wire, Pipeline(g, count, next))

\* applyAction, for a client, the AI controller or a turn timer; the 30 seconds
\* of maybeSnapshot may have passed at any action
ApplyAction(g) ==
    /\ Running /\ g \in inMemory
    /\ step[g] = "on" /\ version[g] < MaxVersion
    /\ version' = [version EXCEPT ![g] = @ + 1]
    /\ \/ /\ UNCHANGED step
          /\ \/ SnapshotToRedis(g, version'[g], "none")
             \/ version'[g] - lastSnapshot[g] < DueAfter /\ UNCHANGED wire
       \/ step' = [step EXCEPT ![g] = "persist"] /\ UNCHANGED wire
    /\ UNCHANGED <<phase, inMemory, snapshotOf, lastSnapshot, rows, atSignal, failed>>

\* persistGameResult is over, or ended by an error: the last snapshot is sent.
\* Without a Redis client nothing is awaited.
LastSnapshot(g) ==
    /\ SnapshotToRedis(g, version[g], "remove")
    /\ step' = [step EXCEPT ![g] = IF phase = "quitting" THEN "removed" ELSE "snapshot"]
    /\ inMemory' = IF phase = "quitting" THEN inMemory \ {g} ELSE inMemory

\* PostgreSQL answers the query in flight.  The pool that is ended takes no
\* query after it.
QueryAnswered(g) ==
    /\ Running /\ step[g] = "persist"
    /\ \/ /\ rows' = [rows EXCEPT ![g] = @ + 1]
          /\ IF rows'[g] = 1 + version[g] \/ phase \in {"draining", "quitting"}
             THEN LastSnapshot(g)
             ELSE UNCHANGED <<wire, step, inMemory>>
          /\ UNCHANGED failed
       \/ /\ MayFail(g) /\ failed' = failed \cup {g}
          /\ LastSnapshot(g)
          /\ UNCHANGED rows
    /\ UNCHANGED <<phase, version, snapshotOf, lastSnapshot, atSignal>>

\* lastSnapshotActionCount is read from the session when the answer comes
Counted(g) == lastSnapshot' = [lastSnapshot EXCEPT ![g] = version[g]]

\* Redis answers the oldest pipeline: written, failed inside the pipeline, or
\* not answered at all.  With the answer to the last snapshot of a game the
\* session is removed.
PipelineAnswered ==
    /\ Running /\ wire # << >> /\ wire' = Tail(wire)
    /\ LET sent == Head(wire)
           g == sent.game
       IN  /\ \/ snapshotOf' = [snapshotOf EXCEPT ![g] = sent.count]
                 /\ Counted(g) /\ UNCHANGED failed
              \/ /\ MayFail(g) /\ failed' = failed \cup {g}
                 /\ UNCHANGED snapshotOf
                 /\ Counted(g) \/ UNCHANGED lastSnapshot
           /\ IF sent.next = "remove"
              THEN step' = [step EXCEPT ![g] = "removed"] /\ inMemory' = inMemory \ {g}
              ELSE UNCHANGED <<step, inMemory>>
    /\ UNCHANGED <<phase, version, rows, atSignal>>

\* The keys of a game are deleted a minute after it was removed; no server is
\* left so much time once it is told to stop.
CleanUp(g) ==
    /\ Running /\ phase # "quitting"
    /\ step[g] = "removed" /\ (phase = "serving" \/ atSignal[g] = NoVersion)
    /\ step' = [step EXCEPT ![g] = "cleaned"]
    /\ snapshotOf' = [snapshotOf EXCEPT ![g] = NoVersion]
    /\ UNCHANGED <<phase, version, inMemory, wire, lastSnapshot, rows, atSignal, failed>>

-----------------------------------------------------------------------------
(* The handler.                                                            *)

SnapshotsSent(games) ==
    wire \o SetToSeq({Pipeline(g, version[g], "shutdown") : g \in games})

\* Mutant: only the games a snapshot is due for.
MutantOnlyDue ==
    /\ phase = "serving"
    /\ phase' = "snapshotting"
    /\ atSignal' = [g \in Matches |-> IF g \in inMemory THEN version[g] ELSE NoVersion]
    /\ wire' = SnapshotsSent({g \in inMemory : version[g] - lastSnapshot[g] >= DueAfter})
    /\ UNCHANGED <<version, step, inMemory, snapshotOf, lastSnapshot, rows, failed>>

\* SIGTERM or SIGINT, the first time: the clients are told and every game in
\* memory is snapshotted (shutdownRealtimeModule, snapshotAllSessions).  A
\* second signal does nothing.
Signal ==
    /\ phase = "serving"
    /\ phase' = "snapshotting"
    /\ atSignal' = [g \in Matches |-> IF g \in inMemory THEN version[g] ELSE NoVersion]
    /\ wire' = SnapshotsSent(inMemory)
    /\ UNCHANGED <<version, step, inMemory, snapshotOf, lastSnapshot, rows, failed>>

\* All are answered, written or not; the Socket.IO server is closed next.
SnapshotsSettled ==
    /\ phase = "snapshotting"
    /\ \A i \in DOMAIN wire : wire[i].next # "shutdown"
    /\ phase' = "closing"
    /\ UNCHANGED <<version, step, inMemory, wire, snapshotOf, lastSnapshot, rows,
                   atSignal, failed>>

\* The sockets are closed, then the HTTP server: resetSessionManager forgets
\* every session and its timer, and closePool ends the pool.
ServersClosed ==
    /\ phase = "closing"
    /\ phase' = "draining"
    /\ inMemory' = {}
    /\ UNCHANGED <<version, step, wire, snapshotOf, lastSnapshot, rows, atSignal, failed>>

\* The queries in flight are answered, or three seconds have passed: QUIT is
\* sent to Redis, behind the pipelines (closeRedisClients).
PoolDrained ==
    /\ phase = "draining"
    /\ phase' = "quitting"
    /\ UNCHANGED <<version, step, inMemory, wire, snapshotOf, lastSnapshot, rows,
                   atSignal, failed>>

\* Redis has answered QUIT, and with it all before it: process.exit(0)
Exit ==
    /\ phase = "quitting" /\ wire = << >>
    /\ phase' = "exited"
    /\ UNCHANGED <<version, step, inMemory, wire, snapshotOf, lastSnapshot, rows,
                   atSignal, failed>>

ShutdownNext ==
    \/ \E g \in Matches : ApplyAction(g) \/ QueryAnswered(g) \/ CleanUp(g)
    \/ PipelineAnswered
    \/ Signal \/ SnapshotsSettled \/ ServersClosed \/ PoolDrained \/ Exit

ShutdownSpec == ShutdownInit /\ [][ShutdownNext]_shutdownVars

-----------------------------------------------------------------------------
(* Properties.                                                             *)

\* A process told to stop loses no game, unless a command or a query failed:
\* what was in memory at the signal is in Redis at least as it was then, the
\* final state of a game that was over included, although its result may be
\* cut short in PostgreSQL; what was not in memory any more had been recorded
\* completely.  (Actions accepted after the signal may be lost.)
ShutdownKeepsGames ==
    phase = "exited" =>
        \A g \in Matches \ failed :
            IF atSignal[g] = NoVersion THEN rows[g] = 1 + version[g]
                                    ELSE snapshotOf[g] # NoVersion /\ snapshotOf[g] >= atSignal[g]
=============================================================================
