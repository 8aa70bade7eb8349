# Sbobuz: a TLA+ model of the game server and its clients

Sbobuz is a card game for 2 to 5 players. The repository holds a Node server
(`server/src`), a Next.js client (`app/src`), shared types (`shared/types`) and
the specifications the code was written from (`SBOBUZ_ENGINE_SPEC.md`,
`docs/specs/`). This directory models the server's own logic, and the part of
the client that keeps its state, in TLA+; it checks the models with TLC on small
instances, and proves with TLAPS every safety invariant that the passing runs
check: those of the engine for every deck and every number of players, those of
the session manager, the lobby, presence, the AI, the clients and the services for
every number of users, requests and faults.

All paths below are relative to `server/src/modules/` unless said otherwise.

## 1. Inventory

| Component | State it keeps | Operations | What is hard | What makes it correct |
|---|---|---|---|---|
| Game engine (`game-engine/reducer.ts`, `validator.ts` and helpers) | `GameState`: piles, zones, turn, direction, two flags, phase | PLAY_CARDS, PLAY_BLIND, PICK_UP_PILE, DECLARE_DIRECTION, TIMEOUT_FORFEIT, CANCEL_GAME | long sequences of legal actions; effects that override each other; flags that outlive a turn | cards conserved, flags and phase fit the pile, turn order, zones in order, nobody stuck |
| Legal-move enumerator (`legal-moves.ts`), board (`app/src/components/game`) | none | `enumerateLegalMoves`; the controls | repeat the validator's rules | list what is accepted, offer all of it |
| Starting player and shuffle (`starting-player.ts`, `rng.ts`) | none | `determineStartingPlayer`, `shuffle` | ties, jokers, ends of ranges | lowest hand starts, no order of the cards is favoured |
| Session manager (`session-manager.ts`) | sessions and timers in memory, snapshots in Redis, results in PostgreSQL | create, apply, time out, snapshot, complete, recover, broadcast | actions during awaits, timers overwritten, snapshots in flight, crash | one timer per game, for the player on turn; what is saved is what was played; everybody hears of the end |
| Connections and presence (`realtime/`) | socket per user, grace timers, Redis keys | register, disconnect, sweep, join, leave, heartbeat, grace period | superseded sockets, reconnects racing the grace timer | memory, Redis and timers agree; who stays away is removed |
| Lobby (`lobby/`) | rooms and the users' current rooms in Redis, archive in PostgreSQL | create, join, leave, ready, start, AI players, settings, list | read-change-write without a lock, two keys per membership | capacity, host and status sound; one game per room; no lost join |
| AI controller (`ai/controller.ts`) | registry of AI players, delayed moves | turn notification, submit, retry, follow-up | two notifications for one turn, moves from an older state | every AI turn is asked for and played |
| AI worker pool (`ai/worker-pool.ts`) | workers, queue, pending requests | compute, answer, time out, crash, shut down | late answers, crashed workers, replacements that fail to start | every request is settled, no worker gets two |
| Authentication (`auth/`, `app/src/lib/api-client.ts`) | account, sessions and refresh tokens; cookie and access token in the browser | register, login, guest, refresh, logout | rotation in several steps of which any may fail, calls of a tab that overlap | an honest user never presents a token twice |
| Leaderboard (`leaderboard/`) | ratings and match results in PostgreSQL | process a result, rankings | absolute writes, statements that fail between | rows and history agree |
| Rate limiters (`../infra/websocket`, `../shared/middleware`) | sliding windows | check | equal timestamps, boundaries, commands that fail | at most the limit in any window |
| Migrator (`../infra/database/migrator.ts`) | `schema_migrations` | run, roll back | several instances at once, failures | one serves, and only on the full schema |
| Server shutdown (`../server.ts`) | how far it is | signal, snapshots, close | games played and recorded meanwhile | no game in memory is lost |
| Client stores (`app/src/stores`, `app/src/hooks`) | last room and game shown, lock of the controls | updates, answers, submission, reconnection | stale, reordered and missing updates | never goes back, shows what happened, never stays locked |
| Infrastructure plumbing, rendering | | | | not modelled |

How they interact: the lobby's `startGame` handler creates a session and tells
the AI controller; players' `game:action` events (and the AI controller) call
`applyAction`, which runs the pure engine in one synchronous call, restarts the
turn timer, snapshots to Redis and announces the turn to the AI controller; the
presence module takes a player who stays away out of the room and cancels the
game; the broadcasts send every player a sanitized view, from which the browser
works out what its player may do. `PROJECT.json` lists, under `hazards`, where
each of these can go wrong.

## 2. Modules

The engine, proved about:

* `CardRules`: ordinals, `IsCardLegal` (`rank-comparator.ts`) and `CheckSbobuz`
  (`sbobuz-detector.ts`) over an arbitrary deck.
* `StartingPlayer`: `determineStartingPlayer`; `LowerHand` and `SameHand` say
  independently what it should compare. `Shuffle`: `shuffle` and `dealCards`.
* `GameEngine`: the game state and one action for each engine action, validator
  guard and reducer effect together, as the session manager calls them
  synchronously. `ResolveCardPlay`, `DrawAndSettle`, `TakePile`, `Declare` and
  `SkipTurn` are the parts the reducer's cases share.
* `CardFlow`: the abstract specification of how cards may move and when a game
  is over. `GameEngine` implements it under the mapping in `Flow` (`FlowSpec`).
* `Turns`: the abstract specification of what everybody else sees of the engine:
  whose turn it is, whether the game is on. `GameEngine` implements it
  (`TurnsSpec`); `GameSession`, `AIController` and `GameClient` instantiate it as
  `Game`, so they meet the engine in one stated interface.
* `LegalMoves`: the enumerator and, to compare with, the validator's answer to
  every possible move (`AcceptedMoves`).
* `GameBoard`: the sanitized view of a player and the controls his board makes
  of it.

Around one game:

* `GameSession`: one game in `session-manager.ts` (see below).
* `GameClient`: the same game as the players' browsers see it: broadcasts,
  answers to `game:request_state`, `room:join`, connections, `game-store.ts`,
  `use-game.ts`.
* `AIController`: turns announced, plans that wait for their delay.
  `AIStrategy`: scores and choices. `WorkerPool`: `worker-pool.ts`.
* `Shutdown`: `createShutdownHandler` with the sessions it snapshots.

Around rooms and users:

* `Lobby`: every room operation, one step per command.
* `RoomClient`: a room as one browser sees it, against `broadcastRoomState`.
* `Presence`: connections, grace timers and what they do to the lobby.
* `Auth`, `Leaderboard`, `RateLimiter`, `Migrator`.

`MCGameEngine`, `MCGameSession`, `MCLobby`, `MCPresence`, `MCAI`, `MCClients` and
`MCServices` hold the instances, the history variables some properties need, and
the scenarios into which a large instance is cut. The theorems are in
`GameEngineProofs`, `GameSessionProofs`, `LobbyProofs`, `PresenceProofs`,
`AIProofs`, `ClientProofs`, `ServiceProofs` and `OrderProofs` (which extends
`ServiceProofs` with what needs counting: rankings, the lowest hand, the shuffle).

### Steps

The server process is single-threaded, so a step is the code between two awaits;
each command to Redis and each query of PostgreSQL is one step, and the requests
or handlers in flight interleave between them.

| `GameSession` | `session-manager.ts` |
|---|---|
| `turn`, `status`, `actionCount`, `actionLog` | `session.state` as `Turns` sees it, `session.actionLog` (the actor; `None` for CANCEL_GAME) |
| `active` | the entries of `activeSessions` and `roomToGame` |
| `timers`, `turnTimer` | the `setTimeout` callbacks that can still fire; the one `session.turnTimer` refers to |
| `inFlight` | Redis pipelines sent and not answered, with the state each captured and what its caller does next |
| `lastSnapshot`, `saved` | `lastSnapshotActionCount`; the value in Redis |
| `creation`, `completion` | where `createGameSession` and `handleGameCompletion` wait |
| `games`, `gameActions` | the rows in PostgreSQL |
| `CreateGameSession`, `SessionCreated` | `createGameSession` before and after it awaits its snapshot |
| `PlayerAction`, `TurnTimerFires`, `DisconnectTimeout` | the callers of `applyAction`: clients and AI players, the timer's callback, the presence module |
| `InsertGame`, `InsertAction`, `RemoveSession`, `CleanUp` | `handleGameCompletion`, await by await |
| `Crash`, `RecoverSession` | the end of the process; `recoverSession` |

| `Lobby`, `Presence` | code |
|---|---|
| `rooms`, `current`, `public` | `room:{id}`, `user:current_room:{id}`, `rooms:public_list` |
| `archived`, `sessions` | the primary keys of table `rooms`; how often `createGameSession` ran for a room |
| `request[s]` | a request in flight: the command it waits for and the copy of the room it decided on |
| `MayJoin`, `Joined`, ... | the checks and the change of each operation, on the copy |
| `connections`, `socketToUser`, `graceTimers` | the maps of `connection-manager.ts` and `presence-manager.ts` |
| `userSocket`, `presence`, `graceKey` | the Redis keys of `realtime/` |
| `queue` | handlers waiting for Redis, which answers in order: `at` is the command |

| `AIController`, `WorkerPool` | code |
|---|---|
| `plans` | `handleAITurn` calls that sleep, with the state they were announced |
| `registered`, `started` | the map of `ai-player.ts`; `onGameStarted` was called |
| `mailbox`, `responses` | messages to and from a thread |
| `pending`, `requestQueue`, `busy`, `workers` | the variables of `worker-pool.ts` |

| `GameClient`, `RoomClient` | code |
|---|---|
| `broadcasts`, `updates`, `joins` | `broadcastStateToRoom`, `broadcastRoomState`, `handleRoomJoin` between their awaits |
| `up`, `down`, `channel`, `replies` | a connection's messages, in order; answers over HTTP, in any order |
| `view`, `submitting`, `isGameOver` | `game-store.ts` |
| `currentRoom`, `lastStateVersion` | `room-store.ts` |

### Abstractions

A card is an element of `Deck`, known by its ordinal `RankOf`; suits are never
read by the rules. Zones and the draw pile are sets: no rule reads the order of
a zone, and the order of the draw pile is the unknown shuffle, so a draw takes
any cards. The play pile keeps its order. The seeded generator is a choice.
`gameId`, `config`, `rngSeed` and `actionCount` decide nothing in the engine
and are left out; so are the events it emits. Players are seats of `turnOrder`.
The cards of a PLAY_CARDS action are a list, as sent: `MayPlay` and `PlayCards`
take any list, and `Selections` says which lists the boards and the enumerator
send, namely each card of one rank in the zone at most once (`ui-store.ts`
122-135). A list that names a card twice passes the validator as well; see
section 5. CANCEL_GAME may come in every phase. A TIMEOUT_FORFEIT comes for the
player on turn, or for one of `LateFor`, not on turn: through a timer that was
not stopped (finding 2), or from a client.

In `GameSession` a write and its answer are one step, because nothing reads
Redis while the process lives; answers come in the order of the commands, since
there is one connection. Timers of one game have the same length and so fire in
the order they were started in. Whether 30 seconds have passed since the last
snapshot is a choice. A failed snapshot either fails as a call or inside the
pipeline, whose result the code does not read, and then still counts as taken.
A query succeeds when the constraints of its table hold and, with `"postgres"`
among the `Faults`, may fail anyhow. The process crashes at most once; `turn`,
`status` and `actionCount` then keep the values the players saw last, only so
that properties can speak of the game that was lost. Constants say which
environment an instance has: `EarlyPlay`, whether a client acts while
`createGameSession` waits (it can: the room is saved as IN_GAME before);
`Recovers`, whether anything calls `recoverSession` (in the server nothing
does); `Faults`.

In `Lobby` a room is its players in joining order, who is ready, the host, the
status and the settings read there; an AI player is its difficulty and number.
In `Presence` the lobby's operations are atomic, its races being `Lobby`'s. In
`AIController` a move is the state it was computed from: `EnumerationExact` says
that a move for the current state is accepted, and one for an older state may
be. In `GameClient` a state is its `actionCount`, whose turn it is and whether
the game is on; the view of each player is `GameBoard`'s. A broadcast
waits for `fetchSockets`; who is on the list then gets the state as it is when
it is sent. In `RoomClient` a room is two revisions: how often its players, host
and status, which updates carry, and how often its settings, which only answers
over HTTP carry, were saved. In `AIStrategy` a situation is what the scores read,
in each of the three zones; the face-down zone offers blind plays. In `WorkerPool`
the thread that replaces a dead one may fail to start. In `Auth` one account and
one browser tab are followed; any command of a handler may fail, which is
answered by 500, except those of a guest's login, which has none; access tokens
have one life time and expire in the order of issue. In `RateLimiter` a pipeline
may fail as a whole or in any of its commands, and the `zrem` that follows a
refusal is a step of its own, which may fail, too. In `Leaderboard` a rating changes by at most `MaxChange` with the
sign the result demands (`rating-service.ts`), never below the minimum.

## 3. Runs

| Run | Instance | Shows |
|---|---|---|
| `engine_duel` | 2 players, every deal of 7 cards (2, two 5s, 9, Q, K, joker), zones of 1, one card to draw, Sbobuz of 2 | cards, flags and zones; a move for everybody who must play; validator, enumerator and board agree; refinement of `CardFlow` |
| `engine_table` | 3 players, 9 cards, face-up and face-down cards and one hand fixed; one of them is made to forfeit also out of turn | phases, Sbobuz first, turn order in both directions, refinement of `Turns`, a forfeit passes the turn |
| `session` | `recovery`: 2 humans, everything fails, a crash and a recovery; `result`: with an AI player, nothing fails | the timer is the one of the turn and a game that is on has one, every turn ends, a game that is over leaves the memory; result, log and final state are those of the game |
| `lobby` | 3 users, 2 rooms, 2 requests at a time, failing commands and expiring keys | rooms sound, status right, one game per room, memberships exact |
| `presence` | 2 users, 3 sockets, 2 rooms, 2 waiting handlers | presence exact, absent players and closed sockets forgotten, games ended |
| `ai` | one human and two AI players, 5 actions; pools of 1 and 2 threads, 5 requests, one death, with a replacement or without, a shutdown; piles of 0, 2, 3 and 4 cards, zones of 1, 2 and 4 | every AI turn is planned and ends; no thread gets two requests, all settle that a thread can still be given; the pile is picked up in need |
| `clients` | 2 players, 2 actions, one broken connection; a room saved twice, players or settings, one restart | the view never goes back, actions are shown, controls come back, the room's players, host and status are shown as they are, and its settings unless they changed since it was last fetched |
| `services` | parts that do not interact | see below |
| `engine_last_queen` | 2 players, every deal of 6 cards | finding: a last Queen cannot be declared |
| `session_timers` | 2 humans, 3 actions, early play | finding: two timers at once |
| `lobby_join` | as `lobby`, nothing fails | finding: a join is lost |
| `clients_forfeit` | as `clients` | finding: a forfeit is not sent |

The parts of `services`: *auth* (2 calls at a time, 2 sessions, 3 pairs of
tokens, one lost answer or failed command; `HonestIsKept`), *sockets* and
*limiter* (the window of a socket and that in Redis, 2 events in 3 ticks, 8
ticks, any command failing; `NoBurst`), *leaderboard* (3 users, 2 games at a time;
`HistoryAgrees`), *migrator* (3 processes, 3 versions, a crash, a rollback;
`OneServerStarts`), *shutdown* (2 games, 2 actions each, a snapshot due after 2,
one error; `ShutdownKeepsGames`), *deal* (3 players, every deal of 2 cards from
8, and every shuffle of 4; `FairStart`).

### Bounds

The code's constants (3 cards a zone, 3 in hand, Sbobuz of 4, 54 cards) are
parameters; the instances shrink all of them together so that every effect meets
every other: each special rank is in the deck, two equal ranks make a Sbobuz
with each other, with a Queen pair in `engine_table`, the draw pile runs out in
`engine_duel`, and blind plays fail and succeed. The games themselves are not
bounded: piles are picked up for ever and TLC closes the state space. Three
players are the least for which the direction matters; the deal needs three for
the distance round the table. Deadlock is not checked because a game ends.

Elsewhere the bounds count events. `MaxActions`: after so many actions nobody
acts and no forfeit is accepted (a cancellation still is); with a snapshot
interval of 2 (10 in the code) 3 actions are enough for a snapshot in flight,
one action during it and one after it. Two requests at a time are enough for
every pair of lobby operations to overlap; three users for a room of two to be
contended; `MCLobby` cuts the instance into AI players and settings (`ai`),
three humans (`crowd`), and two rooms with one request at a time (`serial`). Two
sockets of one user make one supersede the other, and a third brings a second
player. Five requests fill a queue of `2 * size` behind one thread, and a single
death is enough to leave a pool of one without any. A pile of three is the one a
blind play may lose to, one of four the first that it may not. One broken
connection is one reconnection at any point. `MaxLost` counts the answers lost
and the commands failed together, so that each alone is seen to be an exception
of `HonestIsKept`. Two refreshes, two migrating servers plus one, two results
and two games at the signal are the least that race. Deadlock says nothing in
any of the instances: games end and ids run out.

### Fairness

Assumed is only what the code or its libraries guarantee: that timers fire (the
turn timer, 461-501, of every room, since `lobby/schemas.ts` bounds its length;
the grace timer; the timeout of a request to a worker; the delay of an AI move;
the heartbeat sweep), that Redis answers a command or the client gives it up
(`commandTimeout`, `infra/redis/client.ts` 40), that a query returns or fails
(`statement_timeout`, `infra/database/pool.ts` 59), and that messages arrive and
are handled while a connection lasts. Nothing is assumed of players, of worker
threads, of connections, of the clean-up a minute after a game, or of recovery.

### Conditions

Some properties hold only where requests or events do not overlap, and say so by
a history variable: `MembershipExact` and `PresenceExact` (between steps of one
at a time; the overlaps that break them are in section 5), `AbandonedIsRemoved`,
and `RoomIsShown`. `TimerMatchesTurn` needs `EarlyPlay = FALSE` (finding 2),
and `PlayerNeverStuck` needs `LateFor = {}`: a foreign forfeit while a Queen is
awaited draws for the wrong player. `CardsConserved`, `FlowSpec` and
`EnumerationExact` are about the lists the boards send. `RequestsSettle` excepts
what is queued in a pool that has lost its last worker. `NoBurst` of the HTTP
limiter counts the requests that Redis counted, whatever failed of others, and
excludes the request refused in the millisecond of one let through;
`HonestIsKept` excludes the refresh whose answer is lost and the one that fails
between the mark on its token and the next token; and `ShutdownKeepsGames` the
games for which a command failed. `GameSession`, `AIController` and `GameClient` have the game
cancelled by the presence module only, which never cancels one that is over:
what `RecordKept` and the others say there is said of games no client cancels.
`ShutdownKeepsGames` takes a shutdown to be shorter than the
minute after which a finished session is removed, and `OneServerStarts` excludes
the runs in which an operator rolls a migration back.

## 4. Findings

1. *A last Queen cannot be declared* (`engine_last_queen`). `validator.ts`
   387-393 takes a player without cards for finished before it looks at the
   phase, so a player whose last card was a Queen, in phase
   `awaiting_queen_declaration`, has every action rejected.
   `docs/specs/engine/win-condition-evaluator.md` line 130 lets him declare and
   win. The game is won only when the timer declares for him.
2. *Two timers at once* (`session_timers`). `startTurnTimer` does not clear the
   timer it replaces, and `createGameSession` starts one after an await during
   which an action may already have started one. The forgotten timer forfeits
   for the player it was started for, and the engine accepts a forfeit for
   anyone. `docs/specs/engine/game-clock.md` line 229 has one timer per game.
3. *A join is lost* (`lobby_join`). `joinRoom` reads, changes and writes a room
   without the optimistic lock of `docs/specs/lobby-module.md` line 792. The user
   who was overwritten keeps his mapping and can join no other room until it
   expires or he leaves.
4. *A forfeit is not sent* (`clients_forfeit`). The timer's callback applies the
   forfeit and sends nothing; `docs/specs/frontend-client.md` line 1272 has the
   clients told by `game:state_update`. They find out with the next action, or,
   if the forfeit ended the game, not at all.

## 5. Observations

What the models showed or the reading brought up, where no property is stated
because no document promises otherwise, or the code simply lacks a caller.

Engine and session. Cards of one rank dealt face down to different players can
form a Sbobuz after a failed blind play (`SBOBUZ_ENGINE_SPEC.md` 670 says they
never can). `snapshotToRedis` (533) reads `actionCount` after its await, so
actions made while it waited count as saved and the snapshot may stay a whole
interval behind. `game_actions.player_id` takes neither `null` nor an AI
player's id: the first such action ends the loop of `persistGameResult`, and a
game an AI player wins is not recorded at all. Nothing calls `recoverSession`,
so no game resumes after a restart (`docs/specs/data-layer.md` 673), and a result
PostgreSQL did not take is not tried again (671); a snapshot taken after the end
of a game would be recovered as a session that nothing removes.

What clients may send. `docs/specs/engine/action-validator.md` 309 calls
TIMEOUT_FORFEIT and CANCEL_GAME system-generated and trusted, but
`processAction` (`session-manager.ts` 335-352) relays them from any client. The
validator takes CANCEL_GAME in every phase, of whomever (358), so that a finished
game turns into a cancelled one (`TurnsSpec` and `CardFlow` allow it), and a
TIMEOUT_FORFEIT of any player: one for a player not on turn, while a Queen is
awaited, draws for the wrong player, and the one on turn may be left without a
card to play (the condition of `PlayerNeverStuck`; such forfeits are in
`engine_table`, where phases, order and progress hold nevertheless).
`validatePlayCards` (192-239) does not ask whether a card is named twice, and
`resolveCards` (`reducer.ts` 139-150) then puts it on the pile twice; the boards
select a card once, and `CardsConserved` is about what they send.

Lobby. A stale copy can put a room that is IN_GAME back to WAITING; that it
cannot start twice is due only to the archive's primary key (`StartedOnce`), and
for the same reason a room whose `saveRoom` failed after `archiveRoom` can never
start. A room whose `createGameSession` failed stays IN_GAME (`lobby-module.md`
803 sets it back to READY). The clean-up of `listPublicRooms` may unlist a room
that is WAITING again. AI ids are numbered by the current count and may repeat.
Logging out clears the mapping and leaves the user in the room; a player who left
reappears through a stale copy.

Presence. Two sockets registering at once both stay connected. A join overtaken
by the end of its own socket clears the grace timer, and the player stays ONLINE
for ever (the condition of `AbandonedIsRemoved`). A heartbeat writes back the
status it read. The grace timer may fire between `isInGracePeriod` and
`handleReconnection`. The grace key is one for all rooms of a user, and after a
restart no timer is left for it.

AI. Follow-up turns are announced twice, and retries draw on the state the turn
began with; the model shows that at least one plan for the current state always
remains. Nothing calls `onGameStarted` when `broadcastGameStarted` fails. The
registry of AI players is one for all games, and ids repeat between rooms. The
worker pool is not used by the server. A crashed worker's request waits for its
timeout, a request made during a shutdown may never settle, and a thread that
cannot be spawned leaves the pool smaller, in the end without workers, when the
requests queued wait for ever (`worker-pool.ts` 186-192). A blind play scores 0
and a pile of three -9: with the variance the heuristic may take the pile up
although it could play.

Clients. A broadcast may fall between the answer to `game:request_state` and the
end of `room:join`, and is then missed until the next one. `handleGameStarted`
leaves `isSubmittingAction` as it is; any update resets it, also one that has
nothing to do with the action sent, and dragging a card does not wait for it.
Room updates are numbered when built and not when read, answers over HTTP carry
no number, and after a restart of the server the numbers begin anew: the
condition of `RoomIsShown` names exactly these. Updates carry no settings
(`room-events.ts` 53-75), so the other players' pages show those of their last
request until they make another. A socket that joins the room while
`fetchSockets` is awaited is not sent the state by that broadcast. The pick-up button is offered
after a clear, too, and refused.

Services. Two refreshes with one token may both succeed on the server; the
browser never sends them (`HonestIsKept`), but tabs do not share its lock, and a
refresh whose answer is lost makes the next one revoke all sessions. So does one
that fails after its token was marked as used (`token-service.ts` 146, 207): the
browser keeps the used token, is told 500, and the next call whose 401 comes
refreshes with it. A login that
races `revokeAllSessions` leaves a session that is not listed. Requests of one
millisecond count once in the HTTP limiter, which lets through whatever Redis
could not count (`rate-limiter.ts` 109-125, 151-164) and may leave the entry of a
request it refused. `getNearbyRanks` reads the player's rating and
the players about it in two queries, between which it may change: he is then
found only while the band about the old rating holds him. `processGameResult`
has no caller in the server; two results at once lose a change of rating (the counts are not:
`HistoryAgrees`), and a failure between the two statements leaves a game counted
without a row. Of servers that start together all but one may fail. The shutdown
closes HTTP last, loses actions accepted after its snapshots, may cut a result
short in PostgreSQL while Redis keeps the final state, and has no timeout of its
own.

## 6. Theorems

For every `Deck`, `RankOf`, `NumPlayers` in 2..5, `CardsPerZone`, `HandSize` and
`SbobuzCount` that satisfy the named assumptions (`DeckAssumption`,
`SbobuzAssumption`, `PlayersAssumption`, `ZoneAssumption`,
`HandSizeAssumption`, `LateForAssumption`):

* `TypeCorrect`: `Spec => []TypeOK`. `TypeOK` is inductive; one lemma for each
  part the reducer's cases share.
* `FlagsBelongToTopCard`, `PhaseFitsPile`, `NoSbobuzLeft`: the three are
  inductive only together (`PileInv`): a declaration keeps `FlagsMatchPile`
  because `PhaseMatchesPile` says a Queen is on top, and resolving a play fixes
  all three at once.
* `NoCardLost`: `CardsConserved` is `IsInjective(playPile)` and `Partition`;
  three lemmas move cards between the places of a partition (`CardsToTable`,
  `CardsToHand`, `TableBurnt`) and every action is a sequence of such moves.
  It holds of every list of cards the validator accepts that names none twice,
  which is what `Selections` contains.
* `TurnInOrder`: `Spec => TurnPassesInOrder`. It needs `NoCardLost`: only
  because the cards on the pile were not burnt before does a Sbobuz change the
  burn pile.
* `ZonesUsedInOrder`: `Spec => ZonesInOrder`, likewise from the partition.
* `EngineMovesCards`: `Spec => FlowSpec`, the refinement of `CardFlow`. A play is
  one step of the engine and one of the flow because `CardFlow` lets a player put
  down, burn and draw in one step; that a winner has no card needs the partition.
  It holds whoever is made to forfeit and whenever a cancel comes, as does
  `EngineTakesTurns`.
* `NobodyStuck`: `Spec => []PlayerNeverStuck`. The strengthening is
  `PlayersSupplied`: whoever is to play has cards, and cards in hand while there
  are cards to draw. The player whose Queen is to be declared is the exception,
  since he has not drawn yet and may have no card left (finding 1). It is proved
  for `LateFor = {}` only, because a forfeit for another player declares that Queen
  and leaves him without a card (section 5).
* `MovesListedExactly` and `BoardSuffices`: `EnumerationExact` and
  `BoardOffersMoves` follow from `TypeOK` alone, so the enumerator and the board
  repeat the validator's rules in every state, reached or not.
* `EngineTakesTurns`: `Spec => TurnsSpec`, the refinement on which the models of
  the session, the AI controller and the clients rest; `ForfeitTakesTurn`:
  `Spec => ForfeitPassesTurn`. With them the session's `EveryTurnEnds` speaks of
  the engine: a timer that fires leaves nobody's turn where it was.

For every set of players and AI players, snapshot interval, bound, set of
faults, with and without recovery (`SessionAssumption`):

* `TypeCorrect` of `GameSessionProofs`: `Spec => []TypeOK`.
* `TimerOnTurn` and `ClockNeverStops`: `Spec => []TimerMatchesTurn` and
  `Spec => []ClockRuns`, if `EarlyPlay = FALSE`; when clients act early the
  first fails (finding 2). `TimerMatchesTurn` is not inductive: it is the
  overwritten timer that has to be excluded, so `SessionInv` says that no timer
  runs before the creation is done, and `QueueInv` that among the snapshots in
  flight the answer `createGameSession` waits for is the first, and can come only
  once, and the one `handleGameCompletion` waits for is the last; hence a session
  is removed only after its game.
* `RecordStaysKept`: `MCSpec => []RecordKept`, of a game in which no step fails
  (the scenario "result" of `MCGameSession`), with early clients or without, and
  with AI players, whose wins and actions the tables do not take. `ResultInv`: the
  rows written are a prefix of the log in memory; nothing is recorded before the
  game is over, and no action is accepted after; the result was inserted before the
  first row; and from the last query on the last pipeline in flight carries the
  final state, so that nothing is in flight once it is answered.

For every set of users, rooms, request slots, difficulties and faults
(`LobbyProofs`):

* `RoomsStaySound`, `StatusStaysExact`, `StartsOnce`. Rooms are read, changed and
  written back without a lock, so the invariant (`LobbyInv`) cannot relate the
  copy a request holds to the room stored. It says instead that every copy is
  sound by itself, so that writing any of them at any time leaves a sound room;
  and for the one thing that does depend on the order, that of the requests to
  start a room only one has passed `archiveRoom`, whose primary key decides.
  `KeptPlayers` says of the filter on the players what these proofs need.
* `MappingsExact`: `WatchedSpec => []MembershipExact`, for the whole lobby and the
  history variable that tells whether two commands ever overlapped or one failed
  half-way. `SerialInv` is the strengthening: while nothing did, at most one
  request is under way (`Alone`), and `Fits` says for each command it can have
  next how its copy of the room, the rooms stored and the users' mappings relate,
  so how far they may disagree until it ends; ids not drawn yet are nobody's
  (`Drawn`). `InstanceMappingsExact` says the same of `MCSpec`, the instance the
  runs check.

For every set of users, rooms and sockets (`PresenceProofs`):

* `PresenceStaysExact`: `WatchedSpec => []PresenceExact`. The invariant
  (`PresenceInv`) says that, as long as each event found no handler waiting, at
  most two handlers wait, and two only in one of the pairs the code makes itself,
  the end of a superseded socket and the connect that superseded it (`Pairs`); that
  each waiting handler still finds what it read (`Claims`); and that connections,
  Redis keys and timers agree everywhere but at the user and the room a waiting
  handler is about (`Rest`, `Agreed`). `InstancePresenceExact` is the same of
  `MCSpec`.

For every set of players and AI players and any number of actions, threads,
requests and deaths (`AIProofs`):

* `TurnStaysPlanned`: `AISpec => []TurnIsPlanned`, inductive with the versions of
  the plans (`ControllerInv`).
* `NoNeedlessPickUp`: `StrategySpec => []PicksUpOnlyInNeed`: every play scores at
  least 3 (`PlaysScore`), a pile of three -9, and the variance is 5 either way. A
  blind play scores 0 (`BlindPlaysScore`), so that in the face-down zone the theorem
  starts with a pile of four, at -12.
* `MarksStayExact`: `PoolSpec => []BusyMeansPending`. A worker is pending on one
  request only because a request is never given to two workers: `GivenInv` follows
  a request from the queue to a thread's mailbox and to its answer, and
  `WorkersInv` says that no id of a worker is used again.

For every set of players, any number of actions and broken connections
(`ClientProofs`):

* `NoViewGoesBack`: `ClientSpec => ViewNeverGoesBack`, an action property. What is
  on its way to a socket is in order and not older than what is shown
  (`ClientInv`); a broadcast carries the state of the moment it is sent, not that
  of the action it is sent for, and a connection that breaks takes what is on its
  way with it.
* `RoomStaysShown`: `MCSpec => []RoomIsShown`, the rooms of the instance being
  `RoomClient` with the history variable `overlap`. While no updates overlapped
  (`RoomInv`), the numbers of those on their way grow and are above the last one
  shown (`Numbered`), the last content on its way is the room's (`LastContent`),
  and an answer that carries no number is under way alone. `SettingsInv`: the
  settings shown are those of the last answer, which is all that can be said, since
  no update carries any.

For any number of processes, games, players, requests and tokens
(`ServiceProofs`):

* `ServersStart`: `MigratorSpec => []OneServerStarts`. The process that commits a
  migration leads (`Leads`): nothing that is left for it has been applied.
* `NoGameIsLost`: `ShutdownSpec => []ShutdownKeepsGames`. Commands are answered in
  the order they were sent, so the state in Redis at the end is that of the last
  pipeline on the wire (`WireInv`, `GameKept`).
* `NoBurstEver`: `LimiterSpec => []NoBurst`, for windows and limits of any size.
  The last `MaxEvents` events are further apart than a window (`BucketInv`); the
  sorted set loses no entry that counts before it has left the window
  (`SortedSetInv`), whichever commands of other requests fail
  (`CheckRateLimitFailsKeeps`, `RemoveRefusedKeeps`).
* `RowsMatchHistory`: `LeaderboardSpec => []RowsMatchResults`, which
  `HistoryAgrees` needs: although ratings are written as absolute values and results
  of the same player overlap, the numbers of won and lost games are counted in the
  statement itself, and a result is recorded once (`RecordInv`, `RowInv`).
* `HonestStaysKept`: `AuthSpec => []HonestIsKept`. While every refresh is answered
  and none fails after its mark (`HonestInv`) there is one request to refresh at a time, for as long as the tab's
  `refreshPromise` lasts; the token it presents has not been used until it is
  marked; no two requests are granted the same token; and the browser's cookie is
  a used one only while the refresh that used it is under way. A login or a guest
  during a refresh, and a logout that deletes the token between its being read and
  marked, are the cases that make this invariant larger than it looks.

For every deck, every dealing and every set of users (`OrderProofs`):

* `HistoryStaysTrue`: `LeaderboardSpec => []HistoryAgrees`, both halves. Beside
  `RowsMatchHistory`, `RanksAgree`: in every table of ratings without ties the
  player at the rank `getPlayerRank` gives is the one `getTopPlayers` lists there,
  because in any order the query may return a player stands behind exactly those
  rated higher (`RankCounts`); and, ties or not, `getNearbyRanks` finds the player
  unless as many as its limit stand beside or above him in the band, or the band,
  which is about the rating an earlier query gave, no longer holds him
  (`NearbyHasHim`).
* `StarterHoldsLowest`: `MCSpec => []LowestHandStarts`, from `LowestStarts`: for
  every complete deal `determineStartingPlayer` chooses a player none of whose
  opponents has a lower hand, `LowerHand` being defined without sorting. A sorted
  hand is known by how many of its cards lie below each rank.
* `ShuffledFairly`: `ShuffleIsFair`, for a deck of any size. The shuffle is a trace
  of exchanges of which the k-th settles the k-th place from the end, so that
  different draws give different orders and every order comes of some draws
  (`DrawsDiffer`, `OrdersDrawn`, `OrdersCounted`); and the zones that are dealt are
  disjoint blocks of the deck (`ZonesAreBlocks`, `BlocksShare`, `ZonesApart`).
* `StartIsFair`: `MCSpec => []FairStart`, the two before it together;
  `ServicesHold`: `MCSpec` satisfies all six properties of the run "services".

The library's induction theorems cannot be used here, since they take an operator
as a parameter. `CountUp` and `StepByStep` replace them: a set that contains 0 and
with every number below `N` its successor contains all numbers up to `N`, shown
through the least number it leaves out; and from it, that a recursive function on
`0 .. N` exists and satisfies its equation. What is proved of sorting, shuffling
and counting rests on those two. The proof system has no such means for RECURSIVE
operators, so the modules use recursive functions and folds only.

The assumptions on constants are those the modules declare: sets of rooms, users
or players are finite where the code counts them, bounds are natural numbers, the
zones of all players fit into the deck (`ShuffleAssumption`), and `None` is no
user, room, request, status, connection or state (`NoneAssumption`).

Model-checked only: the liveness properties (`EveryTurnEnds`, `SessionCloses`,
`AbandonedIsRemoved`, `ExpiryEndsGame`, `ClosedIsForgotten`, `AITurnEnds`,
`RequestsSettle`, `ActionIsShown`, `ControlsComeBack`). They rest on fairness, and
with it on ENABLED, of which the proof system knows nothing.

## 7. Not modelled

Metrics, logging, configuration, pool clients and health checks; routing and
validation of requests; password hashing and the signatures of tokens; the
generator's 32-bit arithmetic; `getMatchHistory`; `shouldForceDisconnect`, which
nothing calls; notifications, the `player_joined` and `player_left` events and
the list of rooms in the client; the refusal of an expired token when a socket
connects (the server sends no AUTH_EXPIRED, so `use-socket.ts` 177-184 never
runs); and all rendering. Several server processes share Redis in the documents
only: timers, sessions and connections live in one process, and so do the
models, the migrator's excepted.
