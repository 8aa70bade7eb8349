------------------------------ MODULE AIProofs ------------------------------
(***************************************************************************)
(* Theorems about the AI: its controller for every set of players and any  *)
(* number of actions, its heuristic strategy for every situation, and the  *)
(* worker pool for every size, number of requests and number of deaths.    *)
(***************************************************************************)
EXTENDS AIController, WorkerPool, AIStrategy, SequenceTheorems, TLAPS

(***************************************************************************)
(* The controller: every announcement of a turn leaves a plan.             *)
(***************************************************************************)

PlansInv ==
    /\ version \in Nat
    /\ started => registered = AIPlayers
    /\ \A plan \in plans :
          /\ plan.version \in Nat /\ plan.version =< version
          /\ plan.version = version => plan.player = turn

ControllerInv == PlansInv /\ TurnIsPlanned

\* handleAITurn plans for the state announced; if nothing it sees forbids, it does.
LEMMA HandleAITurnPlans ==
    ASSUME NEW known, NEW by
    PROVE  /\ \A plan \in HandleAITurn(known, by) :
                 plan.version = version' /\ plan.player = turn'
           /\ (status' = "playing" /\ turn' \in known /\ ~lastQueen') =>
                 \E plan \in HandleAITurn(known, by) : plan.version = version'
<1> DEFINE planned == status' = "playing" /\ turn' \in known /\ ~lastQueen'
           new == [player |-> turn', version |-> version', by |-> by]
<1>1. new.version = version' /\ new.player = turn'
  OBVIOUS
<1>2. HandleAITurn(known, by) = IF planned THEN {new} ELSE {}
  BY DEF HandleAITurn
<1> HIDE DEF new
<1> QED BY <1>1, <1>2

\* An action: what was planned before is for an earlier state.
LEMMA ApplyActionPlans ==
    ASSUME ControllerInv, NEW rest,
           \A plan \in rest : \/ plan \in plans
                              \/ plan.version = version' /\ plan.player = turn',
           ApplyAction(rest)
    PROVE  ControllerInv'
<1>1. version \in Nat /\ version' = version + 1 /\ version' \in Nat
  BY DEF ApplyAction, ControllerInv, PlansInv
<1>2. plans' = rest \cup HandleAITurn(registered, "manager")
  BY DEF ApplyAction
<1>3. \A plan \in plans : plan.version \in Nat /\ plan.version =< version
  BY DEF ControllerInv, PlansInv
<1>4. \A plan \in plans' :
         /\ plan.version \in Nat /\ plan.version =< version'
         /\ plan.version = version' => plan.player = turn'
  BY <1>1, <1>2, <1>3, HandleAITurnPlans
<1>5. UNCHANGED <<registered, started>>
  BY DEF ApplyAction
<1>6. PlansInv'
  BY <1>1, <1>4, <1>5 DEF ControllerInv, PlansInv
<1>7. TurnIsPlanned'
  <2> SUFFICES ASSUME OnTurnOfAI'
               PROVE  \E plan \in plans' : plan.version = version'
    BY <1>4 DEF TurnIsPlanned
  <2>1. registered = AIPlayers
    BY <1>5 DEF OnTurnOfAI, ControllerInv, PlansInv
  <2>2. status' = "playing" /\ turn' \in registered /\ ~lastQueen'
    BY <2>1 DEF OnTurnOfAI
  <2> QED BY <1>2, <2>2, HandleAITurnPlans
<1> QED BY <1>6, <1>7 DEF ControllerInv

\* Every step of the controller keeps its invariant.
LEMMA ControllerStep ==
    ASSUME ControllerInv, AINext
    PROVE  ControllerInv'
<1>1. CASE OnGameStarted
  <2>1. /\ registered' = AIPlayers /\ started'
        /\ UNCHANGED <<turn, status, version, lastQueen>>
        /\ plans' = plans \cup HandleAITurn(AIPlayers, "start")
    BY <1>1 DEF OnGameStarted, session
  <2>2. \A plan \in plans' :
           /\ plan.version \in Nat /\ plan.version =< version'
           /\ plan.version = version' => plan.player = turn'
    BY <2>1, HandleAITurnPlans DEF ControllerInv, PlansInv
  <2>3. PlansInv'
    BY <2>1, <2>2 DEF ControllerInv, PlansInv
  <2>4. OnTurnOfAI' => \E plan \in plans' : plan.version = version'
    BY <2>1, HandleAITurnPlans DEF OnTurnOfAI
  <2> QED BY <2>2, <2>3, <2>4 DEF ControllerInv, TurnIsPlanned
<1>2. ASSUME NEW p \in Players, HumanAction(p) PROVE ControllerInv'
  BY <1>2, ApplyActionPlans DEF HumanAction
<1>3. CASE TurnTimerFires \/ DisconnectTimeout
  BY <1>3, ApplyActionPlans DEF TurnTimerFires, DisconnectTimeout
<1>4. ASSUME NEW plan \in plans, Submit(plan) PROVE ControllerInv'
  <2> DEFINE followUp == IF turn' = plan.player
                         THEN HandleAITurn(registered, "controller") ELSE {}
  <2>1. \A other \in followUp : other.version = version' /\ other.player = turn'
    BY HandleAITurnPlans
  <2>2. ApplyAction((plans \ {plan}) \cup followUp)
    BY <1>4 DEF Submit
  <2> QED BY <2>1, <2>2, ApplyActionPlans
\* A plan for the current state is not dropped while the game is on.
<1>5. ASSUME NEW plan \in plans, Discard(plan) PROVE ControllerInv'
  <2>1. /\ status # "playing" \/ plan.version # version
        /\ plans' = plans \ {plan}
        /\ UNCHANGED <<turn, status, version, lastQueen, registered, started>>
    BY <1>5 DEF Discard, session
  <2>2. PlansInv'
    BY <2>1 DEF ControllerInv, PlansInv
  <2>3. OnTurnOfAI' => OnTurnOfAI
    BY <2>1 DEF OnTurnOfAI
  <2>4. TurnIsPlanned'
    BY <2>1, <2>3 DEF ControllerInv, TurnIsPlanned, OnTurnOfAI
  <2> QED BY <2>2, <2>4 DEF ControllerInv
<1> QED BY <1>1, <1>2, <1>3, <1>4, <1>5 DEF AINext, DelayEnds

\* However old plans and actions of others interleave, and however far the game
\* had come when the AI players were registered, an AI player on turn has a plan
\* for exactly the current state (game:stateChanged, handleAITurn).
THEOREM TurnStaysPlanned == AISpec => []TurnIsPlanned
<1>1. AIInit => ControllerInv
  BY DEF AIInit, ControllerInv, PlansInv, TurnIsPlanned, OnTurnOfAI
<1>2. ControllerInv /\ [AINext]_aiVars => ControllerInv'
  <2>1. ControllerInv /\ UNCHANGED aiVars => ControllerInv'
    BY DEF aiVars, session, ControllerInv, PlansInv, TurnIsPlanned, OnTurnOfAI
  <2> QED BY <2>1, ControllerStep
<1> QED BY <1>1, <1>2, PTL DEF AISpec, ControllerInv

(***************************************************************************)
(* The heuristic strategy: no play scores as low as a large pile.          *)
(***************************************************************************)

\* Every play of cards scores at least 3: a single Jack, the worst, scores 8 - 5.
LEMMA PlaysScore ==
    ASSUME NEW s \in Situations, s.zone # "faceDown",
           NEW move \in LegalPlays(s), move # PickUp
    PROVE  scoreAction(move, s) \in Int /\ scoreAction(move, s) >= 3
<1> DEFINE rank == move.rank
           n == move.count
           same == IF s.topRank = rank THEN s.topCount + n ELSE 0
           close == 5 * s.closeOpponents
           clears == IF s.zone = "faceUp" /\ s.cards = n /\ s.drawPileEmpty THEN 12 ELSE 0
           rest == 6 * (n - 1) + 8 * n + close + clears
<1>1. rank \in {2, 5, J, K, None} /\ n \in 1 .. 4 /\ move.type = "PLAY_CARDS"
  BY DEF LegalPlays
<1>2. s.pile \in Nat /\ s.topCount \in {0, 1, 3} /\ s.closeOpponents \in {0, 2}
  BY StrategyAssumption DEF Situations
<1>3. close \in Nat /\ clears \in Nat
  BY <1>2
<1> HIDE DEF close, clears
<1>4. rest \in Int /\ rest >= 14 * n - 6
  BY <1>1, <1>3
<1> DEFINE value == IF rank = None THEN 15 ELSE RankScore(move, s)
<1>5. value \in Int /\ value >= -5 * n
  <2>1. CASE rank = None
    BY <1>1, <2>1
  <2>2. CASE rank # None
    <3>1. rank \in {2, 5, 11, 13}
      BY <1>1, <2>2 DEF J, K
    <3> DEFINE low == IF isLowCard(rank) THEN 10 * n ELSE 0
               high == IF isHighCard(rank) /\ ~isSpecialCard(rank) THEN -5 * n ELSE 0
               two == IF rank = 2 THEN IF s.pile >= 5 THEN 8 ELSE IF s.pile < 3 THEN -3 ELSE 0 ELSE 0
               king == IF rank = K THEN IF s.pile >= 4 THEN 25 ELSE 5 ELSE 0
               four == IF same >= 4 THEN 40 ELSE IF same = 3 THEN 20 ELSE 0
    <3>2. RankScore(move, s) = low + high + two + king + four
      BY DEF RankScore
    <3>3. low \in Int /\ high \in Int /\ low + high >= -5 * n /\ (rank = 2 => low + high >= 10)
      BY <1>1, <3>1 DEF isLowCard, isHighCard, isSpecialCard, J, Q, K
    <3>4. two \in Int /\ two >= -3 /\ (rank # 2 => two = 0)
      BY <1>2
    <3>5. king \in Nat /\ four \in Nat
      OBVIOUS
    <3> HIDE DEF low, high, two, king, four
    <3>6. low + high + two + king + four >= -5 * n
      BY <1>1, <3>1, <3>3, <3>4, <3>5
    <3> QED BY <2>2, <3>2, <3>3, <3>4, <3>5, <3>6
  <2> QED BY <2>1, <2>2
<1>6. scoreAction(move, s) = value + rest
  <2>1. scoreAction(move, s) = value + 6 * (n - 1) + 8 * n + close + clears
    BY <1>1 DEF scoreAction, PlayScore, close, clears
  <2> HIDE DEF value
  <2> QED BY <1>1, <1>3, <1>5, <2>1
<1> HIDE DEF value, rest
<1> QED BY <1>1, <1>4, <1>5, <1>6

\* A blind play scores nothing.
LEMMA BlindPlaysScore ==
    ASSUME NEW s \in Situations, s.zone = "faceDown",
           NEW move \in LegalPlays(s), move # PickUp
    PROVE  scoreAction(move, s) = 0
BY DEF LegalPlays, scoreAction

StrategyInv ==
    /\ situation \in Situations
    /\ moves \subseteq LegalPlays(situation) \cup {PickUp}
    /\ PicksUpOnlyInNeed

\* The choice for a situation is one the strategy's scores allow.
LEMMA StrategyStep ==
    ASSUME StrategyInv, computeMoveDirectly
    PROVE  StrategyInv'
<1>1. UNCHANGED <<strategy, situation, moves>>
  BY DEF computeMoveDirectly, selectHeuristicMove, selectRandomMove
<1> DEFINE least == IF situation.zone = "faceDown" THEN 0 ELSE 3
<1>2. ASSUME strategy = "heuristic", chosen' = PickUp, situation.pile > 2,
             situation.pile > 3 \/ situation.zone # "faceDown"
      PROVE  moves = {PickUp}
  <2>1. PICK top \in TopMoves(situation), move \in moves :
           MayWin(move, top, situation) /\ chosen' = move
    BY <1>2 DEF computeMoveDirectly, selectHeuristicMove, selectRandomMove
  <2>2. move = PickUp
    BY <1>2, <2>1
  <2>3. situation \in Situations /\ situation.pile \in Nat
    BY StrategyAssumption DEF StrategyInv, Situations
  <2>4. scoreAction(PickUp, situation) = -3 * situation.pile
    BY <1>2, <2>3 DEF scoreAction, PickUp
  <2>5. ASSUME NEW other \in moves, other # PickUp PROVE FALSE
    <3>1. scoreAction(other, situation) \in Int /\ scoreAction(other, situation) >= least
      BY <2>3, <2>5, PlaysScore, BlindPlaysScore DEF StrategyInv
    <3>2. scoreAction(PickUp, situation) + (IF PickUp \in top THEN 5 ELSE 0)
             >= scoreAction(other, situation) - (IF other \in top THEN 5 ELSE 0)
      BY <2>1, <2>2, <2>5 DEF MayWin
    <3> QED BY <1>2, <2>3, <2>4, <3>1, <3>2
  <2> QED BY <2>1, <2>2, <2>5
<1>3. situation.pile \in Nat
  BY StrategyAssumption DEF StrategyInv, Situations
<1>4. PicksUpOnlyInNeed'
  BY <1>1, <1>2, <1>3 DEF PicksUpOnlyInNeed
<1> QED BY <1>1, <1>4 DEF StrategyInv

\* For every situation and every variance, the heuristic strategy does not take up
\* three cards or more while it can play one it sees, nor four or more while it
\* can play one blind (scoreAction, selectHeuristicMove).
THEOREM NoNeedlessPickUp == StrategySpec => []PicksUpOnlyInNeed
<1>1. StrategyInit => StrategyInv
  BY StrategyAssumption DEF StrategyInit, StrategyInv, OfferedPlays, PicksUpOnlyInNeed
<1>2. StrategyInv /\ UNCHANGED strategyVars => StrategyInv'
  BY DEF strategyVars, StrategyInv, PicksUpOnlyInNeed
<1> QED BY <1>1, <1>2, StrategyStep, PTL DEF StrategySpec, StrategyInv

(***************************************************************************)
(* The worker pool: each request is given to one worker at most.           *)
(***************************************************************************)

\* Request r has been posted to worker w and some trace of that is left: its
\* entry in pendingRequests, its message or its answer.
Given(r, w) ==
    \/ <<r, w>> \in pending \/ <<r, w>> \in responses
    \/ w \in Ids /\ \E i \in DOMAIN mailbox[w] : mailbox[w][i] = r

Queued(r) == \E i \in DOMAIN requestQueue : requestQueue[i] = r

PoolTypes ==
    /\ asked \in 0 .. MaxRequests /\ created \in Nat
    /\ requestQueue \in Seq(Nat)
    /\ mailbox \in [Ids -> Seq(Nat)]
    /\ pending \subseteq Nat \X Nat /\ responses \subseteq Nat \X Nat
    /\ workers \in Seq(Nat)

\* Ids are not used again.
WorkersInv ==
    /\ \A i \in DOMAIN workers : workers[i] < created
    /\ \A i, j \in DOMAIN workers : workers[i] = workers[j] => i = j
    /\ busy \subseteq 0 .. created - 1
    /\ \A r, w \in Nat : <<r, w>> \in pending => w < created

\* A request waits in the queue, or has been given to one worker.
GivenInv ==
    /\ \A r \in Nat : Queued(r) => r \in 1 .. asked
    /\ \A i, j \in DOMAIN requestQueue : requestQueue[i] = requestQueue[j] => i = j
    /\ \A r, w \in Nat : Given(r, w) => r \in 1 .. asked /\ ~Queued(r)
    /\ \A r, v, w \in Nat : Given(r, v) /\ Given(r, w) => v = w

\* The marks are exact while the pool runs, and no worker is pending twice.
MarksInv ==
    phase = "running" =>
        /\ \A i \in DOMAIN workers :
              workers[i] \in busy <=> \E r \in Nat : <<r, workers[i]>> \in pending
        /\ \A r, q, w \in Nat : <<r, w>> \in pending /\ <<q, w>> \in pending => r = q

PoolInv == PoolTypes /\ WorkersInv /\ GivenInv /\ MarksInv

\* Worker ids are numbers.
LEMMA IdsAreNat == Ids \subseteq Nat
BY PoolAssumption DEF Ids

\* workers.splice(index, 1)
LEMMA RemoveAtIsSplice ==
    ASSUME NEW s \in Seq(Nat), NEW i \in DOMAIN s
    PROVE  /\ RemoveAt(s, i) \in Seq(Nat) /\ Len(RemoveAt(s, i)) = Len(s) - 1
           /\ \A j \in 1 .. Len(s) - 1 :
                 /\ j < i => RemoveAt(s, i)[j] = s[j]
                 /\ j >= i => RemoveAt(s, i)[j] = s[j + 1]
<1>1. i \in 1 .. Len(s) /\ Len(s) \in Nat /\ \A j \in 1 .. Len(s) : s[j] \in Nat
  OBVIOUS
<1> DEFINE a == SubSeq(s, 1, i - 1)
           b == SubSeq(s, i + 1, Len(s))
<1>2. a \in Seq(Nat) /\ Len(a) = i - 1 /\ \A j \in 1 .. i - 1 : a[j] = s[j]
  <2>1. i - 1 \in Int /\ \A j \in 1 .. i - 1 : s[j] \in Nat
    BY <1>1
  <2>2. /\ a \in Seq(Nat) /\ Len(a) = IF 1 <= i - 1 THEN i - 1 - 1 + 1 ELSE 0
        /\ \A j \in 1 .. i - 1 - 1 + 1 : a[j] = s[1 + j - 1]
    BY <2>1, SubSeqProperties
  <2> HIDE DEF a
  <2> QED BY <1>1, <2>2
<1>3. b \in Seq(Nat) /\ Len(b) = Len(s) - i /\ \A j \in 1 .. Len(s) - i : b[j] = s[i + j]
  <2>1. i + 1 \in Int /\ Len(s) \in Int /\ \A j \in i + 1 .. Len(s) : s[j] \in Nat
    BY <1>1
  <2>2. /\ b \in Seq(Nat)
        /\ Len(b) = IF i + 1 <= Len(s) THEN Len(s) - (i + 1) + 1 ELSE 0
        /\ \A j \in 1 .. Len(s) - (i + 1) + 1 : b[j] = s[i + 1 + j - 1]
    BY <2>1, SubSeqProperties
  <2> HIDE DEF b
  <2>3. Len(b) = Len(s) - i
    BY <1>1, <2>2
  <2>4. ASSUME NEW j \in 1 .. Len(s) - i PROVE b[j] = s[i + j]
    <3>1. j \in 1 .. Len(s) - (i + 1) + 1 /\ i + 1 + j - 1 = i + j
      BY <1>1
    <3>2. b[j] = s[i + 1 + j - 1]
      BY <2>2, <3>1
    <3> QED BY <3>1, <3>2
  <2> QED BY <2>2, <2>3, <2>4
<1> HIDE DEF a, b
<1>4. /\ a \o b \in Seq(Nat) /\ Len(a \o b) = Len(a) + Len(b)
      /\ \A j \in 1 .. Len(a) + Len(b) : (a \o b)[j] = IF j <= Len(a) THEN a[j] ELSE b[j - Len(a)]
  BY <1>2, <1>3, ConcatProperties
<1> DEFINE c == a \o b
<1> HIDE DEF c
<1>5. ASSUME NEW j \in 1 .. Len(s) - 1
      PROVE  (j < i => c[j] = s[j]) /\ (j >= i => c[j] = s[j + 1])
  <2>1. c[j] = IF j <= Len(a) THEN a[j] ELSE b[j - Len(a)]
    <3>1. j \in 1 .. Len(a) + Len(b)
      BY <1>1, <1>2, <1>3
    <3> QED BY <1>4, <3>1 DEF c
  <2>2. CASE j < i
    BY <1>1, <1>2, <2>1, <2>2
  <2>3. CASE j >= i
    <3> DEFINE k == j - Len(a)
    <3>1. k \in 1 .. Len(s) - i /\ i + k = j + 1 /\ ~(j <= Len(a))
      BY <1>1, <1>2, <2>3
    <3>2. c[j] = b[k]
      BY <2>1, <3>1
    <3>3. b[k] = s[i + k]
      BY <1>3, <3>1
    <3> HIDE DEF k
    <3> QED BY <1>1, <2>3, <3>1, <3>2, <3>3
  <2> QED BY <1>1, <2>2, <2>3
<1>6. c \in Seq(Nat) /\ Len(c) = Len(s) - 1
  BY <1>1, <1>2, <1>3, <1>4 DEF c
<1>7. c = RemoveAt(s, i)
  BY DEF RemoveAt, a, b, c
<1> QED BY <1>5, <1>6, <1>7

\* The marks match what waits on the workers.
Exact(marked, waiting) ==
    /\ \A i \in DOMAIN workers :
          workers[i] \in marked <=> \E r \in Nat : <<r, workers[i]>> \in waiting
    /\ \A r, q, w \in Nat : <<r, w>> \in waiting /\ <<q, w>> \in waiting => r = q

\* The worker of a request that is over is idle again.
LEMMA Released ==
    ASSUME PoolInv, phase = "running", NEW r \in Nat, NEW w \in Nat, <<r, w>> \in pending
    PROVE  Exact(busy \ {w}, WithoutRequest(r))
<1>1. /\ \A q, v \in Nat : <<q, v>> \in WithoutRequest(r) <=> <<q, v>> \in pending /\ q # r
      /\ \A v \in Nat : <<r, v>> \in pending => v = w
      /\ \A q \in Nat : <<q, w>> \in pending => q = r
  BY DEF WithoutRequest, PoolInv, GivenInv, Given, MarksInv
<1>2. \A i \in DOMAIN workers : workers[i] \in Nat
  BY DEF PoolInv, PoolTypes
<1>3. \A i \in DOMAIN workers :
         workers[i] \in busy <=> \E q \in Nat : <<q, workers[i]>> \in pending
  BY DEF PoolInv, MarksInv
<1>4. \A i \in DOMAIN workers :
         workers[i] \in busy \ {w} <=> \E q \in Nat : <<q, workers[i]>> \in WithoutRequest(r)
  <2> SUFFICES ASSUME NEW i \in DOMAIN workers
               PROVE  workers[i] \in busy \ {w}
                         <=> \E q \in Nat : <<q, workers[i]>> \in WithoutRequest(r)
    OBVIOUS
  <2>1. CASE workers[i] = w
    BY <1>1, <1>2, <2>1
  <2>2. CASE workers[i] # w
    BY <1>1, <1>2, <1>3, <2>2
  <2> QED BY <2>1, <2>2
<1>5. \A p, q, v \in Nat : <<p, v>> \in WithoutRequest(r) /\ <<q, v>> \in WithoutRequest(r) => p = q
  BY <1>1 DEF PoolInv, MarksInv
<1> QED BY <1>4, <1>5 DEF Exact

\* A dispatch to an idle worker: its mark and its one request
LEMMA DispatchKeeps ==
    ASSUME PoolTypes, WorkersInv, NEW marked, marked \subseteq busy,
           NEW waiting, waiting \subseteq pending,
           phase = "running" => Exact(marked, waiting),
           NEW w \in Ids, NEW r \in Nat, IdleWorker(w, marked),
           DispatchToWorker(w, r, marked, waiting),
           responses' \subseteq responses, UNCHANGED <<phase, workers, created>>
    PROVE  /\ mailbox' \in [Ids -> Seq(Nat)] /\ pending' \subseteq Nat \X Nat
           /\ responses' \subseteq Nat \X Nat
           /\ WorkersInv' /\ MarksInv'
           /\ \A x, v \in Nat : Given(x, v)' => Given(x, v) \/ (x = r /\ v = w)
<1>1. /\ busy' = marked \cup {w} /\ pending' = waiting \cup {<<r, w>>}
      /\ mailbox' = IF w \in dead THEN mailbox ELSE [mailbox EXCEPT ![w] = Append(@, r)]
  BY DEF DispatchToWorker
<1>2. w \in Nat /\ w \notin marked /\ \E i \in DOMAIN workers : workers[i] = w
  BY IdsAreNat DEF IdleWorker
<1>3. /\ mailbox \in [Ids -> Seq(Nat)] /\ pending \subseteq Nat \X Nat
      /\ responses \subseteq Nat \X Nat /\ workers \in Seq(Nat)
  BY DEF PoolTypes
<1>4. /\ mailbox' \in [Ids -> Seq(Nat)]
      /\ \A v \in Ids \ {w} : mailbox'[v] = mailbox[v]
      /\ mailbox'[w] = mailbox[w] \/ mailbox'[w] = Append(mailbox[w], r)
  BY <1>1, <1>3
<1>5. pending' \subseteq Nat \X Nat /\ responses' \subseteq Nat \X Nat
  BY <1>1, <1>2, <1>3
<1>6. WorkersInv'
  <2>1. w < created /\ created \in Nat
    BY <1>2 DEF WorkersInv, PoolTypes
  <2>2. busy' \subseteq 0 .. created' - 1
    BY <1>1, <1>2, <2>1 DEF WorkersInv
  <2>3. \A x, v \in Nat : <<x, v>> \in pending' => v < created'
    BY <1>1, <1>2, <2>1 DEF WorkersInv
  <2> QED BY <2>2, <2>3 DEF WorkersInv
<1>7. ASSUME phase = "running" PROVE MarksInv'
  <2>1. Exact(marked, waiting)
    BY <1>7
  <2>2. \A x \in Nat : <<x, w>> \notin waiting
    BY <1>2, <2>1 DEF Exact
  <2>3. \A x, v \in Nat : <<x, v>> \in pending' <=> <<x, v>> \in waiting \/ (x = r /\ v = w)
    BY <1>1, <1>2
  <2>4. \A i \in DOMAIN workers : workers[i] \in Nat
    BY <1>3
  <2>5. \A i \in DOMAIN workers' :
           workers'[i] \in busy' <=> \E x \in Nat : <<x, workers'[i]>> \in pending'
    BY <1>1, <2>1, <2>3, <2>4 DEF Exact
  <2>6. \A x, q, v \in Nat : <<x, v>> \in pending' /\ <<q, v>> \in pending' => x = q
    BY <2>1, <2>2, <2>3 DEF Exact
  <2> QED BY <2>5, <2>6 DEF MarksInv
<1>8. ASSUME NEW x \in Nat, NEW v \in Nat, Given(x, v)'
      PROVE  Given(x, v) \/ (x = r /\ v = w)
  <2>1. CASE <<x, v>> \in pending'
    BY <1>1, <2>1 DEF Given
  <2>2. CASE <<x, v>> \in responses'
    BY <2>2 DEF Given
  <2>3. CASE v \in Ids /\ \E i \in DOMAIN mailbox'[v] : mailbox'[v][i] = x
    <3>1. CASE mailbox'[v] = mailbox[v]
      BY <2>3, <3>1 DEF Given
    <3>2. CASE v = w /\ mailbox'[w] = Append(mailbox[w], r)
      <4>1. mailbox[w] \in Seq(Nat)
        BY <1>3
      <4>2. PICK i \in DOMAIN Append(mailbox[w], r) : Append(mailbox[w], r)[i] = x
        BY <2>3, <3>2
      <4>3. (i \in DOMAIN mailbox[w] /\ mailbox[w][i] = x) \/ x = r
        BY <4>1, <4>2
      <4> QED BY <3>2, <4>3 DEF Given
    <3> QED BY <1>4, <2>3, <3>1, <3>2
  <2> QED BY <1>8, <2>1, <2>2, <2>3 DEF Given
<1> QED BY <1>4, <1>5, <1>6, <1>7, <1>8 DEF MarksInv

\* A request is over: its worker takes the next one from the queue.
LEMMA ProcessQueueKeeps ==
    ASSUME PoolInv, NEW r \in Nat, NEW w \in Nat, <<r, w>> \in pending,
           ProcessQueue(busy \ {w}, WithoutRequest(r)),
           responses' \subseteq responses, UNCHANGED <<phase, workers, created, asked>>
    PROVE  PoolInv'
<1> DEFINE marked == busy \ {w}
           waiting == WithoutRequest(r)
<1>1. marked \subseteq busy /\ waiting \subseteq pending
  BY DEF WithoutRequest
<1>2. phase = "running" => Exact(marked, waiting)
  BY Released
<1>3. PoolTypes /\ WorkersInv /\ GivenInv
  BY DEF PoolInv
<1>4. /\ requestQueue \in Seq(Nat) /\ asked \in 0 .. MaxRequests
      /\ workers \in Seq(Nat) /\ created \in Nat
  BY <1>3 DEF PoolTypes
<1> HIDE DEF marked, waiting
<1>5. ASSUME NEW v \in Ids, requestQueue # << >>, IdleWorker(v, marked),
             DispatchToWorker(v, Head(requestQueue), marked, waiting),
             requestQueue' = Tail(requestQueue)
      PROVE  PoolInv'
  <2> DEFINE q == Head(requestQueue)
  <2>1. /\ q \in Nat /\ requestQueue' \in Seq(Nat)
        /\ Len(requestQueue') = Len(requestQueue) - 1
        /\ \A i \in 1 .. Len(requestQueue) - 1 : requestQueue'[i] = requestQueue[i + 1]
        /\ 1 \in DOMAIN requestQueue /\ q = requestQueue[1]
    BY <1>4, <1>5
  <2>2. \A i \in DOMAIN requestQueue' :
           i + 1 \in DOMAIN requestQueue /\ requestQueue'[i] = requestQueue[i + 1]
    <3>1. /\ DOMAIN requestQueue' = 1 .. Len(requestQueue) - 1
          /\ DOMAIN requestQueue = 1 .. Len(requestQueue) /\ Len(requestQueue) \in Nat
      BY <1>4, <2>1
    <3>2. \A i \in 1 .. Len(requestQueue) - 1 : i + 1 \in 1 .. Len(requestQueue)
      BY <3>1
    <3> QED BY <2>1, <3>1, <3>2
  <2>3. /\ \A x \in Nat : Queued(x)' => Queued(x) /\ x # q
        /\ \A i, j \in DOMAIN requestQueue' : requestQueue'[i] = requestQueue'[j] => i = j
    <3>1. \A i, j \in DOMAIN requestQueue : requestQueue[i] = requestQueue[j] => i = j
      BY <1>3 DEF GivenInv
    <3>2. \A i \in DOMAIN requestQueue' : i \in Nat \ {0}
      BY <2>1
    <3>3. \A i \in DOMAIN requestQueue' : requestQueue'[i] # q
      BY <2>1, <2>2, <3>1, <3>2
    <3> QED BY <2>2, <3>1, <3>2, <3>3 DEF Queued
  <2>4. Queued(q) /\ \A v1 \in Nat : ~Given(q, v1)
    <3>1. Queued(q)
      BY <2>1 DEF Queued
    <3> QED BY <1>3, <2>1, <3>1 DEF GivenInv
  <2> HIDE DEF q
  <2>5. DispatchToWorker(v, q, marked, waiting)
    BY <1>5 DEF q
  <2>6. /\ mailbox' \in [Ids -> Seq(Nat)] /\ pending' \subseteq Nat \X Nat
        /\ responses' \subseteq Nat \X Nat
        /\ WorkersInv' /\ MarksInv'
        /\ \A x, y \in Nat : Given(x, y)' => Given(x, y) \/ (x = q /\ y = v)
    BY <1>1, <1>2, <1>3, <1>5, <2>1, <2>5, DispatchKeeps
  <2>7. \A x, y \in Nat : Given(x, y)' => x \in 1 .. asked' /\ ~Queued(x)'
    BY <1>3, <2>3, <2>4, <2>6 DEF GivenInv
  <2>8. \A x, y, z \in Nat : Given(x, y)' /\ Given(x, z)' => y = z
    BY <1>3, <2>4, <2>6 DEF GivenInv
  <2>9. GivenInv'
    BY <1>3, <2>3, <2>7, <2>8 DEF GivenInv
  <2> QED BY <1>3, <2>1, <2>6, <2>9 DEF PoolInv, PoolTypes
<1>6. CASE busy' = marked /\ pending' = waiting /\ UNCHANGED <<mailbox, requestQueue>>
  <2>1. \A x, y \in Nat : Given(x, y)' => Given(x, y)
    BY <1>1, <1>6 DEF Given
  <2>2. GivenInv'
    BY <1>3, <1>6, <2>1 DEF GivenInv, Queued
  <2>3. WorkersInv'
    BY <1>1, <1>3, <1>6 DEF WorkersInv
  <2>4. MarksInv'
    BY <1>2, <1>6 DEF MarksInv, Exact
  <2>5. PoolTypes'
    BY <1>1, <1>3, <1>6 DEF PoolTypes
  <2> QED BY <2>2, <2>3, <2>4, <2>5 DEF PoolInv
<1> QED BY <1>5, <1>6 DEF ProcessQueue, marked, waiting

\* computeMove: the new request is rejected, given to an idle worker or queued.
LEMMA ComputeMoveKeeps ==
    ASSUME PoolInv, NEW r \in Requests, ComputeMove(r)
    PROVE  PoolInv'
<1>1. /\ r = asked + 1 /\ asked' = r /\ r \in Nat /\ asked' \in 0 .. MaxRequests
      /\ UNCHANGED <<size, phase, workers, created, dead, responses>>
  BY PoolAssumption DEF ComputeMove, Requests, PoolInv, PoolTypes
<1>2. PoolTypes /\ WorkersInv /\ GivenInv /\ MarksInv /\ asked \in Nat
  BY DEF PoolInv, PoolTypes
<1>3. /\ \A x \in Nat : Queued(x) => x \in 1 .. asked' /\ x # r
      /\ \A x, v \in Nat : Given(x, v) => x \in 1 .. asked' /\ x # r
  BY <1>1, <1>2 DEF GivenInv
<1>4. CASE UNCHANGED <<busy, mailbox, pending, requestQueue>>
  <2>1. (\A x, v \in Nat : Given(x, v)' <=> Given(x, v)) /\ (\A x \in Nat : Queued(x)' <=> Queued(x))
    BY <1>1, <1>4 DEF Given, Queued
  <2>2. GivenInv'
    BY <1>2, <1>3, <1>4, <2>1 DEF GivenInv
  <2>3. PoolTypes' /\ WorkersInv' /\ MarksInv'
    BY <1>1, <1>2, <1>4 DEF PoolTypes, WorkersInv, MarksInv
  <2> QED BY <2>2, <2>3 DEF PoolInv
<1>5. ASSUME NEW w \in Ids, IdleWorker(w, busy), DispatchToWorker(w, r, busy, pending),
             UNCHANGED requestQueue
      PROVE  PoolInv'
  <2>1. phase = "running" => Exact(busy, pending)
    BY <1>2 DEF MarksInv, Exact
  <2>2. /\ mailbox' \in [Ids -> Seq(Nat)] /\ pending' \subseteq Nat \X Nat
        /\ responses' \subseteq Nat \X Nat
        /\ WorkersInv' /\ MarksInv'
        /\ \A x, v \in Nat : Given(x, v)' => Given(x, v) \/ (x = r /\ v = w)
    BY <1>1, <1>2, <1>5, <2>1, DispatchKeeps
  <2>3. \A x \in Nat : Queued(x)' <=> Queued(x)
    BY <1>5 DEF Queued
  <2>4. \A x, v \in Nat : Given(x, v)' => x \in 1 .. asked' /\ ~Queued(x)'
    BY <1>1, <1>2, <1>3, <2>2, <2>3 DEF GivenInv
  <2>5. \A x, u, v \in Nat : Given(x, u)' /\ Given(x, v)' => u = v
    BY <1>2, <1>3, <2>2 DEF GivenInv
  <2>6. GivenInv'
    BY <1>2, <1>3, <1>5, <2>3, <2>4, <2>5 DEF GivenInv
  <2> QED BY <1>1, <1>2, <1>5, <2>2, <2>6 DEF PoolInv, PoolTypes
<1>6. CASE requestQueue' = Append(requestQueue, r) /\ UNCHANGED <<busy, mailbox, pending>>
  <2>1. requestQueue \in Seq(Nat)
    BY <1>2 DEF PoolTypes
  <2>2. /\ requestQueue' \in Seq(Nat)
        /\ DOMAIN requestQueue' = 1 .. Len(requestQueue) + 1
        /\ DOMAIN requestQueue = 1 .. Len(requestQueue) /\ Len(requestQueue) \in Nat
        /\ \A i \in 1 .. Len(requestQueue) : requestQueue'[i] = requestQueue[i]
        /\ requestQueue'[Len(requestQueue) + 1] = r
    BY <1>1, <1>6, <2>1
  <2>3. \A i \in DOMAIN requestQueue' : i \in DOMAIN requestQueue \/ i = Len(requestQueue) + 1
    BY <2>2
  <2>4. \A x \in Nat : Queued(x)' => Queued(x) \/ x = r
    BY <2>2, <2>3 DEF Queued
  <2>5. \A i \in DOMAIN requestQueue : requestQueue[i] # r
    <3>1. \A i \in DOMAIN requestQueue : requestQueue[i] \in Nat
      BY <2>1
    <3> QED BY <1>3, <3>1 DEF Queued
  <2>6. \A i, j \in DOMAIN requestQueue' : requestQueue'[i] = requestQueue'[j] => i = j
    BY <1>2, <2>2, <2>3, <2>5 DEF GivenInv
  <2>7. \A x, v \in Nat : Given(x, v)' <=> Given(x, v)
    BY <1>1, <1>6 DEF Given
  <2>8. \A x \in Nat : Queued(x)' => x \in 1 .. asked'
    BY <1>1, <1>2, <1>3, <2>4
  <2>9. GivenInv'
    BY <1>2, <1>3, <2>4, <2>6, <2>7, <2>8 DEF GivenInv
  <2>10. PoolTypes' /\ WorkersInv' /\ MarksInv'
    BY <1>1, <1>2, <1>6, <2>2 DEF PoolTypes, WorkersInv, MarksInv
  <2> QED BY <2>9, <2>10 DEF PoolInv
<1> QED BY <1>4, <1>5, <1>6 DEF ComputeMove

\* A message that moves on or is lost gives no request to another worker.
LEMMA MessagesKeep ==
    ASSUME PoolInv, mailbox' \in [Ids -> Seq(Nat)], responses' \subseteq Nat \X Nat,
           \A r, w \in Nat : Given(r, w)' => Given(r, w),
           \A r \in Nat : Queued(r)' => Queued(r),
           \A i, j \in DOMAIN requestQueue' : requestQueue'[i] = requestQueue'[j] => i = j,
           requestQueue' \in Seq(Nat), WorkersInv', MarksInv', workers' \in Seq(Nat),
           created' \in Nat, pending' \subseteq pending, UNCHANGED asked
    PROVE  PoolInv'
<1>1. GivenInv'
  BY DEF PoolInv, GivenInv
<1>2. PoolTypes'
  BY DEF PoolInv, PoolTypes
<1> QED BY <1>1, <1>2 DEF PoolInv

\* An answer takes the place of its message.
LEMMA AnswerKeeps ==
    ASSUME PoolInv, NEW w \in Ids, Answer(w)
    PROVE  PoolInv'
<1>1. /\ mailbox[w] # << >>
      /\ mailbox' = [mailbox EXCEPT ![w] = Tail(@)]
      /\ responses' = responses \cup {<<Head(mailbox[w]), w>>}
      /\ UNCHANGED <<size, phase, workers, created, busy, pending, requestQueue, asked>>
  BY DEF Answer, pool, requests
<1>2. PoolTypes /\ w \in Nat
  BY IdsAreNat DEF PoolInv
<1>3. mailbox \in [Ids -> Seq(Nat)] /\ mailbox[w] \in Seq(Nat)
  BY <1>2 DEF PoolTypes
<1> DEFINE box == mailbox[w]
<1>4. /\ Head(box) \in Nat /\ Tail(box) \in Seq(Nat)
      /\ 1 \in DOMAIN box /\ Head(box) = box[1]
      /\ \A i \in DOMAIN Tail(box) : i + 1 \in DOMAIN box /\ Tail(box)[i] = box[i + 1]
  <2>1. box \in Seq(Nat) /\ box # << >>
    BY <1>1, <1>3
  <2> HIDE DEF box
  <2>2. /\ Head(box) \in Nat /\ Tail(box) \in Seq(Nat) /\ Len(Tail(box)) = Len(box) - 1
        /\ 1 \in DOMAIN box /\ Head(box) = box[1] /\ Len(box) \in Nat
        /\ DOMAIN box = 1 .. Len(box) /\ DOMAIN Tail(box) = 1 .. Len(box) - 1
        /\ \A i \in 1 .. Len(box) - 1 : Tail(box)[i] = box[i + 1]
    BY <2>1
  <2>3. \A i \in 1 .. Len(box) - 1 : i + 1 \in 1 .. Len(box)
    BY <2>2
  <2> QED BY <2>2, <2>3
<1>5. /\ mailbox' \in [Ids -> Seq(Nat)] /\ mailbox'[w] = Tail(box)
      /\ \A v \in Ids \ {w} : mailbox'[v] = mailbox[v]
  BY <1>1, <1>3, <1>4
<1> HIDE DEF box
<1>6. ASSUME NEW r \in Nat, NEW v \in Nat, Given(r, v)'
      PROVE  Given(r, v)
  <2>1. CASE <<r, v>> \in pending'
    BY <1>1, <2>1 DEF Given
  <2>2. CASE <<r, v>> \in responses'
    BY <1>1, <1>4, <2>2 DEF Given, box
  <2>3. CASE v \in Ids /\ \E i \in DOMAIN mailbox'[v] : mailbox'[v][i] = r
    <3>1. CASE v = w
      <4>1. PICK i \in DOMAIN Tail(box) : Tail(box)[i] = r
        BY <1>5, <2>3, <3>1
      <4>2. i + 1 \in DOMAIN box /\ box[i + 1] = r
        BY <1>4, <4>1
      <4> QED BY <2>3, <3>1, <4>2 DEF Given, box
    <3>2. CASE v # w
      BY <1>5, <2>3, <3>2 DEF Given
    <3> QED BY <3>1, <3>2
  <2> QED BY <1>6, <2>1, <2>2, <2>3 DEF Given
<1>7. responses' \subseteq Nat \X Nat
  BY <1>1, <1>2, <1>4 DEF PoolTypes, box
<1>8. WorkersInv' /\ MarksInv' /\ \A r \in Nat : Queued(r)' => Queued(r)
  BY <1>1 DEF PoolInv, WorkersInv, MarksInv, Queued
<1>9. /\ \A i, j \in DOMAIN requestQueue' : requestQueue'[i] = requestQueue'[j] => i = j
      /\ requestQueue' \in Seq(Nat) /\ workers' \in Seq(Nat) /\ created' \in Nat
  BY <1>1 DEF PoolInv, PoolTypes, GivenInv
<1> QED BY <1>1, <1>5, <1>6, <1>7, <1>8, <1>9, MessagesKeep

\* A late answer changes nothing; one in time ends its request.
LEMMA HandleWorkerResponseKeeps ==
    ASSUME PoolInv, NEW r \in Requests, NEW w \in Ids, HandleWorkerResponse(r, w)
    PROVE  PoolInv'
<1>1. /\ <<r, w>> \in responses /\ responses' = responses \ {<<r, w>>}
      /\ UNCHANGED <<size, phase, workers, created, dead, asked>>
  BY DEF HandleWorkerResponse
<1>2. r \in Nat /\ w \in Nat
  BY IdsAreNat, PoolAssumption DEF Requests
<1>3. CASE Pending(r)
  <2>1. PICK entry \in pending : entry[1] = r
    BY <1>3 DEF Pending
  <2>2. entry = <<r, entry[2]>> /\ entry[2] \in Nat
    BY <2>1 DEF PoolInv, PoolTypes
  <2>3. Given(r, w) /\ Given(r, entry[2])
    BY <1>1, <2>1, <2>2 DEF Given
  <2>4. <<r, w>> \in pending
    BY <1>2, <2>1, <2>2, <2>3 DEF PoolInv, GivenInv
  <2>5. ProcessQueue(busy \ {w}, WithoutRequest(r))
    BY <1>3 DEF HandleWorkerResponse
  <2> QED BY <1>1, <1>2, <2>4, <2>5, ProcessQueueKeeps
<1>4. CASE ~Pending(r)
  <2>1. UNCHANGED <<busy, mailbox, pending, requestQueue>>
    BY <1>4 DEF HandleWorkerResponse
  <2>2. \A q, v \in Nat : Given(q, v)' => Given(q, v)
    BY <1>1, <2>1 DEF Given
  <2>3. WorkersInv' /\ MarksInv' /\ \A q \in Nat : Queued(q)' => Queued(q)
    BY <1>1, <2>1 DEF PoolInv, WorkersInv, MarksInv, Queued
  <2>4. /\ \A i, j \in DOMAIN requestQueue' : requestQueue'[i] = requestQueue'[j] => i = j
        /\ requestQueue' \in Seq(Nat) /\ workers' \in Seq(Nat) /\ created' \in Nat
        /\ responses' \subseteq Nat \X Nat /\ mailbox' \in [Ids -> Seq(Nat)]
    BY <1>1, <2>1 DEF PoolInv, PoolTypes, GivenInv
  <2> QED BY <1>1, <2>1, <2>2, <2>3, <2>4, MessagesKeep
<1> QED BY <1>3, <1>4

\* A timeout ends its request, whatever the thread does later.
LEMMA MoveTimeoutKeeps ==
    ASSUME PoolInv, NEW r \in Requests, NEW w \in Ids, MoveTimeout(r, w)
    PROVE  PoolInv'
<1>1. r \in Nat /\ w \in Nat
  BY IdsAreNat, PoolAssumption DEF Requests
<1> QED BY <1>1, ProcessQueueKeeps DEF MoveTimeout

\* With a thread goes what was posted to it.
LEMMA ThreadDiesKeeps ==
    ASSUME PoolInv, NEW w \in Ids, ThreadDies(w)
    PROVE  PoolInv'
<1>1. /\ mailbox' = [mailbox EXCEPT ![w] = << >>]
      /\ UNCHANGED <<size, phase, workers, created, busy, responses, pending,
                     requestQueue, asked>>
  BY DEF ThreadDies, pool, requests
<1>2. mailbox \in [Ids -> Seq(Nat)]
  BY DEF PoolInv, PoolTypes
<1>3. /\ mailbox' \in [Ids -> Seq(Nat)] /\ mailbox'[w] = << >>
      /\ \A v \in Ids \ {w} : mailbox'[v] = mailbox[v]
  BY <1>1, <1>2
<1>4. \A r, v \in Nat : Given(r, v)' => Given(r, v)
  BY <1>1, <1>3 DEF Given
<1>5. WorkersInv' /\ MarksInv' /\ \A q \in Nat : Queued(q)' => Queued(q)
  BY <1>1 DEF PoolInv, WorkersInv, MarksInv, Queued
<1>6. /\ \A i, j \in DOMAIN requestQueue' : requestQueue'[i] = requestQueue'[j] => i = j
      /\ requestQueue' \in Seq(Nat) /\ workers' \in Seq(Nat) /\ created' \in Nat
      /\ responses' \subseteq Nat \X Nat
  BY <1>1 DEF PoolInv, PoolTypes, GivenInv
<1> QED BY <1>1, <1>3, <1>4, <1>5, <1>6, MessagesKeep

\* The replacement, if there is one, has an id that is marked nowhere.
LEMMA HandleWorkerCrashKeeps ==
    ASSUME PoolInv, NEW w \in Ids, HandleWorkerCrash(w)
    PROVE  PoolInv'
<1>1. PICK i \in DOMAIN workers : \/ workers' = Append(RemoveAt(workers, i), created)
                                 \/ workers' = RemoveAt(workers, i)
  BY DEF HandleWorkerCrash
<1>2. /\ created' = created + 1
      /\ UNCHANGED <<phase, busy, mailbox, responses, pending, requestQueue, asked>>
  BY DEF HandleWorkerCrash, threads, requests
<1>3. workers \in Seq(Nat) /\ created \in Nat /\ PoolTypes /\ WorkersInv
  BY DEF PoolInv, PoolTypes
<1> DEFINE rest == RemoveAt(workers, i)
           len == Len(workers)
<1>4. /\ rest \in Seq(Nat) /\ Len(rest) = len - 1
      /\ \A j \in 1 .. len - 1 : /\ j < i => rest[j] = workers[j]
                                 /\ j >= i => rest[j] = workers[j + 1]
  BY <1>3, RemoveAtIsSplice
<1>5. DOMAIN workers = 1 .. len /\ len \in Nat /\ i \in 1 .. len
  BY <1>3
<1> DEFINE from == [j \in 1 .. len - 1 |-> IF j < i THEN j ELSE j + 1]
<1> HIDE DEF rest, len
<1>6. /\ \A j \in 1 .. len - 1 : from[j] \in DOMAIN workers /\ rest[j] = workers[from[j]]
      /\ \A j, k \in 1 .. len - 1 : from[j] = from[k] => j = k
  <2>1. ASSUME NEW j \in 1 .. len - 1
        PROVE  from[j] \in 1 .. len /\ rest[j] = workers[from[j]]
    <3>1. CASE j < i
      BY <1>4, <1>5, <3>1
    <3>2. CASE ~(j < i)
      BY <1>4, <1>5, <3>2
    <3> QED BY <3>1, <3>2
  <2>2. \A j, k \in 1 .. len - 1 : from[j] = from[k] => j = k
    BY <1>5
  <2> QED BY <1>5, <2>1, <2>2
<1> HIDE DEF from
<1>7. /\ workers' \in Seq(Nat) /\ DOMAIN workers' \in {1 .. len, 1 .. len - 1}
      /\ \A j \in 1 .. len - 1 : workers'[j] = workers[from[j]]
      /\ len \in DOMAIN workers' => workers'[len] = created
  <2>1. CASE workers' = Append(rest, created)
    BY <1>3, <1>4, <1>5, <1>6, <2>1
  <2>2. CASE workers' = rest
    BY <1>4, <1>5, <1>6, <2>2
  <2> QED BY <1>1, <2>1, <2>2 DEF rest
<1>8. \A j \in DOMAIN workers' : j \in 1 .. len - 1 \/ j = len
  BY <1>5, <1>7
<1>9. \A j \in DOMAIN workers : workers[j] \in Nat /\ workers[j] < created
  BY <1>3 DEF WorkersInv
<1>10. WorkersInv'
  <2>1. ASSUME NEW j \in DOMAIN workers' PROVE workers'[j] < created'
    <3>1. CASE j \in 1 .. len - 1
      <4>1. /\ workers'[j] = workers[from[j]] /\ from[j] \in DOMAIN workers
        BY <1>6, <1>7, <3>1
      <4> DEFINE n == workers[from[j]]
      <4>2. n \in Nat /\ n < created
        BY <1>9, <4>1
      <4> HIDE DEF n
      <4>3. n < created + 1
        BY <1>3, <4>2
      <4> QED BY <1>2, <4>1, <4>3 DEF n
    <3>2. CASE j = len
      BY <1>2, <1>3, <1>7, <3>2
    <3> QED BY <1>8, <3>1, <3>2
  <2>2. \A j, k \in DOMAIN workers' : workers'[j] = workers'[k] => j = k
    <3>1. \A j \in 1 .. len - 1 : workers'[j] # created
      <4>1. \A j \in DOMAIN workers : workers[j] # created
        BY <1>3, <1>9
      <4> QED BY <1>6, <1>7, <4>1
    <3>2. ASSUME NEW j \in 1 .. len - 1, NEW k \in 1 .. len - 1, workers'[j] = workers'[k]
          PROVE  j = k
      <4>1. workers[from[j]] = workers[from[k]]
        BY <1>7, <3>2
      <4>2. from[j] = from[k]
        BY <1>3, <1>6, <4>1 DEF WorkersInv
      <4> QED BY <1>6, <4>2
    <3> QED BY <1>7, <1>8, <3>1, <3>2
  <2>3. busy' \subseteq 0 .. created' - 1
    BY <1>2, <1>3 DEF WorkersInv
  <2>4. \A r, v \in Nat : <<r, v>> \in pending' => v < created'
    BY <1>2, <1>3 DEF WorkersInv
  <2> QED BY <2>1, <2>2, <2>3, <2>4 DEF WorkersInv
<1>11. MarksInv'
  <2>1. created \notin busy /\ \A r \in Nat : <<r, created>> \notin pending
    BY <1>3 DEF WorkersInv
  <2>2. ASSUME phase = "running", NEW j \in DOMAIN workers'
        PROVE  workers'[j] \in busy' <=> \E r \in Nat : <<r, workers'[j]>> \in pending'
    <3>1. CASE j \in 1 .. len - 1
      <4>1. workers'[j] = workers[from[j]] /\ from[j] \in DOMAIN workers
        BY <1>6, <1>7, <3>1
      <4> QED BY <1>2, <2>2, <4>1 DEF PoolInv, MarksInv
    <3>2. CASE j = len
      BY <1>2, <1>7, <2>1, <2>2, <3>2
    <3> QED BY <1>8, <2>2, <3>1, <3>2
  <2> QED BY <1>2, <2>2 DEF PoolInv, MarksInv
<1>12. (\A r, v \in Nat : Given(r, v)' => Given(r, v)) /\ \A r \in Nat : Queued(r)' => Queued(r)
  BY <1>2 DEF Given, Queued
<1>13. /\ \A j, k \in DOMAIN requestQueue' : requestQueue'[j] = requestQueue'[k] => j = k
       /\ requestQueue' \in Seq(Nat) /\ created' \in Nat
       /\ responses' \subseteq Nat \X Nat /\ mailbox' \in [Ids -> Seq(Nat)]
  BY <1>2 DEF PoolInv, PoolTypes, GivenInv
<1> QED BY <1>2, <1>7, <1>10, <1>11, <1>12, <1>13, MessagesKeep

\* shutdownPool forgets what waits.
LEMMA ShutdownPoolKeeps ==
    ASSUME PoolInv, ShutdownPool
    PROVE  PoolInv'
<1>1. /\ phase' = "shuttingDown" /\ requestQueue' = << >> /\ pending' = {}
      /\ UNCHANGED <<workers, created, busy, mailbox, responses, asked>>
  BY DEF ShutdownPool, threads
<1>2. requestQueue' \in Seq(Nat) /\ DOMAIN requestQueue' = {}
  BY <1>1
<1>3. WorkersInv' /\ MarksInv'
  BY <1>1 DEF PoolInv, WorkersInv, MarksInv
<1>4. (\A r, v \in Nat : Given(r, v)' => Given(r, v)) /\ \A r \in Nat : Queued(r)' => Queued(r)
  BY <1>1, <1>2 DEF Given, Queued
<1>5. /\ created' \in Nat /\ workers' \in Seq(Nat)
      /\ responses' \subseteq Nat \X Nat /\ mailbox' \in [Ids -> Seq(Nat)]
  BY <1>1 DEF PoolInv, PoolTypes
<1>6. /\ pending' \subseteq pending /\ UNCHANGED asked
      /\ \A i, j \in DOMAIN requestQueue' : requestQueue'[i] = requestQueue'[j] => i = j
  BY <1>1, <1>2
<1> QED BY <1>2, <1>3, <1>4, <1>5, <1>6, MessagesKeep

\* Nothing is left of the threads.
LEMMA PoolIsDownKeeps ==
    ASSUME PoolInv, PoolIsDown
    PROVE  PoolInv'
<1>1. /\ phase' = "down" /\ workers' = << >>
      /\ mailbox' = [w \in Ids |-> << >>] /\ responses' = {}
      /\ UNCHANGED <<created, busy, pending, requestQueue, asked>>
  BY DEF PoolIsDown, requests
<1>2. workers' \in Seq(Nat) /\ DOMAIN workers' = {}
  BY <1>1
<1>3. << >> \in Seq(Nat)
  OBVIOUS
<1>4. mailbox' \in [Ids -> Seq(Nat)] /\ \A w \in Ids : DOMAIN mailbox'[w] = {}
  BY <1>1, <1>3
<1>5. WorkersInv' /\ MarksInv'
  BY <1>1, <1>2 DEF PoolInv, WorkersInv, MarksInv
<1>6. (\A r, v \in Nat : Given(r, v)' => Given(r, v)) /\ \A r \in Nat : Queued(r)' => Queued(r)
  BY <1>1, <1>4 DEF Given, Queued
<1>7. /\ created' \in Nat /\ requestQueue' \in Seq(Nat) /\ responses' \subseteq Nat \X Nat
      /\ \A i, j \in DOMAIN requestQueue' : requestQueue'[i] = requestQueue'[j] => i = j
  BY <1>1 DEF PoolInv, PoolTypes, GivenInv
<1>8. pending' \subseteq pending /\ UNCHANGED asked
  BY <1>1
<1> QED BY <1>2, <1>4, <1>5, <1>6, <1>7, <1>8, MessagesKeep

\* Every step of the pool keeps its invariant.
LEMMA PoolStep ==
    ASSUME PoolInv, PoolNext
    PROVE  PoolInv'
BY ComputeMoveKeeps, AnswerKeeps, ThreadDiesKeeps, HandleWorkerCrashKeeps,
   HandleWorkerResponseKeeps, MoveTimeoutKeeps, ShutdownPoolKeeps, PoolIsDownKeeps
   DEF PoolNext, Timeouts

\* The pool starts with idle workers.
LEMMA PoolStart == PoolInit => PoolInv
<1> SUFFICES ASSUME PoolInit PROVE PoolInv
  OBVIOUS
<1>1. /\ size \in 1 .. MaxPoolSize /\ workers = [i \in 1 .. size |-> i - 1]
      /\ created = size /\ busy = {} /\ mailbox = [w \in Ids |-> << >>]
      /\ responses = {} /\ pending = {} /\ requestQueue = << >> /\ asked = 0
  BY DEF PoolInit
<1>2. size \in Nat /\ size > 0 /\ 0 \in 0 .. MaxRequests
  BY <1>1, PoolAssumption
<1>3. /\ workers \in Seq(Nat) /\ DOMAIN workers = 1 .. size
      /\ \A i \in 1 .. size : workers[i] = i - 1
  <2>1. workers \in [1 .. size -> Nat]
    BY <1>1, <1>2
  <2> QED BY <1>1, <1>2, <2>1
<1>4. mailbox \in [Ids -> Seq(Nat)] /\ \A w \in Ids : DOMAIN mailbox[w] = {}
  <2>1. << >> \in Seq(Nat)
    OBVIOUS
  <2> QED BY <1>1, <2>1
<1>5. requestQueue \in Seq(Nat) /\ DOMAIN requestQueue = {}
  BY <1>1
<1>6. PoolTypes
  BY <1>1, <1>2, <1>3, <1>4, <1>5 DEF PoolTypes
<1>7. WorkersInv
  BY <1>1, <1>2, <1>3 DEF WorkersInv
<1>8. GivenInv
  BY <1>1, <1>4, <1>5 DEF GivenInv, Given, Queued
<1>9. MarksInv
  BY <1>1 DEF MarksInv
<1> QED BY <1>6, <1>7, <1>8, <1>9 DEF PoolInv

\* The invariant implies the property.
LEMMA PoolInvGivesMarks == PoolInv => BusyMeansPending
<1> SUFFICES ASSUME PoolInv, phase = "running"
             PROVE  /\ \A i \in DOMAIN workers :
                          workers[i] \in busy
                             <=> \E r \in Requests : <<r, workers[i]>> \in pending
                    /\ \A e, f \in pending : e # f => e[1] # f[1] /\ e[2] # f[2]
  BY DEF BusyMeansPending
<1>1. /\ pending \subseteq Nat \X Nat /\ workers \in Seq(Nat) /\ asked \in 0 .. MaxRequests
  BY DEF PoolInv, PoolTypes
<1>2. \A r, w \in Nat : <<r, w>> \in pending => r \in Requests
  BY <1>1, PoolAssumption DEF PoolInv, GivenInv, Given, Requests
<1>3. Requests \subseteq Nat
  BY PoolAssumption DEF Requests
<1>4. \A i \in DOMAIN workers : workers[i] \in Nat
  BY <1>1
<1>5. \A i \in DOMAIN workers :
         workers[i] \in busy <=> \E r \in Requests : <<r, workers[i]>> \in pending
  BY <1>2, <1>3, <1>4 DEF PoolInv, MarksInv
<1>6. ASSUME NEW e \in pending, NEW f \in pending, e # f
      PROVE  e[1] # f[1] /\ e[2] # f[2]
  <2>1. /\ e = <<e[1], e[2]>> /\ f = <<f[1], f[2]>>
        /\ e[1] \in Nat /\ e[2] \in Nat /\ f[1] \in Nat /\ f[2] \in Nat
    BY <1>1
  <2>2. e[1] # f[1]
    <3>1. Given(e[1], e[2]) /\ Given(f[1], f[2])
      BY <2>1 DEF Given
    <3> QED BY <1>6, <2>1, <3>1 DEF PoolInv, GivenInv
  <2>3. e[2] # f[2]
    BY <1>6, <2>1 DEF PoolInv, MarksInv
  <2> QED BY <2>2, <2>3
<1> QED BY <1>5, <1>6

\* Whatever times out, answers late, dies or shuts down, in whatever order: while
\* the pool runs, a worker is marked busy exactly as long as one request is
\* pending on it (worker-pool.ts).
THEOREM MarksStayExact == PoolSpec => []BusyMeansPending
<1>1. PoolInv /\ UNCHANGED poolVars => PoolInv'
  <2> SUFFICES ASSUME PoolInv, UNCHANGED poolVars PROVE PoolInv'
    OBVIOUS
  <2>1. UNCHANGED <<phase, workers, created, busy, mailbox, responses, pending, requestQueue, asked>>
    BY DEF poolVars, pool, threads, requests
  <2>2. (\A r, w \in Nat : Given(r, w)' <=> Given(r, w)) /\ \A r \in Nat : Queued(r)' <=> Queued(r)
    BY <2>1 DEF Given, Queued
  <2>3. PoolTypes' /\ WorkersInv' /\ MarksInv'
    BY <2>1 DEF PoolInv, PoolTypes, WorkersInv, MarksInv
  <2>4. GivenInv'
    BY <2>1, <2>2 DEF PoolInv, GivenInv
  <2> QED BY <2>3, <2>4 DEF PoolInv
<1> QED BY <1>1, PoolStart, PoolStep, PoolInvGivesMarks, PTL DEF PoolSpec

=============================================================================
