----------------------------- MODULE ClientProofs -----------------------------
(***************************************************************************)
(* Theorems about a game as its players' browsers see it, for any number   *)
(* of players, actions and broken connections.                             *)
(***************************************************************************)
EXTENDS MCClients, SequenceTheorems, TLAPS

\* What a socket is sent
Messages == [type : {"started", "update", "ended", "full_sync"}, state : States] \cup {Refused}

IsState(message) == message # Refused

\* A queue of messages whose states come in order, from one numbered low or later
\* to one numbered high at most
InOrder(queue, low, high) ==
    /\ \A i \in DOMAIN queue : IsState(queue[i]) =>
          low =< queue[i].state.version /\ queue[i].state.version =< high
    /\ \A i, j \in DOMAIN queue : i =< j /\ IsState(queue[i]) /\ IsState(queue[j]) =>
          queue[i].state.version =< queue[j].state.version

ClientInv ==
    /\ State \in States
    /\ view \in [Players -> States \cup {None}]
    /\ down \in [Players -> Seq(Messages)]
    /\ \A broadcast \in broadcasts : broadcast.type \in {"started", "update"}
    /\ \A p \in Players : Shown(p) =< version /\ InOrder(down[p], Shown(p), version)

\* A message that is no refusal carries a state; None is none.
LEMMA MessageTypes ==
    /\ \A m \in Messages : IsState(m) => m.state \in States /\ m.state.version \in Nat
    /\ \A s \in States : s.version \in Nat /\ s # None
    /\ Refused \in Messages
    /\ \A type \in {"started", "update", "ended", "full_sync"}, s \in States :
          /\ Message(type, s) \in Messages /\ Message(type, s).state = s
<1>1. \A s \in States : s.version \in Nat /\ s # None
  BY ClientAssumption DEF States
<1>2. \A m \in Messages : IsState(m) => m.state \in States
  BY DEF Messages, IsState
<1> QED BY <1>1, <1>2 DEF Messages, Message

\* Later states come behind what is unread.
LEMMA Sent ==
    ASSUME NEW queue \in Seq(Messages), NEW sent \in Seq(Messages),
           NEW low \in Nat, NEW high \in Nat, NEW now \in Nat, high =< now, low =< high,
           InOrder(queue, low, high),
           \A i \in DOMAIN sent : IsState(sent[i]) => sent[i].state.version = now
    PROVE  queue \o sent \in Seq(Messages) /\ InOrder(queue \o sent, low, now)
<1> DEFINE both == queue \o sent
           m == Len(queue)
<1>1. /\ both \in Seq(Messages) /\ Len(both) = m + Len(sent)
      /\ \A i \in 1 .. m + Len(sent) : both[i] = IF i =< m THEN queue[i] ELSE sent[i - m]
  BY ConcatProperties
<1>2. m \in Nat /\ Len(sent) \in Nat /\ DOMAIN queue = 1 .. m /\ DOMAIN sent = 1 .. Len(sent)
  OBVIOUS
<1>3. DOMAIN both = 1 .. m + Len(sent)
  BY <1>1
<1> HIDE DEF both, m
<1>4. \A i \in 1 .. m + Len(sent) :
         \/ i \in 1 .. m /\ both[i] = queue[i]
         \/ i - m \in 1 .. Len(sent) /\ i > m /\ both[i] = sent[i - m]
  BY <1>1, <1>2
<1>5. \A i \in DOMAIN both : IsState(both[i]) =>
         /\ low =< both[i].state.version /\ both[i].state.version =< now
         /\ i > m => both[i].state.version = now
  <2> SUFFICES ASSUME NEW i \in DOMAIN both, IsState(both[i])
               PROVE  /\ low =< both[i].state.version /\ both[i].state.version =< now
                      /\ i > m => both[i].state.version = now
    OBVIOUS
  <2>1. both[i].state.version \in Nat
    BY <1>1, MessageTypes
  <2>2. CASE i \in 1 .. m /\ both[i] = queue[i]
    <3>1. low =< queue[i].state.version /\ queue[i].state.version =< high
      BY <1>2, <2>2 DEF InOrder
    <3> QED BY <1>2, <2>1, <2>2, <3>1
  <2>3. CASE i - m \in 1 .. Len(sent) /\ both[i] = sent[i - m]
    BY <1>2, <2>3
  <2> QED BY <1>3, <1>4, <2>2, <2>3
<1>6. ASSUME NEW i \in DOMAIN both, NEW j \in DOMAIN both, i =< j,
             IsState(both[i]), IsState(both[j])
      PROVE  both[i].state.version =< both[j].state.version
  <2>1. i \in Nat /\ j \in Nat
    BY <1>2, <1>3
  <2>2. CASE j > m
    BY <1>5, <1>6, <2>2
  <2>3. CASE ~(j > m)
    <3>1. /\ i \in 1 .. m /\ j \in 1 .. m
          /\ both[i] = queue[i] /\ both[j] = queue[j]
      BY <1>2, <1>3, <1>4, <1>6, <2>1, <2>3
    <3> QED BY <1>2, <1>6, <3>1 DEF InOrder
  <2> QED BY <2>2, <2>3
<1>7. InOrder(both, low, now)
  BY <1>5, <1>6 DEF InOrder
<1> QED BY <1>1, <1>7 DEF both

\* The first message is read: what is behind it is not older.
LEMMA Read ==
    ASSUME NEW queue \in Seq(Messages), queue # << >>,
           NEW low \in Nat, NEW high \in Nat, InOrder(queue, low, high)
    PROVE  /\ Tail(queue) \in Seq(Messages)
           /\ Head(queue) \in Messages
           /\ ~IsState(Head(queue)) => InOrder(Tail(queue), low, high)
           /\ IsState(Head(queue)) =>
                 /\ low =< Head(queue).state.version /\ Head(queue).state.version =< high
                 /\ InOrder(Tail(queue), Head(queue).state.version, high)
<1> DEFINE rest == Tail(queue)
<1>1. /\ Head(queue) = queue[1] /\ Head(queue) \in Messages /\ rest \in Seq(Messages)
      /\ Len(queue) \in Nat /\ 1 \in 1 .. Len(queue) /\ DOMAIN queue = 1 .. Len(queue)
      /\ DOMAIN rest = 1 .. Len(queue) - 1
      /\ \A i \in 1 .. Len(queue) - 1 : rest[i] = queue[i + 1]
  OBVIOUS
<1>2. \A i \in 1 .. Len(queue) - 1 : i + 1 \in 1 .. Len(queue) /\ 1 =< i + 1
  BY <1>1
<1>3. \A i, j \in 1 .. Len(queue) - 1 : i =< j => i + 1 =< j + 1
  BY <1>1
<1> HIDE DEF rest
<1>4. InOrder(rest, low, high)
  BY <1>1, <1>2, <1>3 DEF InOrder
<1>5. IsState(Head(queue)) => InOrder(rest, Head(queue).state.version, high)
  BY <1>1, <1>2, <1>4 DEF InOrder
<1>6. IsState(Head(queue)) => low =< Head(queue).state.version /\ Head(queue).state.version =< high
  BY <1>1 DEF InOrder
<1> QED BY <1>1, <1>4, <1>5, <1>6 DEF rest

\* The server goes on, and sends to some sockets the state it has then.
LEMMA ServerKeeps ==
    ASSUME ClientInv, State' \in States, version =< version', UNCHANGED view,
           \A broadcast \in broadcasts' : broadcast.type \in {"started", "update"},
           down' \in [Players -> Seq(Messages)],
           NEW sent \in [Players -> Seq(Messages)],
           \A p \in Players : \A i \in DOMAIN sent[p] :
              IsState(sent[p][i]) => sent[p][i].state.version = version',
           \A p \in Players : down'[p] \in {down[p], down[p] \o sent[p], << >>}
    PROVE  ClientInv' /\ \A p \in Players : Shown(p)' >= Shown(p)
<1>1. version \in Nat /\ version' \in Nat
  BY MessageTypes DEF ClientInv, State
<1>2. \A p \in Players : Shown(p) \in Nat /\ Shown(p)' = Shown(p) /\ Shown(p) =< version
  BY MessageTypes DEF ClientInv, Shown
<1>3. ASSUME NEW p \in Players
      PROVE  InOrder(down'[p], Shown(p), version')
  <2>1. down[p] \in Seq(Messages) /\ InOrder(down[p], Shown(p), version)
    BY DEF ClientInv
  <2>2. CASE down'[p] = << >>
    BY <2>2 DEF InOrder
  <2>3. CASE down'[p] = down[p] \o sent[p]
    BY <1>1, <1>2, <2>1, <2>3, Sent
  <2>4. CASE down'[p] = down[p]
    <3>1. << >> \in Seq(Messages) /\ down[p] \o << >> = down[p] /\ DOMAIN << >> = {}
      BY <2>1, ConcatEmptySeq
    <3>2. InOrder(down[p] \o << >>, Shown(p), version')
      BY <1>1, <1>2, <2>1, <3>1, Sent
    <3> QED BY <2>4, <3>1, <3>2
  <2> QED BY <2>2, <2>3, <2>4
<1>4. \A p \in Players : Shown(p)' =< version' /\ Shown(p)' >= Shown(p)
  BY <1>1, <1>2
<1>5. \A p \in Players : InOrder(down[p], Shown(p), version)'
  BY <1>2, <1>3
<1> QED BY <1>4, <1>5 DEF ClientInv

\* No client is shown an older state.
Steady == \A p \in Players : Shown(p)' >= Shown(p)

\* Numbers are compared.
LEMMA VersionIsNat ==
    ASSUME ClientInv
    PROVE  version \in Nat /\ \A p \in Players : Shown(p) \in Nat
BY MessageTypes DEF ClientInv, State, Shown

\* What reaches a socket changes, but not the state or the views.
LEMMA QueuesKeep ==
    ASSUME ClientInv, UNCHANGED <<session, view>>,
           \A broadcast \in broadcasts' : broadcast.type \in {"started", "update"},
           down' \in [Players -> Seq(Messages)], NEW sent \in [Players -> Seq(Messages)],
           \A p \in Players : \A i \in DOMAIN sent[p] :
              IsState(sent[p][i]) => sent[p][i].state.version = version,
           \A p \in Players : down'[p] \in {down[p], down[p] \o sent[p], << >>}
    PROVE  ClientInv' /\ Steady
<1>1. State' \in States /\ version =< version' /\ version' = version /\ UNCHANGED view
  BY VersionIsNat DEF ClientInv, State, session
<1> QED BY <1>1, ServerKeeps DEF Steady

\* Neither the queues nor the views change.
LEMMA SessionKeeps ==
    ASSUME ClientInv, State' \in States, version =< version', UNCHANGED <<down, view>>,
           \A broadcast \in broadcasts' : broadcast.type \in {"started", "update"}
    PROVE  ClientInv' /\ Steady
<1>1. down \in [Players -> Seq(Messages)]
  BY DEF ClientInv
<1> DEFINE none == [p \in Players |-> << >>]
<1>3. none \in [Players -> Seq(Messages)] /\ \A p \in Players : DOMAIN none[p] = {}
  OBVIOUS
<1> HIDE DEF none
<1>2. down' \in [Players -> Seq(Messages)] /\ \A p \in Players : down'[p] = down[p]
  BY DEF ClientInv
<1> QED BY <1>2, <1>3, ServerKeeps DEF Steady

\* Nothing changes that the invariant is about.
LEMMA UntouchedKeeps ==
    ASSUME ClientInv, UNCHANGED <<session, down, view>>,
           \A broadcast \in broadcasts' : broadcast.type \in {"started", "update"}
    PROVE  ClientInv' /\ Steady
<1>1. State' \in States /\ version =< version'
  BY VersionIsNat DEF ClientInv, State, session
<1> QED BY <1>1, SessionKeeps

\* One message, with the present state or a refusal, is sent to everyone in the
\* room or to one player.
LEMMA OneSent ==
    ASSUME ClientInv, State' \in States, version =< version', UNCHANGED <<view, broadcasts>>,
           NEW message \in Messages, IsState(message) => message.state.version = version',
           down' = ToRoom(message) \/ \E p \in Players : down' = ToPlayer(p, message)
    PROVE  ClientInv' /\ Steady
<1> DEFINE sent == <<message>>
<1>1. sent \in Seq(Messages) /\ \A i \in DOMAIN sent : sent[i] = message
  OBVIOUS
<1>2. down \in [Players -> Seq(Messages)]
  BY DEF ClientInv
<1>3. \A p \in Players : Append(down[p], message) = down[p] \o sent
  BY <1>2, AppendIsConcat
<1> HIDE DEF sent
<1>5. \A p \in Players : down[p] \o sent \in Seq(Messages)
  BY <1>1, <1>2, ConcatProperties
<1>6. /\ down' \in [Players -> Seq(Messages)]
      /\ \A p \in Players : down'[p] \in {down[p], down[p] \o sent, << >>}
  <2>1. CASE down' = ToRoom(message)
    BY <1>2, <1>3, <1>5, <2>1 DEF ToRoom
  <2>2. ASSUME NEW p \in Players, down' = ToPlayer(p, message)
        PROVE  /\ down' \in [Players -> Seq(Messages)]
               /\ \A q \in Players : down'[q] \in {down[q], down[q] \o sent, << >>}
    BY <1>2, <1>3, <1>5, <2>2 DEF ToPlayer
  <2> QED BY <2>1, <2>2
<1> DEFINE all == [p \in Players |-> sent]
<1>7. /\ all \in [Players -> Seq(Messages)] /\ \A p \in Players : all[p] = sent
      /\ \A i \in DOMAIN sent : IsState(sent[i]) => sent[i].state.version = version'
  BY <1>1
<1> HIDE DEF all
<1> QED BY <1>6, <1>7, ServerKeeps DEF Steady, ClientInv

\* The same while the state stays.
LEMMA OneAnswered ==
    ASSUME ClientInv, UNCHANGED <<session, view, broadcasts>>,
           NEW message \in Messages, IsState(message) => message.state.version = version,
           down' = ToRoom(message) \/ \E p \in Players : down' = ToPlayer(p, message)
    PROVE  ClientInv' /\ Steady
<1>1. State' \in States /\ version =< version' /\ version' = version /\ UNCHANGED view
  BY VersionIsNat DEF ClientInv, State, session
<1> QED BY <1>1, OneSent

\* A step of the game leads to another state, with a higher number.
LEMMA GameSteps ==
    ASSUME ClientInv, version < MaxActions, version' = version + 1,
           \/ \E p \in Players : Game!Play(p) \/ Game!Forfeit(p)
           \/ Game!Cancel
    PROVE  State' \in States /\ version =< version'
<1>1. /\ turn \in Players /\ version \in 0 .. MaxActions
      /\ status \in {"playing", "finished", "cancelled"} /\ MaxActions \in Nat
  BY ClientAssumption DEF ClientInv, State, States
<1>2. turn' \in Players /\ status' \in {"playing", "finished", "cancelled"}
  BY <1>1 DEF Game!Play, Game!Forfeit, Game!Cancel
<1>3. version' \in 0 .. MaxActions /\ version =< version'
  BY <1>1
<1> QED BY <1>2, <1>3 DEF State, States

\* An action accepted waits for its broadcast; one refused is answered.
LEMMA HandleGameActionKeeps ==
    ASSUME ClientInv, NEW p \in Players, HandleGameAction(p)
    PROVE  ClientInv' /\ Steady
<1>1. UNCHANGED view
  BY DEF HandleGameAction, stores
<1>2. CASE /\ version < MaxActions /\ Game!Play(p) /\ version' = version + 1 /\ UNCHANGED down
           /\ broadcasts' = broadcasts \cup {Waiting("update", State')}
  <2>1. \A broadcast \in broadcasts' : broadcast.type \in {"started", "update"}
    BY <1>2 DEF ClientInv, Waiting
  <2> QED BY <1>1, <1>2, <2>1, GameSteps, SessionKeeps
<1>3. CASE down' = ToPlayer(p, Refused) /\ UNCHANGED <<session, broadcasts>>
  <2>1. /\ Refused \in Messages /\ ~IsState(Refused)
    BY MessageTypes DEF IsState
  <2> QED BY <1>1, <1>3, <2>1, OneAnswered
<1> QED BY <1>2, <1>3 DEF HandleGameAction

\* The state broadcast is that of the moment, not that of the action, whoever was
\* in the room when its sockets were fetched.
LEMMA BroadcastStateKeeps ==
    ASSUME ClientInv, BroadcastState
    PROVE  ClientInv' /\ Steady
<1>1. PICK broadcast \in broadcasts :
         down' = [p \in Players |-> down[p] \o SentBy(broadcast, p)]
  BY DEF BroadcastState
<1> DEFINE sent == [p \in Players |-> SentBy(broadcast, p)]
           types == {"started", "update"}
<1>2. UNCHANGED <<session, view>> /\ broadcast.type \in types
  BY <1>1 DEF BroadcastState, stores, ClientInv
<1>3. /\ \A type \in types \cup {"ended"} : /\ Message(type, State) \in Messages
                                          /\ Message(type, State).state.version = version
  BY MessageTypes DEF ClientInv, State
<1>4. ASSUME NEW p \in Players
      PROVE  /\ sent[p] \in Seq(Messages)
             /\ \A i \in DOMAIN sent[p] : sent[p][i].state.version = version
  <2> DEFINE first == Message(broadcast.type, State)
             last == Message("ended", State)
  <2>1. /\ first \in Messages /\ first.state.version = version
        /\ last \in Messages /\ last.state.version = version
    BY <1>2, <1>3
  <2> DEFINE a == IF p \in broadcast.to THEN <<first>> ELSE << >>
             b == IF broadcast.type = "update" /\ status # "playing" /\ p \in inRoom
                  THEN <<last>> ELSE << >>
  <2>2. sent[p] = a \o b
    BY DEF SentBy, Broadcast
  <2>3. a \in {<< >>, <<first>>} /\ b \in {<< >>, <<last>>}
    OBVIOUS
  <2> HIDE DEF first, last, a, b, sent
  <2>4. /\ a \in Seq(Messages) /\ \A i \in 1 .. Len(a) : a[i].state.version = version
        /\ b \in Seq(Messages) /\ \A i \in 1 .. Len(b) : b[i].state.version = version
    <3>1. ASSUME NEW message \in Messages, message.state.version = version,
                 NEW c, c \in {<< >>, <<message>>}
          PROVE  c \in Seq(Messages) /\ \A i \in 1 .. Len(c) : c[i].state.version = version
      <4>1. CASE c = << >>
        BY <4>1
      <4>2. CASE c = <<message>>
        <5>1. c \in Seq(Messages) /\ Len(c) = 1 /\ c[1] = message
          BY <4>2
        <5>2. \A i \in 1 .. Len(c) : i = 1
          BY <5>1
        <5> QED BY <3>1, <5>1, <5>2
      <4> QED BY <3>1, <4>1, <4>2
    <3> QED BY <2>1, <2>3, <3>1
  <2>5. /\ a \o b \in Seq(Messages) /\ Len(a \o b) = Len(a) + Len(b)
        /\ \A i \in 1 .. Len(a) + Len(b) :
              (a \o b)[i] = IF i =< Len(a) THEN a[i] ELSE b[i - Len(a)]
    BY <2>4, ConcatProperties
  <2> DEFINE both == a \o b
  <2> HIDE DEF both
  <2>6. Len(a) \in Nat /\ Len(b) \in Nat /\ DOMAIN both = 1 .. Len(a) + Len(b)
    BY <2>4, <2>5 DEF both
  <2>7. ASSUME NEW i \in DOMAIN both PROVE both[i].state.version = version
    <3>1. CASE i =< Len(a)
      BY <2>4, <2>5, <2>6, <3>1 DEF both
    <3>2. CASE ~(i =< Len(a))
      <4>1. i - Len(a) \in 1 .. Len(b)
        BY <2>6, <3>2
      <4> QED BY <2>4, <2>5, <2>6, <3>2, <4>1 DEF both
    <3> QED BY <3>1, <3>2
  <2> QED BY <2>2, <2>5, <2>7 DEF both
<1> HIDE DEF sent, types
<1>5. sent \in [Players -> Seq(Messages)]
  BY <1>4 DEF sent
<1>6. /\ down \in [Players -> Seq(Messages)]
      /\ \A p \in Players : down[p] \o sent[p] \in Seq(Messages)
  BY <1>4, ConcatProperties DEF ClientInv
<1>7. \A p \in Players : down'[p] = down[p] \o sent[p]
  BY <1>1 DEF sent
<1>8. down' \in [Players -> Seq(Messages)]
  <2> DEFINE queues == Seq(Messages)
  <2>1. \A p \in Players : down'[p] \in queues
    BY <1>6, <1>7
  <2>2. down' = [p \in Players |-> down'[p]]
    BY <1>1, Zenon
  <2> HIDE DEF queues
  <2>3. down' \in [Players -> queues]
    BY <2>1, <2>2
  <2> QED BY <2>3 DEF queues
<1>9. \A b \in broadcasts' : b.type \in {"started", "update"}
  BY DEF BroadcastState, ClientInv
<1> QED BY <1>2, <1>4, <1>5, <1>7, <1>8, <1>9, QueuesKeep

\* One player is sent the present state, or nothing.
LEMMA StateSent ==
    ASSUME ClientInv, NEW p \in Players, NEW type \in {"started", "full_sync"},
           UNCHANGED <<session, view, broadcasts>>,
           UNCHANGED down \/ down' = ToPlayer(p, Message(type, State))
    PROVE  ClientInv' /\ Steady
<1>1. CASE UNCHANGED down
  BY <1>1, UntouchedKeeps DEF ClientInv
<1>2. CASE down' = ToPlayer(p, Message(type, State))
  <2> DEFINE message == Message(type, State)
  <2>1. message \in Messages /\ message.state.version = version
    BY MessageTypes DEF ClientInv, State
  <2>2. down' = ToPlayer(p, message)
    BY <1>2
  <2> HIDE DEF message
  <2> QED BY <2>1, <2>2, OneAnswered
<1> QED BY <1>1, <1>2

\* The end of an abandoned game is sent at once.
LEMMA DisconnectTimeoutKeeps ==
    ASSUME ClientInv, DisconnectTimeout
    PROVE  ClientInv' /\ Steady
<1> DEFINE message == Message("ended", State')
<1>1. UNCHANGED <<view, broadcasts>> /\ down' = ToRoom(message)
  BY DEF DisconnectTimeout, stores
<1>2. State' \in States /\ version =< version'
  BY GameSteps DEF DisconnectTimeout
<1>3. message \in Messages /\ message.state.version = version'
  BY <1>2, MessageTypes DEF State
<1> HIDE DEF message
<1> QED BY <1>1, <1>2, <1>3, OneSent

\* The state received takes the place of the one shown.
LEMMA ReceiveKeeps ==
    ASSUME ClientInv, NEW p \in Players, Receive(p)
    PROVE  ClientInv' /\ Steady
<1> DEFINE message == Head(down[p])
           rest == Tail(down[p])
<1>1. /\ down[p] # << >> /\ down' = [down EXCEPT ![p] = rest]
      /\ view' = [view EXCEPT ![p] = IF message = Refused THEN @ ELSE message.state]
      /\ UNCHANGED <<turn, status, version, broadcasts>>
  BY DEF Receive, Apply, server, session
<1>2. /\ down \in [Players -> Seq(Messages)] /\ view \in [Players -> States \cup {None}]
      /\ version \in Nat /\ Shown(p) \in Nat /\ InOrder(down[p], Shown(p), version)
  BY VersionIsNat DEF ClientInv
<1>3. /\ rest \in Seq(Messages) /\ message \in Messages
      /\ ~IsState(message) => InOrder(rest, Shown(p), version)
      /\ IsState(message) =>
            /\ Shown(p) =< message.state.version /\ message.state.version =< version
            /\ InOrder(rest, message.state.version, version)
  BY <1>1, <1>2, Read
<1> HIDE DEF message, rest
<1>4. /\ down' \in [Players -> Seq(Messages)] /\ down'[p] = rest
      /\ \A q \in Players \ {p} : down'[q] = down[q] /\ view'[q] = view[q]
      /\ view' \in [Players -> States \cup {None}]
      /\ view'[p] = IF IsState(message) THEN message.state ELSE view[p]
  BY <1>1, <1>2, <1>3, MessageTypes DEF IsState
<1>5. Shown(p)' = IF IsState(message) THEN message.state.version ELSE Shown(p)
  BY <1>3, <1>4, MessageTypes DEF Shown
<1>6. Shown(p)' >= Shown(p) /\ Shown(p)' =< version /\ InOrder(down'[p], Shown(p)', version)
  BY <1>2, <1>3, <1>4, <1>5, MessageTypes DEF ClientInv
<1>7. \A q \in Players \ {p} : Shown(q)' = Shown(q) /\ Shown(q) \in Nat
  BY <1>4, VersionIsNat DEF Shown
<1>8. State' = State /\ version' = version
  BY <1>1 DEF State
<1>9. \A q \in Players : Shown(q)' =< version' /\ InOrder(down[q], Shown(q), version)'
  BY <1>4, <1>6, <1>7, <1>8 DEF ClientInv
<1>10. ClientInv'
  BY <1>1, <1>4, <1>8, <1>9 DEF ClientInv
<1>11. Steady
  <2>1. \A q \in Players \ {p} : Shown(q)' >= Shown(q)
    BY <1>7
  <2> QED BY <1>6, <2>1 DEF Steady
<1> QED BY <1>10, <1>11

\* What is on its way is lost with the connection.
LEMMA DropKeeps ==
    ASSUME ClientInv, NEW p \in Players, Drop(p)
    PROVE  ClientInv' /\ Steady
<1>1. UNCHANGED <<session, view>> /\ down' = [down EXCEPT ![p] = << >>]
  BY DEF Drop, stores
<1>2. << >> \in Seq(Messages) /\ DOMAIN << >> = {}
  OBVIOUS
<1>3. /\ down' \in [Players -> Seq(Messages)]
      /\ \A q \in Players : down'[q] \in {down[q], << >>}
  BY <1>1, <1>2 DEF ClientInv
<1>4. \A broadcast \in broadcasts' : broadcast.type \in {"started", "update"}
  <2>1. \A broadcast \in broadcasts : [broadcast EXCEPT !.to = @ \ {p}].type = broadcast.type
    OBVIOUS
  <2> QED BY <2>1 DEF Drop, ClientInv
<1> DEFINE none == [q \in Players |-> << >>]
<1>5. none \in [Players -> Seq(Messages)] /\ \A q \in Players : DOMAIN none[q] = {}
  BY <1>2
<1> HIDE DEF none
<1> QED BY <1>1, <1>3, <1>4, <1>5, QueuesKeep

\* Every step keeps the invariant, and no client is shown an older state.
LEMMA ClientStep ==
    ASSUME ClientInv, ClientNext
    PROVE  ClientInv' /\ Steady
<1>1. ASSUME TurnTimerFires PROVE ClientInv' /\ Steady
  <2>1. turn \in Players
    BY DEF ClientInv, State, States
  <2>2. State' \in States /\ version =< version'
    BY <1>1, <2>1, GameSteps DEF TurnTimerFires
  <2> QED BY <1>1, <2>2, SessionKeeps DEF TurnTimerFires, net, stores, ClientInv
<1>2. ASSUME RemoveSession PROVE ClientInv' /\ Steady
  BY <1>2, UntouchedKeeps DEF RemoveSession, net, stores, ClientInv
<1>3. ASSUME NEW p \in Players, HandleRequestState(p) PROVE ClientInv' /\ Steady
  <2>1. UNCHANGED <<session, view, broadcasts>>
    BY <1>3 DEF HandleRequestState, server, stores
  <2>2. UNCHANGED down \/ down' = ToPlayer(p, Message("started", State))
    BY <1>3 DEF HandleRequestState
  <2> QED BY <2>1, <2>2, StateSent
<1>4. ASSUME NEW p \in Players, RoomJoined(p) PROVE ClientInv' /\ Steady
  <2>1. UNCHANGED <<session, view, broadcasts>>
    BY <1>4 DEF RoomJoined, server, stores
  <2>2. UNCHANGED down \/ down' = ToPlayer(p, Message("full_sync", State))
    BY <1>4 DEF RoomJoined
  <2> QED BY <2>1, <2>2, StateSent
<1>5. ASSUME NEW p \in Players, SendAction(p) \/ Connect(p) PROVE ClientInv' /\ Steady
  BY <1>5, UntouchedKeeps DEF SendAction, Connect, server, stores, ClientInv
<1>6. ASSUME BroadcastGameStarted PROVE ClientInv' /\ Steady
  <2>1. \A broadcast \in broadcasts' : broadcast.type \in {"started", "update"}
    BY <1>6 DEF BroadcastGameStarted, Waiting, ClientInv
  <2> QED BY <1>6, <2>1, UntouchedKeeps DEF BroadcastGameStarted, net, stores
<1>7. ASSUME FetchSockets PROVE ClientInv' /\ Steady
  <2>1. PICK waiting \in broadcasts :
           broadcasts' = (broadcasts \ {waiting}) \cup {[waiting EXCEPT !.to = SocketsInRoom]}
    BY <1>7 DEF FetchSockets
  <2>2. [waiting EXCEPT !.to = SocketsInRoom].type = waiting.type
    OBVIOUS
  <2>3. \A broadcast \in broadcasts' : broadcast.type \in {"started", "update"}
    BY <2>1, <2>2 DEF ClientInv
  <2> QED BY <1>7, <2>3, UntouchedKeeps DEF FetchSockets, net, stores
<1> QED BY <1>1, <1>2, <1>3, <1>4, <1>5, <1>6, <1>7, BroadcastStateKeeps,
           DisconnectTimeoutKeeps, HandleGameActionKeeps, ReceiveKeeps, DropKeeps
        DEF ClientNext, Handled

\* At first nothing is shown and nothing is on its way.
LEMMA ClientStart == ClientInit => ClientInv
<1> SUFFICES ASSUME ClientInit PROVE ClientInv
  OBVIOUS
<1>1. /\ turn \in Players /\ status = "playing" /\ version = 0
      /\ down = [p \in Players |-> << >>] /\ view = [p \in Players |-> None]
      /\ broadcasts = {}
  BY DEF ClientInit, Game!Init
<1>2. State \in States
  BY <1>1, ClientAssumption DEF State, States
<1>3. << >> \in Seq(Messages) /\ DOMAIN << >> = {}
  OBVIOUS
<1>4. /\ down \in [Players -> Seq(Messages)] /\ view \in [Players -> States \cup {None}]
  BY <1>1, <1>3
<1>5. \A p \in Players : Shown(p) = 0 /\ DOMAIN down[p] = {}
  BY <1>1, <1>3 DEF Shown
<1> QED BY <1>1, <1>2, <1>4, <1>5 DEF ClientInv, InOrder

\* However broadcasts, answers to requests, joins and broken connections
\* interleave, no client ever shows a state older than one it has shown, though
\* neither the messages nor game-store.ts are checked for their number.
THEOREM NoViewGoesBack == ClientSpec => ViewNeverGoesBack
<1>1. ClientInv /\ UNCHANGED clientVars => ClientInv'
  <2> SUFFICES ASSUME ClientInv, UNCHANGED clientVars PROVE ClientInv'
    OBVIOUS
  <2> QED BY UntouchedKeeps DEF clientVars, server, net, stores, ClientInv
<1>2. ClientInv /\ [ClientNext]_clientVars => ClientInv'
  BY <1>1, ClientStep
<1>3. ClientInv /\ ClientNext => \A p \in Players : Shown(p)' >= Shown(p)
  BY ClientStep DEF Steady
<1> QED BY <1>2, <1>3, ClientStart, PTL DEF ClientSpec, ViewNeverGoesBack

(***************************************************************************)
(* The room, while nothing without a number overlaps with its updates.     *)
(***************************************************************************)

Revisions == Nat \ {NoRoom}
Update == [content : Revisions, version : Nat]

RoomTypes ==
    /\ revision \in Revisions /\ roomStateVersion \in Nat
    /\ updates \in Seq(Nat) /\ joins \subseteq Revisions /\ channel \in Seq(Update)
    /\ settings \in Revisions /\ replies \subseteq [content : Revisions, settings : Revisions]
    /\ fetching \in Nat /\ joined \in BOOLEAN
    /\ currentRoom \in Nat /\ shownSettings \in Nat /\ lastStateVersion \in Nat

\* The numbers on their way grow, each above the last one shown.
Numbered(ch, low, high) ==
    /\ \A i \in DOMAIN ch : low < ch[i].version /\ ch[i].version =< high
    /\ \A i, j \in DOMAIN ch : i < j => ch[i].version < ch[j].version

\* The last of the contents under way is that of the room, or not read yet.
LastContent(us, ch, current) ==
    /\ us # << >> => us[Len(us)] \in {NoRoom, current}
    /\ us = << >> /\ ch # << >> => ch[Len(ch)].content = current

\* What carries no number is under way only when nothing else is, and is what
\* the room says; the last to come is what the room says; and when nothing is to
\* come the room is shown.
RoomInv ==
    /\ joins # {} \/ fetching > 0 \/ replies # {} => ~Pending(updates, channel)
    /\ joins \subseteq {revision} /\ replies \subseteq {RoomRead(revision)}
    /\ joined \/ joins # {} => currentRoom # NoRoom
    /\ ~joined => channel = << >>
    /\ lastStateVersion =< roomStateVersion
    /\ Numbered(channel, lastStateVersion, roomStateVersion)
    /\ LastContent(updates, channel, revision)
    /\ joined /\ ~Pending(updates, channel) /\ joins = {} /\ replies = {}
          => currentRoom = revision

\* One update more, with a higher number.
LEMMA UpdateAdded ==
    ASSUME NEW ch \in Seq(Update), NEW low \in Nat, NEW high \in Nat, low =< high,
           Numbered(ch, low, high), NEW content \in Revisions
    PROVE  LET longer == Append(ch, [content |-> content, version |-> high + 1])
           IN  /\ longer \in Seq(Update) /\ longer # << >>
               /\ longer[Len(longer)].content = content
               /\ Numbered(longer, low, high + 1)
<1> DEFINE update == [content |-> content, version |-> high + 1]
           longer == Append(ch, update)
           n == Len(ch)
<1>1. update \in Update /\ update.content = content /\ update.version = high + 1
  BY DEF Update
<1> HIDE DEF update
<1>2. /\ longer \in Seq(Update) /\ longer # << >> /\ Len(longer) = n + 1
      /\ DOMAIN longer = 1 .. n + 1 /\ longer[n + 1] = update
      /\ \A i \in 1 .. n : longer[i] = ch[i]
      /\ n \in Nat /\ DOMAIN ch = 1 .. n /\ \A i \in 1 .. n : ch[i] \in Update
  BY <1>1
<1>3. \A i \in DOMAIN ch : ch[i].version \in Nat
  BY <1>2 DEF Update
<1> HIDE DEF longer, n
<1>4. ASSUME NEW i \in 1 .. n + 1
      PROVE  low < longer[i].version /\ longer[i].version =< high + 1
  <2>1. CASE i \in 1 .. n
    BY <1>2, <1>3, <2>1 DEF Numbered
  <2>2. CASE i = n + 1
    BY <1>1, <1>2, <2>2
  <2> QED BY <1>2, <2>1, <2>2
<1>5. ASSUME NEW i \in 1 .. n + 1, NEW j \in 1 .. n + 1, i < j
      PROVE  longer[i].version < longer[j].version
  <2>1. i \in 1 .. n
    BY <1>2, <1>5
  <2>2. CASE j \in 1 .. n
    BY <1>2, <1>5, <2>1, <2>2 DEF Numbered
  <2>3. CASE j = n + 1
    <3>1. ch[i].version \in Nat /\ ch[i].version =< high
      BY <1>2, <1>3, <2>1 DEF Numbered
    <3>2. longer[i].version =< high /\ longer[j].version = high + 1
      BY <1>1, <1>2, <2>1, <2>3, <3>1
    <3> QED BY <1>2, <2>1, <3>1, <3>2
  <2> QED BY <1>2, <2>2, <2>3
<1>6. Numbered(longer, low, high + 1)
  BY <1>2, <1>4, <1>5 DEF Numbered
<1> QED BY <1>1, <1>2, <1>6 DEF longer, update

\* The first update is read: those behind it have higher numbers.
LEMMA UpdateRead ==
    ASSUME NEW ch \in Seq(Update), ch # << >>, NEW low \in Nat, NEW high \in Nat,
           Numbered(ch, low, high)
    PROVE  /\ Tail(ch) \in Seq(Update) /\ Head(ch) \in Update
           /\ low < Head(ch).version /\ Head(ch).version =< high
           /\ Numbered(Tail(ch), Head(ch).version, high)
<1> DEFINE rest == Tail(ch)
<1>1. /\ Head(ch) = ch[1] /\ Head(ch) \in Update /\ rest \in Seq(Update)
      /\ Len(ch) \in Nat /\ 1 \in 1 .. Len(ch) /\ DOMAIN ch = 1 .. Len(ch)
      /\ DOMAIN rest = 1 .. Len(ch) - 1
      /\ \A i \in 1 .. Len(ch) - 1 : rest[i] = ch[i + 1]
  OBVIOUS
<1>2. \A i \in 1 .. Len(ch) - 1 : i + 1 \in 1 .. Len(ch) /\ 1 < i + 1
  BY <1>1
<1>3. \A i, j \in 1 .. Len(ch) - 1 : i < j => i + 1 < j + 1
  BY <1>1
<1> HIDE DEF rest
<1>4. Numbered(rest, Head(ch).version, high)
  BY <1>1, <1>2, <1>3 DEF Numbered
<1> QED BY <1>1, <1>4 DEF Numbered, rest

\* What is last stays last.
LEMMA LastOfTail ==
    ASSUME NEW S, NEW q \in Seq(S), q # << >>
    PROVE  /\ Head(q) = q[1] /\ 1 \in DOMAIN q /\ Tail(q) \in Seq(S)
           /\ Tail(q) = << >> => Head(q) = q[Len(q)]
           /\ Tail(q) # << >> => Tail(q)[Len(Tail(q))] = q[Len(q)]
<1> DEFINE rest == Tail(q)  n == Len(q)
<1>1. /\ Head(q) = q[1] /\ rest \in Seq(S) /\ n \in Nat /\ n # 0 /\ DOMAIN q = 1 .. n
      /\ Len(rest) = n - 1 /\ \A i \in 1 .. n - 1 : rest[i] = q[i + 1]
  OBVIOUS
<1>2. rest = << >> <=> Len(rest) = 0
  BY <1>1, EmptySeq
<1> HIDE DEF rest, n
<1>3. rest # << >> => n - 1 \in 1 .. n - 1 /\ (n - 1) + 1 = n
  BY <1>1, <1>2
<1>4. rest # << >> => rest[Len(rest)] = q[n]
  BY <1>1, <1>3
<1>5. rest = << >> => n = 1
  BY <1>1, <1>2
<1> QED BY <1>1, <1>4, <1>5 DEF rest, n

\* The types of a room's view
LEMMA RoomTyped ==
    ASSUME RoomTypes, RoomNext
    PROVE  RoomTypes'
<1>1. CASE OtherSaves \/ UpdateSettings
  <2>1. updates' = Append(updates, 0) /\ updates \in Seq(Nat) /\ 0 \in Nat
    BY <1>1 DEF OtherSaves, UpdateSettings, NoRoom, RoomTypes
  <2>2. updates' \in Seq(Nat)
    BY <2>1
  <2>3. revision' \in Revisions /\ settings' \in Revisions
    BY <1>1 DEF OtherSaves, UpdateSettings, RoomTypes, Revisions, NoRoom
  <2> QED BY <1>1, <2>2, <2>3 DEF OtherSaves, UpdateSettings, RoomTypes
<1>2. CASE OwnSave \/ OwnRead
  <2>1. revision' \in Revisions
    BY <1>2 DEF OwnSave, OwnRead, RoomTypes, Revisions, NoRoom
  <2>2. fetching' \in Nat
    <3>1. fetching \in Nat /\ fetching > 0 /\ fetching' = fetching - 1
      BY <1>2 DEF OwnSave, OwnRead, RoomTypes
    <3> QED BY <3>1
  <2>3. updates' \in Seq(Nat)
    <3>1. updates \in Seq(Nat) /\ 0 \in Nat
      BY DEF RoomTypes
    <3>2. updates' = Append(updates, 0) \/ updates' = updates
      BY <1>2 DEF OwnSave, OwnRead, NoRoom
    <3> QED BY <3>1, <3>2
  <2>4. replies' \subseteq [content : Revisions, settings : Revisions]
    BY <1>2, <2>1 DEF OwnSave, OwnRead, RoomRead, RoomTypes
  <2> QED BY <1>2, <2>1, <2>2, <2>3, <2>4 DEF OwnSave, OwnRead, RoomTypes
<1>3. CASE ReadRoom
  <2>1. PICK i \in DOMAIN updates : updates' = [updates EXCEPT ![i] = revision]
    BY <1>3 DEF ReadRoom
  <2>2. updates' \in Seq(Nat)
    BY <2>1, ExceptSeq DEF RoomTypes, Revisions
  <2> QED BY <1>3, <2>2 DEF ReadRoom, RoomTypes
<1>4. ASSUME NEW content \in Revisions, NEW subscribed, BuildAndSend(content, subscribed)
      PROVE  roomStateVersion' \in Nat /\ channel' \in Seq(Update)
  <2>1. roomStateVersion' = roomStateVersion + 1
    BY <1>4 DEF BuildAndSend
  <2>2. [content |-> content, version |-> roomStateVersion'] \in Update
    BY <2>1 DEF Update, RoomTypes
  <2> QED BY <1>4, <2>1, <2>2 DEF BuildAndSend, RoomTypes
<1>5. CASE SendUpdate
  <2>1. Head(updates) \in Revisions /\ Tail(updates) \in Seq(Nat)
    BY <1>5 DEF SendUpdate, RoomTypes, Revisions
  <2> QED BY <1>4, <1>5, <2>1 DEF SendUpdate, RoomTypes
<1>6. CASE StartJoin \/ SocketJoins
  BY <1>6 DEF StartJoin, SocketJoins, RoomTypes
<1>7. CASE FinishJoin
  <2>1. (CHOOSE content \in joins : TRUE) \in Revisions
    BY <1>7 DEF FinishJoin, RoomTypes
  <2> QED BY <1>4, <1>7, <2>1 DEF FinishJoin, RoomTypes
<1>8. CASE Restart \/ LeavePage
  <2>1. << >> \in Seq(Nat) /\ << >> \in Seq(Update)
    OBVIOUS
  <2>2. CASE Restart
    BY <2>1, <2>2 DEF Restart, RoomTypes
  <2>3. CASE LeavePage
    BY <2>1, <2>3 DEF LeavePage, RoomTypes, NoRoom
  <2> QED BY <1>8, <2>2, <2>3
<1>9. CASE Request \/ ReceiveReply
  <2>1. CASE Request
    BY <2>1 DEF Request, RoomTypes
  <2>2. CASE ReceiveReply
    <3>1. PICK reply \in replies : /\ replies' = replies \ {reply}
                                   /\ currentRoom' = reply.content
                                   /\ shownSettings' = reply.settings
      BY <2>2 DEF ReceiveReply
    <3>2. reply.content \in Nat /\ reply.settings \in Nat
      BY <3>1 DEF RoomTypes, Revisions
    <3> QED BY <2>2, <3>1, <3>2 DEF ReceiveReply, RoomTypes
  <2> QED BY <1>9, <2>1, <2>2
<1>10. CASE handleRoomStateUpdate
  <2>1. Head(channel) \in Update /\ Tail(channel) \in Seq(Update)
    BY <1>10 DEF handleRoomStateUpdate, RoomTypes
  <2> QED BY <1>10, <2>1 DEF handleRoomStateUpdate, Applies, RoomTypes, Update, Revisions
<1> QED BY <1>1, <1>2, <1>3, <1>5, <1>6, <1>7, <1>8, <1>9, <1>10 DEF RoomNext

\* Each step, unless it overlaps
LEMMA RoomStep ==
    ASSUME RoomTypes, RoomInv, RoomNext, ~Overlaps
    PROVE  RoomInv'
<1>1. /\ joins' # {} \/ fetching' > 0 \/ replies' # {} =>
             ~Pending(updates', channel') /\ revision' = revision
      /\ ~(roomStateVersion' < lastStateVersion')
  BY DEF Overlaps
<1>2. RoomTypes'
  BY RoomTyped
<1>3. lastStateVersion' =< roomStateVersion'
  BY <1>1, <1>2 DEF RoomTypes
<1>4. /\ revision \in Nat /\ updates \in Seq(Nat) /\ channel \in Seq(Update)
      /\ roomStateVersion \in Nat /\ lastStateVersion \in Nat
  BY DEF RoomTypes, Revisions
<1>a. ASSUME UNCHANGED <<revision, settings, roomStateVersion, updates, channel, joined, currentRoom,
                        lastStateVersion>>,
             joins' \in {joins, {revision}},
             replies' \in {replies, replies \cup {RoomRead(revision)}},
             joins' # {} => currentRoom # NoRoom
      PROVE  RoomInv'
  <2>1. joins' \subseteq {revision'} /\ replies' \subseteq {RoomRead(revision)'}
    BY <1>a DEF RoomInv, RoomRead
  <2>2. joins' = {} /\ replies' = {} => joins = {} /\ replies = {}
    BY <1>a
  <2> QED BY <1>1, <1>3, <1>a, <2>1, <2>2 DEF RoomInv
\* A save: its update is not read yet.
<1>5. CASE OtherSaves \/ UpdateSettings
  <2>1. /\ updates' = Append(updates, NoRoom)
        /\ UNCHANGED <<roomStateVersion, joins, channel, replies, fetching, joined,
                       currentRoom, lastStateVersion>>
    BY <1>5 DEF OtherSaves, UpdateSettings
  <2>2. updates' # << >> /\ updates'[Len(updates')] = NoRoom
    <3> DEFINE longer == Append(updates, NoRoom)
    <3>1. longer # << >> /\ longer[Len(longer)] = NoRoom
      BY <1>4 DEF NoRoom
    <3>2. updates' = longer
      BY <2>1
    <3> HIDE DEF longer
    <3> QED BY <3>1, <3>2
  <2>3. joins' = {} /\ replies' = {}
    BY <1>1, <2>2 DEF Pending
  <2> QED BY <1>1, <1>3, <2>1, <2>2, <2>3 DEF RoomInv, LastContent, Pending
<1>6. CASE OwnSave
  <2>1. updates' # << >> /\ replies' # {}
    BY <1>4, <1>6 DEF OwnSave
  <2> QED BY <1>1, <2>1 DEF Pending
<1>7. CASE OwnRead
  BY <1>7, <1>a DEF OwnRead, RoomInv
<1>8. CASE ReadRoom
  <2>1. PICK i \in DOMAIN updates : updates' = [updates EXCEPT ![i] = revision]
    BY <1>8 DEF ReadRoom
  <2>2. UNCHANGED <<revision, roomStateVersion, joins, channel, replies, fetching, joined,
                    currentRoom, lastStateVersion>>
    BY <1>8 DEF ReadRoom
  <2>3. /\ updates # << >> /\ updates' # << >> /\ Len(updates') = Len(updates)
        /\ updates'[Len(updates)] \in {updates[Len(updates)], revision}
    <3>1. Len(updates) \in Nat /\ DOMAIN updates = 1 .. Len(updates) /\ Len(updates) >= 1
      BY <1>4, <2>1
    <3>2. /\ updates' \in Seq(Nat) /\ Len(updates') = Len(updates)
          /\ updates'[Len(updates)] = IF Len(updates) = i THEN revision ELSE updates[Len(updates)]
      BY <1>4, <2>1, <3>1, ExceptSeq
    <3> QED BY <3>1, <3>2, EmptySeq
  <2>4. LastContent(updates', channel', revision')
    BY <2>2, <2>3 DEF RoomInv, LastContent
  <2> QED BY <1>1, <1>3, <2>2, <2>3, <2>4 DEF RoomInv, Pending
\* An update is built and sent: with it, the last one read has come.
<1>9. CASE SendUpdate
  <2> DEFINE content == Head(updates)
             longer == Append(channel, [content |-> content, version |-> roomStateVersion + 1])
  <2>1. /\ updates # << >> /\ content # NoRoom /\ updates' = Tail(updates)
        /\ roomStateVersion' = roomStateVersion + 1
        /\ channel' = IF joined THEN longer ELSE channel
        /\ UNCHANGED <<revision, settings, joins, replies, fetching, joined, currentRoom,
                       lastStateVersion>>
    BY <1>9 DEF SendUpdate, BuildAndSend
  <2>2. /\ Tail(updates) = << >> => content = updates[Len(updates)]
        /\ Tail(updates) # << >> => Tail(updates)[Len(Tail(updates))] = updates[Len(updates)]
        /\ content \in Nat
    BY <1>4, <2>1, LastOfTail
  <2>3. content \in Revisions
    BY <2>1, <2>2 DEF Revisions
  <2>4. /\ longer # << >> /\ longer[Len(longer)].content = content
        /\ Numbered(longer, lastStateVersion, roomStateVersion + 1)
    BY <1>4, <2>3, UpdateAdded DEF RoomInv
  <2> HIDE DEF longer, content
  <2>5. Numbered(channel', lastStateVersion', roomStateVersion')
    <3>1. CASE joined
      BY <2>1, <2>4, <3>1
    <3>2. CASE ~joined
      BY <2>1, <3>2 DEF RoomInv, Numbered
    <3> QED BY <3>1, <3>2
  <2>6. LastContent(updates', channel', revision')
    <3>1. updates[Len(updates)] \in {NoRoom, revision}
      BY <2>1 DEF RoomInv, LastContent
    <3>2. updates' = << >> => content = revision
      BY <2>1, <2>2, <3>1
    <3>3. ~joined => channel' = << >>
      BY <2>1 DEF RoomInv
    <3> QED BY <2>1, <2>2, <2>4, <3>1, <3>2, <3>3 DEF LastContent
  <2>7. ~joined => channel' = << >>
    BY <2>1 DEF RoomInv
  <2>8. joined => Pending(updates', channel')
    BY <2>1, <2>4 DEF Pending
  <2> QED BY <1>1, <1>3, <2>1, <2>5, <2>6, <2>7, <2>8 DEF RoomInv, RoomRead
<1>10. CASE StartJoin
  BY <1>10, <1>a DEF StartJoin
\* The socket joins, with the answer still to come.
<1>11. CASE SocketJoins
  BY <1>1, <1>3, <1>11 DEF SocketJoins, RoomInv, RoomRead
<1>12. CASE FinishJoin
  <2> DEFINE content == CHOOSE x \in joins : TRUE
             longer == Append(channel, [content |-> content, version |-> roomStateVersion + 1])
  <2>1. /\ joined /\ joins # {} /\ joins' = {}
        /\ roomStateVersion' = roomStateVersion + 1 /\ channel' = longer
        /\ UNCHANGED <<revision, settings, updates, replies, fetching, joined, currentRoom,
                       lastStateVersion>>
    BY <1>12 DEF FinishJoin, BuildAndSend
  <2>2. content \in joins
    BY <2>1
  <2>3. content = revision /\ content \in Revisions
    BY <2>2 DEF RoomInv, RoomTypes
  <2> HIDE DEF content
  <2>4. /\ longer # << >> /\ longer[Len(longer)].content = content
        /\ Numbered(longer, lastStateVersion, roomStateVersion + 1)
    <3>1. /\ lastStateVersion =< roomStateVersion
          /\ Numbered(channel, lastStateVersion, roomStateVersion)
      BY DEF RoomInv
    <3> QED BY <1>4, <2>3, <3>1, UpdateAdded
  <2> HIDE DEF longer
  <2>5. replies' \subseteq {RoomRead(revision)'} /\ currentRoom' # NoRoom
    BY <2>1 DEF RoomInv, RoomRead
  <2>6. LastContent(updates', channel', revision')
    BY <2>1, <2>3, <2>4 DEF LastContent, RoomInv
  <2> QED BY <1>1, <1>3, <2>1, <2>4, <2>5, <2>6 DEF RoomInv, Pending
<1>13. CASE Restart
  BY <1>3, <1>13 DEF Restart, RoomInv, Numbered, LastContent, Pending
<1>14. CASE Request
  BY <1>14, <1>a DEF Request, RoomInv
<1>15. CASE ReceiveReply
  <2>1. PICK reply \in replies : replies' = replies \ {reply} /\ currentRoom' = reply.content
    BY <1>15 DEF ReceiveReply
  <2>2. reply.content = revision /\ reply.content # NoRoom
    BY <2>1 DEF RoomInv, RoomRead, RoomTypes, Revisions
  <2>3. UNCHANGED <<revision, settings, roomStateVersion, updates, joins, channel, fetching, joined,
                    lastStateVersion>>
    BY <1>15 DEF ReceiveReply
  <2> QED BY <1>1, <1>3, <2>1, <2>2, <2>3 DEF RoomInv
\* No update is refused: each has a higher number than the one before.
<1>16. CASE handleRoomStateUpdate
  <2> DEFINE update == Head(channel)  rest == Tail(channel)
  <2>1. /\ channel # << >> /\ channel' = rest
        /\ UNCHANGED <<revision, settings, roomStateVersion, updates, joins, replies, fetching,
                       joined>>
        /\ \/ Applies(update)
           \/ currentRoom = NoRoom \/ update.version =< lastStateVersion
    BY <1>16 DEF handleRoomStateUpdate
  <2>2. /\ rest \in Seq(Update) /\ update \in Update /\ lastStateVersion < update.version
        /\ Numbered(rest, update.version, roomStateVersion)
    BY <1>4, <2>1, UpdateRead DEF RoomInv
  <2>3. /\ rest = << >> => update = channel[Len(channel)]
        /\ rest # << >> => rest[Len(rest)] = channel[Len(channel)]
    BY <1>4, <2>1, LastOfTail
  <2> HIDE DEF update, rest
  <2>4. joined /\ currentRoom # NoRoom
    BY <2>1 DEF RoomInv
  <2>5. update.version \in Nat /\ update.content # NoRoom
    BY <2>2 DEF Update, Revisions
  <2>6. currentRoom' = update.content /\ lastStateVersion' = update.version
    BY <1>4, <2>1, <2>2, <2>4, <2>5 DEF Applies
  <2>7. Numbered(channel', lastStateVersion', roomStateVersion')
    BY <2>1, <2>2, <2>6
  <2>8. LastContent(updates', channel', revision')
    BY <2>1, <2>3 DEF RoomInv, LastContent
  <2>9. ~Pending(updates', channel') => currentRoom' = revision'
    BY <2>1, <2>3, <2>6 DEF RoomInv, LastContent, Pending
  <2> QED BY <1>1, <1>3, <2>1, <2>4, <2>5, <2>6, <2>7, <2>8, <2>9 DEF RoomInv, RoomRead
<1>17. CASE LeavePage
  BY <1>1, <1>3, <1>17 DEF LeavePage, RoomInv, Numbered, LastContent, Pending
<1> QED BY <1>5, <1>6, <1>7, <1>8, <1>9, <1>10, <1>11, <1>12, <1>13, <1>14, <1>15, <1>16,
           <1>17 DEF RoomNext

\* The settings shown are those of the last answer.
SettingsInv == currentRoom # NoRoom => changed \/ shownSettings = settings

LEMMA SettingsStep ==
    ASSUME RoomTypes, RoomInv, SettingsInv, RoomNext, changed' = Changed
    PROVE  SettingsInv'
<1>1. CASE ReceiveReply
  <2>1. PICK reply \in replies : shownSettings' = reply.settings
    BY <1>1 DEF ReceiveReply
  <2>2. reply.settings = settings
    BY <2>1 DEF RoomInv, RoomRead
  <2> QED BY <1>1, <2>1, <2>2 DEF ReceiveReply, SettingsInv
<1>2. CASE UpdateSettings
  <2>1. settings' # settings
    BY <1>2 DEF UpdateSettings, RoomTypes, Revisions
  <2> QED BY <2>1 DEF Changed, SettingsInv
<1>3. CASE LeavePage
  BY <1>3 DEF LeavePage, SettingsInv
<1>4. ASSUME UNCHANGED <<settings, shownSettings>>, currentRoom' # NoRoom => currentRoom # NoRoom,
             ~ReceiveReply
      PROVE  SettingsInv'
  BY <1>4 DEF Changed, SettingsInv
<1>5. ASSUME ~ReceiveReply, ~UpdateSettings, ~LeavePage
      PROVE  UNCHANGED <<settings, shownSettings>> /\ (currentRoom' # NoRoom => currentRoom # NoRoom)
  BY <1>5 DEF RoomNext, OtherSaves, OwnSave, OwnRead, ReadRoom, SendUpdate, StartJoin,
              SocketJoins, FinishJoin, Restart, Request, handleRoomStateUpdate, Applies
<1> QED BY <1>1, <1>2, <1>3, <1>4, <1>5

\* A browser whose socket is in the room and for which nothing is under way shows
\* players, host and status of the room as they are: the number that an update
\* gets when it is built, later than its content is read, and the answers that
\* carry none, do no harm unless they overlap.  So it does the settings, unless
\* they changed since its last answer.
THEOREM RoomStaysShown == MCSpec => []RoomIsShown
<1> DEFINE Inv == RoomTypes /\ (~overlap => RoomInv /\ SettingsInv)
<1>1. MCInit => Inv
  <2> SUFFICES ASSUME MCInit PROVE Inv
    OBVIOUS
  <2>1. RoomInit
    BY DEF MCInit
  <2>2. << >> \in Seq(Nat) /\ << >> \in Seq(Update)
    OBVIOUS
  <2>3. RoomTypes
    <3>1. updates \in Seq(Nat) /\ channel \in Seq(Update)
      BY <2>1, <2>2 DEF RoomInit
    <3>2. /\ revision = 1 /\ roomStateVersion = 0 /\ joins = {} /\ replies = {} /\ fetching = 0
          /\ joined = FALSE /\ currentRoom = 0 /\ lastStateVersion = 0
          /\ settings = 1 /\ shownSettings = 0
      BY <2>1 DEF RoomInit, NoRoom
    <3>3. 1 \in Revisions
      BY DEF Revisions, NoRoom
    <3> QED BY <3>1, <3>2, <3>3 DEF RoomTypes
  <2>4. RoomInv /\ SettingsInv
    BY <2>1 DEF RoomInit, RoomInv, SettingsInv, Numbered, LastContent, Pending
  <2> QED BY <2>3, <2>4
<1>2. Inv /\ [MCNext]_mcVars => Inv'
  <2> SUFFICES ASSUME Inv, [MCNext]_mcVars PROVE Inv'
    OBVIOUS
  <2>1. CASE RoomNext /\ overlap' = (overlap \/ Overlaps) /\ changed' = Changed
    <3>1. RoomTypes'
      BY <2>1, RoomTyped
    <3>2. ASSUME ~overlap' PROVE RoomInv' /\ SettingsInv'
      <4>1. ~overlap /\ ~Overlaps
        BY <2>1, <3>2
      <4> QED BY <2>1, <4>1, RoomStep, SettingsStep
    <3> QED BY <3>1, <3>2
  <2>2. CASE UNCHANGED <<roomVars, history>>
    BY <2>2 DEF roomVars, history, RoomTypes, RoomInv, RoomRead, SettingsInv, Pending
  <2> QED BY <2>1, <2>2 DEF MCNext, mcVars
<1>3. Inv => RoomIsShown
  <2> SUFFICES ASSUME RoomTypes, RoomInv, SettingsInv, Quiet, joined, currentRoom # NoRoom
               PROVE  currentRoom = revision /\ (changed \/ shownSettings = settings)
    BY DEF RoomIsShown
  <2>1. ~Pending(updates, channel) /\ joins = {} /\ replies = {}
    BY DEF Quiet, Pending
  <2> QED BY <2>1 DEF RoomInv, SettingsInv
<1> QED BY <1>1, <1>2, <1>3, PTL DEF MCSpec
=============================================================================
