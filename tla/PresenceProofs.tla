--------------------------- MODULE PresenceProofs ---------------------------
(***************************************************************************)
(* Theorems about connections and presence, for every set of users, rooms  *)
(* and sockets, while each event finds no handler waiting.                 *)
(***************************************************************************)
EXTENDS MCPresence, SequenceTheorems, TLAPS

(***************************************************************************)
(* What a handler that waits for Redis may rely on.  Between events the    *)
(* map of connections, the presence in Redis and the grace timers agree;   *)
(* while a handler is on its way they agree everywhere but at its room and *)
(* user, and it knows what it will find there.                             *)
(***************************************************************************)

NeedSocket == {"supersede", "getSocket", "removeSocket"}
Gone       == {"unregister", "setDisconnected"} \cup NeedSocket
Joining    == {"isInGracePeriod", "getRoom", "leaveOther", "graceExists", "setOnline"}
OfTimer    == {"expire", "leaveRoom", "cancelGame"}
Roomless   == {"unregister", "saveSocket"} \cup NeedSocket

\* Commands after which presence and timers follow the connection, at last
Ahead == {"unregister", "setDisconnected", "graceExists", "setOnline",
          "removePresence", "expire"}

\* What two handlers of one connect may wait for at once: the end of the old
\* socket's handler and the new socket's
Pairs == {<<"unregister", "supersede">>, <<"supersede", "setDisconnected">>,
          <<"setDisconnected", "getSocket">>}

InRoom(u, r) == connections[u] # None /\ connections[u].room = r

Claims(q) ==
    /\ q.at \notin OfTimer => q.socket \in Sockets /\ q.user = Owner[q.socket]
    /\ q.at \notin Roomless => q.room \in Rooms
    /\ q.at \in Gone => connections[q.user] = None
    /\ q.at \in NeedSocket => q.socket \in open
    /\ q.at = "supersede" => q.memo \in Sockets /\ Owner[q.memo] = q.user
    /\ q.at \in Joining => /\ connections[q.user] # None
                           /\ connections[q.user].socket = q.socket
    /\ q.at = "leaveOther" => /\ q.memo.from \in Rooms \ {q.room}
                              /\ InRoom(q.user, q.memo.from)
    /\ q.at \in {"graceExists", "setOnline"} => InRoom(q.user, q.room)
    /\ q.at \in {"removePresence", "expire"} => ~InRoom(q.user, q.room)
    /\ q.at = "writeSeen" => q.memo = presence[q.room][q.user]

\* A connection has an open socket of its user, registered in both directions.
Registered ==
    \A u \in Users : connections[u] # None =>
        /\ Owner[connections[u].socket] = u
        /\ connections[u].socket \in open \cap socketToUser

\* An open socket is its user's connection, or waits to be.
Connected(waiting) ==
    \A s \in open :
        \/ \E q \in waiting : q.at \in NeedSocket /\ q.socket = s
        \/ connections[Owner[s]] # None /\ connections[Owner[s]].socket = s

Agree(r, u) ==
    /\ presence[r][u] = "ONLINE" <=> InRoom(u, r)
    /\ presence[r][u] = "DISCONNECTED" <=> <<r, u>> \in graceTimers

Agreed(waiting) ==
    \A r \in Rooms, u \in Users :
        Agree(r, u) \/ \E q \in waiting : q.at \in Ahead /\ q.room = r /\ q.user = u

Rest(waiting) ==
    /\ Registered /\ Connected(waiting) /\ Agreed(waiting)
    /\ \A q \in waiting : Claims(q)

IsHandler(q) ==
    /\ q = [at |-> q.at, socket |-> q.socket, user |-> q.user, room |-> q.room,
            memo |-> q.memo]
    /\ q.user \in Users /\ q.room \in Rooms \cup {None}

Types ==
    /\ unused \subseteq Sockets /\ open \subseteq Sockets
    /\ connections \in [Users -> Connection \cup {None}]
    /\ presence \in [Rooms -> [Users -> Statuses \cup {None}]]

Orderly ==
    \/ queue = << >> /\ Rest({})
    \/ \E q : IsHandler(q) /\ queue = <<q>> /\ Rest({q})
    \/ \E q, p : /\ IsHandler(q) /\ IsHandler(p) /\ queue = <<q, p>>
                 /\ q.user = p.user /\ <<q.at, p.at>> \in Pairs
                 /\ Rest({q, p})

\* A sequence with one more element at its end
LEMMA Appended ==
    ASSUME NEW S, NEW s \in Seq(S), NEW p \in S
    PROVE  LET longer == Append(s, p)
           IN  /\ longer \in Seq(S) /\ Len(longer) = Len(s) + 1
               /\ \A i \in 1 .. Len(s) : longer[i] = s[i]
               /\ longer[Len(s) + 1] = p
<1>1. Append(s, p) \in Seq(S)
  OBVIOUS
<1>2. Len(Append(s, p)) = Len(s) + 1
  OBVIOUS
<1>3. \A i \in 1 .. Len(s) : Append(s, p)[i] = s[i]
  OBVIOUS
<1>4. Append(s, p)[Len(s) + 1] = p
  OBVIOUS
<1> QED BY <1>1, <1>2, <1>3, <1>4

\* Queues of one and of two
LEMMA Queues ==
    ASSUME NEW q, NEW p
    PROVE  /\ Head(<<q>>) = q /\ Tail(<<q>>) = << >> /\ <<q>> # << >> /\ Len(<<q>>) = 1
           /\ Head(<<q, p>>) = q /\ Tail(<<q, p>>) = <<p>> /\ <<q, p>> # << >>
           /\ Append(<< >>, q) = <<q>> /\ Append(<<q>>, p) = <<q, p>>
           /\ << >> \o << >> = << >> /\ << >> \o <<q>> = <<q>> /\ <<q>> \o << >> = <<q>>
           /\ <<q>> \o <<p>> = <<q, p>>
<1> DEFINE S == {q, p}
<1>1. << >> \in Seq(S) /\ <<q>> \in Seq(S) /\ <<q, p>> \in Seq(S) /\ <<p>> \in Seq(S)
  OBVIOUS
<1>2. /\ << >> \o << >> = << >> /\ << >> \o <<q>> = <<q>> /\ <<q>> \o << >> = <<q>>
  BY <1>1, ConcatEmptySeq
<1>3. Append(<<q>>, p) = <<q>> \o <<p>>
  BY <1>1, AppendIsConcat
<1>4. Append(<<q>>, p) = <<q, p>>
  <2> DEFINE one == <<q>>
             two == <<q, p>>
  <2>1. /\ one \in Seq(S) /\ Len(one) = 1 /\ one[1] = q
        /\ two \in Seq(S) /\ Len(two) = 2 /\ two[1] = q /\ two[2] = p /\ p \in S
    BY <1>1
  <2> HIDE DEF one, two, S
  <2> DEFINE longer == Append(one, p)
  <2>2. /\ longer \in Seq(S) /\ Len(longer) = 2 /\ longer[1] = q /\ longer[2] = p
    <3>1. /\ longer \in Seq(S) /\ Len(longer) = Len(one) + 1
          /\ \A i \in 1 .. Len(one) : longer[i] = one[i]
          /\ longer[Len(one) + 1] = p
      <4>1. one \in Seq(S)
        BY <2>1
      <4>2. p \in S
        BY <2>1
      <4>3. longer \in Seq(S)
        BY <4>1, <4>2, Appended
      <4>4. Len(longer) = Len(one) + 1
        BY <4>1, <4>2, Appended
      <4>5. \A i \in 1 .. Len(one) : longer[i] = one[i]
        BY <4>1, <4>2, Appended
      <4>6. longer[Len(one) + 1] = p
        BY <4>1, <4>2, Appended
      <4> QED BY <4>3, <4>4, <4>5, <4>6
    <3>2. 1 \in 1 .. Len(one) /\ Len(one) + 1 = 2
      BY <2>1
    <3> QED BY <2>1, <3>1, <3>2
  <2> HIDE DEF longer
  <2>3. \A i \in 1 .. Len(longer) : longer[i] = two[i]
    BY <2>1, <2>2
  <2>4. longer = two
    BY <2>1, <2>2, <2>3, SeqEqual
  <2> QED BY <2>4 DEF longer, one, two
<1>5. Tail(<<q, p>>) = <<p>> /\ Tail(<<q>>) = << >> /\ Append(<< >>, q) = <<q>>
  OBVIOUS
<1>6. Head(<<q>>) = q /\ <<q>> # << >> /\ Len(<<q>>) = 1 /\ Head(<<q, p>>) = q /\ <<q, p>> # << >>
  OBVIOUS
<1> QED BY <1>2, <1>3, <1>4, <1>5, <1>6

\* A handler that goes on to another command
LEMMA GoesOn ==
    ASSUME NEW q, IsHandler(q), NEW command
    PROVE  LET n == [q EXCEPT !.at = command]
           IN  /\ IsHandler(n) /\ n.at = command /\ n.socket = q.socket
               /\ n.user = q.user /\ n.room = q.room /\ n.memo = q.memo
BY DEF IsHandler

-----------------------------------------------------------------------------

(***************************************************************************)
(* Redis answers.                                                          *)
(***************************************************************************)

seen == <<open, connections, socketToUser, graceTimers, presence>>

\* Handlers give way to others, and nothing of this changes.
LEMMA SameKeeps ==
    ASSUME NEW old, NEW new, Rest(old), UNCHANGED seen,
           \A x \in new : Claims(x)',
           \A q \in old : q.at \in NeedSocket =>
               \E x \in new : x.at \in NeedSocket /\ x.socket = q.socket,
           \A q \in old : q.at \in Ahead =>
               \E x \in new : x.at \in Ahead /\ x.room = q.room /\ x.user = q.user
    PROVE  Rest(new)'
<1>1. Registered'
  BY DEF Rest, Registered, seen
<1>2. Connected(new)'
  BY DEF Rest, Connected, seen
<1>3. \A r \in Rooms, u \in Users : Agree(r, u)' <=> Agree(r, u)
  BY DEF Agree, InRoom, seen
<1>4. Agreed(new)'
  <2> SUFFICES ASSUME NEW r \in Rooms, NEW u \in Users
               PROVE  \/ Agree(r, u)'
                      \/ \E x \in new : x.at \in Ahead /\ x.room = r /\ x.user = u
    BY DEF Agreed
  <2>1. Agree(r, u) \/ \E q \in old : q.at \in Ahead /\ q.room = r /\ q.user = u
    BY DEF Rest, Agreed
  <2> QED BY <1>3, <2>1
<1> QED BY <1>1, <1>2, <1>4 DEF Rest

\* Presence and timer of one room and user are settled.
LEMMA Settles ==
    ASSUME NEW old, NEW new, Rest(old), NEW q \in old,
           \A x \in old \ {q} : x \in new, q.at \notin NeedSocket,
           \A x \in new : Claims(x)',
           UNCHANGED <<open, connections, socketToUser>>,
           \A r \in Rooms, u \in Users : ~(r = q.room /\ u = q.user) =>
               /\ presence'[r][u] = presence[r][u]
               /\ <<r, u>> \in graceTimers' <=> <<r, u>> \in graceTimers,
           Agree(q.room, q.user)'
    PROVE  Rest(new)'
<1>1. Registered'
  BY DEF Rest, Registered
<1>2. Connected(new)'
  BY DEF Rest, Connected
<1>3. \A r \in Rooms, u \in Users : ~(r = q.room /\ u = q.user) =>
         (Agree(r, u)' <=> Agree(r, u))
  BY DEF Agree, InRoom
<1>4. Agreed(new)'
  <2> SUFFICES ASSUME NEW r \in Rooms, NEW u \in Users, ~(r = q.room /\ u = q.user)
               PROVE  \/ Agree(r, u)'
                      \/ \E x \in new : x.at \in Ahead /\ x.room = r /\ x.user = u
    BY DEF Agreed
  <2>1. Agree(r, u) \/ \E x \in old : x.at \in Ahead /\ x.room = r /\ x.user = u
    BY DEF Rest, Agreed
  <2> QED BY <1>3, <2>1
<1> QED BY <1>1, <1>2, <1>4 DEF Rest

\* A superseded socket is nobody's connection.
LEMMA SupersedeKeeps ==
    ASSUME Types, NEW q, IsHandler(q), q.at = "supersede", Handler = q, Supersede,
           NEW rest, Rest({q} \cup rest),
           \A p \in rest : p.at = "setDisconnected" /\ p.user = q.user
    PROVE  /\ Types'
           /\ \E n : /\ IsHandler(n) /\ queue' = Append(Tail(queue), n)
                     /\ n.at = "getSocket" /\ n.user = q.user
                     /\ Rest(rest \cup {n})'
<1>0. PICK n : n = Then("getSocket")
  OBVIOUS
<1>1. /\ queue' = Append(Tail(queue), n)
      /\ socketToUser' = socketToUser \ {q.memo}
      /\ UNCHANGED <<unused, open, connections, graceTimers, presence>>
  BY <1>0 DEF Supersede, Continues, sockets
<1>2. /\ IsHandler(n) /\ n.at = "getSocket" /\ n.socket = q.socket
      /\ n.user = q.user /\ n.room = q.room
  BY <1>0, GoesOn DEF Then
<1>3. /\ q.socket \in Sockets /\ q.user = Owner[q.socket] /\ connections[q.user] = None
      /\ q.socket \in open /\ q.memo \in Sockets /\ Owner[q.memo] = q.user
  BY DEF Rest, Claims, OfTimer, Gone, NeedSocket
<1>4. Registered'
  BY <1>1, <1>3 DEF Rest, Registered
<1>5. Connected(rest \cup {n})'
  <2>1. \A p \in rest : p.at \notin NeedSocket
    BY DEF NeedSocket
  <2>2. n.at \in NeedSocket
    BY <1>2 DEF NeedSocket
  <2> QED BY <1>1, <1>2, <2>1, <2>2 DEF Rest, Connected
<1>6. Agreed(rest \cup {n})'
  <2>1. q.at \notin Ahead
    BY DEF Ahead
  <2>2. \A r \in Rooms, u \in Users : Agree(r, u)' <=> Agree(r, u)
    BY <1>1 DEF Agree, InRoom
  <2> SUFFICES ASSUME NEW r \in Rooms, NEW u \in Users
               PROVE  \/ Agree(r, u)'
                      \/ \E x \in rest \cup {n} : x.at \in Ahead /\ x.room = r /\ x.user = u
    BY DEF Agreed
  <2>3. Agree(r, u) \/ \E x \in {q} \cup rest : x.at \in Ahead /\ x.room = r /\ x.user = u
    BY DEF Rest, Agreed
  <2> QED BY <2>1, <2>2, <2>3
<1>7. \A p \in rest \cup {n} : Claims(p)'
  <2>1. ASSUME NEW p \in rest PROVE Claims(p)'
    <3>1. Claims(p) /\ p.at = "setDisconnected"
      BY DEF Rest
    <3> QED BY <1>1, <3>1 DEF Claims, OfTimer, Roomless, Gone, NeedSocket, Joining
  <2>2. Claims(n)'
    BY <1>1, <1>2, <1>3 DEF Claims, OfTimer, Roomless, Gone, NeedSocket, Joining
  <2> QED BY <2>1, <2>2
<1>8. Types'
  BY <1>1 DEF Types
<1> QED BY <1>1, <1>2, <1>4, <1>5, <1>6, <1>7, <1>8 DEF Rest

\* A socket becomes the connection of its user, who has none.
LEMMA RegisterKeeps ==
    ASSUME Types, NEW q, IsHandler(q), q.at \in {"getSocket", "removeSocket"}, Rest({q}),
           NEW n, IsHandler(n), n.at = "saveSocket", n.socket = q.socket, n.user = q.user,
           connections' = [connections EXCEPT ![q.user] = [socket |-> q.socket, room |-> None]],
           socketToUser' = socketToUser \cup {q.socket},
           UNCHANGED <<unused, open, presence, graceTimers>>
    PROVE  Types' /\ Rest({n})'
<1> DEFINE c == [socket |-> q.socket, room |-> None]
<1>1. /\ q.socket \in Sockets /\ q.user = Owner[q.socket] /\ connections[q.user] = None
      /\ q.socket \in open
  BY DEF Rest, Claims, OfTimer, Gone, NeedSocket
<1>2. c \in Connection /\ c # None /\ c.socket = q.socket /\ c.room = None
  BY <1>1, NoneAssumption DEF Connection
<1> HIDE DEF c
<1>3. /\ connections'[q.user] = c
      /\ \A u \in Users : u # q.user => connections'[u] = connections[u]
      /\ connections' \in [Users -> Connection \cup {None}]
  BY <1>2 DEF Types, IsHandler, c
<1>4. q.user \in Users
  BY DEF IsHandler
<1>5. Registered'
  BY <1>1, <1>2, <1>3, <1>4 DEF Rest, Registered
<1>6. Connected({n})'
  <2> SUFFICES ASSUME NEW s \in open, s # q.socket
               PROVE  connections'[Owner[s]] # None /\ connections'[Owner[s]].socket = s
    BY <1>1, <1>2, <1>3 DEF Connected
  <2>1. connections[Owner[s]] # None /\ connections[Owner[s]].socket = s
    BY DEF Rest, Connected
  <2>2. Owner[s] \in Users /\ Owner[s] # q.user
    BY <1>1, <2>1, PresenceAssumption DEF Types
  <2> QED BY <1>3, <2>1, <2>2
<1>7. Agreed({n})'
  <2> SUFFICES ASSUME NEW r \in Rooms, NEW u \in Users PROVE Agree(r, u)'
    BY DEF Agreed
  <2>1. Agree(r, u)
    BY DEF Rest, Agreed, Ahead
  <2>2. InRoom(u, r)' <=> InRoom(u, r)
    BY <1>1, <1>2, <1>3, PresenceAssumption DEF InRoom
  <2> QED BY <2>1, <2>2 DEF Agree
<1>8. Claims(n)'
  BY <1>1 DEF Claims, OfTimer, Roomless, Gone, NeedSocket, Joining
<1>9. Types'
  BY <1>3 DEF Types
<1> QED BY <1>5, <1>6, <1>7, <1>8, <1>9 DEF Rest

\* What the answer to the only handler leaves
Onward ==
    /\ Types'
    /\ \/ queue' = Tail(queue) /\ Rest({})'
       \/ \E n : IsHandler(n) /\ queue' = Append(Tail(queue), n) /\ Rest({n})'

\* redis.get and redis.del of another socket's key
LEMMA GetSocketKeeps ==
    ASSUME Types, NEW q, IsHandler(q), Handler = q, Rest({q}), GetSocket \/ RemoveSocket
    PROVE  Onward
<1>1. q.at \in {"getSocket", "removeSocket"}
  BY DEF GetSocket, RemoveSocket, At
<1>2. CASE Register /\ UNCHANGED <<unused, open, presence, graceTimers>>
  <2>0. PICK n : n = Then("saveSocket")
    OBVIOUS
  <2>1. /\ queue' = Append(Tail(queue), n)
        /\ connections' = [connections EXCEPT ![q.user] = [socket |-> q.socket, room |-> None]]
        /\ socketToUser' = socketToUser \cup {q.socket}
    BY <1>2, <2>0 DEF Register, Continues
  <2>2. IsHandler(n) /\ n.at = "saveSocket" /\ n.socket = q.socket /\ n.user = q.user
    BY <2>0, GoesOn DEF Then
  <2>3. Types' /\ Rest({n})'
    BY <1>1, <1>2, <2>1, <2>2, RegisterKeeps
  <2> QED BY <2>1, <2>2, <2>3 DEF Onward
<1>3. CASE Continues(Then("removeSocket")) /\ UNCHANGED <<unused, seen>>
  <2>0. PICK n : n = Then("removeSocket")
    OBVIOUS
  <2>1. queue' = Append(Tail(queue), n) /\ UNCHANGED seen
    BY <1>3, <2>0 DEF Continues
  <2>2. /\ IsHandler(n) /\ n.at = "removeSocket" /\ n.socket = q.socket
        /\ n.user = q.user /\ n.room = q.room
    BY <2>0, GoesOn DEF Then
  <2>3. Claims(q)
    BY DEF Rest
  <2>4. Claims(n)'
    BY <1>1, <2>1, <2>2, <2>3 DEF Claims, seen, OfTimer, Roomless, Gone, NeedSocket, Joining
  <2>5. Rest({n})'
    BY <1>1, <2>1, <2>2, <2>4, SameKeeps DEF NeedSocket, Ahead
  <2>6. Types'
    BY <1>3 DEF Types, seen
  <2> QED BY <2>1, <2>2, <2>5, <2>6 DEF Onward
<1> QED BY <1>2, <1>3 DEF GetSocket, RemoveSocket, sockets, redis, seen

\* A socket that has gone is nobody's connection; its user's status in the room
\* is to be set yet.
LEMMA UnregisterKeeps ==
    ASSUME Types, NEW q, IsHandler(q), q.at = "unregister", Handler = q, Unregister,
           NEW rest, Rest({q} \cup rest),
           \A p \in rest : p.at = "supersede" /\ p.user = q.user
    PROVE  /\ Types'
           /\ \/ queue' = Tail(queue) /\ Rest(rest)'
              \/ \E n : /\ IsHandler(n) /\ queue' = Append(Tail(queue), n)
                        /\ n.at = "setDisconnected" /\ n.user = q.user
                        /\ Rest(rest \cup {n})'
<1>1. /\ socketToUser' = socketToUser \ {q.socket}
      /\ UNCHANGED <<unused, open, connections, graceTimers, presence>>
  BY DEF Unregister, sockets
<1>2. /\ q.socket \in Sockets /\ q.user = Owner[q.socket] /\ connections[q.user] = None
      /\ q.user \in Users /\ q.room \in Rooms \cup {None}
  BY DEF Rest, Claims, OfTimer, Gone, IsHandler
<1>3. Registered'
  BY <1>1, <1>2 DEF Rest, Registered
<1>4. ASSUME NEW new, rest \subseteq new, \A x \in new : Claims(x)',
             q.room # None => \E n \in new : n.at = "setDisconnected" /\ n.user = q.user
                                             /\ n.room = q.room
      PROVE  Rest(new)'
  <2>1. Connected(new)'
    <3>1. q.at \notin NeedSocket
      BY DEF NeedSocket
    <3> QED BY <1>1, <1>4, <3>1 DEF Rest, Connected
  <2>2. Agreed(new)'
    <3>1. \A r \in Rooms, u \in Users : Agree(r, u)' <=> Agree(r, u)
      BY <1>1 DEF Agree, InRoom
    <3> SUFFICES ASSUME NEW r \in Rooms, NEW u \in Users
                 PROVE  \/ Agree(r, u)'
                        \/ \E x \in new : x.at \in Ahead /\ x.room = r /\ x.user = u
      BY DEF Agreed
    <3>2. Agree(r, u) \/ \E x \in {q} \cup rest : x.at \in Ahead /\ x.room = r /\ x.user = u
      BY DEF Rest, Agreed
    <3>3. r # None
      BY PresenceAssumption
    <3> QED BY <1>4, <3>1, <3>2, <3>3 DEF Ahead
  <2> QED BY <1>3, <1>4, <2>1, <2>2 DEF Rest
<1>5. ASSUME NEW p \in rest PROVE Claims(p)'
  <2>1. Claims(p) /\ p.at = "supersede"
    BY DEF Rest
  <2> QED BY <1>1, <2>1 DEF Claims, OfTimer, Roomless, Gone, NeedSocket, Joining
<1>6. Types'
  BY <1>1 DEF Types
<1>7. CASE q.room = None
  <2>1. queue' = Tail(queue)
    BY <1>7 DEF Unregister, Returns
  <2>2. Rest(rest)'
    BY <1>4, <1>5, <1>7
  <2> QED BY <1>6, <2>1, <2>2
<1>8. CASE q.room # None
  <2>0. PICK n : n = Then("setDisconnected")
    OBVIOUS
  <2>1. queue' = Append(Tail(queue), n)
    BY <1>8, <2>0 DEF Unregister, Continues
  <2>2. /\ IsHandler(n) /\ n.at = "setDisconnected" /\ n.socket = q.socket
        /\ n.user = q.user /\ n.room = q.room
    BY <2>0, GoesOn DEF Then
  <2>3. Claims(n)'
    BY <1>1, <1>2, <1>8, <2>2 DEF Claims, OfTimer, Roomless, Gone, NeedSocket, Joining
  <2>4. Rest(rest \cup {n})'
    BY <1>4, <1>5, <2>2, <2>3
  <2> QED BY <1>6, <2>1, <2>2, <2>4
<1> QED BY <1>7, <1>8

\* The user is disconnected and has a grace period.
LEMMA SetDisconnectedKeeps ==
    ASSUME Types, NEW q, IsHandler(q), q.at = "setDisconnected", Handler = q,
           SetDisconnected, NEW rest, Rest({q} \cup rest),
           \A p \in rest : p.at = "getSocket" /\ p.user = q.user
    PROVE  Types' /\ queue' = Tail(queue) /\ Rest(rest)'
<1>1. /\ presence' = [presence EXCEPT ![q.room][q.user] = "DISCONNECTED"]
      /\ graceTimers' = graceTimers \cup {<<q.room, q.user>>}
      /\ queue' = Tail(queue)
      /\ UNCHANGED <<unused, open, connections, socketToUser>>
  BY DEF SetDisconnected, SetPresence, InGrace, Returns, sockets
<1>2. q.room \in Rooms /\ q.user \in Users /\ connections[q.user] = None
  BY DEF Rest, Claims, OfTimer, Gone, Roomless, NeedSocket, IsHandler
<1>3. /\ presence' \in [Rooms -> [Users -> Statuses \cup {None}]]
      /\ presence'[q.room][q.user] = "DISCONNECTED"
      /\ \A r \in Rooms, u \in Users :
            ~(r = q.room /\ u = q.user) => presence'[r][u] = presence[r][u]
  BY <1>1, <1>2 DEF Types, Statuses
<1>4. Agree(q.room, q.user)'
  BY <1>1, <1>2, <1>3 DEF Agree, InRoom
<1>5. ASSUME NEW p \in rest PROVE Claims(p)'
  <2>1. Claims(p) /\ p.at = "getSocket"
    BY DEF Rest
  <2> QED BY <1>1, <2>1 DEF Claims, OfTimer, Roomless, Gone, NeedSocket, Joining
<1>6. q.at \notin NeedSocket
  BY DEF NeedSocket
<1>7. \A r \in Rooms, u \in Users : ~(r = q.room /\ u = q.user) =>
         /\ presence'[r][u] = presence[r][u]
         /\ <<r, u>> \in graceTimers' <=> <<r, u>> \in graceTimers
  BY <1>1, <1>3
<1>8. Rest(rest)'
  <2> DEFINE old == {q} \cup rest
  <2>1. q \in old /\ \A x \in old \ {q} : x \in rest
    OBVIOUS
  <2> HIDE DEF old
  <2>2. Rest(old)
    BY DEF old
  <2> QED BY <1>1, <1>4, <1>5, <1>6, <1>7, <2>1, <2>2, Settles
<1>9. Types'
  BY <1>1, <1>3 DEF Types
<1> QED BY <1>1, <1>8, <1>9

\* The user is back: the timer goes with the status.
LEMMA SetOnlineKeeps ==
    ASSUME Types, NEW q, IsHandler(q), q.at = "setOnline", Handler = q,
           SetOnline, Rest({q})
    PROVE  Onward
<1>0. PICK n : n = Then("clearGraceKey")
  OBVIOUS
<1>1. /\ presence' = [presence EXCEPT ![q.room][q.user] = "ONLINE"]
      /\ graceTimers' = graceTimers \ {<<q.room, q.user>>}
      /\ queue' = Append(Tail(queue), n)
      /\ UNCHANGED <<unused, open, connections, socketToUser>>
  BY <1>0 DEF SetOnline, SetPresence, InGrace, Continues, sockets
<1>2. /\ IsHandler(n) /\ n.at = "clearGraceKey" /\ n.socket = q.socket
      /\ n.user = q.user /\ n.room = q.room
  BY <1>0, GoesOn DEF Then
<1>3. /\ q.room \in Rooms /\ q.user \in Users /\ InRoom(q.user, q.room)
      /\ q.socket \in Sockets /\ q.user = Owner[q.socket]
  BY DEF Rest, Claims, OfTimer, Roomless, NeedSocket, IsHandler
<1>4. /\ presence' \in [Rooms -> [Users -> Statuses \cup {None}]]
      /\ presence'[q.room][q.user] = "ONLINE"
      /\ \A r \in Rooms, u \in Users :
            ~(r = q.room /\ u = q.user) => presence'[r][u] = presence[r][u]
  BY <1>1, <1>3 DEF Types, Statuses
<1>5. Agree(q.room, q.user)'
  BY <1>1, <1>3, <1>4 DEF Agree, InRoom
<1>6. Claims(n)'
  BY <1>2, <1>3 DEF Claims, OfTimer, Roomless, Gone, NeedSocket, Joining
<1>7. \A r \in Rooms, u \in Users : ~(r = q.room /\ u = q.user) =>
         /\ presence'[r][u] = presence[r][u]
         /\ <<r, u>> \in graceTimers' <=> <<r, u>> \in graceTimers
  BY <1>1, <1>4
<1>8. q.at \notin NeedSocket
  BY DEF NeedSocket
<1>9. Rest({n})'
  BY <1>1, <1>5, <1>6, <1>7, <1>8, Settles
<1>10. Types'
  BY <1>1, <1>4 DEF Types
<1> QED BY <1>1, <1>2, <1>9, <1>10 DEF Onward

\* What removePresence does to a room and a user
LEMMA PresenceRemoved ==
    ASSUME Types, NEW q, IsHandler(q), Handler = q, NEW room \in Rooms, RemovePresence(room),
           UNCHANGED connections, ~InRoom(q.user, room)
    PROVE  /\ presence' \in [Rooms -> [Users -> Statuses \cup {None}]]
           /\ \A r \in Rooms, u \in Users : ~(r = room /\ u = q.user) =>
                 /\ presence'[r][u] = presence[r][u]
                 /\ <<r, u>> \in graceTimers' <=> <<r, u>> \in graceTimers
           /\ Agree(room, q.user)'
<1>1. /\ presence' = [presence EXCEPT ![room][q.user] = None]
      /\ graceTimers' = graceTimers \ {<<room, q.user>>}
      /\ q.user \in Users
  BY DEF RemovePresence, IsHandler
<1>2. /\ presence' \in [Rooms -> [Users -> Statuses \cup {None}]]
      /\ presence'[room][q.user] = None
      /\ \A r \in Rooms, u \in Users :
            ~(r = room /\ u = q.user) => presence'[r][u] = presence[r][u]
  BY <1>1 DEF Types, Statuses
<1>3. None # "ONLINE" /\ None # "DISCONNECTED"
  BY NoneAssumption DEF Statuses
<1>4. Agree(room, q.user)'
  BY <1>1, <1>2, <1>3 DEF Agree, InRoom
<1> QED BY <1>1, <1>2, <1>4

\* The grace period is over, or the player has left: presence goes.
LEMMA PresenceGoes ==
    ASSUME Types, NEW q, IsHandler(q), Handler = q, Rest({q}),
           \/ q.at = "expire" /\ Expire
           \/ q.at = "removePresence" /\ LeavePresence
    PROVE  Onward
<1>1. /\ RemovePresence(q.room)
      /\ UNCHANGED <<unused, open, connections, socketToUser>>
  BY DEF Expire, LeavePresence, sockets
<1>2. q.room \in Rooms /\ ~InRoom(q.user, q.room)
  BY DEF Rest, Claims, Roomless, NeedSocket
<1>3. /\ presence' \in [Rooms -> [Users -> Statuses \cup {None}]]
      /\ \A r \in Rooms, u \in Users : ~(r = q.room /\ u = q.user) =>
            /\ presence'[r][u] = presence[r][u]
            /\ <<r, u>> \in graceTimers' <=> <<r, u>> \in graceTimers
      /\ Agree(q.room, q.user)'
  BY <1>1, <1>2, PresenceRemoved
<1>4. Types'
  BY <1>1, <1>3 DEF Types
<1>5. q.at \notin NeedSocket
  BY DEF NeedSocket
<1>6. CASE LeavePresence
  <2>1. queue' = Tail(queue)
    BY <1>6 DEF LeavePresence, Returns
  <2>2. Rest({})'
    BY <1>1, <1>3, <1>5, Settles
  <2> QED BY <1>4, <2>1, <2>2 DEF Onward
<1>7. CASE Expire
  <2>0. PICK n : n = Then("leaveRoom")
    OBVIOUS
  <2>1. queue' = Append(Tail(queue), n)
    BY <1>7, <2>0 DEF Expire, Continues
  <2>2. IsHandler(n) /\ n.at = "leaveRoom" /\ n.room = q.room
    BY <2>0, GoesOn DEF Then
  <2>3. Claims(n)'
    BY <1>2, <2>2 DEF Claims, OfTimer, Roomless, Gone, NeedSocket, Joining
  <2>4. Rest({n})'
    BY <1>1, <1>3, <1>5, <2>3, Settles
  <2> QED BY <1>4, <2>1, <2>2, <2>4 DEF Onward
<1> QED BY <1>6, <1>7

\* A handler returns or goes on, and what the others see stays.
LEMMA QuietKeeps ==
    ASSUME Types, NEW q, Rest({q}), UNCHANGED <<unused, seen>>, q.at \notin NeedSocket,
           \/ queue' = Tail(queue) /\ q.at \notin Ahead
           \/ \E n : /\ IsHandler(n) /\ queue' = Append(Tail(queue), n) /\ Claims(n)'
                     /\ q.at \in Ahead => n.at \in Ahead /\ n.room = q.room /\ n.user = q.user
    PROVE  Onward
<1>1. Types'
  BY DEF Types, seen
<1>2. CASE queue' = Tail(queue) /\ q.at \notin Ahead
  <2>1. Rest({})'
    BY <1>2, SameKeeps
  <2> QED BY <1>1, <1>2, <2>1 DEF Onward
<1>3. ASSUME NEW n, IsHandler(n), queue' = Append(Tail(queue), n), Claims(n)',
             q.at \in Ahead => n.at \in Ahead /\ n.room = q.room /\ n.user = q.user
      PROVE  Onward
  <2>1. Rest({n})'
    BY <1>3, SameKeeps
  <2> QED BY <1>1, <1>3, <2>1 DEF Onward
<1> QED BY <1>2, <1>3

\* Commands whose answers change nothing that is compared
LEMMA SmallKeeps ==
    ASSUME Types, NEW q, IsHandler(q), Handler = q, Rest({q}),
           \/ SaveSocket \/ ClearGraceKey \/ LeaveLobby \/ CancelGame
           \/ IsInGracePeriod \/ GraceExists \/ ReadSeen
    PROVE  Onward
<1>1. UNCHANGED <<unused, seen>>
  BY DEF SaveSocket, ClearGraceKey, LeaveLobby, CancelGame, IsInGracePeriod, GraceExists,
         ReadSeen, sockets, inMemory, redis, seen
<1>2. Claims(q)
  BY DEF Rest
<1>3. CASE SaveSocket \/ ClearGraceKey \/ CancelGame
  <2>1. queue' = Tail(queue) /\ q.at \in {"saveSocket", "clearGraceKey", "cancelGame"}
    BY <1>3 DEF SaveSocket, ClearGraceKey, CancelGame, Returns, At
  <2>2. q.at \notin NeedSocket /\ q.at \notin Ahead
    BY <2>1 DEF NeedSocket, Ahead
  <2> QED BY <1>1, <2>1, <2>2, QuietKeeps
<1>4. CASE LeaveLobby
  <2>0. PICK n : n = Then("cancelGame")
    OBVIOUS
  <2>1. queue' = Append(Tail(queue), n) /\ q.at = "leaveRoom"
    BY <1>4, <2>0 DEF LeaveLobby, Continues, At
  <2>2. IsHandler(n) /\ n.at = "cancelGame" /\ n.room = q.room
    BY <2>0, GoesOn DEF Then
  <2>3. Claims(n)' /\ q.at \notin NeedSocket /\ q.at \notin Ahead
    BY <1>2, <2>1, <2>2 DEF Claims, OfTimer, Roomless, Gone, NeedSocket, Joining, Ahead
  <2> QED BY <1>1, <2>1, <2>2, <2>3, QuietKeeps
<1>5. CASE IsInGracePeriod
  <2>1. q.at = "isInGracePeriod"
    BY <1>5 DEF IsInGracePeriod, At
  <2>5. PICK memo : memo = (/\ presence[q.room][q.user] = "DISCONNECTED"
                            /\ q.user \in graceKey)
    OBVIOUS
  <2>6. PICK n : n = [[q EXCEPT !.at = "getRoom"] EXCEPT !.memo = memo]
    OBVIOUS
  <2>0. queue' = Append(Tail(queue), n)
    BY <1>5, <2>5, <2>6 DEF IsInGracePeriod, Continues, Then
  <2>2. /\ IsHandler(n) /\ n.at = "getRoom" /\ n.room = q.room /\ n.user = q.user
        /\ n.socket = q.socket
    BY <2>6 DEF IsHandler
  <2>3. Claims(n)'
    BY <1>1, <1>2, <2>1, <2>2
    DEF Claims, OfTimer, Roomless, Gone, NeedSocket, Joining, seen
  <2>4. q.at \notin NeedSocket /\ q.at \notin Ahead
    BY <2>1 DEF NeedSocket, Ahead
  <2> QED BY <1>1, <2>0, <2>2, <2>3, <2>4, QuietKeeps
<1>6. CASE GraceExists
  <2>0. PICK n : n = Then("setOnline")
    OBVIOUS
  <2>1. queue' = Append(Tail(queue), n) /\ q.at = "graceExists"
    BY <1>6, <2>0 DEF GraceExists, Continues, At
  <2>2. /\ IsHandler(n) /\ n.at = "setOnline" /\ n.room = q.room /\ n.user = q.user
        /\ n.socket = q.socket
    BY <2>0, GoesOn DEF Then
  <2>3. InRoom(q.user, q.room)'
    BY <1>1, <1>2, <2>1 DEF Claims, InRoom, seen
  <2>4. Claims(n)'
    BY <1>1, <1>2, <2>1, <2>2, <2>3
    DEF Claims, OfTimer, Roomless, Gone, NeedSocket, Joining, seen
  <2>5. q.at \notin NeedSocket /\ n.at \in Ahead
    BY <2>1, <2>2 DEF NeedSocket, Ahead
  <2> QED BY <1>1, <2>1, <2>2, <2>4, <2>5, QuietKeeps
<1>7. CASE ReadSeen
  <2>1. q.at = "readSeen" /\ q.at \notin NeedSocket /\ q.at \notin Ahead
    BY <1>7 DEF ReadSeen, At, NeedSocket, Ahead
  <2>2. CASE queue' = Tail(queue)
    BY <1>1, <2>1, <2>2, QuietKeeps
  <2>3. CASE Continues([Then("writeSeen") EXCEPT !.memo = presence[q.room][q.user]])
    <3>4. PICK memo : memo = presence[q.room][q.user]
      OBVIOUS
    <3>0. PICK n : n = [[q EXCEPT !.at = "writeSeen"] EXCEPT !.memo = memo]
      OBVIOUS
    <3>1. queue' = Append(Tail(queue), n)
      BY <2>3, <3>0, <3>4 DEF Continues, Then
    <3>2. /\ IsHandler(n) /\ n.at = "writeSeen" /\ n.room = q.room /\ n.user = q.user
          /\ n.socket = q.socket /\ n.memo = presence[q.room][q.user]
      BY <3>0, <3>4 DEF IsHandler
    <3>3. Claims(n)'
      BY <1>1, <1>2, <2>1, <3>2
      DEF Claims, OfTimer, Roomless, Gone, NeedSocket, Joining, seen
    <3> QED BY <1>1, <2>1, <3>1, <3>2, <3>3, QuietKeeps
  <2> QED BY <1>7, <2>2, <2>3 DEF ReadSeen, Returns
<1> QED BY <1>3, <1>4, <1>5, <1>6, <1>7

\* The status that was read is the one that is written back.
LEMMA WriteSeenKeeps ==
    ASSUME Types, NEW q, IsHandler(q), Handler = q, Rest({q}), WriteSeen
    PROVE  Onward
<1>1. /\ q.at = "writeSeen" /\ queue' = Tail(queue)
      /\ presence' = [presence EXCEPT ![q.room][q.user] = q.memo]
      /\ UNCHANGED <<unused, open, connections, socketToUser, graceTimers>>
  BY DEF WriteSeen, At, Returns, SetPresence, sockets, inMemory
<1>2. /\ q.room \in Rooms /\ q.user \in Users /\ q.memo = presence[q.room][q.user]
      /\ q.at \notin NeedSocket /\ q.at \notin Ahead
  BY <1>1 DEF Rest, Claims, IsHandler, Roomless, NeedSocket, Ahead
<1>3. presence' = presence
  BY <1>1, <1>2 DEF Types
<1> QED BY <1>1, <1>2, <1>3, QuietKeeps DEF seen

\* The user's connection enters the room of the handler: the room it was in, if
\* another, has forgotten the user.
LEMMA EnterKeeps ==
    ASSUME Types, NEW q, IsHandler(q), q.at \in {"getRoom", "leaveOther"}, Handler = q,
           Rest({q}), NEW inGrace, Enter(inGrace),
           UNCHANGED <<unused, open, socketToUser>>,
           presence' \in [Rooms -> [Users -> Statuses \cup {None}]],
           \A r \in Rooms, u \in Users : u # q.user =>
               /\ presence'[r][u] = presence[r][u]
               /\ <<r, u>> \in graceTimers' <=> <<r, u>> \in graceTimers,
           \A r \in Rooms \ {q.room} :
               /\ presence'[r][q.user] # "ONLINE"
               /\ presence'[r][q.user] = "DISCONNECTED" <=> <<r, q.user>> \in graceTimers'
    PROVE  Onward
<1> DEFINE at == IF inGrace THEN "graceExists" ELSE "setOnline"
<1>0. PICK n : n = [q EXCEPT !.at = at]
  OBVIOUS
<1>1. /\ IsHandler(n) /\ n.at = at /\ n.socket = q.socket
      /\ n.user = q.user /\ n.room = q.room
  BY <1>0 DEF IsHandler
<1>14. queue' = Append(Tail(queue), n) /\ at \in {"graceExists", "setOnline"}
  BY <1>0 DEF Enter, Continues, Then
<1> HIDE DEF at
<1>2. /\ q.socket \in Sockets /\ q.user = Owner[q.socket] /\ q.room \in Rooms
      /\ connections[q.user] # None /\ connections[q.user].socket = q.socket
      /\ q.user \in Users
  BY DEF Rest, Claims, OfTimer, Roomless, NeedSocket, Joining, IsHandler
<1>3. IsCurrent(q.socket)
  BY <1>2 DEF IsCurrent, ConnectionOf, Rest, Registered
<1>4. connections' = [connections EXCEPT ![q.user].room = q.room]
  BY <1>2, <1>3 DEF Enter, ConnectionInRoom
<1> DEFINE c == [connections[q.user] EXCEPT !.room = q.room]
<1>5. connections[q.user] \in Connection
  BY <1>2 DEF Types
<1>6. c \in Connection /\ c # None /\ c.socket = q.socket /\ c.room = q.room
  BY <1>2, <1>5, NoneAssumption DEF Connection
<1>7. /\ connections'[q.user] = c
      /\ \A u \in Users : u # q.user => connections'[u] = connections[u]
      /\ connections' \in [Users -> Connection \cup {None}]
  BY <1>2, <1>4, <1>6 DEF Types
<1> HIDE DEF c
<1>8. Registered'
  BY <1>2, <1>6, <1>7 DEF Rest, Registered
<1>9. Connected({n})'
  <2>1. q.at \notin NeedSocket
    BY DEF NeedSocket
  <2> SUFFICES ASSUME NEW s \in open
               PROVE  connections'[Owner[s]] # None /\ connections'[Owner[s]].socket = s
    BY DEF Connected
  <2>2. connections[Owner[s]] # None /\ connections[Owner[s]].socket = s
    BY <2>1 DEF Rest, Connected
  <2>3. Owner[s] \in Users
    BY PresenceAssumption DEF Types
  <2> QED BY <1>2, <1>6, <1>7, <2>2, <2>3
<1>10. Agreed({n})'
  <2>1. n.at \in Ahead /\ q.at \notin Ahead
    BY <1>1, <1>14 DEF Ahead
  <2> SUFFICES ASSUME NEW r \in Rooms, NEW u \in Users, ~(r = q.room /\ u = q.user)
               PROVE  Agree(r, u)'
    BY <1>1, <2>1 DEF Agreed
  <2>2. CASE u = q.user
    <3>1. r # q.room /\ ~InRoom(u, r)'
      BY <1>6, <1>7, <2>2 DEF InRoom
    <3> QED BY <2>2, <3>1 DEF Agree
  <2>3. CASE u # q.user
    <3>1. Agree(r, u)
      BY <2>1 DEF Rest, Agreed
    <3>2. InRoom(u, r)' <=> InRoom(u, r)
      BY <1>7, <2>3 DEF InRoom
    <3> QED BY <2>3, <3>1, <3>2 DEF Agree
  <2> QED BY <2>2, <2>3
<1>11. InRoom(q.user, q.room)'
  BY <1>6, <1>7 DEF InRoom
<1>12. Claims(n)'
  BY <1>1, <1>2, <1>6, <1>7, <1>11, <1>14
  DEF Claims, OfTimer, Roomless, Gone, NeedSocket, Joining
<1>13. Types'
  BY <1>7 DEF Types
<1>15. Rest({n})'
  BY <1>8, <1>9, <1>10, <1>12 DEF Rest
<1> QED BY <1>1, <1>13, <1>14, <1>15 DEF Onward

\* The room is read: the user is not in it, enters it, or leaves another first.
LEMMA GetRoomKeeps ==
    ASSUME Types, NEW q, IsHandler(q), q.at = "getRoom", Handler = q, Rest({q}), GetRoom
    PROVE  Onward
<1>0. PICK from : from = RoomOf(q.socket)
  OBVIOUS
<1>1. UNCHANGED <<unused, open, socketToUser, graceTimers, presence>>
  BY DEF GetRoom, sockets, redis
<1>2. /\ q.socket \in Sockets /\ q.user = Owner[q.socket] /\ q.room \in Rooms
      /\ connections[q.user] # None /\ connections[q.user].socket = q.socket
      /\ q.user \in Users /\ q.at \notin NeedSocket /\ q.at \notin Ahead
  BY DEF Rest, Claims, OfTimer, Roomless, NeedSocket, Joining, IsHandler, Ahead
<1>3. from = connections[q.user].room /\ from \in Rooms \cup {None}
  BY <1>0, <1>2 DEF RoomOf, ConnectionOf, Rest, Registered, Types, Connection
<1>4. \A r \in Rooms, u \in Users : Agree(r, u)
  BY <1>2 DEF Rest, Agreed
<1>5. CASE Returns /\ UNCHANGED connections
  BY <1>1, <1>2, <1>5, QuietKeeps DEF seen, Returns
<1>6. CASE from \in {None, q.room} /\ Enter(q.memo)
  <2>1. \A r \in Rooms \ {q.room} :
           /\ presence[r][q.user] # "ONLINE"
           /\ presence[r][q.user] = "DISCONNECTED" <=> <<r, q.user>> \in graceTimers
    BY <1>2, <1>3, <1>4, <1>6, PresenceAssumption DEF Agree, InRoom
  <2>2. presence' \in [Rooms -> [Users -> Statuses \cup {None}]]
    BY <1>1 DEF Types
  <2> QED BY <1>1, <1>6, <2>1, <2>2, EnterKeeps
<1>7. CASE /\ from \notin {None, q.room} /\ UNCHANGED connections
           /\ Continues([Then("leaveOther") EXCEPT !.memo =
                            [inGrace |-> q.memo, from |-> from]])
  <2> DEFINE memo == [inGrace |-> q.memo, from |-> from]
  <2>1. memo.from = from
    OBVIOUS
  <2>5. PICK n : n = [[q EXCEPT !.at = "leaveOther"] EXCEPT !.memo = memo]
    OBVIOUS
  <2>0. queue' = Append(Tail(queue), n)
    BY <1>7, <2>5 DEF Continues, Then
  <2> HIDE DEF memo
  <2>2. /\ IsHandler(n) /\ n.at = "leaveOther" /\ n.room = q.room /\ n.user = q.user
        /\ n.socket = q.socket /\ n.memo = memo
    BY <2>5 DEF IsHandler
  <2>3. from \in Rooms \ {q.room} /\ InRoom(q.user, from)'
    <3>1. from \in Rooms \ {q.room}
      BY <1>3, <1>7
    <3>2. InRoom(q.user, from)'
      BY <1>2, <1>3, <1>7 DEF InRoom
    <3> QED BY <3>1, <3>2
  <2>4. Claims(n)'
    BY <1>1, <1>2, <1>7, <2>1, <2>2, <2>3
    DEF Claims, OfTimer, Roomless, Gone, NeedSocket, Joining
  <2> QED BY <1>1, <1>2, <1>7, <2>0, <2>2, <2>4, QuietKeeps DEF seen
<1> QED BY <1>0, <1>5, <1>6, <1>7 DEF GetRoom

\* Presence in the room that is left goes before the connection moves.
LEMMA LeaveOtherKeeps ==
    ASSUME Types, NEW q, IsHandler(q), q.at = "leaveOther", Handler = q, Rest({q}),
           LeaveOther
    PROVE  Onward
<1> DEFINE from == q.memo.from
<1>1. /\ RemovePresence(from) /\ Enter(q.memo.inGrace)
      /\ UNCHANGED <<unused, open, socketToUser>>
  BY DEF LeaveOther, sockets
<1>2. /\ q.room \in Rooms /\ q.user \in Users /\ from \in Rooms \ {q.room}
      /\ InRoom(q.user, from) /\ q.at \notin Ahead
  BY DEF Rest, Claims, Roomless, NeedSocket, IsHandler, Ahead
<1>3. \A r \in Rooms, u \in Users : Agree(r, u)
  BY <1>2 DEF Rest, Agreed
<1> HIDE DEF from
<1>4. /\ presence' = [presence EXCEPT ![from][q.user] = None]
      /\ graceTimers' = graceTimers \ {<<from, q.user>>}
  BY <1>1 DEF RemovePresence
<1>5. /\ presence' \in [Rooms -> [Users -> Statuses \cup {None}]]
      /\ presence'[from][q.user] = None
      /\ \A r \in Rooms, u \in Users :
            ~(r = from /\ u = q.user) => presence'[r][u] = presence[r][u]
  BY <1>2, <1>4 DEF Types, Statuses
<1>6. None # "ONLINE" /\ None # "DISCONNECTED"
  BY NoneAssumption DEF Statuses
<1>7. \A r \in Rooms, u \in Users : u # q.user =>
         /\ presence'[r][u] = presence[r][u]
         /\ <<r, u>> \in graceTimers' <=> <<r, u>> \in graceTimers
  BY <1>4, <1>5
<1>8. \A r \in Rooms \ {q.room} :
         /\ presence'[r][q.user] # "ONLINE"
         /\ presence'[r][q.user] = "DISCONNECTED" <=> <<r, q.user>> \in graceTimers'
  <2> SUFFICES ASSUME NEW r \in Rooms \ {q.room}
               PROVE  /\ presence'[r][q.user] # "ONLINE"
                      /\ presence'[r][q.user] = "DISCONNECTED" <=> <<r, q.user>> \in graceTimers'
    OBVIOUS
  <2>1. CASE r = from
    BY <1>4, <1>5, <1>6, <2>1
  <2>2. CASE r # from
    <3>1. Agree(r, q.user) /\ ~InRoom(q.user, r)
      BY <1>2, <1>3, <2>2 DEF InRoom
    <3> QED BY <1>2, <1>4, <1>5, <2>2, <3>1 DEF Agree
  <2> QED BY <2>1, <2>2
<1> QED BY <1>1, <1>5, <1>7, <1>8, EnterKeeps

-----------------------------------------------------------------------------

(***************************************************************************)
(* An event finds no handler waiting.                                      *)
(***************************************************************************)

\* Between events, an open socket is the connection of its user.
LEMMA OpenIsConnected ==
    ASSUME Types, Rest({}), NEW s \in open
    PROVE  /\ s \in Sockets /\ Owner[s] \in Users
           /\ connections[Owner[s]] \in Connection /\ connections[Owner[s]] # None
           /\ connections[Owner[s]].socket = s
           /\ IsCurrent(s) /\ RoomOf(s) = connections[Owner[s]].room
           /\ RoomOf(s) \in Rooms \cup {None}
<1>1. s \in Sockets /\ Owner[s] \in Users
  BY PresenceAssumption DEF Types
<1>2. connections[Owner[s]] # None /\ connections[Owner[s]].socket = s
  BY DEF Rest, Connected
<1>3. connections[Owner[s]] \in Connection
  BY <1>1, <1>2 DEF Types
<1>4. s \in socketToUser
  BY <1>1, <1>2 DEF Rest, Registered
<1>5. ConnectionOf(s) = connections[Owner[s]]
  BY <1>4 DEF ConnectionOf
<1>6. IsCurrent(s) /\ RoomOf(s) = connections[Owner[s]].room
  BY <1>2, <1>5 DEF IsCurrent, RoomOf
<1>7. RoomOf(s) \in Rooms \cup {None}
  BY <1>3, <1>6 DEF Connection
<1> QED BY <1>1, <1>2, <1>3, <1>6, <1>7

\* A connection ends with its socket; a socket that comes in its place waits.
LEMMA ClosesKeeps ==
    ASSUME Types, Rest({}), NEW s \in open, NEW arrived, open' = (open \ {s}) \cup arrived,
           connections' = [connections EXCEPT ![Owner[s]] = None],
           UNCHANGED <<socketToUser, graceTimers, presence>>,
           NEW waiting, \A x \in waiting : Claims(x)',
           \A t \in arrived : \E x \in waiting : x.at \in NeedSocket /\ x.socket = t,
           \E x \in waiting : /\ x.at \in Ahead /\ x.room = RoomOf(s)
                              /\ x.user = Owner[s]
    PROVE  Rest(waiting)'
<1>1. /\ s \in Sockets /\ Owner[s] \in Users
      /\ connections[Owner[s]] # None /\ connections[Owner[s]].socket = s
      /\ RoomOf(s) = connections[Owner[s]].room
  BY OpenIsConnected
<1>2. /\ connections'[Owner[s]] = None
      /\ \A u \in Users : u # Owner[s] => connections'[u] = connections[u]
  BY <1>1 DEF Types
<1>3. Registered'
  <2> SUFFICES ASSUME NEW u \in Users, connections'[u] # None
               PROVE  /\ Owner[connections'[u].socket] = u
                      /\ connections'[u].socket \in open' \cap socketToUser
    BY DEF Registered
  <2>1. u # Owner[s] /\ connections'[u] = connections[u]
    BY <1>2
  <2>2. /\ Owner[connections[u].socket] = u
        /\ connections[u].socket \in open \cap socketToUser
    BY <2>1 DEF Rest, Registered
  <2> QED BY <2>1, <2>2
<1>4. Connected(waiting)'
  <2> SUFFICES ASSUME NEW t \in open, t # s
               PROVE  connections'[Owner[t]] # None /\ connections'[Owner[t]].socket = t
    BY DEF Connected
  <2>1. /\ Owner[t] \in Users /\ connections[Owner[t]] # None
        /\ connections[Owner[t]].socket = t
    BY OpenIsConnected
  <2>2. Owner[t] # Owner[s]
    BY <1>1, <2>1
  <2> QED BY <1>2, <2>1, <2>2
<1>5. Agreed(waiting)'
  <2> SUFFICES ASSUME NEW r \in Rooms, NEW u \in Users, ~(r = RoomOf(s) /\ u = Owner[s])
               PROVE  Agree(r, u)'
    BY DEF Agreed
  <2>1. Agree(r, u)
    BY DEF Rest, Agreed
  <2>2. InRoom(u, r)' <=> InRoom(u, r)
    BY <1>1, <1>2 DEF InRoom
  <2> QED BY <2>1, <2>2 DEF Agree
<1> QED BY <1>3, <1>4, <1>5 DEF Rest

\* A handler of a socket, from its start
LEMMA Starts ==
    ASSUME NEW at, NEW s \in Sockets, NEW room \in Rooms \cup {None}, NEW memo
    PROVE  LET n == Wait(at, s, room, memo)
           IN  /\ IsHandler(n) /\ n.at = at /\ n.socket = s /\ n.user = Owner[s]
               /\ n.room = room /\ n.memo = memo
BY PresenceAssumption DEF Wait, IsHandler

\* The client goes: the handler that unregisters its socket is the only one.
LEMMA DisconnectKeeps ==
    ASSUME Types, Rest({}), queue = << >>, NEW s, Disconnect(s)
    PROVE  Types' /\ Orderly'
<1>1. s \in open /\ open' = open \ {s} /\ Drops(s, << >>)
      /\ UNCHANGED <<unused, graceTimers, presence>>
  BY DEF Disconnect, redis
<1>2. /\ s \in Sockets /\ Owner[s] \in Users /\ IsCurrent(s) /\ RoomOf(s) \in Rooms \cup {None}
  BY <1>1, OpenIsConnected
<1>3. PICK room : room = RoomOf(s)
  OBVIOUS
<1>4. PICK q : q = Wait("unregister", s, room, None)
  OBVIOUS
<1>5. queue' = <<q>>
  <2>1. Leaving(s) = <<q>>
    BY <1>2, <1>3, <1>4 DEF Leaving
  <2>2. queue' = << >> \o <<q>> \o << >>
    BY <1>1, <2>1 DEF Drops
  <2> QED BY <2>2, Queues
<1>6. /\ connections' = [connections EXCEPT ![Owner[s]] = None]
      /\ socketToUser' = socketToUser
  BY <1>1, <1>2 DEF Drops
<1>7. /\ IsHandler(q) /\ q.at = "unregister" /\ q.socket = s /\ q.user = Owner[s]
      /\ q.room = room
  BY <1>2, <1>3, <1>4, Starts
<1>8. Claims(q)'
  BY <1>2, <1>6, <1>7 DEF Claims, OfTimer, Roomless, Gone, NeedSocket, Joining, Types
<1>9. Rest({q})'
  <2> DEFINE waiting == {q}
             arrived == {}
  <2>1. \A x \in waiting : Claims(x)'
    BY <1>8
  <2>2. \A t \in arrived : \E x \in waiting : x.at \in NeedSocket /\ x.socket = t
    OBVIOUS
  <2>3. \E x \in waiting : x.at \in Ahead /\ x.room = RoomOf(s) /\ x.user = Owner[s]
    BY <1>3, <1>7 DEF Ahead
  <2>4. open' = (open \ {s}) \cup arrived
    BY <1>1
  <2>5. UNCHANGED <<socketToUser, graceTimers, presence>>
    BY <1>1, <1>6
  <2> HIDE DEF waiting, arrived
  <2>6. Rest(waiting)'
    BY <1>1, <1>6, <2>1, <2>2, <2>3, <2>4, <2>5, ClosesKeeps
  <2> QED BY <2>6 DEF waiting
<1>10. Types'
  BY <1>1, <1>2, <1>6 DEF Types
<1> QED BY <1>5, <1>7, <1>9, <1>10 DEF Orderly

\* A client connects; a socket its user has is closed, and its handler comes
\* before the new one's.
LEMMA ConnectKeeps ==
    ASSUME Types, Rest({}), queue = << >>, NEW s, Connect(s)
    PROVE  Types' /\ Orderly'
<1> DEFINE existing == connections[Owner[s]]
<1>1. /\ s \in unused /\ s \in Sockets /\ Owner[s] \in Users /\ unused' = unused \ {s}
      /\ UNCHANGED <<graceTimers, presence>>
  BY PresenceAssumption DEF Connect, Types, redis
<1>2. CASE existing = None
  <2>0. PICK n : n = Wait("getSocket", s, None, None)
    OBVIOUS
  <2>1. /\ open' = open \cup {s} /\ queue' = <<n>>
        /\ UNCHANGED <<connections, socketToUser>>
    BY <1>2, <2>0, Queues DEF Connect
  <2>2. /\ IsHandler(n) /\ n.at = "getSocket" /\ n.socket = s /\ n.user = Owner[s]
    BY <1>1, <2>0, Starts
  <2>3. Claims(n)'
    BY <1>1, <1>2, <2>1, <2>2 DEF Claims, OfTimer, Roomless, Gone, NeedSocket, Joining
  <2>4. Registered'
    BY <2>1 DEF Rest, Registered
  <2>5. Connected({n})'
    BY <2>1, <2>2 DEF Rest, Connected, NeedSocket
  <2>6. Agreed({n})'
    BY <1>1, <2>1 DEF Rest, Agreed, Agree, InRoom
  <2>7. Rest({n})'
    BY <2>3, <2>4, <2>5, <2>6 DEF Rest
  <2>8. Types'
    BY <1>1, <2>1 DEF Types
  <2> QED BY <2>1, <2>2, <2>7, <2>8 DEF Orderly
<1>3. CASE existing # None
  <2>1. PICK e : e = existing.socket
    OBVIOUS
  <2>2. e \in open /\ Owner[e] = Owner[s]
    BY <1>1, <1>3, <2>1 DEF Rest, Registered
  <2>3. /\ e \in Sockets /\ IsCurrent(e) /\ RoomOf(e) \in Rooms \cup {None}
    BY <2>2, OpenIsConnected
  <2>4. PICK p : p = Wait("supersede", s, None, e)
    OBVIOUS
  <2>5. open' = (open \ {e}) \cup {s} /\ Drops(e, <<p>>)
    BY <1>3, <2>1, <2>2, <2>4 DEF Connect
  <2>6. PICK room : room = RoomOf(e)
    OBVIOUS
  <2>7. PICK q : q = Wait("unregister", e, room, None)
    OBVIOUS
  <2>8. queue' = <<q, p>>
    <3>1. Leaving(e) = <<q>>
      BY <2>3, <2>6, <2>7 DEF Leaving
    <3>2. queue' = << >> \o <<q>> \o <<p>>
      BY <2>5, <3>1 DEF Drops
    <3>3. << >> \o <<q>> = <<q>> /\ <<q>> \o <<p>> = <<q, p>>
      BY Queues
    <3> QED BY <3>2, <3>3
  <2>9. /\ connections' = [connections EXCEPT ![Owner[e]] = None]
        /\ socketToUser' = socketToUser
    BY <2>3, <2>5 DEF Drops
  <2>10. /\ IsHandler(q) /\ q.at = "unregister" /\ q.socket = e /\ q.user = Owner[s]
         /\ q.room = room
    BY <2>2, <2>3, <2>6, <2>7, Starts
  <2>11. /\ IsHandler(p) /\ p.at = "supersede" /\ p.socket = s /\ p.user = Owner[s]
         /\ p.memo = e
    BY <1>1, <2>4, Starts
  <2>12. connections'[Owner[s]] = None
    BY <1>1, <2>2, <2>9 DEF Types
  <2>13. Claims(q)'
    BY <2>2, <2>3, <2>10, <2>12 DEF Claims, OfTimer, Roomless, Gone, NeedSocket, Joining
  <2>14. Claims(p)'
    BY <1>1, <2>2, <2>3, <2>5, <2>11, <2>12
    DEF Claims, OfTimer, Roomless, Gone, NeedSocket, Joining
  <2>15. Rest({q, p})'
    <3> DEFINE waiting == {q, p}
               arrived == {s}
    <3>1. \A x \in waiting : Claims(x)'
      BY <2>13, <2>14
    <3>2. \A t \in arrived : \E x \in waiting : x.at \in NeedSocket /\ x.socket = t
      BY <2>11 DEF NeedSocket
    <3>3. \E x \in waiting : x.at \in Ahead /\ x.room = RoomOf(e) /\ x.user = Owner[e]
      BY <2>2, <2>6, <2>10 DEF Ahead
    <3>4. open' = (open \ {e}) \cup arrived
      BY <2>5
    <3>5. UNCHANGED <<socketToUser, graceTimers, presence>>
      BY <1>1, <2>9
    <3> HIDE DEF waiting, arrived
    <3>6. Rest(waiting)'
      BY <2>2, <2>9, <3>1, <3>2, <3>3, <3>4, <3>5, ClosesKeeps
    <3> QED BY <3>6 DEF waiting
  <2>16. Types'
    BY <1>1, <2>5, <2>9 DEF Types
  <2>17. q.user = p.user /\ <<q.at, p.at>> \in Pairs
    BY <2>10, <2>11 DEF Pairs
  <2> QED BY <2>8, <2>10, <2>11, <2>15, <2>16, <2>17 DEF Orderly
<1> QED BY <1>2, <1>3

\* room:join and presence:heartbeat only leave a handler waiting.
LEMMA AsksKeeps ==
    ASSUME Types, Rest({}), queue = << >>, NEW s,
           Heartbeat(s) \/ \E room \in Rooms : Join(s, room)
    PROVE  Types' /\ Orderly'
<1>1. s \in open /\ UNCHANGED <<unused, seen>>
  BY DEF Heartbeat, Join, sockets, inMemory, redis, seen
<1>2. /\ s \in Sockets /\ connections[Owner[s]] # None /\ connections[Owner[s]].socket = s
      /\ RoomOf(s) \in Rooms \cup {None}
  BY <1>1, OpenIsConnected
<1>3. PICK n : /\ IsHandler(n) /\ queue' = <<n>> /\ n.at \in {"isInGracePeriod", "readSeen"}
               /\ n.socket = s /\ n.user = Owner[s] /\ n.room \in Rooms
  <2>1. CASE Heartbeat(s)
    <3>1. PICK room : room = RoomOf(s)
      OBVIOUS
    <3>2. PICK n : n = Wait("readSeen", s, room, None)
      OBVIOUS
    <3>3. queue' = <<n>> /\ room # None
      BY <2>1, <3>1, <3>2, Queues DEF Heartbeat
    <3>4. /\ IsHandler(n) /\ n.at = "readSeen" /\ n.socket = s /\ n.user = Owner[s]
          /\ n.room = room
      BY <1>2, <3>1, <3>2, Starts
    <3> QED BY <1>2, <3>1, <3>3, <3>4
  <2>2. ASSUME NEW room \in Rooms, Join(s, room)
        PROVE  \E n : /\ IsHandler(n) /\ queue' = <<n>>
                      /\ n.at \in {"isInGracePeriod", "readSeen"}
                      /\ n.socket = s /\ n.user = Owner[s] /\ n.room \in Rooms
    <3>2. PICK n : n = Wait("isInGracePeriod", s, room, None)
      OBVIOUS
    <3>3. queue' = <<n>>
      BY <2>2, <3>2, Queues DEF Join
    <3>4. /\ IsHandler(n) /\ n.at = "isInGracePeriod" /\ n.socket = s /\ n.user = Owner[s]
          /\ n.room = room
      BY <1>2, <3>2, Starts
    <3> QED BY <3>3, <3>4
  <2> QED BY <2>1, <2>2
<1>4. Claims(n)'
  BY <1>1, <1>2, <1>3 DEF Claims, OfTimer, Roomless, Gone, NeedSocket, Joining, seen
<1>5. Rest({n})'
  <2> DEFINE old == {}
  <2>1. Rest(old)
    OBVIOUS
  <2> QED BY <1>1, <1>4, <2>1, SameKeeps
<1>6. Types'
  BY <1>1 DEF Types, seen
<1> QED BY <1>3, <1>5, <1>6 DEF Orderly

\* room:leave takes the connection out of its room first.
LEMMA LeaveKeeps ==
    ASSUME Types, Rest({}), queue = << >>, NEW s, Leave(s)
    PROVE  Types' /\ Orderly'
<1>1. /\ s \in open /\ RoomOf(s) # None
      /\ UNCHANGED <<unused, open, socketToUser, graceTimers, presence>>
  BY DEF Leave, sockets, redis
<1>2. /\ s \in Sockets /\ Owner[s] \in Users
      /\ connections[Owner[s]] \in Connection /\ connections[Owner[s]].socket = s
      /\ IsCurrent(s) /\ RoomOf(s) = connections[Owner[s]].room
      /\ RoomOf(s) \in Rooms
  BY <1>1, OpenIsConnected
<1>3. PICK room : room = RoomOf(s)
  OBVIOUS
<1>4. PICK n : n = Wait("removePresence", s, room, None)
  OBVIOUS
<1>5. queue' = <<n>>
  BY <1>3, <1>4, Queues DEF Leave
<1>6. /\ IsHandler(n) /\ n.at = "removePresence" /\ n.socket = s /\ n.user = Owner[s]
      /\ n.room = room
  BY <1>2, <1>3, <1>4, Starts
<1> DEFINE c == [connections[Owner[s]] EXCEPT !.room = None]
<1>7. connections' = [connections EXCEPT ![Owner[s]].room = None]
  BY <1>2 DEF Leave, ConnectionInRoom
<1>8. c \in Connection /\ c # None /\ c.socket = s /\ c.room = None
  BY <1>2, NoneAssumption DEF Connection
<1>9. /\ connections'[Owner[s]] = c
      /\ \A u \in Users : u # Owner[s] => connections'[u] = connections[u]
      /\ connections' \in [Users -> Connection \cup {None}]
  BY <1>2, <1>7, <1>8 DEF Types
<1> HIDE DEF c
<1>10. Registered'
  BY <1>1, <1>2, <1>8, <1>9, OpenIsConnected DEF Rest, Registered
<1>11. Connected({n})'
  <2> SUFFICES ASSUME NEW t \in open
               PROVE  connections'[Owner[t]] # None /\ connections'[Owner[t]].socket = t
    BY <1>1 DEF Connected
  <2>1. /\ Owner[t] \in Users /\ connections[Owner[t]] # None
        /\ connections[Owner[t]].socket = t
    BY OpenIsConnected
  <2> QED BY <1>2, <1>8, <1>9, <2>1
<1>12. ~InRoom(Owner[s], room)'
  BY <1>1, <1>3, <1>8, <1>9 DEF InRoom
<1>13. Claims(n)'
  BY <1>2, <1>3, <1>6, <1>12 DEF Claims, OfTimer, Roomless, Gone, NeedSocket, Joining
<1>14. Agreed({n})'
  <2>1. n.at \in Ahead
    BY <1>6 DEF Ahead
  <2> SUFFICES ASSUME NEW r \in Rooms, NEW u \in Users, ~(r = room /\ u = Owner[s])
               PROVE  Agree(r, u)'
    BY <1>6, <2>1 DEF Agreed
  <2>2. Agree(r, u)
    BY DEF Rest, Agreed
  <2>3. InRoom(u, r)' <=> InRoom(u, r)
    BY <1>2, <1>3, <1>8, <1>9, PresenceAssumption DEF InRoom
  <2> QED BY <1>1, <2>2, <2>3 DEF Agree
<1>15. Rest({n})'
  BY <1>10, <1>11, <1>13, <1>14 DEF Rest
<1>16. Types'
  BY <1>1, <1>9 DEF Types
<1> QED BY <1>5, <1>6, <1>15, <1>16 DEF Orderly

\* A grace period is over for a user who is disconnected.
LEMMA TimerKeeps ==
    ASSUME Types, Rest({}), queue = << >>, NEW room \in Rooms, NEW u \in Users,
           GraceTimerFires(room, u)
    PROVE  Types' /\ Orderly'
<1>0. PICK n : n = [at |-> "expire", socket |-> None, user |-> u, room |-> room, memo |-> None]
  OBVIOUS
<1>1. /\ <<room, u>> \in graceTimers /\ graceTimers' = graceTimers \ {<<room, u>>}
      /\ queue' = <<n>>
      /\ UNCHANGED <<unused, open, connections, socketToUser, presence>>
  BY <1>0, Queues DEF GraceTimerFires, sockets, redis
<1>2. IsHandler(n) /\ n.at = "expire" /\ n.user = u /\ n.room = room
  BY <1>0 DEF IsHandler
<1>3. \A r \in Rooms, v \in Users : Agree(r, v)
  BY DEF Rest, Agreed
<1>4. ~InRoom(u, room)
  BY <1>1, <1>3 DEF Agree
<1>5. Claims(n)'
  BY <1>1, <1>2, <1>4 DEF Claims, OfTimer, Roomless, Gone, NeedSocket, Joining, InRoom
<1>6. Agreed({n})'
  <2>1. n.at \in Ahead
    BY <1>2 DEF Ahead
  <2> SUFFICES ASSUME NEW r \in Rooms, NEW v \in Users, ~(r = room /\ v = u)
               PROVE  Agree(r, v)'
    BY <1>2, <2>1 DEF Agreed
  <2>2. <<r, v>> \in graceTimers' <=> <<r, v>> \in graceTimers
    BY <1>1
  <2>3. Agree(r, v)
    BY <1>3
  <2> QED BY <1>1, <2>2, <2>3 DEF Agree, InRoom
<1>7. Rest({n})'
  BY <1>1, <1>5, <1>6 DEF Rest, Registered, Connected
<1>8. Types'
  BY <1>1 DEF Types
<1> QED BY <1>1, <1>2, <1>7, <1>8 DEF Orderly

\* Any event that finds no handler waiting; the sweep never finds a socket closed.
LEMMA EventsKeep ==
    ASSUME Types, Orderly, queue = << >>, Events
    PROVE  Types' /\ Orderly'
<1>1. Rest({})
  BY Queues DEF Orderly
<1>2. ASSUME NEW u \in Users, Sweep(u) PROVE FALSE
  BY <1>1, <1>2 DEF Sweep, Rest, Registered
<1>3. ASSUME NEW s \in Sockets,
             \/ Connect(s) \/ Disconnect(s) \/ Leave(s) \/ Heartbeat(s)
             \/ \E room \in Rooms : Join(s, room)
      PROVE  Types' /\ Orderly'
  BY <1>1, <1>3, ConnectKeeps, DisconnectKeeps, LeaveKeeps, AsksKeeps
<1>4. ASSUME NEW room \in Rooms, NEW u \in Users, GraceTimerFires(room, u)
      PROVE  Types' /\ Orderly'
  BY <1>1, <1>4, TimerKeeps
<1> QED BY <1>2, <1>3, <1>4 DEF Events, ClientEvents

\* The only handler goes on or returns.
LEMMA SoleAnswers ==
    ASSUME Types, NEW q, IsHandler(q), queue = <<q>>, Rest({q}), Answers
    PROVE  Types' /\ Orderly'
<1>1. Handler = q /\ Tail(queue) = << >>
  BY Queues DEF Handler
<1>2. CASE Onward
  <2>1. \A n : Append(Tail(queue), n) = <<n>>
    BY <1>1, Queues
  <2> QED BY <1>1, <1>2, <2>1 DEF Onward, Orderly
<1> DEFINE rest == {}
<1>3. Rest({q} \cup rest)
  <2>1. {q} \cup rest = {q}
    OBVIOUS
  <2> QED BY <2>1
<1>4. \A n : rest \cup {n} = {n}
  OBVIOUS
<1>5. \A p \in rest : FALSE
  OBVIOUS
<1> HIDE DEF rest
<1>6. CASE Supersede
  <2>1. q.at = "supersede"
    BY <1>1, <1>6 DEF Supersede, At
  <2>2. PICK n : /\ IsHandler(n) /\ queue' = Append(Tail(queue), n)
                 /\ Rest(rest \cup {n})'
    BY <1>1, <1>3, <1>5, <1>6, <2>1, SupersedeKeeps
  <2>3. Types'
    BY <1>1, <1>3, <1>5, <1>6, <2>1, SupersedeKeeps
  <2>4. Rest({n})'
    BY <1>4, <2>2
  <2> QED BY <1>2, <2>2, <2>3, <2>4 DEF Onward
<1>7. CASE Unregister
  <2>1. q.at = "unregister"
    BY <1>1, <1>7 DEF Unregister, At
  <2>2. /\ Types'
        /\ \/ queue' = Tail(queue) /\ Rest(rest)'
           \/ \E n : /\ IsHandler(n) /\ queue' = Append(Tail(queue), n)
                     /\ Rest(rest \cup {n})'
    BY <1>1, <1>3, <1>5, <1>7, <2>1, UnregisterKeeps
  <2>3. CASE queue' = Tail(queue) /\ Rest(rest)'
    BY <1>2, <2>2, <2>3 DEF Onward, rest
  <2>4. ASSUME NEW n, IsHandler(n), queue' = Append(Tail(queue), n), Rest(rest \cup {n})'
        PROVE  Onward
    BY <1>4, <2>2, <2>4 DEF Onward
  <2> QED BY <1>2, <2>2, <2>3, <2>4
<1>8. CASE SetDisconnected
  <2>1. q.at = "setDisconnected"
    BY <1>1, <1>8 DEF SetDisconnected, At
  <2>2. Types' /\ queue' = Tail(queue) /\ Rest(rest)'
    BY <1>1, <1>3, <1>5, <1>8, <2>1, SetDisconnectedKeeps
  <2> QED BY <1>2, <2>2 DEF Onward, rest
<1>9. CASE GetSocket \/ RemoveSocket
  BY <1>1, <1>2, <1>9, GetSocketKeeps
<1>10. CASE SetOnline
  BY <1>1, <1>2, <1>10, SetOnlineKeeps DEF SetOnline, At
<1>11. CASE \/ SaveSocket \/ ClearGraceKey \/ LeaveLobby \/ CancelGame
            \/ IsInGracePeriod \/ GraceExists \/ ReadSeen
  BY <1>1, <1>2, <1>11, SmallKeeps
<1>12. CASE Expire \/ LeavePresence
  BY <1>1, <1>2, <1>12, PresenceGoes DEF Expire, LeavePresence, At
<1>13. CASE GetRoom
  BY <1>1, <1>2, <1>13, GetRoomKeeps DEF GetRoom, At
<1>14. CASE LeaveOther
  BY <1>1, <1>2, <1>14, LeaveOtherKeeps DEF LeaveOther, At
<1>15. CASE WriteSeen
  BY <1>1, <1>2, <1>15, WriteSeenKeeps
<1> QED BY <1>6, <1>7, <1>8, <1>9, <1>10, <1>11, <1>12, <1>13, <1>14, <1>15 DEF Answers

\* The ends of an old socket's handler and of the new one's beginning
\* alternate until one is done.
LEMMA PairAnswers ==
    ASSUME Types, NEW q, NEW p, IsHandler(q), IsHandler(p), queue = <<q, p>>,
           q.user = p.user, <<q.at, p.at>> \in Pairs, Rest({q, p}), Answers
    PROVE  Types' /\ Orderly'
<1>1. Handler = q /\ Tail(queue) = <<p>> /\ \A n : Append(Tail(queue), n) = <<p, n>>
  <2>1. Handler = q /\ Tail(queue) = <<p>>
    BY Queues DEF Handler
  <2>2. \A n : Append(<<p>>, n) = <<p, n>>
    BY Queues
  <2> QED BY <2>1, <2>2
<1> DEFINE rest == {p}
<1>2. Rest({q} \cup rest)
  <2>1. {q} \cup rest = {q, p}
    OBVIOUS
  <2> QED BY <2>1
<1>3. \A n : rest \cup {n} = {p, n}
  OBVIOUS
<1>4. \A x \in rest : x = p
  OBVIOUS
<1> HIDE DEF rest
<1>5. CASE q.at = "unregister" /\ p.at = "supersede"
  <2>1. Unregister
    BY <1>1, <1>5
    DEF Answers, At, Supersede, GetSocket, RemoveSocket, SaveSocket, SetDisconnected,
        SetOnline, ClearGraceKey, Expire, LeaveLobby, CancelGame, IsInGracePeriod, GetRoom,
        LeaveOther, GraceExists, LeavePresence, ReadSeen, WriteSeen
  <2>2. /\ Types'
        /\ \/ queue' = Tail(queue) /\ Rest(rest)'
           \/ \E n : /\ IsHandler(n) /\ queue' = Append(Tail(queue), n)
                     /\ n.at = "setDisconnected" /\ n.user = q.user
                     /\ Rest(rest \cup {n})'
    BY <1>1, <1>2, <1>4, <1>5, <2>1, UnregisterKeeps
  <2>3. CASE queue' = Tail(queue) /\ Rest(rest)'
    BY <1>1, <2>2, <2>3 DEF Orderly, rest
  <2>4. ASSUME NEW n, IsHandler(n), queue' = Append(Tail(queue), n),
               n.at = "setDisconnected", n.user = q.user, Rest(rest \cup {n})'
        PROVE  Orderly'
    <3>1. queue' = <<p, n>> /\ Rest({p, n})'
      BY <1>1, <1>3, <2>4
    <3>2. p.user = n.user /\ <<p.at, n.at>> \in Pairs
      BY <1>5, <2>4 DEF Pairs
    <3> QED BY <2>4, <3>1, <3>2 DEF Orderly
  <2> QED BY <2>2, <2>3, <2>4
<1>6. CASE q.at = "supersede" /\ p.at = "setDisconnected"
  <2>1. Supersede
    BY <1>1, <1>6
    DEF Answers, At, Unregister, GetSocket, RemoveSocket, SaveSocket, SetDisconnected,
        SetOnline, ClearGraceKey, Expire, LeaveLobby, CancelGame, IsInGracePeriod, GetRoom,
        LeaveOther, GraceExists, LeavePresence, ReadSeen, WriteSeen
  <2>2. PICK n : /\ IsHandler(n) /\ queue' = Append(Tail(queue), n)
                 /\ n.at = "getSocket" /\ n.user = q.user
                 /\ Rest(rest \cup {n})'
    BY <1>1, <1>2, <1>4, <1>6, <2>1, SupersedeKeeps
  <2>3. Types'
    BY <1>1, <1>2, <1>4, <1>6, <2>1, SupersedeKeeps
  <2>4. queue' = <<p, n>> /\ Rest({p, n})'
    BY <1>1, <1>3, <2>2
  <2>5. p.user = n.user /\ <<p.at, n.at>> \in Pairs
    BY <1>6, <2>2 DEF Pairs
  <2> QED BY <2>2, <2>3, <2>4, <2>5 DEF Orderly
<1>7. CASE q.at = "setDisconnected" /\ p.at = "getSocket"
  <2>1. SetDisconnected
    BY <1>1, <1>7
    DEF Answers, At, Unregister, GetSocket, RemoveSocket, SaveSocket, Supersede,
        SetOnline, ClearGraceKey, Expire, LeaveLobby, CancelGame, IsInGracePeriod, GetRoom,
        LeaveOther, GraceExists, LeavePresence, ReadSeen, WriteSeen
  <2>2. Types' /\ queue' = Tail(queue) /\ Rest(rest)'
    BY <1>1, <1>2, <1>4, <1>7, <2>1, SetDisconnectedKeeps
  <2> QED BY <1>1, <2>2 DEF Orderly, rest
<1> QED BY <1>5, <1>6, <1>7 DEF Pairs

\* Keys that expire and the lobby's requests touch nothing that is compared.
LEMMA OthersKeep ==
    ASSUME Types, Orderly, UNCHANGED <<unused, seen, queue>>
    PROVE  Types' /\ Orderly'
<1>1. Types'
  BY DEF Types, seen
<1>2. \A q : Claims(q)' <=> Claims(q)
  BY DEF Claims, InRoom, seen
<1>3. ASSUME NEW waiting, Rest(waiting) PROVE Rest(waiting)'
  <2>1. Registered' /\ Connected(waiting)'
    BY <1>3 DEF Rest, Registered, Connected, seen
  <2>2. Agreed(waiting)'
    BY <1>3 DEF Rest, Agreed, Agree, InRoom, seen
  <2> QED BY <1>2, <1>3, <2>1, <2>2 DEF Rest
<1>4. Orderly'
  <2>1. CASE queue = << >> /\ Rest({})
    BY <1>3, <2>1 DEF Orderly
  <2>2. ASSUME NEW q, IsHandler(q), queue = <<q>>, Rest({q}) PROVE Orderly'
    BY <1>3, <2>2 DEF Orderly
  <2>3. ASSUME NEW q, NEW p, IsHandler(q), IsHandler(p), queue = <<q, p>>,
               q.user = p.user, <<q.at, p.at>> \in Pairs, Rest({q, p})
        PROVE  Orderly'
    <3>1. Rest({q, p})' /\ queue' = <<q, p>>
      BY <1>3, <2>3
    <3> QED BY <2>3, <3>1 DEF Orderly
  <2> QED BY <2>1, <2>2, <2>3 DEF Orderly
<1> QED BY <1>1, <1>4

\* The inductive invariant
PresenceInv == ~disturbed => Types /\ Orderly

\* Nobody is connected.
LEMMA PresenceInitially == WatchedInit => PresenceInv
<1> SUFFICES ASSUME Init PROVE Types /\ Orderly
  BY DEF WatchedInit, PresenceInv
<1>1. Types
  BY DEF Init, Types
<1>2. Registered
  BY DEF Init, Registered
<1>3. Connected({})
  BY DEF Init, Connected
<1>4. Agreed({})
  BY NoneAssumption DEF Init, Agreed, Agree, InRoom, Statuses
<1>5. Rest({})
  BY <1>2, <1>3, <1>4 DEF Rest
<1> QED BY <1>1, <1>5 DEF Init, Orderly

\* An event that disturbs ends the claim.
LEMMA PresenceStep ==
    PresenceInv /\ [Next /\ Watch]_<<vars, disturbed>> => PresenceInv'
<1> SUFFICES ASSUME PresenceInv, [Next /\ Watch]_<<vars, disturbed>>, ~disturbed'
             PROVE  Types' /\ Orderly'
  BY DEF PresenceInv
<1>1. CASE UNCHANGED <<vars, disturbed>>
  BY <1>1, OthersKeep
  DEF PresenceInv, vars, sockets, inMemory, redis, seen
<1>2. CASE Next /\ Watch
  <2>1. Types /\ Orderly /\ Next /\ (Events => queue = << >>)
    BY <1>2 DEF Watch, PresenceInv
  <2>2. CASE Events
    BY <2>1, <2>2, EventsKeep
  <2>3. CASE Answers
    <3>1. queue # << >>
      BY <2>3
      DEF Answers, At, Unregister, GetSocket, RemoveSocket, SaveSocket, Supersede,
          SetDisconnected, SetOnline, ClearGraceKey, Expire, LeaveLobby, CancelGame,
          IsInGracePeriod, GetRoom, LeaveOther, GraceExists, LeavePresence, ReadSeen,
          WriteSeen
    <3> QED BY <2>1, <2>3, <3>1, SoleAnswers, PairAnswers DEF Orderly
  <2>4. CASE (\E u \in Users : KeyExpires(u)) \/ Lobby
    <3>1. UNCHANGED <<unused, seen, queue>>
      BY <2>4
      DEF KeyExpires, Lobby, LobbyJoin, LobbyLeave, GameStarts, GameEnds, sockets,
          inMemory, redis, seen
    <3> QED BY <2>1, <3>1, OthersKeep
  <2> QED BY <2>1, <2>2, <2>3, <2>4 DEF Next
<1> QED BY <1>1, <1>2

\* With no handler on its way, the accounts agree everywhere.
LEMMA PresenceFollows == PresenceInv => PresenceExact
<1> SUFFICES ASSUME PresenceInv, ~disturbed, queue = << >>,
                    NEW r \in Rooms, NEW u \in Users
             PROVE  Agree(r, u)
  BY DEF PresenceExact, Agree, InRoom
<1>1. Rest({})
  BY Queues DEF PresenceInv, Orderly
<1> QED BY <1>1 DEF Rest, Agreed

\* As long as each event finds no handler waiting for Redis, the map of
\* connections, the presence in Redis and the grace timers of a room and a user
\* agree between events: registerConnection, handleDisconnect, joinRoom, the
\* grace period and what follows leave the three accounts consistent.
THEOREM PresenceStaysExact == WatchedSpec => []PresenceExact
<1> QED BY PresenceInitially, PresenceStep, PresenceFollows, PTL DEF WatchedSpec

\* What the run explores is part of it.
COROLLARY InstancePresenceExact == MCSpec => []PresenceExact
<1>1. MCInit => WatchedInit
  BY DEF MCInit
<1>2. [MCNext]_mcVars => [Next /\ Watch]_<<vars, disturbed>>
  BY DEF MCNext, mcVars
<1> QED BY <1>1, <1>2, PresenceStaysExact, PTL DEF MCSpec, WatchedSpec

=============================================================================
