----------------------------- MODULE LobbyProofs -----------------------------
(***************************************************************************)
(* Theorems about the lobby, for every set of users, rooms and requests,   *)
(* every choice of settings and every fault.                               *)
(***************************************************************************)
EXTENDS MCLobby, FiniteSetTheorems, TLAPS

(***************************************************************************)
(* The players a filter keeps.                                             *)
(***************************************************************************)

\* The n-th of a finite set of places has n - 1 others before it; each number
\* up to their count is the rank of exactly one.
LEMMA Ranks ==
    ASSUME NEW m \in Nat, NEW places \in SUBSET (1 .. m)
    PROVE  /\ Cardinality(places) \in Nat /\ Cardinality(places) =< m
           /\ \A n \in 1 .. Cardinality(places) :
                 \E i \in places : Cardinality({j \in places : j =< i}) = n
           /\ \A i \in places :
                 /\ Cardinality({j \in places : j =< i}) \in 1 .. Cardinality(places)
                 /\ \A k \in places :
                       Cardinality({j \in places : j =< i}) = Cardinality({j \in places : j =< k})
                       => i = k
<1> DEFINE Upto(i) == {j \in places : j =< i}
           rank == [i \in places |-> Cardinality(Upto(i))]
           card == Cardinality(places)
<1>1. IsFiniteSet(1 .. m) /\ Cardinality(1 .. m) = m
  BY FS_Interval
<1>2. IsFiniteSet(places) /\ card \in Nat /\ card =< m
  BY <1>1, FS_Subset, FS_CardinalityType
<1>3. ASSUME NEW i \in places
      PROVE  IsFiniteSet(Upto(i)) /\ Cardinality(Upto(i)) \in 1 .. card
  <2>1. Upto(i) \subseteq places /\ Upto(i) # {}
    OBVIOUS
  <2>2. /\ IsFiniteSet(Upto(i)) /\ Cardinality(Upto(i)) \in Nat
        /\ Cardinality(Upto(i)) =< card
    BY <1>2, <2>1, FS_Subset, FS_CardinalityType
  <2>3. Cardinality(Upto(i)) # 0
    BY <2>1, <2>2, FS_EmptySet
  <2> QED BY <1>2, <2>2, <2>3
<1>4. ASSUME NEW i \in places, NEW k \in places, i < k
      PROVE  Cardinality(Upto(i)) # Cardinality(Upto(k))
  <2>a. \A j \in places : j \in Nat
    OBVIOUS
  <2>1. Upto(i) \subseteq Upto(k) /\ k \in Upto(k) /\ k \notin Upto(i)
    <3>1. i \in Nat /\ k \in Nat
      BY <2>a
    <3>2. \A j \in Upto(i) : j \in Upto(k)
      <4> SUFFICES ASSUME NEW j \in places, j =< i PROVE j =< k
        OBVIOUS
      <4> QED BY <1>4, <2>a, <3>1
    <3>3. ~(k =< i) /\ k =< k
      BY <1>4, <3>1
    <3> QED BY <3>2, <3>3
  <2>2. Upto(i) # Upto(k)
    BY <2>1
  <2> QED BY <1>3, <2>1, <2>2, FS_Subset
<1>5. \A i, k \in places : Cardinality(Upto(i)) = Cardinality(Upto(k)) => i = k
  <2>1. \A i, k \in places : i < k \/ k < i \/ i = k
    OBVIOUS
  <2> QED BY <1>4, <2>1
<1>6. rank \in Injection(places, 1 .. card)
  <2>1. rank \in [places -> 1 .. card]
    BY <1>3
  <2>2. IsInjective(rank)
    BY <1>5 DEF IsInjective
  <2> QED BY <2>1, <2>2 DEF Injection
<1>7. rank \in Surjection(places, 1 .. card)
  BY <1>2, <1>6, FS_Injection, FS_Interval
<1>8. \A n \in 1 .. card : \E i \in places : Cardinality(Upto(i)) = n
  BY <1>7 DEF Surjection
<1> QED BY <1>2, <1>3, <1>5, <1>8

\* Kept: players are taken from different places and keep their number; all
\* those of the set are there.
LEMMA KeptPlayers ==
    ASSUME NEW P, NEW players \in Seq(P), NEW some
    PROVE  LET kept == Kept(players, some)
           IN  /\ kept \in Seq(P)
               /\ Len(kept) =< Len(players)
               /\ Range(kept) = Range(players) \cap some
               /\ \E place \in [1 .. Len(kept) -> DOMAIN players] :
                     /\ \A n \in 1 .. Len(kept) : kept[n] = players[place[n]]
                     /\ \A n, k \in 1 .. Len(kept) : place[n] = place[k] => n = k
<1> DEFINE places == {i \in DOMAIN players : players[i] \in some}
           card == Cardinality(places)
           Place(n) == CHOOSE i \in places : Cardinality({j \in places : j =< i}) = n
           place == [n \in 1 .. card |-> Place(n)]
           kept == Kept(players, some)
<1>1. DOMAIN players = 1 .. Len(players) /\ Len(players) \in Nat
  OBVIOUS
<1>2. places \in SUBSET (1 .. Len(players))
  BY <1>1
<1>3. card \in Nat /\ card =< Len(players)
  BY <1>1, <1>2, Ranks
<1>4. \A n \in 1 .. card :
         Place(n) \in places /\ Cardinality({j \in places : j =< Place(n)}) = n
  <2> HIDE DEF places
  <2>1. \A n \in 1 .. card : \E i \in places : Cardinality({j \in places : j =< i}) = n
    BY <1>1, <1>2, Ranks
  <2> QED BY <2>1
<1>5. kept = [n \in 1 .. card |-> players[Place(n)]]
  BY DEF Kept
<1>6. \A i \in places : \E n \in 1 .. card : Place(n) = i
  <2> SUFFICES ASSUME NEW i \in places PROVE \E n \in 1 .. card : Place(n) = i
    OBVIOUS
  <2> DEFINE n0 == Cardinality({j \in places : j =< i})
  <2>1. n0 \in 1 .. card
    BY <1>1, <1>2, Ranks
  <2>2. Place(n0) \in places /\ Cardinality({j \in places : j =< Place(n0)}) = n0
    BY <1>4, <2>1
  <2> HIDE DEF Place
  <2>3. Place(n0) = i
    BY <1>1, <1>2, <2>2, Ranks
  <2> QED BY <2>1, <2>3
<1> HIDE DEF Place, card
<1>7. kept \in Seq(P) /\ Len(kept) = card
  <2>a. \A i \in DOMAIN players : players[i] \in P
    OBVIOUS
  <2>1. \A n \in 1 .. card : players[Place(n)] \in P
    BY <2>a, <1>4
  <2>2. kept \in [1 .. card -> P]
    BY <1>5, <2>1
  <2> QED BY <1>3, <2>2
<1>8. Range(kept) = Range(players) \cap some
  <2>1. Range(kept) = {kept[n] : n \in 1 .. card}
    BY <1>5 DEF Range
  <2>2. Range(players) = {players[i] : i \in DOMAIN players}
    BY DEF Range
  <2>3. \A n \in 1 .. card : kept[n] = players[Place(n)]
    BY <1>5
  <2>4. \A n \in 1 .. card : Place(n) \in DOMAIN players /\ players[Place(n)] \in some
    BY <1>4
  <2>5. Range(kept) \subseteq Range(players) \cap some
    BY <2>1, <2>2, <2>3, <2>4
  <2>6. ASSUME NEW i \in DOMAIN players, players[i] \in some
        PROVE  players[i] \in Range(kept)
    <3>1. PICK n \in 1 .. card : Place(n) = i
      BY <1>6, <2>6
    <3> QED BY <2>1, <2>3, <3>1
  <2> QED BY <2>2, <2>5, <2>6
<1>9. /\ place \in [1 .. card -> DOMAIN players]
      /\ \A n \in 1 .. card : kept[n] = players[place[n]]
      /\ \A n, k \in 1 .. card : place[n] = place[k] => n = k
  <2>1. \A n \in 1 .. card : place[n] = Place(n) /\ kept[n] = players[place[n]]
    BY <1>5
  <2>2. \A n, k \in 1 .. card : Place(n) = Place(k) => n = k
    BY <1>4
  <2>3. place \in [1 .. card -> DOMAIN players]
    BY <1>4
  <2> HIDE DEF place
  <2> QED BY <2>1, <2>2, <2>3
<1> HIDE DEF kept, place
<1> QED BY <1>3, <1>7, <1>8, <1>9 DEF kept

(***************************************************************************)
(* What a room is worth.                                                   *)
(***************************************************************************)

HumansOnce(players) ==
    \A i, j \in DOMAIN players :
        players[i] = players[j] /\ players[i] \in Users => i = j

\* A room but for its status
Seated(room) ==
    /\ room \in Room
    /\ Count(room) =< room.max
    /\ room.host \in Humans(room)
    /\ HumansOnce(room.players)

Sound(room) == Seated(room) /\ room.status = ComputeStatus(room)

\* The status is computed from what it does not change.
LEMMA RecomputedSound ==
    ASSUME NEW room, Seated(room)
    PROVE  Sound(Recomputed(room))
<1> DEFINE next == Recomputed(room)
<1>1. room \in Room /\ ComputeStatus(room) \in Statuses
  BY DEF Seated, ComputeStatus, Statuses
<1>2. /\ next \in Room
      /\ next.host = room.host /\ next.players = room.players /\ next.ready = room.ready
      /\ next.max = room.max /\ next.status = ComputeStatus(room)
  BY <1>1 DEF Recomputed, Room
<1> HIDE DEF next
<1>3. /\ Members(next) = Members(room) /\ Humans(next) = Humans(room)
      /\ Count(next) = Count(room) /\ AllReady(next) = AllReady(room)
  BY <1>2 DEF Members, Humans, Count, AllReady
<1>4. ComputeStatus(next) = ComputeStatus(room)
  BY <1>2, <1>3 DEF ComputeStatus, InGame, Ready, Waiting
<1>5. Seated(next)
  BY <1>2, <1>3 DEF Seated
<1>6. Sound(next)
  BY <1>2, <1>4, <1>5 DEF Sound
<1> QED BY <1>6 DEF next

\* Some of the players go, and perhaps the host changes.
LEMMA KeptSeated ==
    ASSUME NEW room, Seated(room), NEW next \in Room, NEW some,
           next.players = Kept(room.players, some), next.max >= Count(room),
           next.host \in Users \cap Members(room) \cap some
    PROVE  Seated(next)
<1>1. room.players \in Seq(Users \cup AIPlayers)
  BY DEF Seated, Room
<1> DEFINE kept == Kept(room.players, some)
<1>2. /\ Len(kept) =< Len(room.players) /\ kept \in Seq(Users \cup AIPlayers)
      /\ Range(kept) = Range(room.players) \cap some
      /\ \E place \in [1 .. Len(kept) -> DOMAIN room.players] :
            /\ \A n \in 1 .. Len(kept) : kept[n] = room.players[place[n]]
            /\ \A n, k \in 1 .. Len(kept) : place[n] = place[k] => n = k
  BY <1>1, KeptPlayers
<1> HIDE DEF kept
<1>3. next.players = kept
  BY DEF kept
<1>4. HumansOnce(kept)
  <2>1. PICK place \in [1 .. Len(kept) -> DOMAIN room.players] :
            /\ \A n \in 1 .. Len(kept) : kept[n] = room.players[place[n]]
            /\ \A n, k \in 1 .. Len(kept) : place[n] = place[k] => n = k
    BY <1>2
  <2>2. \A i, j \in DOMAIN room.players :
           room.players[i] = room.players[j] /\ room.players[i] \in Users => i = j
    BY DEF Seated, HumansOnce
  <2>3. DOMAIN kept = 1 .. Len(kept)
    BY <1>2
  <2>4. \A n, k \in DOMAIN kept : kept[n] = kept[k] /\ kept[n] \in Users => n = k
    BY <2>1, <2>2, <2>3
  <2> QED BY <2>4 DEF HumansOnce
<1>5. next.host \in Humans(next)
  BY <1>2, <1>3 DEF Humans, Members
<1>6. Count(next) =< next.max
  <2>1. Len(kept) \in Nat /\ Len(room.players) \in Nat /\ next.max \in Nat
    BY <1>1, <1>2 DEF Room
  <2> QED BY <1>2, <1>3, <2>1 DEF Count
<1> QED BY <1>3, <1>4, <1>5, <1>6 DEF Seated

\* One player more
LEMMA AppendSeated ==
    ASSUME NEW room, Seated(room), Count(room) < room.max,
           NEW p \in Users \cup AIPlayers, p \notin Users \/ p \notin Members(room),
           NEW next \in Room, next.players = Append(room.players, p),
           next.max = room.max, next.host = room.host
    PROVE  Seated(next)
<1> DEFINE seq == room.players
           new == Append(seq, p)
<1>1. seq \in Seq(Users \cup AIPlayers) /\ Len(seq) \in Nat /\ room.max \in Nat
  BY DEF Seated, Room
<1>2. /\ Len(new) = Len(seq) + 1 /\ DOMAIN new = 1 .. Len(seq) + 1
      /\ DOMAIN seq = 1 .. Len(seq)
      /\ \A i \in 1 .. Len(seq) : new[i] = seq[i]
      /\ new[Len(seq) + 1] = p
  BY <1>1
<1>3. /\ \A i, j \in DOMAIN seq : seq[i] = seq[j] /\ seq[i] \in Users => i = j
      /\ room.host \in Users /\ \E i \in DOMAIN seq : seq[i] = room.host
      /\ p \in Users => \A i \in DOMAIN seq : seq[i] # p
  BY DEF Seated, HumansOnce, Humans, Members, Range
<1> HIDE DEF seq, new
<1>4. \A i, j \in DOMAIN new : new[i] = new[j] /\ new[i] \in Users => i = j
  <2>1. \A i \in DOMAIN new : i \in 1 .. Len(seq) \/ i = Len(seq) + 1
    BY <1>1, <1>2
  <2> QED BY <1>2, <1>3, <2>1
<1>5. \E i \in DOMAIN new : new[i] = room.host
  BY <1>1, <1>2, <1>3
<1>6. next.players = new
  BY DEF new, seq
<1>7. Count(next) =< next.max
  <2>1. Count(room) = Len(seq)
    BY DEF Count, seq
  <2> QED BY <1>1, <1>2, <1>6, <2>1 DEF Count
<1>8. next.host \in Humans(next)
  BY <1>3, <1>5, <1>6 DEF Humans, Members, Range
<1> QED BY <1>4, <1>6, <1>7, <1>8 DEF Seated, HumansOnce

\* createRoom
LEMMA NewRoomSound ==
    ASSUME NEW user \in Users, NEW input \in Inputs
    PROVE  Sound(NewRoom(user, input))
<1> DEFINE room == NewRoom(user, input)
           one == <<user>>
<1>1. /\ room.host = user /\ room.players = one /\ room.ready = {} /\ room.status = Waiting
      /\ room.max = input.max
  BY DEF NewRoom
<1>2. /\ one \in Seq(Users \cup AIPlayers) /\ Len(one) = 1
      /\ DOMAIN one = {1} /\ one[1] = user
  OBVIOUS
<1>3. input.max \in Nat \ {0} /\ input.allowAI \in BOOLEAN /\ input.private \in BOOLEAN
  BY LobbyAssumption
<1>4. room \in Room
  BY <1>2, <1>3 DEF NewRoom, Room, Statuses
<1> HIDE DEF room, one
<1>5. Members(room) = {user} /\ Humans(room) = {user} /\ Count(room) = 1
  BY <1>1, <1>2 DEF Members, Humans, Count, Range
<1>6. HumansOnce(room.players)
  BY <1>1, <1>2 DEF HumansOnce
<1>7. ~AllReady(room)
  BY <1>1, <1>5 DEF AllReady
<1>8. room.status = ComputeStatus(room)
  BY <1>1, <1>7 DEF ComputeStatus, Waiting, InGame
<1>9. Count(room) =< room.max
  BY <1>1, <1>3, <1>5
<1>10. Sound(room)
  BY <1>1, <1>4, <1>5, <1>6, <1>8, <1>9 DEF Sound, Seated
<1> QED BY <1>10 DEF room

\* joinRoom
LEMMA JoinedSound ==
    ASSUME NEW room, Sound(room), NEW user \in Users, MayJoin(user, room)
    PROVE  Sound(Joined(user, room))
<1> DEFINE next == [room EXCEPT !.players = Append(@, user)]
<1>1. /\ next \in Room /\ next.players = Append(room.players, user)
      /\ next.max = room.max /\ next.host = room.host
  <2>1. room \in Room
    BY DEF Sound, Seated
  <2> QED BY <2>1 DEF Room
<1>2. Seated(room) /\ Count(room) < room.max /\ user \notin Members(room)
  BY DEF Sound, MayJoin
<1> HIDE DEF next
<1>3. Seated(next)
  BY <1>1, <1>2, AppendSeated
<1>4. Sound(Recomputed(next))
  BY <1>3, RecomputedSound
<1> QED BY <1>4 DEF Joined, next

\* What leaveRoom and removePlayer make of a room
LEMMA WithoutRoom ==
    ASSUME NEW room, Seated(room), NEW p
    PROVE  LET rest == Without(room, p)
           IN  /\ rest \in Room
               /\ rest.players = Kept(room.players, Members(room) \ {p})
               /\ rest.host = room.host /\ rest.max = room.max
               /\ Range(rest.players) = Members(room) \ {p}
               /\ rest.players \in Seq(Users \cup AIPlayers)
<1>1. room \in Room /\ room.players \in Seq(Users \cup AIPlayers)
  BY DEF Seated, Room
<1> DEFINE kept == Kept(room.players, Members(room) \ {p})
<1>2. /\ kept \in Seq(Users \cup AIPlayers)
      /\ Range(kept) = Range(room.players) \cap (Members(room) \ {p})
  BY <1>1, KeptPlayers
<1> HIDE DEF kept
<1>3. Without(room, p) = [room EXCEPT !.players = kept, !.ready = room.ready \ {p}]
  BY DEF Without, kept
<1>4. /\ Without(room, p) \in Room /\ Without(room, p).players = kept
      /\ Without(room, p).host = room.host /\ Without(room, p).max = room.max
  BY <1>1, <1>2, <1>3 DEF Room
<1>5. Range(kept) = Members(room) \ {p}
  BY <1>2 DEF Members
<1> QED BY <1>2, <1>4, <1>5 DEF kept

\* leaveRoom
LEMMA LeftSound ==
    ASSUME NEW room, Sound(room), NEW user \in Users, MayLeave(user, room),
           Left(user, room) # None
    PROVE  Sound(Left(user, room))
<1> DEFINE rest == Without(room, user)
           people == Kept(rest.players, Users)
           next == IF user = room.host
                   THEN [rest EXCEPT !.host = Head(people)] ELSE rest
<1>1. Seated(room) /\ room \in Room
  BY DEF Sound, Seated
<1>2. /\ rest \in Room
      /\ rest.players = Kept(room.players, Members(room) \ {user})
      /\ rest.host = room.host /\ rest.max = room.max
      /\ Range(rest.players) = Members(room) \ {user}
      /\ rest.players \in Seq(Users \cup AIPlayers)
  BY <1>1, WithoutRoom
<1> HIDE DEF rest
<1>3. people \in Seq(Users \cup AIPlayers) /\ Range(people) = Range(rest.players) \cap Users
  <2>1. rest.players \in Seq(Users \cup AIPlayers)
    BY <1>2
  <2> QED BY <2>1, KeptPlayers
<1> HIDE DEF people
<1>4. Left(user, room) = Recomputed(next) /\ ~(user = room.host /\ people = << >>)
  BY DEF Left, rest, people
<1>5. /\ next \in Room /\ next.players = rest.players /\ next.max = room.max
      /\ next.host \in Users \cap Members(room) \cap (Members(room) \ {user})
  <2>1. CASE user = room.host
    <3>1. people # << >>
      BY <1>4, <2>1
    <3>2. 1 \in DOMAIN people /\ Head(people) = people[1]
      BY <1>3, <3>1
    <3>3. Head(people) \in Range(people)
      BY <3>2 DEF Range
    <3>4. Head(people) \in Users \cap (Members(room) \ {user})
      BY <1>2, <1>3, <3>3
    <3>5. next = [rest EXCEPT !.host = Head(people)]
      BY <2>1
    <3>6. /\ next \in Room /\ next.players = rest.players /\ next.max = rest.max
          /\ next.host = Head(people)
      BY <1>2, <3>4, <3>5 DEF Room
    <3> QED BY <1>2, <3>4, <3>6
  <2>2. CASE user # room.host
    <3>1. room.host \in Users \cap Members(room)
      BY DEF Sound, Seated, Humans
    <3> QED BY <1>2, <2>2, <3>1
  <2> QED BY <2>1, <2>2
<1> HIDE DEF next
<1>6. next.max >= Count(room)
  <2>1. room.max \in Nat /\ Count(room) \in Nat /\ Count(room) =< room.max
    BY <1>1 DEF Seated, Room, Count
  <2> QED BY <1>5, <2>1
<1>7. Seated(next)
  BY <1>1, <1>2, <1>5, <1>6, KeptSeated
<1>8. Sound(Recomputed(next))
  BY <1>7, RecomputedSound
<1> QED BY <1>4, <1>8

\* setReady
LEMMA ReadySetSound ==
    ASSUME NEW room, Sound(room), NEW user \in Users, NEW isReady \in BOOLEAN
    PROVE  Sound(ReadySet(user, isReady, room))
<1> DEFINE ready == IF isReady THEN room.ready \cup {user} ELSE room.ready \ {user}
           next == [room EXCEPT !.ready = ready]
<1>1. room \in Room /\ Seated(room)
  BY DEF Sound, Seated
<1>2. ready \subseteq Users
  BY <1>1 DEF Room
<1> HIDE DEF ready
<1>3. /\ next \in Room /\ next.players = room.players
      /\ next.max = room.max /\ next.host = room.host
  BY <1>1, <1>2 DEF Room
<1>4. ReadySet(user, isReady, room) = Recomputed(next)
  BY DEF ReadySet, ready
<1> HIDE DEF next
<1>5. Seated(next)
  BY <1>1, <1>3 DEF Seated, Count, Humans, Members
<1> QED BY <1>4, <1>5, RecomputedSound

\* startGame
LEMMA StartedSound ==
    ASSUME NEW room, Sound(room)
    PROVE  Sound(Started(room))
<1> DEFINE next == Started(room)
<1>1. room \in Room /\ Seated(room)
  BY DEF Sound, Seated
<1>2. /\ next \in Room /\ next.players = room.players /\ next.max = room.max
      /\ next.host = room.host /\ next.status = InGame
  BY <1>1 DEF Room, Statuses, Started
<1> HIDE DEF next
<1>3. Seated(next)
  BY <1>1, <1>2 DEF Seated, Count, Humans, Members
<1>4. Sound(next)
  BY <1>2, <1>3 DEF Sound, ComputeStatus
<1> QED BY <1>4 DEF next

\* addAIPlayer
LEMMA AIAddedSound ==
    ASSUME NEW room, Sound(room), NEW user, NEW d \in Difficulties, MayAddAI(user, room)
    PROVE  Sound(AIAdded(d, room))
<1> DEFINE ai == [ai |-> d, n |-> Cardinality(AIs(room)) + 1]
           players == Append(room.players, ai)
           next == [room EXCEPT !.players = players, !.ready = {}]
<1>1. room \in Room /\ Seated(room) /\ Count(room) < room.max
  BY DEF Sound, Seated, MayAddAI
<1>2. Cardinality(AIs(room)) \in Nat
  <2>1. room.players \in Seq(Users \cup AIPlayers)
    BY <1>1 DEF Room
  <2>2. DOMAIN room.players = 1 .. Len(room.players) /\ Len(room.players) \in Nat
    BY <2>1
  <2>3. AIs(room) \in SUBSET (1 .. Len(room.players))
    BY <2>2 DEF AIs
  <2> QED BY <2>2, <2>3, Ranks
<1>3. ai \in AIPlayers
  BY <1>2 DEF AIPlayers
<1>4. ai \notin Users
  BY <1>3, LobbyAssumption DEF AIPlayers
<1>5. AIAdded(d, room) = Recomputed(next)
  BY DEF AIAdded
<1> HIDE DEF ai
<1>6. players \in Seq(Users \cup AIPlayers)
  BY <1>1, <1>3 DEF Room
<1> HIDE DEF players
<1>7. /\ next \in Room /\ next.players = players
      /\ next.max = room.max /\ next.host = room.host
  BY <1>1, <1>6 DEF Room
<1> HIDE DEF next
<1>8. Seated(next)
  BY <1>1, <1>3, <1>4, <1>7, AppendSeated DEF players
<1> QED BY <1>5, <1>8, RecomputedSound

\* removePlayer
LEMMA RemovedSound ==
    ASSUME NEW room, Sound(room), NEW user, NEW target, MayRemove(user, target, room)
    PROVE  Sound(Removed(target, room))
<1> DEFINE rest == Without(room, target)
<1>1. Seated(room) /\ room \in Room /\ room.host # target
  BY DEF Sound, Seated, MayRemove
<1>2. /\ rest \in Room
      /\ rest.players = Kept(room.players, Members(room) \ {target})
      /\ rest.host = room.host /\ rest.max = room.max
  BY <1>1, WithoutRoom
<1> HIDE DEF rest
<1>3. rest.host \in Users \cap Members(room) \cap (Members(room) \ {target})
  BY <1>1, <1>2 DEF Seated, Humans
<1>4. rest.max >= Count(room)
  <2>1. room.max \in Nat /\ Count(room) \in Nat /\ Count(room) =< room.max
    BY <1>1 DEF Seated, Room, Count
  <2> QED BY <1>2, <2>1
<1>5. Seated(rest)
  BY <1>1, <1>2, <1>3, <1>4, KeptSeated
<1>6. Removed(target, room) = Recomputed(rest)
  BY DEF Removed, rest
<1> QED BY <1>5, <1>6, RecomputedSound

\* updateSettings
LEMMA UpdatedSound ==
    ASSUME NEW room, Sound(room), NEW user, NEW settings \in Settings,
           MayUpdate(user, settings, room)
    PROVE  Sound(Updated(settings, room))
<1> DEFINE some == IF settings.allowAI THEN Members(room) ELSE Users
           players == IF settings.allowAI THEN room.players ELSE Kept(room.players, Users)
           next == [room EXCEPT !.players = players, !.max = settings.max,
                                !.allowAI = settings.allowAI, !.ready = {}]
<1>1. Seated(room) /\ room \in Room /\ settings.max >= Count(room)
  BY DEF Sound, Seated, MayUpdate
<1>2. settings.max \in Nat \ {0} /\ settings.allowAI \in BOOLEAN
  BY LobbyAssumption
<1>3. room.players \in Seq(Users \cup AIPlayers)
  BY <1>1 DEF Room
<1>4. players \in Seq(Users \cup AIPlayers)
  BY <1>3, KeptPlayers
<1>5. Updated(settings, room) = Recomputed(next)
  BY DEF Updated
<1> HIDE DEF players
<1>6. /\ next \in Room /\ next.players = players
      /\ next.max = settings.max /\ next.host = room.host
  BY <1>1, <1>2, <1>4 DEF Room
<1> HIDE DEF next
<1>7. Seated(next)
  <2>1. CASE settings.allowAI
    <3>1. next.players = room.players
      BY <1>6, <2>1 DEF players
    <3> QED BY <1>1, <1>2, <1>6, <3>1 DEF Seated, Count, Humans, Members
  <2>2. CASE ~settings.allowAI
    <3>1. next.players = Kept(room.players, Users)
      BY <1>6, <2>2 DEF players
    <3>2. next.host \in Users \cap Members(room) \cap Users
      BY <1>1, <1>6 DEF Seated, Humans
    <3> QED BY <1>1, <1>6, <3>1, <3>2, KeptSeated
  <2> QED BY <1>2, <2>1, <2>2
<1> QED BY <1>5, <1>7, RecomputedSound

(***************************************************************************)
(* The inductive invariant: a request that waits to save holds a copy that *)
(* is sound by itself, and of the requests to start a room only one has    *)
(* passed archiveRoom.                                                     *)
(***************************************************************************)

TypeInv ==
    /\ rooms \in [RoomIds -> Room \cup {None}]
    /\ unused \subseteq RoomIds
    /\ current \in [Users -> RoomIds \cup {None}]
    /\ public \subseteq RoomIds /\ archived \subseteq RoomIds
    /\ sessions \in [RoomIds -> Nat]
    /\ request \in [Slots -> Request \cup {None}]

RoomsInv == \A r \in RoomIds : rooms[r] # None => Sound(rooms[r])

Carries(q) ==
    /\ q.at \in {"rooms", "unlist"} => q.copy \subseteq RoomIds
    /\ q.at \notin {"rooms", "unlist"} => q.room \in RoomIds
    /\ q.at \in {"current", "room"} => q.user \in Users
    /\ q.at \in {"archive", "save"} => Sound(q.copy)
    /\ q.at = "clear" => q.copy = None \/ Sound(q.copy)
    /\ q.at \in {"archive", "session"} => q.kind = "start"
    /\ q.kind = "start" => q.at \in {"archive", "save", "session"}

RequestsInv == \A s \in Slots : request[s] # None => Carries(request[s])

Starting(s) ==
    request[s] # None /\ request[s].kind = "start" /\ request[s].at \in {"save", "session"}

StartInv ==
    /\ \A r \in RoomIds : sessions[r] =< 1 /\ (sessions[r] = 1 => r \in archived)
    /\ \A s \in Slots : Starting(s) =>
          request[s].room \in archived /\ sessions[request[s].room] = 0
    /\ \A s, t \in Slots :
          Starting(s) /\ Starting(t) /\ request[s].room = request[t].room => s = t

LobbyInv == TypeInv /\ RoomsInv /\ RequestsInv /\ StartInv

\* A request whose record is replaced; the others stay.
LEMMA OneRequest ==
    ASSUME LobbyInv, NEW s \in Slots, NEW q \in Request \cup {None},
           request' = [request EXCEPT ![s] = q], q # None => Carries(q)
    PROVE  /\ request' \in [Slots -> Request \cup {None}]
           /\ request'[s] = q
           /\ \A t \in Slots \ {s} : request'[t] = request[t]
           /\ RequestsInv'
<1>1. request \in [Slots -> Request \cup {None}]
  BY DEF LobbyInv, TypeInv
<1>2. /\ request' \in [Slots -> Request \cup {None}]
      /\ request'[s] = q
      /\ \A t \in Slots \ {s} : request'[t] = request[t]
  BY <1>1
<1>3. \A t \in Slots : request'[t] # None => Carries(request'[t])
  BY <1>2 DEF LobbyInv, RequestsInv
<1> QED BY <1>2, <1>3 DEF RequestsInv

\* Nobody passes archiveRoom and no session is created.
LEMMA NoStart ==
    ASSUME LobbyInv, NEW s \in Slots,
           \A t \in Slots \ {s} : request'[t] = request[t],
           Starting(s)' => Starting(s) /\ request'[s].room = request[s].room,
           UNCHANGED <<archived, sessions>>
    PROVE  StartInv'
<1>1. \A t \in Slots : Starting(t)' => Starting(t) /\ request'[t].room = request[t].room
  BY DEF Starting
<1>2. StartInv
  BY DEF LobbyInv
<1>3. \A t \in Slots : Starting(t)' =>
         request'[t].room \in archived' /\ sessions'[request'[t].room] = 0
  BY <1>1, <1>2 DEF StartInv
<1>4. \A t, v \in Slots :
          Starting(t)' /\ Starting(v)' /\ request'[t].room = request'[v].room => t = v
  BY <1>1, <1>2 DEF StartInv
<1> QED BY <1>2, <1>3, <1>4 DEF StartInv

\* A request that begins
LEMMA BeginsKeeps ==
    ASSUME LobbyInv, NEW s \in Slots, NEW kind \in Kinds,
           NEW gone \in Users \cup AIPlayers \cup {None},
           NEW r \in RoomIds \cup {None}, NEW at \in Places,
           NEW copy \in Room \cup {None} \cup SUBSET RoomIds,
           Begins(s, kind, gone, r, at, copy), unused' \subseteq RoomIds,
           Carries([kind |-> kind, user |-> gone, room |-> r, at |-> at, copy |-> copy]),
           kind = "start" => at = "archive"
    PROVE  LobbyInv'
<1> DEFINE q == [kind |-> kind, user |-> gone, room |-> r, at |-> at, copy |-> copy]
<1>1. q \in Request /\ q.kind = kind /\ q.at = at
  BY DEF Request
<1>2. request' = [request EXCEPT ![s] = q]
  BY DEF Begins
<1>3. Carries(q)
  OBVIOUS
<1> HIDE DEF q
<1>4. /\ request' \in [Slots -> Request \cup {None}] /\ request'[s] = q
      /\ \A t \in Slots \ {s} : request'[t] = request[t]
      /\ RequestsInv'
  BY <1>1, <1>2, <1>3, OneRequest
<1>5. ~Starting(s)'
  BY <1>1, <1>4 DEF Starting
<1>6. UNCHANGED <<rooms, current, public, archived, sessions>>
  BY DEF Begins
<1>7. StartInv'
  BY <1>4, <1>5, <1>6, NoStart
<1>8. TypeInv' /\ RoomsInv'
  BY <1>4, <1>6 DEF LobbyInv, TypeInv, RoomsInv
<1> QED BY <1>4, <1>7, <1>8 DEF LobbyInv

\* The request in a slot, and what Goes and Ends do to it
LEMMA InSlot ==
    ASSUME LobbyInv, NEW s \in Slots, NEW at, At(s, at)
    PROVE  request[s] \in Request /\ request[s].at = at /\ Carries(request[s])
BY DEF LobbyInv, TypeInv, RequestsInv, At

\* A request goes on to another command.
LEMMA GoesKeeps ==
    ASSUME LobbyInv, NEW s \in Slots, request[s] \in Request, NEW at \in Places,
           Goes(s, at), Carries([request[s] EXCEPT !.at = at])
    PROVE  /\ request' \in [Slots -> Request \cup {None}]
           /\ request'[s] = [request[s] EXCEPT !.at = at]
           /\ request'[s].kind = request[s].kind /\ request'[s].room = request[s].room
           /\ request'[s].at = at
           /\ \A t \in Slots \ {s} : request'[t] = request[t]
           /\ RequestsInv'
<1> DEFINE q == [request[s] EXCEPT !.at = at]
<1>1. /\ q \in Request
      /\ q.kind = request[s].kind /\ q.room = request[s].room /\ q.at = at
  BY DEF Request
<1>2. request' = [request EXCEPT ![s] = q]
  BY DEF Goes
<1>3. Carries(q)
  OBVIOUS
<1> HIDE DEF q
<1>4. /\ request' \in [Slots -> Request \cup {None}] /\ request'[s] = q
      /\ \A t \in Slots \ {s} : request'[t] = request[t]
      /\ RequestsInv'
  BY <1>1, <1>2, <1>3, OneRequest
<1> QED BY <1>1, <1>4 DEF q

\* A request ends.
LEMMA EndsKeeps ==
    ASSUME LobbyInv, NEW s \in Slots, Ends(s)
    PROVE  /\ request' \in [Slots -> Request \cup {None}]
           /\ \A t \in Slots \ {s} : request'[t] = request[t]
           /\ ~Starting(s)'
           /\ RequestsInv'
<1>1. request' = [request EXCEPT ![s] = None]
  BY DEF Ends
<1>2. /\ request' \in [Slots -> Request \cup {None}] /\ request'[s] = None
      /\ \A t \in Slots \ {s} : request'[t] = request[t]
      /\ RequestsInv'
  BY <1>1, OneRequest
<1> QED BY <1>2 DEF Starting

(***************************************************************************)
(* The requests begin.                                                     *)
(***************************************************************************)

\* The room a request has read
LEMMA RoomRead ==
    ASSUME LobbyInv, NEW r \in RoomIds, Exists(r)
    PROVE  Sound(rooms[r]) /\ rooms[r] \in Room
BY DEF LobbyInv, RoomsInv, Exists, Sound, Seated

\* A request that has decided on a copy and writes or archives next
LEMMA DecidesKeeps ==
    ASSUME LobbyInv, NEW s \in Slots, NEW kind \in Kinds,
           NEW gone \in Users \cup AIPlayers, NEW r \in RoomIds,
           NEW at \in {"archive", "clear", "save"}, NEW copy,
           Sound(copy) \/ (copy = None /\ at = "clear"),
           kind = "start" <=> at = "archive",
           Begins(s, kind, gone, r, at, copy), unused' \subseteq RoomIds
    PROVE  LobbyInv'
<1>1. copy \in Room \cup {None} \cup SUBSET RoomIds
  BY DEF Sound, Seated
<1>2. at \in Places /\ gone \in Users \cup AIPlayers \cup {None} /\ r \in RoomIds \cup {None}
  BY DEF Places
<1>3. at \in {"archive", "save"} => Sound(copy)
  OBVIOUS
<1> DEFINE q == [kind |-> kind, user |-> gone, room |-> r, at |-> at, copy |-> copy]
<1>4. q.kind = kind /\ q.user = gone /\ q.room = r /\ q.at = at /\ q.copy = copy
  OBVIOUS
<1> HIDE DEF q
<1>5. Carries(q)
  BY <1>3, <1>4 DEF Carries
<1> QED BY <1>1, <1>2, <1>5, BeginsKeeps DEF q

\* createRoom decides on a new room.
LEMMA CreateRoomKeeps ==
    ASSUME LobbyInv, NEW s \in Slots, CreateRoom(s)
    PROVE  LobbyInv'
<1>1. PICK user \in Users, r \in unused, input \in Inputs :
         /\ Begins(s, "create", user, r, "save", NewRoom(user, input))
         /\ unused' = unused \ {r}
  BY DEF CreateRoom
<1>2. r \in RoomIds /\ unused' \subseteq RoomIds
  BY <1>1 DEF LobbyInv, TypeInv
<1>3. Sound(NewRoom(user, input))
  BY NewRoomSound
<1> QED BY <1>1, <1>2, <1>3, DecidesKeeps DEF Kinds

\* joinRoom carries no copy until it has read the room.
LEMMA JoinRoomKeeps ==
    ASSUME LobbyInv, NEW s \in Slots, JoinRoom(s)
    PROVE  LobbyInv'
<1>1. PICK user \in Users, r \in RoomIds, at \in {"current", "room"} :
         Begins(s, "join", user, r, at, None) /\ unused' = unused
  BY DEF JoinRoom
<1>2. unused' \subseteq RoomIds
  BY <1>1 DEF LobbyInv, TypeInv
<1> DEFINE q == [kind |-> "join", user |-> user, room |-> r, at |-> at, copy |-> None]
<1>3. Carries(q)
  BY DEF Carries
<1> HIDE DEF q
<1>4. "join" \in Kinds /\ at \in Places
  BY DEF Kinds, Places
<1> QED BY <1>1, <1>2, <1>3, <1>4, BeginsKeeps DEF q

\* leaveRoom: the copy is None if the room is to be deleted.
LEMMA LeaveRoomKeeps ==
    ASSUME LobbyInv, NEW s \in Slots, LeaveRoom(s)
    PROVE  LobbyInv'
<1>1. PICK user \in Users, r \in RoomIds :
         /\ Exists(r) /\ MayLeave(user, rooms[r])
         /\ Begins(s, "leave", user, r, "clear", Left(user, rooms[r]))
         /\ unused' = unused
  BY DEF LeaveRoom
<1>2. unused' \subseteq RoomIds /\ Sound(rooms[r])
  BY <1>1, RoomRead DEF LobbyInv, TypeInv
<1>3. Left(user, rooms[r]) = None \/ Sound(Left(user, rooms[r]))
  BY <1>1, <1>2, LeftSound
<1> QED BY <1>1, <1>2, <1>3, DecidesKeeps DEF Kinds

\* setReady
LEMMA SetReadyKeeps ==
    ASSUME LobbyInv, NEW s \in Slots, SetReady(s)
    PROVE  LobbyInv'
<1>1. PICK user \in Users, r \in RoomIds, isReady \in BOOLEAN :
         /\ Exists(r)
         /\ Begins(s, "ready", user, r, "save", ReadySet(user, isReady, rooms[r]))
         /\ unused' = unused
  BY DEF SetReady
<1>2. unused' \subseteq RoomIds /\ Sound(rooms[r])
  BY <1>1, RoomRead DEF LobbyInv, TypeInv
<1>3. Sound(ReadySet(user, isReady, rooms[r]))
  BY <1>2, ReadySetSound
<1> QED BY <1>1, <1>2, <1>3, DecidesKeeps DEF Kinds

\* startGame begins with archiveRoom.
LEMMA StartGameKeeps ==
    ASSUME LobbyInv, NEW s \in Slots, StartGame(s)
    PROVE  LobbyInv'
<1>1. PICK user \in Users, r \in RoomIds :
         /\ Exists(r)
         /\ Begins(s, "start", user, r, "archive", Started(rooms[r]))
         /\ unused' = unused
  BY DEF StartGame
<1>2. unused' \subseteq RoomIds /\ Sound(rooms[r])
  BY <1>1, RoomRead DEF LobbyInv, TypeInv
<1>3. Sound(Started(rooms[r]))
  BY <1>2, StartedSound
<1> QED BY <1>1, <1>2, <1>3, DecidesKeeps DEF Kinds

\* addAIPlayer
LEMMA AddAIPlayerKeeps ==
    ASSUME LobbyInv, NEW s \in Slots, AddAIPlayer(s)
    PROVE  LobbyInv'
<1>1. PICK user \in Users, r \in RoomIds, d \in Difficulties :
         /\ Exists(r) /\ MayAddAI(user, rooms[r])
         /\ Begins(s, "addAI", user, r, "save", AIAdded(d, rooms[r]))
         /\ unused' = unused
  BY DEF AddAIPlayer
<1>2. unused' \subseteq RoomIds /\ Sound(rooms[r])
  BY <1>1, RoomRead DEF LobbyInv, TypeInv
<1>3. Sound(AIAdded(d, rooms[r]))
  BY <1>1, <1>2, AIAddedSound
<1> QED BY <1>1, <1>2, <1>3, DecidesKeeps DEF Kinds

\* removePlayer, of a human or of an AI player
LEMMA RemovePlayerKeeps ==
    ASSUME LobbyInv, NEW s \in Slots, RemovePlayer(s)
    PROVE  LobbyInv'
<1>1. PICK user \in Users, r \in RoomIds :
         /\ Exists(r)
         /\ \E target \in Members(rooms[r]) :
               /\ MayRemove(user, target, rooms[r])
               /\ Begins(s, "remove", target, r,
                         IF target \in Users THEN "clear" ELSE "save",
                         Removed(target, rooms[r]))
         /\ unused' = unused
  BY DEF RemovePlayer
<1>2. PICK target \in Members(rooms[r]), at \in {"clear", "save"} :
         /\ MayRemove(user, target, rooms[r])
         /\ Begins(s, "remove", target, r, at, Removed(target, rooms[r]))
  BY <1>1
<1>3. unused' \subseteq RoomIds /\ Sound(rooms[r]) /\ rooms[r] \in Room
  BY <1>1, RoomRead DEF LobbyInv, TypeInv
<1>4. Sound(Removed(target, rooms[r]))
  BY <1>2, <1>3, RemovedSound
<1>5. target \in Users \cup AIPlayers
  <2>1. rooms[r].players \in Seq(Users \cup AIPlayers)
    BY <1>3 DEF Room
  <2>2. \A i \in DOMAIN rooms[r].players : rooms[r].players[i] \in Users \cup AIPlayers
    BY <2>1
  <2> QED BY <2>2 DEF Members, Range
<1> QED BY <1>2, <1>3, <1>4, <1>5, DecidesKeeps DEF Kinds

\* updateSettings
LEMMA UpdateSettingsKeeps ==
    ASSUME LobbyInv, NEW s \in Slots, UpdateSettings(s)
    PROVE  LobbyInv'
<1>1. PICK user \in Users, r \in RoomIds, settings \in Settings :
         /\ Exists(r) /\ MayUpdate(user, settings, rooms[r])
         /\ Begins(s, "update", user, r, "save", Updated(settings, rooms[r]))
         /\ unused' = unused
  BY DEF UpdateSettings
<1>2. unused' \subseteq RoomIds /\ Sound(rooms[r])
  BY <1>1, RoomRead DEF LobbyInv, TypeInv
<1>3. Sound(Updated(settings, rooms[r]))
  BY <1>1, <1>2, UpdatedSound
<1> QED BY <1>1, <1>2, <1>3, DecidesKeeps DEF Kinds

\* listPublicRooms carries ids, not a room.
LEMMA ListRoomsKeeps ==
    ASSUME LobbyInv, NEW s \in Slots, ListRooms(s)
    PROVE  LobbyInv'
<1>1. Begins(s, "list", None, None, "rooms", public) /\ unused' = unused
  BY DEF ListRooms
<1>2. public \subseteq RoomIds /\ unused' \subseteq RoomIds
  BY <1>1 DEF LobbyInv, TypeInv
<1> DEFINE q == [kind |-> "list", user |-> None, room |-> None, at |-> "rooms",
                 copy |-> public]
<1>3. Carries(q)
  BY <1>2 DEF Carries
<1> HIDE DEF q
<1>4. "list" \in Kinds /\ "rooms" \in Places
  BY DEF Kinds, Places
<1> QED BY <1>1, <1>2, <1>3, <1>4, BeginsKeeps DEF q

(***************************************************************************)
(* The requests go on.                                                     *)
(***************************************************************************)

\* A step of a request that changes no room and starts nothing: it goes on to
\* a command that its kind allows, or ends.
LEMMA StepKeeps ==
    ASSUME LobbyInv, NEW s \in Slots, request[s] \in Request,
           \/ Ends(s)
           \/ \E at \in Places \ {"session"} :
                 /\ Goes(s, at) /\ Carries([request[s] EXCEPT !.at = at])
                 /\ at = "save" => request[s].kind # "start",
           rooms' \in [RoomIds -> Room \cup {None}],
           \A r \in RoomIds : rooms'[r] # None => rooms'[r] = rooms[r],
           current' \in [Users -> RoomIds \cup {None}], public' \subseteq RoomIds,
           UNCHANGED <<unused, archived, sessions>>
    PROVE  LobbyInv'
<1>1. /\ request' \in [Slots -> Request \cup {None}]
      /\ \A t \in Slots \ {s} : request'[t] = request[t]
      /\ ~Starting(s)'
      /\ RequestsInv'
  <2>1. CASE Ends(s)
    BY <2>1, EndsKeeps
  <2>2. ASSUME NEW at \in Places \ {"session"}, Goes(s, at),
               Carries([request[s] EXCEPT !.at = at]),
               at = "save" => request[s].kind # "start"
        PROVE  /\ request' \in [Slots -> Request \cup {None}]
               /\ \A t \in Slots \ {s} : request'[t] = request[t]
               /\ ~Starting(s)' /\ RequestsInv'
    <3>1. /\ request' \in [Slots -> Request \cup {None}]
          /\ request'[s].kind = request[s].kind /\ request'[s].at = at
          /\ \A t \in Slots \ {s} : request'[t] = request[t]
          /\ RequestsInv'
      BY <2>2, GoesKeeps
    <3> QED BY <2>2, <3>1 DEF Starting
  <2> QED BY <2>1, <2>2
<1>2. StartInv'
  BY <1>1, NoStart
<1>3. RoomsInv'
  BY DEF LobbyInv, RoomsInv
<1>4. TypeInv'
  BY <1>1 DEF LobbyInv, TypeInv
<1> QED BY <1>1, <1>2, <1>3, <1>4 DEF LobbyInv

\* What stays when a request goes on to another command
LEMMA AtChanged ==
    ASSUME NEW q \in Request, NEW at
    PROVE  LET next == [q EXCEPT !.at = at]
           IN  /\ next.kind = q.kind /\ next.user = q.user /\ next.room = q.room
               /\ next.copy = q.copy /\ next.at = at
BY DEF Request

\* The mapping has been read.
LEMMA ReadCurrentKeeps ==
    ASSUME LobbyInv, NEW s \in Slots, ReadCurrent(s)
    PROVE  LobbyInv'
<1>1. /\ request[s] \in Request /\ request[s].at = "current" /\ Carries(request[s])
  BY InSlot DEF ReadCurrent
<1>2. UNCHANGED <<rooms, unused, current, public, archived, sessions>>
  BY DEF ReadCurrent
<1>3. Carries([request[s] EXCEPT !.at = "room"])
  BY <1>1, AtChanged DEF Carries
<1>4. Ends(s) \/ Goes(s, "room")
  BY DEF ReadCurrent
<1>5. /\ "room" \in Places \ {"session"}
      /\ rooms' \in [RoomIds -> Room \cup {None}]
      /\ \A r \in RoomIds : rooms'[r] # None => rooms'[r] = rooms[r]
      /\ current' \in [Users -> RoomIds \cup {None}] /\ public' \subseteq RoomIds
  BY <1>2 DEF LobbyInv, TypeInv, Places
<1> QED BY <1>1, <1>2, <1>3, <1>4, <1>5, StepKeeps

\* The room is read, and the copy with the new player decided on.
LEMMA ReadRoomKeeps ==
    ASSUME LobbyInv, NEW s \in Slots, ReadRoom(s)
    PROVE  LobbyInv'
<1> DEFINE user == request[s].user
           r == request[s].room
<1>1. /\ request[s] \in Request /\ request[s].at = "room" /\ Carries(request[s])
  BY InSlot DEF ReadRoom
<1>2. UNCHANGED <<rooms, unused, current, public, archived, sessions>>
  BY DEF ReadRoom
<1>3. user \in Users /\ r \in RoomIds /\ request[s].kind # "start"
  BY <1>1 DEF Carries
<1>4. /\ rooms' \in [RoomIds -> Room \cup {None}]
      /\ \A x \in RoomIds : rooms'[x] # None => rooms'[x] = rooms[x]
      /\ current' \in [Users -> RoomIds \cup {None}] /\ public' \subseteq RoomIds
  BY <1>2 DEF LobbyInv, TypeInv
<1>5. CASE Ends(s)
  BY <1>1, <1>2, <1>4, <1>5, StepKeeps
<1>6. CASE /\ Exists(r) /\ MayJoin(user, rooms[r])
           /\ request' = [request EXCEPT ![s].at = "save", ![s].copy = Joined(user, rooms[r])]
  <2> DEFINE copy == Joined(user, rooms[r])
             q == [request[s] EXCEPT !.at = "save", !.copy = copy]
  <2>1. Sound(copy)
    BY <1>3, <1>6, RoomRead, JoinedSound
  <2>2. request' = [request EXCEPT ![s] = q]
    BY <1>6 DEF LobbyInv, TypeInv
  <2> HIDE DEF copy
  <2>3. /\ q \in Request /\ q.kind = request[s].kind /\ q.room = r /\ q.at = "save"
        /\ q.copy = copy
    BY <1>1, <2>1 DEF Request, Sound, Seated, Places
  <2> HIDE DEF q
  <2>4. Carries(q)
    BY <1>3, <2>1, <2>3 DEF Carries
  <2>5. /\ request' \in [Slots -> Request \cup {None}] /\ request'[s] = q
        /\ \A t \in Slots \ {s} : request'[t] = request[t]
        /\ RequestsInv'
    BY <2>2, <2>3, <2>4, OneRequest
  <2>6. ~Starting(s)'
    BY <1>3, <2>3, <2>5 DEF Starting
  <2>7. StartInv'
    BY <1>2, <2>5, <2>6, NoStart
  <2> QED BY <1>2, <1>4, <2>5, <2>7 DEF LobbyInv, TypeInv, RoomsInv
<1> QED BY <1>5, <1>6 DEF ReadRoom

\* A mapping is cleared; no room changes.
LEMMA ClearCurrentKeeps ==
    ASSUME LobbyInv, NEW s \in Slots, ClearCurrent(s)
    PROVE  LobbyInv'
<1>1. /\ request[s] \in Request /\ request[s].at = "clear" /\ Carries(request[s])
  BY InSlot DEF ClearCurrent
<1>2. /\ current' = [current EXCEPT ![request[s].user] = None]
      /\ UNCHANGED <<rooms, unused, public, archived, sessions>>
  BY DEF ClearCurrent
<1>3. PICK at \in {"delete", "save"} :
         Goes(s, at) /\ (at = "save" => request[s].copy # None)
  BY DEF ClearCurrent
<1>4. request[s].kind # "start"
  BY <1>1 DEF Carries
<1>5. Carries([request[s] EXCEPT !.at = at])
  BY <1>1, <1>3, <1>4, AtChanged DEF Carries
<1>6. /\ at \in Places \ {"session"}
      /\ rooms' \in [RoomIds -> Room \cup {None}]
      /\ \A r \in RoomIds : rooms'[r] # None => rooms'[r] = rooms[r]
      /\ current' \in [Users -> RoomIds \cup {None}] /\ public' \subseteq RoomIds
  BY <1>2 DEF LobbyInv, TypeInv, Places
<1> QED BY <1>1, <1>2, <1>3, <1>4, <1>5, <1>6, StepKeeps

\* Of two requests to start a room the second finds it archived.
LEMMA ArchiveRoomKeeps ==
    ASSUME LobbyInv, NEW s \in Slots, ArchiveRoom(s)
    PROVE  LobbyInv'
<1> DEFINE r == request[s].room
<1>1. /\ request[s] \in Request /\ request[s].at = "archive" /\ Carries(request[s])
  BY InSlot DEF ArchiveRoom
<1>2. UNCHANGED <<rooms, unused, current, public, sessions>>
  BY DEF ArchiveRoom
<1>3. r \in RoomIds /\ Sound(request[s].copy)
  BY <1>1 DEF Carries
<1>4. CASE Ends(s) /\ UNCHANGED archived
  <2>1. /\ rooms' \in [RoomIds -> Room \cup {None}]
        /\ \A x \in RoomIds : rooms'[x] # None => rooms'[x] = rooms[x]
        /\ current' \in [Users -> RoomIds \cup {None}] /\ public' \subseteq RoomIds
    BY <1>2 DEF LobbyInv, TypeInv
  <2> QED BY <1>1, <1>2, <1>4, <2>1, StepKeeps
<1>5. CASE r \notin archived /\ archived' = archived \cup {r} /\ Goes(s, "save")
  <2>1. Carries([request[s] EXCEPT !.at = "save"]) /\ "save" \in Places
    BY <1>1, AtChanged DEF Carries, Places
  <2>2. /\ request' \in [Slots -> Request \cup {None}]
        /\ request'[s].room = r
        /\ \A t \in Slots \ {s} : request'[t] = request[t]
        /\ RequestsInv'
    BY <1>1, <1>5, <2>1, GoesKeeps
  <2>3. StartInv
    BY DEF LobbyInv
  <2>4. sessions[r] = 0
    <3>1. sessions[r] \in Nat /\ sessions[r] =< 1 /\ sessions[r] # 1
      BY <1>3, <1>5, <2>3 DEF StartInv, LobbyInv, TypeInv
    <3> QED BY <3>1
  <2>5. \A t \in Slots \ {s} : Starting(t)' => Starting(t) /\ request'[t].room # r
    BY <1>5, <2>2, <2>3 DEF StartInv, Starting
  <2>6. \A t \in Slots : Starting(t)' =>
           request'[t].room \in archived' /\ sessions'[request'[t].room] = 0
    BY <1>2, <1>5, <2>2, <2>3, <2>4, <2>5 DEF StartInv
  <2>7. \A t, v \in Slots :
            Starting(t)' /\ Starting(v)' /\ request'[t].room = request'[v].room => t = v
    BY <2>2, <2>3, <2>5 DEF StartInv
  <2>8. StartInv'
    BY <1>2, <1>5, <2>3, <2>6, <2>7 DEF StartInv
  <2>9. TypeInv' /\ RoomsInv'
    BY <1>2, <1>3, <1>5, <2>2 DEF LobbyInv, TypeInv, RoomsInv
  <2> QED BY <2>2, <2>8, <2>9 DEF LobbyInv
<1> QED BY <1>4, <1>5 DEF ArchiveRoom

\* A copy replaces whatever is stored: it is sound by itself.
LEMMA SaveRoomKeeps ==
    ASSUME LobbyInv, NEW s \in Slots, SaveRoom(s)
    PROVE  LobbyInv'
<1> DEFINE q == request[s]
<1>1. q \in Request /\ q.at = "save" /\ Carries(q)
  BY InSlot DEF SaveRoom
<1>2. q.room \in RoomIds /\ Sound(q.copy) /\ q.copy \in Room
  BY <1>1 DEF Carries, Sound, Seated
<1>3. /\ rooms' = [rooms EXCEPT ![q.room] = q.copy]
      /\ current' = [u \in Users |-> IF u \in Humans(q.copy) THEN q.room ELSE current[u]]
      /\ public' \in {public \cup {q.room}, public \ {q.room}}
      /\ UNCHANGED <<unused, archived, sessions>>
  BY DEF SaveRoom
<1>4. RoomsInv'
  BY <1>2, <1>3 DEF LobbyInv, TypeInv, RoomsInv
<1>5. /\ request' \in [Slots -> Request \cup {None}]
      /\ \A t \in Slots \ {s} : request'[t] = request[t]
      /\ Starting(s)' => Starting(s) /\ request'[s].room = request[s].room
      /\ RequestsInv'
  <2>1. CASE q.kind = "start" /\ Goes(s, "session")
    <3>1. Carries([q EXCEPT !.at = "session"]) /\ "session" \in Places
      BY <1>1, <2>1, AtChanged DEF Carries, Places
    <3>2. q # None
      BY DEF SaveRoom, At
    <3>3. /\ request' \in [Slots -> Request \cup {None}]
          /\ request'[s].room = q.room
          /\ \A t \in Slots \ {s} : request'[t] = request[t]
          /\ RequestsInv'
      BY <1>1, <2>1, <3>1, GoesKeeps
    <3>4. Starting(s)
      BY <1>1, <2>1, <3>2 DEF Starting
    <3> QED BY <3>3, <3>4
  <2>2. CASE Ends(s)
    BY <2>2, EndsKeeps
  <2> QED BY <2>1, <2>2 DEF SaveRoom
<1>6. StartInv'
  BY <1>3, <1>5, NoStart
<1>7. TypeInv'
  BY <1>2, <1>3, <1>5 DEF LobbyInv, TypeInv
<1> QED BY <1>4, <1>5, <1>6, <1>7 DEF LobbyInv

\* A room goes.
LEMMA DeleteRoomKeeps ==
    ASSUME LobbyInv, NEW s \in Slots, DeleteRoom(s)
    PROVE  LobbyInv'
<1>1. /\ request[s] \in Request /\ request[s].at = "delete" /\ Carries(request[s])
  BY InSlot DEF DeleteRoom
<1>2. /\ rooms' = [rooms EXCEPT ![request[s].room] = None]
      /\ public' = public \ {request[s].room}
      /\ Ends(s) /\ UNCHANGED <<unused, current, archived, sessions>>
  BY DEF DeleteRoom
<1>3. /\ rooms' \in [RoomIds -> Room \cup {None}]
      /\ \A r \in RoomIds : rooms'[r] # None => rooms'[r] = rooms[r]
      /\ current' \in [Users -> RoomIds \cup {None}] /\ public' \subseteq RoomIds
  BY <1>2 DEF LobbyInv, TypeInv
<1> QED BY <1>1, <1>2, <1>3, StepKeeps

\* The one request that has passed archiveRoom creates the session.
LEMMA CreateSessionKeeps ==
    ASSUME LobbyInv, NEW s \in Slots, CreateSession(s)
    PROVE  LobbyInv'
<1> DEFINE r == request[s].room
<1>1. /\ request[s] \in Request /\ request[s].at = "session" /\ Carries(request[s])
      /\ request[s] # None
  BY InSlot DEF CreateSession, At
<1>2. r \in RoomIds /\ request[s].kind = "start"
  BY <1>1 DEF Carries
<1>3. /\ sessions' = [sessions EXCEPT ![r] = @ + 1] /\ Ends(s)
      /\ UNCHANGED <<rooms, unused, current, public, archived>>
  BY DEF CreateSession
<1>4. /\ request' \in [Slots -> Request \cup {None}]
      /\ \A t \in Slots \ {s} : request'[t] = request[t]
      /\ ~Starting(s)' /\ RequestsInv'
  BY <1>3, EndsKeeps
<1>5. StartInv /\ Starting(s)
  BY <1>1, <1>2 DEF LobbyInv, Starting
<1>6. r \in archived /\ sessions[r] = 0
  BY <1>5 DEF StartInv
<1>7. sessions'[r] = 1 /\ \A x \in RoomIds \ {r} : sessions'[x] = sessions[x]
  BY <1>2, <1>3, <1>6 DEF LobbyInv, TypeInv
<1>8. \A t \in Slots : Starting(t)' => t # s /\ Starting(t) /\ request'[t].room = request[t].room
  BY <1>4 DEF Starting
<1>9. \A t \in Slots : Starting(t)' =>
         request'[t].room \in archived' /\ sessions'[request'[t].room] = 0
  <2> SUFFICES ASSUME NEW t \in Slots, Starting(t)'
               PROVE  request'[t].room \in archived' /\ sessions'[request'[t].room] = 0
    OBVIOUS
  <2>1. t # s /\ Starting(t) /\ request'[t].room = request[t].room
    BY <1>8
  <2>2. request[t].room # r /\ request[t].room \in archived /\ sessions[request[t].room] = 0
    BY <1>5, <2>1 DEF StartInv
  <2>3. archived \subseteq RoomIds
    BY DEF LobbyInv, TypeInv
  <2> QED BY <1>3, <1>7, <2>1, <2>2, <2>3
<1>10. \A t, v \in Slots :
           Starting(t)' /\ Starting(v)' /\ request'[t].room = request'[v].room => t = v
  BY <1>5, <1>8 DEF StartInv
<1>11. \A x \in RoomIds : sessions'[x] =< 1 /\ (sessions'[x] = 1 => x \in archived')
  BY <1>3, <1>5, <1>6, <1>7 DEF StartInv
<1>12. StartInv'
  BY <1>9, <1>10, <1>11 DEF StartInv
<1>13. sessions' \in [RoomIds -> Nat]
  <2>1. sessions \in [RoomIds -> Nat]
    BY DEF LobbyInv, TypeInv
  <2>2. \A x \in RoomIds : sessions'[x] \in Nat
    BY <1>7, <2>1
  <2>3. sessions' = [x \in RoomIds |-> sessions'[x]]
    BY <1>3, <2>1
  <2> QED BY <2>2, <2>3
<1>14. TypeInv' /\ RoomsInv'
  BY <1>3, <1>4, <1>13 DEF LobbyInv, TypeInv, RoomsInv
<1> QED BY <1>4, <1>12, <1>14 DEF LobbyInv

\* The rooms of the public list are read.
LEMMA ReadRoomsKeeps ==
    ASSUME LobbyInv, NEW s \in Slots, ReadRooms(s)
    PROVE  LobbyInv'
<1> DEFINE stale == Stale(request[s].copy)
<1>1. /\ request[s] \in Request /\ request[s].at = "rooms" /\ Carries(request[s])
  BY InSlot DEF ReadRooms
<1>2. UNCHANGED <<rooms, unused, current, public, archived, sessions>>
  BY DEF ReadRooms
<1>3. stale \subseteq RoomIds /\ request[s].kind # "start"
  BY <1>1 DEF Carries, Stale
<1>4. /\ rooms' \in [RoomIds -> Room \cup {None}]
      /\ \A r \in RoomIds : rooms'[r] # None => rooms'[r] = rooms[r]
      /\ current' \in [Users -> RoomIds \cup {None}] /\ public' \subseteq RoomIds
  BY <1>2 DEF LobbyInv, TypeInv
<1>5. CASE Ends(s)
  BY <1>1, <1>2, <1>4, <1>5, StepKeeps
<1>6. CASE request' = [request EXCEPT ![s].at = "unlist", ![s].copy = stale]
  <2> DEFINE q == [request[s] EXCEPT !.at = "unlist", !.copy = stale]
  <2>1. request' = [request EXCEPT ![s] = q]
    BY <1>6 DEF LobbyInv, TypeInv
  <2> HIDE DEF stale
  <2>2. /\ q \in Request /\ q.kind = request[s].kind /\ q.at = "unlist" /\ q.copy = stale
    BY <1>1, <1>3 DEF Request, Places
  <2> HIDE DEF q
  <2>3. Carries(q)
    BY <1>3, <2>2 DEF Carries
  <2>4. /\ request' \in [Slots -> Request \cup {None}] /\ request'[s] = q
        /\ \A t \in Slots \ {s} : request'[t] = request[t]
        /\ RequestsInv'
    BY <2>1, <2>2, <2>3, OneRequest
  <2>5. ~Starting(s)'
    BY <2>2, <2>4 DEF Starting
  <2>6. StartInv'
    BY <1>2, <2>4, <2>5, NoStart
  <2> QED BY <1>2, <1>4, <2>4, <2>6 DEF LobbyInv, TypeInv, RoomsInv
<1> QED BY <1>5, <1>6 DEF ReadRooms

\* Stale ids leave the public list.
LEMMA UnlistKeeps ==
    ASSUME LobbyInv, NEW s \in Slots, Unlist(s)
    PROVE  LobbyInv'
<1>1. /\ request[s] \in Request
  BY InSlot DEF Unlist
<1>2. /\ public' = public \ request[s].copy /\ Ends(s)
      /\ UNCHANGED <<rooms, unused, current, archived, sessions>>
  BY DEF Unlist
<1>3. /\ rooms' \in [RoomIds -> Room \cup {None}]
      /\ \A r \in RoomIds : rooms'[r] # None => rooms'[r] = rooms[r]
      /\ current' \in [Users -> RoomIds \cup {None}] /\ public' \subseteq RoomIds
  BY <1>2 DEF LobbyInv, TypeInv
<1> QED BY <1>1, <1>2, <1>3, StepKeeps

\* A request is cut short.
LEMMA FailKeeps ==
    ASSUME LobbyInv, NEW s \in Slots, Fail(s)
    PROVE  LobbyInv'
<1>1. request[s] \in Request
  BY DEF Fail, LobbyInv, TypeInv
<1>2. Ends(s) /\ UNCHANGED <<rooms, unused, current, public, archived, sessions>>
  BY DEF Fail
<1>3. /\ rooms' \in [RoomIds -> Room \cup {None}]
      /\ \A r \in RoomIds : rooms'[r] # None => rooms'[r] = rooms[r]
      /\ current' \in [Users -> RoomIds \cup {None}] /\ public' \subseteq RoomIds
  BY <1>2 DEF LobbyInv, TypeInv
<1> QED BY <1>1, <1>2, <1>3, StepKeeps

\* Expiry and logout
LEMMA OutsideKeeps ==
    ASSUME LobbyInv,
           rooms' \in [RoomIds -> Room \cup {None}],
           \A r \in RoomIds : rooms'[r] # None => rooms'[r] = rooms[r],
           current' \in [Users -> RoomIds \cup {None}],
           UNCHANGED <<unused, public, archived, sessions, request>>
    PROVE  LobbyInv'
<1>1. TypeInv' /\ RoomsInv'
  BY DEF LobbyInv, TypeInv, RoomsInv
<1>2. RequestsInv' /\ StartInv'
  BY DEF LobbyInv, RequestsInv, StartInv, Starting
<1> QED BY <1>1, <1>2 DEF LobbyInv

\* Every step
LEMMA NextKeeps ==
    ASSUME LobbyInv, Next
    PROVE  LobbyInv'
<1>1. ASSUME NEW s \in Slots,
             \/ CreateRoom(s) \/ JoinRoom(s) \/ LeaveRoom(s) \/ SetReady(s)
             \/ StartGame(s) \/ AddAIPlayer(s) \/ RemovePlayer(s)
             \/ UpdateSettings(s) \/ ListRooms(s)
      PROVE  LobbyInv'
  BY <1>1, CreateRoomKeeps, JoinRoomKeeps, LeaveRoomKeeps, SetReadyKeeps,
     StartGameKeeps, AddAIPlayerKeeps, RemovePlayerKeeps, UpdateSettingsKeeps,
     ListRoomsKeeps
<1>2. ASSUME NEW s \in Slots, Serves(s) \/ Fail(s)
      PROVE  LobbyInv'
  BY <1>2, ReadCurrentKeeps, ReadRoomKeeps, ClearCurrentKeeps, ArchiveRoomKeeps,
     SaveRoomKeeps, DeleteRoomKeeps, CreateSessionKeeps, ReadRoomsKeeps, UnlistKeeps,
     FailKeeps DEF Serves
<1>3. ASSUME NEW r \in RoomIds, Expire(r)
      PROVE  LobbyInv'
  <2>1. /\ rooms' = [rooms EXCEPT ![r] = None]
        /\ current' = [u \in Users |-> IF current[u] = r THEN None ELSE current[u]]
        /\ UNCHANGED <<unused, public, archived, sessions, request>>
    BY <1>3 DEF Expire
  <2>2. /\ rooms' \in [RoomIds -> Room \cup {None}]
        /\ \A x \in RoomIds : rooms'[x] # None => rooms'[x] = rooms[x]
        /\ current' \in [Users -> RoomIds \cup {None}]
    BY <2>1 DEF LobbyInv, TypeInv
  <2> QED BY <2>1, <2>2, OutsideKeeps
<1>4. ASSUME NEW u \in Users, ExpireMapping(u) \/ Logout(u)
      PROVE  LobbyInv'
  <2>1. /\ current' = [current EXCEPT ![u] = None]
        /\ UNCHANGED <<rooms, unused, public, archived, sessions, request>>
    BY <1>4 DEF ExpireMapping, Logout
  <2>2. /\ rooms' \in [RoomIds -> Room \cup {None}]
        /\ \A x \in RoomIds : rooms'[x] # None => rooms'[x] = rooms[x]
        /\ current' \in [Users -> RoomIds \cup {None}]
    BY <2>1 DEF LobbyInv, TypeInv
  <2> QED BY <2>1, <2>2, OutsideKeeps
<1> QED BY <1>1, <1>2, <1>3, <1>4 DEF Next

\* The initial states
LEMMA InitInv == Init => LobbyInv
<1> SUFFICES ASSUME Init PROVE LobbyInv
  OBVIOUS
<1>1. TypeInv /\ RoomsInv /\ RequestsInv
  BY DEF Init, TypeInv, RoomsInv, RequestsInv
<1>2. StartInv
  BY DEF Init, StartInv, Starting
<1> QED BY <1>1, <1>2 DEF LobbyInv

(***************************************************************************)
(* The theorems.                                                           *)
(***************************************************************************)

\* Types, sound rooms, sound copies and one start per room hold together, in
\* every interleaving of requests, failures and expiries.
THEOREM LobbyInvHolds == Spec => []LobbyInv
<1>1. LobbyInv /\ [Next]_vars => LobbyInv'
  <2> SUFFICES ASSUME LobbyInv, [Next]_vars PROVE LobbyInv'
    OBVIOUS
  <2>1. CASE Next
    BY <2>1, NextKeeps
  <2>2. CASE UNCHANGED vars
    BY <2>2, OutsideKeeps DEF vars, LobbyInv, TypeInv
  <2> QED BY <2>1, <2>2
<1> QED BY <1>1, InitInv, PTL DEF Spec

\* No overlap of requests overfills a room, seats a user twice in it or leaves
\* it with a host who is not one of its humans.
THEOREM RoomsStaySound == Spec => []RoomsSound
<1>1. LobbyInv => RoomsSound
  BY DEF LobbyInv, RoomsInv, RoomsSound, Sound, Seated, HumansOnce
<1> QED BY <1>1, LobbyInvHolds, PTL

\* The stored status is always the one computeRoomStatus gives for the players
\* stored with it, so startGame may trust it.
THEOREM StatusStaysExact == Spec => []StatusMatchesPlayers
<1>1. LobbyInv => StatusMatchesPlayers
  BY DEF LobbyInv, RoomsInv, StatusMatchesPlayers, Sound
<1> QED BY <1>1, LobbyInvHolds, PTL

\* However many requests to start a room overlap, and whatever a stale copy puts
\* back, at most one game session is created for it.
THEOREM StartsOnce == Spec => []StartedOnce
<1>1. LobbyInv => StartedOnce
  BY DEF LobbyInv, StartInv, StartedOnce
<1> QED BY <1>1, LobbyInvHolds, PTL

(***************************************************************************)
(* Who sits in the room an operation makes.                                *)
(***************************************************************************)

\* The humans of a copy; there are none in a room that is to be deleted.
HumansOf(copy) == IF copy = None THEN {} ELSE Humans(copy)

\* A sound copy is a room.
LEMMA SoundIsRoom ==
    ASSUME NEW room, Sound(room)
    PROVE  room \in Room /\ room # None /\ HumansOf(room) = Humans(room)
BY NoneAssumption DEF Sound, Seated, HumansOf

\* computeRoomStatus moves nobody.
LEMMA RecomputedHumans ==
    ASSUME NEW room \in Room
    PROVE  Humans(Recomputed(room)) = Humans(room)
<1>1. Recomputed(room).players = room.players
  BY DEF Recomputed, Room
<1> QED BY <1>1 DEF Humans, Members

\* One player more
LEMMA AppendMembers ==
    ASSUME NEW P, NEW players \in Seq(P), NEW p \in P
    PROVE  Range(Append(players, p)) = Range(players) \cup {p}
<1> DEFINE new == Append(players, p)
<1>1. /\ Len(players) \in Nat /\ DOMAIN players = 1 .. Len(players)
      /\ DOMAIN new = 1 .. Len(players) + 1
      /\ \A i \in 1 .. Len(players) : new[i] = players[i]
      /\ new[Len(players) + 1] = p
  OBVIOUS
<1> HIDE DEF new
<1>2. \A i \in DOMAIN new : i \in DOMAIN players \/ i = Len(players) + 1
  BY <1>1
<1>3. DOMAIN players \subseteq DOMAIN new /\ Len(players) + 1 \in DOMAIN new
  BY <1>1
<1>4. Range(new) = Range(players) \cup {p}
  BY <1>1, <1>2, <1>3 DEF Range
<1> QED BY <1>4 DEF new

\* createRoom
LEMMA NewRoomHumans ==
    ASSUME NEW user \in Users, NEW input
    PROVE  Humans(NewRoom(user, input)) = {user}
<1> DEFINE one == <<user>>
<1>1. DOMAIN one = {1} /\ one[1] = user
  OBVIOUS
<1> HIDE DEF one
<1>2. NewRoom(user, input).players = one
  BY DEF NewRoom, one
<1>3. Range(one) = {user}
  BY <1>1 DEF Range
<1> QED BY <1>2, <1>3 DEF Humans, Members

\* joinRoom
LEMMA JoinedHumans ==
    ASSUME NEW room, Sound(room), NEW user \in Users
    PROVE  Humans(Joined(user, room)) = Humans(room) \cup {user}
<1> DEFINE players == Append(room.players, user)
           next == [room EXCEPT !.players = players]
<1>1. room \in Room /\ room.players \in Seq(Users \cup AIPlayers)
  BY DEF Sound, Seated, Room
<1>2. Joined(user, room) = Recomputed(next)
  BY DEF Joined
<1>3. players \in Seq(Users \cup AIPlayers) /\ Range(players) = Range(room.players) \cup {user}
  BY <1>1, AppendMembers
<1> HIDE DEF players
<1>4. next \in Room /\ next.players = players
  BY <1>1, <1>3 DEF Room
<1> HIDE DEF next
<1>5. Humans(next) = Humans(room) \cup {user}
  BY <1>3, <1>4 DEF Humans, Members
<1> QED BY <1>2, <1>4, <1>5, RecomputedHumans

\* leaveRoom; a room that is deleted has no other human.
LEMMA LeftHumans ==
    ASSUME NEW room, Sound(room), NEW user \in Users, MayLeave(user, room)
    PROVE  HumansOf(Left(user, room)) = Humans(room) \ {user}
<1> DEFINE rest == Without(room, user)
           people == Kept(rest.players, Users)
           next == IF user = room.host
                   THEN [rest EXCEPT !.host = Head(people)] ELSE rest
<1>1. Seated(room)
  BY DEF Sound
<1>2. /\ rest \in Room /\ Range(rest.players) = Members(room) \ {user}
      /\ rest.players \in Seq(Users \cup AIPlayers)
  BY <1>1, WithoutRoom
<1> HIDE DEF rest
<1>3. Humans(rest) = Humans(room) \ {user}
  BY <1>2 DEF Humans, Members
<1>4. Range(people) = Humans(rest)
  BY <1>2, KeptPlayers DEF Humans, Members
<1> HIDE DEF people
<1>5. CASE Left(user, room) = None
  <2>1. \/ rest.players = << >> \/ people = << >>
        \/ Left(user, room) = Recomputed(next)
    BY DEF Left, rest, people
  <2>2. CASE rest.players = << >>
    <3>1. Members(rest) = {}
      BY <2>2 DEF Members, Range
    <3> QED BY <1>3, <1>5, <3>1 DEF Humans, HumansOf
  <2>3. CASE people = << >>
    <3>1. Humans(rest) = {}
      BY <1>4, <2>3 DEF Range
    <3> QED BY <1>3, <1>5, <3>1 DEF HumansOf
  <2>4. CASE ~(rest.players = << >>) /\ ~(people = << >>)
    <3>1. /\ Recomputed(next).players = next.players
          /\ Recomputed(next) # None
      <4>1. PICK host \in Users : Head(people) = host
        <5>1. people \in Seq(Users \cup AIPlayers)
          BY <1>2, KeptPlayers DEF people
        <5>2. 1 \in DOMAIN people /\ Head(people) = people[1]
          BY <2>4, <5>1
        <5>3. Head(people) \in Range(people)
          BY <5>2 DEF Range
        <5> QED BY <1>4, <5>3 DEF Humans
      <4>2. next \in Room
        BY <1>2, <4>1 DEF Room
      <4> HIDE DEF next
      <4>3. ComputeStatus(next) \in Statuses
        BY <4>2 DEF ComputeStatus, Statuses
      <4>4. Recomputed(next) \in Room /\ Recomputed(next).players = next.players
        BY <4>2, <4>3 DEF Recomputed, Room
      <4> QED BY <4>4, NoneAssumption
    <3> QED BY <1>5, <2>1, <2>4, <3>1
  <2> QED BY <2>2, <2>3, <2>4
<1>6. CASE Left(user, room) # None
  <2>1. Left(user, room) = Recomputed(next) /\ ~(user = room.host /\ people = << >>)
    BY <1>6 DEF Left, rest, people
  <2>2. Recomputed(next).players = rest.players
    <3>1. /\ next.players = rest.players /\ DOMAIN next = DOMAIN rest
      BY <1>2 DEF Room
    <3>2. DOMAIN rest = {"host", "players", "ready", "status", "max", "allowAI", "private"}
      BY <1>2 DEF Room
    <3> HIDE DEF next
    <3> QED BY <3>1, <3>2 DEF Recomputed
  <2>3. Humans(Left(user, room)) = Humans(rest)
    BY <2>1, <2>2 DEF Humans, Members
  <2> QED BY <1>3, <1>6, <2>3 DEF HumansOf
<1> QED BY <1>5, <1>6

\* setReady
LEMMA ReadySetHumans ==
    ASSUME NEW room, Sound(room), NEW user \in Users, NEW isReady \in BOOLEAN
    PROVE  Humans(ReadySet(user, isReady, room)) = Humans(room)
<1> DEFINE ready == IF isReady THEN room.ready \cup {user} ELSE room.ready \ {user}
           next == [room EXCEPT !.ready = ready]
<1>1. room \in Room
  BY DEF Sound, Seated
<1>2. ready \subseteq Users
  BY <1>1 DEF Room
<1>3. ReadySet(user, isReady, room) = Recomputed(next)
  BY DEF ReadySet
<1> HIDE DEF ready
<1>4. next \in Room /\ next.players = room.players
  BY <1>1, <1>2 DEF Room
<1> HIDE DEF next
<1>5. Humans(next) = Humans(room)
  BY <1>4 DEF Humans, Members
<1> QED BY <1>3, <1>4, <1>5, RecomputedHumans

\* startGame
LEMMA StartedHumans ==
    ASSUME NEW room, Sound(room)
    PROVE  Humans(Started(room)) = Humans(room)
<1>1. Started(room).players = room.players
  BY DEF Started, Sound, Seated, Room
<1> QED BY <1>1 DEF Humans, Members

\* addAIPlayer
LEMMA AIAddedHumans ==
    ASSUME NEW room, Sound(room), NEW user, NEW d \in Difficulties, MayAddAI(user, room)
    PROVE  Humans(AIAdded(d, room)) = Humans(room)
<1> DEFINE ai == [ai |-> d, n |-> Cardinality(AIs(room)) + 1]
           players == Append(room.players, ai)
           next == [room EXCEPT !.players = players, !.ready = {}]
<1>1. room \in Room /\ room.players \in Seq(Users \cup AIPlayers)
  BY DEF Sound, Seated, Room
<1>2. Cardinality(AIs(room)) \in Nat
  <2>1. DOMAIN room.players = 1 .. Len(room.players) /\ Len(room.players) \in Nat
    BY <1>1
  <2>2. AIs(room) \in SUBSET (1 .. Len(room.players))
    BY <2>1 DEF AIs
  <2> QED BY <2>1, <2>2, Ranks
<1>3. ai \in AIPlayers
  BY <1>2 DEF AIPlayers
<1>4. ai \notin Users
  BY <1>3, LobbyAssumption DEF AIPlayers
<1>5. AIAdded(d, room) = Recomputed(next)
  BY DEF AIAdded
<1> HIDE DEF ai
<1>6. players \in Seq(Users \cup AIPlayers) /\ Range(players) = Range(room.players) \cup {ai}
  BY <1>1, <1>3, AppendMembers
<1> HIDE DEF players
<1>7. next \in Room /\ next.players = players
  BY <1>1, <1>6 DEF Room
<1> HIDE DEF next
<1>8. Humans(next) = Humans(room)
  BY <1>4, <1>6, <1>7 DEF Humans, Members
<1> QED BY <1>5, <1>7, <1>8, RecomputedHumans

\* removePlayer
LEMMA RemovedHumans ==
    ASSUME NEW room, Sound(room), NEW target
    PROVE  Humans(Removed(target, room)) = Humans(room) \ {target}
<1> DEFINE rest == Without(room, target)
<1>1. Seated(room)
  BY DEF Sound
<1>2. rest \in Room /\ Range(rest.players) = Members(room) \ {target}
  BY <1>1, WithoutRoom
<1>3. Removed(target, room) = Recomputed(rest)
  BY DEF Removed
<1> HIDE DEF rest
<1>4. Humans(rest) = Humans(room) \ {target}
  BY <1>2 DEF Humans, Members
<1> QED BY <1>2, <1>3, <1>4, RecomputedHumans

\* updateSettings may drop the AI players.
LEMMA UpdatedHumans ==
    ASSUME NEW room, Sound(room), NEW settings \in Settings
    PROVE  Humans(Updated(settings, room)) = Humans(room)
<1> DEFINE players == IF settings.allowAI THEN room.players ELSE Kept(room.players, Users)
           next == [room EXCEPT !.players = players, !.max = settings.max,
                                !.allowAI = settings.allowAI, !.ready = {}]
<1>1. room \in Room /\ room.players \in Seq(Users \cup AIPlayers)
  BY DEF Sound, Seated, Room
<1>2. settings.max \in Nat \ {0} /\ settings.allowAI \in BOOLEAN
  BY LobbyAssumption
<1>3. /\ players \in Seq(Users \cup AIPlayers)
      /\ Range(players) \cap Users = Range(room.players) \cap Users
  <2>1. CASE settings.allowAI
    BY <1>1, <2>1
  <2>2. CASE ~settings.allowAI
    <3>1. /\ Kept(room.players, Users) \in Seq(Users \cup AIPlayers)
          /\ Range(Kept(room.players, Users)) = Range(room.players) \cap Users
      BY <1>1, KeptPlayers
    <3>2. players = Kept(room.players, Users)
      BY <2>2
    <3> HIDE DEF players
    <3> QED BY <3>1, <3>2
  <2> QED BY <2>1, <2>2
<1>4. Updated(settings, room) = Recomputed(next)
  BY DEF Updated
<1> HIDE DEF players
<1>5. next \in Room /\ next.players = players
  BY <1>1, <1>2, <1>3 DEF Room
<1> HIDE DEF next
<1>6. Humans(next) = Humans(room)
  BY <1>3, <1>5 DEF Humans, Members
<1> QED BY <1>4, <1>5, <1>6, RecomputedHumans

(***************************************************************************)
(* Requests one at a time.  While one is in flight the mappings say who    *)
(* sits where, but for the user whom leaveRoom or removePlayer has already *)
(* cleared; and its copy is what the stored room becomes with the one user *)
(* more or less that the request is about.                                 *)
(***************************************************************************)

SitsIn(rs, u, r) == rs[r] # None /\ u \in Humans(rs[r])

Exact(rs, cs) == \A u \in Users, r \in RoomIds : cs[u] = r <=> SitsIn(rs, u, r)

Cleared(q) ==
    q.kind \in {"leave", "remove"} /\ q.at \in {"save", "delete"} /\ q.user \in Users

HumansAfter(rs, q) ==
    IF q.kind \in {"create", "join"} THEN HumansOf(rs[q.room]) \cup {q.user}
    ELSE IF q.kind \in {"leave", "remove"} THEN HumansOf(rs[q.room]) \ {q.user}
    ELSE HumansOf(rs[q.room])

Fits(rs, cs, q) ==
    /\ \A u \in Users, r \in RoomIds :
          ~(Cleared(q) /\ u = q.user /\ r = q.room) => (cs[u] = r <=> SitsIn(rs, u, r))
    /\ Cleared(q) => cs[q.user] = None
    /\ q.at \in {"current", "room"} => q.kind = "join"
    /\ q.at = "room" \/ (q.kind \in {"create", "join"} /\ q.at = "save")
          => cs[q.user] = None
    /\ q.at \in {"archive", "save", "clear", "delete"} =>
          HumansOf(q.copy) = HumansAfter(rs, q)
    /\ q.at = "clear" => /\ q.user \in Users /\ q.kind \in {"leave", "remove"}
                         /\ cs[q.user] = q.room
    /\ q.at = "delete" => Cleared(q) /\ q.copy = None

\* Ids not drawn yet are nobody's.
Drawn ==
    /\ \A r \in unused : rooms[r] = None
    /\ \A s \in Slots : request[s] # None => request[s].room \notin unused

Alone == \A s, t \in Busy : s = t

Steady ==
    /\ Alone
    /\ Busy = {} => Exact(rooms, current)
    /\ \A s \in Busy : Fits(rooms, current, request[s])

SerialInv ==
    /\ IsFiniteSet(Busy)
    /\ Drawn
    /\ ~disturbed => Steady

\* What the variables of the lobby are, for the lemmas on values
Stored(rs, cs) ==
    /\ rs \in [RoomIds -> Room \cup {None}]
    /\ cs \in [Users -> RoomIds \cup {None}]

\* Unless a mapping is cleared ahead of its room, the two agree.
LEMMA FitsExact ==
    ASSUME NEW rs, NEW cs, NEW q, Fits(rs, cs, q), ~Cleared(q)
    PROVE  Exact(rs, cs)
BY DEF Fits, Exact

\* What a request at a command that writes no room has to be
LEMMA ExactFits ==
    ASSUME NEW rs, NEW cs, NEW q, Exact(rs, cs), ~Cleared(q),
           \/ q.at \in {"session", "rooms", "unlist"}
           \/ q.at = "current" /\ q.kind = "join"
           \/ q.at = "room" /\ q.kind = "join" /\ cs[q.user] = None
           \/ /\ q.at \in {"archive", "save"} /\ HumansOf(q.copy) = HumansAfter(rs, q)
              /\ q.kind \in {"create", "join"} => cs[q.user] = None
           \/ /\ q.at = "clear" /\ HumansOf(q.copy) = HumansAfter(rs, q)
              /\ q.user \in Users /\ q.kind \in {"leave", "remove"} /\ cs[q.user] = q.room
    PROVE  Fits(rs, cs, q)
BY DEF Fits, Exact

\* saveRoom: the mappings of the humans of the copy go with it.
LEMMA SaveExact ==
    ASSUME NEW rs, NEW cs, NEW q, Stored(rs, cs), Fits(rs, cs, q), q.at = "save",
           q.room \in RoomIds, Sound(q.copy),
           NEW next, next = [rs EXCEPT ![q.room] = q.copy],
           NEW map, map = [u \in Users |-> IF u \in Humans(q.copy) THEN q.room ELSE cs[u]]
    PROVE  Exact(next, map)
<1> DEFINE r0 == q.room
           after == Humans(q.copy)
<1>1. q.copy # None /\ after = HumansAfter(rs, q)
  BY SoundIsRoom DEF Fits
<1>2. /\ next[r0] = q.copy /\ \A r \in RoomIds : r # r0 => next[r] = rs[r]
      /\ \A u \in Users : map[u] = IF u \in after THEN r0 ELSE cs[u]
      /\ r0 \in RoomIds /\ None \notin RoomIds
  BY LobbyAssumption DEF Stored
<1>3. \A u \in Users : u \in HumansOf(rs[r0]) <=> SitsIn(rs, u, r0)
  BY DEF HumansOf, SitsIn
<1>4. SUFFICES ASSUME NEW u \in Users, NEW r \in RoomIds
               PROVE  map[u] = r <=> SitsIn(next, u, r)
  BY DEF Exact
<1>5. SitsIn(next, u, r) <=> IF r = r0 THEN u \in after ELSE SitsIn(rs, u, r)
  BY <1>1, <1>2 DEF SitsIn
<1>6. /\ ~(Cleared(q) /\ u = q.user /\ r = r0) => (cs[u] = r <=> SitsIn(rs, u, r))
      /\ ~(Cleared(q) /\ u = q.user) => (cs[u] = r0 <=> SitsIn(rs, u, r0))
      /\ Cleared(q) => cs[q.user] = None
      /\ q.kind \in {"create", "join"} => cs[q.user] = None
  BY <1>2 DEF Fits
<1> HIDE DEF r0, after
<1>7. CASE u \in after
  <2>1. map[u] = r0
    BY <1>2, <1>7
  <2>2. CASE SitsIn(rs, u, r0) /\ ~(Cleared(q) /\ u = q.user)
    BY <1>2, <1>5, <1>6, <1>7, <2>1, <2>2
  <2>3. CASE SitsIn(rs, u, r0) /\ Cleared(q) /\ u = q.user
    <3>1. u \notin after
      BY <1>1, <2>3 DEF HumansAfter, Cleared, r0
    <3> QED BY <1>7, <3>1
  <2>4. CASE ~SitsIn(rs, u, r0)
    <3>1. u \notin HumansOf(rs[r0])
      BY <1>3, <2>4
    <3>2. q.kind \in {"create", "join"} /\ u = q.user
      BY <1>1, <1>7, <3>1 DEF HumansAfter, r0
    <3>3. cs[u] = None /\ ~Cleared(q)
      BY <1>6, <3>2 DEF Cleared
    <3> QED BY <1>2, <1>5, <1>6, <1>7, <2>1, <3>3
  <2> QED BY <2>2, <2>3, <2>4
<1>8. CASE u \notin after
  <2>1. map[u] = cs[u]
    BY <1>2, <1>8
  <2>2. CASE Cleared(q) /\ u = q.user
    BY <1>2, <1>5, <1>6, <1>8, <2>1, <2>2
  <2>3. CASE ~(Cleared(q) /\ u = q.user)
    <3>1. ~SitsIn(rs, u, r0)
      <4>1. SUFFICES ASSUME SitsIn(rs, u, r0) PROVE FALSE
        OBVIOUS
      <4>2. u \in HumansOf(rs[r0])
        BY <1>3, <4>1
      <4>3. q.kind \in {"leave", "remove"} /\ u = q.user
        BY <1>1, <1>8, <4>2 DEF HumansAfter, r0
      <4> QED BY <2>3, <4>3 DEF Cleared
    <3> QED BY <1>2, <1>5, <1>6, <1>8, <2>1, <2>3, <3>1
  <2> QED BY <2>2, <2>3
<1> QED BY <1>7, <1>8

\* clearUserCurrentRoom, ahead of the room
LEMMA ClearFits ==
    ASSUME NEW rs, NEW cs, NEW q \in Request, Stored(rs, cs), Fits(rs, cs, q),
           q.at = "clear", q.room \in RoomIds,
           NEW map, map = [cs EXCEPT ![q.user] = None],
           NEW at, at = IF q.copy = None THEN "delete" ELSE "save"
    PROVE  Fits(rs, map, [q EXCEPT !.at = at])
<1> DEFINE next == [q EXCEPT !.at = at]
<1>1. /\ next.kind = q.kind /\ next.user = q.user /\ next.room = q.room
      /\ next.copy = q.copy /\ next.at = at
  BY AtChanged
<1> HIDE DEF next
<1>2. /\ q.user \in Users /\ q.kind \in {"leave", "remove"}
      /\ cs[q.user] = q.room /\ ~Cleared(q)
      /\ HumansOf(q.copy) = HumansAfter(rs, q)
  BY DEF Fits, Cleared
<1>3. Cleared(next) /\ HumansAfter(rs, next) = HumansAfter(rs, q)
  BY <1>1, <1>2 DEF Cleared, HumansAfter
<1>4. /\ map[q.user] = None /\ None \notin RoomIds
      /\ \A u \in Users : u # q.user => map[u] = cs[u]
  BY <1>2, LobbyAssumption DEF Stored
<1>5. \A u \in Users, r \in RoomIds : cs[u] = r <=> SitsIn(rs, u, r)
  BY <1>2, FitsExact DEF Exact
<1>6. \A u \in Users, r \in RoomIds :
         ~(u = q.user /\ r = q.room) => (map[u] = r <=> SitsIn(rs, u, r))
  BY <1>2, <1>4, <1>5
<1>7. Fits(rs, map, next)
  BY <1>1, <1>2, <1>3, <1>4, <1>6 DEF Fits
<1> QED BY <1>7 DEF next

\* deleteRoom: its last human has been cleared.
LEMMA DeleteExact ==
    ASSUME NEW rs, NEW cs, NEW q, Stored(rs, cs), Fits(rs, cs, q), q.at = "delete",
           q.room \in RoomIds, NEW next, next = [rs EXCEPT ![q.room] = None]
    PROVE  Exact(next, cs)
<1>1. Cleared(q) /\ HumansOf(rs[q.room]) \ {q.user} = {} /\ cs[q.user] = None
  BY DEF Fits, Cleared, HumansAfter, HumansOf
<1>2. /\ next[q.room] = None /\ \A r \in RoomIds : r # q.room => next[r] = rs[r]
      /\ None \notin RoomIds
  BY LobbyAssumption DEF Stored
<1>3. \A u \in Users, r \in RoomIds :
         ~(u = q.user /\ r = q.room) => (cs[u] = r <=> SitsIn(rs, u, r))
  BY DEF Fits
<1>4. \A u \in Users : u # q.user => ~SitsIn(rs, u, q.room)
  BY <1>1 DEF SitsIn, HumansOf
<1>5. \A u \in Users, r \in RoomIds :
         SitsIn(next, u, r) <=> r # q.room /\ SitsIn(rs, u, r)
  BY <1>2 DEF SitsIn
<1> QED BY <1>1, <1>2, <1>3, <1>4, <1>5 DEF Exact

\* A room expires with the mappings to it.
LEMMA ExpireExact ==
    ASSUME NEW rs, NEW cs, Stored(rs, cs), Exact(rs, cs), NEW r \in RoomIds,
           NEW next, next[r] = None, \A x \in RoomIds : x # r => next[x] = rs[x],
           NEW map, \A u \in Users : map[u] = IF cs[u] = r THEN None ELSE cs[u]
    PROVE  Exact(next, map)
<1>1. None \notin RoomIds
  BY LobbyAssumption
<1>2. \A u \in Users, x \in RoomIds : SitsIn(next, u, x) <=> x # r /\ SitsIn(rs, u, x)
  BY DEF SitsIn
<1> QED BY <1>1, <1>2 DEF Exact

\* A finite set of at most one element
LEMMA AtMostOne ==
    ASSUME NEW S, IsFiniteSet(S), ~(Cardinality(S) > 1)
    PROVE  \A s, t \in S : s = t
<1> SUFFICES ASSUME NEW s \in S, NEW t \in S, s # t PROVE FALSE
  OBVIOUS
<1>1. IsFiniteSet({s}) /\ Cardinality({s}) = 1
  BY FS_Singleton
<1>2. t \notin {s} /\ IsFiniteSet({s} \cup {t}) /\ Cardinality({s} \cup {t}) = 2
  BY <1>1, FS_AddElement
<1>3. {s} \cup {t} \subseteq S
  OBVIOUS
<1>4. Cardinality({s} \cup {t}) =< Cardinality(S) /\ Cardinality(S) \in Nat
  BY <1>3, FS_Subset, FS_CardinalityType
<1> QED BY <1>2, <1>4

\* A request begins: there is no other one.
LEMMA BeginsSteady ==
    ASSUME LobbyInv, Steady, Alone', NEW s \in Slots,
           NEW q \in Request, Exact(rooms, current) => Fits(rooms, current, q),
           request[s] = None, request' = [request EXCEPT ![s] = q],
           UNCHANGED <<rooms, current>>
    PROVE  Steady'
<1>1. /\ request'[s] = q /\ q # None
      /\ \A t \in Slots \ {s} : request'[t] = request[t]
  BY NoneAssumption DEF LobbyInv, TypeInv
<1>2. s \in Busy'
  BY <1>1 DEF Busy
<1>3. Busy' = {s}
  BY <1>2 DEF Alone
<1>4. Busy = {}
  BY <1>1, <1>3 DEF Busy
<1>5. Fits(rooms', current', request'[s])
  BY <1>1, <1>4 DEF Steady
<1> QED BY <1>3, <1>5 DEF Steady

\* The request in flight ends, and rooms and mappings agree.
LEMMA EndsSteady ==
    ASSUME LobbyInv, Steady, NEW s \in Slots, request[s] # None, Ends(s),
           Exact(rooms', current')
    PROVE  Steady'
<1>1. request'[s] = None /\ \A t \in Slots \ {s} : request'[t] = request[t]
  BY DEF LobbyInv, TypeInv, Ends
<1>2. Busy = {s}
  BY DEF Steady, Alone, Busy
<1>3. Busy' = {}
  BY <1>1, <1>2 DEF Busy
<1> QED BY <1>3 DEF Steady, Alone

\* The request in flight goes on.
LEMMA GoesSteady ==
    ASSUME LobbyInv, Steady, NEW s \in Slots, request[s] # None,
           NEW q \in Request, request' = [request EXCEPT ![s] = q],
           Fits(rooms', current', q)
    PROVE  Steady'
<1>1. /\ request'[s] = q /\ q # None
      /\ \A t \in Slots \ {s} : request'[t] = request[t]
  BY NoneAssumption DEF LobbyInv, TypeInv
<1>2. Busy = {s}
  BY DEF Steady, Alone, Busy
<1>3. Busy' = {s}
  BY <1>1, <1>2 DEF Busy
<1> QED BY <1>1, <1>3 DEF Steady, Alone

\* The request in flight fits.
LEMMA InFlight ==
    ASSUME LobbyInv, Steady, NEW s \in Slots, NEW at, At(s, at)
    PROVE  /\ request[s] \in Request /\ request[s] # None /\ request[s].at = at
           /\ Carries(request[s]) /\ Fits(rooms, current, request[s])
           /\ Stored(rooms, current)
BY InSlot DEF Steady, Busy, At, Stored, LobbyInv, TypeInv

\* A copy that is decided on at once
LEMMA DecidesSteady ==
    ASSUME LobbyInv, Steady, Alone', NEW s \in Slots, NEW kind \in Kinds,
           NEW gone \in Users \cup AIPlayers, NEW r \in RoomIds,
           NEW at \in {"archive", "clear", "save"}, NEW copy,
           copy = None \/ Sound(copy),
           Begins(s, kind, gone, r, at, copy),
           at = "save" /\ kind \in {"leave", "remove"} => gone \notin Users,
           kind \in {"create", "join"} => at = "save" /\ current[gone] = None,
           at = "clear" => gone \in Users /\ kind \in {"leave", "remove"}
                           /\ Exists(r) /\ gone \in Humans(rooms[r]),
           HumansOf(copy) = IF kind \in {"create", "join"}
                            THEN HumansOf(rooms[r]) \cup {gone}
                            ELSE IF kind \in {"leave", "remove"}
                            THEN HumansOf(rooms[r]) \ {gone}
                            ELSE HumansOf(rooms[r])
    PROVE  Steady'
<1> DEFINE q == [kind |-> kind, user |-> gone, room |-> r, at |-> at, copy |-> copy]
<1>1. /\ q.kind = kind /\ q.user = gone /\ q.room = r /\ q.at = at /\ q.copy = copy
  OBVIOUS
<1>2. q \in Request
  BY DEF Request, Places, Sound, Seated
<1>3. /\ request[s] = None /\ request' = [request EXCEPT ![s] = q]
      /\ UNCHANGED <<rooms, current>>
  BY DEF Begins
<1> HIDE DEF q
<1>4. ~Cleared(q) /\ HumansOf(q.copy) = HumansAfter(rooms, q)
  BY <1>1 DEF Cleared, HumansAfter
<1>5. ASSUME Exact(rooms, current), at = "clear"
      PROVE  current[gone] = r
  BY <1>5 DEF Exact, SitsIn, Exists
<1>6. Exact(rooms, current) => Fits(rooms, current, q)
  BY <1>1, <1>4, <1>5, ExactFits
<1> QED BY <1>2, <1>3, <1>6, BeginsSteady

\* createRoom
LEMMA CreateRoomSteady ==
    ASSUME LobbyInv, Drawn, Steady, Alone', NEW s \in Slots, CreateRoom(s)
    PROVE  Steady'
<1>1. PICK user \in Users, r \in unused, input \in Inputs :
         /\ current[user] = None
         /\ Begins(s, "create", user, r, "save", NewRoom(user, input))
  BY DEF CreateRoom
<1>2. r \in RoomIds /\ rooms[r] = None
  BY DEF LobbyInv, TypeInv, Drawn
<1>3. Sound(NewRoom(user, input)) /\ Humans(NewRoom(user, input)) = {user}
  BY NewRoomSound, NewRoomHumans
<1>4. /\ HumansOf(NewRoom(user, input)) = {user}
      /\ HumansOf(rooms[r]) \cup {user} = {user}
  BY <1>2, <1>3, SoundIsRoom DEF HumansOf
<1> HIDE DEF NewRoom
<1> QED BY <1>1, <1>2, <1>3, <1>4, DecidesSteady DEF Kinds

\* joinRoom begins by reading.
LEMMA JoinRoomSteady ==
    ASSUME LobbyInv, Steady, Alone', NEW s \in Slots, JoinRoom(s)
    PROVE  Steady'
<1>1. PICK user \in Users, r \in RoomIds, at \in {"current", "room"} :
         /\ Begins(s, "join", user, r, at, None)
         /\ at = "room" => current[user] = None
  BY DEF JoinRoom
<1> DEFINE q == [kind |-> "join", user |-> user, room |-> r, at |-> at, copy |-> None]
<1>2. /\ q.kind = "join" /\ q.user = user /\ q.at = at
      /\ q \in Request
  BY DEF Request, Kinds, Places
<1>3. /\ request[s] = None /\ request' = [request EXCEPT ![s] = q]
      /\ UNCHANGED <<rooms, current>>
  BY <1>1 DEF Begins
<1> HIDE DEF q
<1>4. Exact(rooms, current) => Fits(rooms, current, q)
  BY <1>1, <1>2, ExactFits DEF Cleared
<1> QED BY <1>2, <1>3, <1>4, BeginsSteady

\* leaveRoom
LEMMA LeaveRoomSteady ==
    ASSUME LobbyInv, Steady, Alone', NEW s \in Slots, LeaveRoom(s)
    PROVE  Steady'
<1>1. PICK user \in Users, r \in RoomIds :
         /\ Exists(r) /\ MayLeave(user, rooms[r])
         /\ Begins(s, "leave", user, r, "clear", Left(user, rooms[r]))
  BY DEF LeaveRoom
<1>2. Sound(rooms[r]) /\ HumansOf(rooms[r]) = Humans(rooms[r])
  BY <1>1, RoomRead, SoundIsRoom
<1>3. /\ Left(user, rooms[r]) = None \/ Sound(Left(user, rooms[r]))
      /\ HumansOf(Left(user, rooms[r])) = HumansOf(rooms[r]) \ {user}
  BY <1>1, <1>2, LeftSound, LeftHumans
<1>4. user \in Humans(rooms[r])
  BY <1>1 DEF MayLeave, Humans
<1> QED BY <1>1, <1>3, <1>4, DecidesSteady DEF Kinds

\* setReady, startGame, addAIPlayer, updateSettings: the humans stay.
LEMMA SameHumansSteady ==
    ASSUME LobbyInv, Steady, Alone', NEW s \in Slots, NEW user \in Users, NEW r \in RoomIds,
           NEW kind \in {"ready", "start", "addAI", "update"},
           NEW at \in {"archive", "save"}, NEW copy, Sound(copy),
           Begins(s, kind, user, r, at, copy),
           Exists(r), Humans(copy) = Humans(rooms[r])
    PROVE  Steady'
<1>1. HumansOf(copy) = HumansOf(rooms[r])
  BY RoomRead, SoundIsRoom
<1> QED BY <1>1, DecidesSteady DEF Kinds

\* setReady
LEMMA SetReadySteady ==
    ASSUME LobbyInv, Steady, Alone', NEW s \in Slots, SetReady(s)
    PROVE  Steady'
<1>1. PICK user \in Users, r \in RoomIds, isReady \in BOOLEAN :
         /\ Exists(r)
         /\ Begins(s, "ready", user, r, "save", ReadySet(user, isReady, rooms[r]))
  BY DEF SetReady
<1>2. /\ Sound(ReadySet(user, isReady, rooms[r]))
      /\ Humans(ReadySet(user, isReady, rooms[r])) = Humans(rooms[r])
  BY <1>1, RoomRead, ReadySetSound, ReadySetHumans
<1> QED BY <1>1, <1>2, SameHumansSteady

\* startGame begins with archiveRoom.
LEMMA StartGameSteady ==
    ASSUME LobbyInv, Steady, Alone', NEW s \in Slots, StartGame(s)
    PROVE  Steady'
<1>1. PICK user \in Users, r \in RoomIds :
         Exists(r) /\ Begins(s, "start", user, r, "archive", Started(rooms[r]))
  BY DEF StartGame
<1>2. Sound(Started(rooms[r])) /\ Humans(Started(rooms[r])) = Humans(rooms[r])
  BY <1>1, RoomRead, StartedSound, StartedHumans
<1> QED BY <1>1, <1>2, SameHumansSteady

\* addAIPlayer
LEMMA AddAIPlayerSteady ==
    ASSUME LobbyInv, Steady, Alone', NEW s \in Slots, AddAIPlayer(s)
    PROVE  Steady'
<1>1. PICK user \in Users, r \in RoomIds, d \in Difficulties :
         /\ Exists(r) /\ MayAddAI(user, rooms[r])
         /\ Begins(s, "addAI", user, r, "save", AIAdded(d, rooms[r]))
  BY DEF AddAIPlayer
<1>2. Sound(AIAdded(d, rooms[r])) /\ Humans(AIAdded(d, rooms[r])) = Humans(rooms[r])
  BY <1>1, RoomRead, AIAddedSound, AIAddedHumans
<1> QED BY <1>1, <1>2, SameHumansSteady

\* updateSettings
LEMMA UpdateSettingsSteady ==
    ASSUME LobbyInv, Steady, Alone', NEW s \in Slots, UpdateSettings(s)
    PROVE  Steady'
<1>1. PICK user \in Users, r \in RoomIds, settings \in Settings :
         /\ Exists(r) /\ MayUpdate(user, settings, rooms[r])
         /\ Begins(s, "update", user, r, "save", Updated(settings, rooms[r]))
  BY DEF UpdateSettings
<1>2. /\ Sound(Updated(settings, rooms[r]))
      /\ Humans(Updated(settings, rooms[r])) = Humans(rooms[r])
  BY <1>1, RoomRead, UpdatedSound, UpdatedHumans
<1> QED BY <1>1, <1>2, SameHumansSteady

\* removePlayer, of a human or of an AI player
LEMMA RemovePlayerSteady ==
    ASSUME LobbyInv, Steady, Alone', NEW s \in Slots, RemovePlayer(s)
    PROVE  Steady'
<1>1. PICK user \in Users, r \in RoomIds :
         /\ Exists(r)
         /\ \E target \in Members(rooms[r]) :
               /\ MayRemove(user, target, rooms[r])
               /\ Begins(s, "remove", target, r,
                         IF target \in Users THEN "clear" ELSE "save",
                         Removed(target, rooms[r]))
  BY DEF RemovePlayer
<1>2. PICK target \in Members(rooms[r]), at \in {"clear", "save"} :
         /\ MayRemove(user, target, rooms[r])
         /\ at = "clear" <=> target \in Users
         /\ Begins(s, "remove", target, r, at, Removed(target, rooms[r]))
  BY <1>1
<1>3. Sound(rooms[r]) /\ rooms[r] \in Room /\ HumansOf(rooms[r]) = Humans(rooms[r])
  BY <1>1, RoomRead, SoundIsRoom
<1>4. /\ Sound(Removed(target, rooms[r]))
      /\ HumansOf(Removed(target, rooms[r])) = HumansOf(rooms[r]) \ {target}
  BY <1>2, <1>3, RemovedSound, RemovedHumans, SoundIsRoom
<1>5. target \in Users \cup AIPlayers
  <2>1. rooms[r].players \in Seq(Users \cup AIPlayers)
    BY <1>3 DEF Room
  <2>2. \A i \in DOMAIN rooms[r].players : rooms[r].players[i] \in Users \cup AIPlayers
    BY <2>1
  <2> QED BY <2>2 DEF Members, Range
<1>6. at = "clear" => target \in Humans(rooms[r])
  BY <1>2 DEF Humans
<1> QED BY <1>1, <1>2, <1>4, <1>5, <1>6, DecidesSteady DEF Kinds

\* listPublicRooms carries no copy of a room.
LEMMA ListRoomsSteady ==
    ASSUME LobbyInv, Steady, Alone', NEW s \in Slots, ListRooms(s)
    PROVE  Steady'
<1> DEFINE q == [kind |-> "list", user |-> None, room |-> None, at |-> "rooms",
                 copy |-> public]
<1>1. /\ request[s] = None /\ request' = [request EXCEPT ![s] = q]
      /\ UNCHANGED <<rooms, current>>
  BY DEF ListRooms, Begins
<1>2. q \in Request /\ q.kind = "list" /\ q.at = "rooms"
  BY DEF Request, Kinds, Places, LobbyInv, TypeInv
<1> HIDE DEF q
<1>3. Exact(rooms, current) => Fits(rooms, current, q)
  BY <1>2, ExactFits DEF Cleared
<1> QED BY <1>1, <1>2, <1>3, BeginsSteady

\* The mapping has been read.
LEMMA ReadCurrentSteady ==
    ASSUME LobbyInv, Steady, NEW s \in Slots, ReadCurrent(s)
    PROVE  Steady'
<1> DEFINE q == request[s]
           next == [q EXCEPT !.at = "room"]
<1>1. /\ q \in Request /\ q # None /\ q.at = "current" /\ Carries(q)
      /\ Fits(rooms, current, q) /\ Stored(rooms, current)
      /\ UNCHANGED <<rooms, current>>
  BY InFlight DEF ReadCurrent
<1>2. q.kind = "join" /\ q.user \in Users /\ Exact(rooms, current)
  BY <1>1, FitsExact DEF Fits, Cleared, Carries
<1>3. CASE Ends(s)
  BY <1>1, <1>2, <1>3, EndsSteady
<1>4. CASE current[q.user] = None /\ Goes(s, "room")
  <2>1. /\ next \in Request /\ next.kind = "join" /\ next.at = "room" /\ next.user = q.user
    BY <1>1, <1>2 DEF Request, Places
  <2>2. request' = [request EXCEPT ![s] = next]
    BY <1>4 DEF Goes
  <2> HIDE DEF next
  <2>3. Fits(rooms, current, next)
    BY <1>2, <1>4, <2>1, ExactFits DEF Cleared
  <2> QED BY <1>1, <2>1, <2>2, <2>3, GoesSteady
<1> QED BY <1>3, <1>4 DEF ReadCurrent

\* The room is read, and the copy with the new player decided on.
LEMMA ReadRoomSteady ==
    ASSUME LobbyInv, Steady, NEW s \in Slots, ReadRoom(s)
    PROVE  Steady'
<1> DEFINE q == request[s]
           copy == Joined(q.user, rooms[q.room])
           next == [q EXCEPT !.at = "save", !.copy = copy]
<1>1. /\ q \in Request /\ q # None /\ q.at = "room" /\ Carries(q)
      /\ Fits(rooms, current, q) /\ Stored(rooms, current)
      /\ UNCHANGED <<rooms, current>>
  BY InFlight DEF ReadRoom
<1>2. /\ q.kind = "join" /\ q.user \in Users /\ q.room \in RoomIds
      /\ Exact(rooms, current) /\ current[q.user] = None
  BY <1>1, FitsExact DEF Fits, Cleared, Carries
<1>3. CASE Ends(s)
  BY <1>1, <1>2, <1>3, EndsSteady
<1>4. CASE /\ Exists(q.room) /\ MayJoin(q.user, rooms[q.room])
           /\ request' = [request EXCEPT ![s].at = "save", ![s].copy = copy]
  <2>1. Sound(rooms[q.room]) /\ HumansOf(rooms[q.room]) = Humans(rooms[q.room])
    BY <1>2, <1>4, RoomRead, SoundIsRoom
  <2>2. /\ Sound(copy) /\ copy \in Room
        /\ HumansOf(copy) = HumansOf(rooms[q.room]) \cup {q.user}
    BY <1>2, <1>4, <2>1, JoinedSound, JoinedHumans, SoundIsRoom
  <2>3. request' = [request EXCEPT ![s] = next]
    BY <1>4 DEF LobbyInv, TypeInv
  <2> HIDE DEF copy
  <2>4. /\ next \in Request /\ next.kind = "join" /\ next.at = "save"
        /\ next.user = q.user /\ next.room = q.room /\ next.copy = copy
    BY <1>1, <1>2, <2>2 DEF Request, Places
  <2> HIDE DEF next
  <2>5. HumansOf(next.copy) = HumansAfter(rooms, next)
    BY <2>2, <2>4 DEF HumansAfter
  <2>6. Fits(rooms, current, next)
    BY <1>2, <2>4, <2>5, ExactFits DEF Cleared
  <2> QED BY <1>1, <2>3, <2>4, <2>6, GoesSteady
<1> QED BY <1>3, <1>4 DEF ReadRoom

\* The mapping of the one who leaves is cleared.
LEMMA ClearCurrentSteady ==
    ASSUME LobbyInv, Steady, NEW s \in Slots, ClearCurrent(s)
    PROVE  Steady'
<1> DEFINE q == request[s]
           at == IF q.copy = None THEN "delete" ELSE "save"
           next == [q EXCEPT !.at = at]
<1>1. /\ q \in Request /\ q # None /\ q.at = "clear" /\ Carries(q)
      /\ Fits(rooms, current, q) /\ Stored(rooms, current)
      /\ rooms' = rooms /\ current' = [current EXCEPT ![q.user] = None] /\ Goes(s, at)
  BY InFlight DEF ClearCurrent
<1>2. q.room \in RoomIds
  BY <1>1 DEF Carries
<1>3. Fits(rooms, current', next)
  BY <1>1, <1>2, ClearFits
<1>4. next \in Request
  BY <1>1 DEF Request, Places
<1>5. request' = [request EXCEPT ![s] = next]
  BY <1>1 DEF Goes
<1> HIDE DEF next
<1> QED BY <1>1, <1>3, <1>4, <1>5, GoesSteady

\* archiveRoom; a room that is archived already goes no further.
LEMMA ArchiveRoomSteady ==
    ASSUME LobbyInv, Steady, NEW s \in Slots, ArchiveRoom(s)
    PROVE  Steady'
<1> DEFINE q == request[s]
           next == [q EXCEPT !.at = "save"]
<1>1. /\ q \in Request /\ q # None /\ q.at = "archive" /\ Carries(q)
      /\ Fits(rooms, current, q) /\ Stored(rooms, current)
      /\ UNCHANGED <<rooms, current>>
  BY InFlight DEF ArchiveRoom
<1>2. /\ q.kind = "start" /\ Exact(rooms, current)
      /\ HumansOf(q.copy) = HumansAfter(rooms, q)
  BY <1>1, FitsExact DEF Fits, Cleared, Carries
<1>3. CASE Ends(s)
  BY <1>1, <1>2, <1>3, EndsSteady
<1>4. CASE Goes(s, "save")
  <2>1. /\ next \in Request /\ next.kind = q.kind /\ next.at = "save"
        /\ next.room = q.room /\ next.copy = q.copy
    BY <1>1 DEF Request, Places
  <2>2. request' = [request EXCEPT ![s] = next]
    BY <1>4 DEF Goes
  <2> HIDE DEF next
  <2>3. HumansOf(next.copy) = HumansAfter(rooms, next)
    BY <1>2, <2>1 DEF HumansAfter
  <2>4. Fits(rooms, current, next)
    BY <1>2, <2>1, <2>3, ExactFits DEF Cleared
  <2> QED BY <1>1, <2>1, <2>2, <2>4, GoesSteady
<1> QED BY <1>3, <1>4 DEF ArchiveRoom

\* saveRoom
LEMMA SaveRoomSteady ==
    ASSUME LobbyInv, Steady, NEW s \in Slots, SaveRoom(s)
    PROVE  Steady'
<1> DEFINE q == request[s]
           next == [q EXCEPT !.at = "session"]
<1>1. /\ q \in Request /\ q # None /\ q.at = "save" /\ Carries(q)
      /\ Fits(rooms, current, q) /\ Stored(rooms, current)
      /\ rooms' = [rooms EXCEPT ![q.room] = q.copy]
      /\ current' = [u \in Users |-> IF u \in Humans(q.copy) THEN q.room ELSE current[u]]
      /\ IF q.kind = "start" THEN Goes(s, "session") ELSE Ends(s)
  BY InFlight DEF SaveRoom
<1>2. q.room \in RoomIds /\ Sound(q.copy)
  BY <1>1 DEF Carries
<1> HIDE DEF q
<1>3. Exact(rooms', current')
  BY <1>1, <1>2, SaveExact
<1>4. CASE Ends(s)
  BY <1>1, <1>3, <1>4, EndsSteady DEF q
<1>5. CASE q.kind = "start" /\ Goes(s, "session")
  <2>1. next \in Request /\ next.kind = "start" /\ next.at = "session"
    BY <1>1, <1>5 DEF Request, Places
  <2>2. request' = [request EXCEPT ![s] = next]
    BY <1>5 DEF Goes, q
  <2> HIDE DEF next
  <2>3. Fits(rooms', current', next)
    BY <1>3, <2>1, ExactFits DEF Cleared
  <2> QED BY <1>1, <2>1, <2>2, <2>3, GoesSteady DEF q
<1> QED BY <1>1, <1>4, <1>5

\* deleteRoom
LEMMA DeleteRoomSteady ==
    ASSUME LobbyInv, Steady, NEW s \in Slots, DeleteRoom(s)
    PROVE  Steady'
<1> DEFINE q == request[s]
<1>1. /\ q \in Request /\ q # None /\ q.at = "delete" /\ Carries(q)
      /\ Fits(rooms, current, q) /\ Stored(rooms, current)
      /\ rooms' = [rooms EXCEPT ![q.room] = None] /\ current' = current /\ Ends(s)
  BY InFlight DEF DeleteRoom
<1>2. q.room \in RoomIds
  BY <1>1 DEF Carries
<1>3. Exact(rooms', current')
  BY <1>1, <1>2, DeleteExact
<1> QED BY <1>1, <1>3, EndsSteady

\* createGameSession and the public list touch neither rooms nor mappings.
LEMMA CreateSessionSteady ==
    ASSUME LobbyInv, Steady, NEW s \in Slots, CreateSession(s) \/ Unlist(s)
    PROVE  Steady'
<1>1. PICK at \in {"session", "unlist"} :
         At(s, at) /\ Ends(s) /\ UNCHANGED <<rooms, current>>
  BY DEF CreateSession, Unlist
<1>2. /\ request[s] # None /\ ~Cleared(request[s]) /\ Fits(rooms, current, request[s])
  BY <1>1, InFlight DEF Cleared
<1>3. Exact(rooms', current')
  BY <1>1, <1>2, FitsExact
<1> QED BY <1>1, <1>2, <1>3, EndsSteady

\* The rooms of the public list are read.
LEMMA ReadRoomsSteady ==
    ASSUME LobbyInv, Steady, NEW s \in Slots, ReadRooms(s)
    PROVE  Steady'
<1> DEFINE q == request[s]
           stale == Stale(q.copy)
           next == [q EXCEPT !.at = "unlist", !.copy = stale]
<1>1. /\ q \in Request /\ q # None /\ q.at = "rooms" /\ Carries(q)
      /\ Fits(rooms, current, q)
      /\ UNCHANGED <<rooms, current>>
  BY InFlight DEF ReadRooms
<1>2. Exact(rooms, current) /\ stale \subseteq RoomIds
  BY <1>1, FitsExact DEF Cleared, Carries, Stale
<1>3. CASE Ends(s)
  BY <1>1, <1>2, <1>3, EndsSteady
<1>4. CASE request' = [request EXCEPT ![s].at = "unlist", ![s].copy = stale]
  <2>1. request' = [request EXCEPT ![s] = next]
    BY <1>4 DEF LobbyInv, TypeInv
  <2> HIDE DEF stale
  <2>2. next \in Request /\ next.at = "unlist"
    BY <1>1, <1>2 DEF Request, Places
  <2> HIDE DEF next
  <2>3. Fits(rooms, current, next)
    BY <1>2, <2>2, ExactFits DEF Cleared
  <2> QED BY <1>1, <2>1, <2>2, <2>3, GoesSteady
<1> QED BY <1>3, <1>4 DEF ReadRooms

\* Between requests a room expires with its mappings.
LEMMA ExpireSteady ==
    ASSUME LobbyInv, Steady, Busy = {}, NEW r \in RoomIds, Expire(r)
    PROVE  Steady'
<1>1. Busy' = {}
  BY DEF Expire, Busy
<1>2. Exact(rooms, current) /\ Stored(rooms, current)
  BY DEF Steady, Stored, LobbyInv, TypeInv
<1>3. /\ rooms'[r] = None /\ \A x \in RoomIds : x # r => rooms'[x] = rooms[x]
      /\ \A u \in Users : current'[u] = IF current[u] = r THEN None ELSE current[u]
  BY <1>2 DEF Expire, Stored
<1>4. Exact(rooms', current')
  BY <1>2, <1>3, ExpireExact
<1> QED BY <1>1, <1>4 DEF Steady, Alone

\* No mapping outlives its room, and one that says nothing may be cleared.
LEMMA MappingSteady ==
    ASSUME LobbyInv, Steady, NEW u \in Users,
           ExpireMapping(u) \/ (current[u] = None /\ Logout(u))
    PROVE  Steady'
<1>1. current[u] # None => Exists(current[u]) /\ u \in Humans(rooms[current[u]])
  <2> SUFFICES ASSUME current[u] # None
               PROVE  Exists(current[u]) /\ u \in Humans(rooms[current[u]])
    OBVIOUS
  <2>1. current[u] \in RoomIds
    BY DEF LobbyInv, TypeInv
  <2>2. CASE Busy = {}
    BY <2>1, <2>2 DEF Steady, Exact, SitsIn, Exists
  <2>3. ASSUME NEW s \in Busy PROVE Exists(current[u]) /\ u \in Humans(rooms[current[u]])
    <3>1. Fits(rooms, current, request[s])
      BY DEF Steady
    <3>2. ~(Cleared(request[s]) /\ u = request[s].user)
      BY <3>1 DEF Fits
    <3> QED BY <2>1, <3>1, <3>2 DEF Fits, SitsIn, Exists
  <2> QED BY <2>2, <2>3
<1>2. current[u] = None
  BY <1>1 DEF ExpireMapping
<1>3. current' = current /\ UNCHANGED <<rooms, request>>
  BY <1>2 DEF ExpireMapping, Logout, LobbyInv, TypeInv
<1> QED BY <1>3 DEF Steady, Alone, Busy

\* Every step that disturbs nothing
LEMMA NextSteady ==
    ASSUME LobbyInv, Drawn, Steady, Next, Alone',
           ~(Busy # {} /\ \E s \in Slots : Fail(s)),
           ~(Busy # {} /\ \E r \in RoomIds : Expire(r)),
           ~(\E u \in Users : current[u] # None /\ Logout(u))
    PROVE  Steady'
<1>1. ASSUME NEW s \in Slots,
             \/ CreateRoom(s) \/ JoinRoom(s) \/ LeaveRoom(s) \/ SetReady(s)
             \/ StartGame(s) \/ AddAIPlayer(s) \/ RemovePlayer(s)
             \/ UpdateSettings(s) \/ ListRooms(s)
      PROVE  Steady'
  BY <1>1, CreateRoomSteady, JoinRoomSteady, LeaveRoomSteady, SetReadySteady,
     StartGameSteady, AddAIPlayerSteady, RemovePlayerSteady, UpdateSettingsSteady,
     ListRoomsSteady
<1>2. ASSUME NEW s \in Slots, Serves(s)
      PROVE  Steady'
  BY <1>2, ReadCurrentSteady, ReadRoomSteady, ClearCurrentSteady, ArchiveRoomSteady,
     SaveRoomSteady, DeleteRoomSteady, CreateSessionSteady, ReadRoomsSteady DEF Serves
<1>3. ASSUME NEW s \in Slots, Fail(s)
      PROVE  Steady'
  BY <1>3 DEF Fail, Busy
<1>4. ASSUME NEW r \in RoomIds, Expire(r)
      PROVE  Steady'
  BY <1>4, ExpireSteady
<1>5. ASSUME NEW u \in Users, ExpireMapping(u) \/ Logout(u)
      PROVE  Steady'
  BY <1>5, MappingSteady
<1> QED BY <1>1, <1>2, <1>3, <1>4, <1>5 DEF Next


\* A request begins with a room whose id has been drawn.
LEMMA BeginsDrawn ==
    ASSUME LobbyInv, Drawn, NEW s \in Slots,
           NEW kind, NEW gone, NEW r, NEW at, NEW copy,
           Begins(s, kind, gone, r, at, copy), r \notin unused', unused' \subseteq unused
    PROVE  Drawn' /\ \A t \in Slots \ {s} : request'[t] = request[t]
<1> DEFINE q == [kind |-> kind, user |-> gone, room |-> r, at |-> at, copy |-> copy]
<1>1. q.room = r
  OBVIOUS
<1>2. request' = [request EXCEPT ![s] = q] /\ rooms' = rooms
  BY DEF Begins
<1> HIDE DEF q
<1>3. request'[s] = q /\ \A t \in Slots \ {s} : request'[t] = request[t]
  BY <1>2 DEF LobbyInv, TypeInv
<1> QED BY <1>1, <1>2, <1>3 DEF Drawn

\* Only createRoom draws an id; listPublicRooms is about no room.
LEMMA RequestDrawn ==
    ASSUME LobbyInv, Drawn, NEW s \in Slots,
           \/ CreateRoom(s) \/ JoinRoom(s) \/ LeaveRoom(s) \/ SetReady(s)
           \/ StartGame(s) \/ AddAIPlayer(s) \/ RemovePlayer(s)
           \/ UpdateSettings(s) \/ ListRooms(s)
    PROVE  Drawn' /\ \A t \in Slots \ {s} : request'[t] = request[t]
<1>1. CASE CreateRoom(s)
  <2>1. PICK user \in Users, r \in unused, input \in Inputs :
           /\ Begins(s, "create", user, r, "save", NewRoom(user, input))
           /\ unused' = unused \ {r}
    BY <1>1 DEF CreateRoom
  <2> QED BY <2>1, BeginsDrawn
<1>2. CASE JoinRoom(s)
  <2>1. PICK user \in Users, r \in RoomIds \ unused, at \in {"current", "room"} :
           Begins(s, "join", user, r, at, None) /\ unused' = unused
    BY <1>2 DEF JoinRoom
  <2> QED BY <2>1, BeginsDrawn
<1>3. CASE LeaveRoom(s)
  <2>1. PICK user \in Users, r \in RoomIds \ unused :
           Begins(s, "leave", user, r, "clear", Left(user, rooms[r])) /\ unused' = unused
    BY <1>3 DEF LeaveRoom
  <2> QED BY <2>1, BeginsDrawn
<1>4. CASE SetReady(s)
  <2>1. PICK user \in Users, r \in RoomIds \ unused, isReady \in BOOLEAN :
           /\ Begins(s, "ready", user, r, "save", ReadySet(user, isReady, rooms[r]))
           /\ unused' = unused
    BY <1>4 DEF SetReady
  <2> QED BY <2>1, BeginsDrawn
<1>5. CASE StartGame(s)
  <2>1. PICK user \in Users, r \in RoomIds \ unused :
           Begins(s, "start", user, r, "archive", Started(rooms[r])) /\ unused' = unused
    BY <1>5 DEF StartGame
  <2> QED BY <2>1, BeginsDrawn
<1>6. CASE AddAIPlayer(s)
  <2>1. PICK user \in Users, r \in RoomIds \ unused, d \in Difficulties :
           Begins(s, "addAI", user, r, "save", AIAdded(d, rooms[r])) /\ unused' = unused
    BY <1>6 DEF AddAIPlayer
  <2> QED BY <2>1, BeginsDrawn
<1>7. CASE RemovePlayer(s)
  <2>1. PICK user \in Users, r \in RoomIds \ unused :
           /\ \E target \in Members(rooms[r]) :
                 Begins(s, "remove", target, r,
                        IF target \in Users THEN "clear" ELSE "save",
                        Removed(target, rooms[r]))
           /\ unused' = unused
    BY <1>7 DEF RemovePlayer
  <2> QED BY <2>1, BeginsDrawn
<1>8. CASE UpdateSettings(s)
  <2>1. PICK user \in Users, r \in RoomIds \ unused, settings \in Settings :
           /\ Begins(s, "update", user, r, "save", Updated(settings, rooms[r]))
           /\ unused' = unused
    BY <1>8 DEF UpdateSettings
  <2> QED BY <2>1, BeginsDrawn
<1>9. CASE ListRooms(s)
  <2>1. Begins(s, "list", None, None, "rooms", public) /\ unused' = unused
    BY <1>9 DEF ListRooms
  <2>2. None \notin unused
    BY LobbyAssumption DEF LobbyInv, TypeInv
  <2> QED BY <2>1, <2>2, BeginsDrawn
<1> QED BY <1>1, <1>2, <1>3, <1>4, <1>5, <1>6, <1>7, <1>8, <1>9

\* A request that goes on keeps to its room.
LEMMA ServesDrawn ==
    ASSUME LobbyInv, Drawn, NEW s \in Slots, Serves(s) \/ Fail(s)
    PROVE  Drawn' /\ \A t \in Slots \ {s} : request'[t] = request[t]
<1> DEFINE q == request[s]
<1>1. q # None /\ UNCHANGED unused
  BY DEF Serves, At, Fail, ReadCurrent, ReadRoom, ClearCurrent, ArchiveRoom, SaveRoom,
         DeleteRoom, CreateSession, ReadRooms, Unlist
<1>2. q \in Request
  BY <1>1 DEF LobbyInv, TypeInv
<1>3. \/ Ends(s) \/ \E at : Goes(s, at)
      \/ \E at, copy : request' = [request EXCEPT ![s].at = at, ![s].copy = copy]
  BY DEF Serves, Fail, ReadCurrent, ReadRoom, ClearCurrent, ArchiveRoom, SaveRoom,
         DeleteRoom, CreateSession, ReadRooms, Unlist
<1>4. /\ request'[s] # None => request'[s].room = q.room
      /\ \A t \in Slots \ {s} : request'[t] = request[t]
  <2>1. request \in [Slots -> Request \cup {None}]
    BY DEF LobbyInv, TypeInv
  <2>2. CASE Ends(s)
    BY <2>1, <2>2 DEF Ends
  <2>3. ASSUME NEW at, Goes(s, at)
        PROVE  /\ request'[s] # None => request'[s].room = q.room
               /\ \A t \in Slots \ {s} : request'[t] = request[t]
    BY <1>2, <2>1, <2>3 DEF Goes, Request
  <2>4. ASSUME NEW at, NEW copy,
               request' = [request EXCEPT ![s].at = at, ![s].copy = copy]
        PROVE  /\ request'[s] # None => request'[s].room = q.room
               /\ \A t \in Slots \ {s} : request'[t] = request[t]
    BY <1>2, <2>1, <2>4 DEF Request
  <2> QED BY <1>3, <2>2, <2>3, <2>4
<1>5. \A r \in unused : rooms'[r] = None
  <2>1. unused \subseteq RoomIds /\ rooms \in [RoomIds -> Room \cup {None}]
    BY DEF LobbyInv, TypeInv
  <2>2. q.room \notin unused /\ \A r \in unused : rooms[r] = None
    BY <1>1 DEF Drawn
  <2>3. rooms' = rooms \/ \E copy : rooms' = [rooms EXCEPT ![q.room] = copy]
    BY DEF Serves, Fail, ReadCurrent, ReadRoom, ClearCurrent, ArchiveRoom, SaveRoom,
           DeleteRoom, CreateSession, ReadRooms, Unlist
  <2> QED BY <2>1, <2>2, <2>3
<1> QED BY <1>1, <1>4, <1>5 DEF Drawn

\* At most one slot changes in a step, so the busy ones stay finitely many.
LEMMA NextDrawn ==
    ASSUME LobbyInv, Drawn, IsFiniteSet(Busy), Next
    PROVE  Drawn' /\ IsFiniteSet(Busy')
<1>1. ASSUME NEW s \in Slots, \A t \in Slots \ {s} : request'[t] = request[t]
      PROVE  IsFiniteSet(Busy')
  <2>1. Busy' \subseteq Busy \cup {s}
    BY <1>1 DEF Busy
  <2>2. IsFiniteSet(Busy \cup {s})
    BY FS_AddElement
  <2> QED BY <2>1, <2>2, FS_Subset
<1>2. ASSUME NEW s \in Slots,
             \/ CreateRoom(s) \/ JoinRoom(s) \/ LeaveRoom(s) \/ SetReady(s)
             \/ StartGame(s) \/ AddAIPlayer(s) \/ RemovePlayer(s)
             \/ UpdateSettings(s) \/ ListRooms(s)
      PROVE  Drawn' /\ IsFiniteSet(Busy')
  BY <1>1, <1>2, RequestDrawn
<1>3. ASSUME NEW s \in Slots, Serves(s) \/ Fail(s)
      PROVE  Drawn' /\ IsFiniteSet(Busy')
  BY <1>1, <1>3, ServesDrawn
<1>4. ASSUME NEW r \in RoomIds, Expire(r)
      PROVE  Drawn' /\ IsFiniteSet(Busy')
  <2>1. /\ rooms' = [rooms EXCEPT ![r] = None] /\ UNCHANGED <<unused, request>>
    BY <1>4 DEF Expire
  <2>2. \A x \in unused : rooms'[x] = None
    BY <2>1 DEF Drawn, LobbyInv, TypeInv
  <2> QED BY <2>1, <2>2 DEF Drawn, Busy
<1>5. ASSUME NEW u \in Users, ExpireMapping(u) \/ Logout(u)
      PROVE  Drawn' /\ IsFiniteSet(Busy')
  BY <1>5 DEF ExpireMapping, Logout, Drawn, Busy
<1> QED BY <1>2, <1>3, <1>4, <1>5 DEF Next

\* Requests that come one at a time keep the mappings and the rooms in step,
\* for any number of users and rooms: joinRoom, leaveRoom, removePlayer and the
\* expiry of a room leave every user's current room exactly the room that lists
\* the user.
THEOREM MappingsExact == WatchedSpec => []MembershipExact
<1>1. WatchedInit => LobbyInv /\ SerialInv
  <2> SUFFICES ASSUME WatchedInit PROVE LobbyInv /\ SerialInv
    OBVIOUS
  <2>1. Init /\ Busy = {}
    BY DEF WatchedInit, Init, Busy
  <2>2. Drawn /\ Exact(rooms, current)
    BY <2>1, LobbyAssumption DEF Init, Drawn, Exact, SitsIn
  <2>3. IsFiniteSet(Busy)
    BY <2>1, FS_EmptySet
  <2> QED BY <2>1, <2>2, <2>3, InitInv DEF SerialInv, Steady, Alone
<1>2. LobbyInv /\ SerialInv /\ [Next /\ Watch]_<<vars, disturbed>>
         => LobbyInv' /\ SerialInv'
  <2> SUFFICES ASSUME LobbyInv, SerialInv, [Next /\ Watch]_<<vars, disturbed>>
               PROVE  LobbyInv' /\ SerialInv'
    OBVIOUS
  <2>1. CASE Next /\ Watch
    <3>1. Next
      BY <2>1
    <3>2. LobbyInv' /\ Drawn' /\ IsFiniteSet(Busy')
      BY <3>1, NextKeeps, NextDrawn DEF SerialInv
    <3>3. ASSUME ~disturbed' PROVE Steady'
      <4>1. /\ ~disturbed /\ ~(Cardinality(Busy') > 1)
            /\ ~(Busy # {} /\ \E s \in Slots : Fail(s))
            /\ ~(Busy # {} /\ \E r \in RoomIds : Expire(r))
            /\ ~(\E u \in Users : current[u] # None /\ Logout(u))
        BY <2>1, <3>3 DEF Watch
      <4>2. Alone'
        BY <3>2, <4>1, AtMostOne DEF Alone
      <4> QED BY <3>1, <4>1, <4>2, NextSteady DEF SerialInv
    <3> QED BY <3>2, <3>3 DEF SerialInv
  <2>2. CASE UNCHANGED <<vars, disturbed>>
    <3>1. UNCHANGED vars /\ UNCHANGED <<rooms, unused, current, request, disturbed>>
      BY <2>2 DEF vars
    <3>2. LobbyInv'
      BY <3>1, OutsideKeeps DEF vars, LobbyInv, TypeInv
    <3>3. SerialInv'
      BY <3>1 DEF SerialInv, Drawn, Steady, Alone, Busy
    <3> QED BY <3>2, <3>3
  <2> QED BY <2>1, <2>2
<1>3. LobbyInv /\ SerialInv => MembershipExact
  BY DEF SerialInv, Steady, Exact, SitsIn, MembershipExact
<1> QED BY <1>1, <1>2, <1>3, PTL DEF WatchedSpec

\* What a run explores is part of it.
COROLLARY InstanceMappingsExact == MCSpec => []MembershipExact
<1>1. MCInit => WatchedInit
  BY DEF MCInit
<1>2. [MCNext]_mcVars => [Next /\ Watch]_<<vars, disturbed>>
  BY DEF MCNext, mcVars
<1> QED BY <1>1, <1>2, MappingsExact, PTL DEF MCSpec, WatchedSpec

=============================================================================
