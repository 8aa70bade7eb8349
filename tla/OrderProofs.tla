----------------------------- MODULE OrderProofs -----------------------------
(***************************************************************************)
(* Theorems that count: the deal and the shuffle, who starts, and the      *)
(* ranking of players, for every deck, table and set of players.  What a   *)
(* recursive definition yields is reached by induction over numbers, which *)
(* goes by the least element of a set of them.                             *)
(***************************************************************************)
EXTENDS MCServices, ServiceProofs

\* Induction: a set that has 0, and with a number below N the next one, has all
\* numbers up to N.
LEMMA CountUp ==
    ASSUME NEW N \in Nat, NEW S, 0 \in S, \A n \in 0 .. N - 1 : n \in S => n + 1 \in S
    PROVE  \A n \in 0 .. N : n \in S
<1> DEFINE T == {n \in 0 .. N : n \notin S}
<1> SUFFICES ASSUME T # {} PROVE FALSE
  OBVIOUS
<1>1. T \subseteq Nat
  OBVIOUS
<1> HIDE DEF T
<1>2. PICK m \in T : \A k \in T : m =< k
  BY <1>1, LeastNumber
<1>3. m \in 1 .. N
  BY DEF T
<1>4. m - 1 \in 0 .. N - 1 /\ m - 1 \notin T
  BY <1>2, <1>3
<1>5. m - 1 \in S
  BY <1>4 DEF T
<1>6. m \in S
  BY <1>3, <1>4, <1>5
<1> QED BY <1>6 DEF T

\* What a recursive definition over 0 .. N defines
Built(N, V, first, next) ==
    {f \in [0 .. N -> V] : f[0] = first /\ \A k \in 1 .. N : f[k] = next[k][f[k - 1]]}

\* A function defined by what comes after each value exists.
LEMMA StepByStep ==
    ASSUME NEW N \in Nat, NEW V, NEW first, NEW next, first \in V,
           \A k \in 1 .. N : \A v \in V : next[k][v] \in V
    PROVE  Built(N, V, first, next) # {}
<1> DEFINE Upto(n, f) == f[0] = first /\ \A k \in 1 .. n : f[k] = next[k][f[k - 1]]
           S == {n \in 0 .. N : \E f \in [0 .. n -> V] : Upto(n, f)}
<1>1. 0 \in S
  <2> DEFINE f == [i \in 0 .. 0 |-> first]
  <2>1. f \in [0 .. 0 -> V] /\ Upto(0, f)
    OBVIOUS
  <2> HIDE DEF f
  <2> QED BY <2>1
<1>2. ASSUME NEW n \in 0 .. N - 1, n \in S PROVE n + 1 \in S
  <2>1. PICK f \in [0 .. n -> V] : Upto(n, f)
    BY <1>2
  <2> DEFINE g == [i \in 0 .. n + 1 |-> IF i =< n THEN f[i] ELSE next[n + 1][f[n]]]
  <2>2. f[n] \in V /\ next[n + 1][f[n]] \in V
    OBVIOUS
  <2>3. g \in [0 .. n + 1 -> V]
    BY <2>2
  <2>4. g[0] = first
    BY <2>1
  <2>5. ASSUME NEW k \in 1 .. n + 1 PROVE g[k] = next[k][g[k - 1]]
    <3>1. CASE k = n + 1
      <4>1. g[k] = next[n + 1][f[n]]
        BY <3>1
      <4>2. k - 1 = n /\ g[k - 1] = f[n]
        BY <3>1
      <4> QED BY <3>1, <4>1, <4>2
    <3>2. CASE k # n + 1
      <4>1. k \in 1 .. n /\ g[k] = f[k] /\ g[k - 1] = f[k - 1]
        BY <3>2
      <4> QED BY <2>1, <4>1
    <3> QED BY <3>1, <3>2
  <2> HIDE DEF g
  <2>6. Upto(n + 1, g) /\ n + 1 \in 0 .. N
    BY <2>4, <2>5
  <2> QED BY <2>3, <2>6
<1>3. N \in S
  <2> HIDE DEF S
  <2>1. \A n \in 0 .. N - 1 : n \in S => n + 1 \in S
    BY <1>2
  <2>2. \A n \in 0 .. N : n \in S
    BY <1>1, <2>1, CountUp
  <2> QED BY <2>2
<1>4. PICK f \in [0 .. N -> V] : Upto(N, f)
  BY <1>3
<1> QED BY <1>4 DEF Built

\* A set whose members are those of a finite set renamed has as many of them.
LEMMA SameCount ==
    ASSUME NEW S, NEW T, NEW f \in [S -> T], IsFiniteSet(S),
           \A x, y \in S : f[x] = f[y] => x = y, \A t \in T : \E x \in S : f[x] = t
    PROVE  IsFiniteSet(T) /\ Cardinality(T) = Cardinality(S)
<1>1. f \in Bijection(S, T)
  BY DEF Bijection, Injection, Surjection, IsInjective
<1>2. ExistsBijection(S, T)
  BY <1>1 DEF ExistsBijection
<1> QED BY <1>2, FS_Bijection

\* A set whose members are renamed into a finite set has no more of them.
LEMMA NoMore ==
    ASSUME NEW S, NEW T, NEW f \in [S -> T], IsFiniteSet(T),
           \A x, y \in S : f[x] = f[y] => x = y
    PROVE  IsFiniteSet(S) /\ Cardinality(S) =< Cardinality(T)
<1>1. f \in Injection(S, T)
  BY DEF Injection, IsInjective
<1> QED BY <1>1, FS_Injection

(***************************************************************************)
(* The starting player.  A hand's ordinals are known by how many cards lie *)
(* below each.                                                             *)
(***************************************************************************)

Below(h, r) == {c \in h : RankOf[c] < r}
UpTo(h, r)  == {c \in h : RankOf[c] =< r}

\* Cards below a rank, of a rank and up to a rank
LEMMA Counting ==
    ASSUME NEW h \in SUBSET Deck, NEW r \in Ranks
    PROVE  /\ IsFiniteSet(h) /\ Cardinality(h) \in Nat
           /\ Cardinality(Below(h, r)) \in Nat /\ Cardinality(UpTo(h, r)) \in Nat
           /\ CountOf(h, r) \in Nat
           /\ Cardinality(UpTo(h, r)) = Cardinality(Below(h, r)) + CountOf(h, r)
           /\ Cardinality(UpTo(h, r)) =< Cardinality(h)
           /\ Below(h, 0) = {} /\ UpTo(h, Joker) = h /\ Cardinality(Below(h, 0)) = 0
           /\ r # Joker => Below(h, r + 1) = UpTo(h, r)
           /\ \A s \in Ranks : s < r =>
                 Cardinality(UpTo(h, s)) =< Cardinality(Below(h, r))
<1> DEFINE same == {c \in h : RankOf[c] = r}
<1>1. \A c \in h : RankOf[c] \in 0 .. Joker
  BY DeckAssumption DEF Ranks
<1>2. IsFiniteSet(h) /\ Cardinality(h) \in Nat
  BY DeckAssumption, FS_Subset, FS_CardinalityType
<1>3. \A T \in SUBSET h : /\ IsFiniteSet(T) /\ Cardinality(T) \in Nat
                          /\ Cardinality(T) =< Cardinality(h)
  BY <1>2, FS_Subset, FS_CardinalityType
<1>4. Below(h, r) \in SUBSET h /\ UpTo(h, r) \in SUBSET h /\ same \in SUBSET h
  BY DEF Below, UpTo
<1>5. UpTo(h, r) = Below(h, r) \cup same /\ Below(h, r) \cap same = {}
  BY <1>1 DEF Below, UpTo, Ranks, Joker
<1>6. Cardinality(UpTo(h, r)) = Cardinality(Below(h, r)) + Cardinality(same)
  <2> HIDE DEF same
  <2>1. IsFiniteSet(Below(h, r)) /\ IsFiniteSet(same)
    BY <1>3, <1>4
  <2>2. Cardinality(Below(h, r) \cup same)
           = Cardinality(Below(h, r)) + Cardinality(same) - Cardinality(Below(h, r) \cap same)
    BY <2>1, FS_Union
  <2>3. Cardinality({}) = 0
    BY FS_EmptySet
  <2>4. Cardinality(Below(h, r)) \in Nat /\ Cardinality(same) \in Nat
    BY <1>3, <1>4
  <2>5. Cardinality(Below(h, r) \cap same) = 0
    BY <1>5, <2>3
  <2>6. Cardinality(UpTo(h, r)) = Cardinality(Below(h, r) \cup same)
    BY <1>5
  <2> QED BY <2>2, <2>4, <2>5, <2>6
<1>7. Cardinality(same) = CountOf(h, r)
  BY DEF CountOf
<1>8. Below(h, 0) = {} /\ UpTo(h, Joker) = h /\ Cardinality(Below(h, 0)) = 0
  BY <1>1, FS_EmptySet DEF Below, UpTo, Joker
<1>9. r # Joker => Below(h, r + 1) = UpTo(h, r)
  BY <1>1 DEF Below, UpTo, Ranks, Joker
<1>10. ASSUME NEW s \in Ranks, s < r
       PROVE  Cardinality(UpTo(h, s)) =< Cardinality(Below(h, r))
  <2>1. UpTo(h, s) \subseteq Below(h, r)
    BY <1>1, <1>10 DEF Below, UpTo, Ranks, Joker
  <2> QED BY <1>3, <1>4, <2>1, FS_Subset
<1> HIDE DEF same
<1> QED BY <1>2, <1>3, <1>4, <1>6, <1>7, <1>8, <1>9, <1>10

\* What makes a rank the k-th lowest of a hand
IsKth(h, k, r) == Cardinality(Below(h, r)) < k /\ Cardinality(UpTo(h, r)) >= k

\* At most one rank is that of the k-th lowest card of a hand.
LEMMA KthUnique ==
    ASSUME NEW h \in SUBSET Deck, NEW k \in Nat, NEW r \in Ranks, NEW s \in Ranks,
           IsKth(h, k, r), IsKth(h, k, s)
    PROVE  r = s
<1>1. r \in Nat /\ s \in Nat
  BY DEF Ranks, Joker
<1>2. /\ Cardinality(UpTo(h, r)) \in Nat /\ Cardinality(UpTo(h, s)) \in Nat
      /\ Cardinality(Below(h, r)) \in Nat /\ Cardinality(Below(h, s)) \in Nat
      /\ r < s => Cardinality(UpTo(h, r)) =< Cardinality(Below(h, s))
      /\ s < r => Cardinality(UpTo(h, s)) =< Cardinality(Below(h, r))
  BY Counting
<1>3. ~(r < s) /\ ~(s < r)
  BY <1>2 DEF IsKth
<1> QED BY <1>1, <1>3

\* Every hand of at least k cards has a k-th lowest.
LEMMA KthExists ==
    ASSUME NEW h \in SUBSET Deck, NEW k \in 1 .. Cardinality(h)
    PROVE  \E r \in Ranks : IsKth(h, k, r)
<1> DEFINE T == {r \in Ranks : Cardinality(UpTo(h, r)) >= k}
<1>1. Joker \in T
  BY Counting DEF Ranks, Joker
<1>2. T \subseteq Nat
  BY DEF Ranks
<1>3. PICK r \in T : \A s \in T : r =< s
  <2> HIDE DEF T
  <2> QED BY <1>1, <1>2, LeastNumber
<1>4. Cardinality(Below(h, r)) < k
  <2>1. CASE r = 0
    BY <2>1, Counting DEF Ranks
  <2>2. CASE r # 0
    <3>1. r - 1 \in Ranks /\ r - 1 # Joker /\ (r - 1) + 1 = r
      BY <2>2 DEF Ranks, Joker
    <3>2. r - 1 \notin T
      BY <1>2, <1>3
    <3>3. Cardinality(UpTo(h, r - 1)) < k /\ Cardinality(UpTo(h, r - 1)) \in Nat
      BY <3>1, <3>2, Counting
    <3>4. Below(h, r) = UpTo(h, r - 1)
      BY <3>1, Counting
    <3> QED BY <3>3, <3>4
  <2> QED BY <2>1, <2>2
<1> QED BY <1>3, <1>4 DEF IsKth

\* KthOrdinal, which sorts the hand and takes its k-th card, finds it.
LEMMA KthIsKth ==
    ASSUME NEW h \in SUBSET Deck, NEW k \in 1 .. Cardinality(h)
    PROVE  KthOrdinal(h, k) \in Ranks /\ IsKth(h, k, KthOrdinal(h, k))
<1>1. k =< Cardinality(h) /\ Cardinality(h) \in Nat
  <2>1. 0 \in Ranks
    BY DEF Ranks, Joker
  <2>2. Cardinality(h) \in Nat
    BY <2>1, Counting
  <2> QED BY <2>2
<1>2. KthOrdinal(h, k) = CHOOSE r \in Ranks : IsKth(h, k, r)
  <2>1. ~(k > Cardinality(h))
    BY <1>1
  <2> QED BY <2>1, Zenon DEF KthOrdinal, IsKth, Below, UpTo
<1> QED BY <1>2, KthExists

\* and whatever is the k-th lowest is what it finds.
LEMMA KthIs ==
    ASSUME NEW h \in SUBSET Deck, NEW k \in 1 .. Cardinality(h), NEW r \in Ranks,
           IsKth(h, k, r)
    PROVE  KthOrdinal(h, k) = r
BY KthIsKth, KthUnique

\* Hands with equally many cards of each rank below r have equally many below r.
LEMMA SameBelow ==
    ASSUME NEW g \in SUBSET Deck, NEW h \in SUBSET Deck, NEW r \in Ranks,
           \A s \in 0 .. r - 1 : CountOf(g, s) = CountOf(h, s)
    PROVE  \A s \in 0 .. r : Cardinality(Below(g, s)) = Cardinality(Below(h, s))
<1> DEFINE S == {s \in Ranks : Cardinality(Below(g, s)) = Cardinality(Below(h, s))}
<1>1. 0 \in S
  BY Counting DEF Ranks, Joker
<1>2. ASSUME NEW s \in 0 .. r - 1, s \in S PROVE s + 1 \in S
  <2>1. s \in Ranks /\ s # Joker /\ s + 1 \in Ranks
    BY DEF Ranks, Joker
  <2>2. Cardinality(UpTo(g, s)) = Cardinality(UpTo(h, s))
    <3>1. CountOf(g, s) = CountOf(h, s)
      OBVIOUS
    <3>2. Cardinality(Below(g, s)) = Cardinality(Below(h, s))
      BY <1>2
    <3>3. /\ Cardinality(UpTo(g, s)) = Cardinality(Below(g, s)) + CountOf(g, s)
          /\ Cardinality(UpTo(h, s)) = Cardinality(Below(h, s)) + CountOf(h, s)
      BY <2>1, Counting
    <3> QED BY <3>1, <3>2, <3>3
  <2>3. Below(g, s + 1) = UpTo(g, s) /\ Below(h, s + 1) = UpTo(h, s)
    BY <2>1, Counting
  <2> QED BY <2>1, <2>2, <2>3
<1> HIDE DEF S
<1>3. \A s \in 0 .. r - 1 : s \in S => s + 1 \in S
  BY <1>2
<1>4. \A s \in 0 .. r : s \in S
  BY <1>1, <1>3, CountUp DEF Ranks
<1> QED BY <1>4 DEF S

\* Up to the last card of the first rank in which two hands differ, their
\* lowest cards are the same; the next card of the one with more of the rank is
\* lower.
LEMMA LowerShows ==
    ASSUME NEW g \in SUBSET Deck, NEW h \in SUBSET Deck, Cardinality(g) = Cardinality(h),
           LowerHand(g, h)
    PROVE  \E k \in 1 .. Cardinality(h) :
              /\ KthOrdinal(g, k) < KthOrdinal(h, k)
              /\ \A j \in 1 .. k - 1 : KthOrdinal(g, j) = KthOrdinal(h, j)
<1>1. PICK r \in Ranks : /\ CountOf(g, r) > CountOf(h, r)
                         /\ \A s \in 0 .. r - 1 : CountOf(g, s) = CountOf(h, s)
  BY DEF LowerHand
<1>2. \A s \in 0 .. r : Cardinality(Below(g, s)) = Cardinality(Below(h, s))
  BY <1>1, SameBelow
<1> DEFINE n == Cardinality(UpTo(h, r))
<1>3. /\ n \in Nat /\ n < Cardinality(UpTo(g, r)) /\ Cardinality(UpTo(g, r)) \in Nat
      /\ Cardinality(UpTo(g, r)) =< Cardinality(h) /\ Cardinality(h) \in Nat
      /\ Cardinality(Below(g, r)) =< n /\ Cardinality(Below(g, r)) \in Nat
  <2>1. Cardinality(Below(g, r)) = Cardinality(Below(h, r))
    BY <1>2 DEF Ranks
  <2> QED BY <1>1, <2>1, Counting
<1>4. n + 1 \in 1 .. Cardinality(h) /\ n + 1 \in 1 .. Cardinality(g)
  BY <1>3
<1>5. KthOrdinal(g, n + 1) = r
  <2>1. IsKth(g, n + 1, r)
    BY <1>3 DEF IsKth
  <2> QED BY <1>4, <2>1, KthIs
<1>6. KthOrdinal(h, n + 1) > r
  <2> DEFINE t == KthOrdinal(h, n + 1)
  <2>1. t \in Ranks /\ Cardinality(UpTo(h, t)) >= n + 1
    BY <1>4, KthIsKth DEF IsKth
  <2> HIDE DEF t
  <2>2. t # r
    BY <1>3, <2>1
  <2>3. ~(t < r)
    <3>1. Cardinality(Below(h, r)) =< n /\ Cardinality(Below(h, r)) \in Nat
      BY Counting
    <3>2. t < r => Cardinality(UpTo(h, t)) =< Cardinality(Below(h, r))
      BY <2>1, Counting
    <3>3. Cardinality(UpTo(h, t)) \in Nat
      BY <2>1, Counting
    <3> QED BY <1>3, <2>1, <3>1, <3>2, <3>3
  <2> QED BY <2>1, <2>2, <2>3 DEF t, Ranks
<1>7. ASSUME NEW j \in 1 .. n PROVE KthOrdinal(g, j) = KthOrdinal(h, j)
  <2>1. j \in 1 .. Cardinality(h) /\ j \in 1 .. Cardinality(g)
    BY <1>3
  <2>2. PICK t \in Ranks : t = KthOrdinal(h, j)
    BY <2>1, KthIsKth
  <2>3. /\ IsKth(h, j, t) /\ Cardinality(UpTo(h, t)) \in Nat
        /\ Cardinality(Below(h, t)) \in Nat
    BY <2>1, <2>2, KthIsKth, Counting
  <2>4. t =< r
    <3>1. r < t => n =< Cardinality(Below(h, t))
      BY Counting
    <3> QED BY <1>3, <2>3, <3>1 DEF IsKth, Ranks
  <2>5. Cardinality(Below(g, t)) = Cardinality(Below(h, t))
    BY <1>2, <2>4 DEF Ranks
  <2>6. Cardinality(UpTo(g, t)) >= j
    <3>1. CASE t = r
      BY <1>3, <3>1
    <3>2. CASE t # r
      <4>1. t \in 0 .. r - 1
        BY <2>4, <3>2 DEF Ranks
      <4>2. CountOf(g, t) = CountOf(h, t)
        BY <1>1, <4>1
      <4>3. Cardinality(UpTo(g, t)) = Cardinality(UpTo(h, t))
        BY <2>5, <4>2, Counting
      <4> QED BY <2>3, <4>3 DEF IsKth
    <3> QED BY <3>1, <3>2
  <2>7. IsKth(g, j, t)
    BY <2>3, <2>5, <2>6 DEF IsKth
  <2>8. KthOrdinal(g, j) = t
    BY <2>1, <2>7, KthIs
  <2> QED BY <2>2, <2>8
<1> HIDE DEF n
<1>8. KthOrdinal(g, n + 1) < KthOrdinal(h, n + 1)
  <2>1. KthOrdinal(h, n + 1) \in Nat
    BY <1>4, KthIsKth DEF Ranks
  <2> QED BY <1>5, <1>6, <2>1 DEF Ranks
<1>9. (n + 1) - 1 = n
  BY <1>3
<1> QED BY <1>4, <1>7, <1>8, <1>9

\* Hands that are the same have the same lowest cards.
LEMMA SameShows ==
    ASSUME NEW g \in SUBSET Deck, NEW h \in SUBSET Deck, Cardinality(g) = Cardinality(h),
           SameHand(g, h), NEW k \in 1 .. Cardinality(h)
    PROVE  KthOrdinal(g, k) = KthOrdinal(h, k)
<1>1. PICK r \in Ranks : r = KthOrdinal(h, k)
  BY KthIsKth
<1>2. IsKth(h, k, r)
  BY <1>1, KthIsKth
<1>3. Cardinality(Below(g, r)) = Cardinality(Below(h, r))
  <2>1. \A s \in 0 .. r - 1 : CountOf(g, s) = CountOf(h, s)
    BY DEF SameHand, Ranks, Joker
  <2>2. r \in 0 .. r
    BY DEF Ranks
  <2> QED BY <2>1, <2>2, SameBelow
<1>4. Cardinality(UpTo(g, r)) = Cardinality(UpTo(h, r))
  BY <1>3, Counting DEF SameHand
<1>5. IsKth(g, k, r)
  BY <1>2, <1>3, <1>4 DEF IsKth
<1> QED BY <1>1, <1>5, KthIs

\* Of two hands one is lower, or they are the same.
LEMMA HandsCompare ==
    ASSUME NEW g \in SUBSET Deck, NEW h \in SUBSET Deck
    PROVE  SameHand(g, h) \/ LowerHand(g, h) \/ LowerHand(h, g)
<1> DEFINE T == {r \in Ranks : CountOf(g, r) # CountOf(h, r)}
<1> SUFFICES ASSUME T # {} PROVE LowerHand(g, h) \/ LowerHand(h, g)
  BY DEF SameHand
<1>1. T \subseteq Nat
  BY DEF Ranks
<1>2. PICK r \in T : \A s \in T : r =< s
  <2> HIDE DEF T
  <2> QED BY <1>1, LeastNumber
<1>3. ASSUME NEW s \in 0 .. r - 1 PROVE CountOf(g, s) = CountOf(h, s)
  <2>1. s \in Ranks /\ ~(r =< s)
    BY DEF Ranks, Joker
  <2>2. s \notin T
    BY <1>2, <2>1
  <2> QED BY <2>1, <2>2
<1>4. CountOf(g, r) > CountOf(h, r) \/ CountOf(h, r) > CountOf(g, r)
  <2>1. CountOf(g, r) \in Nat /\ CountOf(h, r) \in Nat
    BY Counting
  <2> QED BY <2>1
<1> QED BY <1>3, <1>4 DEF LowerHand

\* The recursive definition of the players still tied is one.
LEMMA CandidatesLeft ==
    ASSUME NEW deal
    PROVE  \E left \in [0 .. CardsPerZone -> SUBSET Players] :
              /\ Candidates(deal) = left[CardsPerZone]
              /\ left[0] = Players
              /\ \A k \in 1 .. CardsPerZone :
                    left[k] = {p \in left[k - 1] : \A q \in left[k - 1] :
                                  KthOrdinal(deal[p], k) =< KthOrdinal(deal[q], k)}
<1> DEFINE Best(k, among) == {p \in among : \A q \in among :
                                 KthOrdinal(deal[p], k) =< KthOrdinal(deal[q], k)}
           next == [k \in 1 .. CardsPerZone |-> [among \in SUBSET Players |-> Best(k, among)]]
           Unfolds(f) == f = [k \in 0 .. CardsPerZone |->
                                 IF k = 0 THEN Players ELSE Best(k, f[k - 1])]
<1>1. CardsPerZone \in Nat
  BY ZoneAssumption
<1>2. next \in [1 .. CardsPerZone -> [SUBSET Players -> SUBSET Players]]
  OBVIOUS
<1>3. \E f \in [0 .. CardsPerZone -> SUBSET Players] : Unfolds(f)
  <2> DEFINE V == SUBSET Players
  <2>1. Players \in V
    OBVIOUS
  <2> HIDE DEF next, V
  <2>5. \A k \in 1 .. CardsPerZone : \A v \in V : next[k][v] \in V
    BY <1>2 DEF V
  <2>2. PICK f \in [0 .. CardsPerZone -> V] :
           f[0] = Players /\ \A k \in 1 .. CardsPerZone : f[k] = next[k][f[k - 1]]
    <3>1. Built(CardsPerZone, V, Players, next) # {}
      BY <1>1, <2>1, <2>5, StepByStep
    <3> QED BY <3>1 DEF Built
  <2>3. \A k \in 0 .. CardsPerZone : k # 0 => next[k][f[k - 1]] = Best(k, f[k - 1])
    <3>1. \A k \in 0 .. CardsPerZone : k # 0 => k \in 1 .. CardsPerZone /\ f[k - 1] \in SUBSET Players
      BY <1>1, <2>2 DEF V
    <3> QED BY <3>1 DEF next
  <2>4. \A k \in 0 .. CardsPerZone : f[k] = IF k = 0 THEN Players ELSE Best(k, f[k - 1])
    <3>1. \A k \in 0 .. CardsPerZone : k # 0 => k \in 1 .. CardsPerZone
      BY <1>1
    <3> HIDE DEF Best
    <3> QED BY <2>2, <2>3, <3>1
  <2>6. Unfolds(f)
    <3> HIDE DEF Best
    <3> QED BY <2>4
  <2> QED BY <2>6 DEF V
<1> DEFINE left == CHOOSE f : Unfolds(f)
<1>4. Unfolds(left)
  BY <1>3
<1>5. Candidates(deal) = left[CardsPerZone]
  BY Zenon DEF Candidates
<1> HIDE DEF left
<1>6. left[0] = Players /\ \A k \in 1 .. CardsPerZone : left[k] = Best(k, left[k - 1])
  <2>1. 0 \in 0 .. CardsPerZone /\ \A k \in 1 .. CardsPerZone : k \in 0 .. CardsPerZone /\ k # 0
    BY <1>1
  <2> HIDE DEF Best
  <2> QED BY <1>4, <2>1
<1>7. left \in [0 .. CardsPerZone -> SUBSET Players]
  <2> DEFINE S == {k \in 0 .. CardsPerZone : left[k] \subseteq Players}
  <2>1. 0 \in S
    BY <1>1, <1>6
  <2>2. \A k \in 0 .. CardsPerZone - 1 : k \in S => k + 1 \in S
    <3> SUFFICES ASSUME NEW k \in 0 .. CardsPerZone - 1, k \in S PROVE k + 1 \in S
      OBVIOUS
    <3>1. k + 1 \in 1 .. CardsPerZone /\ (k + 1) - 1 = k
      BY <1>1
    <3>2. left[k + 1] \subseteq left[k]
      BY <1>6, <3>1
    <3> QED BY <3>1, <3>2
  <2> HIDE DEF S
  <2>3. \A k \in 0 .. CardsPerZone : k \in S
    BY <1>1, <2>1, <2>2, CountUp
  <2>4. \A k \in 0 .. CardsPerZone : left[k] \in SUBSET Players
    BY <2>3 DEF S
  <2> QED BY <1>4, <2>4
<1> QED BY <1>5, <1>6, <1>7

Dealt(deal) ==
    /\ deal \in [Players -> SUBSET Deck]
    /\ \A p \in Players : Cardinality(deal[p]) = CardsPerZone

\* Who is left with the player p holds his lowest cards, or higher ones where
\* they first differ.
LEMMA NobodyBelow ==
    ASSUME NEW deal, Dealt(deal), NEW p \in Candidates(deal), NEW q \in Players
    PROVE  /\ p \in Players
           /\ \A k \in 1 .. CardsPerZone :
                 (\A j \in 1 .. k - 1 : KthOrdinal(deal[q], j) = KthOrdinal(deal[p], j))
                    => KthOrdinal(deal[p], k) =< KthOrdinal(deal[q], k)
           /\ (\A j \in 1 .. CardsPerZone : KthOrdinal(deal[q], j) = KthOrdinal(deal[p], j))
                 => q \in Candidates(deal)
<1>1. PICK left \in [0 .. CardsPerZone -> SUBSET Players] :
         /\ Candidates(deal) = left[CardsPerZone]
         /\ left[0] = Players
         /\ \A k \in 1 .. CardsPerZone :
               left[k] = {x \in left[k - 1] : \A y \in left[k - 1] :
                             KthOrdinal(deal[x], k) =< KthOrdinal(deal[y], k)}
  BY CandidatesLeft
<1>2. CardsPerZone \in Nat /\ CardsPerZone \in 0 .. CardsPerZone
  BY ZoneAssumption
<1>3. \A k \in 0 .. CardsPerZone : p \in left[k]
  <2> DEFINE S == {n \in 0 .. CardsPerZone : p \in left[CardsPerZone - n]}
  <2>1. 0 \in S
    BY <1>1, <1>2
  <2>2. \A n \in 0 .. CardsPerZone - 1 : n \in S => n + 1 \in S
    <3> SUFFICES ASSUME NEW n \in 0 .. CardsPerZone - 1, n \in S PROVE n + 1 \in S
      OBVIOUS
    <3>1. /\ CardsPerZone - n \in 1 .. CardsPerZone /\ n + 1 \in 0 .. CardsPerZone
          /\ (CardsPerZone - n) - 1 = CardsPerZone - (n + 1)
      BY <1>2
    <3>2. left[CardsPerZone - n] \subseteq left[CardsPerZone - (n + 1)]
      BY <1>1, <3>1
    <3> QED BY <3>1, <3>2
  <2> HIDE DEF S
  <2>3. \A n \in 0 .. CardsPerZone : n \in S
    BY <1>2, <2>1, <2>2, CountUp
  <2> SUFFICES ASSUME NEW k \in 0 .. CardsPerZone PROVE p \in left[k]
    OBVIOUS
  <2>4. CardsPerZone - k \in 0 .. CardsPerZone /\ CardsPerZone - (CardsPerZone - k) = k
    BY <1>2
  <2> QED BY <2>3, <2>4 DEF S
<1>4. ASSUME NEW n \in 0 .. CardsPerZone,
             \A j \in 1 .. n : KthOrdinal(deal[q], j) = KthOrdinal(deal[p], j)
      PROVE  q \in left[n]
  <2> DEFINE S == {j \in 0 .. n : q \in left[j]}
  <2>1. 0 \in S
    BY <1>1, <1>2
  <2>2. \A j \in 0 .. n - 1 : j \in S => j + 1 \in S
    <3> SUFFICES ASSUME NEW j \in 0 .. n - 1, j \in S PROVE j + 1 \in S
      OBVIOUS
    <3>1. /\ j + 1 \in 1 .. CardsPerZone /\ j + 1 \in 1 .. n /\ j + 1 \in 0 .. n
          /\ (j + 1) - 1 = j /\ j + 1 \in 0 .. CardsPerZone
      BY <1>2
    <3>2. left[j + 1] = {x \in left[j] : \A y \in left[j] :
                            KthOrdinal(deal[x], j + 1) =< KthOrdinal(deal[y], j + 1)}
      BY <1>1, <3>1
    <3>3. p \in left[j + 1]
      BY <1>3, <3>1
    <3>4. KthOrdinal(deal[q], j + 1) = KthOrdinal(deal[p], j + 1)
      BY <1>4, <3>1
    <3>5. q \in left[j + 1]
      BY <3>2, <3>3, <3>4
    <3> QED BY <3>1, <3>5
  <2> HIDE DEF S
  <2>3. n \in Nat /\ n \in 0 .. n
    BY <1>2
  <2>4. n \in S
    BY <2>1, <2>2, <2>3, CountUp
  <2> QED BY <2>4 DEF S
<1>5. ASSUME NEW k \in 1 .. CardsPerZone,
             \A j \in 1 .. k - 1 : KthOrdinal(deal[q], j) = KthOrdinal(deal[p], j)
      PROVE  KthOrdinal(deal[p], k) =< KthOrdinal(deal[q], k)
  <2>1. k - 1 \in 0 .. CardsPerZone /\ k \in 0 .. CardsPerZone
    BY <1>2
  <2>2. q \in left[k - 1]
    BY <1>4, <1>5, <2>1
  <2>3. p \in left[k]
    BY <1>3, <2>1
  <2> QED BY <1>1, <2>2, <2>3
<1>6. p \in Players
  BY <1>1, <1>2
<1> QED BY <1>1, <1>2, <1>4, <1>5, <1>6

\* Nobody holds a lower hand than a candidate, and the candidates are those
\* whose hands are the same as his.
LEMMA CandidatesLowest ==
    ASSUME NEW deal, Dealt(deal), NEW p \in Candidates(deal), NEW q \in Players
    PROVE  /\ ~LowerHand(deal[q], deal[p])
           /\ q \in Candidates(deal) <=> SameHand(deal[q], deal[p])
<1>1. p \in Players
  BY NobodyBelow
<1>2. /\ deal[p] \in SUBSET Deck /\ deal[q] \in SUBSET Deck
      /\ Cardinality(deal[p]) = CardsPerZone /\ Cardinality(deal[q]) = CardsPerZone
  BY <1>1 DEF Dealt
<1>3. ASSUME NEW x \in Candidates(deal), NEW y \in Players, LowerHand(deal[y], deal[x])
      PROVE  FALSE
  <2>1. x \in Players
    BY NobodyBelow
  <2>2. /\ deal[x] \in SUBSET Deck /\ deal[y] \in SUBSET Deck
        /\ Cardinality(deal[x]) = CardsPerZone /\ Cardinality(deal[y]) = CardsPerZone
    BY <2>1 DEF Dealt
  <2>3. PICK k \in 1 .. CardsPerZone :
           /\ KthOrdinal(deal[y], k) < KthOrdinal(deal[x], k)
           /\ \A j \in 1 .. k - 1 : KthOrdinal(deal[y], j) = KthOrdinal(deal[x], j)
    BY <1>3, <2>2, LowerShows
  <2>4. KthOrdinal(deal[x], k) =< KthOrdinal(deal[y], k)
    BY <2>3, NobodyBelow
  <2>5. KthOrdinal(deal[x], k) \in Nat /\ KthOrdinal(deal[y], k) \in Nat
    BY <2>2, KthIsKth DEF Ranks
  <2> QED BY <2>3, <2>4, <2>5
<1>4. q \in Candidates(deal) => SameHand(deal[q], deal[p])
  BY <1>1, <1>2, <1>3, HandsCompare
<1>5. SameHand(deal[q], deal[p]) => q \in Candidates(deal)
  <2> SUFFICES ASSUME SameHand(deal[q], deal[p]) PROVE q \in Candidates(deal)
    OBVIOUS
  <2>1. \A j \in 1 .. CardsPerZone : KthOrdinal(deal[q], j) = KthOrdinal(deal[p], j)
    BY <1>2, SameShows
  <2> QED BY <2>1, NobodyBelow
<1> QED BY <1>3, <1>4, <1>5

\* What determineStartingPlayer promises, of a deal and a player
StartsRightly(deal, p) ==
    LET equals == {q \in Players \ {p} : SameHand(deal[q], deal[p])}
        way(x, y) == (y + NumPlayers - x) % NumPlayers
    IN  /\ \A q \in Players : ~LowerHand(deal[q], deal[p])
        /\ Cardinality(equals) = 1 => \A q \in equals : way(p, q) =< way(q, p)

\* The way forward, from a seat to another, is the same with a whole turn added.
LEMMA SameWay ==
    ASSUME NEW p \in Players, NEW q \in Players
    PROVE  Distance(p, q) = (q + NumPlayers - p) % NumPlayers
<1>1. NumPlayers \in {2, 3, 4, 5}
  BY PlayersAssumption
<1>2. \A n \in {2, 3, 4, 5} : \A x, y \in 0 .. n - 1 : (y - x) % n = (y + n - x) % n
  OBVIOUS
<1> QED BY <1>1, <1>2 DEF Players, Distance

\* determineStartingPlayer, on every complete deal: nobody holds a lower hand than
\* who starts; if exactly one other holds the same, the way to him is not longer
\* than his back.
THEOREM LowestStarts ==
    ASSUME NEW deal, Dealt(deal), NEW p \in StartingPlayers(deal)
    PROVE  StartsRightly(deal, p)
<1> DEFINE equals == {q \in Players \ {p} : SameHand(deal[q], deal[p])}
<1>1. p \in Players /\ p \in Candidates(deal)
  BY DEF StartingPlayers
<1>2. \A q \in Players : /\ ~LowerHand(deal[q], deal[p])
                         /\ q \in Candidates(deal) <=> SameHand(deal[q], deal[p])
  BY <1>1, CandidatesLowest
<1>3. Candidates(deal) = equals \cup {p} /\ p \notin equals
  <2>1. Candidates(deal) \subseteq Players
    BY NobodyBelow, <1>1
  <2> QED BY <1>1, <1>2, <2>1
<1>4. ASSUME Cardinality(equals) = 1, NEW q \in equals
      PROVE  (q + NumPlayers - p) % NumPlayers =< (p + NumPlayers - q) % NumPlayers
  <2>1. IsFiniteSet(equals)
    <3>1. IsFiniteSet(Players)
      BY PlayersAssumption, FS_Interval DEF Players
    <3> QED BY <3>1, FS_Subset
  <2>2. Cardinality(Candidates(deal)) = 2
    <3> HIDE DEF equals
    <3> QED BY <1>3, <1>4, <2>1, FS_AddElement
  <2>3. q \in Candidates(deal) \ {p} /\ q \in Players
    BY <1>3
  <2>4. Distance(p, q) =< Distance(q, p)
    BY <2>2, <2>3 DEF StartingPlayers
  <2> QED BY <1>1, <2>3, <2>4, SameWay
<1> QED BY <1>2, <1>4 DEF StartsRightly

DealInv ==
    /\ part = "deal" => Dealt(hands)
    /\ starter # Nobody => StartsRightly(hands, starter)

\* The hands that are dealt, and who starts with them
THEOREM StarterHoldsLowest == MCSpec => []LowestHandStarts
<1>1. MCInit => DealInv
  <2> SUFFICES ASSUME MCInit, part = "deal" PROVE Dealt(hands)
    BY DEF MCInit, DealInv
  <2>1. hands \in Deals
    BY DEF MCInit
  <2> QED BY <2>1 DEF Deals, Dealt
<1>2. DealInv /\ [MCNext]_mcVars => DealInv'
  <2> SUFFICES ASSUME DealInv, [MCNext]_mcVars PROVE DealInv'
    OBVIOUS
  <2>1. CASE UNCHANGED <<part, hands, starter>>
    BY <2>1 DEF DealInv, Dealt, StartsRightly, Nobody
  <2>2. CASE part = "deal" /\ ChooseStarter /\ UNCHANGED part
    <3>1. starter' \in StartingPlayers(hands) /\ UNCHANGED <<part, hands>> /\ Dealt(hands)
      BY <2>2 DEF ChooseStarter, DealInv
    <3>2. StartsRightly(hands, starter')
      BY <3>1, LowestStarts
    <3>3. StartsRightly(hands, starter)'
      BY <3>1, <3>2 DEF StartsRightly
    <3> QED BY <3>1, <3>3 DEF DealInv, Dealt
  <2> QED BY <2>1, <2>2 DEF MCNext, mcVars
<1>3. DealInv => LowestHandStarts
  BY DEF DealInv, LowestHandStarts, StartsRightly
<1> QED BY <1>1, <1>2, <1>3, PTL DEF MCSpec

(***************************************************************************)
(* The ranking of players.                                                 *)
(***************************************************************************)

Ranked == {u \in Users : HasPlayed(u)}

Rating(u) == ratings[u].rating

Better(u) == {v \in Ranked : Rating(v) > Rating(u)}

\* A ranking lists every player who has played once.
LEMMA RankingsList ==
    ASSUME NEW s \in Rankings
    PROVE  /\ IsFiniteSet(Ranked) /\ Cardinality(Ranked) \in Nat
           /\ s \in [1 .. Cardinality(Ranked) -> Ranked]
           /\ DOMAIN s = 1 .. Cardinality(Ranked)
           /\ \A i, j \in DOMAIN s : i # j => s[i] # s[j]
           /\ \A u \in Ranked : \E i \in DOMAIN s : s[i] = u
           /\ \A i, j \in DOMAIN s : i < j => Rating(s[i]) >= Rating(s[j])
<1>1. IsFiniteSet(Ranked) /\ Cardinality(Ranked) \in Nat
  BY RatingAssumption, FS_Subset, FS_CardinalityType DEF Ranked
<1> DEFINE D == 1 .. Cardinality(Ranked)
<1>2. s \in [D -> Ranked] /\ \A i, j \in D : i # j => s[i] # s[j]
  BY Zenon DEF Rankings, SetToSeqs, Ranked
<1>3. s \in Injection(D, Ranked)
  BY <1>2 DEF Injection, IsInjective
<1>4. IsFiniteSet(D) /\ Cardinality(D) = Cardinality(Ranked)
  BY <1>1, FS_Interval
<1>5. s \in Surjection(D, Ranked)
  <2> HIDE DEF D
  <2> QED BY <1>1, <1>3, <1>4, FS_Injection
<1>6. \A u \in Ranked : \E i \in D : s[i] = u
  BY <1>5 DEF Surjection
<1>7. \A i, j \in DOMAIN s : i < j => Rating(s[i]) >= Rating(s[j])
  BY DEF Rankings, Rating
<1> QED BY <1>1, <1>2, <1>6, <1>7

\* While no ratings are the same, the players listed before one are those of a
\* better rating, in whatever order the query finds them.
LEMMA RankCounts ==
    ASSUME LeaderboardTypes, NEW s \in Rankings, NEW i \in DOMAIN s,
           \A u, v \in Ranked : u # v => Rating(u) # Rating(v)
    PROVE  i = Cardinality(Better(s[i])) + 1
<1> DEFINE n == Cardinality(Ranked)
           before == 1 .. i - 1
           f == [j \in before |-> s[j]]
<1>1. /\ n \in Nat /\ s \in [1 .. n -> Ranked] /\ DOMAIN s = 1 .. n
      /\ \A j, k \in 1 .. n : j # k => s[j] # s[k]
      /\ \A u \in Ranked : \E j \in 1 .. n : s[j] = u
      /\ \A j, k \in 1 .. n : j < k => Rating(s[j]) >= Rating(s[k])
  BY RankingsList
<1>2. \A u \in Ranked : Rating(u) \in Nat
  BY DEF LeaderboardTypes, Rows, Ranked, Rating
<1> HIDE DEF n
<1>3. i \in 1 .. n /\ before \subseteq 1 .. n /\ i \in Nat
  BY <1>1
<1>4. ASSUME NEW j \in before PROVE s[j] \in Better(s[i])
  <2>1. j \in 1 .. n /\ j < i /\ j # i
    BY <1>1, <1>3
  <2>2. s[j] \in Ranked /\ s[i] \in Ranked /\ s[j] # s[i]
    BY <1>1, <1>3, <2>1
  <2>3. Rating(s[j]) >= Rating(s[i]) /\ Rating(s[j]) # Rating(s[i])
    BY <1>1, <1>3, <2>1, <2>2
  <2> QED BY <1>2, <2>2, <2>3 DEF Better
<1>5. ASSUME NEW v \in Better(s[i]) PROVE \E j \in before : s[j] = v
  <2>1. v \in Ranked /\ Rating(v) > Rating(s[i]) /\ s[i] \in Ranked
    BY <1>1, <1>3 DEF Better
  <2>2. PICK j \in 1 .. n : s[j] = v
    BY <1>1, <2>1
  <2>3. ~(i =< j)
    <3>1. i < j => Rating(s[i]) >= Rating(s[j])
      BY <1>1, <1>3
    <3> QED BY <1>2, <1>3, <2>1, <2>2, <3>1
  <2> QED BY <1>3, <2>2, <2>3
<1>6. /\ f \in [before -> Better(s[i])]
      /\ \A j, k \in before : f[j] = f[k] => j = k
      /\ \A v \in Better(s[i]) : \E j \in before : f[j] = v
  <2> HIDE DEF before
  <2>1. \A j \in before : f[j] = s[j]
    OBVIOUS
  <2>2. \A j, k \in before : s[j] = s[k] => j = k
    BY <1>1, <1>3
  <2> QED BY <1>4, <1>5, <2>1, <2>2
<1>7. IsFiniteSet(before) /\ Cardinality(before) = i - 1
  <2>1. i - 1 \in Int /\ 1 \in Int /\ i - 1 >= 0
    BY <1>3
  <2>2. /\ IsFiniteSet(1 .. i - 1)
        /\ Cardinality(1 .. i - 1) = IF 1 > i - 1 THEN 0 ELSE (i - 1) - 1 + 1
    BY <2>1, FS_Interval
  <2> QED BY <2>1, <2>2
<1> HIDE DEF f, before
<1>8. Cardinality(Better(s[i])) = Cardinality(before)
  BY <1>6, <1>7, SameCount
<1> QED BY <1>3, <1>7, <1>8

\* The first of a sequence, alone
LEMMA FirstAlone ==
    ASSUME NEW V, NEW t \in Seq(V), Len(t) >= 1
    PROVE  SubSeq(t, 1, 1) = <<t[1]>>
<1> DEFINE a == SubSeq(t, 1, 1)
           b == <<t[1]>>
<1>1. a \in Seq(V) /\ Len(a) = 1 /\ a[1] = t[1]
  OBVIOUS
<1>2. b \in Seq(V) /\ Len(b) = 1 /\ b[1] = t[1]
  OBVIOUS
<1> HIDE DEF a, b
<1>3. a = b
  BY <1>1, <1>2, SeqEqual
<1> QED BY <1>3 DEF a, b

\* The page of one row at the rank getPlayerRank gives shows the player.
LEMMA PageShows ==
    ASSUME NEW n \in Nat, NEW V, NEW s \in [1 .. n -> V], NEW r \in 1 .. n
    PROVE  GetTopPlayers(s, 1, r - 1) = <<s[r]>>
<1> DEFINE rest == SubSeq(s, (r - 1) + 1, Len(s))
<1>1. s \in Seq(V) /\ Len(s) = n
  OBVIOUS
<1>2. /\ rest \in Seq(V) /\ Len(rest) = n - r + 1 /\ rest[1] = s[r]
  BY <1>1
<1> HIDE DEF rest
<1>3. 1 =< Len(rest)
  BY <1>2
<1>4. GetTopPlayers(s, 1, r - 1) = SubSeq(rest, 1, 1)
  <2>1. GetTopPlayers(s, 1, r - 1) = SubSeq(rest, 1, IF 1 =< Len(rest) THEN 1 ELSE Len(rest))
    BY Zenon DEF GetTopPlayers, Limited, rest
  <2> QED BY <1>3, <2>1
<1>5. SubSeq(rest, 1, 1) = <<rest[1]>>
  <2>1. rest \in Seq(V) /\ Len(rest) >= 1
    BY <1>2, <1>3
  <2> QED BY <2>1, FirstAlone
<1> QED BY <1>2, <1>4, <1>5

\* The query of those near a player finds him while fewer than it may show stand
\* beside or above him in the band.
LEMMA NearbyHasHim ==
    ASSUME LeaderboardTypes, Band \in Nat, NEW s \in Rankings, NEW u \in Ranked, NEW range \in {0, 1},
           NEW old \in Rating(u) - range * Band .. Rating(u) + range * Band,
           Cardinality({v \in Ranked \ {u} : /\ Rating(v) >= Rating(u)
                                            /\ Rating(v) =< old + range * Band})
               < 2 * range + 1
    PROVE  u \in GetNearbyRanks(s, old, range)
<1> DEFINE n == Cardinality(Ranked)
           ahead == {v \in Ranked \ {u} : /\ Rating(v) >= Rating(u)
                                         /\ Rating(v) =< old + range * Band}
           inBand == {i \in DOMAIN s : /\ Rating(s[i]) >= old - range * Band
                                       /\ Rating(s[i]) =< old + range * Band}
<1>1. /\ n \in Nat /\ s \in [1 .. n -> Ranked] /\ DOMAIN s = 1 .. n
      /\ \A j, k \in 1 .. n : j # k => s[j] # s[k]
      /\ \A j, k \in 1 .. n : j < k => Rating(s[j]) >= Rating(s[k])
      /\ IsFiniteSet(Ranked)
  BY RankingsList
<1>2. /\ \A v \in Ranked : Rating(v) \in Nat
      /\ range * Band \in Nat /\ range \in Nat
  BY DEF LeaderboardTypes, Rows, Ranked, Rating
<1>12. /\ Rating(u) \in Int /\ old \in Int
       /\ old - range * Band =< Rating(u) /\ Rating(u) =< old + range * Band
  BY <1>2
<1>3. PICK i \in 1 .. n : s[i] = u
  BY RankingsList
<1> HIDE DEF n
<1>4. GetNearbyRanks(s, old, range)
         = {s[j] : j \in {k \in inBand : Cardinality(inBand \cap 1 .. k - 1) < 2 * range + 1}}
  BY DEF GetNearbyRanks, Rating
<1>5. i \in inBand
  BY <1>1, <1>3, <1>12
<1> DEFINE before == inBand \cap 1 .. i - 1
           f == [j \in before |-> s[j]]
<1>6. ASSUME NEW j \in before PROVE s[j] \in ahead /\ j \in 1 .. n
  <2>1. j \in 1 .. n /\ j < i /\ j # i
    BY <1>1
  <2>2. s[j] \in Ranked /\ s[j] # u /\ Rating(s[j]) >= Rating(u)
    BY <1>1, <1>3, <2>1
  <2> QED BY <2>1, <2>2
<1>7. IsFiniteSet(ahead) /\ Cardinality(ahead) \in Nat
  <2>1. ahead \in SUBSET Ranked
    OBVIOUS
  <2> HIDE DEF ahead
  <2> QED BY <1>1, <2>1, FS_Subset, FS_CardinalityType
<1>8. Cardinality(ahead) < 2 * range + 1
  OBVIOUS
<1> HIDE DEF ahead
<1>9. IsFiniteSet(before) /\ Cardinality(before) =< Cardinality(ahead)
  <2> HIDE DEF before
  <2>1. \A j \in before : f[j] = s[j]
    OBVIOUS
  <2>2. f \in [before -> ahead]
    BY <1>6
  <2>3. \A j, k \in before : f[j] = f[k] => j = k
    BY <1>1, <1>6, <2>1
  <2> HIDE DEF f
  <2> QED BY <1>7, <2>2, <2>3, NoMore
<1>10. Cardinality(before) \in Nat
  <2> HIDE DEF before
  <2> QED BY <1>9, FS_CardinalityType
<1>11. Cardinality(before) < 2 * range + 1
  BY <1>2, <1>7, <1>8, <1>9, <1>10
<1> HIDE DEF inBand
<1> QED BY <1>3, <1>4, <1>5, <1>11

\* The queries agree with each other and with the rows (RanksMatchRows, of
\* getTopPlayers, getPlayerRank and getNearbyRanks).
LEMMA RanksAgree ==
    ASSUME LeaderboardTypes, Band \in Nat
    PROVE  RanksMatchRows
<1> DEFINE tied == \E u, v \in Ranked : u # v /\ Rating(u) = Rating(v)
           ahead(u, top) == {v \in Ranked \ {u} : Rating(v) >= Rating(u) /\ Rating(v) =< top}
<1>1. ASSUME ~tied, NEW u \in Ranked, NEW first \in Rankings, NEW second \in Rankings,
             NEW r \in GetPlayerRank(second, u)
      PROVE  GetTopPlayers(first, 1, r - 1) = <<u>>
  <2>1. /\ first \in [1 .. Cardinality(Ranked) -> Ranked] /\ Cardinality(Ranked) \in Nat
        /\ DOMAIN first = 1 .. Cardinality(Ranked) /\ DOMAIN second = 1 .. Cardinality(Ranked)
    BY RankingsList
  <2>2. r \in DOMAIN second /\ second[r] = u
    BY DEF GetPlayerRank
  <2>3. PICK i \in DOMAIN first : first[i] = u
    BY RankingsList
  <2>4. \A v, w \in Ranked : v # w => Rating(v) # Rating(w)
    BY <1>1
  <2> HIDE DEF tied
  <2>5. i = Cardinality(Better(u)) + 1 /\ r = Cardinality(Better(u)) + 1
    BY <2>2, <2>3, <2>4, RankCounts
  <2>6. first[r] = u /\ r \in 1 .. Cardinality(Ranked)
    BY <2>1, <2>2, <2>3, <2>5
  <2> QED BY <2>1, <2>6, PageShows
<1>2. ASSUME NEW u \in Ranked, NEW first \in Rankings, NEW range \in {0, 1},
             NEW old \in Rating(u) - range * Band .. Rating(u) + range * Band,
             Cardinality(ahead(u, old + range * Band)) < 2 * range + 1
      PROVE  u \in GetNearbyRanks(first, old, range)
  BY <1>2, NearbyHasHim
<1> QED BY <1>1, <1>2, Zenon DEF RanksMatchRows, Ranked, Rating

\* Rows, history and queries tell the same, however the processing of results
\* interleaves and wherever it fails: the property of the leaderboard.
THEOREM HistoryStaysTrue == LeaderboardSpec => []HistoryAgrees
<1>1. LeaderboardInv => RanksMatchRows
  BY RanksAgree, RatingAssumption DEF LeaderboardInv
<1> QED BY <1>1, LeaderboardHolds, RowsMatchHistory, PTL DEF HistoryAgrees

(***************************************************************************)
(* The shuffle.                                                            *)
(***************************************************************************)

Index == 0 .. DeckSize - 1
Decks == [Index -> Index]
Orders == {order \in Decks : \A i, j \in Index : i # j => order[i] # order[j]}
Complete(deck) == \A v \in Index : \E i \in Index : deck[i] = v

Exchanged(deck, i, j) == [deck EXCEPT ![i] = deck[j], ![j] = deck[i]]

\* The deck before the first exchange and after each
Trace(left, picks) ==
    /\ left \in [0 .. DeckSize - 1 -> Decks]
    /\ left[0] = [i \in Index |-> i]
    /\ \A k \in 1 .. DeckSize - 1 :
          left[k] = Exchanged(left[k - 1], DeckSize - k, picks[DeckSize - k])

\* The exchanged cards, and the others
LEMMA ExchangeMoves ==
    ASSUME NEW deck \in Decks, NEW i \in Index, NEW j \in Index
    PROVE  /\ Exchanged(deck, i, j) \in Decks
           /\ Exchanged(deck, i, j)[i] = deck[j]
           /\ Exchanged(deck, i, j)[j] = deck[i]
           /\ \A k \in Index \ {i, j} : Exchanged(deck, i, j)[k] = deck[k]
BY DEF Exchanged, Decks

\* An exchange loses no card and doubles none.
LEMMA ExchangeKeeps ==
    ASSUME NEW deck \in Orders, Complete(deck), NEW i \in Index, NEW j \in Index
    PROVE  Exchanged(deck, i, j) \in Orders /\ Complete(Exchanged(deck, i, j))
<1> DEFINE after == Exchanged(deck, i, j)
<1>1. deck \in Decks /\ \A k, l \in Index : k # l => deck[k] # deck[l]
  BY DEF Orders
<1>2. /\ after \in Decks /\ after[i] = deck[j] /\ after[j] = deck[i]
      /\ \A k \in Index \ {i, j} : after[k] = deck[k]
  BY <1>1, ExchangeMoves
<1> HIDE DEF after
<1>3. \A k, l \in Index : k # l => after[k] # after[l]
  BY <1>1, <1>2
<1>4. ASSUME NEW v \in Index PROVE \E k \in Index : after[k] = v
  <2>1. PICK k \in Index : deck[k] = v
    BY DEF Complete
  <2> QED BY <1>2, <2>1
<1> QED BY <1>2, <1>3, <1>4 DEF Orders, Complete, after

\* The recursive definition of the shuffle is one.
LEMMA ShuffleTrace ==
    ASSUME NEW picks \in Picks
    PROVE  \E left : Trace(left, picks) /\ Shuffled(picks) = left[DeckSize - 1]
<1> DEFINE N == DeckSize - 1
           first == [i \in Index |-> i]
           next == [k \in 1 .. N |-> [deck \in Decks |-> Exchanged(deck, DeckSize - k, picks[DeckSize - k])]]
           Unfolds(f) == f = [n \in 0 .. DeckSize - 1 |->
                                 IF n = 0 THEN [i \in 0 .. DeckSize - 1 |-> i]
                                 ELSE [f[n - 1] EXCEPT
                                         ![DeckSize - n] = f[n - 1][picks[DeckSize - n]],
                                         ![picks[DeckSize - n]] = f[n - 1][DeckSize - n]]]
<1>1. N \in Nat /\ DeckSize \in Nat /\ DeckSize = N + 1
  BY ShuffleAssumption
<1>2. \A k \in 1 .. N : DeckSize - k \in Index /\ picks[DeckSize - k] \in Index
  BY <1>1 DEF Picks, Index
<1>3. first \in Decks
  BY DEF Decks
<1>4. \A k \in 1 .. N : \A deck \in Decks :
         /\ Exchanged(deck, DeckSize - k, picks[DeckSize - k]) \in Decks
         /\ next[k][deck] = Exchanged(deck, DeckSize - k, picks[DeckSize - k])
  BY <1>2, ExchangeMoves
<1>5. PICK f \in [0 .. N -> Decks] :
         f[0] = first /\ \A k \in 1 .. N : f[k] = next[k][f[k - 1]]
  <2> HIDE DEF next, N, first
  <2>1. \A k \in 1 .. N : \A deck \in Decks : next[k][deck] \in Decks
    BY <1>4
  <2>2. Built(N, Decks, first, next) # {}
    BY <1>1, <1>3, <2>1, StepByStep
  <2> QED BY <2>2 DEF Built
<1> HIDE DEF next, first
<1>6. \A k \in 1 .. N : f[k - 1] \in Decks
                        /\ f[k] = Exchanged(f[k - 1], DeckSize - k, picks[DeckSize - k])
  <2> SUFFICES ASSUME NEW k \in 1 .. N
               PROVE  /\ f[k - 1] \in Decks
                      /\ f[k] = Exchanged(f[k - 1], DeckSize - k, picks[DeckSize - k])
    OBVIOUS
  <2>1. k - 1 \in 0 .. N
    BY <1>1
  <2>2. f[k - 1] \in Decks
    BY <1>5, <2>1
  <2> QED BY <1>4, <1>5, <2>2
<1>7. Unfolds(f)
  <2>1. ASSUME NEW n \in 0 .. DeckSize - 1
        PROVE  f[n] = IF n = 0 THEN [i \in 0 .. DeckSize - 1 |-> i]
                      ELSE [f[n - 1] EXCEPT
                              ![DeckSize - n] = f[n - 1][picks[DeckSize - n]],
                              ![picks[DeckSize - n]] = f[n - 1][DeckSize - n]]
    <3>1. CASE n = 0
      BY <1>5, <3>1 DEF first, Index
    <3>2. CASE n # 0
      <4>1. n \in 1 .. N
        BY <3>2
      <4> QED BY <1>6, <3>2, <4>1, Zenon DEF Exchanged
    <3> QED BY <3>1, <3>2
  <2> QED BY <1>5, <2>1, Zenon
<1> DEFINE left == CHOOSE g : Unfolds(g)
<1>8. Unfolds(left)
  BY <1>7, Zenon
<1>9. Shuffled(picks) = left[DeckSize - 1]
  BY Zenon DEF Shuffled
<1> HIDE DEF left
<1>10. /\ left[0] = first
       /\ \A k \in 1 .. N : left[k] = Exchanged(left[k - 1], DeckSize - k, picks[DeckSize - k])
  <2>1. 0 \in 0 .. DeckSize - 1 /\ \A k \in 1 .. N : k \in 0 .. DeckSize - 1 /\ k # 0
    BY <1>1
  <2>2. left[0] = first
    BY <1>8, <2>1 DEF first, Index
  <2>3. ASSUME NEW k \in 1 .. N
        PROVE  left[k] = Exchanged(left[k - 1], DeckSize - k, picks[DeckSize - k])
    BY <1>8, <2>1, Zenon DEF Exchanged
  <2> QED BY <2>2, <2>3
<1>11. left \in [0 .. N -> Decks]
  <2> DEFINE S == {k \in 0 .. N : left[k] \in Decks}
  <2>1. 0 \in S
    BY <1>1, <1>3, <1>10
  <2>2. ASSUME NEW k \in 0 .. N - 1, k \in S PROVE k + 1 \in S
    <3>1. k + 1 \in 1 .. N /\ (k + 1) - 1 = k
      BY <1>1
    <3>2. /\ left[k] \in Decks /\ DeckSize - (k + 1) \in Index
          /\ picks[DeckSize - (k + 1)] \in Index
      BY <1>2, <2>2, <3>1
    <3>3. Exchanged(left[k], DeckSize - (k + 1), picks[DeckSize - (k + 1)]) \in Decks
      BY <3>2, ExchangeMoves
    <3>4. left[k + 1] = Exchanged(left[k], DeckSize - (k + 1), picks[DeckSize - (k + 1)])
      BY <1>10, <3>1
    <3> QED BY <3>1, <3>3, <3>4
  <2> HIDE DEF S, N
  <2>3. \A k \in 0 .. N : k \in S
    BY <1>1, <2>1, <2>2, CountUp
  <2>4. \A k \in 0 .. N : left[k] \in Decks
    BY <2>3 DEF S
  <2> QED BY <1>8, <2>4 DEF N
<1> QED BY <1>9, <1>10, <1>11 DEF Trace, first

\* Every trace holds whole decks only.
LEMMA TraceOrders ==
    ASSUME NEW picks \in Picks, NEW left, Trace(left, picks)
    PROVE  /\ \A k \in 0 .. DeckSize - 1 : left[k] \in Orders /\ Complete(left[k])
           /\ \A k \in 0 .. DeckSize - 2 :
                 /\ left[k + 1] = Exchanged(left[k], DeckSize - (k + 1), picks[DeckSize - (k + 1)])
                 /\ DeckSize - (k + 1) \in Index /\ picks[DeckSize - (k + 1)] \in Index
                 /\ picks[DeckSize - (k + 1)] =< DeckSize - (k + 1)
<1> DEFINE S == {k \in 0 .. DeckSize - 1 : left[k] \in Orders /\ Complete(left[k])}
<1>1. DeckSize \in Nat /\ DeckSize - 1 \in Nat
  BY ShuffleAssumption
<1>2. 0 \in S
  <2>1. left[0] = [i \in Index |-> i] /\ 0 \in 0 .. DeckSize - 1
    BY <1>1 DEF Trace
  <2> QED BY <2>1 DEF Orders, Decks, Complete
<1>3. ASSUME NEW k \in 0 .. DeckSize - 2
      PROVE  /\ left[k + 1] = Exchanged(left[k], DeckSize - (k + 1), picks[DeckSize - (k + 1)])
             /\ DeckSize - (k + 1) \in Index /\ picks[DeckSize - (k + 1)] \in Index
             /\ picks[DeckSize - (k + 1)] =< DeckSize - (k + 1)
  <2>1. k + 1 \in 1 .. DeckSize - 1 /\ (k + 1) - 1 = k
        /\ DeckSize - (k + 1) \in 1 .. DeckSize - 1
    BY <1>1
  <2>2. left[k + 1] = Exchanged(left[k], DeckSize - (k + 1), picks[DeckSize - (k + 1)])
    BY <2>1 DEF Trace
  <2>3. picks[DeckSize - (k + 1)] \in 0 .. DeckSize - (k + 1)
    BY <2>1 DEF Picks, Drawn
  <2> QED BY <1>1, <2>1, <2>2, <2>3 DEF Index
<1>4. ASSUME NEW k \in 0 .. (DeckSize - 1) - 1, k \in S PROVE k + 1 \in S
  <2>1. k \in 0 .. DeckSize - 2 /\ k + 1 \in 0 .. DeckSize - 1
    BY <1>1
  <2>2. left[k] \in Orders /\ Complete(left[k])
    BY <1>4
  <2> DEFINE next == Exchanged(left[k], DeckSize - (k + 1), picks[DeckSize - (k + 1)])
  <2>3. next \in Orders /\ Complete(next) /\ left[k + 1] = next
    BY <1>3, <2>1, <2>2, ExchangeKeeps
  <2> HIDE DEF next
  <2> QED BY <2>1, <2>3
<1> HIDE DEF S
<1>5. \A k \in 0 .. DeckSize - 1 : k \in S
  BY <1>1, <1>2, <1>4, CountUp
<1> QED BY <1>3, <1>5 DEF S

\* What is exchanged once stays: the k-th exchange is the last to touch the
\* card at the k-th place from the end.
LEMMA TraceStays ==
    ASSUME NEW picks \in Picks, NEW left, Trace(left, picks), NEW n \in 0 .. DeckSize - 1,
           NEW i \in Index, i >= DeckSize - n
    PROVE  left[DeckSize - 1][i] = left[n][i]
<1> DEFINE S == {k \in 0 .. DeckSize - 1 : k >= n => left[k][i] = left[n][i]}
<1>1. DeckSize \in Nat /\ DeckSize - 1 \in Nat
  BY ShuffleAssumption
<1>2. 0 \in S
  BY <1>1
<1>3. ASSUME NEW k \in 0 .. (DeckSize - 1) - 1, k \in S PROVE k + 1 \in S
  <2>1. k \in 0 .. DeckSize - 2 /\ k + 1 \in 0 .. DeckSize - 1 /\ k \in 0 .. DeckSize - 1
    BY <1>1
  <2>2. CASE k + 1 = n
    BY <2>1, <2>2
  <2>3. CASE k + 1 < n
    BY <2>1, <2>3
  <2>4. CASE k >= n
    <3> DEFINE e == DeckSize - (k + 1)
    <3>1. /\ left[k + 1] = Exchanged(left[k], e, picks[e])
          /\ e \in Index /\ picks[e] \in Index /\ picks[e] =< e /\ left[k] \in Decks
      BY <2>1, TraceOrders DEF Orders
    <3>2. i > e
      BY <1>1, <2>1, <2>4 DEF Index
    <3> HIDE DEF e
    <3>3. PICK d \in Index, deck \in Decks : d = picks[e] /\ d =< e /\ deck = left[k]
      BY <3>1
    <3>4. left[k + 1][i] = left[k][i]
      <4>1. i \in Index \ {e, d}
        BY <1>1, <3>1, <3>2, <3>3 DEF Index
      <4>2. Exchanged(deck, e, d)[i] = deck[i]
        BY <3>1, <4>1, ExchangeMoves
      <4> QED BY <3>1, <3>3, <4>2
    <3>5. left[k][i] = left[n][i]
      BY <1>3, <2>4
    <3> QED BY <2>1, <3>4, <3>5
  <2> QED BY <2>1, <2>2, <2>3, <2>4
<1> HIDE DEF S
<1>4. \A k \in 0 .. DeckSize - 1 : k \in S
  BY <1>1, <1>2, <1>3, CountUp
<1>5. DeckSize - 1 \in S
  BY <1>1, <1>4
<1> QED BY <1>1, <1>5 DEF S

\* The first n exchanges depend on the first n draws.
LEMMA TracesAgree ==
    ASSUME NEW p \in Picks, NEW q \in Picks, NEW l, NEW m, Trace(l, p), Trace(m, q),
           NEW n \in 0 .. DeckSize - 1, \A k \in 1 .. n : p[DeckSize - k] = q[DeckSize - k]
    PROVE  l[n] = m[n]
<1> DEFINE S == {k \in 0 .. n : l[k] = m[k]}
<1>1. DeckSize \in Nat /\ n \in Nat /\ n =< DeckSize - 1
  BY ShuffleAssumption
<1>2. 0 \in S
  BY <1>1 DEF Trace
<1>3. ASSUME NEW k \in 0 .. n - 1, k \in S PROVE k + 1 \in S
  <2>1. k \in 0 .. DeckSize - 2 /\ k + 1 \in 1 .. n
    BY <1>1
  <2>2. p[DeckSize - (k + 1)] = q[DeckSize - (k + 1)]
    BY <2>1
  <2>3. /\ l[k + 1] = Exchanged(l[k], DeckSize - (k + 1), p[DeckSize - (k + 1)])
        /\ m[k + 1] = Exchanged(m[k], DeckSize - (k + 1), q[DeckSize - (k + 1)])
    BY <2>1, TraceOrders
  <2>4. l[k + 1] = m[k + 1]
    BY <1>3, <2>2, <2>3
  <2> QED BY <2>1, <2>4
<1> HIDE DEF S
<1>4. \A k \in 0 .. n : k \in S
  BY <1>1, <1>2, <1>3, CountUp
<1> QED BY <1>1, <1>4 DEF S

\* Different draws make different orders.
LEMMA DrawsDiffer ==
    ASSUME NEW p \in Picks, NEW q \in Picks, Shuffled(p) = Shuffled(q)
    PROVE  p = q
<1>1. DeckSize \in Nat /\ DeckSize - 1 \in Nat
  BY ShuffleAssumption
<1>2. PICK l : Trace(l, p) /\ Shuffled(p) = l[DeckSize - 1]
  BY ShuffleTrace
<1>3. PICK m : Trace(m, q) /\ Shuffled(q) = m[DeckSize - 1]
  BY ShuffleTrace
<1> DEFINE S == {n \in 0 .. DeckSize - 1 : \A k \in 1 .. n : p[DeckSize - k] = q[DeckSize - k]}
<1>4. 0 \in S
  BY <1>1
<1>5. ASSUME NEW n \in 0 .. (DeckSize - 1) - 1, n \in S PROVE n + 1 \in S
  <2>1. n \in 0 .. DeckSize - 2 /\ n + 1 \in 0 .. DeckSize - 1 /\ n \in 0 .. DeckSize - 1
    BY <1>1
  <2>2. l[n] = m[n]
    BY <1>2, <1>3, <1>5, <2>1, TracesAgree
  <2>3. PICK i \in Index : i = DeckSize - (n + 1)
    BY <1>2, <2>1, TraceOrders
  <2>4. /\ l[n + 1] = Exchanged(l[n], i, p[i]) /\ p[i] \in Index
        /\ m[n + 1] = Exchanged(m[n], i, q[i]) /\ q[i] \in Index
        /\ l[n] \in Orders
    BY <1>2, <1>3, <2>1, <2>3, TraceOrders
  <2>5. l[n] \in Decks /\ \A a, b \in Index : a # b => l[n][a] # l[n][b]
    BY <2>4 DEF Orders
  <2>6. l[n + 1][i] = l[n][p[i]] /\ m[n + 1][i] = l[n][q[i]]
    <3>1. PICK deck \in Decks, a \in Index, b \in Index : deck = l[n] /\ a = p[i] /\ b = q[i]
      BY <2>4, <2>5
    <3>2. Exchanged(deck, i, a)[i] = deck[a] /\ Exchanged(deck, i, b)[i] = deck[b]
      BY ExchangeMoves
    <3> QED BY <2>2, <2>4, <3>1, <3>2
  <2>8. l[DeckSize - 1][i] = l[n + 1][i] /\ m[DeckSize - 1][i] = m[n + 1][i]
    <3>1. i >= DeckSize - (n + 1)
      BY <2>3 DEF Index
    <3> QED BY <1>2, <1>3, <2>1, <3>1, TraceStays
  <2>9. p[i] = q[i]
    BY <1>2, <1>3, <2>4, <2>5, <2>6, <2>8
  <2>10. ASSUME NEW k \in 1 .. n + 1 PROVE p[DeckSize - k] = q[DeckSize - k]
    <3>1. CASE k = n + 1
      BY <2>3, <2>9, <3>1
    <3>2. CASE k # n + 1
      <4>1. k \in 1 .. n
        BY <2>1, <3>2
      <4> QED BY <1>5, <4>1
    <3> QED BY <3>1, <3>2
  <2> QED BY <2>1, <2>10
<1> HIDE DEF S
<1>6. \A n \in 0 .. DeckSize - 1 : n \in S
  BY <1>1, <1>4, <1>5, CountUp
<1>7. \A k \in 1 .. DeckSize - 1 : p[DeckSize - k] = q[DeckSize - k]
  <2>1. DeckSize - 1 \in S
    BY <1>1, <1>6
  <2> QED BY <2>1 DEF S
<1>8. ASSUME NEW i \in 1 .. DeckSize - 1 PROVE p[i] = q[i]
  <2>1. DeckSize - i \in 1 .. DeckSize - 1 /\ DeckSize - (DeckSize - i) = i
    BY <1>1
  <2> QED BY <1>7, <2>1
<1>9. p = [i \in 1 .. DeckSize - 1 |-> p[i]] /\ q = [i \in 1 .. DeckSize - 1 |-> q[i]]
  BY DEF Picks
<1>10. [i \in 1 .. DeckSize - 1 |-> p[i]] = [i \in 1 .. DeckSize - 1 |-> q[i]]
  BY <1>8
<1> QED BY <1>9, <1>10

\* Every order comes of some draws.
LEMMA OrdersDrawn ==
    ASSUME NEW order \in Orders
    PROVE  \E p \in Picks : Shuffled(p) = order
<1> DEFINE Agrees(deck, n) == \A i \in Index : i >= DeckSize - n => deck[i] = order[i]
           S == {n \in 0 .. DeckSize - 1 :
                    \E p \in Picks : \E l : Trace(l, p) /\ Agrees(l[n], n)}
<1>1. DeckSize \in Nat /\ DeckSize - 1 \in Nat
  BY ShuffleAssumption
<1>2. order \in Decks /\ \A i, j \in Index : i # j => order[i] # order[j]
  BY DEF Orders
<1>3. 0 \in S
  <2> DEFINE p == [i \in 1 .. DeckSize - 1 |-> 0]
  <2>1. p \in Picks
    BY <1>1 DEF Picks, Drawn
  <2> HIDE DEF p
  <2>2. PICK l : Trace(l, p)
    BY <2>1, ShuffleTrace
  <2>3. Agrees(l[0], 0)
    BY <1>1 DEF Index
  <2> QED BY <1>1, <2>1, <2>2, <2>3
<1>4. ASSUME NEW n \in 0 .. (DeckSize - 1) - 1, n \in S PROVE n + 1 \in S
  <2>1. n \in 0 .. DeckSize - 2 /\ n + 1 \in 0 .. DeckSize - 1 /\ n \in 0 .. DeckSize - 1
    BY <1>1
  <2> PICK p \in Picks : \E l : Trace(l, p) /\ Agrees(l[n], n)
    BY <1>4
  <2>2. PICK l : Trace(l, p) /\ Agrees(l[n], n)
    OBVIOUS
  <2>3. PICK i \in Index : i = DeckSize - (n + 1)
    BY <2>1, <2>2, TraceOrders
  <2>4. l[n] \in Decks /\ Complete(l[n])
    BY <2>1, <2>2, TraceOrders DEF Orders
  <2>5. PICK j \in Index : l[n][j] = order[i]
    <3>1. order[i] \in Index
      BY <1>2 DEF Decks
    <3> QED BY <2>4, <3>1 DEF Complete
  <2>6. j =< i
    <3>1. j > i => j >= DeckSize - n /\ j # i
      BY <1>1, <2>1, <2>3 DEF Index
    <3>2. ~(j > i)
      BY <1>2, <2>2, <2>5, <3>1
    <3> QED BY <3>2 DEF Index
  <2> DEFINE q == [p EXCEPT ![i] = j]
  <2>7. /\ q \in Picks /\ q[i] = j
        /\ \A k \in 1 .. n : q[DeckSize - k] = p[DeckSize - k]
    <3>1. i \in 1 .. DeckSize - 1
      BY <1>1, <2>1, <2>3
    <3>2. q \in Picks /\ q[i] = j
      BY <1>1, <2>6, <3>1 DEF Picks, Drawn, Index
    <3>3. \A k \in 1 .. n : DeckSize - k \in 1 .. DeckSize - 1 /\ DeckSize - k # i
      BY <1>1, <2>1, <2>3
    <3> QED BY <3>2, <3>3 DEF Picks
  <2> HIDE DEF q
  <2>8. PICK m : Trace(m, q)
    BY <2>7, ShuffleTrace
  <2>9. m[n] = l[n]
    BY <2>1, <2>2, <2>7, <2>8, TracesAgree
  <2>10. m[n + 1] = Exchanged(l[n], i, j)
    BY <2>1, <2>3, <2>7, <2>8, <2>9, TraceOrders
  <2>11. m[n + 1][i] = order[i] /\ \A k \in Index \ {i, j} : m[n + 1][k] = l[n][k]
    <3>1. PICK d \in Decks : d = l[n]
      BY <2>4
    <3>2. /\ Exchanged(d, i, j)[i] = d[j]
          /\ \A k \in Index \ {i, j} : Exchanged(d, i, j)[k] = d[k]
      BY ExchangeMoves
    <3> QED BY <2>5, <2>10, <3>1, <3>2
  <2>12. Agrees(m[n + 1], n + 1)
    <3> SUFFICES ASSUME NEW k \in Index, k >= DeckSize - (n + 1) PROVE m[n + 1][k] = order[k]
      OBVIOUS
    <3>1. CASE k = i
      BY <2>11, <3>1
    <3>2. CASE k # i
      <4>1. k >= DeckSize - n /\ k # j
        BY <1>1, <2>1, <2>3, <2>6, <3>2 DEF Index
      <4> QED BY <2>2, <2>11, <3>2, <4>1
    <3> QED BY <3>1, <3>2
  <2> HIDE DEF Agrees
  <2> QED BY <2>1, <2>7, <2>8, <2>12
<1>5. DeckSize - 1 \in S
  <2> HIDE DEF S
  <2>1. \A n \in 0 .. DeckSize - 1 : n \in S
    BY <1>1, <1>3, <1>4, CountUp
  <2> QED BY <1>1, <2>1
<1> PICK p \in Picks : \E l : Trace(l, p) /\ Agrees(l[DeckSize - 1], DeckSize - 1)
  BY <1>5
<1>6. PICK l : Trace(l, p) /\ Agrees(l[DeckSize - 1], DeckSize - 1)
  OBVIOUS
<1> DEFINE deck == l[DeckSize - 1]
<1>7. Shuffled(p) = deck
  <2>1. PICK m : Trace(m, p) /\ Shuffled(p) = m[DeckSize - 1]
    BY ShuffleTrace
  <2>2. DeckSize - 1 \in 0 .. DeckSize - 1
    BY <1>1
  <2>3. m[DeckSize - 1] = l[DeckSize - 1]
    BY <1>6, <2>1, <2>2, TracesAgree
  <2> QED BY <2>1, <2>3
<1>8. deck \in Orders /\ Complete(deck)
  BY <1>1, <1>6, TraceOrders
<1>9. \A i \in Index : i >= 1 => deck[i] = order[i]
  BY <1>1, <1>6
<1> HIDE DEF deck
<1>10. deck[0] = order[0]
  <2>1. 0 \in Index /\ order[0] \in Index
    BY <1>1, <1>2 DEF Index, Decks
  <2>2. PICK j \in Index : deck[j] = order[0]
    BY <1>8, <2>1 DEF Complete
  <2>3. ~(j >= 1)
    <3>1. j >= 1 => j # 0
      BY DEF Index
    <3> QED BY <1>2, <1>9, <2>1, <2>2, <3>1
  <2>4. j = 0
    BY <2>3 DEF Index
  <2> QED BY <2>2, <2>4
<1>11. deck = order
  <2>1. \A i \in Index : deck[i] = order[i]
    BY <1>9, <1>10 DEF Index
  <2> QED BY <1>2, <1>8, <2>1 DEF Orders, Decks
<1> QED BY <1>7, <1>11

\* There are finitely many sequences of draws.
LEMMA PicksFinite == IsFiniteSet(Picks)
<1> DEFINE I == 1 .. DeckSize - 1
           V == 0 .. DeckSize - 1
           T == SUBSET (I \X V)
           f == [p \in Picks |-> {<<i, p[i]>> : i \in I}]
<1>1. \A p \in Picks : p \in [I -> V]
  BY DEF Picks
<1>2. IsFiniteSet(T)
  <2>1. 1 \in Int /\ 0 \in Int /\ DeckSize - 1 \in Int
    BY ShuffleAssumption
  <2>2. IsFiniteSet(I) /\ IsFiniteSet(V)
    BY <2>1, FS_Interval
  <2> HIDE DEF I, V
  <2> QED BY <2>2, FS_Product, FS_SUBSET
<1> HIDE DEF I, V
<1>3. f \in [Picks -> T]
  BY <1>1
<1>4. ASSUME NEW p \in Picks, NEW q \in Picks, f[p] = f[q] PROVE p = q
  <2>1. {<<i, p[i]>> : i \in I} = {<<i, q[i]>> : i \in I}
    BY <1>4
  <2>2. ASSUME NEW i \in I PROVE p[i] = q[i]
    <3>1. <<i, p[i]>> \in {<<j, q[j]>> : j \in I}
      BY <2>1
    <3>2. PICK j \in I : <<i, p[i]>> = <<j, q[j]>>
      BY <3>1
    <3> QED BY <3>2
  <2>3. p = [i \in I |-> p[i]] /\ q = [i \in I |-> q[i]]
    BY <1>1
  <2>4. [i \in I |-> p[i]] = [i \in I |-> q[i]]
    BY <2>2
  <2> QED BY <2>3, <2>4
<1> HIDE DEF f, T
<1> QED BY <1>2, <1>3, <1>4, NoMore

\* As many orders as sequences of draws, and all the orders there are
LEMMA OrdersCounted ==
    /\ {Shuffled(picks) : picks \in Picks} = Orders
    /\ Cardinality(Orders) = Cardinality(Picks)
<1> DEFINE f == [picks \in Picks |-> Shuffled(picks)]
<1>1. ASSUME NEW picks \in Picks PROVE Shuffled(picks) \in Orders
  <2>1. PICK left : Trace(left, picks) /\ Shuffled(picks) = left[DeckSize - 1]
    BY ShuffleTrace
  <2>2. DeckSize - 1 \in 0 .. DeckSize - 1
    BY ShuffleAssumption
  <2> QED BY <2>1, <2>2, TraceOrders
<1>2. \A p \in Picks : f[p] = Shuffled(p)
  OBVIOUS
<1>3. f \in [Picks -> Orders]
  BY <1>1
<1> HIDE DEF f
<1>4. \A p, q \in Picks : f[p] = f[q] => p = q
  BY <1>2, DrawsDiffer
<1>5. \A order \in Orders : \E p \in Picks : f[p] = order
  BY <1>2, OrdersDrawn
<1>6. Cardinality(Orders) = Cardinality(Picks)
  BY <1>3, <1>4, <1>5, PicksFinite, SameCount
<1>7. {Shuffled(picks) : picks \in Picks} = Orders
  BY <1>1, OrdersDrawn
<1> QED BY <1>6, <1>7

(***************************************************************************)
(* The deal.                                                               *)
(***************************************************************************)

\* Multiples of a number
LEMMA Multiples ==
    ASSUME NEW a \in Nat, NEW b \in Nat, NEW z \in Nat
    PROVE  /\ a * z \in Nat /\ (a + 1) * z = a * z + z
           /\ a =< b => a * z =< b * z
<1>1. a * z \in Nat /\ (a + 1) * z = a * z + z
  OBVIOUS
<1>2. ASSUME a =< b PROVE a * z =< b * z
  <2>1. PICK c \in Nat : b = a + c
    <3>1. b - a \in Nat /\ b = a + (b - a)
      BY <1>2
    <3> QED BY <3>1
  <2>2. b * z = a * z + c * z /\ c * z \in Nat
    BY <2>1
  <2> QED BY <1>1, <2>2
<1> QED BY <1>1, <1>2

\* Every number is a multiple and a rest,
LEMMA Division ==
    ASSUME NEW z \in Nat \ {0}, NEW i \in Nat
    PROVE  \E q \in Nat : \E k \in 0 .. z - 1 : i = q * z + k
<1> DEFINE S == {n \in 0 .. i : \E q \in Nat : \E k \in 0 .. z - 1 : n = q * z + k}
<1>1. 0 \in S
  <2>1. 0 = 0 * z + 0 /\ 0 \in 0 .. z - 1 /\ 0 \in Nat
    OBVIOUS
  <2> QED BY <2>1
<1>2. ASSUME NEW n \in 0 .. i - 1, n \in S PROVE n + 1 \in S
  <2>1. PICK q \in Nat, k \in 0 .. z - 1 : n = q * z + k
    BY <1>2
  <2>2. (q + 1) * z = q * z + z /\ q * z \in Nat
    BY Multiples
  <2>3. CASE k = z - 1
    <3>1. PICK r \in Nat : r = q + 1
      OBVIOUS
    <3>2. n + 1 = r * z + 0 /\ 0 \in 0 .. z - 1
      BY <2>1, <2>2, <2>3, <3>1
    <3> QED BY <3>2
  <2>4. CASE k # z - 1
    <3>1. n + 1 = q * z + (k + 1) /\ k + 1 \in 0 .. z - 1
      BY <2>1, <2>2, <2>4
    <3> QED BY <3>1
  <2> QED BY <2>3, <2>4
<1> HIDE DEF S
<1>3. \A n \in 0 .. i : n \in S
  BY <1>1, <1>2, CountUp
<1>4. i \in S
  BY <1>3
<1> QED BY <1>4 DEF S

\* in one way.
LEMMA DivisionUnique ==
    ASSUME NEW z \in Nat \ {0}, NEW q \in Nat, NEW r \in Nat,
           NEW k \in 0 .. z - 1, NEW l \in 0 .. z - 1, q * z + k = r * z + l
    PROVE  q = r /\ k = l
<1>1. /\ q * z \in Nat /\ r * z \in Nat /\ q + 1 \in Nat /\ r + 1 \in Nat
      /\ (q + 1) * z = q * z + z /\ (r + 1) * z = r * z + z
  BY Multiples
<1>2. ~(q < r)
  <2>1. q < r => (q + 1) * z =< r * z
    BY <1>1, Multiples
  <2> QED BY <1>1, <2>1
<1>3. ~(r < q)
  <2>1. r < q => (r + 1) * z =< q * z
    BY <1>1, Multiples
  <2> QED BY <1>1, <2>1
<1>4. q = r
  BY <1>2, <1>3
<1> QED BY <1>1, <1>4

Blocks == 0 .. Seats * 3 - 1

\* The cards of a zone are those of a block of the deck.
ZoneAt(deck, b) == {deck[b * ZoneSize + k] : k \in 0 .. ZoneSize - 1}

\* The blocks and the draw pile share out the deck.
LEMMA BlocksShare ==
    /\ \A b \in Blocks : \A k \in 0 .. ZoneSize - 1 :
          b * ZoneSize + k \in Index /\ b * ZoneSize + k < 3 * Seats * ZoneSize
    /\ \A i \in Index : i < 3 * Seats * ZoneSize =>
          \E b \in Blocks : \E k \in 0 .. ZoneSize - 1 : i = b * ZoneSize + k
    /\ 3 * Seats * ZoneSize \in Nat
    /\ \A i \in 3 * Seats * ZoneSize .. DeckSize - 1 : i \in Index
<1> DEFINE total == Seats * 3
           dealt == total * ZoneSize
<1>1. /\ DeckSize \in Nat /\ total \in Nat /\ ZoneSize \in Nat \ {0}
      /\ dealt \in Nat /\ dealt =< DeckSize
  BY ShuffleAssumption, Multiples
<1>2. 3 * Seats * ZoneSize = dealt
  BY ShuffleAssumption
<1> HIDE DEF dealt
<1>3. ASSUME NEW b \in Blocks, NEW k \in 0 .. ZoneSize - 1
      PROVE  b * ZoneSize + k \in Index /\ b * ZoneSize + k < dealt
  <2>1. b \in Nat /\ b + 1 \in Nat /\ b + 1 =< total
    BY <1>1 DEF Blocks
  <2>2. /\ b * ZoneSize \in Nat /\ (b + 1) * ZoneSize = b * ZoneSize + ZoneSize
        /\ (b + 1) * ZoneSize =< total * ZoneSize
    BY <1>1, <2>1, Multiples
  <2>3. b * ZoneSize + ZoneSize =< dealt
    BY <2>2 DEF dealt
  <2> QED BY <1>1, <2>2, <2>3 DEF Index
<1>4. ASSUME NEW i \in Index, i < dealt
      PROVE  \E b \in Blocks : \E k \in 0 .. ZoneSize - 1 : i = b * ZoneSize + k
  <2>1. PICK q \in Nat, k \in 0 .. ZoneSize - 1 : i = q * ZoneSize + k
    <3>1. i \in Nat
      BY <1>1 DEF Index
    <3>2. \E q \in Nat : \E k \in 0 .. ZoneSize - 1 : i = q * ZoneSize + k
      BY <1>1, <3>1, Division
    <3> QED BY <3>2
  <2>2. ~(total =< q)
    <3>1. total =< q => dealt =< q * ZoneSize
      BY <1>1, Multiples DEF dealt
    <3>2. q * ZoneSize \in Nat
      BY <1>1, Multiples
    <3> QED BY <1>1, <1>4, <2>1, <3>1, <3>2 DEF Index
  <2>3. q \in Blocks
    BY <1>1, <2>2 DEF Blocks
  <2> QED BY <2>1, <2>3
<1>5. \A i \in dealt .. DeckSize - 1 : i \in Index
  BY <1>1 DEF Index
<1> QED BY <1>1, <1>2, <1>3, <1>4, <1>5

\* Of a whole deck each zone gets its cards, no two zones the same one.
LEMMA ZonesApart ==
    ASSUME NEW deck \in Orders
    PROVE  /\ \A b \in Blocks : Cardinality(ZoneAt(deck, b)) = ZoneSize
           /\ \A b, c \in Blocks : ZoneAt(deck, b) = ZoneAt(deck, c) => b = c
<1>1. deck \in Decks /\ \A i, j \in Index : i # j => deck[i] # deck[j]
  BY DEF Orders
<1>2. ZoneSize \in Nat \ {0} /\ \A b \in Blocks : b \in Nat
  BY ShuffleAssumption DEF Blocks
<1> DEFINE K == 0 .. ZoneSize - 1
<1>3. \A b \in Blocks : \A k \in K : b * ZoneSize + k \in Index
  BY BlocksShare
<1>4. ASSUME NEW b \in Blocks, NEW c \in Blocks, NEW k \in K, NEW l \in K,
             deck[b * ZoneSize + k] = deck[c * ZoneSize + l]
      PROVE  b = c /\ k = l
  <2>1. b * ZoneSize + k = c * ZoneSize + l
    <3>1. PICK i \in Index, j \in Index : i = b * ZoneSize + k /\ j = c * ZoneSize + l
      BY <1>3
    <3> QED BY <1>1, <1>4, <3>1
  <2>2. b \in Nat /\ c \in Nat /\ k \in 0 .. ZoneSize - 1 /\ l \in 0 .. ZoneSize - 1
    BY <1>2
  <2> QED BY <1>2, <2>1, <2>2, DivisionUnique
<1>5. ASSUME NEW b \in Blocks PROVE Cardinality(ZoneAt(deck, b)) = ZoneSize
  <2> DEFINE f == [k \in K |-> deck[b * ZoneSize + k]]
             Z == ZoneAt(deck, b)
  <2>1. Z = {deck[b * ZoneSize + k] : k \in K}
    BY DEF ZoneAt
  <2>2. IsFiniteSet(K) /\ Cardinality(K) = ZoneSize
    <3>1. 0 \in Int /\ ZoneSize - 1 \in Int /\ ~(0 > ZoneSize - 1)
      BY <1>2
    <3>2. Cardinality(K) = (ZoneSize - 1) - 0 + 1 /\ IsFiniteSet(K)
      BY <3>1, FS_Interval
    <3> QED BY <1>2, <3>2
  <2> HIDE DEF K, Z
  <2>3. \A k \in K : f[k] = deck[b * ZoneSize + k]
    OBVIOUS
  <2>4. f \in [K -> Z]
    BY <2>1
  <2> HIDE DEF f
  <2>5. \A k, l \in K : f[k] = f[l] => k = l
    BY <1>4, <2>3
  <2>6. \A v \in Z : \E k \in K : f[k] = v
    BY <2>1, <2>3
  <2>7. Cardinality(Z) = Cardinality(K)
    BY <2>2, <2>4, <2>5, <2>6, SameCount
  <2> QED BY <2>2, <2>7 DEF Z
<1>6. ASSUME NEW b \in Blocks, NEW c \in Blocks, ZoneAt(deck, b) = ZoneAt(deck, c) PROVE b = c
  <2>1. 0 \in K
    BY <1>2
  <2>2. deck[b * ZoneSize + 0] \in ZoneAt(deck, b)
    BY <2>1 DEF ZoneAt
  <2>3. PICK l \in K : deck[b * ZoneSize + 0] = deck[c * ZoneSize + l]
    BY <1>6, <2>2 DEF ZoneAt
  <2> QED BY <1>4, <2>1, <2>3
<1> QED BY <1>5, <1>6

\* The zones of the deal are the blocks.
LEMMA ZonesAreBlocks ==
    ASSUME NEW deck
    PROVE  Zones(DealCards(deck)) = {ZoneAt(deck, b) : b \in Blocks}
<1>1. Seats \in Nat
  BY ShuffleAssumption
<1>2. ASSUME NEW s \in 0 .. Seats - 1, NEW z \in 0 .. 2
      PROVE  DealCards(deck).zone[s][z] = ZoneAt(deck, 3 * s + z) /\ 3 * s + z \in Blocks
  BY <1>1 DEF DealCards, ZoneAt, Blocks
<1>3. ASSUME NEW b \in Blocks
      PROVE  \E s \in 0 .. Seats - 1 : \E z \in 0 .. 2 : b = 3 * s + z
  <2>1. PICK q \in Nat, k \in 0 .. 3 - 1 : b = q * 3 + k
    <3>1. b \in Nat /\ 3 \in Nat \ {0}
      BY <1>1 DEF Blocks
    <3>2. \E q \in Nat : \E k \in 0 .. 3 - 1 : b = q * 3 + k
      BY <3>1, Division
    <3> QED BY <3>2
  <2>2. q \in 0 .. Seats - 1 /\ k \in 0 .. 2 /\ b = 3 * q + k
    BY <1>1, <2>1 DEF Blocks
  <2> QED BY <2>2
<1> DEFINE zones == Zones(DealCards(deck))
           blocks == {ZoneAt(deck, b) : b \in Blocks}
<1>4. ASSUME NEW zone \in zones PROVE zone \in blocks
  <2>1. PICK s \in 0 .. Seats - 1, z \in 0 .. 2 : zone = DealCards(deck).zone[s][z]
    BY DEF Zones
  <2> QED BY <1>2, <2>1
<1>5. ASSUME NEW zone \in blocks PROVE zone \in zones
  <2>1. PICK b \in Blocks : zone = ZoneAt(deck, b)
    OBVIOUS
  <2>2. PICK s \in 0 .. Seats - 1, z \in 0 .. 2 : b = 3 * s + z
    BY <1>3
  <2>3. zone = DealCards(deck).zone[s][z]
    BY <1>2, <2>1, <2>2
  <2> QED BY <2>3 DEF Zones
<1> HIDE DEF zones, blocks
<1>6. zones = blocks
  <2>1. zones \subseteq blocks /\ blocks \subseteq zones
    BY <1>4, <1>5
  <2> QED BY <2>1
<1> QED BY <1>6 DEF zones, blocks

\* Every order of the deck is as likely as any other, and dealt completely
\* (ShuffleIsFair, of shuffle in rng.ts and dealCards in deck.ts).
THEOREM ShuffledFairly == ShuffleIsFair
<1> DEFINE orders == {Shuffled(picks) : picks \in Picks}
           zones(deck) == Zones(DealCards(deck))
<1>1. orders = Orders /\ Cardinality(orders) = Cardinality(Picks)
  BY OrdersCounted
<1>2. orders = {order \in [0 .. DeckSize - 1 -> 0 .. DeckSize - 1] :
                   \A i, j \in 0 .. DeckSize - 1 : i # j => order[i] # order[j]}
  BY <1>1 DEF Orders, Decks, Index
<1>3. ASSUME NEW deck \in orders
      PROVE  /\ (UNION zones(deck)) \cup DealCards(deck).draws = 0 .. DeckSize - 1
             /\ Cardinality(zones(deck)) = 3 * Seats
             /\ \A zone \in zones(deck) :
                   Cardinality(zone) = ZoneSize /\ zone \cap DealCards(deck).draws = {}
  <2> DEFINE start == 3 * Seats * ZoneSize
             draws == DealCards(deck).draws
             all == zones(deck)
  <2>1. deck \in Orders /\ Complete(deck)
    <3>1. PICK picks \in Picks : deck = Shuffled(picks)
      OBVIOUS
    <3>2. PICK left : Trace(left, picks) /\ Shuffled(picks) = left[DeckSize - 1]
      BY ShuffleTrace
    <3>3. DeckSize - 1 \in 0 .. DeckSize - 1
      BY ShuffleAssumption
    <3> QED BY <3>1, <3>2, <3>3, TraceOrders
  <2>2. deck \in Decks /\ \A i, j \in Index : i # j => deck[i] # deck[j]
    BY <2>1 DEF Orders
  <2>3. all = {ZoneAt(deck, b) : b \in Blocks}
    BY ZonesAreBlocks
  <2>4. draws = {deck[k] : k \in start .. DeckSize - 1}
    BY DEF DealCards
  <2> HIDE DEF orders, zones, start, draws, all
  <2>5. /\ start \in Nat /\ \A i \in start .. DeckSize - 1 : i \in Index
        /\ \A b \in Blocks : \A k \in 0 .. ZoneSize - 1 :
              b * ZoneSize + k \in Index /\ b * ZoneSize + k < start
        /\ \A i \in Index : i < start =>
              \E b \in Blocks : \E k \in 0 .. ZoneSize - 1 : i = b * ZoneSize + k
    BY BlocksShare DEF start
  <2>6. ASSUME NEW v \in Index PROVE v \in (UNION all) \cup draws
    <3>1. PICK i \in Index : deck[i] = v
      BY <2>1 DEF Complete
    <3>2. CASE i < start
      <4>1. PICK b \in Blocks, k \in 0 .. ZoneSize - 1 : i = b * ZoneSize + k
        BY <2>5, <3>2
      <4>2. v \in ZoneAt(deck, b)
        BY <3>1, <4>1 DEF ZoneAt
      <4> QED BY <2>3, <4>2
    <3>3. CASE ~(i < start)
      <4>1. i \in start .. DeckSize - 1
        BY <2>5, <3>3 DEF Index
      <4> QED BY <2>4, <3>1, <4>1
    <3> QED BY <3>2, <3>3
  <2>7. ASSUME NEW v \in (UNION all) \cup draws PROVE v \in Index
    <3>1. \E i \in Index : v = deck[i]
      BY <2>3, <2>4, <2>5 DEF ZoneAt
    <3> QED BY <2>2, <3>1 DEF Decks
  <2>8. (UNION all) \cup draws = 0 .. DeckSize - 1
    <3>1. (UNION all) \cup draws \subseteq Index /\ Index \subseteq (UNION all) \cup draws
      BY <2>6, <2>7
    <3> QED BY <3>1 DEF Index
  <2>9. Cardinality(all) = 3 * Seats
    <3> DEFINE f == [b \in Blocks |-> ZoneAt(deck, b)]
    <3>1. \A b \in Blocks : f[b] = ZoneAt(deck, b)
      OBVIOUS
    <3>2. f \in [Blocks -> all]
      BY <2>3
    <3> HIDE DEF f
    <3>3. \A b, c \in Blocks : f[b] = f[c] => b = c
      BY <2>1, <3>1, ZonesApart
    <3>4. \A zone \in all : \E b \in Blocks : f[b] = zone
      BY <2>3, <3>1
    <3>5. IsFiniteSet(Blocks) /\ Cardinality(Blocks) = 3 * Seats
      <4>1. 0 \in Int /\ Seats * 3 - 1 \in Int /\ Seats \in Nat
        BY ShuffleAssumption
      <4>2. /\ Cardinality(Blocks) = IF 0 > Seats * 3 - 1 THEN 0 ELSE (Seats * 3 - 1) - 0 + 1
            /\ IsFiniteSet(Blocks)
        BY <4>1, FS_Interval DEF Blocks
      <4> QED BY <4>1, <4>2
    <3>6. Cardinality(all) = Cardinality(Blocks)
      BY <3>2, <3>3, <3>4, <3>5, SameCount
    <3> QED BY <3>5, <3>6
  <2>10. ASSUME NEW zone \in all
         PROVE  Cardinality(zone) = ZoneSize /\ zone \cap draws = {}
    <3>1. PICK b \in Blocks : zone = ZoneAt(deck, b)
      BY <2>3
    <3>2. Cardinality(zone) = ZoneSize
      BY <2>1, <3>1, ZonesApart
    <3>3. ASSUME NEW v \in zone, v \in draws PROVE FALSE
      <4>1. PICK k \in 0 .. ZoneSize - 1 : v = deck[b * ZoneSize + k]
        BY <3>1 DEF ZoneAt
      <4>2. PICK i \in Index : i = b * ZoneSize + k /\ i < start
        BY <2>5
      <4>3. PICK j \in start .. DeckSize - 1 : v = deck[j]
        BY <2>4, <3>3
      <4>4. j \in Index /\ i # j
        BY <2>5, <4>2, <4>3 DEF Index
      <4> QED BY <2>2, <4>1, <4>2, <4>3, <4>4
    <3> QED BY <3>2, <3>3
  <2> QED BY <2>8, <2>9, <2>10 DEF all, draws
<1> HIDE DEF zones
<1> QED BY <1>1, <1>2, <1>3, Zenon DEF ShuffleIsFair, zones

\* Before the first turn the deal favours no order of the cards, and the players
\* agree on who starts (FairStart).
THEOREM StartIsFair == MCSpec => []FairStart
<1>1. DealIsFair
  BY ShuffledFairly DEF DealIsFair
<1> QED BY <1>1, StarterHoldsLowest, PTL DEF FairStart

(***************************************************************************)
(* The parts of the server explored together do not disturb each other.    *)
(***************************************************************************)

\* Each part runs by its own specification.
LEMMA PartsApart ==
    MCSpec => AuthSpec /\ LimiterSpec /\ LeaderboardSpec /\ MigratorSpec /\ ShutdownSpec
<1>1. MCInit => AuthInit /\ LimiterInit /\ LeaderboardInit /\ MigratorInit /\ ShutdownInit
  BY Zenon DEF MCInit
<1>2. [MCNext]_mcVars =>
         /\ [AuthNext]_authVars /\ [LimiterNext]_limiterVars /\ [LeaderboardNext]_leaderboardVars
         /\ [MigratorNext]_migratorVars /\ [ShutdownNext]_shutdownVars
  <2> SUFFICES ASSUME [MCNext]_mcVars
               PROVE  /\ [AuthNext]_authVars /\ [LimiterNext]_limiterVars
                      /\ [LeaderboardNext]_leaderboardVars
                      /\ [MigratorNext]_migratorVars /\ [ShutdownNext]_shutdownVars
    OBVIOUS
  <2>1. CASE UNCHANGED mcVars
    BY <2>1 DEF mcVars
  <2>2. CASE MCNext
    BY <2>2, Zenon DEF MCNext
  <2> QED BY <2>1, <2>2
<1> QED BY <1>1, <1>2, PTL
       DEF MCSpec, AuthSpec, LimiterSpec, LeaderboardSpec, MigratorSpec, ShutdownSpec

\* Together they keep what each of them promises.
COROLLARY ServicesHold ==
    MCSpec => [](/\ HonestIsKept /\ NoBurst /\ HistoryAgrees
                 /\ OneServerStarts /\ ShutdownKeepsGames /\ FairStart)
BY PartsApart, HonestStaysKept, NoBurstEver, HistoryStaysTrue, ServersStart, NoGameIsLost,
   StartIsFair, PTL
====
