---------------------------- MODULE ServiceProofs ----------------------------
(***************************************************************************)
(* Theorems about the services around a game: the migrator, the shutdown,  *)
(* the rate limiters, the leaderboard and the accounts, for any number of  *)
(* processes, games, requests, players and tokens.                         *)
(***************************************************************************)
EXTENDS Auth, RateLimiter, Leaderboard, Migrator, Shutdown,
        FiniteSetTheorems, SequenceTheorems, WellFoundedInduction, TLAPS

(***************************************************************************)
(* The migrator: whoever committed last has lost no race.                  *)
(***************************************************************************)

\* Nothing that p has still to apply has been applied.
Leads(p) ==
    /\ runner[p].pc \in {"next", "open", "serves"}
    /\ runner[p].pending \cap listed = {}

MigratorTypes ==
    /\ rollbacks \in Nat /\ crashes \in Nat
    /\ listed \subseteq Versions /\ schema = listed
    /\ runner \in [Processes -> [pc : {"starts", "next", "open", "failed", "serves"},
                                 pending : SUBSET Versions]]
    /\ \A p \in Processes : runner[p].pc = "open" => runner[p].pending # {}

\* The migrations are applied in their order, each in one transaction.
InSequence ==
    /\ \A v \in listed, w \in Versions : w =< v => w \in listed
    /\ \A p \in Processes :
          /\ runner[p].pc \in {"next", "open", "serves"} =>
                Versions \ runner[p].pending \subseteq listed
          /\ runner[p].pc = "open" => NextVersion(p) \notin listed
          /\ runner[p].pc = "serves" => runner[p].pending = {}
    /\ \A p, q \in Processes :
          runner[p].pc = "open" /\ runner[q].pc = "open" /\ p # q =>
              NextVersion(p) # NextVersion(q)

\* A race is lost to somebody who leads.
RaceIsWon ==
    /\ (\E p \in Processes : runner[p].pc = "failed") => listed # {}
    /\ listed # {} => \E p \in Processes : Leads(p)

MigratorInv ==
    /\ MigratorTypes
    /\ rollbacks = 0 => InSequence
    /\ rollbacks = 0 /\ crashes = 0 => RaceIsWon

\* A set of numbers that is not empty has a least element.
LEMMA LeastNumber ==
    ASSUME NEW T \in SUBSET Nat, T # {}
    PROVE  \E n \in T : \A m \in T : n =< m
<1>1. PICK n \in T : \A m \in T : ~(<<m, n>> \in OpToRel(<, Nat))
  BY NatLessThanWellFounded, WFMin, Zenon
<1>2. \A m \in T : ~(m < n)
  BY <1>1, Zenon DEF OpToRel
<1> QED BY <1>2

\* CHOOSE finds the least.
LEMMA NextVersionIsLeast ==
    ASSUME MigratorTypes, NEW p \in Processes, runner[p].pending # {}
    PROVE  /\ NextVersion(p) \in runner[p].pending /\ NextVersion(p) \in Nat
           /\ \A w \in runner[p].pending : NextVersion(p) =< w
<1> DEFINE left == runner[p].pending
<1>1. left \subseteq Nat /\ left # {}
  BY MigratorAssumption DEF MigratorTypes
<1> HIDE DEF left
<1>2. \E v \in left : \A w \in left : v =< w
  BY <1>1, LeastNumber
<1>3. NextVersion(p) \in left /\ \A w \in left : NextVersion(p) =< w
  BY <1>2 DEF NextVersion, left
<1> QED BY <1>1, <1>3 DEF left

\* Who opens a version that is not applied leads.
LEMMA OpenLeads ==
    ASSUME MigratorTypes, InSequence, NEW p \in Processes, runner[p].pc = "open"
    PROVE  Leads(p)
<1>1. /\ NextVersion(p) \notin listed /\ NextVersion(p) \in runner[p].pending
      /\ NextVersion(p) \in Nat
      /\ \A w \in runner[p].pending : NextVersion(p) =< w
  BY NextVersionIsLeast DEF InSequence, MigratorTypes
<1>2. runner[p].pending \subseteq Versions
  BY DEF MigratorTypes
<1> QED BY <1>1, <1>2 DEF Leads, InSequence

\* A step of one process that applies nothing
LEMMA RunnerKeeps ==
    ASSUME MigratorInv, NEW p \in Processes, NEW next,
           next \in [pc : {"starts", "next", "open", "failed", "serves"},
                     pending : SUBSET Versions],
           runner' = [runner EXCEPT ![p] = next],
           crashes' \in Nat, crashes' = 0 => crashes = 0, UNCHANGED <<listed, schema, rollbacks>>,
           rollbacks = 0 /\ next.pc \in {"next", "open", "serves"} =>
               Versions \ next.pending \subseteq listed,
           next.pc = "open" =>
               /\ next.pending = runner[p].pending /\ next.pending # {}
               /\ NextVersion(p) \notin listed
               /\ \A q \in Processes : runner[q].pc = "open" => NextVersion(q) # NextVersion(p),
           next.pc = "serves" => next.pending = {},
           crashes' = 0 /\ next.pc = "failed" => listed # {},
           crashes' = 0 /\ Leads(p) =>
               next.pc \in {"next", "open", "serves"} /\ next.pending = runner[p].pending
    PROVE  MigratorInv'
<1>1. MigratorTypes'
  BY DEF MigratorInv, MigratorTypes
<1>2. /\ runner'[p] = next /\ \A q \in Processes \ {p} : runner'[q] = runner[q]
      /\ \A q \in Processes \ {p} : NextVersion(q)' = NextVersion(q)
      /\ next.pc = "open" => NextVersion(p)' = NextVersion(p)
  BY DEF MigratorInv, MigratorTypes, NextVersion
<1>3. ASSUME rollbacks = 0 PROVE InSequence'
  <2>1. InSequence
    BY <1>3 DEF MigratorInv
  <2>2. ASSUME NEW q \in Processes
        PROVE  /\ runner'[q].pc \in {"next", "open", "serves"} =>
                      Versions \ runner'[q].pending \subseteq listed'
               /\ runner'[q].pc = "open" => NextVersion(q)' \notin listed'
               /\ runner'[q].pc = "serves" => runner'[q].pending = {}
    BY <1>2, <1>3, <2>1 DEF InSequence
  <2>3. \A q, r \in Processes :
           runner'[q].pc = "open" /\ runner'[r].pc = "open" /\ q # r =>
               NextVersion(q)' # NextVersion(r)'
    BY <1>2, <2>1 DEF InSequence
  <2>4. \A v \in listed', w \in Versions : w =< v => w \in listed'
    BY <2>1 DEF InSequence
  <2> QED BY <2>2, <2>3, <2>4 DEF InSequence
<1>4. ASSUME rollbacks = 0, crashes' = 0 PROVE RaceIsWon'
  <2>1. RaceIsWon
    BY <1>4 DEF MigratorInv
  <2>2. \A q \in Processes : Leads(q) => Leads(q)'
    BY <1>2, <1>4 DEF Leads
  <2> QED BY <1>2, <1>4, <2>1, <2>2 DEF RaceIsWon
<1> QED BY <1>1, <1>3, <1>4 DEF MigratorInv

\* A migration is applied: whoever else had it open cannot commit it any more.
LEMMA CommitKeeps ==
    ASSUME MigratorInv, NEW p \in Processes, Commit(p)
    PROVE  MigratorInv'
<1> DEFINE v == NextVersion(p)
<1>1. /\ runner[p].pc = "open" /\ listed' = listed \cup {v} /\ schema' = schema \cup {v}
      /\ runner' = [runner EXCEPT ![p] = Runner("next", runner[p].pending \ {v})]
      /\ UNCHANGED <<crashes, rollbacks>>
  BY DEF Commit
<1> HIDE DEF v
<1>2. MigratorTypes
  BY DEF MigratorInv
<1>3. ASSUME rollbacks = 0 PROVE MigratorInv'
  <2>1. InSequence /\ Leads(p)
    BY <1>1, <1>2, <1>3, OpenLeads DEF MigratorInv
  <2>2. /\ v \in runner[p].pending /\ v \in Nat /\ v \notin listed
        /\ \A w \in runner[p].pending : v =< w
    BY <1>1, <1>2, <2>1, NextVersionIsLeast DEF InSequence, MigratorTypes, v
  <2>3. MigratorTypes'
    BY <1>1, <1>2, <2>2 DEF MigratorTypes, Runner
  <2>4. /\ runner'[p].pc = "next" /\ runner'[p].pending = runner[p].pending \ {v}
        /\ \A q \in Processes \ {p} : runner'[q] = runner[q] /\ NextVersion(q)' = NextVersion(q)
    BY <1>1, <1>2 DEF MigratorTypes, Runner, NextVersion
  <2>5. \A w \in Versions : w =< v => w \in listed'
    <3>1. Versions \subseteq Nat
      BY MigratorAssumption
    <3>2. Versions \ runner[p].pending \subseteq listed
      BY <1>1, <2>1 DEF InSequence
    <3>3. ASSUME NEW w \in Versions, w =< v, w \notin listed PROVE w = v
      <4>1. w \in runner[p].pending /\ w \in Nat
        BY <3>1, <3>2, <3>3
      <4> QED BY <2>2, <3>3, <4>1
    <3> QED BY <1>1, <3>3
  <2>6. \A q \in Processes \ {p} : runner[q].pc = "open" => NextVersion(q) # v
    BY <1>1, <2>1 DEF InSequence, v
  <2>7. InSequence'
    <3>1. \A u \in listed', w \in Versions : w =< u => w \in listed'
      BY <1>1, <2>1, <2>5 DEF InSequence
    <3>2. ASSUME NEW q \in Processes
          PROVE  /\ runner'[q].pc \in {"next", "open", "serves"} =>
                        Versions \ runner'[q].pending \subseteq listed'
                 /\ runner'[q].pc = "open" => NextVersion(q)' \notin listed'
                 /\ runner'[q].pc = "serves" => runner'[q].pending = {}
      <4>1. CASE q = p
        BY <1>1, <2>1, <2>4, <4>1 DEF InSequence
      <4>2. CASE q # p
        BY <1>1, <2>1, <2>4, <2>6, <4>2 DEF InSequence
      <4> QED BY <4>1, <4>2
    <3>3. \A q, r \in Processes :
             runner'[q].pc = "open" /\ runner'[r].pc = "open" /\ q # r =>
                 NextVersion(q)' # NextVersion(r)'
      BY <2>1, <2>4 DEF InSequence
    <3> QED BY <3>1, <3>2, <3>3 DEF InSequence
  <2>8. Leads(p)' /\ listed' # {}
    BY <1>1, <2>1, <2>4 DEF Leads
  <2> QED BY <1>1, <2>3, <2>7, <2>8 DEF MigratorInv, RaceIsWon
<1>4. ASSUME rollbacks # 0 PROVE MigratorInv'
  <2>1. v \in Versions
    BY <1>1, <1>2, NextVersionIsLeast DEF MigratorTypes, v
  <2> QED BY <1>1, <1>2, <1>4, <2>1 DEF MigratorInv, MigratorTypes, Runner
<1> QED BY <1>3, <1>4

\* One step of the migrator
LEMMA MigratorStep ==
    ASSUME MigratorInv, MigratorNext
    PROVE  MigratorInv'
<1>1. MigratorTypes
  BY DEF MigratorInv
<1> DEFINE Runners == [pc : {"starts", "next", "open", "failed", "serves"},
                       pending : SUBSET Versions]
<1>2. ASSUME NEW p \in Processes, ReadApplied(p) PROVE MigratorInv'
  <2> DEFINE next == Runner("next", Versions \ listed)
  <2>1. /\ next \in Runners /\ next.pc = "next" /\ next.pending = Versions \ listed
        /\ Versions \ next.pending \subseteq listed
    BY DEF Runner
  <2> HIDE DEF next
  <2>2. /\ runner[p].pc = "starts" /\ runner' = [runner EXCEPT ![p] = next]
        /\ UNCHANGED <<listed, schema, crashes, rollbacks>>
    BY <1>2 DEF ReadApplied, next
  <2>3. ~Leads(p) /\ crashes' \in Nat
    BY <1>1, <2>2 DEF Leads, MigratorTypes
  <2> QED BY <2>1, <2>2, <2>3, RunnerKeeps
<1>3. ASSUME NEW p \in Processes, BeginUp(p) PROVE MigratorInv'
  <2> DEFINE next == [runner[p] EXCEPT !.pc =
                         IF NextVersion(p) \in schema THEN "failed" ELSE "open"]
  <2>1. /\ next \in Runners /\ next.pending = runner[p].pending
        /\ next.pc = IF NextVersion(p) \in listed THEN "failed" ELSE "open"
    BY <1>1 DEF MigratorTypes
  <2>2. /\ runner[p].pc = "next" /\ runner[p].pending # {}
        /\ \A q \in Processes : runner[q].pc = "open" => NextVersion(q) # NextVersion(p)
        /\ runner' = [runner EXCEPT ![p] = next]
        /\ UNCHANGED <<listed, schema, crashes, rollbacks>>
    BY <1>1, <1>3 DEF BeginUp, MigratorTypes
  <2> HIDE DEF next
  <2>3. rollbacks = 0 => Versions \ next.pending \subseteq listed
    BY <2>1, <2>2 DEF MigratorInv, InSequence
  <2>4. Leads(p) => next.pc = "open"
    BY <1>1, <2>1, <2>2, NextVersionIsLeast DEF Leads
  <2>5. crashes' \in Nat
    BY <1>1, <2>2 DEF MigratorTypes
  <2> QED BY <2>1, <2>2, <2>3, <2>4, <2>5, RunnerKeeps
<1>4. ASSUME NEW p \in Processes, Fails(p) PROVE MigratorInv'
  <2> DEFINE next == [runner[p] EXCEPT !.pc = "failed"]
  <2>1. next \in Runners /\ next.pc = "failed"
    BY <1>1 DEF MigratorTypes
  <2>2. /\ runner' = [runner EXCEPT ![p] = next] /\ crashes' = crashes + 1
        /\ UNCHANGED <<listed, schema, rollbacks>>
    BY <1>1, <1>4 DEF Fails, MigratorTypes
  <2> HIDE DEF next
  <2>3. crashes' \in Nat /\ crashes' # 0
    BY <1>1, <2>2 DEF MigratorTypes
  <2> QED BY <2>1, <2>2, <2>3, RunnerKeeps
<1>5. ASSUME NEW p \in Processes, Done(p) PROVE MigratorInv'
  <2> DEFINE next == [runner[p] EXCEPT !.pc = "serves"]
  <2>1. next \in Runners /\ next.pc = "serves" /\ next.pending = runner[p].pending
    BY <1>1 DEF MigratorTypes
  <2>2. /\ runner[p].pc = "next" /\ runner[p].pending = {}
        /\ runner' = [runner EXCEPT ![p] = next]
        /\ UNCHANGED <<listed, schema, crashes, rollbacks>>
    BY <1>1, <1>5 DEF Done, MigratorTypes
  <2> HIDE DEF next
  <2>3. rollbacks = 0 => Versions \ next.pending \subseteq listed
    BY <2>1, <2>2 DEF MigratorInv, InSequence
  <2>4. crashes' \in Nat
    BY <1>1, <2>2 DEF MigratorTypes
  <2> QED BY <2>1, <2>2, <2>3, <2>4, RunnerKeeps
<1>6. ASSUME NEW v \in Versions, RollbackMigration(v) PROVE MigratorInv'
  BY <1>1, <1>6 DEF RollbackMigration, MigratorInv, MigratorTypes
<1> QED BY <1>2, <1>3, <1>4, <1>5, <1>6, CommitKeeps DEF MigratorNext

\* A server serves only when all migrations are applied, if none was rolled back; and when all of
\* several servers have stopped migrating and none crashed, one serves.
THEOREM ServersStart == MigratorSpec => []OneServerStarts
<1>1. MigratorInit => MigratorInv
  BY DEF MigratorInit, Runner, MigratorInv, MigratorTypes, InSequence, RaceIsWon
<1>2. MigratorInv /\ UNCHANGED migratorVars => MigratorInv'
  <2> SUFFICES ASSUME MigratorInv, UNCHANGED migratorVars PROVE MigratorInv'
    OBVIOUS
  <2>1. UNCHANGED <<listed, schema, runner, crashes, rollbacks>>
    BY DEF migratorVars
  <2>2. \A p \in Processes : NextVersion(p)' = NextVersion(p) /\ (Leads(p)' <=> Leads(p))
    BY <2>1 DEF NextVersion, Leads
  <2>3. (InSequence => InSequence') /\ (RaceIsWon => RaceIsWon')
    BY <2>1, <2>2 DEF InSequence, RaceIsWon
  <2> QED BY <2>1, <2>3 DEF MigratorInv, MigratorTypes
<1>3. MigratorInv => OneServerStarts
  <2> SUFFICES ASSUME MigratorInv, rollbacks = 0 PROVE OneServerStarts
    BY DEF OneServerStarts
  <2>1. \A p \in Processes : runner[p].pc = "serves" => listed = Versions
    BY DEF MigratorInv, MigratorTypes, InSequence
  <2>2. ASSUME crashes = 0, \A p \in Processes : runner[p].pc \in {"failed", "serves"}
        PROVE  \E p \in Processes : runner[p].pc = "serves"
    BY <2>2, MigratorAssumption DEF MigratorInv, RaceIsWon, Leads
  <2> QED BY <2>1, <2>2 DEF OneServerStarts
<1> QED BY <1>1, <1>2, <1>3, MigratorStep, PTL DEF MigratorSpec

\* All elements of the set, each once
LEMMA SetToSeqIsExact ==
    ASSUME NEW S, IsFiniteSet(S)
    PROVE  /\ SetToSeq(S) \in Seq(S)
           /\ \A i, j \in DOMAIN SetToSeq(S) : SetToSeq(S)[i] = SetToSeq(S)[j] => i = j
           /\ \A x \in S : \E i \in DOMAIN SetToSeq(S) : SetToSeq(S)[i] = x
<1> DEFINE n == Cardinality(S)
           f == SetToSeq(S)
<1>1. n \in Nat /\ ExistsBijection(1 .. n, S)
  BY FS_CardinalityType
<1>2. \E g \in [1 .. n -> S] : IsInjective(g)
  BY <1>1 DEF ExistsBijection, Bijection, Injection
<1>3. f \in [1 .. n -> S] /\ IsInjective(f)
  BY <1>2, Zenon DEF SetToSeq
<1> HIDE DEF f
<1>4. f \in Injection(1 .. n, S)
  BY <1>3 DEF Injection
<1>5. IsFiniteSet(1 .. n) /\ Cardinality(1 .. n) = n
  BY <1>1, FS_Interval
<1> HIDE DEF n
<1>6. f \in Surjection(1 .. n, S)
  BY <1>4, <1>5, FS_Injection DEF n
<1>7. f \in Seq(S) /\ DOMAIN f = 1 .. n
  BY <1>1, <1>3
<1>8. \A i, j \in DOMAIN f : f[i] = f[j] => i = j
  BY <1>3 DEF IsInjective
<1>9. \A x \in S : \E i \in DOMAIN f : f[i] = x
  BY <1>6, <1>7 DEF Surjection
<1> QED BY <1>7, <1>8, <1>9 DEF f

(***************************************************************************)
(* The end of a server: what is on the wire comes in order.                *)
(***************************************************************************)

Versioned == Nat \cup {NoVersion}
Pipelines == [game : Matches, count : Nat, next : {"none", "remove", "shutdown"}]

ShutdownTypes ==
    /\ version \in [Matches -> Nat] /\ rows \in [Matches -> Nat]
    /\ step \in [Matches -> {"on", "persist", "snapshot", "removed", "cleaned"}]
    /\ inMemory \subseteq Matches /\ wire \in Seq(Pipelines)
    /\ snapshotOf \in [Matches -> Versioned] /\ atSignal \in [Matches -> Versioned]
    /\ phase = "exited" => wire = << >>

\* Where step is once the result has been recorded, as far as it goes
Over == {"snapshot", "removed", "cleaned"}

\* What is sent later of a game is not older.
WireInv ==
    /\ \A i \in DOMAIN wire :
          /\ wire[i].count =< version[wire[i].game]
          /\ snapshotOf[wire[i].game] # NoVersion => snapshotOf[wire[i].game] =< wire[i].count
          /\ wire[i].next = "remove" => step[wire[i].game] \in Over
    /\ \A i, j \in DOMAIN wire :
          i =< j /\ wire[i].game = wire[j].game => wire[i].count =< wire[j].count
    /\ \A g \in Matches : snapshotOf[g] # NoVersion => snapshotOf[g] =< version[g]

\* Redis holds version v of g or a later one, or will.
Covered(g, v) ==
    \/ snapshotOf[g] # NoVersion /\ snapshotOf[g] >= v
    \/ \E i \in DOMAIN wire : wire[i].game = g /\ wire[i].count >= v

GameKept(g) ==
    /\ phase = "serving" =>
          atSignal[g] = NoVersion /\ (g \in inMemory <=> step[g] \notin {"removed", "cleaned"})
    /\ phase # "serving" /\ atSignal[g] = NoVersion => step[g] \in {"removed", "cleaned"}
    /\ g \notin failed =>
          /\ atSignal[g] = NoVersion /\ step[g] \in Over => rows[g] = 1 + version[g]
          /\ \A v \in Nat : atSignal[g] = v => Covered(g, v)

ShutdownInv == ShutdownTypes /\ WireInv /\ \A g \in Matches : GameKept(g)

\* The elements of two sequences, one behind the other
LEMMA Behind ==
    ASSUME NEW S, NEW s \in Seq(S), NEW t \in Seq(S)
    PROVE  /\ s \o t \in Seq(S)
           /\ \A i \in DOMAIN s : i \in DOMAIN (s \o t) /\ (s \o t)[i] = s[i]
           /\ \A k \in DOMAIN t : \E i \in DOMAIN (s \o t) : (s \o t)[i] = t[k]
           /\ \A i \in DOMAIN (s \o t) :
                 \/ i \in DOMAIN s /\ (s \o t)[i] = s[i]
                 \/ /\ i - Len(s) \in DOMAIN t /\ (s \o t)[i] = t[i - Len(s)]
                    /\ \A j \in DOMAIN s : j < i
<1> DEFINE u == s \o t
           m == Len(s)
<1>1. /\ u \in Seq(S) /\ Len(u) = m + Len(t)
      /\ \A i \in 1 .. m + Len(t) : u[i] = IF i =< m THEN s[i] ELSE t[i - m]
  BY ConcatProperties
<1>2. /\ m \in Nat /\ Len(t) \in Nat /\ DOMAIN s = 1 .. m /\ DOMAIN t = 1 .. Len(t)
      /\ DOMAIN u = 1 .. m + Len(t)
  BY <1>1
<1> HIDE DEF u, m
<1>3. \A i \in DOMAIN s : i \in DOMAIN u /\ u[i] = s[i]
  BY <1>1, <1>2
<1>4. ASSUME NEW k \in DOMAIN t PROVE \E i \in DOMAIN u : u[i] = t[k]
  <2>1. m + k \in DOMAIN u /\ ~(m + k =< m) /\ m + k - m = k
    BY <1>2
  <2>2. u[m + k] = t[k]
    BY <1>1, <1>2, <2>1
  <2> QED BY <2>1, <2>2
<1>5. ASSUME NEW i \in DOMAIN u
      PROVE  \/ i \in DOMAIN s /\ u[i] = s[i]
             \/ /\ i - m \in DOMAIN t /\ u[i] = t[i - m]
                /\ \A j \in DOMAIN s : j < i
  <2>1. CASE i =< m
    BY <1>1, <1>2, <2>1
  <2>2. CASE ~(i =< m)
    BY <1>1, <1>2, <2>2
  <2> QED BY <2>1, <2>2
<1> QED BY <1>1, <1>3, <1>4, <1>5 DEF u, m

\* Pipelines with the present versions are sent.
LEMMA WireGrows ==
    ASSUME ShutdownTypes, WireInv, NEW sent \in Seq(Pipelines), wire' = wire \o sent,
           \A i, j \in DOMAIN sent : sent[i].game = sent[j].game => i = j,
           version' \in [Matches -> Nat], UNCHANGED snapshotOf,
           \A g \in Matches : version[g] =< version'[g],
           \A g \in Matches : step[g] \in Over => step'[g] \in Over,
           \A k \in DOMAIN sent :
               /\ sent[k].count = version'[sent[k].game]
               /\ sent[k].next = "remove" => step'[sent[k].game] \in Over
    PROVE  /\ wire' \in Seq(Pipelines) /\ WireInv'
           /\ \A g \in Matches, v \in Nat : Covered(g, v) => Covered(g, v)'
           /\ \A k \in DOMAIN sent : Covered(sent[k].game, sent[k].count)'
<1> DEFINE m == Len(wire)
<1>1. /\ wire' \in Seq(Pipelines)
      /\ \A i \in DOMAIN wire : i \in DOMAIN wire' /\ wire'[i] = wire[i]
      /\ \A k \in DOMAIN sent : \E i \in DOMAIN wire' : wire'[i] = sent[k]
      /\ \A i \in DOMAIN wire' :
            \/ i \in DOMAIN wire /\ wire'[i] = wire[i]
            \/ /\ i - m \in DOMAIN sent /\ wire'[i] = sent[i - m]
               /\ \A j \in DOMAIN wire : j < i
  BY Behind DEF ShutdownTypes
<1>2. /\ \A i \in DOMAIN wire' : wire'[i] \in Pipelines /\ i \in Nat
      /\ \A i \in DOMAIN wire : wire[i] \in Pipelines /\ i \in Nat
      /\ \A i \in DOMAIN sent : sent[i] \in Pipelines /\ i \in Nat
      /\ m \in Nat
  BY <1>1 DEF ShutdownTypes
<1> HIDE DEF m
<1>3. \A p \in Pipelines : p.game \in Matches /\ p.count \in Nat
  BY DEF Pipelines
<1>4. \A g \in Matches : /\ version[g] \in Nat /\ version'[g] \in Nat
                         /\ snapshotOf[g] # NoVersion => snapshotOf[g] \in Nat
  BY DEF ShutdownTypes, Versioned
<1>5. ASSUME NEW i \in DOMAIN wire'
      PROVE  /\ wire'[i].count =< version'[wire'[i].game]
             /\ snapshotOf'[wire'[i].game] # NoVersion =>
                    snapshotOf'[wire'[i].game] =< wire'[i].count
             /\ wire'[i].next = "remove" => step'[wire'[i].game] \in Over
  <2> DEFINE g == wire'[i].game
             c == wire'[i].count
  <2>1. g \in Matches /\ c \in Nat
    BY <1>2, <1>3
  <2>2. CASE i \in DOMAIN wire /\ wire'[i] = wire[i]
    <3>1. /\ c =< version[g] /\ (snapshotOf[g] # NoVersion => snapshotOf[g] =< c)
          /\ wire'[i].next = "remove" => step[g] \in Over
      BY <2>2 DEF WireInv
    <3> HIDE DEF g, c
    <3>2. c =< version'[g]
      BY <1>4, <2>1, <3>1
    <3>3. wire'[i].next = "remove" => step'[g] \in Over
      BY <2>1, <3>1
    <3> QED BY <3>1, <3>2, <3>3 DEF g, c
  <2>3. CASE i - m \in DOMAIN sent /\ wire'[i] = sent[i - m]
    <3>1. c = version'[g] /\ (wire'[i].next = "remove" => step'[g] \in Over)
      <4>1. PICK k \in DOMAIN sent : wire'[i] = sent[k]
        BY <2>3
      <4> QED BY <4>1
    <3>2. snapshotOf[g] # NoVersion => snapshotOf[g] =< version[g]
      BY <2>1 DEF WireInv
    <3> HIDE DEF g, c
    <3>3. snapshotOf'[g] # NoVersion => snapshotOf'[g] =< c
      BY <1>4, <2>1, <3>1, <3>2
    <3>4. c =< version'[g]
      BY <1>4, <2>1, <3>1
    <3> QED BY <3>1, <3>3, <3>4 DEF g, c
  <2> QED BY <1>1, <2>2, <2>3
<1>6. ASSUME NEW i \in DOMAIN wire', NEW j \in DOMAIN wire', i =< j,
             wire'[i].game = wire'[j].game
      PROVE  wire'[i].count =< wire'[j].count
  <2>1. CASE j \in DOMAIN wire /\ wire'[j] = wire[j]
    <3>1. i \in DOMAIN wire /\ wire'[i] = wire[i]
      BY <1>1, <1>2, <1>6, <2>1
    <3> QED BY <1>6, <2>1, <3>1 DEF WireInv
  <2>2. CASE j - m \in DOMAIN sent /\ wire'[j] = sent[j - m]
    <3>1. wire'[j].count = version'[wire'[j].game]
      BY <2>2
    <3> QED BY <1>5, <1>6, <3>1
  <2> QED BY <1>1, <2>1, <2>2
<1>7. \A g \in Matches : snapshotOf'[g] # NoVersion => snapshotOf'[g] =< version'[g]
  BY <1>4 DEF WireInv
<1>8. WireInv'
  BY <1>5, <1>6, <1>7 DEF WireInv
<1>9. \A g \in Matches, v \in Nat : Covered(g, v) => Covered(g, v)'
  BY <1>1 DEF Covered
<1>10. ASSUME NEW k \in DOMAIN sent PROVE Covered(sent[k].game, sent[k].count)'
  <2>1. PICK i \in DOMAIN wire' : wire'[i] = sent[k]
    BY <1>1
  <2>2. sent[k].count >= sent[k].count
    BY <1>2, <1>3
  <2> QED BY <2>1, <2>2 DEF Covered
<1> QED BY <1>1, <1>8, <1>9, <1>10

\* Redis has answered a pipeline.
LEMMA WireShrinks ==
    ASSUME ShutdownTypes, WireInv, wire # << >>, wire' = Tail(wire), UNCHANGED version,
           \A g \in Matches : step[g] \in Over => step'[g] \in Over,
           \/ UNCHANGED snapshotOf
           \/ snapshotOf' = [snapshotOf EXCEPT ![Head(wire).game] = Head(wire).count]
    PROVE  /\ wire' \in Seq(Pipelines) /\ Head(wire) \in Pipelines
           /\ snapshotOf' \in [Matches -> Versioned] /\ WireInv'
           /\ Head(wire).next = "remove" => step[Head(wire).game] \in Over
           /\ \A g \in Matches, v \in Nat :
                 (\/ g # Head(wire).game
                  \/ snapshotOf' = [snapshotOf EXCEPT ![Head(wire).game] = Head(wire).count])
                    /\ Covered(g, v) => Covered(g, v)'
<1> DEFINE h == Head(wire).game
           c == Head(wire).count
<1>1. /\ wire' \in Seq(Pipelines) /\ 1 \in DOMAIN wire /\ Head(wire) = wire[1]
      /\ \A i \in DOMAIN wire' : i + 1 \in DOMAIN wire /\ wire'[i] = wire[i + 1] /\ i \in Nat
      /\ \A i \in DOMAIN wire : i = 1 \/ (i - 1 \in DOMAIN wire' /\ wire'[i - 1] = wire[i])
  <2>1. wire \in Seq(Pipelines)
    BY DEF ShutdownTypes
  <2>2. /\ wire' \in Seq(Pipelines) /\ Len(wire) \in Nat /\ Len(wire) > 0
        /\ DOMAIN wire = 1 .. Len(wire) /\ DOMAIN wire' = 1 .. Len(wire) - 1
        /\ Head(wire) = wire[1]
        /\ \A i \in 1 .. Len(wire) - 1 : wire'[i] = wire[i + 1]
    BY <2>1
  <2>3. \A i \in 1 .. Len(wire) - 1 : i + 1 \in 1 .. Len(wire) /\ i \in Nat
    BY <2>2
  <2>4. ASSUME NEW i \in 1 .. Len(wire), i # 1
        PROVE  i - 1 \in 1 .. Len(wire) - 1 /\ wire'[i - 1] = wire[i]
    <3>1. i - 1 \in 1 .. Len(wire) - 1 /\ i - 1 + 1 = i
      BY <2>2, <2>4
    <3>2. wire'[i - 1] = wire[i - 1 + 1]
      BY <2>2, <3>1
    <3> QED BY <3>1, <3>2
  <2> QED BY <2>2, <2>3, <2>4
<1>2. /\ \A i \in DOMAIN wire : wire[i].game \in Matches /\ wire[i].count \in Nat /\ i \in Nat
      /\ wire[1] \in Pipelines
  <2>1. \A i \in DOMAIN wire : wire[i] \in Pipelines /\ i \in Nat
    BY DEF ShutdownTypes
  <2> QED BY <1>1, <2>1 DEF Pipelines
<1>3. h \in Matches /\ c \in Nat
  BY <1>1, <1>2
<1>4. /\ snapshotOf' \in [Matches -> Versioned]
      /\ \A g \in Matches : snapshotOf'[g] = snapshotOf[g] \/ (g = h /\ snapshotOf'[g] = c)
  BY <1>3 DEF ShutdownTypes, Versioned
<1>5. /\ c =< version[h] /\ (Head(wire).next = "remove" => step[h] \in Over)
      /\ snapshotOf[h] # NoVersion => snapshotOf[h] =< c
  BY <1>1 DEF WireInv
<1>6. \A i \in DOMAIN wire : wire[i].game = h => c =< wire[i].count
  BY <1>1, <1>2 DEF WireInv
<1> HIDE DEF h, c
<1>7. ASSUME NEW i \in DOMAIN wire'
      PROVE  /\ wire'[i].count =< version'[wire'[i].game]
             /\ snapshotOf'[wire'[i].game] # NoVersion =>
                    snapshotOf'[wire'[i].game] =< wire'[i].count
             /\ wire'[i].next = "remove" => step'[wire'[i].game] \in Over
  <2>1. i + 1 \in DOMAIN wire /\ wire'[i] = wire[i + 1] /\ wire'[i].game \in Matches
    BY <1>1, <1>2
  <2>2. /\ wire'[i].count =< version[wire'[i].game]
        /\ snapshotOf[wire'[i].game] # NoVersion => snapshotOf[wire'[i].game] =< wire'[i].count
        /\ wire'[i].next = "remove" => step[wire'[i].game] \in Over
    BY <2>1 DEF WireInv
  <2>3. wire'[i].game = h => c =< wire'[i].count
    BY <1>6, <2>1
  <2> QED BY <1>4, <2>1, <2>2, <2>3
<1>8. \A i, j \in DOMAIN wire' :
         i =< j /\ wire'[i].game = wire'[j].game => wire'[i].count =< wire'[j].count
  <2>1. \A i, j \in DOMAIN wire' : i =< j => i + 1 =< j + 1
    BY <1>1
  <2> QED BY <1>1, <2>1 DEF WireInv
<1>9. \A g \in Matches : snapshotOf'[g] # NoVersion => snapshotOf'[g] =< version'[g]
  BY <1>4, <1>5 DEF WireInv
<1>10. WireInv'
  BY <1>7, <1>8, <1>9 DEF WireInv
<1>11. ASSUME NEW g \in Matches, NEW v \in Nat, Covered(g, v),
              g # h \/ snapshotOf'[h] = c
       PROVE  Covered(g, v)'
  <2>1. CASE g # h
    <3>1. snapshotOf'[g] = snapshotOf[g]
      BY <1>4, <2>1
    <3>2. \A i \in DOMAIN wire : wire[i].game = g =>
             i - 1 \in DOMAIN wire' /\ wire'[i - 1] = wire[i]
      BY <1>1, <2>1 DEF h
    <3> QED BY <1>11, <3>1, <3>2 DEF Covered
  <2>2. CASE g = h
    <3>1. snapshotOf'[g] = c /\ c # NoVersion
      BY <1>3, <1>11, <2>2, ShutdownAssumption
    <3>2. CASE snapshotOf[g] # NoVersion /\ snapshotOf[g] >= v
      <4>1. snapshotOf[g] \in Nat /\ snapshotOf[g] =< c
        BY <1>5, <2>2, <3>2 DEF ShutdownTypes, Versioned
      <4>2. c >= v
        BY <1>3, <3>2, <4>1
      <4> QED BY <3>1, <4>2 DEF Covered
    <3>3. ASSUME NEW i \in DOMAIN wire, wire[i].game = g, wire[i].count >= v
          PROVE  Covered(g, v)'
      <4>1. CASE i = 1
        BY <1>1, <3>1, <3>3, <4>1 DEF Covered, c
      <4>2. CASE i # 1
        BY <1>1, <3>3, <4>2 DEF Covered
      <4> QED BY <4>1, <4>2
    <3> QED BY <1>11, <3>2, <3>3 DEF Covered
  <2> QED BY <2>1, <2>2
<1>12. ASSUME snapshotOf' = [snapshotOf EXCEPT ![h] = c] PROVE snapshotOf'[h] = c
  BY <1>3, <1>12 DEF ShutdownTypes
<1> QED BY <1>1, <1>2, <1>4, <1>5, <1>10, <1>11, <1>12 DEF h, c

\* Nothing is sent or answered, no version changes and no result is completed.
LEMMA HandlerKeeps ==
    ASSUME ShutdownInv, UNCHANGED <<version, wire, step, snapshotOf, rows, atSignal, failed>>,
           inMemory' \subseteq Matches, phase' = "exited" => wire = << >>,
           phase' # "serving" /\ phase # "serving"
    PROVE  ShutdownInv'
<1>1. ShutdownTypes' /\ WireInv'
  BY DEF ShutdownInv, ShutdownTypes, WireInv
<1>2. ASSUME NEW g \in Matches PROVE GameKept(g)'
  BY DEF ShutdownInv, GameKept, Covered
<1> QED BY <1>1, <1>2 DEF ShutdownInv

\* A pipeline more, or none without a Redis client
MaySend(p) == wire' = Append(wire, p) \/ wire' = wire

\* p, or nothing, is what was sent.
Alone(sent, p) ==
    wire' = wire \o sent /\ \A i, j \in DOMAIN sent : i = j /\ sent[i] = p

\* At most one pipeline is sent.
LEMMA AtMostOneSent ==
    ASSUME ShutdownTypes, NEW p \in Pipelines, MaySend(p)
    PROVE  \E sent \in Seq(Pipelines) : Alone(sent, p)
<1>1. wire \in Seq(Pipelines)
  BY DEF ShutdownTypes
<1>2. CASE wire' = Append(wire, p)
  <2> DEFINE sent == <<p>>
  <2>1. wire' = wire \o sent
    BY <1>1, <1>2, AppendIsConcat
  <2>2. sent \in Seq(Pipelines) /\ DOMAIN sent = {1} /\ sent[1] = p
    OBVIOUS
  <2> HIDE DEF sent
  <2>3. Alone(sent, p)
    BY <2>1, <2>2 DEF Alone
  <2> QED BY <2>2, <2>3
<1>3. CASE wire' = wire
  <2>1. << >> \in Seq(Pipelines) /\ wire \o << >> = wire /\ DOMAIN << >> = {}
    BY <1>1, ConcatEmptySeq
  <2>2. Alone(<< >>, p)
    BY <1>3, <2>1 DEF Alone
  <2> QED BY <2>1, <2>2
<1> QED BY <1>2, <1>3 DEF MaySend

\* A game sends one pipeline at most, and goes on or ends.
LEMMA OneGameKeeps ==
    ASSUME ShutdownInv, phase # "exited", NEW g \in Matches, NEW p \in Pipelines,
           MaySend(p), p.game = g, p.count = version'[g],
           p.next = "remove" => step'[g] \in Over,
           version' \in [Matches -> Nat], rows' \in [Matches -> Nat],
           step' \in [Matches -> {"on", "persist", "snapshot", "removed", "cleaned"}],
           \A h \in Matches \ {g} : /\ version'[h] = version[h] /\ rows'[h] = rows[h]
                                    /\ step'[h] = step[h] /\ (h \in inMemory' <=> h \in inMemory),
           inMemory' \subseteq Matches, failed \subseteq failed',
           version[g] =< version'[g], step[g] \in Over => step'[g] \in Over,
           UNCHANGED <<phase, snapshotOf, atSignal>>,
           step[g] \notin {"removed", "cleaned"},
           phase = "serving" => (g \in inMemory' <=> step'[g] \notin {"removed", "cleaned"}),
           g \notin failed' /\ atSignal[g] = NoVersion /\ step'[g] \in Over =>
               rows'[g] = 1 + version'[g]
    PROVE  ShutdownInv'
<1>1. ShutdownTypes /\ WireInv
  BY DEF ShutdownInv
<1>2. \A h \in Matches : version[h] =< version'[h] /\ (step[h] \in Over => step'[h] \in Over)
  <2>1. \A h \in Matches : version[h] \in Nat
    BY <1>1 DEF ShutdownTypes
  <2>2. ASSUME NEW h \in Matches, h # g PROVE version[h] =< version'[h] /\ step'[h] = step[h]
    BY <2>1, <2>2
  <2> QED BY <2>2
<1>3. /\ wire' \in Seq(Pipelines) /\ WireInv'
      /\ \A h \in Matches, v \in Nat : Covered(h, v) => Covered(h, v)'
  <2>1. PICK sent \in Seq(Pipelines) : Alone(sent, p)
    BY <1>1, AtMostOneSent
  <2>2. /\ wire' = wire \o sent
        /\ \A i, j \in DOMAIN sent : sent[i].game = sent[j].game => i = j
        /\ \A k \in DOMAIN sent :
              /\ sent[k].count = version'[sent[k].game]
              /\ sent[k].next = "remove" => step'[sent[k].game] \in Over
    BY <2>1 DEF Alone
  <2> QED BY <1>1, <1>2, <2>2, WireGrows
<1>4. ShutdownTypes'
  BY <1>1, <1>3 DEF ShutdownTypes
<1>5. ASSUME NEW h \in Matches PROVE GameKept(h)'
  <2>1. GameKept(h)
    BY DEF ShutdownInv
  <2>2. h \notin failed' => \A v \in Nat : atSignal'[h] = v => Covered(h, v)'
    BY <1>3, <2>1 DEF GameKept
  <2>3. CASE h = g
    BY <2>1, <2>2, <2>3 DEF GameKept
  <2>4. CASE h # g
    BY <2>1, <2>2, <2>4 DEF GameKept
  <2> QED BY <2>3, <2>4
<1> QED BY <1>3, <1>4, <1>5 DEF ShutdownInv

\* A move: the version grows, and a snapshot may set off.
LEMMA ApplyActionKeeps ==
    ASSUME ShutdownInv, NEW g \in Matches, ApplyAction(g)
    PROVE  ShutdownInv'
<1>1. ShutdownTypes /\ GameKept(g)
  BY DEF ShutdownInv
<1>2. /\ phase # "exited" /\ g \in inMemory /\ step[g] = "on"
      /\ version' = [version EXCEPT ![g] = @ + 1]
      /\ UNCHANGED <<phase, inMemory, snapshotOf, rows, atSignal, failed>>
  BY DEF ApplyAction, Running
<1>3. /\ version \in [Matches -> Nat] /\ rows \in [Matches -> Nat] /\ inMemory \subseteq Matches
      /\ step \in [Matches -> {"on", "persist", "snapshot", "removed", "cleaned"}]
  BY <1>1 DEF ShutdownTypes
<1>4. /\ version' \in [Matches -> Nat] /\ version[g] =< version'[g] /\ version'[g] \in Nat
      /\ \A h \in Matches \ {g} : version'[h] = version[h]
  BY <1>2, <1>3
<1>5. /\ step' \in [Matches -> {"on", "persist", "snapshot", "removed", "cleaned"}]
      /\ step'[g] \in {"on", "persist"} /\ \A h \in Matches \ {g} : step'[h] = step[h]
  BY <1>2, <1>3 DEF ApplyAction
<1>6. wire' = Append(wire, Pipeline(g, version'[g], "none")) \/ wire' = wire
  BY DEF ApplyAction, SnapshotToRedis
<1>7. PICK p \in Pipelines :
         MaySend(p) /\ p.game = g /\ p.count = version'[g] /\ p.next = "none"
  <2> DEFINE q == Pipeline(g, version'[g], "none")
  <2>1. q \in Pipelines /\ q.game = g /\ q.count = version'[g] /\ q.next = "none"
    BY <1>4 DEF Pipelines, Pipeline
  <2>2. MaySend(q)
    BY <1>6 DEF MaySend
  <2> QED BY <2>1, <2>2
<1>8. p.next = "remove" => step'[g] \in Over
  BY <1>7
<1>9. step'[g] \notin Over /\ step[g] \notin Over /\ step[g] \notin {"removed", "cleaned"}
      /\ step'[g] \notin {"removed", "cleaned"}
  BY <1>2, <1>5 DEF Over
<1>10. /\ \A h \in Matches \ {g} : /\ version'[h] = version[h] /\ rows'[h] = rows[h]
                                   /\ step'[h] = step[h] /\ (h \in inMemory' <=> h \in inMemory)
       /\ inMemory' \subseteq Matches /\ failed \subseteq failed' /\ rows' \in [Matches -> Nat]
       /\ phase = "serving" => (g \in inMemory' <=> step'[g] \notin {"removed", "cleaned"})
  BY <1>2, <1>3, <1>4, <1>5, <1>9
<1> QED BY <1>2, <1>4, <1>5, <1>7, <1>8, <1>9, <1>10, OneGameKeeps

\* Before the signal only a complete result, or an error, ends the recording.
LEMMA QueryAnsweredKeeps ==
    ASSUME ShutdownInv, NEW g \in Matches, QueryAnswered(g)
    PROVE  ShutdownInv'
<1>1. ShutdownTypes /\ GameKept(g)
  BY DEF ShutdownInv
<1>2. /\ phase # "exited" /\ step[g] = "persist"
      /\ UNCHANGED <<phase, version, snapshotOf, atSignal>>
      /\ \/ rows' = [rows EXCEPT ![g] = @ + 1] /\ UNCHANGED failed
         \/ UNCHANGED rows /\ failed' = failed \cup {g}
  BY DEF QueryAnswered, Running
<1>3. /\ version \in [Matches -> Nat] /\ rows \in [Matches -> Nat] /\ inMemory \subseteq Matches
      /\ step \in [Matches -> {"on", "persist", "snapshot", "removed", "cleaned"}]
  BY <1>1 DEF ShutdownTypes
<1>4. /\ rows' \in [Matches -> Nat] /\ \A h \in Matches \ {g} : rows'[h] = rows[h]
      /\ failed \subseteq failed' /\ version'[g] \in Nat /\ version[g] =< version'[g]
  BY <1>2, <1>3
<1>5. CASE LastSnapshot(g)
  <2>1. /\ \/ wire' = Append(wire, Pipeline(g, version[g], "remove"))
           \/ wire' = wire
        /\ step' = [step EXCEPT ![g] = IF phase = "quitting" THEN "removed" ELSE "snapshot"]
        /\ inMemory' = IF phase = "quitting" THEN inMemory \ {g} ELSE inMemory
    BY <1>5 DEF LastSnapshot, SnapshotToRedis
  <2>2. /\ step' \in [Matches -> {"on", "persist", "snapshot", "removed", "cleaned"}]
        /\ step'[g] = (IF phase = "quitting" THEN "removed" ELSE "snapshot")
        /\ step'[g] \in Over
        /\ \A h \in Matches \ {g} : step'[h] = step[h] /\ (h \in inMemory' <=> h \in inMemory)
    BY <1>3, <2>1 DEF Over
  <2>3. PICK p \in Pipelines :
           MaySend(p) /\ p.game = g /\ p.count = version[g] /\ p.next = "remove"
    <3> DEFINE q == Pipeline(g, version[g], "remove")
    <3>1. q \in Pipelines /\ q.game = g /\ q.count = version[g] /\ q.next = "remove"
      BY <1>3 DEF Pipelines, Pipeline
    <3>2. MaySend(q)
      BY <2>1 DEF MaySend
    <3> QED BY <3>1, <3>2
  <2>4. p.count = version'[g] /\ (p.next = "remove" => step'[g] \in Over)
    BY <1>2, <2>2, <2>3
  <2>5. phase = "serving" => (g \in inMemory' <=> step'[g] \notin {"removed", "cleaned"})
    BY <1>1, <1>2, <2>1, <2>2 DEF GameKept
  <2>6. g \notin failed' /\ atSignal[g] = NoVersion => rows'[g] = 1 + version'[g]
    <3> SUFFICES ASSUME g \notin failed', atSignal[g] = NoVersion PROVE rows'[g] = 1 + version'[g]
      OBVIOUS
    <3>1. phase = "serving"
      BY <1>1, <1>2 DEF GameKept
    <3>2. rows'[g] = 1 + version[g] \/ UNCHANGED step
      BY <1>2, <3>1 DEF QueryAnswered
    <3>3. step' # step
      BY <1>2, <2>2
    <3> QED BY <1>2, <3>2, <3>3
  <2>7. /\ \A h \in Matches \ {g} : /\ version'[h] = version[h] /\ rows'[h] = rows[h]
                                    /\ step'[h] = step[h] /\ (h \in inMemory' <=> h \in inMemory)
        /\ inMemory' \subseteq Matches /\ version' \in [Matches -> Nat]
        /\ step[g] \notin {"removed", "cleaned"}
    BY <1>2, <1>3, <1>4, <2>1, <2>2
  <2> QED BY <1>2, <1>4, <2>2, <2>3, <2>4, <2>5, <2>6, <2>7, OneGameKeeps
<1>6. CASE UNCHANGED <<wire, step, inMemory>>
  <2>1. PICK p \in Pipelines : p.game = g /\ p.count = version[g] /\ p.next = "none"
    <3> DEFINE q == Pipeline(g, version[g], "none")
    <3>1. q \in Pipelines /\ q.game = g /\ q.count = version[g] /\ q.next = "none"
      BY <1>3 DEF Pipelines, Pipeline
    <3> QED BY <3>1
  <2>2. MaySend(p) /\ step'[g] \notin Over /\ step[g] \notin {"removed", "cleaned"}
    BY <1>2, <1>6 DEF Over, MaySend
  <2>3. phase = "serving" => (g \in inMemory' <=> step'[g] \notin {"removed", "cleaned"})
    BY <1>1, <1>6 DEF GameKept
  <2>4. /\ \A h \in Matches \ {g} : /\ version'[h] = version[h] /\ rows'[h] = rows[h]
                                    /\ step'[h] = step[h] /\ (h \in inMemory' <=> h \in inMemory)
        /\ inMemory' \subseteq Matches /\ version' \in [Matches -> Nat]
        /\ step' \in [Matches -> {"on", "persist", "snapshot", "removed", "cleaned"}]
        /\ step[g] \in Over => step'[g] \in Over
    BY <1>2, <1>3, <1>4, <1>6
  <2> QED BY <1>2, <1>4, <2>1, <2>2, <2>3, <2>4, OneGameKeeps
<1> QED BY <1>5, <1>6 DEF QueryAnswered

\* The oldest pipeline is written, or its game has failed.
LEMMA PipelineAnsweredKeeps ==
    ASSUME ShutdownInv, PipelineAnswered
    PROVE  ShutdownInv'
<1> DEFINE g == Head(wire).game
           written == snapshotOf' = [snapshotOf EXCEPT ![g] = Head(wire).count]
<1>1. ShutdownTypes /\ WireInv
  BY DEF ShutdownInv
<1>2. /\ phase # "exited" /\ wire # << >> /\ wire' = Tail(wire)
      /\ UNCHANGED <<phase, version, rows, atSignal>>
      /\ \/ written /\ UNCHANGED failed
         \/ UNCHANGED snapshotOf /\ failed' = failed \cup {g}
      /\ \/ /\ Head(wire).next = "remove"
            /\ step' = [step EXCEPT ![g] = "removed"] /\ inMemory' = inMemory \ {g}
         \/ UNCHANGED <<step, inMemory>>
  <2>1. PipelineAnswered
    OBVIOUS
  <2>2. /\ phase # "exited" /\ wire # << >> /\ wire' = Tail(wire)
        /\ UNCHANGED <<phase, version, rows, atSignal>>
    BY <2>1 DEF PipelineAnswered, Running
  <2>3. \/ written /\ UNCHANGED failed
        \/ UNCHANGED snapshotOf /\ failed' = failed \cup {g}
    BY <2>1, Zenon DEF PipelineAnswered
  <2>4. \/ /\ Head(wire).next = "remove"
           /\ step' = [step EXCEPT ![g] = "removed"] /\ inMemory' = inMemory \ {g}
        \/ UNCHANGED <<step, inMemory>>
    BY <2>1 DEF PipelineAnswered
  <2> QED BY <2>2, <2>3, <2>4
<1>3. /\ step \in [Matches -> {"on", "persist", "snapshot", "removed", "cleaned"}]
      /\ inMemory \subseteq Matches
  BY <1>1 DEF ShutdownTypes
<1>4. g \in Matches
  <2>1. wire \in Seq(Pipelines)
    BY <1>1 DEF ShutdownTypes
  <2>2. Head(wire) \in Pipelines
    BY <1>2, <2>1
  <2> QED BY <2>2 DEF Pipelines
<1>5. /\ step' \in [Matches -> {"on", "persist", "snapshot", "removed", "cleaned"}]
      /\ inMemory' \subseteq Matches
      /\ \A h \in Matches : step[h] \in Over => step'[h] \in Over
      /\ \A h \in Matches :
            \/ step'[h] = step[h] /\ (h \in inMemory' <=> h \in inMemory)
            \/ h = g /\ Head(wire).next = "remove" /\ step'[h] = "removed" /\ h \notin inMemory'
  BY <1>2, <1>3, <1>4 DEF Over
<1>6. /\ wire' \in Seq(Pipelines) /\ snapshotOf' \in [Matches -> Versioned] /\ WireInv'
      /\ Head(wire).next = "remove" => step[g] \in Over
      /\ \A h \in Matches, v \in Nat : (h # g \/ written) /\ Covered(h, v) => Covered(h, v)'
  BY <1>1, <1>2, <1>5, WireShrinks
<1>7. \A h \in Matches : h \notin failed' => h \notin failed /\ (h # g \/ written)
  BY <1>2
<1> HIDE DEF g, written
<1>8. ShutdownTypes'
  BY <1>1, <1>2, <1>5, <1>6 DEF ShutdownTypes
<1>9. ASSUME NEW h \in Matches PROVE GameKept(h)'
  <2>1. GameKept(h)
    BY DEF ShutdownInv
  <2>2. h \notin failed' => \A v \in Nat : atSignal'[h] = v => Covered(h, v)'
    BY <1>2, <1>6, <1>7, <2>1 DEF GameKept
  <2>3. CASE step'[h] = step[h] /\ (h \in inMemory' <=> h \in inMemory)
    BY <1>2, <1>7, <2>1, <2>2, <2>3 DEF GameKept
  <2>4. CASE h = g /\ Head(wire).next = "remove" /\ step'[h] = "removed" /\ h \notin inMemory'
    <3>1. step[h] \in Over
      BY <1>6, <2>4
    <3> QED BY <1>2, <1>7, <2>1, <2>2, <2>4, <3>1 DEF GameKept
  <2> QED BY <1>5, <2>3, <2>4
<1> QED BY <1>6, <1>8, <1>9 DEF ShutdownInv

\* Keys are deleted only of games removed before the signal.
LEMMA CleanUpKeeps ==
    ASSUME ShutdownInv, NEW g \in Matches, CleanUp(g)
    PROVE  ShutdownInv'
<1>1. ShutdownTypes /\ WireInv /\ GameKept(g)
  BY DEF ShutdownInv
<1>2. /\ step[g] = "removed" /\ (phase = "serving" \/ atSignal[g] = NoVersion)
      /\ step' = [step EXCEPT ![g] = "cleaned"]
      /\ snapshotOf' = [snapshotOf EXCEPT ![g] = NoVersion]
      /\ UNCHANGED <<phase, version, inMemory, wire, rows, atSignal, failed>>
  BY DEF CleanUp
<1>3. /\ step \in [Matches -> {"on", "persist", "snapshot", "removed", "cleaned"}]
      /\ snapshotOf \in [Matches -> Versioned]
  BY <1>1 DEF ShutdownTypes
<1>4. /\ step' \in [Matches -> {"on", "persist", "snapshot", "removed", "cleaned"}]
      /\ snapshotOf' \in [Matches -> Versioned]
      /\ step'[g] = "cleaned" /\ snapshotOf'[g] = NoVersion
      /\ \A h \in Matches \ {g} : step'[h] = step[h] /\ snapshotOf'[h] = snapshotOf[h]
  BY <1>2, <1>3 DEF Versioned
<1>5. \A h \in Matches : /\ step[h] \in Over => step'[h] \in Over
                         /\ snapshotOf'[h] # NoVersion => snapshotOf'[h] = snapshotOf[h]
  BY <1>2, <1>4 DEF Over
<1>6. \A i \in DOMAIN wire : wire[i].game \in Matches
  <2>1. \A i \in DOMAIN wire : wire[i] \in Pipelines
    BY <1>1 DEF ShutdownTypes
  <2> QED BY <2>1 DEF Pipelines
<1>7. WireInv'
  BY <1>1, <1>2, <1>5, <1>6 DEF WireInv
<1>8. ShutdownTypes'
  BY <1>1, <1>2, <1>4 DEF ShutdownTypes
<1>9. atSignal[g] = NoVersion
  BY <1>1, <1>2 DEF GameKept
<1>10. ASSUME NEW h \in Matches PROVE GameKept(h)'
  <2>1. GameKept(h)
    BY DEF ShutdownInv
  <2>2. CASE h = g
    BY <1>2, <1>4, <1>9, <2>1, <2>2, ShutdownAssumption DEF GameKept, Over
  <2>3. CASE h # g
    BY <1>2, <1>4, <2>1, <2>3 DEF GameKept, Covered
  <2> QED BY <2>2, <2>3
<1> QED BY <1>7, <1>8, <1>10 DEF ShutdownInv

\* At the signal, every game in memory is sent to Redis.
LEMMA SignalKeeps ==
    ASSUME ShutdownInv, Signal
    PROVE  ShutdownInv'
<1> DEFINE final == {Pipeline(g, version[g], "shutdown") : g \in inMemory}
<1>1. /\ phase = "serving" /\ phase' = "snapshotting"
      /\ atSignal' = [g \in Matches |-> IF g \in inMemory THEN version[g] ELSE NoVersion]
      /\ wire' = wire \o SetToSeq(final)
      /\ UNCHANGED <<version, step, inMemory, snapshotOf, rows, failed>>
  BY DEF Signal, SnapshotsSent
<1>2. ShutdownTypes /\ WireInv
  BY DEF ShutdownInv
<1>3. version \in [Matches -> Nat] /\ inMemory \subseteq Matches
  BY <1>2 DEF ShutdownTypes
<1>4. /\ final \subseteq Pipelines
      /\ \A p \in final : /\ p.game \in inMemory /\ p.next = "shutdown"
                          /\ p.count = version[p.game]
      /\ \A p, q \in final : p.game = q.game => p = q
      /\ \A g \in inMemory : \E p \in final : p.game = g
  <2>1. ASSUME NEW p \in final
        PROVE  /\ p \in Pipelines /\ p.game \in inMemory /\ p.next = "shutdown"
               /\ p.count = version[p.game]
               /\ p = Pipeline(p.game, version[p.game], "shutdown")
    <3>1. PICK g \in inMemory : p = Pipeline(g, version[g], "shutdown")
      OBVIOUS
    <3>2. g \in Matches /\ version[g] \in Nat
      BY <1>3
    <3> QED BY <3>1, <3>2 DEF Pipeline, Pipelines
  <2>2. ASSUME NEW g \in inMemory PROVE \E p \in final : p.game = g
    <3>1. Pipeline(g, version[g], "shutdown") \in final
      OBVIOUS
    <3>2. Pipeline(g, version[g], "shutdown").game = g
      BY DEF Pipeline
    <3> QED BY <3>1, <3>2
  <2> HIDE DEF final
  <2>3. ASSUME NEW p \in final, NEW q \in final, p.game = q.game PROVE p = q
    BY <2>1, <2>3
  <2> QED BY <2>1, <2>2, <2>3
<1>5. IsFiniteSet(final)
  <2> DEFINE f == [g \in inMemory |-> Pipeline(g, version[g], "shutdown")]
  <2>1. IsFiniteSet(inMemory)
    BY <1>3, ShutdownAssumption, FS_Subset
  <2>2. f \in Surjection(inMemory, final)
    <3>1. f \in [inMemory -> final]
      OBVIOUS
    <3>2. \A p \in final : \E g \in inMemory : f[g] = p
      OBVIOUS
    <3> QED BY <3>1, <3>2 DEF Surjection
  <2> HIDE DEF f, final
  <2> QED BY <2>1, <2>2, FS_Surjection
<1> HIDE DEF final
<1>6. PICK sent \in Seq(final) :
         /\ wire' = wire \o sent
         /\ \A i, j \in DOMAIN sent : sent[i] = sent[j] => i = j
         /\ \A p \in final : \E k \in DOMAIN sent : sent[k] = p
  BY <1>1, <1>5, SetToSeqIsExact
<1>7. sent \in Seq(Pipelines) /\ \A k \in DOMAIN sent : sent[k] \in final
  BY <1>4, <1>6
<1>8. /\ \A i, j \in DOMAIN sent : sent[i].game = sent[j].game => i = j
      /\ \A k \in DOMAIN sent :
            /\ sent[k].count = version'[sent[k].game]
            /\ sent[k].next = "remove" => step'[sent[k].game] \in Over
  <2>1. ASSUME NEW i \in DOMAIN sent, NEW j \in DOMAIN sent, sent[i].game = sent[j].game
        PROVE  i = j
    <3>1. sent[i] = sent[j]
      BY <1>4, <1>7, <2>1
    <3> QED BY <1>6, <3>1
  <2>2. ASSUME NEW k \in DOMAIN sent
        PROVE  sent[k].count = version[sent[k].game] /\ sent[k].next # "remove"
    <3>1. sent[k] \in final
      BY <1>7
    <3> QED BY <1>4, <3>1
  <2> QED BY <1>1, <2>1, <2>2
<1>9. /\ version' \in [Matches -> Nat] /\ UNCHANGED snapshotOf
      /\ \A g \in Matches : version[g] =< version'[g]
      /\ \A g \in Matches : step[g] \in Over => step'[g] \in Over
  BY <1>1, <1>3
<1>10. /\ wire' \in Seq(Pipelines) /\ WireInv'
       /\ \A k \in DOMAIN sent : Covered(sent[k].game, sent[k].count)'
  <2>1. wire' = wire \o sent
    BY <1>6
  <2> QED BY <1>2, <1>7, <1>8, <1>9, <2>1, WireGrows
<1>11. ShutdownTypes'
  BY <1>1, <1>2, <1>3, <1>10 DEF ShutdownTypes, Versioned
<1>12. ASSUME NEW g \in inMemory, NEW v \in Nat, version[g] = v PROVE Covered(g, v)'
  <2>1. PICK k \in DOMAIN sent : sent[k].game = g
    BY <1>4, <1>6
  <2>2. sent[k].count = v
    BY <1>1, <1>8, <1>12, <2>1
  <2> QED BY <1>10, <2>1, <2>2
<1>13. ASSUME NEW g \in Matches PROVE GameKept(g)'
  <2>1. GameKept(g) /\ version[g] \in Nat /\ NoVersion \notin Nat
    BY <1>3, ShutdownAssumption DEF ShutdownInv
  <2>2. CASE g \in inMemory
    <3>1. atSignal'[g] = version[g] /\ atSignal'[g] # NoVersion
      BY <1>1, <2>1, <2>2
    <3>2. \A v \in Nat : atSignal'[g] = v => Covered(g, v)'
      BY <1>12, <2>2, <3>1
    <3> QED BY <1>1, <3>1, <3>2 DEF GameKept
  <2>3. CASE g \notin inMemory
    <3>1. atSignal'[g] = NoVersion /\ step[g] \in {"removed", "cleaned"}
      BY <1>1, <2>1, <2>3 DEF GameKept
    <3>2. g \notin failed => rows[g] = 1 + version[g]
      BY <1>1, <2>1, <3>1 DEF GameKept, Over
    <3> QED BY <1>1, <2>1, <3>1, <3>2 DEF GameKept
  <2> QED BY <2>2, <2>3
<1> QED BY <1>10, <1>11, <1>13 DEF ShutdownInv

\* One step of the shutdown
LEMMA ShutdownStep ==
    ASSUME ShutdownInv, [ShutdownNext]_shutdownVars
    PROVE  ShutdownInv'
<1>1. ASSUME NEW g \in Matches, ApplyAction(g) PROVE ShutdownInv'
  BY <1>1, ApplyActionKeeps
<1>2. ASSUME NEW g \in Matches, QueryAnswered(g) PROVE ShutdownInv'
  BY <1>2, QueryAnsweredKeeps
<1>3. ASSUME NEW g \in Matches, CleanUp(g) PROVE ShutdownInv'
  BY <1>3, CleanUpKeeps
<1>4. CASE PipelineAnswered
  BY <1>4, PipelineAnsweredKeeps
<1>5. CASE Signal
  BY <1>5, SignalKeeps
<1>6. inMemory \subseteq Matches
  BY DEF ShutdownInv, ShutdownTypes
<1>7. CASE SnapshotsSettled
  BY <1>6, <1>7, HandlerKeeps DEF SnapshotsSettled
<1>8. CASE ServersClosed
  BY <1>8, HandlerKeeps DEF ServersClosed
<1>9. CASE PoolDrained
  BY <1>6, <1>9, HandlerKeeps DEF PoolDrained
<1>10. CASE Exit
  BY <1>6, <1>10, HandlerKeeps DEF Exit
<1>11. CASE UNCHANGED shutdownVars
  BY <1>11 DEF shutdownVars, ShutdownInv, ShutdownTypes, WireInv, GameKept, Covered
<1> QED BY <1>1, <1>2, <1>3, <1>4, <1>5, <1>7, <1>8, <1>9, <1>10, <1>11 DEF ShutdownNext

\* A process told to stop loses no game, if no command or query failed: what was in memory at the
\* signal is in Redis at least as it was then, and the rest has been recorded.
THEOREM NoGameIsLost == ShutdownSpec => []ShutdownKeepsGames
<1>1. ShutdownInit => ShutdownInv
  <2> SUFFICES ASSUME ShutdownInit PROVE ShutdownInv
    OBVIOUS
  <2>1. << >> \in Seq(Pipelines) /\ DOMAIN << >> = {}
    OBVIOUS
  <2>2. ShutdownTypes /\ WireInv
    BY <2>1 DEF ShutdownInit, ShutdownTypes, WireInv, Versioned
  <2>3. \A g \in Matches : GameKept(g)
    BY ShutdownAssumption DEF ShutdownInit, GameKept, Over
  <2> QED BY <2>2, <2>3 DEF ShutdownInv
<1>2. ShutdownInv /\ [ShutdownNext]_shutdownVars => ShutdownInv'
  BY ShutdownStep
<1>3. ShutdownInv => ShutdownKeepsGames
  <2> SUFFICES ASSUME ShutdownInv, phase = "exited", NEW g \in Matches \ failed
               PROVE  IF atSignal[g] = NoVersion THEN rows[g] = 1 + version[g]
                      ELSE snapshotOf[g] # NoVersion /\ snapshotOf[g] >= atSignal[g]
    BY DEF ShutdownKeepsGames
  <2>1. GameKept(g) /\ wire = << >> /\ atSignal[g] \in Versioned
    BY DEF ShutdownInv, ShutdownTypes
  <2>2. CASE atSignal[g] = NoVersion
    BY <2>1, <2>2 DEF GameKept, Over
  <2>3. CASE atSignal[g] # NoVersion
    <3>1. Covered(g, atSignal[g])
      BY <2>1, <2>3 DEF GameKept, Versioned
    <3> QED BY <2>1, <2>3, <3>1 DEF Covered
  <2> QED BY <2>2, <2>3
<1> QED BY <1>1, <1>2, <1>3, PTL DEF ShutdownSpec

(***************************************************************************)
(* The sliding windows.                                                    *)
(***************************************************************************)

LimiterTypes ==
    /\ now \in Nat /\ Window =< now /\ ttl \in Nat
    /\ timestamps \in Seq(Nat) /\ allowed \in Seq(Nat)
    /\ entries \subseteq Nat /\ refused \subseteq Nat
    /\ admitted \subseteq Nat /\ crowded \in BOOLEAN

\* The bucket holds the last events allowed, those before have left the window,
\* and as many events as are allowed are never within a window.
BucketInv ==
    /\ Len(timestamps) =< Len(allowed)
    /\ \A i \in DOMAIN timestamps :
          timestamps[i] = allowed[Len(allowed) - Len(timestamps) + i]
    /\ \A i \in 1 .. Len(allowed) - Len(timestamps) : allowed[i] + Window < now
    /\ \A i, j \in DOMAIN allowed : i + MaxEvents =< j => allowed[i] + Window < allowed[j]

\* The sorted set holds what was let through, and outlives it.
SortedSetInv ==
    /\ ttl # 0 => \A t \in admitted : t + Window =< ttl
    /\ \A t \in entries \cup admitted : t =< now
    /\ ~crowded => \A t \in admitted : t + Window > now => t \in entries

\* Nor have more requests been let through in a window.
RequestsInv ==
    ~crowded =>
        \A t \in Nat : Cardinality(admitted \cap (t .. t + Window - 1)) =< MaxEvents

LimiterInv == LimiterTypes /\ BucketInv /\ SortedSetInv /\ RequestsInv

\* The times that left the window are the first ones.
LEMMA OutdatedIsPrefix ==
    ASSUME NEW times \in Seq(Nat), now \in Nat
    PROVE  /\ Outdated(times) \in 0 .. Len(times)
           /\ \A i \in 1 .. Outdated(times) : times[i] < now - Window
<1> DEFINE T == {k \in Nat : k < Len(times) => times[k + 1] >= now - Window}
<1>1. Len(times) \in T /\ T \subseteq Nat /\ Window \in Nat
  BY LimiterAssumption
<1>2. PICK k \in T : \A m \in T : k =< m
  BY <1>1, LeastNumber
<1>3. k \in 0 .. Len(times) /\ (k < Len(times) => times[k + 1] >= now - Window)
  BY <1>1, <1>2
<1>4. ASSUME NEW i \in 1 .. k PROVE times[i] < now - Window
  <2>1. i - 1 \in Nat /\ ~(k =< i - 1) /\ i \in DOMAIN times /\ i - 1 + 1 = i
    BY <1>3
  <2>2. i - 1 \notin T
    BY <1>2, <2>1
  <2>3. times[i] \in Nat
    BY <2>1
  <2> QED BY <1>1, <2>1, <2>2, <2>3
<1>5. \E l \in 0 .. Len(times) : LeftWindow(times, l)
  BY <1>3, <1>4 DEF LeftWindow
<1>6. Outdated(times) \in 0 .. Len(times) /\ LeftWindow(times, Outdated(times))
  BY <1>5, Zenon DEF Outdated
<1> QED BY <1>6 DEF LeftWindow

\* What is left of the bucket is behind what has left the window.
LEMMA PrunedIsRecent ==
    ASSUME LimiterTypes, BucketInv
    PROVE  /\ Pruned(timestamps) \in Seq(Nat)
           /\ Len(Pruned(timestamps)) =< Len(allowed)
           /\ \A i \in DOMAIN Pruned(timestamps) :
                 Pruned(timestamps)[i] = allowed[Len(allowed) - Len(Pruned(timestamps)) + i]
           /\ \A i \in 1 .. Len(allowed) - Len(Pruned(timestamps)) : allowed[i] + Window < now
<1> DEFINE k == Outdated(timestamps)
           m == Len(timestamps)
           n == Len(allowed)
           recent == Pruned(timestamps)
<1>1. /\ timestamps \in Seq(Nat) /\ allowed \in Seq(Nat) /\ now \in Nat /\ Window \in Nat
      /\ m \in Nat /\ n \in Nat
  BY LimiterAssumption DEF LimiterTypes
<1>2. /\ m =< n
      /\ \A i \in 1 .. m : timestamps[i] = allowed[n - m + i]
      /\ \A i \in 1 .. n - m : allowed[i] + Window < now
      /\ \A i \in 1 .. n : allowed[i] \in Nat
  BY <1>1 DEF BucketInv
<1>3. k \in 0 .. m /\ \A i \in 1 .. k : timestamps[i] < now - Window
  BY <1>1, OutdatedIsPrefix
<1> HIDE DEF k
<1>4. recent = SubSeq(timestamps, k + 1, m)
  BY DEF Pruned, k
<1>5. /\ recent \in Seq(Nat) /\ Len(recent) = m - k
      /\ \A i \in 1 .. m - k : recent[i] = timestamps[k + i]
  BY <1>1, <1>3, <1>4, SubSeqProperties
<1> HIDE DEF m, n, recent
<1>6. ASSUME NEW i \in 1 .. m - k PROVE recent[i] = allowed[n - (m - k) + i]
  <2>1. k + i \in 1 .. m /\ n - m + (k + i) = n - (m - k) + i
    BY <1>1, <1>3
  <2> QED BY <1>2, <1>5, <2>1
<1>7. ASSUME NEW i \in 1 .. n - (m - k) PROVE allowed[i] + Window < now
  <2>1. CASE i =< n - m
    BY <1>1, <1>2, <2>1
  <2>2. CASE n - m < i
    <3>1. i - (n - m) \in 1 .. k /\ i - (n - m) \in 1 .. m /\ n - m + (i - (n - m)) = i
          /\ i \in 1 .. n
      BY <1>1, <1>2, <1>3, <2>2
    <3>2. allowed[i] < now - Window /\ allowed[i] \in Nat
      BY <1>2, <1>3, <3>1
    <3> QED BY <1>1, <3>2
  <2> QED BY <1>1, <1>3, <2>1, <2>2
<1>8. Len(recent) =< n /\ DOMAIN recent = 1 .. m - k
  BY <1>1, <1>2, <1>3, <1>5
<1> QED BY <1>5, <1>6, <1>7, <1>8 DEF recent, n

\* A message reaches a connection's bucket.
LEMMA CheckLimitKeeps ==
    ASSUME LimiterInv, CheckLimit
    PROVE  LimiterInv'
<1> DEFINE recent == Pruned(timestamps)
           n == Len(allowed)
           r == Len(recent)
<1>1. LimiterTypes /\ BucketInv /\ SortedSetInv /\ RequestsInv
  BY DEF LimiterInv
<1>2. /\ allowed \in Seq(Nat) /\ n \in Nat /\ now \in Nat /\ Window \in Nat /\ MaxEvents \in Nat
      /\ \A i \in 1 .. n : allowed[i] \in Nat
      /\ \A i, j \in 1 .. n : i + MaxEvents =< j => allowed[i] + Window < allowed[j]
  BY <1>1, LimiterAssumption DEF LimiterTypes, BucketInv
<1>3. /\ recent \in Seq(Nat) /\ r \in Nat /\ r =< n
      /\ \A i \in 1 .. r : recent[i] = allowed[n - r + i]
      /\ \A i \in 1 .. n - r : allowed[i] + Window < now
  BY <1>1, PrunedIsRecent
<1>4. UNCHANGED <<now, entries, ttl, refused, admitted, crowded>>
  BY DEF CheckLimit
<1>5. SortedSetInv' /\ RequestsInv'
  BY <1>1, <1>4 DEF SortedSetInv, RequestsInv
<1>6. \/ r < MaxEvents /\ timestamps' = Append(recent, now) /\ allowed' = Append(allowed, now)
      \/ timestamps' = recent /\ allowed' = allowed
  BY DEF CheckLimit
<1> HIDE DEF recent
<1>7. CASE r < MaxEvents /\ timestamps' = Append(recent, now) /\ allowed' = Append(allowed, now)
  <2>1. /\ timestamps' \in Seq(Nat) /\ Len(timestamps') = r + 1
        /\ \A i \in 1 .. r : timestamps'[i] = recent[i]
        /\ timestamps'[r + 1] = now
        /\ allowed' \in Seq(Nat) /\ Len(allowed') = n + 1
        /\ \A i \in 1 .. n : allowed'[i] = allowed[i]
        /\ allowed'[n + 1] = now
    BY <1>2, <1>3, <1>7
  <2> HIDE DEF n, r
  <2>2. ASSUME NEW i \in 1 .. r + 1 PROVE timestamps'[i] = allowed'[(n + 1) - (r + 1) + i]
    <3>1. CASE i \in 1 .. r
      <4>1. n - r + i \in 1 .. n /\ (n + 1) - (r + 1) + i = n - r + i
        BY <1>2, <1>3, <3>1
      <4> QED BY <1>3, <2>1, <3>1, <4>1
    <3>2. CASE i = r + 1
      BY <1>2, <1>3, <2>1, <3>2
    <3> QED BY <1>3, <3>1, <3>2
  <2>3. ASSUME NEW i \in 1 .. (n + 1) - (r + 1) PROVE allowed'[i] + Window < now'
    <3>1. i \in 1 .. n - r /\ i \in 1 .. n
      BY <1>2, <1>3
    <3> QED BY <1>3, <1>4, <2>1, <3>1
  <2>4. ASSUME NEW i \in 1 .. n + 1, NEW j \in 1 .. n + 1, i + MaxEvents =< j
        PROVE  allowed'[i] + Window < allowed'[j]
    <3>1. i \in 1 .. n
      BY <1>2, <1>7, <1>3, <2>4
    <3>2. CASE j \in 1 .. n
      BY <1>2, <2>1, <2>4, <3>1, <3>2
    <3>3. CASE j = n + 1
      <4>1. i \in 1 .. n - r
        BY <1>2, <1>3, <1>7, <2>4, <3>3
      <4> QED BY <1>3, <2>1, <3>1, <3>3, <4>1
    <3> QED BY <1>2, <3>2, <3>3
  <2>5. LimiterTypes'
    BY <1>1, <1>4, <2>1 DEF LimiterTypes
  <2>6. BucketInv'
    <3>1. DOMAIN timestamps' = 1 .. r + 1 /\ DOMAIN allowed' = 1 .. n + 1 /\ r + 1 =< n + 1
      BY <1>2, <1>3, <2>1
    <3> QED BY <2>1, <2>2, <2>3, <2>4, <3>1 DEF BucketInv
  <2> QED BY <1>5, <2>5, <2>6 DEF LimiterInv
<1>8. CASE timestamps' = recent /\ allowed' = allowed
  <2>1. LimiterTypes'
    BY <1>1, <1>3, <1>4, <1>8 DEF LimiterTypes
  <2>2. BucketInv'
    <3>1. DOMAIN recent = 1 .. r /\ DOMAIN allowed = 1 .. n
      BY <1>2, <1>3
    <3> QED BY <1>2, <1>3, <1>4, <1>8, <3>1 DEF BucketInv
  <2> QED BY <1>5, <2>1, <2>2 DEF LimiterInv
<1> QED BY <1>6, <1>7, <1>8

\* Numbers of which no two are n apart are n at most.
LEMMA CloseNumbersAreFew ==
    ASSUME NEW T \in SUBSET Nat, NEW n \in Nat \ {0}, \A i, j \in T : j < i + n
    PROVE  IsFiniteSet(T) /\ Cardinality(T) =< n
<1>1. CASE T = {}
  BY <1>1, FS_EmptySet
<1>2. CASE T # {}
  <2>1. PICK a \in T : \A m \in T : a =< m
    BY <1>2, LeastNumber
  <2>2. a \in Nat /\ T \subseteq a .. a + n - 1
    BY <2>1
  <2>3. IsFiniteSet(a .. a + n - 1) /\ Cardinality(a .. a + n - 1) = n
    <3>1. a \in Int /\ a + n - 1 \in Int /\ ~(a > a + n - 1) /\ (a + n - 1) - a + 1 = n
      BY <2>2
    <3> QED BY <3>1, FS_Interval
  <2> QED BY <2>2, <2>3, FS_Subset
<1> QED BY <1>1, <1>2

\* What zremrangebyscore leaves is what still counts.
LEMMA RecentStillCounts ==
    ASSUME LimiterTypes, SortedSetInv
    PROVE  /\ Recent \subseteq entries /\ entries \subseteq Nat /\ now \in Nat
           /\ Window \in Nat /\ Window > 0 /\ MaxEvents \in Nat
           /\ \A t \in entries \cup admitted : t \in Nat /\ t =< now
           /\ ~crowded => \A t \in admitted : t + Window > now => t \in Recent
<1>1. /\ now \in Nat /\ Window \in Nat /\ Window > 0 /\ MaxEvents \in Nat
      /\ entries \subseteq Nat /\ admitted \subseteq Nat
  BY LimiterAssumption DEF LimiterTypes
<1>2. \A t \in entries \cup admitted : t \in Nat /\ t =< now
  BY <1>1 DEF SortedSetInv
<1>3. ASSUME ~crowded, NEW t \in admitted, t + Window > now PROVE t \in Recent
  <2>1. t \in entries /\ t \in Nat
    BY <1>1, <1>3 DEF SortedSetInv
  <2>2. t > now - Window
    BY <1>1, <1>3, <2>1
  <2> QED BY <2>1, <2>2 DEF Recent
<1> QED BY <1>1, <1>2, <1>3 DEF Recent

\* A request reaches the sorted set.
LEMMA CheckRateLimitKeeps ==
    ASSUME LimiterInv, CheckRateLimit
    PROVE  LimiterInv'
<1> DEFINE span(t) == t .. t + Window - 1
<1>1. LimiterTypes /\ BucketInv /\ SortedSetInv /\ RequestsInv
  BY DEF LimiterInv
<1>2. /\ entries' = Recent \cup {now} /\ ttl' = now + Window
      /\ UNCHANGED <<now, timestamps, allowed, crowded>>
      /\ \/ Cardinality(Recent) < MaxEvents /\ admitted' = admitted \cup {now} /\ UNCHANGED refused
         \/ admitted' = admitted /\ refused' = refused \cup {now}
  BY DEF CheckRateLimit, KeyTtl
<1>3. /\ Recent \subseteq entries /\ entries \subseteq Nat /\ now \in Nat
      /\ Window \in Nat /\ Window > 0 /\ MaxEvents \in Nat
      /\ \A t \in entries \cup admitted : t \in Nat /\ t =< now
      /\ ~crowded => \A t \in admitted : t + Window > now => t \in Recent
  BY <1>1, RecentStillCounts
<1>4. \A t \in entries' \cup admitted' : t \in Nat /\ t =< now'
  BY <1>2, <1>3
<1>5. LimiterTypes'
  <2>1. ttl' \in Nat /\ refused' \subseteq Nat
    <3>1. ttl' = now + Window /\ now \in Nat /\ Window \in Nat
      BY <1>2, <1>3
    <3>2. refused' \subseteq Nat
      BY <1>1, <1>2, <3>1 DEF LimiterTypes
    <3> QED BY <3>1, <3>2
  <2>2. entries' \subseteq Nat /\ admitted' \subseteq Nat
    BY <1>4
  <2> QED BY <1>1, <1>2, <2>1, <2>2 DEF LimiterTypes
<1>6. BucketInv'
  BY <1>1, <1>2 DEF BucketInv
<1>7. SortedSetInv'
  <2>1. \A t \in admitted' : t + Window =< ttl'
    <3>1. ttl' = now + Window /\ now' = now /\ now \in Nat /\ Window \in Nat
      BY <1>2, <1>3
    <3> QED BY <1>4, <3>1
  <2>2. ~crowded' => \A t \in admitted' : t + Window > now' => t \in entries'
    BY <1>2, <1>3
  <2> QED BY <1>4, <2>1, <2>2 DEF SortedSetInv
<1>8. ASSUME ~crowded', NEW t \in Nat PROVE Cardinality(admitted' \cap span(t)) =< MaxEvents
  <2>1. /\ Cardinality(admitted \cap span(t)) =< MaxEvents
        /\ \A x \in admitted : x + Window > now => x \in Recent
    BY <1>1, <1>2, <1>3, <1>8 DEF RequestsInv
  <2>2. CASE admitted' = admitted
    BY <2>1, <2>2
  <2>3. CASE /\ Cardinality(Recent) < MaxEvents /\ admitted' = admitted \cup {now}
             /\ now \in span(t)
    <3>1. admitted' \cap span(t) \subseteq Recent \cup {now}
      <4> SUFFICES ASSUME NEW x \in admitted, x \in span(t) PROVE x \in Recent
        BY <2>3
      <4>1. x + Window > now
        BY <1>3, <2>3
      <4> QED BY <2>1, <4>1
    <3>2. IsFiniteSet(Recent)
      <4>1. Recent \subseteq Nat /\ \A x \in Recent : x =< now
        BY <1>3
      <4> QED BY <1>3, <4>1, FS_BoundedSetOfNaturals
    <3>3. /\ IsFiniteSet(Recent \cup {now}) /\ Cardinality(Recent) \in Nat
          /\ Cardinality(Recent \cup {now}) \in Nat
          /\ Cardinality(Recent \cup {now}) =< Cardinality(Recent) + 1
      BY <3>2, FS_AddElement, FS_CardinalityType
    <3>4. /\ Cardinality(admitted' \cap span(t)) =< Cardinality(Recent \cup {now})
          /\ Cardinality(admitted' \cap span(t)) \in Nat
      BY <3>1, <3>3, FS_Subset, FS_CardinalityType
    <3> QED BY <1>3, <2>3, <3>3, <3>4
  <2>4. CASE admitted' = admitted \cup {now} /\ now \notin span(t)
    <3>1. admitted' \cap span(t) = admitted \cap span(t)
      BY <2>4
    <3> QED BY <2>1, <3>1
  <2> QED BY <1>2, <2>2, <2>3, <2>4
<1>9. RequestsInv'
  BY <1>8 DEF RequestsInv
<1> QED BY <1>5, <1>6, <1>7, <1>9 DEF LimiterInv

\* One that Redis fails is not counted, and takes nothing away that counts.
LEMMA CheckRateLimitFailsKeeps ==
    ASSUME LimiterInv, CheckRateLimitFails
    PROVE  LimiterInv'
<1>1. LimiterTypes /\ BucketInv /\ SortedSetInv /\ RequestsInv
  BY DEF LimiterInv
<1>2. PICK counted \in {entries, Recent} :
        /\ counted \subseteq entries' /\ entries' \subseteq counted \cup {now}
        /\ ttl' \in {0, now + Window, ttl}
        /\ refused' \subseteq refused \cup {now}
        /\ UNCHANGED <<now, timestamps, allowed, admitted, crowded>>
  BY DEF CheckRateLimitFails, KeyTtl
<1>3. /\ Recent \subseteq entries /\ entries \subseteq Nat /\ now \in Nat
      /\ Window \in Nat /\ Window > 0 /\ MaxEvents \in Nat
      /\ \A t \in entries \cup admitted : t \in Nat /\ t =< now
      /\ ~crowded => \A t \in admitted : t + Window > now => t \in Recent
  BY <1>1, RecentStillCounts
<1>4. Recent \subseteq entries' /\ entries' \subseteq entries \cup {now}
  BY <1>2, <1>3
<1>5. LimiterTypes'
  <2>1. ttl' \in Nat /\ refused' \subseteq Nat /\ entries' \subseteq Nat
    BY <1>1, <1>2, <1>3, <1>4 DEF LimiterTypes
  <2> QED BY <1>1, <1>2, <2>1 DEF LimiterTypes
<1>6. BucketInv' /\ RequestsInv'
  BY <1>1, <1>2 DEF BucketInv, RequestsInv
<1>7. SortedSetInv'
  <2>1. ttl' # 0 => \A t \in admitted' : t + Window =< ttl'
    <3>1. CASE ttl' = now + Window
      <4>1. \A t \in admitted' : t \in Nat /\ t =< now
        BY <1>2, <1>3
      <4>2. now \in Nat /\ Window \in Nat
        BY <1>3
      <4> QED BY <3>1, <4>1, <4>2
    <3>2. CASE ttl' = ttl
      BY <1>1, <1>2, <3>2 DEF SortedSetInv
    <3> QED BY <1>2, <3>1, <3>2
  <2>2. \A t \in entries' \cup admitted' : t =< now'
    BY <1>2, <1>3, <1>4
  <2>3. ~crowded' => \A t \in admitted' : t + Window > now' => t \in entries'
    BY <1>2, <1>3, <1>4
  <2> QED BY <2>1, <2>2, <2>3 DEF SortedSetInv
<1> QED BY <1>5, <1>6, <1>7 DEF LimiterInv

\* The entry of a refused request is removed, with that of one let through.
LEMMA RemoveRefusedKeeps ==
    ASSUME LimiterInv, RemoveRefused
    PROVE  LimiterInv'
<1>1. LimiterTypes /\ BucketInv /\ SortedSetInv /\ RequestsInv
  BY DEF LimiterInv
<1>2. PICK t \in refused :
        /\ refused' = refused \ {t}
        /\ \/ entries' = entries \ {t} /\ crowded' = (crowded \/ t \in admitted)
           \/ UNCHANGED <<entries, crowded>>
        /\ UNCHANGED <<now, timestamps, ttl, allowed, admitted>>
  BY DEF RemoveRefused
<1>3. /\ entries' \subseteq entries /\ crowded' \in BOOLEAN /\ (crowded => crowded')
      /\ ~crowded' => entries \cap admitted \subseteq entries'
  BY <1>1, <1>2 DEF LimiterTypes
<1>4. LimiterTypes' /\ BucketInv'
  BY <1>1, <1>2, <1>3 DEF LimiterTypes, BucketInv
<1>5. SortedSetInv'
  BY <1>1, <1>2, <1>3 DEF SortedSetInv
<1>6. RequestsInv'
  BY <1>1, <1>2, <1>3 DEF RequestsInv
<1> QED BY <1>4, <1>5, <1>6 DEF LimiterInv

\* Time passes, and the sorted set may expire.
LEMMA TickKeeps ==
    ASSUME LimiterInv, Tick
    PROVE  LimiterInv'
<1>1. LimiterTypes /\ BucketInv /\ SortedSetInv /\ RequestsInv
  BY DEF LimiterInv
<1>2. /\ now' = now + 1 /\ UNCHANGED <<timestamps, refused, allowed, admitted, crowded>>
      /\ IF ttl # 0 /\ ttl =< now' THEN entries' = {} /\ ttl' = 0
                                   ELSE UNCHANGED <<entries, ttl>>
  BY DEF Tick
<1>3. /\ now \in Nat /\ Window \in Nat /\ ttl \in Nat /\ admitted \subseteq Nat
      /\ allowed \in Seq(Nat) /\ timestamps \in Seq(Nat)
  BY <1>1, LimiterAssumption DEF LimiterTypes
<1>4. BucketInv'
  <2>1. \A i \in 1 .. Len(allowed) - Len(timestamps) : allowed[i] \in Nat
    BY <1>3
  <2> QED BY <1>1, <1>2, <1>3, <2>1 DEF BucketInv
<1>5. RequestsInv'
  BY <1>1, <1>2 DEF RequestsInv
<1>6. CASE ttl # 0 /\ ttl =< now'
  <2>1. \A t \in admitted : t \in Nat /\ t =< now' /\ t + Window =< now'
    BY <1>1, <1>2, <1>3, <1>6 DEF SortedSetInv
  <2>2. ttl' = 0 /\ entries' = {}
    BY <1>2, <1>6
  <2>3. LimiterTypes'
    BY <1>1, <1>2, <1>3, <2>2 DEF LimiterTypes
  <2>4. ASSUME NEW t \in admitted' PROVE t =< now' /\ ~(t + Window > now')
    BY <1>2, <1>3, <2>1
  <2>5. SortedSetInv'
    BY <2>2, <2>4 DEF SortedSetInv
  <2> QED BY <1>4, <1>5, <2>3, <2>5 DEF LimiterInv
<1>7. CASE ~(ttl # 0 /\ ttl =< now')
  <2>1. UNCHANGED <<entries, ttl>>
    BY <1>2, <1>7
  <2>2. LimiterTypes'
    BY <1>1, <1>2, <1>3, <2>1 DEF LimiterTypes
  <2>3. ASSUME NEW t \in entries' \cup admitted'
        PROVE  t =< now' /\ (t + Window > now' => t + Window > now)
    <3>1. t \in Nat /\ t =< now
      BY <1>1, <1>2, <2>1 DEF SortedSetInv, LimiterTypes
    <3> QED BY <1>2, <1>3, <3>1
  <2>4. SortedSetInv'
    BY <1>1, <1>2, <2>1, <2>3 DEF SortedSetInv
  <2> QED BY <1>4, <1>5, <2>2, <2>4 DEF LimiterInv
<1> QED BY <1>6, <1>7

\* One step of a limiter
LEMMA LimiterStep ==
    ASSUME LimiterInv, [LimiterNext]_limiterVars
    PROVE  LimiterInv'
<1>1. CASE Tick
  BY <1>1, TickKeeps
<1>2. CASE CheckLimit
  BY <1>2, CheckLimitKeeps
<1>3. CASE CheckRateLimit
  BY <1>3, CheckRateLimitKeeps
<1>6. CASE CheckRateLimitFails
  BY <1>6, CheckRateLimitFailsKeeps
<1>7. CASE RemoveRefused
  BY <1>7, RemoveRefusedKeeps
<1>4. CASE RemoveSocketRateLimiter
  <2>1. /\ timestamps' = << >> /\ allowed' = << >>
        /\ UNCHANGED <<now, entries, ttl, refused, admitted, crowded>>
    BY <1>4 DEF RemoveSocketRateLimiter
  <2>2. /\ << >> \in Seq(Nat) /\ Len(<< >>) = 0 /\ DOMAIN << >> = {}
        /\ \A i \in 1 .. 0 - 0 : FALSE
    OBVIOUS
  <2>3. LimiterTypes'
    BY <2>1, <2>2 DEF LimiterInv, LimiterTypes
  <2>4. BucketInv'
    BY <2>1, <2>2 DEF BucketInv
  <2>5. SortedSetInv' /\ RequestsInv'
    BY <2>1 DEF LimiterInv, SortedSetInv, RequestsInv
  <2> QED BY <2>3, <2>4, <2>5 DEF LimiterInv
<1>5. CASE UNCHANGED limiterVars
  BY <1>5 DEF limiterVars, LimiterInv, LimiterTypes, BucketInv, SortedSetInv, RequestsInv
<1> QED BY <1>1, <1>2, <1>3, <1>4, <1>5, <1>6, <1>7 DEF LimiterNext

\* No window of time, wherever it begins, sees more events of a socket than allowed, or (unless one
\* was crowded out) more times of requests of a client that were counted, whatever Redis failed to
\* do for others.
THEOREM NoBurstEver == LimiterSpec => []NoBurst
<1>1. LimiterInit => LimiterInv
  <2> SUFFICES ASSUME LimiterInit PROVE LimiterInv
    OBVIOUS
  <2>1. /\ << >> \in Seq(Nat) /\ Len(<< >>) = 0 /\ DOMAIN << >> = {}
        /\ \A i \in 1 .. 0 - 0 : FALSE
    OBVIOUS
  <2>2. /\ now = Window /\ timestamps = << >> /\ entries = {} /\ ttl = 0 /\ refused = {}
        /\ allowed = << >> /\ admitted = {} /\ crowded = FALSE
    BY DEF LimiterInit
  <2>3. LimiterTypes
    <3>1. now \in Nat /\ Window =< now /\ ttl \in Nat
      <4>1. Window \in Nat /\ Window =< Window
        BY LimiterAssumption
      <4> QED BY <2>2, <4>1
    <3>2. timestamps \in Seq(Nat) /\ allowed \in Seq(Nat)
      BY <2>1, <2>2
    <3>3. /\ entries \subseteq Nat /\ refused \subseteq Nat
          /\ admitted \subseteq Nat /\ crowded \in BOOLEAN
      BY <2>2
    <3> QED BY <3>1, <3>2, <3>3 DEF LimiterTypes
  <2>4. BucketInv
    BY <2>1, <2>2 DEF BucketInv
  <2>5. SortedSetInv
    BY <2>2 DEF SortedSetInv
  <2>6. RequestsInv
    <3> SUFFICES ASSUME NEW t \in Nat
                 PROVE  Cardinality(admitted \cap (t .. t + Window - 1)) =< MaxEvents
      BY DEF RequestsInv
    <3>1. admitted \cap (t .. t + Window - 1) = {}
      BY <2>2
    <3> QED BY <3>1, FS_EmptySet, LimiterAssumption
  <2> QED BY <2>3, <2>4, <2>5, <2>6 DEF LimiterInv
<1>2. LimiterInv /\ [LimiterNext]_limiterVars => LimiterInv'
  BY LimiterStep
<1>3. LimiterInv => NoBurst
  <2> SUFFICES ASSUME LimiterInv, NEW t \in Window .. MaxTime
               PROVE  /\ Cardinality({i \in DOMAIN allowed : allowed[i] \in t .. t + Window})
                             =< MaxEvents
                      /\ ~crowded => Cardinality(admitted \cap (t .. t + Window - 1)) =< MaxEvents
    BY DEF NoBurst
  <2>1. /\ allowed \in Seq(Nat) /\ MaxEvents \in Nat \ {0} /\ Window \in Nat /\ t \in Nat
        /\ \A i, j \in DOMAIN allowed : i + MaxEvents =< j => allowed[i] + Window < allowed[j]
    BY LimiterAssumption DEF LimiterInv, LimiterTypes, BucketInv
  <2> DEFINE T == {i \in DOMAIN allowed : allowed[i] \in t .. t + Window}
  <2>2. \A i \in T : i \in Nat /\ i \in DOMAIN allowed /\ allowed[i] \in Nat
    BY <2>1
  <2>3. ASSUME NEW i \in T, NEW j \in T PROVE j < i + MaxEvents
    <3>1. ~(allowed[i] + Window < allowed[j])
      BY <2>1, <2>2
    <3> HIDE DEF T
    <3> QED BY <2>1, <2>2, <3>1
  <2> HIDE DEF T
  <2>4. Cardinality(T) =< MaxEvents
    BY <2>1, <2>2, <2>3, CloseNumbersAreFew
  <2>5. ~crowded => Cardinality(admitted \cap (t .. t + Window - 1)) =< MaxEvents
    BY <2>1 DEF LimiterInv, RequestsInv
  <2> QED BY <2>4, <2>5 DEF T
<1> QED BY <1>1, <1>2, <1>3, PTL DEF LimiterSpec

(***************************************************************************)
(* Ratings: what is in the rows and not in the history.                    *)
(***************************************************************************)

Rows == [rating : Nat, peak : Nat, won : Nat, lost : Nat, streak : Nat, best : Nat]

Jobs == [pc : {"read", "apply", "record", "done", "torn", "failed"},
         winner : Users, humans : SUBSET Users, seen : UNION {[D -> Rows] : D \in SUBSET Users},
         todo : SUBSET Users, user : Users, after : Nat]

MatchResults == [game : Games, user : Users, wins : BOOLEAN, after : Nat]

Under == {g \in Games : jobs[g].pc # "waits"}

LeaderboardTypes ==
    /\ ratings \in [Users -> Rows]
    /\ jobs \in [Games -> {[pc |-> "waits"]} \cup Jobs] /\ IsFiniteSet(Under)
    /\ matchResults \subseteq MatchResults /\ IsFiniteSet(matchResults)

\* A job has read the rows of all whose turn is to come.
JobInv(g) ==
    /\ jobs[g].pc = "read" =>
          /\ jobs[g].todo \subseteq jobs[g].humans
          /\ jobs[g].humans \ jobs[g].todo \subseteq DOMAIN jobs[g].seen
    /\ jobs[g].pc \in {"apply", "record"} => jobs[g].todo \subseteq DOMAIN jobs[g].seen
    /\ jobs[g].pc = "record" =>
          jobs[g].user \notin jobs[g].todo /\ jobs[g].after =< ratings[jobs[g].user].peak

\* A result is recorded once the player's row has been written, and never again.
RecordInv(m) ==
    /\ jobs[m.game].pc \notin {"waits", "read"}
    /\ jobs[m.game].pc \in {"apply", "record"} => m.user \notin jobs[m.game].todo
    /\ jobs[m.game].pc = "record" => m.user # jobs[m.game].user
    /\ m.after =< ratings[m.user].peak

Tally(u, wins) == IF wins THEN ratings[u].won ELSE ratings[u].lost

RowInv(u) ==
    /\ \A wins \in BOOLEAN :
          Tally(u, wins) = Cardinality(Results(u, wins)) + Cardinality(Torn(u, wins))
    /\ ratings[u].best >= ratings[u].streak

LeaderboardInv ==
    /\ LeaderboardTypes
    /\ \A g \in Games : JobInv(g)
    /\ \A m \in matchResults : RecordInv(m)
    /\ \A u \in Users : RowInv(u)

\* The results of a player can be counted.
LEMMA SetsAreFinite ==
    ASSUME LeaderboardTypes, NEW u \in Users, NEW wins \in BOOLEAN
    PROVE  /\ IsFiniteSet(Results(u, wins)) /\ Cardinality(Results(u, wins)) \in Nat
           /\ IsFiniteSet(Torn(u, wins)) /\ Cardinality(Torn(u, wins)) \in Nat
<1>1. Results(u, wins) \subseteq matchResults /\ Torn(u, wins) \subseteq Under
  BY DEF Results, Torn, Under
<1>2. IsFiniteSet(matchResults) /\ IsFiniteSet(Under)
  BY DEF LeaderboardTypes
<1> QED BY <1>1, <1>2, FS_Subset, FS_CardinalityType

\* A job whose rows and results stay as they are goes on.
LEMMA JobGoesOn ==
    ASSUME LeaderboardInv, NEW g \in Games, NEW job \in Jobs,
           jobs' = [jobs EXCEPT ![g] = job], UNCHANGED <<ratings, matchResults>>,
           JobInv(g)',
           jobs[g].pc \in {"record", "torn"} <=> job.pc \in {"record", "torn"},
           job.pc \in {"record", "torn"} =>
               job.user = jobs[g].user /\ job.winner = jobs[g].winner,
           \A m \in matchResults : m.game = g => RecordInv(m)'
    PROVE  LeaderboardInv'
<1>1. /\ LeaderboardTypes
      /\ jobs \in [Games -> {[pc |-> "waits"]} \cup Jobs]
      /\ jobs' \in [Games -> {[pc |-> "waits"]} \cup Jobs]
      /\ jobs'[g] = job /\ \A h \in Games \ {g} : jobs'[h] = jobs[h]
  BY DEF LeaderboardInv, LeaderboardTypes
<1>2. LeaderboardTypes'
  <2>1. Under' \subseteq Under \cup {g}
    BY <1>1 DEF Under
  <2>2. IsFiniteSet(Under \cup {g})
    BY <1>1, FS_AddElement DEF LeaderboardTypes
  <2>3. IsFiniteSet(Under')
    BY <2>1, <2>2, FS_Subset
  <2> QED BY <1>1, <2>3 DEF LeaderboardTypes
<1>3. ASSUME NEW h \in Games PROVE JobInv(h)'
  <2>1. CASE h = g
    BY <2>1
  <2>2. CASE h # g
    BY <1>1, <2>2 DEF LeaderboardInv, JobInv
  <2> QED BY <2>1, <2>2
<1>4. ASSUME NEW m \in matchResults PROVE RecordInv(m)'
  <2>1. CASE m.game = g
    BY <2>1
  <2>2. CASE m.game # g
    <3>1. m.game \in Games /\ RecordInv(m)
      BY <1>1 DEF LeaderboardInv, LeaderboardTypes, MatchResults
    <3> QED BY <1>1, <2>2, <3>1 DEF RecordInv
  <2> QED BY <2>1, <2>2
<1>5. ASSUME NEW u \in Users PROVE RowInv(u)'
  <2>1. ASSUME NEW wins \in BOOLEAN PROVE Torn(u, wins)' = Torn(u, wins)
    BY <1>1 DEF Torn
  <2>2. \A wins \in BOOLEAN : Results(u, wins)' = Results(u, wins)
                             /\ Tally(u, wins)' = Tally(u, wins)
    BY DEF Results, Tally
  <2> QED BY <2>1, <2>2 DEF LeaderboardInv, RowInv
<1> QED BY <1>2, <1>3, <1>4, <1>5 DEF LeaderboardInv

\* A finished game is handed to the leaderboard.
LEMMA ProcessGameResultKeeps ==
    ASSUME LeaderboardInv, NEW g \in Games, ProcessGameResult(g)
    PROVE  LeaderboardInv'
<1>1. jobs[g].pc = "waits" /\ UNCHANGED <<ratings, matchResults>>
  BY DEF ProcessGameResult
<1>2. PICK winner \in Users, humans \in SUBSET Users :
         jobs' = [jobs EXCEPT ![g] =
               [pc |-> "read", winner |-> winner, humans |-> humans,
                seen |-> [u \in {} |-> New], todo |-> humans, user |-> winner, after |-> 0]]
  BY DEF ProcessGameResult
<1> DEFINE seen == [u \in {} |-> New]
           job == [pc |-> "read", winner |-> winner, humans |-> humans, seen |-> seen,
                   todo |-> humans, user |-> winner, after |-> 0]
<1>3. seen \in [{} -> Rows] /\ {} \in SUBSET Users
  OBVIOUS
<1>4. seen \in UNION {[D -> Rows] : D \in SUBSET Users}
  BY <1>3
<1> HIDE DEF seen
<1>5. job \in Jobs
  BY <1>4 DEF Jobs
<1>6. jobs' = [jobs EXCEPT ![g] = job] /\ jobs'[g] = job
  BY <1>2 DEF LeaderboardInv, LeaderboardTypes, seen
<1>7. JobInv(g)'
  BY <1>6 DEF JobInv
<1>8. \A m \in matchResults : m.game # g
  BY <1>1 DEF LeaderboardInv, RecordInv
<1> HIDE DEF job
<1>9. job.pc = "read"
  BY DEF job
<1> QED BY <1>1, <1>5, <1>6, <1>7, <1>8, <1>9, JobGoesOn

\* A job reads the row of its next player.
LEMMA ReadRatingKeeps ==
    ASSUME LeaderboardInv, NEW g \in Games, ReadRating(g)
    PROVE  LeaderboardInv'
<1>1. jobs[g].pc = "read" /\ UNCHANGED <<ratings, matchResults>>
  BY DEF ReadRating
<1>2. /\ jobs \in [Games -> {[pc |-> "waits"]} \cup Jobs] /\ ratings \in [Users -> Rows]
      /\ JobInv(g) /\ \A m \in matchResults : m.game # g
  BY <1>1 DEF LeaderboardInv, LeaderboardTypes, RecordInv
<1>3. jobs[g] \in Jobs
  BY <1>1, <1>2
<1>4. PICK u \in jobs[g].todo :
         jobs' = [jobs EXCEPT
             ![g].seen = [v \in (DOMAIN jobs[g].seen) \cup {u} |->
                             IF v = u THEN ratings[u] ELSE jobs[g].seen[v]],
             ![g].todo = IF jobs[g].todo \ {u} = {} THEN jobs[g].humans ELSE jobs[g].todo \ {u},
             ![g].pc = IF jobs[g].todo \ {u} = {} THEN "apply" ELSE "read"]
  BY DEF ReadRating
<1> DEFINE left == jobs[g].todo \ {u}
           D == (DOMAIN jobs[g].seen) \cup {u}
           seen == [v \in D |-> IF v = u THEN ratings[u] ELSE jobs[g].seen[v]]
           job == [jobs[g] EXCEPT !.seen = seen,
                                  !.todo = IF left = {} THEN jobs[g].humans ELSE left,
                                  !.pc = IF left = {} THEN "apply" ELSE "read"]
<1>5. PICK old \in SUBSET Users : jobs[g].seen \in [old -> Rows]
  BY <1>3 DEF Jobs
<1>6. u \in Users /\ D \in SUBSET Users /\ seen \in [D -> Rows] /\ DOMAIN seen = D
  BY <1>2, <1>3, <1>5 DEF Jobs
<1>7. seen \in UNION {[E -> Rows] : E \in SUBSET Users}
  BY <1>6
<1>8. jobs' = [jobs EXCEPT ![g] = job]
  BY <1>2, <1>4
<1> HIDE DEF seen
<1>9. /\ job \in Jobs /\ job.seen = seen /\ job.humans = jobs[g].humans
      /\ job.todo = (IF left = {} THEN jobs[g].humans ELSE left)
      /\ job.pc = (IF left = {} THEN "apply" ELSE "read")
  BY <1>3, <1>7 DEF Jobs
<1> HIDE DEF job, left, D
<1>10. jobs'[g] = job
  BY <1>2, <1>8
<1>11. /\ jobs[g].todo \subseteq jobs[g].humans
       /\ jobs[g].humans \ jobs[g].todo \subseteq DOMAIN jobs[g].seen
  BY <1>1, <1>2 DEF JobInv
<1>12. JobInv(g)'
  <2>1. CASE left = {}
    <3>1. job.pc = "apply" /\ job.todo = jobs[g].humans
      BY <1>9, <2>1
    <3>2. jobs[g].humans \subseteq D
      BY <1>11, <2>1 DEF left, D
    <3> QED BY <1>6, <1>9, <1>10, <3>1, <3>2 DEF JobInv
  <2>2. CASE left # {}
    <3>1. job.pc = "read" /\ job.todo = left
      BY <1>9, <2>2
    <3>2. left \subseteq jobs[g].humans /\ jobs[g].humans \ left \subseteq D
      BY <1>11 DEF left, D
    <3> QED BY <1>6, <1>9, <1>10, <3>1, <3>2 DEF JobInv
  <2> QED BY <2>1, <2>2
<1>13. job.pc \in {"apply", "read"}
  BY <1>9
<1> QED BY <1>1, <1>2, <1>8, <1>9, <1>12, <1>13, JobGoesOn

\* A statement fails, and the job stops where it is.
LEMMA StatementFailsKeeps ==
    ASSUME LeaderboardInv, NEW g \in Games, StatementFails(g)
    PROVE  LeaderboardInv'
<1>1. /\ jobs[g].pc \in {"read", "apply", "record"} /\ UNCHANGED <<ratings, matchResults>>
      /\ jobs' = [jobs EXCEPT ![g].pc = IF @ = "record" THEN "torn" ELSE "failed"]
  BY DEF StatementFails
<1>2. jobs \in [Games -> {[pc |-> "waits"]} \cup Jobs]
  BY DEF LeaderboardInv, LeaderboardTypes
<1>3. jobs[g] \in Jobs
  BY <1>1, <1>2
<1> DEFINE job == [jobs[g] EXCEPT !.pc = IF @ = "record" THEN "torn" ELSE "failed"]
<1>4. /\ job \in Jobs /\ job.user = jobs[g].user /\ job.winner = jobs[g].winner
      /\ job.pc = (IF jobs[g].pc = "record" THEN "torn" ELSE "failed")
      /\ jobs' = [jobs EXCEPT ![g] = job]
  BY <1>1, <1>3 DEF Jobs
<1> HIDE DEF job
<1>5. jobs'[g] = job /\ job.pc \in {"torn", "failed"}
  BY <1>2, <1>4
<1>6. JobInv(g)'
  BY <1>5 DEF JobInv
<1>7. ASSUME NEW m \in matchResults, m.game = g PROVE RecordInv(m)'
  BY <1>1, <1>5, <1>7 DEF LeaderboardInv, RecordInv
<1> QED BY <1>1, <1>4, <1>5, <1>6, <1>7, JobGoesOn

\* The game comes to be in the row of the winner or a loser and not in the history.
LEMMA ApplyRatingUpdateKeeps ==
    ASSUME LeaderboardInv, NEW g \in Games, ApplyRatingUpdate(g)
    PROVE  LeaderboardInv'
<1>1. jobs[g].pc = "apply" /\ UNCHANGED matchResults
  BY DEF ApplyRatingUpdate
<1>2. /\ LeaderboardTypes /\ JobInv(g)
      /\ jobs \in [Games -> {[pc |-> "waits"]} \cup Jobs] /\ ratings \in [Users -> Rows]
  BY DEF LeaderboardInv, LeaderboardTypes
<1>3. jobs[g] \in Jobs
  BY <1>1, <1>2
<1>4. PICK u \in jobs[g].todo : \E after \in NewRatings(jobs[g].seen[u].rating, u = jobs[g].winner) :
         /\ ratings' = [ratings EXCEPT ![u] =
                           UpdatedRow(u, jobs[g].seen[u], after, u = jobs[g].winner)]
         /\ jobs' = [jobs EXCEPT ![g].pc = "record", ![g].user = u, ![g].after = after,
                                 ![g].todo = @ \ {u}]
  BY DEF ApplyRatingUpdate
<1>5. PICK old \in SUBSET Users : jobs[g].seen \in [old -> Rows]
  BY <1>3 DEF Jobs
<1>6. u \in Users /\ u \in old /\ jobs[g].seen[u].rating \in Nat
  BY <1>1, <1>2, <1>3, <1>5 DEF JobInv, Jobs, Rows
<1> DEFINE wins == u = jobs[g].winner
<1>7. PICK after \in NewRatings(jobs[g].seen[u].rating, wins) :
         /\ ratings' = [ratings EXCEPT ![u] = UpdatedRow(u, jobs[g].seen[u], after, wins)]
         /\ jobs' = [jobs EXCEPT ![g].pc = "record", ![g].user = u, ![g].after = after,
                                 ![g].todo = @ \ {u}]
  BY <1>4
<1>8. after \in Nat
  <2>1. PICK change \in 0 .. MaxChange :
           after = Larger(jobs[g].seen[u].rating + (IF wins THEN change ELSE -change), MinRating)
    BY DEF NewRatings
  <2>2. MinRating \in Nat /\ change \in Nat
    BY RatingAssumption
  <2> QED BY <1>6, <2>1, <2>2 DEF Larger
<1> DEFINE row == UpdatedRow(u, jobs[g].seen[u], after, wins)
           job == [jobs[g] EXCEPT !.pc = "record", !.user = u, !.after = after,
                                  !.todo = @ \ {u}]
<1>9. /\ row \in Rows /\ row.peak >= ratings[u].peak /\ row.peak >= after
      /\ row.won = ratings[u].won + (IF wins THEN 1 ELSE 0)
      /\ row.lost = ratings[u].lost + (IF wins THEN 0 ELSE 1)
      /\ ratings[u].best >= ratings[u].streak => row.best >= row.streak
  <2>1. ratings[u] \in Rows
    BY <1>2, <1>6
  <2> QED BY <1>8, <2>1 DEF UpdatedRow, Larger, Rows
<1>10. /\ job \in Jobs /\ job.pc = "record" /\ job.user = u /\ job.after = after
       /\ job.todo = jobs[g].todo \ {u} /\ job.winner = jobs[g].winner /\ job.seen = jobs[g].seen
       /\ jobs' = [jobs EXCEPT ![g] = job]
  BY <1>2, <1>3, <1>6, <1>7, <1>8 DEF Jobs
<1>10a. ratings' = [ratings EXCEPT ![u] = row]
  BY <1>7
<1> HIDE DEF row, job
<1>11. /\ jobs' \in [Games -> {[pc |-> "waits"]} \cup Jobs] /\ jobs'[g] = job
       /\ \A h \in Games \ {g} : jobs'[h] = jobs[h]
       /\ ratings' \in [Users -> Rows] /\ ratings'[u] = row
       /\ \A v \in Users \ {u} : ratings'[v] = ratings[v]
  BY <1>2, <1>6, <1>9, <1>10, <1>10a
<1>12. LeaderboardTypes'
  <2>1. Under' = Under
    BY <1>1, <1>10, <1>11 DEF Under
  <2> QED BY <1>1, <1>2, <1>11, <2>1 DEF LeaderboardTypes
<1>13. \A v \in Users : ratings[v].peak \in Nat /\ ratings'[v].peak >= ratings[v].peak
  <2>1. \A v \in Users : ratings[v].peak \in Nat
    BY <1>2 DEF Rows
  <2> QED BY <1>9, <1>11, <2>1
<1>14. ASSUME NEW h \in Games PROVE JobInv(h)'
  <2>1. CASE h = g
    <3>1. job.after =< ratings'[u].peak
      BY <1>8, <1>9, <1>10, <1>11, <1>13
    <3> QED BY <1>1, <1>2, <1>10, <1>11, <2>1, <3>1 DEF JobInv
  <2>2. CASE h # g
    <3>1. jobs'[h] = jobs[h] /\ JobInv(h)
      BY <1>11, <2>2 DEF LeaderboardInv
    <3>2. ASSUME jobs[h].pc = "record" PROVE jobs[h].after =< ratings'[jobs[h].user].peak
      <4>1. jobs[h] \in Jobs
        BY <1>2, <3>2
      <4>2. jobs[h].user \in Users /\ jobs[h].after \in Nat
        BY <4>1 DEF Jobs
      <4>3. jobs[h].after =< ratings[jobs[h].user].peak
        BY <3>1, <3>2 DEF JobInv
      <4>4. ratings'[jobs[h].user].peak \in Nat
        BY <1>11, <4>2 DEF Rows
      <4> QED BY <1>13, <4>2, <4>3, <4>4
    <3> QED BY <3>1, <3>2 DEF JobInv
  <2> QED BY <2>1, <2>2
<1>15. ASSUME NEW m \in matchResults PROVE RecordInv(m)'
  <2>1. RecordInv(m) /\ m.game \in Games /\ m.user \in Users /\ m.after \in Nat
    BY <1>2 DEF LeaderboardInv, LeaderboardTypes, MatchResults
  <2>2. m.after =< ratings'[m.user].peak
    <3>1. ratings'[m.user].peak \in Nat
      BY <1>11, <2>1 DEF Rows
    <3> QED BY <1>13, <2>1, <3>1 DEF RecordInv
  <2>3. CASE m.game = g
    BY <1>1, <1>10, <1>11, <2>1, <2>2, <2>3 DEF RecordInv
  <2>4. CASE m.game # g
    BY <1>11, <2>1, <2>2, <2>4 DEF RecordInv
  <2> QED BY <2>3, <2>4
<1>16. ASSUME NEW v \in Users PROVE RowInv(v)'
  <2>1. RowInv(v)
    BY DEF LeaderboardInv
  <2>2. \A w \in BOOLEAN : Results(v, w)' = Results(v, w)
    BY <1>1 DEF Results
  <2>3. ASSUME NEW w \in BOOLEAN, v # u \/ w # wins PROVE Torn(v, w)' = Torn(v, w)
    BY <1>1, <1>10, <1>11, <2>3 DEF Torn
  <2>4. ASSUME NEW w \in BOOLEAN, v # u \/ w # wins
        PROVE  Tally(v, w)' = Cardinality(Results(v, w)')+ Cardinality(Torn(v, w)')
    <3>1. Tally(v, w)' = Tally(v, w)
      <4>1. CASE v # u
        BY <1>11, <4>1 DEF Tally
      <4>2. CASE v = u /\ w # wins
        <5>1. ratings[u].won \in Nat /\ ratings[u].lost \in Nat
          BY <1>2, <1>6 DEF Rows
        <5> QED BY <1>9, <1>11, <4>2, <5>1 DEF Tally
      <4> QED BY <2>4, <4>1, <4>2
    <3> QED BY <2>1, <2>2, <2>3, <2>4, <3>1 DEF RowInv
  <2>5. ASSUME NEW w \in BOOLEAN, v = u, w = wins
        PROVE  Tally(v, w)' = Cardinality(Results(v, w)')+ Cardinality(Torn(v, w)')
    <3>1. Torn(v, w)' = Torn(v, w) \cup {g} /\ g \notin Torn(v, w)
      BY <1>1, <1>10, <1>11, <2>5 DEF Torn
    <3>2. Tally(v, w)' = Tally(v, w) + 1
      <4>1. ratings[u].won \in Nat /\ ratings[u].lost \in Nat
        BY <1>2, <1>6 DEF Rows
      <4> QED BY <1>9, <1>11, <2>5, <4>1 DEF Tally
    <3>3. /\ IsFiniteSet(Torn(v, w)) /\ Cardinality(Torn(v, w)) \in Nat
          /\ Cardinality(Results(v, w)) \in Nat
      BY <1>2, SetsAreFinite
    <3>4. Cardinality(Torn(v, w)') = Cardinality(Torn(v, w)) + 1
      BY <3>1, <3>3, FS_AddElement
    <3>5. Tally(v, w) = Cardinality(Results(v, w)) + Cardinality(Torn(v, w))
      BY <2>1 DEF RowInv
    <3> QED BY <2>2, <3>2, <3>3, <3>4, <3>5
  <2>6. ratings'[v].best >= ratings'[v].streak
    BY <1>9, <1>11, <2>1 DEF RowInv
  <2> HIDE DEF wins
  <2>7. \A w \in BOOLEAN :
           Tally(v, w)' = Cardinality(Results(v, w)') + Cardinality(Torn(v, w)')
    BY <2>4, <2>5
  <2> QED BY <2>6, <2>7 DEF RowInv
<1> QED BY <1>1, <1>12, <1>14, <1>15, <1>16 DEF LeaderboardInv

\* The game leaves the games that are only in the row.
LEMMA RecordMatchResultKeeps ==
    ASSUME LeaderboardInv, NEW g \in Games, RecordMatchResult(g)
    PROVE  LeaderboardInv'
<1> DEFINE u == jobs[g].user
           wins == jobs[g].user = jobs[g].winner
           result == [game |-> g, user |-> u, wins |-> wins, after |-> jobs[g].after]
           job == [jobs[g] EXCEPT !.pc = IF jobs[g].todo = {} THEN "done" ELSE "apply"]
<1>1. /\ jobs[g].pc = "record" /\ UNCHANGED ratings
      /\ matchResults' = matchResults \cup {result}
      /\ jobs' = [jobs EXCEPT ![g].pc = IF jobs[g].todo = {} THEN "done" ELSE "apply"]
  BY DEF RecordMatchResult
<1>2. /\ LeaderboardTypes /\ JobInv(g)
      /\ jobs \in [Games -> {[pc |-> "waits"]} \cup Jobs] /\ ratings \in [Users -> Rows]
  BY DEF LeaderboardInv, LeaderboardTypes
<1>3. jobs[g] \in Jobs
  BY <1>1, <1>2
<1>4. u \in Users /\ wins \in BOOLEAN /\ jobs[g].after \in Nat /\ jobs[g].winner \in Users
  BY <1>3 DEF Jobs
<1>5. /\ result \in MatchResults /\ result.game = g /\ result.user = u
      /\ result.wins = wins /\ result.after = jobs[g].after
  BY <1>4 DEF MatchResults
<1>6. /\ job \in Jobs /\ job.pc \in {"done", "apply"} /\ job.seen = jobs[g].seen
      /\ job.todo = jobs[g].todo
      /\ jobs' = [jobs EXCEPT ![g] = job]
  BY <1>1, <1>2, <1>3 DEF Jobs
<1> HIDE DEF result, job
<1>7. /\ jobs' \in [Games -> {[pc |-> "waits"]} \cup Jobs] /\ jobs'[g] = job
      /\ \A h \in Games \ {g} : jobs'[h] = jobs[h]
  BY <1>2, <1>6
<1>8. /\ u \notin jobs[g].todo /\ jobs[g].after =< ratings[u].peak
      /\ jobs[g].todo \subseteq DOMAIN jobs[g].seen
  BY <1>1, <1>2 DEF JobInv
<1>9. \A m \in matchResults : m.game = g => m.user # u /\ m.user \notin jobs[g].todo
  BY <1>1 DEF LeaderboardInv, RecordInv
<1>10. LeaderboardTypes'
  <2>1. Under' = Under
    BY <1>1, <1>6, <1>7 DEF Under
  <2>2. IsFiniteSet(matchResults')
    BY <1>1, <1>2, FS_AddElement DEF LeaderboardTypes
  <2> QED BY <1>1, <1>2, <1>5, <1>7, <2>1, <2>2 DEF LeaderboardTypes
<1>11. ASSUME NEW h \in Games PROVE JobInv(h)'
  <2>1. CASE h = g
    BY <1>6, <1>7, <1>8, <2>1 DEF JobInv
  <2>2. CASE h # g
    BY <1>1, <1>7, <2>2 DEF LeaderboardInv, JobInv
  <2> QED BY <2>1, <2>2
<1>12. ASSUME NEW m \in matchResults' PROVE RecordInv(m)'
  <2>1. CASE m = result
    BY <1>1, <1>5, <1>6, <1>7, <1>8, <2>1 DEF RecordInv
  <2>2. CASE m \in matchResults
    <3>1. RecordInv(m) /\ m.game \in Games
      BY <1>2, <2>2 DEF LeaderboardInv, LeaderboardTypes, MatchResults
    <3>2. CASE m.game = g
      BY <1>1, <1>6, <1>7, <1>9, <2>2, <3>1, <3>2 DEF RecordInv
    <3>3. CASE m.game # g
      BY <1>1, <1>7, <3>1, <3>3 DEF RecordInv
    <3> QED BY <3>2, <3>3
  <2> QED BY <1>1, <2>1, <2>2
<1>13. ASSUME NEW v \in Users PROVE RowInv(v)'
  <2>1. RowInv(v)
    BY DEF LeaderboardInv
  <2>2. \A w \in BOOLEAN : Tally(v, w)' = Tally(v, w)
    BY <1>1 DEF Tally
  <2>3. ASSUME NEW w \in BOOLEAN, v # u \/ w # wins
        PROVE  Results(v, w)' = Results(v, w) /\ Torn(v, w)' = Torn(v, w)
    <3>1. Results(v, w)' = Results(v, w)
      BY <1>1, <1>5, <2>3 DEF Results
    <3>2. Torn(v, w)' = Torn(v, w)
      BY <1>1, <1>6, <1>7, <2>3 DEF Torn
    <3> QED BY <3>1, <3>2
  <2>4. ASSUME NEW w \in BOOLEAN, v = u, w = wins
        PROVE  Tally(v, w)' = Cardinality(Results(v, w)') + Cardinality(Torn(v, w)')
    <3>1. Results(v, w)' = Results(v, w) \cup {result} /\ result \notin Results(v, w)
      BY <1>1, <1>5, <1>9, <2>4 DEF Results
    <3>2. Torn(v, w) = Torn(v, w)' \cup {g} /\ g \notin Torn(v, w)'
      BY <1>1, <1>6, <1>7, <2>4 DEF Torn
    <3>3. /\ IsFiniteSet(Torn(v, w)) /\ Cardinality(Torn(v, w)) \in Nat
          /\ IsFiniteSet(Results(v, w)) /\ Cardinality(Results(v, w)) \in Nat
      BY <1>2, SetsAreFinite
    <3>4. Cardinality(Results(v, w)') = Cardinality(Results(v, w)) + 1
      BY <3>1, <3>3, FS_AddElement
    <3>5. IsFiniteSet(Torn(v, w)') /\ Cardinality(Torn(v, w)') \in Nat
      BY <3>2, <3>3, FS_Subset, FS_CardinalityType
    <3>6. Cardinality(Torn(v, w)) = Cardinality(Torn(v, w)') + 1
      BY <3>2, <3>5, FS_AddElement
    <3>7. Tally(v, w) = Cardinality(Results(v, w)) + Cardinality(Torn(v, w))
      BY <2>1 DEF RowInv
    <3> QED BY <2>2, <3>3, <3>4, <3>5, <3>6, <3>7
  <2> HIDE DEF wins
  <2>5. \A w \in BOOLEAN :
           Tally(v, w)' = Cardinality(Results(v, w)') + Cardinality(Torn(v, w)')
    BY <2>1, <2>2, <2>3, <2>4 DEF RowInv
  <2> QED BY <1>1, <2>1, <2>5 DEF RowInv
<1> QED BY <1>10, <1>11, <1>12, <1>13 DEF LeaderboardInv

\* The invariant is inductive.
LEMMA LeaderboardHolds == LeaderboardSpec => []LeaderboardInv
<1>1. LeaderboardInit => LeaderboardInv
  <2> SUFFICES ASSUME LeaderboardInit PROVE LeaderboardInv
    OBVIOUS
  <2>1. /\ ratings = [u \in Users |-> New] /\ matchResults = {}
        /\ jobs = [g \in Games |-> [pc |-> "waits"]]
    BY DEF LeaderboardInit
  <2>2. New \in Rows
    BY RatingAssumption DEF New, Rows
  <2>3. Under = {} /\ \A g \in Games : jobs[g].pc = "waits"
    BY <2>1 DEF Under
  <2>4. LeaderboardTypes
    BY <2>1, <2>2, <2>3, FS_EmptySet DEF LeaderboardTypes
  <2>5. ASSUME NEW u \in Users PROVE RowInv(u)
    <3>1. \A wins \in BOOLEAN : Results(u, wins) = {} /\ Torn(u, wins) = {}
      BY <2>1, <2>3 DEF Results, Torn
    <3>2. \A wins \in BOOLEAN : Tally(u, wins) = 0
      BY <2>1 DEF Tally, New
    <3>3. ratings[u].best >= ratings[u].streak
      BY <2>1 DEF New
    <3> QED BY <3>1, <3>2, <3>3, FS_EmptySet DEF RowInv
  <2>6. \A g \in Games : JobInv(g)
    BY <2>3 DEF JobInv
  <2> QED BY <2>1, <2>4, <2>5, <2>6 DEF LeaderboardInv
<1>2. LeaderboardInv /\ [LeaderboardNext]_leaderboardVars => LeaderboardInv'
  <2> SUFFICES ASSUME LeaderboardInv, [LeaderboardNext]_leaderboardVars PROVE LeaderboardInv'
    OBVIOUS
  <2>1. ASSUME NEW g \in Games, ProcessGameResult(g) PROVE LeaderboardInv'
    BY <2>1, ProcessGameResultKeeps
  <2>2. ASSUME NEW g \in Games, ReadRating(g) PROVE LeaderboardInv'
    BY <2>2, ReadRatingKeeps
  <2>3. ASSUME NEW g \in Games, ApplyRatingUpdate(g) PROVE LeaderboardInv'
    BY <2>3, ApplyRatingUpdateKeeps
  <2>4. ASSUME NEW g \in Games, RecordMatchResult(g) PROVE LeaderboardInv'
    BY <2>4, RecordMatchResultKeeps
  <2>5. ASSUME NEW g \in Games, StatementFails(g) PROVE LeaderboardInv'
    BY <2>5, StatementFailsKeeps
  <2>6. CASE UNCHANGED leaderboardVars
    <3>1. LeaderboardTypes'
      BY <2>6 DEF leaderboardVars, LeaderboardInv, LeaderboardTypes, Under
    <3>2. \A g \in Games : JobInv(g)'
      BY <2>6 DEF leaderboardVars, LeaderboardInv, JobInv
    <3>3. \A m \in matchResults' : RecordInv(m)'
      BY <2>6 DEF leaderboardVars, LeaderboardInv, RecordInv
    <3>4. \A u \in Users : RowInv(u)'
      BY <2>6 DEF leaderboardVars, LeaderboardInv, RowInv, Tally, Results, Torn
    <3> QED BY <3>1, <3>2, <3>3, <3>4 DEF LeaderboardInv
  <2> QED BY <2>1, <2>2, <2>3, <2>4, <2>5, <2>6 DEF LeaderboardNext
<1> QED BY <1>1, <1>2, PTL DEF LeaderboardSpec

\* The won and lost games of a row are the results on record, and one more for a game of which
\* the job broke off before its last statement.
THEOREM RowsMatchHistory == LeaderboardSpec => []RowsMatchResults
<1>1. LeaderboardInv => RowsMatchResults
  <2> SUFFICES ASSUME LeaderboardInv, NEW u \in Users
               PROVE  /\ ratings[u].won = Cardinality(Results(u, TRUE)) + Cardinality(Torn(u, TRUE))
                      /\ ratings[u].lost = Cardinality(Results(u, FALSE)) + Cardinality(Torn(u, FALSE))
                      /\ ratings[u].best >= ratings[u].streak
                      /\ \A m \in matchResults : m.user = u => m.after =< ratings[u].peak
    BY DEF RowsMatchResults
  <2>1. RowInv(u) /\ \A m \in matchResults : RecordInv(m)
    BY DEF LeaderboardInv
  <2>2. TRUE \in BOOLEAN /\ FALSE \in BOOLEAN
    OBVIOUS
  <2>3. /\ Tally(u, TRUE) = Cardinality(Results(u, TRUE)) + Cardinality(Torn(u, TRUE))
        /\ Tally(u, FALSE) = Cardinality(Results(u, FALSE)) + Cardinality(Torn(u, FALSE))
    BY <2>1, <2>2 DEF RowInv
  <2> QED BY <2>1, <2>3 DEF RowInv, RecordInv, Tally
<1> QED BY <1>1, LeaderboardHolds, PTL

(***************************************************************************)
(* Refresh tokens: while every refresh that marked its token is answered   *)
(* with a new one, the browser never holds a used one unless its successor *)
(* is on its way.                                                          *)
(***************************************************************************)

SessionIds == 0 .. MaxSessions
TokenIds == 0 .. MaxIssued
Access == [n : TokenIds, session : SessionIds]

\* Where a handler is, as long as no used token is presented
Places == {"exists", "create", "guest", "save", "list", "generate", "granted", "refused",
           "verify", "session", "rotate", "mark", "revoke", "unlist", "delete", "loggedOut"}

Requests ==
    [kind : {"register", "login", "guest", "refresh", "logout"},
     pc : Places, call : Calls \cup {"none"}, token : TokenIds, session : SessionIds,
     todo : SUBSET SessionIds, heard : BOOLEAN]

CallStates ==
    [kind : {"none", "api", "logout"}, pc : {"idle", "sent", "resent", "waiting", "served"},
     token : Access]

AuthTypes ==
    /\ requests \subseteq Requests /\ \A r \in requests : r.token =< issued
    /\ issued \in TokenIds /\ cookie \in TokenIds /\ cookie =< issued
    /\ refreshTokens \in [Tokens -> [session : SessionIds, isUsed : BOOLEAN]]
    /\ userSessions \subseteq SessionIds
    /\ accessToken \in Access
    /\ calls \in [Calls -> CallStates]

\* Before the refresh token presented is marked
Verifying == {"verify", "session", "rotate", "mark"}

Used(t) == t \in Tokens /\ refreshTokens[t].isUsed

\* A new refresh token is on its way.
Granted(r) == r.pc = "granted" /\ r.kind # "guest"

RequestInv(r) ==
    /\ r.pc \in Verifying => r.kind = "refresh" /\ ~Used(r.token)
    /\ r.kind = "refresh" => r.heard /\ refreshPromise
    /\ Granted(r) => ~Used(r.token) /\ r.token \notin {cookie, NoToken}
    /\ r.pc = "guest" => r.kind = "guest"

PairInv(r, s) ==
    /\ r.kind = "refresh" => s.kind # "refresh"
    /\ Granted(r) /\ (Granted(s) \/ s.pc \in Verifying) => r.token # s.token

CookieInv ==
    Used(cookie) => \E r \in requests : r.kind = "refresh" /\ r.pc \in {"generate", "granted"}

HonestInv ==
    /\ AuthTypes /\ reused = FALSE /\ CookieInv
    /\ \A r \in requests : RequestInv(r)
    /\ \A r, s \in requests : r # s => PairInv(r, s)

AuthInv == "refresh" \in lost \/ <<"refresh", "generate">> \in faults \/ HonestInv

\* A handler takes a step.
LEMMA RequestGoes ==
    ASSUME HonestInv, NEW r \in requests, NEW next \in Requests, Goes(r, next),
           UNCHANGED <<tabVars, reused>>, next.kind = r.kind, next.heard = r.heard,
           refreshTokens' \in [Tokens -> [session : SessionIds, isUsed : BOOLEAN]],
           userSessions' \subseteq SessionIds,
           issued' \in TokenIds, issued =< issued', next.token =< issued',
           next.pc \in Verifying => r.pc \in Verifying /\ next.token = r.token,
           Granted(next) => issued < next.token /\ ~Used(next.token)',
           next.pc # "guest",
           r.kind = "refresh" /\ r.pc \in {"generate", "granted"} => next.pc \in {"generate", "granted"},
           \A t \in Tokens : Used(t)' =>
               Used(t) \/ (t = r.token /\ r.pc = "mark" /\ next.pc = "generate")
    PROVE  HonestInv'
<1>1. /\ requests' = (requests \ {r}) \cup {next}
      /\ UNCHANGED <<cookie, accessToken, refreshPromise, calls, reused>>
  BY DEF Goes, tabVars
<1>2. AuthTypes /\ RequestInv(r) /\ CookieInv
  BY DEF HonestInv
<1>3. /\ issued \in Nat /\ issued' \in Nat /\ cookie \in Nat /\ cookie =< issued
      /\ \A s \in requests : s \in Requests /\ s.token \in Nat /\ s.token =< issued
      /\ next.token \in Nat
  BY <1>2, AuthAssumption DEF AuthTypes, TokenIds, Requests
<1>4. AuthTypes'
  BY <1>1, <1>2, <1>3 DEF AuthTypes
<1>5. ASSUME NEW t \in TokenIds, Used(t)'
      PROVE  Used(t) \/ (t = r.token /\ r.pc = "mark" /\ next.pc = "generate")
  BY <1>5 DEF Used
<1>6. ASSUME NEW s \in requests, s # r PROVE RequestInv(s)'
  <2>1. RequestInv(s) /\ PairInv(s, r) /\ PairInv(r, s)
    BY <1>6 DEF HonestInv
  <2>2. (s.pc \in Verifying \/ Granted(s)) => ~Used(s.token)'
    <3> SUFFICES ASSUME s.pc \in Verifying \/ Granted(s), Used(s.token)' PROVE FALSE
      OBVIOUS
    <3>1. s.token \in TokenIds /\ ~Used(s.token)
      BY <1>2, <2>1 DEF AuthTypes, Requests, RequestInv
    <3>2. s.token = r.token /\ r.pc \in Verifying
      BY <1>5, <3>1 DEF Verifying
    <3> QED BY <1>2, <2>1, <3>2 DEF RequestInv, PairInv
  <2> QED BY <1>1, <2>1, <2>2 DEF RequestInv, Granted
<1>7. RequestInv(next)'
  <2>1. next.pc \in Verifying => next.kind = "refresh" /\ ~Used(next.token)'
    <3> SUFFICES ASSUME next.pc \in Verifying PROVE next.kind = "refresh" /\ ~Used(next.token)'
      OBVIOUS
    <3>1. r.kind = "refresh" /\ ~Used(next.token) /\ next.pc # "generate"
      BY <1>2 DEF RequestInv, Verifying
    <3>2. next.token \in TokenIds
      BY DEF Requests
    <3> QED BY <1>5, <3>1, <3>2
  <2>2. next.kind = "refresh" => next.heard /\ refreshPromise'
    BY <1>1, <1>2 DEF RequestInv
  <2>3. Granted(next) => next.token \notin {cookie', NoToken}
    BY <1>1, <1>3 DEF NoToken
  <2> QED BY <2>1, <2>2, <2>3 DEF RequestInv, Granted
<1>8. \A s \in requests' : RequestInv(s)'
  BY <1>1, <1>6, <1>7
<1>9. ASSUME NEW s \in requests, s # r PROVE PairInv(s, next) /\ PairInv(next, s)
  <2>1. PairInv(s, r) /\ PairInv(r, s)
    BY <1>9 DEF HonestInv
  <2>2. Granted(next) => s.token # next.token
    BY <1>3
  <2>3. next.pc \in Verifying => r.pc \in Verifying /\ next.token = r.token
    OBVIOUS
  <2>4. Granted(s) /\ (Granted(next) \/ next.pc \in Verifying) => s.token # next.token
    BY <2>1, <2>2, <2>3 DEF PairInv
  <2> QED BY <2>1, <2>2, <2>4 DEF PairInv
<1>10. \A s, t \in requests' : s # t => PairInv(s, t)
  BY <1>1, <1>9 DEF HonestInv
<1>11. \A s, t \in requests' : s # t => PairInv(s, t)'
  BY <1>10 DEF PairInv, Granted
<1>12. CookieInv'
  <2> SUFFICES ASSUME Used(cookie)'
               PROVE  \E s \in requests' : s.kind = "refresh" /\ s.pc \in {"generate", "granted"}
    BY DEF CookieInv
  <2>1. Used(cookie) \/ (r.pc = "mark" /\ next.pc = "generate")
    BY <1>1, <1>2, <1>5 DEF AuthTypes, Used
  <2>2. CASE Used(cookie)
    <3>1. PICK s \in requests : s.kind = "refresh" /\ s.pc \in {"generate", "granted"}
      BY <1>2, <2>2 DEF CookieInv
    <3>2. CASE s = r
      BY <1>1, <3>1, <3>2
    <3>3. CASE s # r
      BY <1>1, <3>1, <3>3
    <3> QED BY <3>2, <3>3
  <2>3. CASE r.pc = "mark" /\ next.pc = "generate"
    BY <1>1, <1>2, <2>3 DEF RequestInv, Verifying
  <2> QED BY <2>1, <2>2, <2>3
<1> QED BY <1>1, <1>4, <1>8, <1>11, <1>12 DEF HonestInv

\* next is r at pc, with the token t.
Follows(r, next, pc, t) ==
    /\ next \in Requests /\ next.pc = pc /\ next.token = t
    /\ next.kind = r.kind /\ next.heard = r.heard

\* What a handler makes of its request
LEMMA FollowersFollow ==
    ASSUME NEW r \in Requests, NEW pc \in Places
    PROVE  /\ Follows(r, To(r, pc), pc, r.token)
           /\ \A s \in SessionIds : Follows(r, [r EXCEPT !.pc = pc, !.session = s], pc, r.token)
           /\ \A t \in TokenIds : Follows(r, [r EXCEPT !.pc = pc, !.token = t], pc, t)
<1>1. Follows(r, To(r, pc), pc, r.token)
  BY DEF To, Requests, Follows
<1>2. \A s \in SessionIds : Follows(r, [r EXCEPT !.pc = pc, !.session = s], pc, r.token)
  BY DEF Requests, Follows
<1>3. \A t \in TokenIds : Follows(r, [r EXCEPT !.pc = pc, !.token = t], pc, t)
  BY DEF Requests, Follows
<1> QED BY <1>1, <1>2, <1>3

\* A step that leaves the refresh tokens and what is issued as they are
LEMMA RequestMovesOn ==
    ASSUME HonestInv, NEW r \in requests, NEW pc \in Places, NEW next, Goes(r, next),
           Follows(r, next, pc, r.token),
           UNCHANGED <<tabVars, reused, refreshTokens, issued>>,
           userSessions' \subseteq SessionIds,
           pc \in Verifying => r.pc \in Verifying,
           pc \notin {"granted", "guest"}, r.kind = "refresh" => r.pc \notin {"generate", "granted"}
    PROVE  HonestInv'
<1>1. /\ refreshTokens \in [Tokens -> [session : SessionIds, isUsed : BOOLEAN]]
      /\ issued \in TokenIds /\ issued =< issued /\ r.token =< issued
  BY AuthAssumption DEF HonestInv, AuthTypes, TokenIds
<1>2. \A t \in Tokens : Used(t)' => Used(t)
  BY DEF Used
<1>3. /\ next \in Requests /\ next.pc = pc /\ next.token = r.token
      /\ next.kind = r.kind /\ next.heard = r.heard /\ ~Granted(next) /\ next.pc # "guest"
  BY DEF Granted, Follows
<1>4. UNCHANGED <<tabVars, reused>>
  OBVIOUS
<1> QED BY <1>1, <1>2, <1>3, <1>4, RequestGoes

\* The handlers of register, login and logout, and the checks of a refresh
LEMMA HandlersKeep ==
    ASSUME HonestInv, NEW r \in requests, UNCHANGED <<tabVars, reused>>,
           \/ UserExists(r) \/ CreateUser(r) \/ SaveSession(r) \/ ListSession(r)
           \/ RevokeSession(r) \/ UnlistSession(r) \/ CheckSession(r) \/ ReadOld(r)
    PROVE  HonestInv'
<1>1. r \in Requests /\ userSessions \subseteq SessionIds
  BY DEF HonestInv, AuthTypes
<1>2. \A pc \in Places : Follows(r, To(r, pc), pc, r.token)
  BY <1>1, FollowersFollow
<1>3. CASE UserExists(r)
  <2>1. /\ r.pc = "exists"
        /\ UNCHANGED <<refreshTokens, issued>> /\ userSessions' \subseteq SessionIds
    BY <1>1, <1>3 DEF UserExists, redisVars
  <2>2. PICK pc \in {"refused", "create"} : Goes(r, To(r, pc))
    BY <1>3 DEF UserExists
  <2>3. pc \in Places /\ pc \notin {"granted", "guest"} /\ (pc \in Verifying => r.pc \in Verifying)
    BY <2>1 DEF Places, Verifying
  <2> QED BY <1>2, <2>1, <2>2, <2>3, RequestMovesOn
<1>4. CASE CreateUser(r)
  <2>1. /\ r.pc = "create"
        /\ UNCHANGED <<refreshTokens, issued>> /\ userSessions' \subseteq SessionIds
    BY <1>1, <1>4 DEF CreateUser
  <2>2. PICK pc \in {"refused", "save"} : Goes(r, To(r, pc))
    BY <1>4 DEF CreateUser
  <2>3. pc \in Places /\ pc \notin {"granted", "guest"} /\ (pc \in Verifying => r.pc \in Verifying)
    BY <2>1 DEF Places, Verifying
  <2> QED BY <1>2, <2>1, <2>2, <2>3, RequestMovesOn
<1>5. CASE SaveSession(r)
  <2>1. r.pc = "save" /\ UNCHANGED <<userSessions, refreshTokens, issued>>
    BY <1>5 DEF SaveSession
  <2>2. PICK s \in Sessions : Goes(r, [r EXCEPT !.pc = "list", !.session = s])
    BY <1>5 DEF SaveSession
  <2>3. s \in SessionIds /\ "list" \in Places \ Verifying
    BY AuthAssumption DEF Sessions, SessionIds, Places, Verifying
  <2>4. Follows(r, [r EXCEPT !.pc = "list", !.session = s], "list", r.token)
    BY <1>1, <2>3, FollowersFollow
  <2> QED BY <1>1, <2>1, <2>2, <2>3, <2>4, RequestMovesOn
<1>6. CASE ListSession(r)
  <2>1. /\ r.pc = "list"
        /\ UNCHANGED <<refreshTokens, issued>> /\ userSessions' \subseteq SessionIds
    BY <1>1, <1>6 DEF ListSession, Requests
  <2>2. Goes(r, To(r, "generate"))
    BY <1>6 DEF ListSession
  <2>3. "generate" \in Places \ Verifying
    BY DEF Places, Verifying
  <2> QED BY <1>2, <2>1, <2>2, <2>3, RequestMovesOn
<1>7. CASE RevokeSession(r)
  <2>1. /\ r.pc = "revoke"
        /\ UNCHANGED <<refreshTokens, issued>> /\ userSessions' \subseteq SessionIds
    BY <1>1, <1>7 DEF RevokeSession
  <2>2. Goes(r, To(r, "unlist"))
    BY <1>7 DEF RevokeSession
  <2>3. "unlist" \in Places \ Verifying
    BY DEF Places, Verifying
  <2> QED BY <1>2, <2>1, <2>2, <2>3, RequestMovesOn
<1>8. CASE UnlistSession(r)
  <2>1. /\ r.pc = "unlist"
        /\ UNCHANGED <<refreshTokens, issued>> /\ userSessions' \subseteq SessionIds
    BY <1>1, <1>8 DEF UnlistSession
  <2>2. Goes(r, To(r, "delete"))
    BY <1>8 DEF UnlistSession
  <2>3. "delete" \in Places \ Verifying
    BY DEF Places, Verifying
  <2> QED BY <1>2, <2>1, <2>2, <2>3, RequestMovesOn
<1>9. CASE CheckSession(r)
  <2>1. /\ r.pc = "session"
        /\ UNCHANGED <<refreshTokens, issued>> /\ userSessions' \subseteq SessionIds
    BY <1>1, <1>9 DEF CheckSession, redisVars
  <2>2. PICK pc \in {"rotate", "refused"} : Goes(r, To(r, pc))
    BY <1>9 DEF CheckSession
  <2>3. pc \in Places /\ pc \notin {"granted", "guest"} /\ (pc \in Verifying => r.pc \in Verifying)
    BY <2>1 DEF Places, Verifying
  <2> QED BY <1>2, <2>1, <2>2, <2>3, RequestMovesOn
<1>10. CASE ReadOld(r)
  <2>1. /\ r.pc = "rotate"
        /\ UNCHANGED <<refreshTokens, issued>> /\ userSessions' \subseteq SessionIds
    BY <1>1, <1>10 DEF ReadOld, redisVars
  <2>2. PICK pc \in {"generate", "mark"} : Goes(r, To(r, pc))
    BY <1>10 DEF ReadOld
  <2>3. pc \in Places /\ pc \notin {"granted", "guest"} /\ (pc \in Verifying => r.pc \in Verifying)
    BY <2>1 DEF Places, Verifying
  <2> QED BY <1>2, <2>1, <2>2, <2>3, RequestMovesOn
<1> QED BY <1>3, <1>4, <1>5, <1>6, <1>7, <1>8, <1>9, <1>10

\* A command fails, though not between a refresh's mark and its new token.
LEMMA CommandFailsKeeps ==
    ASSUME HonestInv, NEW r \in requests, CommandFails(r),
           ~(r.kind = "refresh" /\ r.pc = "generate")
    PROVE  HonestInv'
<1>1. /\ r.pc # "granted" /\ Goes(r, To(r, "refused"))
      /\ UNCHANGED <<tabVars, reused, refreshTokens, issued, userSessions>>
  BY DEF CommandFails, redisVars
<1>2. r \in Requests /\ userSessions' \subseteq SessionIds
  BY <1>1 DEF HonestInv, AuthTypes
<1>3. "refused" \in Places \ Verifying /\ "refused" \notin {"granted", "guest"}
  BY DEF Places, Verifying
<1>4. Follows(r, To(r, "refused"), "refused", r.token)
  BY <1>2, <1>3, FollowersFollow
<1> QED BY <1>1, <1>2, <1>3, <1>4, RequestMovesOn

\* The steps that write refresh tokens
LEMMA WritersKeep ==
    ASSUME HonestInv, NEW r \in requests, UNCHANGED <<tabVars, reused>>,
           GenerateGuest(r) \/ Generate(r) \/ MarkUsed(r) \/ RevokeRefreshToken(r)
    PROVE  HonestInv'
<1>1. /\ r \in Requests /\ userSessions \subseteq SessionIds /\ RequestInv(r)
      /\ issued \in TokenIds /\ issued \in Nat /\ r.token =< issued /\ MaxIssued \in Nat
      /\ refreshTokens \in [Tokens -> [session : SessionIds, isUsed : BOOLEAN]]
      /\ r.session \in SessionIds /\ r.token \in TokenIds
  BY AuthAssumption DEF HonestInv, AuthTypes, TokenIds, Requests
<1>2. UNCHANGED <<tabVars, reused>>
  OBVIOUS
<1>3. CASE GenerateGuest(r)
  <2>1. /\ r.pc = "guest" /\ issued < MaxIssued /\ issued' = issued + 1
        /\ Goes(r, [r EXCEPT !.pc = "granted", !.token = issued'])
        /\ UNCHANGED <<userSessions, refreshTokens>>
    BY <1>3 DEF GenerateGuest
  <2>2. PICK t \in TokenIds : t = issued' /\ issued < t
    BY <1>1, <2>1 DEF TokenIds
  <2>3. "granted" \in Places
    BY DEF Places
  <2>4. PICK next : Follows(r, next, "granted", t) /\ Goes(r, next)
    BY <1>1, <2>1, <2>2, <2>3, FollowersFollow
  <2>5. /\ next \in Requests /\ next.kind = r.kind /\ next.heard = r.heard /\ next.token = t
        /\ next.pc = "granted" /\ ~Granted(next) /\ next.pc \notin Verifying
    BY <1>1, <2>1, <2>4 DEF Follows, Granted, RequestInv, Verifying
  <2>6. issued' \in TokenIds /\ issued =< issued' /\ next.token =< issued'
    BY <1>1, <2>1, <2>2, <2>5 DEF TokenIds
  <2>7. /\ refreshTokens' \in [Tokens -> [session : SessionIds, isUsed : BOOLEAN]]
        /\ userSessions' \subseteq SessionIds /\ \A u \in Tokens : Used(u)' => Used(u)
    BY <1>1, <2>1 DEF Used
  <2> QED BY <1>2, <2>4, <2>5, <2>6, <2>7, RequestGoes
<1>4. CASE Generate(r)
  <2>1. /\ r.pc = "generate" /\ issued < MaxIssued /\ issued' = issued + 1
        /\ refreshTokens' = [refreshTokens EXCEPT ![issued'] =
                                [session |-> r.session, isUsed |-> FALSE]]
        /\ Goes(r, [r EXCEPT !.pc = "granted", !.token = issued'])
        /\ UNCHANGED userSessions
    BY <1>4 DEF Generate
  <2>2. PICK t \in TokenIds : t = issued' /\ issued < t
    BY <1>1, <2>1 DEF TokenIds
  <2>3. "granted" \in Places
    BY DEF Places
  <2>4. PICK next : Follows(r, next, "granted", t) /\ Goes(r, next)
    BY <1>1, <2>1, <2>2, <2>3, FollowersFollow
  <2>5. /\ next \in Requests /\ next.kind = r.kind /\ next.heard = r.heard /\ next.token = t
        /\ next.pc = "granted" /\ next.pc \notin Verifying
    BY <2>4 DEF Follows, Verifying
  <2>6. issued' \in TokenIds /\ issued =< issued' /\ next.token =< issued' /\ issued < next.token
    BY <1>1, <2>1, <2>2, <2>5 DEF TokenIds
  <2>7. /\ refreshTokens' \in [Tokens -> [session : SessionIds, isUsed : BOOLEAN]]
        /\ \A u \in Tokens : Used(u)' => Used(u)
        /\ ~Used(t)'
    BY <1>1, <2>1, <2>2 DEF Used
  <2> QED BY <1>1, <1>2, <2>1, <2>4, <2>5, <2>6, <2>7, RequestGoes
<1>5. CASE MarkUsed(r)
  <2>1. /\ r.pc = "mark" /\ Goes(r, To(r, "generate")) /\ UNCHANGED <<userSessions, issued>>
        /\ \/ refreshTokens' = [refreshTokens EXCEPT ![r.token] =
                                    [session |-> r.session, isUsed |-> TRUE]]
           \/ UNCHANGED refreshTokens
    BY <1>5 DEF MarkUsed
  <2>2. "generate" \in Places
    BY DEF Places
  <2>3. PICK next : Follows(r, next, "generate", r.token) /\ Goes(r, next)
    BY <1>1, <2>1, <2>2, FollowersFollow
  <2>4. /\ next \in Requests /\ next.kind = r.kind /\ next.heard = r.heard /\ next.token = r.token
        /\ next.pc = "generate" /\ ~Granted(next) /\ next.pc \notin Verifying
    BY <2>3 DEF Follows, Granted, Verifying
  <2>5. /\ refreshTokens' \in [Tokens -> [session : SessionIds, isUsed : BOOLEAN]]
        /\ \A u \in Tokens : Used(u)' => Used(u) \/ u = r.token
    <3>1. CASE UNCHANGED refreshTokens
      BY <1>1, <3>1 DEF Used
    <3>2. CASE refreshTokens' = [refreshTokens EXCEPT ![r.token] =
                                    [session |-> r.session, isUsed |-> TRUE]]
      <4>1. [session |-> r.session, isUsed |-> TRUE] \in [session : SessionIds, isUsed : BOOLEAN]
        BY <1>1
      <4>2. /\ refreshTokens' \in [Tokens -> [session : SessionIds, isUsed : BOOLEAN]]
            /\ \A u \in Tokens : u # r.token => refreshTokens'[u] = refreshTokens[u]
        BY <1>1, <3>2, <4>1
      <4> QED BY <4>2 DEF Used
    <3> QED BY <2>1, <3>1, <3>2
  <2>6. /\ issued' \in TokenIds /\ issued =< issued' /\ next.token =< issued'
        /\ userSessions' \subseteq SessionIds
    BY <1>1, <2>1, <2>4
  <2> QED BY <1>2, <2>1, <2>3, <2>4, <2>5, <2>6, RequestGoes
<1>6. CASE RevokeRefreshToken(r)
  <2>1. /\ r.pc = "delete" /\ Goes(r, To(r, "loggedOut")) /\ UNCHANGED <<userSessions, issued>>
        /\ refreshTokens' = [t \in Tokens |-> IF t = r.token THEN Absent ELSE refreshTokens[t]]
    BY <1>6 DEF RevokeRefreshToken
  <2>2. "loggedOut" \in Places
    BY DEF Places
  <2>3. PICK next : Follows(r, next, "loggedOut", r.token) /\ Goes(r, next)
    BY <1>1, <2>1, <2>2, FollowersFollow
  <2>4. /\ next \in Requests /\ next.kind = r.kind /\ next.heard = r.heard /\ next.token = r.token
        /\ next.pc = "loggedOut" /\ ~Granted(next) /\ next.pc \notin Verifying
    BY <2>3 DEF Follows, Granted, Verifying
  <2>5. /\ refreshTokens' \in [Tokens -> [session : SessionIds, isUsed : BOOLEAN]]
        /\ \A u \in Tokens : Used(u)' => Used(u)
    <3>1. Absent \in [session : SessionIds, isUsed : BOOLEAN] /\ Absent.isUsed = FALSE
      BY AuthAssumption DEF Absent, SessionIds
    <3> QED BY <1>1, <2>1, <3>1 DEF Used
  <2>6. /\ issued' \in TokenIds /\ issued =< issued' /\ next.token =< issued'
        /\ userSessions' \subseteq SessionIds
    BY <1>1, <2>1, <2>4
  <2> QED BY <1>2, <2>1, <2>3, <2>4, <2>5, <2>6, RequestGoes
<1> QED BY <1>3, <1>4, <1>5, <1>6

\* No token presented has been used.
LEMMA VerifiesKeeps ==
    ASSUME HonestInv, NEW r \in requests, Verifies(r)
    PROVE  HonestInv'
<1>1. /\ r.pc = "verify" /\ UNCHANGED redisVars /\ UNCHANGED tabVars
      /\ reused' = (reused \/ \E next \in requests' : next.pc = "members")
  BY DEF Verifies, VerifyRefreshToken
<1>2. /\ r \in Requests /\ AuthTypes /\ ~Used(r.token) /\ r.token \in TokenIds
      /\ requests \subseteq Requests /\ reused = FALSE
  BY <1>1 DEF HonestInv, AuthTypes, RequestInv, Verifying, Requests
<1> DEFINE stored == IF r.token = NoToken THEN Absent ELSE refreshTokens[r.token]
<1>3. stored \in [session : SessionIds, isUsed : BOOLEAN] /\ ~stored.isUsed
  <2>1. Absent \in [session : SessionIds, isUsed : BOOLEAN] /\ Absent.isUsed = FALSE
    BY AuthAssumption DEF Absent, SessionIds
  <2>2. r.token # NoToken => r.token \in Tokens
    BY <1>2 DEF TokenIds, Tokens, NoToken
  <2> QED BY <1>2, <2>1, <2>2 DEF AuthTypes, Used
<1>4. \/ Goes(r, To(r, "refused"))
      \/ Goes(r, [r EXCEPT !.pc = "session", !.session = stored.session])
  BY <1>1, <1>3 DEF Verifies, VerifyRefreshToken
<1>5. stored.session \in SessionIds
  BY <1>3
<1> HIDE DEF stored
<1>6. {"refused", "session"} \subseteq Places
  BY DEF Places
<1>7. PICK pc \in {"refused", "session"} :
        \E next : Follows(r, next, pc, r.token) /\ Goes(r, next)
  BY <1>2, <1>4, <1>5, <1>6, FollowersFollow
<1>8. PICK next : Follows(r, next, pc, r.token) /\ Goes(r, next)
  BY <1>7
<1>9. UNCHANGED <<tabVars, reused>>
  <2>1. requests' \subseteq Requests
    BY <1>2, <1>8 DEF Goes, Follows
  <2>2. \A s \in requests' : s.pc # "members"
    BY <2>1 DEF Requests, Places
  <2>3. reused' = reused
    BY <1>1, <1>2, <2>2
  <2> QED BY <1>1, <2>3
<1>10. /\ pc \in Places /\ pc \notin {"granted", "guest"} /\ (pc \in Verifying => r.pc \in Verifying)
      /\ r.pc \notin {"generate", "granted"}
  BY <1>1, <1>6, <1>8 DEF Verifying
<1>11. UNCHANGED <<refreshTokens, issued>> /\ userSessions' \subseteq SessionIds
  BY <1>1, <1>2 DEF redisVars, AuthTypes
<1> QED BY <1>8, <1>9, <1>10, <1>11, RequestMovesOn

\* What the tab does besides its requests
TabTypes == accessToken \in Access /\ calls \in [Calls -> CallStates]

\* Neither the server's data nor the requests change.
LEMMA NothingRequested ==
    ASSUME HonestInv, TabTypes', UNCHANGED <<redisVars, requests, cookie, refreshPromise, reused>>
    PROVE  HonestInv'
<1>1. UNCHANGED <<refreshTokens, userSessions, issued, requests, cookie, refreshPromise, reused>>
  BY DEF redisVars
<1>2. AuthTypes'
  BY <1>1 DEF HonestInv, AuthTypes, TabTypes
<1>3. \A r \in requests' : RequestInv(r)'
  BY <1>1 DEF HonestInv, RequestInv, Granted, Used
<1>4. \A r, s \in requests' : r # s => PairInv(r, s)'
  BY <1>1 DEF HonestInv, PairInv, Granted
<1>5. CookieInv' /\ reused' = FALSE
  BY <1>1 DEF HonestInv, CookieInv, Used
<1> QED BY <1>2, <1>3, <1>4, <1>5 DEF HonestInv

\* A form, a logout, or a refresh while there is none
LEMMA RequestMade ==
    ASSUME HonestInv, TabTypes', NEW new \in Requests, requests' = requests \cup {new},
           UNCHANGED <<redisVars, cookie, reused>>, new.token =< issued,
           new.pc # "granted", new.pc = "guest" => new.kind = "guest",
           \/ /\ new.kind # "refresh" /\ new.pc \notin Verifying
              /\ UNCHANGED refreshPromise
           \/ /\ new.kind = "refresh" /\ new.heard /\ new.token = cookie
              /\ new.pc = "verify" /\ ~refreshPromise /\ refreshPromise'
    PROVE  HonestInv'
<1>1. UNCHANGED <<refreshTokens, userSessions, issued, cookie, reused>>
  BY DEF redisVars
<1>2. AuthTypes'
  BY <1>1 DEF HonestInv, AuthTypes, TabTypes
<1>3. new.kind = "refresh" => \A r \in requests : r.kind # "refresh"
  BY DEF HonestInv, RequestInv
<1>4. RequestInv(new)'
  <2>1. CASE new.kind # "refresh" /\ new.pc \notin Verifying
    BY <2>1 DEF RequestInv, Granted
  <2>2. CASE new.kind = "refresh"
    <3>1. ~Used(cookie)
      BY <1>3, <2>2 DEF HonestInv, CookieInv
    <3>2. ~Used(new.token)' /\ new.heard /\ refreshPromise' /\ new.pc = "verify"
      BY <1>1, <2>2, <3>1 DEF Used
    <3> QED BY <2>2, <3>2 DEF RequestInv, Granted
  <2> QED BY <2>1, <2>2
<1>5. ASSUME NEW r \in requests PROVE RequestInv(r)'
  BY <1>1, <1>3 DEF HonestInv, RequestInv, Granted, Used
<1>6. ASSUME NEW r \in requests, r # new PROVE PairInv(r, new) /\ PairInv(new, r)
  <2>1. RequestInv(r) /\ ~Granted(new)
    BY DEF HonestInv, Granted
  <2>2. new.pc \in Verifying /\ Granted(r) => r.token # new.token
    BY <2>1 DEF RequestInv
  <2> QED BY <1>3, <2>1, <2>2 DEF PairInv
<1>7. \A r, s \in requests' : r # s => PairInv(r, s)
  BY <1>6 DEF HonestInv
<1>8. \A r, s \in requests' : r # s => PairInv(r, s)'
  BY <1>7 DEF PairInv, Granted
<1>9. CookieInv' /\ reused' = FALSE
  BY <1>1 DEF HonestInv, CookieInv, Used
<1> QED BY <1>2, <1>4, <1>5, <1>8, <1>9 DEF HonestInv

\* The answer arrives, or would have: the cookie is kept, replaced or removed.
LEMMA RequestEnds ==
    ASSUME HonestInv, TabTypes', NEW r \in requests, requests' = requests \ {r},
           UNCHANGED <<redisVars, reused>>, r.pc # "generate",
           UNCHANGED refreshPromise \/ r.kind = "refresh",
           \/ cookie' = cookie /\ ~(r.kind = "refresh" /\ r.pc = "granted")
           \/ cookie' = NoToken
           \/ cookie' = r.token /\ Granted(r)
    PROVE  HonestInv'
<1>1. UNCHANGED <<refreshTokens, userSessions, issued, reused>>
  BY DEF redisVars
<1>2. AuthTypes'
  <2>1. r.token \in TokenIds /\ r.token =< issued /\ NoToken \in TokenIds /\ NoToken =< issued
    BY AuthAssumption DEF HonestInv, AuthTypes, Requests, TokenIds, NoToken
  <2> QED BY <1>1, <2>1 DEF HonestInv, AuthTypes, TabTypes
<1>3. ASSUME NEW s \in requests' PROVE RequestInv(s)'
  <2>1. s \in requests /\ s # r /\ RequestInv(s) /\ PairInv(s, r)
    BY DEF HonestInv
  <2>2. s.kind = "refresh" => UNCHANGED refreshPromise
    BY <2>1 DEF PairInv
  <2>3. Granted(s) => s.token \notin {cookie', NoToken}
    BY <2>1 DEF RequestInv, PairInv
  <2> QED BY <1>1, <2>1, <2>2, <2>3 DEF RequestInv, Granted, Used
<1>4. \A s, t \in requests' : s # t => PairInv(s, t)'
  BY DEF HonestInv, PairInv, Granted
<1>5. CookieInv'
  <2> SUFFICES ASSUME Used(cookie)'
               PROVE  \E s \in requests' : s.kind = "refresh" /\ s.pc \in {"generate", "granted"}
    BY DEF CookieInv
  <2>1. ~(cookie' = NoToken)
    BY DEF Used, Tokens, NoToken
  <2>2. ~(cookie' = r.token /\ Granted(r))
    BY <1>1 DEF HonestInv, RequestInv, Used
  <2>3. Used(cookie) /\ ~(r.kind = "refresh" /\ r.pc = "granted")
    BY <1>1, <2>1, <2>2 DEF Used
  <2>4. PICK s \in requests : s.kind = "refresh" /\ s.pc \in {"generate", "granted"}
    BY <2>3 DEF HonestInv, CookieInv
  <2> QED BY <2>3, <2>4
<1>6. reused' = FALSE
  BY <1>1 DEF HonestInv
<1> QED BY <1>2, <1>3, <1>4, <1>5, <1>6 DEF HonestInv

\* The states of calls the tab makes
LEMMA CallsStayCalls ==
    ASSUME HonestInv
    PROVE  /\ NoAccess \in Access /\ Idle \in CallStates /\ TabTypes
           /\ \A c \in Calls, pc \in {"resent", "waiting", "served"} :
                  [calls EXCEPT ![c].pc = pc] \in [Calls -> CallStates]
           /\ \A c : [calls EXCEPT ![c] = Idle] \in [Calls -> CallStates]
<1>1. NoAccess \in Access
  BY AuthAssumption DEF NoAccess, Access, TokenIds, SessionIds, NoToken
<1>2. Idle \in CallStates
  BY <1>1 DEF Idle, CallStates
<1>3. TabTypes
  BY DEF HonestInv, AuthTypes, TabTypes
<1>4. ASSUME NEW c \in Calls, NEW pc \in {"resent", "waiting", "served"}
      PROVE  [calls EXCEPT ![c].pc = pc] \in [Calls -> CallStates]
  <2>1. [calls[c] EXCEPT !.pc = pc] \in CallStates
    BY <1>3 DEF TabTypes, CallStates
  <2>2. [calls EXCEPT ![c].pc = pc] = [calls EXCEPT ![c] = [calls[c] EXCEPT !.pc = pc]]
    BY <1>3 DEF TabTypes
  <2> QED BY <1>3, <2>1, <2>2 DEF TabTypes
<1>5. \A c : [calls EXCEPT ![c] = Idle] \in [Calls -> CallStates]
  BY <1>2, <1>3 DEF TabTypes
<1> QED BY <1>1, <1>2, <1>3, <1>4, <1>5

\* A form is sent.
LEMMA SubmitKeeps ==
    ASSUME HonestInv, NEW kind \in {"register", "login", "guest"},
           NEW pc \in {"exists", "save", "guest"}, pc = "guest" => kind = "guest", Submit(kind, pc)
    PROVE  HonestInv'
<1>1. PICK new : new = Request(kind, pc, "none", NoToken, 0)
  OBVIOUS
<1>2. pc \in Places /\ NoToken \in TokenIds /\ 0 \in SessionIds /\ NoToken =< issued
  BY AuthAssumption DEF Places, TokenIds, SessionIds, NoToken, HonestInv, AuthTypes
<1>3. /\ new \in Requests /\ new.kind = kind /\ new.pc = pc
      /\ new.token = NoToken /\ new.heard = TRUE
  BY <1>1, <1>2 DEF Request, Requests
<1>4. /\ requests' = requests \cup {new} /\ UNCHANGED <<redisVars, cookie, reused, refreshPromise>>
      /\ UNCHANGED <<accessToken, calls>>
  BY <1>1 DEF Submit, tabVars
<1>5. TabTypes'
  BY <1>4 DEF HonestInv, AuthTypes, TabTypes
<1>6. new.kind # "refresh" /\ new.pc \notin Verifying /\ new.pc # "granted"
  BY <1>3 DEF Verifying
<1> QED BY <1>2, <1>3, <1>4, <1>5, <1>6, RequestMade

\* A 401: the call joins the refresh under way, or starts one.
LEMMA UnauthorizedKeeps ==
    ASSUME HonestInv, NEW c \in Calls, Unauthorized(c)
    PROVE  HonestInv'
<1>1. /\ calls[c].pc = "sent" /\ calls' = [calls EXCEPT ![c].pc = "waiting"]
      /\ AttemptTokenRefresh(c) /\ UNCHANGED <<redisVars, cookie, accessToken, reused>>
  BY DEF Unauthorized
<1>2. TabTypes'
  BY <1>1, CallsStayCalls DEF TabTypes
<1>3. CASE UNCHANGED <<refreshPromise, requests>>
  BY <1>1, <1>2, <1>3, NothingRequested
<1>4. CASE /\ ~refreshPromise /\ refreshPromise' = TRUE
           /\ requests' = requests \cup {Request("refresh", "verify", "none", cookie, 0)}
  <2>1. PICK new : new = Request("refresh", "verify", "none", cookie, 0)
    OBVIOUS
  <2>2. "verify" \in Places /\ cookie \in TokenIds /\ 0 \in SessionIds /\ cookie =< issued
    BY AuthAssumption DEF Places, TokenIds, SessionIds, HonestInv, AuthTypes
  <2>3. /\ new \in Requests /\ new.kind = "refresh" /\ new.pc = "verify"
        /\ new.token = cookie /\ new.heard = TRUE
    BY <2>1, <2>2 DEF Request, Requests
  <2> QED BY <1>1, <1>2, <1>4, <2>1, <2>2, <2>3, RequestMade
<1> QED BY <1>1, <1>3, <1>4 DEF AttemptTokenRefresh

\* A call that gets through, a logout among them
LEMMA AcceptedKeeps ==
    ASSUME HonestInv, NEW c \in Calls, Accepted(c)
    PROVE  HonestInv'
<1>1. /\ calls[c].pc \in {"sent", "resent"}
      /\ UNCHANGED <<redisVars, cookie, accessToken, refreshPromise, reused>>
  BY DEF Accepted
<1>2. CASE calls' = [calls EXCEPT ![c] = Idle] /\ UNCHANGED requests
  <2>1. TabTypes'
    BY <1>1, <1>2, CallsStayCalls DEF TabTypes
  <2> QED BY <1>1, <1>2, <2>1, NothingRequested
<1>3. CASE /\ calls' = [calls EXCEPT ![c].pc = "served"]
           /\ requests' = requests \cup
                  {Request("logout", "revoke", c, cookie, calls[c].token.session)}
  <2>1. PICK new : new = Request("logout", "revoke", c, cookie, calls[c].token.session)
    OBVIOUS
  <2>2. "revoke" \in Places /\ cookie \in TokenIds /\ cookie =< issued
    BY DEF Places, HonestInv, AuthTypes
  <2>3. calls[c].token.session \in SessionIds
    BY DEF HonestInv, AuthTypes, CallStates, Access
  <2>4. /\ new \in Requests /\ new.kind = "logout" /\ new.pc = "revoke"
        /\ new.token = cookie /\ new.heard = TRUE
    BY <2>1, <2>2, <2>3 DEF Request, Requests
  <2>5. new.kind # "refresh" /\ new.pc \notin Verifying /\ new.pc # "granted"
    BY <2>4 DEF Verifying
  <2>6. TabTypes'
    BY <1>1, <1>3, CallsStayCalls DEF TabTypes
  <2> QED BY <1>1, <1>3, <2>1, <2>2, <2>4, <2>5, <2>6, RequestMade
<1> QED BY <1>2, <1>3 DEF Accepted

\* An answer arrives.
LEMMA AnsweredKeeps ==
    ASSUME HonestInv, NEW r \in requests, Answered(r)
    PROVE  HonestInv'
<1>1. /\ requests' = requests \ {r} /\ UNCHANGED <<redisVars, reused>> /\ r \in Requests
      /\ NoAccess \in Access /\ Idle \in CallStates /\ TabTypes
  BY CallsStayCalls DEF Answered, HonestInv, AuthTypes
<1>2. CASE /\ r.pc = "granted" /\ r.kind # "refresh"
           /\ accessToken' = [n |-> r.token, session |-> r.session]
           /\ cookie' = IF r.kind = "guest" THEN cookie ELSE r.token
           /\ UNCHANGED <<refreshPromise, calls>>
  <2>1. accessToken' \in Access
    BY <1>1, <1>2 DEF Requests, Access
  <2>2. TabTypes' /\ r.pc # "generate"
    BY <1>1, <1>2, <2>1 DEF TabTypes
  <2>3. \/ cookie' = cookie /\ ~(r.kind = "refresh" /\ r.pc = "granted")
        \/ cookie' = r.token /\ Granted(r)
    BY <1>2 DEF Granted
  <2> QED BY <1>1, <1>2, <2>2, <2>3, RequestEnds
<1>3. CASE /\ r.pc = "granted" /\ r.kind = "refresh"
           /\ accessToken' = [n |-> r.token, session |-> r.session]
           /\ cookie' = IF r.kind = "guest" THEN cookie ELSE r.token
           /\ calls' = [c \in Calls |-> IF calls[c].pc = "waiting"
                           THEN [calls[c] EXCEPT !.pc = "resent", !.token = accessToken']
                           ELSE calls[c]]
  <2>1. accessToken' \in Access
    BY <1>1, <1>3 DEF Requests, Access
  <2>2. ASSUME NEW c \in Calls
        PROVE  [calls[c] EXCEPT !.pc = "resent", !.token = accessToken'] \in CallStates
    BY <1>1, <2>1 DEF TabTypes, CallStates
  <2>3. TabTypes' /\ r.pc # "generate"
    BY <1>1, <1>3, <2>1, <2>2 DEF TabTypes
  <2>4. cookie' = r.token /\ Granted(r)
    BY <1>3 DEF Granted
  <2> QED BY <1>1, <1>3, <2>3, <2>4, RequestEnds
<1>4. CASE r.pc = "refused" /\ r.kind = "refresh" /\ RefreshFails /\ UNCHANGED cookie
  <2>1. TabTypes' /\ r.pc # "generate"
    BY <1>1, <1>4 DEF TabTypes, RefreshFails, Reset
  <2> QED BY <1>1, <1>4, <2>1, RequestEnds
<1>5. CASE r.pc = "refused" /\ r.kind \in {"register", "login"} /\ UNCHANGED tabVars
  <2>1. TabTypes' /\ r.pc # "generate" /\ UNCHANGED <<cookie, refreshPromise>>
    BY <1>1, <1>5 DEF TabTypes, tabVars
  <2> QED BY <1>1, <1>5, <2>1, RequestEnds
<1>6. CASE /\ r.kind = "logout" /\ Reset
           /\ cookie' = IF r.pc = "refused" THEN cookie ELSE NoToken
           /\ r.pc \in {"granted", "refused", "loggedOut"}
           /\ calls' = [calls EXCEPT ![r.call] = Idle] /\ UNCHANGED refreshPromise
  <2>1. TabTypes' /\ r.pc # "generate"
    BY <1>1, <1>6, CallsStayCalls DEF TabTypes, Reset
  <2> QED BY <1>1, <1>6, <2>1, RequestEnds
<1> QED BY <1>2, <1>3, <1>4, <1>5, <1>6 DEF Answered

\* Nobody listens, so it is not a refresh.
LEMMA UnheardKeeps ==
    ASSUME HonestInv, NEW r \in requests, Unheard(r)
    PROVE  HonestInv'
<1>1. /\ requests' = requests \ {r} /\ UNCHANGED <<redisVars, reused, cookie, refreshPromise>>
      /\ TabTypes' /\ r.pc # "generate"
  BY CallsStayCalls DEF Unheard, tabVars, TabTypes
<1>2. r.kind # "refresh"
  BY DEF HonestInv, RequestInv, Unheard
<1> QED BY <1>1, <1>2, RequestEnds

\* A connection breaks that is not a refresh's: the server does not notice.
LEMMA BreaksKeeps ==
    ASSUME HonestInv, NEW r \in requests, Breaks(r), r.kind # "refresh"
    PROVE  HonestInv'
<1>1. PICK next : next = [r EXCEPT !.heard = FALSE]
  OBVIOUS
<1>2. /\ requests' = (requests \ {r}) \cup {next}
      /\ UNCHANGED <<refreshTokens, userSessions, issued, cookie, refreshPromise, reused>>
  BY <1>1 DEF Breaks, Goes, redisVars
<1>3. r \in Requests /\ RequestInv(r)
  BY DEF HonestInv, AuthTypes
<1>4. /\ next \in Requests /\ next.kind = r.kind /\ next.pc = r.pc /\ next.token = r.token
  BY <1>1, <1>3 DEF Requests
<1>5. TabTypes'
  <2>1. NoAccess \in Access /\ TabTypes
    BY CallsStayCalls
  <2>2. \/ UNCHANGED <<accessToken, calls>>
        \/ Reset /\ calls' = [calls EXCEPT ![r.call] = Idle]
    BY DEF Breaks
  <2> QED BY <2>1, <2>2, CallsStayCalls DEF TabTypes, Reset
<1>6. AuthTypes'
  BY <1>2, <1>4, <1>5 DEF HonestInv, AuthTypes, TabTypes
<1>7. \A s \in requests' : RequestInv(s)
  BY <1>2, <1>3, <1>4 DEF HonestInv, RequestInv, Granted
<1>8. \A s \in requests' : RequestInv(s)'
  BY <1>2, <1>7 DEF RequestInv, Granted, Used
<1>9. ASSUME NEW s \in requests, s # r PROVE PairInv(s, next) /\ PairInv(next, s)
  <2>1. PairInv(s, r) /\ PairInv(r, s)
    BY <1>9 DEF HonestInv
  <2> QED BY <1>4, <2>1 DEF PairInv, Granted
<1>10. \A s, t \in requests' : s # t => PairInv(s, t)
  BY <1>2, <1>9 DEF HonestInv
<1>11. \A s, t \in requests' : s # t => PairInv(s, t)'
  BY <1>10 DEF PairInv, Granted
<1>12. CookieInv' /\ reused' = FALSE
  BY <1>2, <1>4 DEF HonestInv, CookieInv, Used
<1> QED BY <1>6, <1>8, <1>11, <1>12 DEF HonestInv

\* No handler gets as far as revoking everything.
LEMMA ServerStepKeeps ==
    ASSUME HonestInv, NEW r \in requests, ServerStep(r)
    PROVE  HonestInv'
<1>1. UNCHANGED <<tabVars, reused>>
  BY DEF ServerStep
<1>2. r.pc \notin {"members", "revokeAll"}
  BY DEF HonestInv, AuthTypes, Requests, Places
<1>3. \/ UserExists(r) \/ CreateUser(r) \/ SaveSession(r) \/ ListSession(r)
      \/ RevokeSession(r) \/ UnlistSession(r) \/ CheckSession(r) \/ ReadOld(r)
      \/ GenerateGuest(r) \/ Generate(r) \/ MarkUsed(r) \/ RevokeRefreshToken(r)
  BY <1>2 DEF ServerStep, ReadMembers, RevokeOne, RevokeTokens
<1> QED BY <1>1, <1>3, HandlersKeep, WritersKeep

\* A call starts or fails for good, a guest leaves, an access token expires.
LEMMA TabStepKeeps ==
    ASSUME HonestInv,
           \/ GuestLeaves \/ Expire
           \/ \E c \in Calls : \/ \E kind \in {"api", "logout"} : Start(c, kind)
                               \/ UnauthorizedAgain(c)
    PROVE  HonestInv'
<1>1. NoAccess \in Access /\ Idle \in CallStates /\ TabTypes
  BY CallsStayCalls
<1>2. CASE GuestLeaves
  <2>1. TabTypes' /\ UNCHANGED <<redisVars, requests, cookie, refreshPromise, reused>>
    BY <1>1, <1>2 DEF GuestLeaves, Reset, TabTypes
  <2> QED BY <2>1, NothingRequested
<1>3. CASE Expire
  <2>1. TabTypes' /\ UNCHANGED <<redisVars, requests, cookie, refreshPromise, reused>>
    BY <1>1, <1>3 DEF Expire, tabVars, TabTypes
  <2> QED BY <2>1, NothingRequested
<1>4. ASSUME NEW c \in Calls, NEW kind \in {"api", "logout"}, Start(c, kind) PROVE HonestInv'
  <2>1. calls' = [calls EXCEPT ![c] = [kind |-> kind, pc |-> "sent", token |-> accessToken]]
    BY <1>4 DEF Start
  <2>2. [kind |-> kind, pc |-> "sent", token |-> accessToken] \in CallStates
    BY <1>1 DEF CallStates, TabTypes
  <2>3. TabTypes' /\ UNCHANGED <<redisVars, requests, cookie, refreshPromise, reused>>
    BY <1>1, <1>4, <2>1, <2>2 DEF Start, TabTypes
  <2> QED BY <2>3, NothingRequested
<1>5. ASSUME NEW c \in Calls, UnauthorizedAgain(c) PROVE HonestInv'
  <2>1. TabTypes' /\ UNCHANGED <<redisVars, requests, cookie, refreshPromise, reused>>
    BY <1>1, <1>5 DEF UnauthorizedAgain, Reset, TabTypes
  <2> QED BY <2>1, NothingRequested
<1> QED BY <1>2, <1>3, <1>4, <1>5

\* The invariant holds until the answer to a refresh is lost or its new token not written.
LEMMA AuthStep ==
    ASSUME AuthInv, [AuthNext]_authVars
    PROVE  AuthInv'
<1>1. lost \subseteq lost' /\ faults \subseteq faults'
  BY DEF AuthNext, authVars, Register, Login, GuestLogin, GuestLeaves, Expire, Submit, Start,
         Accepted, Unauthorized, UnauthorizedAgain, ServerStep, Verifies, CommandFails, Answered,
         Unheard, Breaks
<1>2. CASE "refresh" \in lost \/ <<"refresh", "generate">> \in faults
  BY <1>1, <1>2 DEF AuthInv
<1>3. CASE HonestInv
  <2>1. CASE Register \/ Login \/ GuestLogin
    BY <1>3, <2>1, SubmitKeeps DEF AuthInv, Register, Login, GuestLogin
  <2>2. CASE \/ GuestLeaves \/ Expire
             \/ \E c \in Calls : \/ \E kind \in {"api", "logout"} : Start(c, kind)
                                 \/ UnauthorizedAgain(c)
    BY <1>3, <2>2, TabStepKeeps DEF AuthInv
  <2>3. ASSUME NEW c \in Calls, Accepted(c) \/ Unauthorized(c) PROVE AuthInv'
    BY <1>3, <2>3, AcceptedKeeps, UnauthorizedKeeps DEF AuthInv
  <2>4. ASSUME NEW r \in requests, ServerStep(r) \/ Verifies(r) \/ Answered(r) \/ Unheard(r)
        PROVE  AuthInv'
    BY <1>3, <2>4, ServerStepKeeps, VerifiesKeeps, AnsweredKeeps, UnheardKeeps DEF AuthInv
  <2>5. ASSUME NEW r \in requests, Breaks(r) PROVE AuthInv'
    <3>1. CASE r.kind = "refresh"
      BY <2>5, <3>1 DEF Breaks, AuthInv
    <3>2. CASE r.kind # "refresh"
      BY <1>3, <2>5, <3>2, BreaksKeeps DEF AuthInv
    <3> QED BY <3>1, <3>2
  <2>7. ASSUME NEW r \in requests, CommandFails(r) PROVE AuthInv'
    <3>1. CASE r.kind = "refresh" /\ r.pc = "generate"
      BY <2>7, <3>1 DEF CommandFails, AuthInv
    <3>2. CASE ~(r.kind = "refresh" /\ r.pc = "generate")
      BY <1>3, <2>7, <3>2, CommandFailsKeeps DEF AuthInv
    <3> QED BY <3>1, <3>2
  <2>6. CASE UNCHANGED authVars
    <3>1. TabTypes' /\ UNCHANGED <<redisVars, requests, cookie, refreshPromise, reused>>
      BY <1>3, <2>6, CallsStayCalls DEF authVars, tabVars, TabTypes
    <3> QED BY <1>3, <3>1, NothingRequested DEF AuthInv
  <2> QED BY <2>1, <2>2, <2>3, <2>4, <2>5, <2>6, <2>7 DEF AuthNext
<1> QED BY <1>2, <1>3 DEF AuthInv

\* The invariant holds at the start.
LEMMA AuthStart ==
    ASSUME AuthInit
    PROVE  AuthInv
<1>1. /\ NoAccess \in Access /\ Idle \in CallStates
      /\ Absent \in [session : SessionIds, isUsed : BOOLEAN] /\ Absent.isUsed = FALSE
  BY AuthAssumption DEF NoAccess, Access, TokenIds, SessionIds, NoToken, Idle, CallStates, Absent
<1>2. AuthTypes
  BY <1>1, AuthAssumption DEF AuthInit, AuthTypes, TokenIds, NoToken, SessionIds
<1>3. \A t : ~Used(t)
  BY <1>1 DEF AuthInit, Used
<1> QED BY <1>2, <1>3 DEF AuthInit, AuthInv, HonestInv, CookieInv

\* An honest person is never taken for a thief: whatever calls, logouts, logins and guests of a tab
\* overlap, a used refresh token is presented only after the answer to a refresh was lost, or a
\* refresh failed between the mark on its token and the new one.
THEOREM HonestStaysKept == AuthSpec => []HonestIsKept
<1>1. AuthInv => HonestIsKept
  BY DEF AuthInv, HonestInv, HonestIsKept
<1> QED BY <1>1, AuthStart, AuthStep, PTL DEF AuthSpec

=============================================================================
