---------------------------- MODULE SurfaceProofs ----------------------------
(***************************************************************************)
(* What the services of MCSurface promise their readers, for every value   *)
(* of their constants: each part for itself, then the composition.         *)
(***************************************************************************)
EXTENDS MCSurface, Induction

-----------------------------------------------------------------------------
(* The daily prediction. *)

GameReading == [connector : Feeds, at : Game!Span, rev : Nat, mw : Int, seen : Int]
GameResult == [state : {"resolved", "void"}, outcome : {Game!None, "importing", "exporting"},
           on : SUBSET GameReading]
GameCall ==
  [pc : {"pending", "read", "candidate", "locked", "numbered", "answered", "failed"},
   asOf : Int, seen : SUBSET GameReading, result : GameResult, coverage : Nat, revision : Nat]

GameType ==
  /\ clock \in Int
  /\ IsFiniteSet(Connectors) /\ Connectors # {}
  /\ readings \in SUBSET GameReading /\ IsFiniteSet(readings)
  /\ \A r, q \in readings : r.connector = q.connector /\ r.at = q.at /\ r.rev = q.rev => r = q
  /\ call \in [Requests -> GameCall \cup {Game!Idle}]

InLock(c) == call[c].pc \in {"locked", "numbered"}

\* The rows are numbered by the holder of the lock, from the rows that are there.
Numbered ==
  /\ IsFiniteSet(ledger)
  /\ {r.number : r \in ledger} = 1..Cardinality(ledger)
  /\ \A r, q \in ledger : r.checksum = q.checksum => r = q
  /\ \A c \in Requests : InLock(c) <=> lock = c
  /\ \A c \in Requests : call[c].pc = "numbered" =>
       /\ call[c].revision = Cardinality(ledger) + 1
       /\ \A r \in ledger : r.checksum # Game!Checksum(call[c])
  /\ \A c \in Requests : call[c].pc = "answered" =>
       \E r \in ledger : r.number = call[c].revision /\ r.checksum = Game!Checksum(call[c])

\* A result, once computed, is fair to what was seen.
Computed(c) == call[c].pc \in {"candidate", "locked", "numbered", "answered", "failed"}
AllFair == \A c \in Requests : Computed(c) => Game!Fair(c)

GameInv == GameType /\ Numbered /\ AllFair
GameHolds == part = "game" => GameInv

\* The game's library operators are the library's.
LEMMA GameLibrary ==
    /\ \A S : Game!IsFiniteSet(S) <=> IsFiniteSet(S)
    /\ \A S : Game!Cardinality(S) = Cardinality(S)
<1>1. ASSUME NEW S PROVE Game!IsFiniteSet(S) <=> IsFiniteSet(S)
    BY DEF Game!IsFiniteSet, IsFiniteSet
<1>2. ASSUME NEW S PROVE Game!Cardinality(S) = Cardinality(S)
    BY DEF Game!Cardinality, Cardinality
<1> QED BY <1>1, <1>2

\* What the configuration of the game says.
LEMMA Settings ==
    /\ Game!None \notin Requests /\ Band \in Nat /\ Target \in Int /\ Reach \in Nat
    /\ Flows \subseteq Int /\ Game!Span \subseteq Int
    /\ \A R \in Registries : R # {} /\ IsFiniteSet(R)
<1>1. /\ Game!None \notin Requests /\ Band \in Nat /\ Target \in Int /\ Reach \in Nat
      /\ Flows \subseteq Int
      /\ \A R \in Registries : R # {} /\ IsFiniteSet(R)
    BY GameSettings, GameLibrary DEF Game!GameAssumption, Game!None
<1>2. Game!Span \subseteq Int
    BY <1>1 DEF Game!Span
<1> QED BY <1>1, <1>2

\* The net flow of finitely many readings is a number.
LEMMA NetIsInt ==
    ASSUME NEW S \in SUBSET GameReading, IsFiniteSet(S)
    PROVE  Game!Net(S) \in Int
<1> DEFINE pick == [s \in SUBSET S |-> CHOOSE x \in s : TRUE]
           step == [s \in SUBSET S |-> [v \in Int |-> pick[s].mw + v]]
           Sums(f) == f = [s \in SUBSET S |-> IF s = {} THEN 0
                              ELSE (CHOOSE x \in s : TRUE).mw + f[s \ {CHOOSE x \in s : TRUE}]]
<1>1. Game!Net(S) = (CHOOSE f : Sums(f))[S]
    BY DEF Game!Net, Game!FoldSet, Game!MapThenFoldSet
<1>2. \A s \in SUBSET S : s # {} => pick[s] \in s
    OBVIOUS
<1>3. \A s \in SUBSET S : s # {} => \A v \in Int : pick[s].mw + v \in Int
    BY <1>2 DEF GameReading
<1>4. \A s \in SUBSET S : s # {} => \A v \in Int : step[s][v] \in Int
    BY <1>3
<1>5. PICK f \in [SUBSET S -> Int] : RecursiveOn(f, S, 0, pick, step)
  <2> DEFINE zero == 0
  <2>1. zero \in Int
    OBVIOUS
  <2> HIDE DEF pick, step, zero, Sums
  <2>2. \E f \in [SUBSET S -> Int] : RecursiveOn(f, S, zero, pick, step)
    BY <1>2, <1>4, <2>1, RecursionOnSets
  <2> QED BY <2>2 DEF zero
<1>6. Sums(f)
  <2>1. ASSUME NEW s \in SUBSET S
        PROVE  f[s] = IF s = {} THEN 0
                      ELSE (CHOOSE x \in s : TRUE).mw + f[s \ {CHOOSE x \in s : TRUE}]
    BY <1>5 DEF RecursiveOn
  <2> QED BY <1>5, <2>1 DEF RecursiveOn
<1> DEFINE g == CHOOSE h : Sums(h)
<1>7. Sums(g)
    BY <1>6
<1>8. g[S] \in Int
  <2> DEFINE D == {s \in SUBSET S : g[s] \in Int}
  <2>1. \A s \in SUBSET S : g[s] = IF s = {} THEN 0
                      ELSE (CHOOSE x \in s : TRUE).mw + g[s \ {CHOOSE x \in s : TRUE}]
    <3> HIDE DEF g
    <3> QED BY <1>7
  <2>2. ASSUME NEW T \in SUBSET S, \A x \in T : T \ {x} \in D PROVE T \in D
    <3> HIDE DEF g, Sums
    <3>1. CASE T = {}
      <4>1. g[T] = 0
        BY <2>1, <3>1
      <4> QED BY <4>1
    <3>2. CASE T # {}
      <4>1. (CHOOSE x \in T : TRUE) \in T
        BY <3>2
      <4>2. g[T \ {CHOOSE x \in T : TRUE}] \in Int /\ (CHOOSE x \in T : TRUE).mw \in Int
        BY <2>2, <4>1 DEF GameReading
      <4>3. g[T] = (CHOOSE x \in T : TRUE).mw + g[T \ {CHOOSE x \in T : TRUE}]
        BY <2>1, <3>2
      <4> QED BY <4>2, <4>3
    <3> QED BY <3>1, <3>2
  <2> HIDE DEF D
  <2>3. S \in D
    BY <2>2, FiniteSetsFrom
  <2> QED BY <2>3 DEF D
<1> QED BY <1>1, <1>8

\* Of the instants with a reading one is better than all others: it is the best.
LEMMA BestIsBest ==
    ASSUME NEW rs \in SUBSET GameReading, IsFiniteSet(rs), rs # {}
    PROVE  LET T == {r.at : r \in rs}
           IN  /\ Game!Best(rs) \in T
               /\ \A t \in T \ {Game!Best(rs)} : Game!Better(rs, Game!Best(rs), t)
<1> DEFINE T == {r.at : r \in rs}
           n(u) == Game!Cardinality(Game!Snapshot(rs, u))
<1>1. T # {} /\ T \subseteq Int /\ \A t \in T : t <= Target + Reach
    BY Settings DEF GameReading, Game!Span
<1>2. \A u : n(u) \in Nat /\ n(u) <= Cardinality(rs) /\ Cardinality(rs) \in Nat
  <2>1. \A u : Game!Snapshot(rs, u) \in SUBSET rs
    BY DEF Game!Snapshot
  <2>2. \A U \in SUBSET rs : IsFiniteSet(U) /\ Cardinality(U) <= Cardinality(rs)
    BY FS_Subset
  <2>3. \A U \in SUBSET rs : Cardinality(U) \in Nat
    BY <2>2, FS_CardinalityType
  <2> QED BY <2>1, <2>2, <2>3, GameLibrary
<1>3. \A u \in Int : Game!Distance(u) \in Nat
    BY Settings DEF Game!Distance
<1> HIDE DEF n
<1>4. PICK most \in {n(u) : u \in T} : \A k \in {n(u) : u \in T} : k <= most
  <2> DEFINE N == {n(u) : u \in T}
  <2>1. N \subseteq Int /\ N # {} /\ \A k \in N : k <= Cardinality(rs)
    BY <1>1, <1>2
  <2>2. Cardinality(rs) \in Int
    BY <1>2
  <2> HIDE DEF N
  <2>3. \E m \in N : \A k \in N : k <= m
    BY <2>1, <2>2, LargestInteger
  <2> QED BY <2>3 DEF N
<1> DEFINE T1 == {u \in T : n(u) = most}
<1>5. PICK near \in {Game!Distance(u) : u \in T1} :
        \A d \in {Game!Distance(u) : u \in T1} : near <= d
  <2> DEFINE D == {Game!Distance(u) : u \in T1}
  <2>1. D \subseteq Nat /\ D # {}
    BY <1>1, <1>3, <1>4
  <2> HIDE DEF D
  <2>2. \E m \in D : \A k \in D : m <= k
    BY <2>1, LeastNatural
  <2> QED BY <2>2 DEF D
<1> DEFINE T2 == {u \in T1 : Game!Distance(u) = near}
<1>6. PICK s \in T2 : \A t \in T2 : t <= s
  <2>1. T2 \subseteq Int /\ T2 # {} /\ \A t \in T2 : t <= Target + Reach
    BY <1>1, <1>5
  <2>2. Target + Reach \in Int
    BY Settings
  <2> HIDE DEF T2
  <2> QED BY <2>1, <2>2, LargestInteger
<1>7. ASSUME NEW t \in T \ {s} PROVE Game!Better(rs, s, t)
  <2>1. t \in Int /\ s \in Int /\ n(t) \in Nat /\ n(s) = most /\ n(t) <= most /\ most \in Nat
    BY <1>1, <1>2, <1>4
  <2>2. /\ Game!Distance(t) \in Nat /\ Game!Distance(s) = near /\ near \in Nat
        /\ n(t) = most => near <= Game!Distance(t)
        /\ n(t) = most /\ Game!Distance(t) = near => t <= s
    BY <1>1, <1>3, <1>5, <1>6
  <2>3. t # s
    OBVIOUS
  <2> QED BY <2>1, <2>2, <2>3 DEF Game!Better, n
<1>8. \E b \in T : \A t \in T \ {b} : Game!Better(rs, b, t)
    BY <1>7
<1> QED BY <1>8 DEF Game!Best

\* Readings of the expected connectors, one of each at any instant.
OneOfEach(rs) ==
  /\ rs \in SUBSET GameReading /\ IsFiniteSet(rs) /\ IsFiniteSet(Connectors)
  /\ \A r \in rs : r.connector \in Connectors
  /\ \A r, q \in rs : r.connector = q.connector /\ r.at = q.at => r = q

Complete(rs, t) == \A k \in Connectors : \E r \in rs : r.connector = k /\ r.at = t

\* A snapshot is complete when it has as many readings as there are connectors.
LEMMA SnapshotCounts ==
    ASSUME NEW rs, OneOfEach(rs), NEW t
    PROVE  LET n == Game!Cardinality(Game!Snapshot(rs, t))
               m == Game!Cardinality(Connectors)
           IN  /\ n \in Nat /\ m \in Nat /\ n <= m
               /\ n = m <=> Complete(rs, t)
<1> DEFINE S == Game!Snapshot(rs, t)
           f == [r \in S |-> r.connector]
<1>1. S \in SUBSET rs /\ \A r \in rs : r \in S <=> r.at = t
    BY DEF Game!Snapshot
<1>2. f \in Injection(S, Connectors)
    BY <1>1 DEF OneOfEach, Injection, IsInjective
<1>3. f \in Surjection(S, Connectors) <=> Complete(rs, t)
  <2>1. f \in [S -> Connectors]
    BY <1>1 DEF OneOfEach
  <2>2. f \in Surjection(S, Connectors) <=> \A k \in Connectors : \E r \in S : f[r] = k
    BY <2>1 DEF Surjection
  <2> QED BY <1>1, <2>2 DEF Complete
<1>4. IsFiniteSet(Connectors) /\ Cardinality(Connectors) \in Nat
    BY FS_CardinalityType DEF OneOfEach
<1> HIDE DEF f, S
<1>5. /\ IsFiniteSet(S) /\ Cardinality(S) <= Cardinality(Connectors)
      /\ Cardinality(S) = Cardinality(Connectors) <=> f \in Surjection(S, Connectors)
    BY <1>2, <1>4, FS_Injection
<1>6. Cardinality(S) \in Nat
    BY <1>5, FS_CardinalityType
<1> QED BY <1>3, <1>4, <1>5, <1>6, GameLibrary DEF S

\* What the rule decides is fair to the readings it is given.
LEMMA VerdictFollows ==
    ASSUME NEW rs, OneOfEach(rs), Connectors # {}
    PROVE  LET v == Game!Verdict(rs)
               full == {t \in Game!Span : Complete(rs, t)}
           IN  /\ v \in GameResult /\ Game!Coverage(rs) \in Nat
               /\ v.outcome = "importing" => Game!Net(v.on) > Band
               /\ v.outcome = "exporting" => Game!Net(v.on) < -Band
               /\ v.on # {} => \E t \in full :
                    /\ v.on = {r \in rs : r.at = t}
                    /\ \A u \in full : Game!Distance(t) <= Game!Distance(u)
                    /\ v.state = "void" => Game!Magnitude(Game!Net(v.on)) <= Band
               /\ v.on = {} => full = {}
<1> DEFINE v == Game!Verdict(rs)
           full == {t \in Game!Span : Complete(rs, t)}
           b == Game!Best(rs)
           s == Game!Snapshot(rs, b)
           n(t) == Game!Cardinality(Game!Snapshot(rs, t))
           m == Game!Cardinality(Connectors)
<1>1. \A t : n(t) \in Nat /\ m \in Nat /\ n(t) <= m /\ (n(t) = m <=> Complete(rs, t))
    BY SnapshotCounts
<1>2. Game!Void = [state |-> "void", outcome |-> Game!None, on |-> {}]
    BY DEF Game!Void
<1>3. Game!None # "importing" /\ Game!None # "exporting"
    BY DEF Game!None
<1>4. CASE rs = {}
  <2>1. v = Game!Void /\ Game!Coverage(rs) = 0
    BY <1>4 DEF Game!Verdict, Game!Coverage
  <2>2. full = {}
    BY <1>4 DEF Complete
  <2> QED BY <1>2, <1>3, <2>1, <2>2 DEF GameResult
<1>5. CASE rs # {}
  <2>1. /\ b \in {r.at : r \in rs} /\ b \in Game!Span
        /\ \A t \in {r.at : r \in rs} \ {b} : Game!Better(rs, b, t)
    BY <1>5, BestIsBest DEF OneOfEach, GameReading
  <2>2. s # {} /\ s = {r \in rs : r.at = b} /\ s \in SUBSET GameReading /\ IsFiniteSet(s)
    <3>1. s = {r \in rs : r.at = b}
      BY DEF Game!Snapshot
    <3> HIDE DEF s
    <3>2. s # {}
      BY <2>1, <3>1
    <3>3. IsFiniteSet(s)
      BY <3>1, FS_Subset DEF OneOfEach
    <3> QED BY <3>1, <3>2, <3>3 DEF OneOfEach
  <2>3. Game!Net(s) \in Int
    BY <2>2, NetIsInt
  <2>4. ASSUME NEW t \in full PROVE n(b) = m /\ b \in full /\ Game!Distance(b) <= Game!Distance(t)
    <3>1. t \in {r.at : r \in rs} /\ n(t) = m
      BY <1>1 DEF Complete
    <3>2. t # b => n(b) >= n(t)
      BY <1>1, <2>1, <3>1 DEF Game!Better
    <3>3. n(b) = m /\ b \in full
      BY <1>1, <2>1, <3>1, <3>2
    <3>4. b \in Int /\ t \in Int
      BY <2>1, Settings
    <3> HIDE DEF b
    <3>5. Game!Distance(b) \in Int /\ Game!Distance(t) \in Int
      BY <3>4, Settings DEF Game!Distance
    <3>6. CASE t # b
      <4>1. Game!Better(rs, b, t) /\ ~(n(b) > n(t))
        BY <1>1, <2>1, <3>1, <3>3, <3>6
      <4> QED BY <3>3, <3>5, <4>1 DEF Game!Better
    <3>7. CASE t = b
      BY <3>3, <3>5, <3>7
    <3> QED BY <3>6, <3>7
  <2> DEFINE decided == [state |-> "resolved", on |-> s,
                         outcome |-> IF Game!Net(s) > 0 THEN "importing" ELSE "exporting"]
             balanced == [state |-> "void", outcome |-> Game!None, on |-> s]
  <2>5. v = IF n(b) < m THEN Game!Void
            ELSE IF Game!Magnitude(Game!Net(s)) <= Band THEN balanced ELSE decided
    BY <1>2, <1>5 DEF Game!Verdict
  <2>6. Game!Coverage(rs) \in Nat
    BY <1>1, <1>5 DEF Game!Coverage
  <2> HIDE DEF s, b
  <2>7. CASE n(b) < m
    <3>1. full = {} /\ v = Game!Void
      BY <1>1, <2>4, <2>5, <2>7
    <3> QED BY <1>2, <1>3, <2>6, <3>1 DEF GameResult
  <2>8. CASE ~(n(b) < m)
    <3>1. n(b) = m /\ b \in full
      BY <1>1, <2>1, <2>8
    <3>2. \A t \in full : Game!Distance(b) <= Game!Distance(t)
      BY <2>4
    <3>3. CASE Game!Magnitude(Game!Net(s)) <= Band
      BY SMTT(30), <1>3, <2>2, <2>5, <2>6, <2>8, <3>1, <3>2, <3>3 DEF GameResult
    <3>4. CASE ~(Game!Magnitude(Game!Net(s)) <= Band)
      <4>1. v = decided
        BY <2>5, <2>8, <3>4
      <4>2. Game!Net(s) > Band \/ Game!Net(s) < -Band
        BY <2>3, <3>4, Settings DEF Game!Magnitude
      <4>3. Game!Net(s) > 0 => Game!Net(s) > Band
        BY <2>3, <4>2, Settings
      <4>4. ~(Game!Net(s) > 0) => Game!Net(s) < -Band
        BY <2>3, <4>2, Settings
      <4> QED BY <2>2, <2>6, <3>1, <3>2, <4>1, <4>3, <4>4 DEF GameResult
    <3> QED BY <3>3, <3>4
  <2> QED BY <2>7, <2>8
<1> QED BY <1>4, <1>5

\* A step of one call changes what is known of that call only.
LEMMA CallMoves ==
    ASSUME GameType, NEW c \in Requests, NEW x \in GameCall, call' = [call EXCEPT ![c] = x]
    PROVE  /\ call' \in [Requests -> GameCall \cup {Game!Idle}]
           /\ call'[c] = x
           /\ \A d \in Requests \ {c} : call'[d] = call[d]
BY DEF GameType

\* A call that has begun has all its fields.
LEMMA CallBegun ==
    ASSUME GameType, NEW c \in Requests, call[c].pc # "idle"
    PROVE  call[c] \in GameCall
BY DEF GameType, Game!Idle

\* Fairness is about what was seen and what was computed.
LEMMA FairKept ==
    ASSUME NEW c, Connectors' = Connectors, Game!Fair(c),
           call'[c].seen = call[c].seen, call'[c].result = call[c].result
    PROVE  Game!Fair(c)'
BY DEF Game!Fair

\* A step that moves no call but `c', and computes nothing, keeps results fair.
LEMMA AllFairKept ==
    ASSUME AllFair, Connectors' = Connectors, NEW c \in Requests,
           \A d \in Requests \ {c} : call'[d] = call[d],
           Computed(c)' => /\ Computed(c)
                           /\ call'[c].seen = call[c].seen /\ call'[c].result = call[c].result
    PROVE  AllFair'
<1>1. ASSUME NEW d \in Requests, Computed(d)' PROVE Game!Fair(d)'
  <2>1. Computed(d) /\ call'[d].seen = call[d].seen /\ call'[d].result = call[d].result
    BY <1>1 DEF Computed
  <2> QED BY <2>1, FairKept DEF AllFair
<1> QED BY <1>1 DEF AllFair

\* The readings of a request are one of each, and they are the newest it saw.
LEMMA VisibleOneOfEach ==
    ASSUME GameType, NEW t \in Int
    PROVE  /\ OneOfEach(Game!Visible(t))
           /\ Game!Raw(t) \in SUBSET readings
           /\ Game!Visible(t) = {r \in Game!Raw(t) : r.connector \in Connectors
                /\ ~\E q \in Game!Raw(t) : q.connector = r.connector /\ q.at = r.at /\ q.rev > r.rev}
<1>1. Game!Raw(t) \in SUBSET readings
    BY DEF Game!Raw
<1>2. \A r \in Game!Raw(t) : r \in GameReading /\ r.rev \in Nat
    BY <1>1 DEF GameType, GameReading
<1>3. ASSUME NEW r \in Game!Raw(t), r.connector \in Connectors
      PROVE  r \in Game!Visible(t) <=> ~\E q \in Game!Raw(t) :
                q.connector = r.connector /\ q.at = r.at /\ q.rev > r.rev
    BY <1>2, <1>3 DEF Game!Visible
<1>4. \A r \in Game!Visible(t) : r \in Game!Raw(t) /\ r.connector \in Connectors
    BY DEF Game!Visible
<1>5. IsFiniteSet(Game!Visible(t))
    BY <1>1, <1>4, FS_Subset DEF GameType
<1>6. ASSUME NEW r \in Game!Visible(t), NEW q \in Game!Visible(t),
             r.connector = q.connector, r.at = q.at
      PROVE  r = q
  <2>1. r.rev <= q.rev /\ q.rev <= r.rev
    BY <1>2, <1>4, <1>6 DEF Game!Visible
  <2>2. r.rev = q.rev
    BY <1>2, <1>4, <2>1
  <2> QED BY <1>1, <1>4, <1>6, <2>2 DEF GameType
<1>7. OneOfEach(Game!Visible(t))
    BY <1>2, <1>4, <1>5, <1>6 DEF OneOfEach, GameType
<1> QED BY <1>1, <1>3, <1>4, <1>7

\* What a request computes is fair to what it read.
LEMMA ComputeStep ==
    ASSUME GameInv, NEW c \in Requests, Game!Compute(c)
    PROVE  GameInv'
<1> DEFINE t == call[c].asOf
           rs == Game!Visible(t)
           x == [call[c] EXCEPT !.pc = "candidate", !.seen = Game!Raw(t),
                                !.result = Game!Verdict(rs), !.coverage = Game!Coverage(rs)]
<1>1. call[c].pc = "read" /\ UNCHANGED <<Connectors, clock, readings, ledger, lock>>
    BY DEF Game!Compute, Game!Keeps
<1>2. call[c] \in GameCall /\ t \in Int
    BY <1>1, CallBegun DEF GameInv, GameCall
<1>3. OneOfEach(rs) /\ Connectors # {} /\ Game!Raw(t) \in SUBSET readings
    BY <1>2, VisibleOneOfEach DEF GameInv, GameType
<1>4. Game!Verdict(rs) \in GameResult /\ Game!Coverage(rs) \in Nat
    BY <1>3, VerdictFollows
<1>5. x \in GameCall
    BY <1>2, <1>3, <1>4 DEF GameInv, GameType, GameCall
<1>6. call' = [call EXCEPT ![c] = x]
    BY DEF Game!Compute
<1>7. /\ call' \in [Requests -> GameCall \cup {Game!Idle}] /\ call'[c] = x
      /\ \A d \in Requests \ {c} : call'[d] = call[d]
  <2> HIDE DEF x
  <2> QED BY <1>5, <1>6, CallMoves DEF GameInv
<1>8. GameType'
    BY <1>1, <1>7 DEF GameInv, GameType
<1>9. Numbered'
  <2>1. call'[c].pc = "candidate"
    BY <1>2, <1>7 DEF GameCall
  <2> HIDE DEF x
  <2>2. ~InLock(c) /\ ~InLock(c)' /\ \A d \in Requests \ {c} : InLock(d)' <=> InLock(d)
    BY <1>1, <1>7, <2>1 DEF InLock
  <2> QED BY <1>1, <1>7, <2>1, <2>2 DEF GameInv, Numbered
<1>10. Game!Fair(c)'
  <2>1. call'[c].seen = Game!Raw(t) /\ call'[c].result = Game!Verdict(rs)
    BY <1>2, <1>7 DEF GameCall
  <2>2. rs = {r \in Game!Raw(t) : r.connector \in Connectors
                /\ ~\E q \in Game!Raw(t) : q.connector = r.connector /\ q.at = r.at /\ q.rev > r.rev}
    BY <1>2, VisibleOneOfEach DEF GameInv
  <2> HIDE DEF rs, x
  <2> DEFINE newest == {r \in call[c].seen : r.connector \in Connectors
                /\ ~\E q \in call[c].seen : q.connector = r.connector /\ q.at = r.at /\ q.rev > r.rev}
             full == {u \in Game!Span : \A k \in Connectors : \E r \in newest : r.connector = k /\ r.at = u}
  <2>3. newest' = rs
    BY <1>1, <2>1, <2>2
  <2>4. full' = {u \in Game!Span : Complete(rs, u)}
    <3> HIDE DEF newest
    <3> QED BY <1>1, <2>3 DEF Complete
  <2>5. Game!Fair(c)' <=>
          LET on == call'[c].result.on
          IN  /\ call'[c].result.outcome = "importing" => Game!Net(on) > Band
              /\ call'[c].result.outcome = "exporting" => Game!Net(on) < -Band
              /\ on # {} => \E u \in full' :
                   /\ on = {r \in newest' : r.at = u}
                   /\ \A w \in full' : Game!Distance(u) <= Game!Distance(w)
                   /\ call'[c].result.state = "void" => Game!Magnitude(Game!Net(on)) <= Band
              /\ on = {} => full' = {}
    BY DEF Game!Fair
  <2> HIDE DEF newest, full
  <2> QED BY <1>3, <2>1, <2>3, <2>4, <2>5, VerdictFollows
<1>11. AllFair'
  <2>1. ASSUME NEW d \in Requests \ {c}, Computed(d)' PROVE Game!Fair(d)'
    <3>1. Computed(d) /\ call'[d] = call[d]
      BY <1>7, <2>1 DEF Computed
    <3> QED BY <1>1, <3>1, FairKept DEF GameInv, AllFair
  <2> QED BY <1>10, <2>1 DEF AllFair
<1> QED BY <1>8, <1>9, <1>11 DEF GameInv

\* A request begins with nothing read.
LEMMA ArriveStep ==
    ASSUME GameInv, NEW c \in Requests, Game!Arrive(c)
    PROVE  GameInv'
<1> DEFINE x == [pc |-> IF clock < Game!ResolvesTo THEN "pending" ELSE "read", asOf |-> clock,
                 seen |-> {}, result |-> Game!Void, coverage |-> 0, revision |-> 0]
<1>1. /\ call[c] = Game!Idle /\ call' = [call EXCEPT ![c] = x]
      /\ UNCHANGED <<Connectors, clock, readings, ledger, lock>>
    BY DEF Game!Arrive, Game!Keeps
<1>2. x \in GameCall
    BY DEF GameInv, GameType, GameCall, GameResult, Game!Void
<1>3. x.pc \in {"pending", "read"}
    OBVIOUS
<1> HIDE DEF x
<1>4. /\ call' \in [Requests -> GameCall \cup {Game!Idle}] /\ call'[c] = x
      /\ \A d \in Requests \ {c} : call'[d] = call[d]
    BY <1>1, <1>2, CallMoves DEF GameInv
<1>5. GameType'
    BY <1>1, <1>4 DEF GameInv, GameType
<1>6. call[c].pc = "idle"
    BY <1>1 DEF Game!Idle
<1>7. ~InLock(c) /\ ~InLock(c)' /\ \A d \in Requests \ {c} : InLock(d)' <=> InLock(d)
    BY <1>3, <1>4, <1>6 DEF InLock
<1>8. Numbered'
    BY <1>1, <1>3, <1>4, <1>7 DEF GameInv, Numbered
<1>9. AllFair'
    BY <1>1, <1>3, <1>4, AllFairKept DEF GameInv, Computed
<1> QED BY <1>5, <1>8, <1>9 DEF GameInv

\* What is left of the invariant when a call takes the lock, gives it up or is numbered.
LEMMA MovedStep ==
    ASSUME GameInv, NEW c \in Requests, Computed(c),
           NEW p \in {"locked", "numbered", "answered", "failed"}, NEW n \in Nat,
           call' = [call EXCEPT ![c].pc = p, ![c].revision = n],
           UNCHANGED <<Connectors, clock, readings>>
    PROVE  /\ GameType' /\ AllFair'
           /\ call'[c].pc = p /\ call'[c].revision = n
           /\ Game!Checksum(call'[c]) = Game!Checksum(call[c])
           /\ \A d \in Requests \ {c} : call'[d] = call[d]
<1> DEFINE x == [call[c] EXCEPT !.pc = p, !.revision = n]
<1>1. call[c] \in GameCall
    BY CallBegun DEF GameInv, Computed
<1>2. x \in GameCall /\ call' = [call EXCEPT ![c] = x]
    BY <1>1 DEF GameCall, GameInv, GameType
<1>3. /\ x.pc = p /\ x.revision = n /\ x.seen = call[c].seen /\ x.result = call[c].result
      /\ x.coverage = call[c].coverage
    BY <1>1 DEF GameCall
<1> HIDE DEF x
<1>4. /\ call' \in [Requests -> GameCall \cup {Game!Idle}] /\ call'[c] = x
      /\ \A d \in Requests \ {c} : call'[d] = call[d]
    BY <1>2, CallMoves DEF GameInv
<1>5. GameType'
    BY <1>4 DEF GameInv, GameType
<1>6. AllFair'
    BY <1>3, <1>4, AllFairKept DEF GameInv
<1> QED BY <1>3, <1>4, <1>5, <1>6 DEF Game!Checksum

\* The lock is taken when it is free.
LEMMA LockStep ==
    ASSUME GameInv, NEW c \in Requests, Game!Lock(c)
    PROVE  GameInv'
<1>1. /\ call[c].pc = "candidate" /\ lock = Game!None /\ lock' = c
      /\ call' = [call EXCEPT ![c].pc = "locked"]
      /\ UNCHANGED <<Connectors, clock, readings, ledger>>
    BY DEF Game!Lock, Game!Keeps
<1>2. call[c] \in GameCall /\ call[c].revision \in Nat
    BY <1>1, CallBegun DEF GameInv, GameCall
<1>3. call' = [call EXCEPT ![c].pc = "locked", ![c].revision = call[c].revision]
    BY <1>1, <1>2 DEF GameCall, GameInv, GameType
<1>4. /\ GameType' /\ AllFair' /\ call'[c].pc = "locked"
      /\ \A d \in Requests \ {c} : call'[d] = call[d]
    BY <1>1, <1>2, <1>3, MovedStep DEF Computed
<1>5. \A d \in Requests : ~InLock(d)
    BY <1>1, Settings DEF GameInv, Numbered
<1>6. \A d \in Requests : InLock(d)' <=> lock' = d
    BY <1>1, <1>4, <1>5 DEF InLock
<1>7. Numbered'
    BY <1>1, <1>4, <1>6 DEF GameInv, Numbered
<1> QED BY <1>4, <1>7 DEF GameInv

\* A call that ends gives the lock back.
LEMMA EndsStep ==
    ASSUME GameInv, NEW c \in Requests, InLock(c),
           NEW p \in {"answered", "failed"}, NEW n \in Nat, Game!Ends(c, p, n),
           UNCHANGED <<Connectors, clock, readings>>,
           ledger' = ledger,
           p = "answered" => \E r \in ledger : r.number = n /\ r.checksum = Game!Checksum(call[c])
    PROVE  GameInv'
<1>1. Computed(c) /\ lock = c
    BY DEF InLock, Computed, GameInv, Numbered
<1>2. lock' = Game!None /\ call' = [call EXCEPT ![c].pc = p, ![c].revision = n]
    BY <1>1 DEF Game!Ends
<1>3. /\ GameType' /\ AllFair' /\ call'[c].pc = p /\ call'[c].revision = n
      /\ Game!Checksum(call'[c]) = Game!Checksum(call[c])
      /\ \A d \in Requests \ {c} : call'[d] = call[d]
    BY <1>1, <1>2, MovedStep
<1>4. \A d \in Requests : ~InLock(d)' /\ lock' # d
    BY <1>1, <1>2, <1>3, Settings DEF GameInv, Numbered, InLock
<1>5. Numbered'
    BY <1>3, <1>4 DEF GameInv, Numbered, InLock
<1> QED BY <1>3, <1>5 DEF GameInv

\* The highest number of the rows is how many there are.
LEMMA LatestIsCount ==
    ASSUME Numbered
    PROVE  Game!Latest = Cardinality(ledger) /\ Cardinality(ledger) \in Nat
<1> DEFINE n == Cardinality(ledger)
           T == {r.number : r \in ledger}
<1>1. n \in Nat /\ T = 1..n /\ (n = 0 <=> ledger = {})
    BY FS_CardinalityType, FS_EmptySet DEF Numbered
<1>2. CASE ledger = {}
    BY <1>1, <1>2 DEF Game!Latest
<1>3. CASE ledger # {}
  <2> HIDE DEF n
  <2>1. n \in T /\ \A m \in T : m <= n /\ m \in Int
    BY <1>1, <1>3
  <2> HIDE DEF T
  <2>2. Game!Max(T) = n
    BY <1>1, <2>1 DEF Game!Max
  <2> QED BY <1>1, <1>3, <2>2 DEF Game!Latest, T, n
<1> QED BY <1>2, <1>3

\* The next number is above every row, and no row has the same evidence.
LEMMA NumberStep ==
    ASSUME GameInv, NEW c \in Requests, Game!Number(c)
    PROVE  GameInv'
<1> DEFINE n == Cardinality(ledger) + 1
<1>1. /\ call[c].pc = "locked" /\ \A r \in ledger : r.checksum # Game!Checksum(call[c])
      /\ call' = [call EXCEPT ![c].pc = "numbered", ![c].revision = Game!Latest + 1]
      /\ UNCHANGED <<Connectors, clock, readings, ledger, lock>>
    BY DEF Game!Number, Game!Keeps
<1>2. Game!Latest + 1 = n /\ n \in Nat
    BY LatestIsCount DEF GameInv
<1>3. /\ GameType' /\ AllFair' /\ call'[c].pc = "numbered" /\ call'[c].revision = n
      /\ Game!Checksum(call'[c]) = Game!Checksum(call[c])
      /\ \A d \in Requests \ {c} : call'[d] = call[d]
    BY <1>1, <1>2, MovedStep DEF Computed
<1>4. \A d \in Requests : InLock(d)' <=> InLock(d)
    BY <1>1, <1>3 DEF InLock
<1>5. \A d \in Requests : call'[d].pc = "numbered" =>
        /\ call'[d].revision = Cardinality(ledger') + 1
        /\ \A r \in ledger' : r.checksum # Game!Checksum(call'[d])
  <2>1. ledger' = ledger
    BY <1>1
  <2>2. ASSUME NEW d \in Requests \ {c}, call'[d].pc = "numbered"
        PROVE  /\ call'[d].revision = Cardinality(ledger) + 1
               /\ \A r \in ledger : r.checksum # Game!Checksum(call'[d])
    BY <1>3, <2>2 DEF GameInv, Numbered
  <2>3. /\ call'[c].revision = Cardinality(ledger) + 1
        /\ \A r \in ledger : r.checksum # Game!Checksum(call'[c])
    BY <1>1, <1>3
  <2> QED BY <2>1, <2>2, <2>3
<1>6. \A d \in Requests : call'[d].pc = "answered" =>
        \E r \in ledger' : r.number = call'[d].revision /\ r.checksum = Game!Checksum(call'[d])
    BY ZenonT(40), <1>1, <1>3 DEF GameInv, Numbered
<1>7. Numbered'
    BY <1>1, <1>4, <1>5, <1>6 DEF GameInv, Numbered
<1> QED BY <1>3, <1>7 DEF GameInv

\* The insert adds the row it numbered: while it held the lock nothing was added.
LEMMA InsertStep ==
    ASSUME GameInv, NEW c \in Requests, Game!Insert(c)
    PROVE  GameInv'
<1> DEFINE n == call[c].revision
           row == [number |-> n, asOf |-> call[c].asOf, checksum |-> Game!Checksum(call[c])]
           m == Cardinality(ledger)
<1>1. /\ call[c].pc = "numbered" /\ UNCHANGED <<Connectors, clock, readings>>
    BY DEF Game!Insert, Game!Keeps
<1>2. /\ m \in Nat /\ n = m + 1 /\ IsFiniteSet(ledger)
      /\ {r.number : r \in ledger} = 1..m
      /\ \A r \in ledger : r.checksum # Game!Checksum(call[c])
    BY <1>1, LatestIsCount DEF GameInv, Numbered
<1>3. \A r \in ledger : r.number \in 1..m /\ r.number # n
    BY <1>2
<1>4. Game!Ends(c, "answered", n) /\ ledger' = ledger \cup {row}
    BY <1>2, <1>3 DEF Game!Insert
<1>5. InLock(c) /\ Computed(c) /\ lock = c
    BY <1>1 DEF InLock, Computed, GameInv, Numbered
<1>6. lock' = Game!None /\ call' = [call EXCEPT ![c].pc = "answered", ![c].revision = n]
    BY <1>4, <1>5 DEF Game!Ends
<1>7. /\ GameType' /\ AllFair' /\ call'[c].pc = "answered" /\ call'[c].revision = n
      /\ Game!Checksum(call'[c]) = Game!Checksum(call[c])
      /\ \A d \in Requests \ {c} : call'[d] = call[d]
  <2>1. n \in Nat
    BY <1>2
  <2> HIDE DEF n, row, m
  <2> QED BY <1>1, <1>5, <1>6, <2>1, MovedStep
<1>8. \A d \in Requests : ~InLock(d)' /\ lock' # d
    BY <1>5, <1>6, <1>7, Settings DEF GameInv, Numbered, InLock
<1>9. row.number = n /\ row.checksum = Game!Checksum(call[c]) /\ row \notin ledger
    BY <1>3
<1> HIDE DEF row, n
<1>10. IsFiniteSet(ledger') /\ Cardinality(ledger') = m + 1
    BY <1>2, <1>4, <1>9, FS_AddElement
<1>11. {r.number : r \in ledger'} = 1..Cardinality(ledger')
  <2>1. {r.number : r \in ledger'} = {r.number : r \in ledger} \cup {n}
    BY <1>4, <1>9
  <2> HIDE DEF m
  <2>2. 1..(m + 1) = 1..m \cup {m + 1}
    BY <1>2
  <2> QED BY <1>2, <1>10, <2>1, <2>2
<1>12. \A r, q \in ledger' : r.checksum = q.checksum => r = q
    BY <1>2, <1>4, <1>9 DEF GameInv, Numbered
<1>13. \A d \in Requests : call'[d].pc = "answered" =>
         \E r \in ledger' : r.number = call'[d].revision /\ r.checksum = Game!Checksum(call'[d])
  <2>1. row \in ledger' /\ \A r \in ledger : r \in ledger'
    BY <1>4
  <2> QED BY <1>7, <1>9, <2>1 DEF GameInv, Numbered
<1>14. Numbered'
    BY <1>8, <1>10, <1>11, <1>12, <1>13 DEF Numbered, InLock
<1> QED BY <1>7, <1>14 DEF GameInv

\* A publication is a new revision of its reading; it moves no call.
LEMMA PublishStep ==
    ASSUME GameInv, NEW k \in Feeds, NEW t \in Game!Span, NEW mw \in Flows, Game!Publish(k, t, mw)
    PROVE  GameInv'
<1> DEFINE earlier == {r \in readings : r.connector = k /\ r.at = t}
           rev == IF earlier = {} THEN 1 ELSE Game!Max({r.rev : r \in earlier}) + 1
           new == [connector |-> k, at |-> t, rev |-> rev, mw |-> mw, seen |-> clock]
<1>1. /\ readings' = readings \cup {new}
      /\ UNCHANGED <<Connectors, clock, ledger, lock, call>>
    BY DEF Game!Publish
<1>2. rev \in Nat /\ \A r \in earlier : r.rev < rev
  <2>1. CASE earlier = {}
    BY <2>1
  <2>2. CASE earlier # {}
    <3> DEFINE R == {r.rev : r \in earlier}
    <3>1. R \subseteq Int /\ R # {} /\ IsFiniteSet(R)
      <4>1. IsFiniteSet(earlier)
        BY FS_Subset DEF GameInv, GameType
      <4> DEFINE f == [r \in earlier |-> r.rev]
      <4>2. f \in Surjection(earlier, R)
        BY DEF Surjection
      <4>3. IsFiniteSet(R)
        <5> HIDE DEF f, R, earlier
        <5> QED BY <4>1, <4>2, FS_Surjection
      <4> QED BY <2>2, <4>3 DEF GameInv, GameType, GameReading
    <3>2. \E x \in R : \A y \in R : x >= y
      <4> HIDE DEF R
      <4> QED BY <3>1, GreatestOfFinite
    <3>3. Game!Max(R) \in R /\ \A y \in R : Game!Max(R) >= y
      <4> HIDE DEF R
      <4> QED BY <3>2 DEF Game!Max
    <3>4. \A r \in earlier : r.rev \in R /\ r.rev \in Nat
      BY DEF GameInv, GameType, GameReading
    <3>5. Game!Max(R) \in Nat
      BY <3>3, <3>4
    <3>6. rev = Game!Max(R) + 1
      BY <2>2
    <3>7. \A r \in earlier : r.rev <= Game!Max(R)
      BY <3>3, <3>4, <3>5
    <3> HIDE DEF R, rev, earlier
    <3>8. \A r \in earlier : r.rev \in Nat
      BY <3>4
    <3> QED BY <3>5, <3>6, <3>7, <3>8
  <2> QED BY <2>1, <2>2
<1> HIDE DEF rev
<1>3. new \in GameReading
    BY <1>2, Settings DEF GameInv, GameType, GameReading
<1>4. ASSUME NEW r \in readings, r.connector = new.connector, r.at = new.at PROVE r.rev # new.rev
  <2>1. r \in earlier /\ r.rev \in Nat
    BY <1>4 DEF GameInv, GameType, GameReading
  <2> QED BY <1>2, <2>1
<1> HIDE DEF new
<1>5. \A r, q \in readings' : r.connector = q.connector /\ r.at = q.at /\ r.rev = q.rev => r = q
    BY <1>1, <1>4 DEF GameInv, GameType
<1>6. IsFiniteSet(readings')
    BY <1>1, FS_AddElement DEF GameInv, GameType
<1>7. GameType'
    BY <1>1, <1>3, <1>5, <1>6 DEF GameInv, GameType
<1>8. Numbered'
    BY <1>1 DEF GameInv, Numbered, InLock
<1>9. AllFair'
    BY <1>1, FairKept DEF GameInv, AllFair, Computed
<1> QED BY <1>7, <1>8, <1>9 DEF GameInv

\* Every step of the game keeps its invariant.
LEMMA GameNext == GameInv /\ [Game!Next]_Game!vars => GameInv'
<1> SUFFICES ASSUME GameInv, [Game!Next]_Game!vars PROVE GameInv'
    OBVIOUS
<1>1. ASSUME NEW c \in Requests, Game!Known(c) PROVE GameInv'
  <2>1. PICK r \in ledger : r.checksum = Game!Checksum(call[c]) /\ Game!Ends(c, "answered", r.number)
    BY <1>1 DEF Game!Known
  <2>2. r.number \in Nat
    BY LatestIsCount DEF GameInv, Numbered
  <2> QED BY <1>1, <2>1, <2>2, EndsStep DEF Game!Known, Game!Keeps, InLock
<1>2. ASSUME NEW c \in Requests, Game!Fail(c) PROVE GameInv'
    BY <1>2, EndsStep DEF Game!Fail, Game!Keeps, InLock
<1>3. CASE Game!ClockTick
  <2>1. clock' = clock + 1 /\ UNCHANGED <<Connectors, readings, ledger, lock, call>>
    BY <1>3 DEF Game!ClockTick
  <2>2. GameType'
    BY <2>1 DEF GameInv, GameType
  <2>3. Numbered'
    BY <2>1 DEF GameInv, Numbered, InLock
  <2>4. AllFair'
    BY <2>1, FairKept DEF GameInv, AllFair, Computed
  <2> QED BY <2>2, <2>3, <2>4 DEF GameInv
<1>4. CASE UNCHANGED Game!vars
  <2>1. UNCHANGED <<Connectors, clock, readings, ledger, lock, call>>
    BY <1>4 DEF Game!vars
  <2>2. GameType' /\ Numbered'
    BY <2>1 DEF GameInv, GameType, Numbered, InLock
  <2>3. AllFair'
    BY <2>1, FairKept DEF GameInv, AllFair, Computed
  <2> QED BY <2>2, <2>3 DEF GameInv
<1> QED BY <1>1, <1>2, <1>3, <1>4, ArriveStep, ComputeStep, LockStep, NumberStep, InsertStep,
          PublishStep DEF Game!Next, Game!Resolve

\* The game begins with nothing.
LEMMA GameStart == Game!Init => GameInv
<1> SUFFICES ASSUME Game!Init PROVE GameInv
    OBVIOUS
<1>1. GameType
    BY Settings, FS_EmptySet DEF Game!Init, GameType, Game!ResolvesTo
<1>2. \A c \in Requests : call[c].pc = "idle"
    BY DEF Game!Init, Game!Idle
<1>3. Numbered
  <2>1. ledger = {} /\ IsFiniteSet(ledger) /\ Cardinality(ledger) = 0
    BY FS_EmptySet DEF Game!Init
  <2>2. {r.number : r \in ledger} = 1..Cardinality(ledger)
    BY <2>1
  <2> QED BY <1>2, <2>1, <2>2, Settings DEF Numbered, InLock, Game!Init
<1> QED BY <1>1, <1>2, <1>3 DEF GameInv, AllFair, Computed

\* The verdict of a prediction is fair in every state that satisfies the invariant.
LEMMA GameVerdict == GameInv => Game!VerdictFair
<1> SUFFICES ASSUME GameInv PROVE Game!VerdictFair
    OBVIOUS
<1>1. \A c \in Requests : call[c].pc = "answered" => Game!Fair(c)
    BY DEF GameInv, AllFair, Computed
<1> QED BY <1>1, GameLibrary DEF Game!VerdictFair, GameInv, Numbered

\* A resolved prediction follows from the evidence its request read, and the results of a
\* prediction are numbered without gaps, whatever requests and corrections interleave.
THEOREM GameFair == Game!Spec => []Game!VerdictFair
BY GameStart, GameNext, GameVerdict, PTL DEF Game!Spec

\* The same of the composition.
THEOREM VerdictsFair == SurfaceSpec => []VerdictFair
<1>1. SurfaceInit => GameHolds
    BY GameStart DEF SurfaceInit, GameHolds
<1>2. GameHolds /\ [SurfaceNext]_allvars => GameHolds'
  <2> SUFFICES ASSUME GameHolds, [SurfaceNext]_allvars, part' = "game" PROVE GameInv'
      BY DEF GameHolds
  <2>1. part = "game" /\ [Game!Next]_Game!vars
    BY DEF SurfaceNext, allvars, gameVars, Game!vars
  <2> QED BY <2>1, GameNext DEF GameHolds
<1>3. GameHolds => VerdictFair
    BY GameVerdict DEF GameHolds, VerdictFair
<1> QED BY <1>1, <1>2, <1>3, PTL DEF SurfaceSpec

-----------------------------------------------------------------------------
(* The reminders of the iOS app. *)

ReminderKept == Reminder!Plans \cup {Reminder!Nothing}
Buttons == {"schedule", "cancel"}

ReminderType ==
  /\ now \in Nat
  /\ pending \in ReminderKept /\ stored \in ReminderKept
  /\ pressed \in [Buttons -> [pc : {"idle", "permission", "check", "add", "save", "remove", "erase"},
                              plan : ReminderKept]]
  /\ \A b \in Buttons : Reminder!At(b, "idle") => pressed[b] = Reminder!Resting
  /\ pressed["schedule"].pc \in {"idle", "permission", "check", "add", "save"}
  /\ pressed["cancel"].pc \in {"idle", "remove", "erase"}
  /\ refresh = Reminder!Resting \/ Reminder!Removing

\* The app and the notification center agree.
Agreed ==
  /\ pending.fire > now => pending = stored
  /\ stored.fire > now => pending = stored
  /\ shown \in {Reminder!Nothing, stored}

\* Between the two writes of a call they differ by what the second is about to write.
HalfWritten ==
  /\ Reminder!At("schedule", "save") =>
       \/ pending = pressed["schedule"].plan
       \/ pending = Reminder!Nothing /\ pressed["schedule"].plan.fire <= now
  /\ Reminder!At("cancel", "erase") \/ refresh.pc = "erase" => pending = Reminder!Nothing

ReminderInv ==
  /\ ReminderType
  /\ Reminder!At("schedule", "idle") \/ Reminder!At("cancel", "idle")
  /\ ~overlapped => 
       /\ Reminder!Removing => ~Reminder!Working
       /\ HalfWritten
       /\ Reminder!At("schedule", "save") \/ Reminder!At("cancel", "erase") \/ refresh.pc = "erase" \/ Agreed

\* A coordinator is working while a call of a button is between its steps.
LEMMA WorkingIsPressed == ReminderType => (Reminder!Working <=> ~Reminder!At("schedule", "idle") \/ ~Reminder!At("cancel", "idle"))
BY DEF ReminderType, Reminder!Working, Reminder!At, Reminder!Resting, Reminder!Call, Buttons

\* The app is installed without a reminder.
LEMMA ReminderStart == Reminder!Init => ReminderInv
BY WorkingIsPressed DEF Reminder!Init, ReminderInv, ReminderType, Agreed, HalfWritten, Reminder!At, Reminder!Resting, Reminder!Removing, Reminder!Nothing, Buttons, ReminderKept

\* When nothing runs, the invariant is the agreement.
LEMMA ReminderEnd == ReminderInv => Reminder!RemindersAgree
BY WorkingIsPressed DEF ReminderInv, Reminder!RemindersAgree, Agreed, HalfWritten, Reminder!Removing, Reminder!At

\* Every step keeps the invariant, whatever interleaves with a call.
LEMMA ReminderStep == ReminderInv /\ [Reminder!Next]_Reminder!vars => ReminderInv'
<1> SUFFICES ASSUME ReminderInv, [Reminder!Next]_Reminder!vars PROVE ReminderInv'
    OBVIOUS
<1> USE DEF ReminderKept
<1>0. Reminder!Working <=> ~Reminder!At("schedule", "idle") \/ ~Reminder!At("cancel", "idle")
    BY WorkingIsPressed DEF ReminderInv
<1>w. ReminderType' => (Reminder!Working' <=> ~Reminder!At("schedule", "idle")' \/ ~Reminder!At("cancel", "idle")')
    BY DEF ReminderType, Reminder!Working, Reminder!At, Reminder!Resting, Reminder!Call, Buttons
<1>1. ASSUME NEW p \in Reminder!Plans, Reminder!Schedule(p) PROVE ReminderInv'
  <2>1. ReminderType'
    BY <1>1 DEF Reminder!Schedule, ReminderInv, ReminderType, Reminder!At, Reminder!Resting, Reminder!Call, Buttons, Reminder!Removing
  <2> QED BY <1>0, <1>w, <1>1, <2>1 DEF Reminder!Schedule, ReminderInv, HalfWritten, Agreed, Reminder!At, Reminder!Resting, Reminder!Call, Buttons, Reminder!Removing, Reminder!Overlap, ReminderType
<1>2. CASE Reminder!Permission
  <2>1. ReminderType'
    BY <1>2 DEF Reminder!Permission, ReminderInv, ReminderType, Reminder!At, Reminder!Resting, Reminder!Move, Reminder!EndCall, Buttons, Reminder!Removing
  <2> QED BY <1>0, <1>w, <1>2, <2>1 DEF Reminder!Permission, ReminderInv, HalfWritten, Agreed, Reminder!At, Reminder!Resting, Reminder!Move, Reminder!EndCall, Buttons, Reminder!Removing, ReminderType
<1>3. CASE Reminder!Check
  <2>1. ReminderType'
    BY <1>3 DEF Reminder!Check, ReminderInv, ReminderType, Reminder!At, Reminder!Resting, Reminder!Move, Reminder!EndCall, Buttons, Reminder!Removing
  <2> QED BY <1>0, <1>w, <1>3, <2>1 DEF Reminder!Check, ReminderInv, HalfWritten, Agreed, Reminder!At, Reminder!Resting, Reminder!Move, Reminder!EndCall, Buttons, Reminder!Removing, ReminderType
<1>4. CASE Reminder!Add
  <2>1. ReminderType'
    BY <1>4 DEF Reminder!Add, ReminderInv, ReminderType, Reminder!At, Reminder!Resting, Reminder!Move, Reminder!EndCall, Buttons, Reminder!Removing
  <2>2. CASE UNCHANGED pending
    BY <1>0, <1>w, <1>4, <2>1, <2>2 DEF Reminder!Add, ReminderInv, HalfWritten, Agreed, Reminder!At, Reminder!Resting, Reminder!Move, Reminder!EndCall, Buttons, Reminder!Removing, ReminderType
  <2>3. CASE pending' = pressed["schedule"].plan /\ Reminder!Move("schedule", "save")
    BY <1>0, <1>w, <1>4, <2>1, <2>3 DEF Reminder!Add, ReminderInv, HalfWritten, Agreed, Reminder!At, Reminder!Resting, Reminder!Move, Buttons, Reminder!Removing, ReminderType
  <2> QED BY <1>4, <2>2, <2>3 DEF Reminder!Add
<1>5. CASE Reminder!Save
  <2>1. ReminderType'
    BY <1>5 DEF Reminder!Save, ReminderInv, ReminderType, Reminder!At, Reminder!Resting, Reminder!EndCall, Buttons, Reminder!Removing
  <2>2. Reminder!At("schedule", "idle")' /\ Reminder!At("cancel", "idle")' /\ UNCHANGED <<now, pending, refresh, overlapped>>
    BY <1>5 DEF Reminder!Save, ReminderInv, Reminder!At, Reminder!EndCall, Reminder!Resting, Buttons, ReminderType
  <2>3. ~overlapped => ~Reminder!Removing /\ HalfWritten
    BY <1>0, <1>5 DEF Reminder!Save, ReminderInv, Reminder!At
  <2>4. ~overlapped => Agreed'
    <3>1. pressed["schedule"].plan.fire \in Nat /\ Reminder!Nothing.fire = 0 /\ now \in Nat
      BY ReminderSettings DEF ReminderInv, ReminderType, Buttons, Reminder!Plans, Reminder!Nothing
    <3> QED BY <1>5, <2>2, <2>3, <3>1 DEF Reminder!Save, HalfWritten, Agreed
  <2> QED BY <2>1, <2>2, <2>3, <2>4 DEF ReminderInv, HalfWritten, Reminder!At, Reminder!Removing
<1>6. CASE Reminder!Cancel
  <2>1. ReminderType'
    BY <1>6 DEF Reminder!Cancel, ReminderInv, ReminderType, Reminder!At, Reminder!Resting, Reminder!Call, Buttons, Reminder!Removing
  <2> QED BY <1>0, <1>w, <1>6, <2>1 DEF Reminder!Cancel, ReminderInv, HalfWritten, Agreed, Reminder!At, Reminder!Resting, Reminder!Call, Buttons, Reminder!Removing, Reminder!Overlap, ReminderType
<1>7. CASE Reminder!RemovePending
  <2>1. ReminderType'
    BY <1>7 DEF Reminder!RemovePending, ReminderInv, ReminderType, Reminder!At, Reminder!Resting, Reminder!Move, Buttons, Reminder!Removing
  <2>2. Reminder!At("schedule", "idle")' /\ Reminder!At("cancel", "erase")' /\ pending' = Reminder!Nothing
    BY <1>7 DEF Reminder!RemovePending, ReminderInv, Reminder!At, Reminder!Move, Buttons, ReminderType
  <2>3. ~overlapped => ~Reminder!Removing
    BY <1>0, <1>7 DEF Reminder!RemovePending, ReminderInv, Reminder!At
  <2> QED BY <1>7, <2>1, <2>2, <2>3 DEF Reminder!RemovePending, ReminderInv, HalfWritten, Reminder!At, Reminder!Removing
<1>8. CASE Reminder!Erase
  <2>1. ReminderType'
    BY <1>8 DEF Reminder!Erase, ReminderInv, ReminderType, Reminder!At, Reminder!Resting, Reminder!EndCall, Buttons, Reminder!Removing
  <2> QED BY <1>0, <1>w, <1>8, <2>1 DEF Reminder!Erase, ReminderInv, HalfWritten, Agreed, Reminder!At, Reminder!Resting, Reminder!EndCall, Buttons, Reminder!Removing, ReminderType, Reminder!Nothing
<1>9. ASSUME NEW s \in Subjects, Reminder!Refresh(s) PROVE ReminderInv'
  <2>1. ReminderType'
    BY <1>9 DEF Reminder!Refresh, ReminderInv, ReminderType, Reminder!At, Reminder!Resting, Reminder!Call, Buttons, Reminder!Removing
  <2>2. refresh.pc = "idle" /\ UNCHANGED <<now, pending, stored, pressed>>
    BY <1>9 DEF Reminder!Refresh, Reminder!Resting
  <2>3. CASE UNCHANGED <<refresh, overlapped>>
    <3>1. shown' \in {Reminder!Nothing, stored}
      BY <1>9, <2>3 DEF Reminder!Refresh, Reminder!Call, Reminder!Resting
    <3> QED BY <1>0, <1>w, <2>1, <2>2, <2>3, <3>1 DEF ReminderInv, HalfWritten, Agreed, Reminder!At, Reminder!Removing
  <2>4. CASE refresh' = Reminder!Call("remove", Reminder!Nothing) /\ Reminder!Overlap(Reminder!Working) /\ UNCHANGED shown
    <3>1. ~overlapped' => ~overlapped /\ ~Reminder!Working
      BY <2>4 DEF Reminder!Overlap
    <3> QED BY <1>0, <1>w, <2>1, <2>2, <2>4, <3>1 DEF ReminderInv, HalfWritten, Agreed, Reminder!At, Reminder!Removing, Reminder!Call
  <2> QED BY <1>9, <2>3, <2>4 DEF Reminder!Refresh
<1>10. CASE Reminder!RefreshRemoves
  <2>1. ReminderType'
    BY <1>10 DEF Reminder!RefreshRemoves, ReminderInv, ReminderType, Reminder!At, Reminder!Resting, Reminder!Call, Buttons, Reminder!Removing
  <2> QED BY <1>0, <1>w, <1>10, <2>1 DEF Reminder!RefreshRemoves, ReminderInv, HalfWritten, Agreed, Reminder!At, Reminder!Resting, Reminder!Call, Buttons, Reminder!Removing, ReminderType
<1>11. CASE Reminder!RefreshErases
  <2>1. ReminderType'
    BY <1>11 DEF Reminder!RefreshErases, ReminderInv, ReminderType, Reminder!At, Reminder!Resting, Buttons, Reminder!Removing
  <2> QED BY <1>0, <1>w, <1>11, <2>1 DEF Reminder!RefreshErases, ReminderInv, HalfWritten, Agreed, Reminder!At, Reminder!Resting, Buttons, Reminder!Removing, ReminderType, Reminder!Nothing
<1>12. CASE Reminder!Tick \/ Reminder!Deliver
  <2>1. ReminderType'
    BY <1>12 DEF Reminder!Tick, Reminder!Deliver, ReminderInv, ReminderType, Reminder!At, Reminder!Resting, Buttons, Reminder!Removing
  <2> QED BY <1>0, <1>w, <1>12, <2>1, ReminderSettings DEF Reminder!Tick, Reminder!Deliver, ReminderInv, HalfWritten, Agreed, Reminder!At, Reminder!Resting, Buttons, Reminder!Removing, ReminderType, Reminder!Nothing, Reminder!Plans
<1>13. CASE Reminder!Terminate
  <2>1. ReminderType'
    BY <1>13 DEF Reminder!Terminate, ReminderInv, ReminderType, Reminder!At, Reminder!Resting, Buttons, Reminder!Removing
  <2> QED BY <1>0, <1>w, <1>13, <2>1 DEF Reminder!Terminate, ReminderInv, HalfWritten, Agreed, Reminder!At, Reminder!Resting, Buttons, Reminder!Removing, Reminder!Overlap, ReminderType
<1>14. CASE UNCHANGED Reminder!vars
  <2>1. ReminderType'
    BY <1>14 DEF Reminder!vars, ReminderInv, ReminderType, Reminder!At, Reminder!Resting, Buttons, Reminder!Removing
  <2> QED BY <1>0, <1>w, <1>14, <2>1 DEF Reminder!vars, ReminderInv, HalfWritten, Agreed, Reminder!At, Reminder!Resting, Buttons, Reminder!Removing, ReminderType
<1> QED BY <1>1, <1>2, <1>3, <1>4, <1>5, <1>6, <1>7, <1>8, <1>9, <1>10, <1>11, <1>12, <1>13, <1>14 DEF Reminder!Next

\* While nothing runs, and unless a removal ran beside a call or the app ended in the
\* middle of one, the reminder shown, stored and pending is one and the same.
THEOREM AgreementKept == SurfaceSpec => []RemindersAgree
<1> DEFINE Holds == part = "reminder" => ReminderInv
<1>1. SurfaceInit => Holds
    BY ReminderStart DEF SurfaceInit
<1>2. Holds /\ [SurfaceNext]_allvars => Holds'
  <2> SUFFICES ASSUME Holds, [SurfaceNext]_allvars, part' = "reminder" PROVE ReminderInv'
      OBVIOUS
  <2>1. part = "reminder" /\ [Reminder!Next]_Reminder!vars
    BY DEF SurfaceNext, allvars, reminderVars, Reminder!vars
  <2> QED BY <2>1, ReminderStep
<1>3. Holds => RemindersAgree
    BY ReminderEnd DEF RemindersAgree
<1> QED BY <1>1, <1>2, <1>3, PTL DEF SurfaceSpec

-----------------------------------------------------------------------------
(* The iOS client's loads. *)

Bodies == Contents \cup {App!Broken, App!None}
AppEntry == [body : Bodies, etag : Bodies]
AppResult == [pc : {"done"}, ok : BOOLEAN, content : Bodies, truth : Bodies, cancelled : BOOLEAN]
AppTask == [pc : {"read", "send", "reply", "match"}, cancelled : BOOLEAN, entry : AppEntry,
            content : Bodies, truth : Bodies, ok : BOOLEAN]
AppLoad == [pc : {"cache", "cached", "join", "wait", "owner", "answered"}, req : Requests,
            got : Bodies \cup AppResult, auto : BOOLEAN, owner : BOOLEAN, cancelled : BOOLEAN]

InFlight(t) == t.pc \in {"read", "send", "reply", "match"}
Waits(x) == x.pc \in {"wait", "owner"}

AppType ==
  /\ scene \in Scenarios
  /\ server \in [Requests -> Contents \cup {App!Broken}]
  /\ disk \in [Requests -> AppEntry]
  /\ task \in [Requests -> {App!NoTask} \cup AppTask \cup AppResult]
  /\ load \in [Loads -> {App!Idle} \cup AppLoad]

\* An answer is within the contract and, if its entry was never cut, what the server held.
ResultRight(t, r, cut) == t.ok => t.content # App!Broken /\ (r \notin cut => t.content = t.truth)

LoadRight(x, cut) ==
  /\ x.pc \in {"cache", "cached", "join"} => ~x.owner
  /\ x.pc = "cached" => x.got \in Contents \cup {App!None}
  /\ x.pc \in {"owner", "answered"} => x.got \in AppResult /\ ResultRight(x.got, x.req, cut)

TaskRight(t, r, cut) ==
  /\ t.pc \in {"read", "send", "reply"} /\ r \notin cut => t.entry.body = t.entry.etag
  /\ t.pc = "reply" => t.truth = IF t.content = App!None THEN t.entry.etag ELSE t.content
  /\ t.pc = "match" /\ r \notin cut => t.content = t.truth
  /\ t.pc = "done" => ResultRight(t, r, cut)

AllRight ==
  /\ \A l \in Loads : LoadRight(load[l], torn)
  /\ \A r \in Requests : TaskRight(task[r], r, torn)
  /\ \A r \in Requests \ torn : disk[r].body = disk[r].etag

\* The calls that await a task, and the one that will empty its place in the table.
Table ==
  /\ \A l \in Loads : load[l].pc = "wait" => InFlight(task[load[l].req])
  /\ \A l \in Loads : load[l].pc = "owner" => task[load[l].req].pc = "done"
  /\ \A l \in Loads : load[l].pc = "owner" => load[l].owner
  /\ \A l, m \in Loads : Waits(load[l]) /\ Waits(load[m]) /\ load[l].owner /\ load[m].owner
                           /\ load[l].req = load[m].req => l = m

\* The refreshing flag stands for a call that will clear it.
FlagHeld ==
  /\ \A r \in busy : \E l \in Loads : load[l] # App!Idle /\ load[l].req = r
  /\ App!screen = "windows" => busy \subseteq {asked}

AppInv == AppType /\ AllRight /\ Table /\ FlagHeld /\ App!ShownIsAsked

\* The app starts with empty files and no calls.
LEMMA AppStart == App!Init => AppInv
<1> SUFFICES ASSUME App!Init PROVE AppInv
    OBVIOUS
<1>1. AppType
    BY DEF App!Init, AppType, App!NoEntry, AppEntry, Bodies
<1>2. AllRight
    BY DEF App!Init, AllRight, App!NoEntry, App!NoTask, App!Idle, LoadRight, TaskRight
<1>3. Table /\ FlagHeld /\ App!ShownIsAsked
    BY DEF App!Init, Table, FlagHeld, App!ShownIsAsked, App!Idle, Waits
<1> QED BY <1>1, <1>2, <1>3 DEF AppInv

\* The invariant says what the three properties do.
LEMMA AppEnd == AppInv => App!ShownIsAsked /\ App!NoStuckFlag /\ App!ConfirmedIsServed
<1> SUFFICES ASSUME AppInv PROVE App!NoStuckFlag /\ App!ConfirmedIsServed
    BY DEF AppInv
<1>1. App!NoStuckFlag
    BY DEF AppInv, FlagHeld, App!NoStuckFlag
<1>2. App!ConfirmedIsServed
    BY DEF AppInv, AllRight, LoadRight, ResultRight, App!ConfirmedIsServed
<1> QED BY <1>1, <1>2

\* A call moves, without a task.
LEMMA LoadMoves ==
  ASSUME AppInv, NEW l \in Loads, NEW x \in {App!Idle} \cup AppLoad, LoadRight(x, torn), ~Waits(x),
         load' = [load EXCEPT ![l] = x], UNCHANGED <<task, torn>>
  PROVE  /\ load' \in [Loads -> {App!Idle} \cup AppLoad]
         /\ \A m \in Loads : LoadRight(load'[m], torn)
         /\ Table'
         /\ load'[l] = x /\ \A m \in Loads \ {l} : load'[m] = load[m]
<1>1. load' \in [Loads -> {App!Idle} \cup AppLoad] /\ load'[l] = x /\ \A m \in Loads \ {l} : load'[m] = load[m]
    BY DEF AppInv, AppType
<1>2. \A m \in Loads : LoadRight(load'[m], torn)
    BY <1>1 DEF AppInv, AllRight
<1>3. \A m \in Loads : Waits(load'[m]) => load'[m] = load[m]
    BY <1>1
<1>4. Table'
    BY <1>3 DEF AppInv, Table, Waits
<1> QED BY <1>1, <1>2, <1>4

\* A task ends: its waiters are handed what it answers.
LEMMA EndedStep ==
  ASSUME AppInv, NEW r \in Requests, InFlight(task[r]), NEW result \in AppResult,
         torn \subseteq torn', ResultRight(result, r, torn'), App!Ended(r, result)
  PROVE  /\ load' \in [Loads -> {App!Idle} \cup AppLoad]
         /\ task' \in [Requests -> {App!NoTask} \cup AppTask \cup AppResult]
         /\ \A l \in Loads : LoadRight(load'[l], torn')
         /\ \A q \in Requests : TaskRight(task'[q], q, torn')
         /\ Table'
         /\ \A l \in Loads : load[l] # App!Idle => load'[l] # App!Idle /\ load'[l].req = load[l].req
<1>0. App!Idle.pc = "idle"
    BY DEF App!Idle
<1>1. task' = [task EXCEPT ![r] = result] /\ task'[r] = result /\ \A q \in Requests \ {r} : task'[q] = task[q]
    BY DEF App!Ended, AppInv, AppType
<1>2. task' \in [Requests -> {App!NoTask} \cup AppTask \cup AppResult]
    BY <1>1 DEF AppInv, AppType
<1>3. \A q \in Requests : TaskRight(task[q], q, torn')
    BY DEF AppInv, AllRight, TaskRight, ResultRight
<1>4. TaskRight(result, r, torn') /\ result.pc = "done"
    BY DEF TaskRight, AppResult
<1> DEFINE awaits(l) == load[l].pc = "wait" /\ load[l].req = r
           handed(l) == [load[l] EXCEPT !.pc = IF load[l].owner THEN "owner" ELSE "answered", !.got = result]
<1>5. \A l \in Loads : load'[l] = IF awaits(l) THEN handed(l) ELSE load[l]
    BY DEF App!Ended
<1>6. DOMAIN load' = Loads /\ load' = [l \in Loads |-> IF awaits(l) THEN handed(l) ELSE load[l]]
    BY DEF App!Ended
<1>7. ASSUME NEW l \in Loads, awaits(l)
      PROVE  /\ handed(l) \in AppLoad /\ handed(l).req = r /\ handed(l).owner = load[l].owner
             /\ handed(l).pc = IF load[l].owner THEN "owner" ELSE "answered"
             /\ LoadRight(handed(l), torn') /\ handed(l) # App!Idle
  <2>1. load[l] \in AppLoad
    BY <1>0, <1>7 DEF AppInv, AppType
  <2>2. /\ handed(l) \in AppLoad /\ handed(l).req = r /\ handed(l).owner = load[l].owner /\ handed(l).got = result
        /\ handed(l).pc = IF load[l].owner THEN "owner" ELSE "answered"
    BY <1>7, <2>1 DEF AppLoad
  <2> HIDE DEF handed
  <2>3. LoadRight(handed(l), torn')
    BY <2>2 DEF LoadRight
  <2> QED BY <1>0, <2>2, <2>3
<1> HIDE DEF handed
<1>8. load' \in [Loads -> {App!Idle} \cup AppLoad]
    BY <1>6, <1>7 DEF AppInv, AppType
<1>9. \A l \in Loads : LoadRight(load[l], torn')
    BY DEF AppInv, AllRight, LoadRight, ResultRight
<1>10. \A l \in Loads : LoadRight(load'[l], torn')
    BY <1>5, <1>7, <1>9
<1>11. \A q \in Requests : TaskRight(task'[q], q, torn')
    BY <1>1, <1>3, <1>4
<1>12. \A l \in Loads : load[l] # App!Idle => load'[l] # App!Idle /\ load'[l].req = load[l].req
    BY <1>5, <1>7
<1>13. Table'
  <2>0. \A l \in Loads : load[l].pc \in {"wait", "owner"} => load[l].req \in Requests
    BY <1>0 DEF AppInv, AppType, AppLoad
  <2>1. ASSUME NEW l \in Loads, load'[l].pc = "wait" PROVE InFlight(task'[load'[l].req])
    <3>1. ~awaits(l) /\ load'[l] = load[l]
      BY <1>5, <1>7, <2>1
    <3> QED BY <1>1, <2>0, <2>1, <3>1 DEF AppInv, Table
  <2>2. ASSUME NEW l \in Loads, load'[l].pc = "owner" PROVE task'[load'[l].req].pc = "done"
    <3>1. CASE awaits(l)
      BY <1>1, <1>4, <1>5, <1>7, <3>1
    <3>2. CASE ~awaits(l)
      BY <1>1, <1>4, <1>5, <2>0, <2>2, <3>2 DEF AppInv, Table
    <3> QED BY <3>1, <3>2
  <2>3. ASSUME NEW l \in Loads, Waits(load'[l]), load'[l].owner
        PROVE  Waits(load[l]) /\ load[l].owner /\ load'[l].req = load[l].req
    BY <1>5, <1>7, <2>3 DEF Waits
  <2>4. \A l \in Loads : load'[l].pc = "owner" => load'[l].owner
    BY <1>5, <1>7 DEF AppInv, Table
  <2> QED BY <2>1, <2>2, <2>3, <2>4 DEF AppInv, Table
<1> QED BY <1>2, <1>8, <1>10, <1>11, <1>12, <1>13

\* A task moves on, still in flight.
LEMMA TaskMoves ==
  ASSUME AppInv, NEW r \in Requests, InFlight(task[r]), NEW t \in AppTask,
         TaskRight(t, r, torn), task' = [task EXCEPT ![r] = t], UNCHANGED <<load, torn>>
  PROVE  /\ task' \in [Requests -> {App!NoTask} \cup AppTask \cup AppResult]
         /\ \A q \in Requests : TaskRight(task'[q], q, torn)
         /\ Table'
<1>1. task'[r] = t /\ (\A q \in Requests \ {r} : task'[q] = task[q])
      /\ task' \in [Requests -> {App!NoTask} \cup AppTask \cup AppResult]
    BY DEF AppInv, AppType
<1>2. InFlight(t) /\ task[r].pc # "done"
    BY DEF AppTask, InFlight
<1>3. \A l \in Loads : load[l].pc \in {"wait", "owner"} => load[l].req \in Requests
    BY DEF AppInv, AppType, AppLoad, App!Idle
<1>4. Table'
    BY <1>1, <1>2, <1>3 DEF AppInv, Table, Waits
<1> QED BY <1>1, <1>4 DEF AppInv, AllRight

\* The flag is held while every call stays what it was for.
LEMMA FlagKept ==
  ASSUME AppInv, UNCHANGED <<busy, asked, scene>>,
         \A l \in Loads : load[l] # App!Idle => load'[l] # App!Idle /\ load'[l].req = load[l].req
  PROVE  FlagHeld'
BY DEF AppInv, FlagHeld, App!screen

\* The call that ends clears the flag, unless it stands for another request.
LEMMA FlagCleared ==
  ASSUME AppInv, NEW l \in Loads, load[l] # App!Idle, App!End(l), UNCHANGED <<asked, scene>>
  PROVE  FlagHeld'
<1>1. busy' = App!Released(l) /\ \A m \in Loads \ {l} : load'[m] = load[m]
    BY DEF App!End, AppInv, AppType
<1>2. busy' \subseteq busy /\ load[l].req \notin busy'
    BY <1>1 DEF App!Released, AppInv, FlagHeld
<1>3. ASSUME NEW r \in busy' PROVE \E m \in Loads : load'[m] # App!Idle /\ load'[m].req = r
    BY <1>1, <1>2 DEF AppInv, FlagHeld
<1> QED BY <1>2, <1>3 DEF AppInv, FlagHeld, App!screen

\* The display after an answer for a live request.
LEMMA PutKept ==
  ASSUME AppInv, NEW l \in Loads, App!Alive(l), NEW c, c # App!Broken, NEW b,
         shown' = App!Put(load[l].req, c, b), UNCHANGED <<asked, scene>>
  PROVE  App!ShownIsAsked'
<1>1. App!screen \in {"windows", "region", "resolution"}
    BY AppSettings DEF App!ScenarioAssumption, AppInv, AppType, App!screen
<1>2. App!screen = "windows" => asked = load[l].req
    BY DEF App!Alive
<1> QED BY <1>1, <1>2 DEF AppInv, App!ShownIsAsked, App!Put, App!screen

\* The display stays right while nothing is added to it.
LEMMA ShownKept ==
  ASSUME AppInv, shown' \subseteq shown, UNCHANGED <<asked, scene>>
  PROVE  App!ShownIsAsked'
BY DEF AppInv, App!ShownIsAsked, App!screen

\* A load begins: the screen asks for its request and the flag is set.
LEMMA BeginStep ==
  ASSUME AppInv, NEW l \in Loads, NEW r \in Requests, NEW auto \in BOOLEAN, App!Begin(l, r, auto),
         UNCHANGED <<scene, server, disk, task, torn>>
  PROVE  AppInv'
<1> DEFINE x == App!Started(r, IF App!Has(r) THEN "join" ELSE "cache", auto)
<1>1. x \in AppLoad /\ LoadRight(x, torn) /\ ~Waits(x) /\ x # App!Idle /\ x.req = r
    BY DEF App!Started, AppLoad, Bodies, LoadRight, Waits, App!Idle
<1>2. load[l] = App!Idle /\ load' = [load EXCEPT ![l] = x] /\ App!screen \in {"windows", "region", "resolution"}
    BY AppSettings DEF App!Begin, App!BeginWindows, App!BeginRegion, App!BeginResolution, App!ScenarioAssumption, AppInv, AppType, App!screen
<1> HIDE DEF x
<1>3. /\ load' \in [Loads -> {App!Idle} \cup AppLoad] /\ \A m \in Loads : LoadRight(load'[m], torn)
      /\ Table' /\ load'[l] = x /\ \A m \in Loads \ {l} : load'[m] = load[m]
    BY <1>1, <1>2, LoadMoves
<1>4. AppType' /\ AllRight'
    BY <1>3 DEF AppInv, AppType, AllRight
<1>5. CASE App!screen = "windows"
  <2>1. asked' = r /\ busy' = {r} /\ shown' = (IF App!Has(r) THEN shown ELSE {})
    BY <1>5 DEF App!Begin, App!BeginWindows
  <2>2. FlagHeld'
    BY <1>1, <1>3, <2>1 DEF FlagHeld
  <2>3. App!ShownIsAsked'
    BY <1>5, <2>1 DEF AppInv, App!ShownIsAsked, App!Has, App!screen
  <2> QED BY <1>3, <1>4, <2>2, <2>3 DEF AppInv
<1>6. CASE App!screen = "region"
  <2>1. asked' = r /\ UNCHANGED <<shown, busy>>
    BY <1>6 DEF App!Begin, App!BeginRegion
  <2>2. FlagHeld'
    BY <1>2, <1>3, <1>6, <2>1 DEF AppInv, FlagHeld, App!screen
  <2>3. App!ShownIsAsked'
    BY <1>6, <2>1 DEF AppInv, App!ShownIsAsked, App!screen
  <2> QED BY <1>3, <1>4, <2>2, <2>3 DEF AppInv
<1>7. CASE App!screen = "resolution"
  <2>1. asked' = r /\ busy' = busy \cup {r} /\ shown' = (IF App!Has(r) THEN shown ELSE App!Cleared(r))
    BY <1>7 DEF App!Begin, App!BeginResolution
  <2>2. FlagHeld'
    BY <1>1, <1>2, <1>3, <1>7, <2>1 DEF AppInv, FlagHeld, App!screen
  <2>3. App!ShownIsAsked'
    BY <1>7, <2>1 DEF AppInv, App!ShownIsAsked, App!Cleared, App!screen
  <2> QED BY <1>3, <1>4, <2>2, <2>3 DEF AppInv
<1> QED BY <1>2, <1>5, <1>6, <1>7

\* The steps of a call.
LEMMA CallStep ==
  ASSUME AppInv, NEW l \in Loads, App!Call(l)
  PROVE  AppInv'
<1>0. /\ UNCHANGED <<scene, server, asked, torn>> /\ load[l] \in AppLoad /\ LoadRight(load[l], torn)
      /\ load[l] # App!Idle /\ load[l].req \in Requests
  <2>0. UNCHANGED <<scene, server, asked, torn>>
    BY DEF App!Call, App!ReadCached, App!UseCached, App!Join, App!Leave, App!Finish
  <2>1. load[l] # App!Idle
    <3>1. load[l].pc \in {"cache", "cached", "join", "owner", "answered"}
      BY DEF App!Call, App!ReadCached, App!UseCached, App!Join, App!Leave, App!Finish
    <3>2. App!Idle.pc = "idle"
      BY DEF App!Idle
    <3> QED BY <3>1, <3>2
  <2>2. load[l] \in AppLoad
    BY <2>1 DEF AppInv, AppType
  <2>3. load[l].req \in Requests
    BY <2>2 DEF AppLoad
  <2> QED BY <2>0, <2>1, <2>2, <2>3 DEF AppInv, AllRight
<1> DEFINE r == load[l].req
<1>1. CASE App!ReadCached(l)
  <2> DEFINE e == App!Entry(r)
             c == IF e # App!NoEntry /\ e.body # App!Broken THEN e.body ELSE App!None
             x == [load[l] EXCEPT !.pc = "cached", !.got = c]
  <2>1. load' = [load EXCEPT ![l] = x] /\ UNCHANGED <<task, shown, busy>>
    BY <1>0, <1>1 DEF App!ReadCached
  <2>2. disk' = disk \/ disk' = App!Removed(r)
    BY <1>1 DEF App!ReadCached
  <2>3. disk' \in [Requests -> AppEntry] /\ \A q \in Requests \ torn : disk'[q].body = disk'[q].etag
    BY <1>0, <2>2 DEF App!Removed, App!NoEntry, AppEntry, Bodies, AppInv, AppType, AllRight
  <2>4. c \in Contents \cup {App!None}
    BY <1>0 DEF App!Entry, App!NoEntry, AppEntry, Bodies, AppInv, AppType
  <2> HIDE DEF c
  <2>5. x \in AppLoad /\ x.pc = "cached" /\ x.got = c /\ x.req = r /\ x.owner = load[l].owner
    BY <1>0, <2>4 DEF AppLoad, Bodies
  <2>6. LoadRight(x, torn) /\ ~Waits(x) /\ x # App!Idle
    BY <1>0, <1>1, <2>4, <2>5 DEF LoadRight, Waits, App!Idle, App!ReadCached
  <2> HIDE DEF x
  <2>7. /\ load' \in [Loads -> {App!Idle} \cup AppLoad] /\ \A m \in Loads : LoadRight(load'[m], torn)
        /\ Table' /\ load'[l] = x /\ \A m \in Loads \ {l} : load'[m] = load[m]
    BY <1>0, <2>1, <2>5, <2>6, LoadMoves
  <2>8. FlagHeld'
    BY <1>0, <2>1, <2>5, <2>6, <2>7, FlagKept
  <2> QED BY <1>0, <2>1, <2>3, <2>7, <2>8, ShownKept DEF AppInv, AppType, AllRight
<1>2. CASE App!UseCached(l)
  <2>1. UNCHANGED <<task, disk>> /\ load[l].pc = "cached"
    BY <1>2 DEF App!UseCached
  <2>2. CASE ~App!Alive(l)
    <3>1. App!End(l) /\ UNCHANGED shown
      BY <1>2, <2>2 DEF App!UseCached
    <3>2. LoadRight(App!Idle, torn) /\ ~Waits(App!Idle)
      BY DEF LoadRight, Waits, App!Idle
    <3>3. load' = [load EXCEPT ![l] = App!Idle]
      BY <3>1 DEF App!End
    <3>4. load' \in [Loads -> {App!Idle} \cup AppLoad] /\ (\A m \in Loads : LoadRight(load'[m], torn)) /\ Table'
      BY <1>0, <2>1, <3>2, <3>3, LoadMoves
    <3>5. FlagHeld'
      BY <1>0, <3>1, FlagCleared
    <3> QED BY <1>0, <2>1, <3>1, <3>4, <3>5, ShownKept DEF AppInv, AppType, AllRight
  <2>3. CASE App!Alive(l)
    <3> DEFINE x == [load[l] EXCEPT !.pc = "join", !.got = App!None]
    <3>1. /\ load' = [load EXCEPT ![l] = x] /\ UNCHANGED busy
          /\ shown' = (IF load[l].got # App!None THEN App!Put(r, load[l].got, TRUE)
                           ELSE IF App!screen = "region" THEN {} ELSE shown)
      BY <1>0, <1>2, <2>3 DEF App!UseCached
    <3>2. x \in AppLoad /\ x.pc = "join" /\ x.owner = load[l].owner /\ x.req = r
      BY <1>0 DEF AppLoad, Bodies
    <3>3. LoadRight(x, torn) /\ ~Waits(x) /\ x # App!Idle
      BY <1>0, <2>1, <3>2 DEF LoadRight, Waits, App!Idle
    <3> HIDE DEF x
    <3>4. /\ load' \in [Loads -> {App!Idle} \cup AppLoad] /\ \A m \in Loads : LoadRight(load'[m], torn)
          /\ Table' /\ load'[l] = x /\ \A m \in Loads \ {l} : load'[m] = load[m]
      BY <1>0, <2>1, <3>1, <3>2, <3>3, LoadMoves
    <3>5. FlagHeld'
      BY <1>0, <3>1, <3>2, <3>3, <3>4, FlagKept
    <3>6. App!ShownIsAsked'
      <4>1. load[l].got # App!None => load[l].got # App!Broken
        BY <1>0, <2>1, AppSettings DEF LoadRight, App!ScenarioAssumption
      <4>2. CASE load[l].got # App!None
        BY <1>0, <2>3, <3>1, <4>1, <4>2, PutKept
      <4>3. CASE load[l].got = App!None
        BY <1>0, <3>1, <4>3, ShownKept
      <4> QED BY <4>2, <4>3
    <3> QED BY <1>0, <2>1, <3>4, <3>5, <3>6 DEF AppInv, AppType, AllRight
  <2> QED BY <2>2, <2>3
<1>3. CASE App!Finish(l)
  <2>1. App!End(l) /\ UNCHANGED <<task, disk>> /\ load[l].pc = "answered"
    BY <1>3 DEF App!Finish
  <2>2. load' = [load EXCEPT ![l] = App!Idle] /\ LoadRight(App!Idle, torn) /\ ~Waits(App!Idle)
    BY <2>1 DEF App!End, LoadRight, Waits, App!Idle
  <2>3. load' \in [Loads -> {App!Idle} \cup AppLoad] /\ (\A m \in Loads : LoadRight(load'[m], torn)) /\ Table'
    BY <1>0, <2>1, <2>2, LoadMoves
  <2>4. FlagHeld'
    BY <1>0, <2>1, FlagCleared
  <2>5. App!ShownIsAsked'
    <3>1. CASE load[l].got.ok /\ App!Alive(l)
      <4>1. shown' = App!Put(r, load[l].got.content, FALSE) /\ load[l].got.content # App!Broken
        BY <1>0, <1>3, <2>1, <3>1 DEF App!Finish, LoadRight, ResultRight
      <4> QED BY <1>0, <3>1, <4>1, PutKept
    <3>2. CASE ~(load[l].got.ok /\ App!Alive(l))
      BY <1>0, <1>3, <3>2, ShownKept DEF App!Finish
    <3> QED BY <3>1, <3>2
  <2> QED BY <1>0, <2>1, <2>3, <2>4, <2>5 DEF AppInv, AppType, AllRight
<1>4. CASE App!Leave(l)
  <2> DEFINE x == [load[l] EXCEPT !.pc = "answered"]
  <2>1. /\ load[l].pc = "owner" /\ load' = [load EXCEPT ![l] = x] /\ task' = [task EXCEPT ![r] = App!NoTask]
        /\ UNCHANGED <<disk, shown, busy>>
    BY <1>0, <1>4 DEF App!Leave
  <2>2. x \in AppLoad /\ x.pc = "answered" /\ x.req = r /\ x.got = load[l].got
    BY <1>0 DEF AppLoad
  <2>3. LoadRight(x, torn) /\ ~Waits(x) /\ x # App!Idle
    BY <1>0, <2>1, <2>2 DEF LoadRight, Waits, App!Idle
  <2> HIDE DEF x
  <2>4. /\ load' \in [Loads -> {App!Idle} \cup AppLoad] /\ load'[l] = x /\ \A m \in Loads \ {l} : load'[m] = load[m]
    BY <2>1, <2>2 DEF AppInv, AppType
  <2>5. task' \in [Requests -> {App!NoTask} \cup AppTask \cup AppResult] /\ task'[r] = App!NoTask
        /\ \A q \in Requests \ {r} : task'[q] = task[q]
    BY <1>0, <2>1 DEF AppInv, AppType
  <2>6. \A q \in Requests : TaskRight(task'[q], q, torn)
    BY <2>5 DEF AppInv, AllRight, TaskRight, App!NoTask
  <2>7. \A m \in Loads : LoadRight(load'[m], torn)
    BY <2>3, <2>4 DEF AppInv, AllRight
  <2>8. Table'
    <3>1. \A m \in Loads : Waits(load'[m]) => m # l /\ load'[m] = load[m] /\ load[m].req \in Requests
      BY <2>3, <2>4 DEF AppInv, AppType, AppLoad, Waits, App!Idle
    <3>2. task[r].pc = "done" /\ load[l].owner
      <4>1. task[r].pc = "done"
        BY <1>0, <2>1 DEF AppInv, Table
      <4>2. load[l].owner
        BY <1>0, <2>1 DEF AppInv, Table
      <4> QED BY <4>1, <4>2
    <3>3. \A m \in Loads : Waits(load'[m]) => load[m].req # r
      BY <1>0, <2>1, <3>1, <3>2 DEF AppInv, Table, Waits, InFlight
    <3> QED BY <2>5, <3>1, <3>3 DEF AppInv, Table, Waits
  <2>9. FlagHeld'
    BY <1>0, <2>1, <2>2, <2>3, <2>4, FlagKept
  <2> QED BY <1>0, <2>1, <2>4, <2>5, <2>6, <2>7, <2>8, <2>9, ShownKept DEF AppInv, AppType, AllRight
<1>5. CASE App!Join(l)
  <2>0. load[l].pc = "join" /\ ~load[l].owner /\ UNCHANGED <<disk, shown, busy>>
    BY <1>0, <1>5 DEF App!Join, LoadRight
  <2>1. CASE task[r].pc = "done"
    <3> DEFINE x == [load[l] EXCEPT !.pc = "answered", !.got = task[r]]
    <3>1. load' = [load EXCEPT ![l] = x] /\ UNCHANGED task
      BY <1>0, <1>5, <2>1 DEF App!Join
    <3>2. task[r] \in AppResult /\ ResultRight(task[r], r, torn)
      BY <1>0, <2>1 DEF AppInv, AppType, AllRight, AppTask, App!NoTask, TaskRight
    <3>3. x \in AppLoad /\ x.pc = "answered" /\ x.req = r /\ x.got = task[r]
      BY <1>0, <3>2 DEF AppLoad
    <3>4. LoadRight(x, torn) /\ ~Waits(x) /\ x # App!Idle
      BY <3>2, <3>3 DEF LoadRight, Waits, App!Idle
    <3> HIDE DEF x
    <3>5. /\ load' \in [Loads -> {App!Idle} \cup AppLoad] /\ \A m \in Loads : LoadRight(load'[m], torn)
          /\ Table' /\ load'[l] = x /\ \A m \in Loads \ {l} : load'[m] = load[m]
      BY <1>0, <3>1, <3>3, <3>4, LoadMoves
    <3>6. FlagHeld'
      BY <1>0, <2>0, <3>3, <3>4, <3>5, FlagKept
    <3> QED BY <1>0, <2>0, <3>1, <3>5, <3>6, ShownKept DEF AppInv, AppType, AllRight
  <2>2. CASE task[r].pc # "done"
    <3> DEFINE new == task[r].pc = "none"
               x == [load[l] EXCEPT !.pc = "wait", !.owner = new]
               t == [pc |-> "read", cancelled |-> load[l].cancelled, entry |-> App!NoEntry,
                      content |-> App!None, truth |-> App!None, ok |-> FALSE]
    <3>1. load' = [load EXCEPT ![l] = x] /\ task' = IF new THEN [task EXCEPT ![r] = t] ELSE task
      <4>1. CASE new
        BY <1>0, <1>5, <2>2, <4>1 DEF App!Join
      <4>2. CASE ~new
        <5>1. load' = [load EXCEPT ![l].pc = "wait"] /\ UNCHANGED task
          BY <1>5, <2>2, <4>2 DEF App!Join
        <5>2. [load[l] EXCEPT !.pc = "wait"] = x
          BY <1>0, <2>0, <4>2 DEF AppLoad
        <5> QED BY <4>2, <5>1, <5>2
      <4> QED BY <4>1, <4>2
    <3>2. x \in AppLoad /\ x.pc = "wait" /\ x.req = r /\ x.owner = new
      BY <1>0 DEF AppLoad
    <3>3. LoadRight(x, torn) /\ x # App!Idle
      BY <3>2 DEF LoadRight, App!Idle
    <3>4. t \in AppTask /\ TaskRight(t, r, torn) /\ InFlight(t)
      BY <1>0 DEF AppTask, AppEntry, App!NoEntry, Bodies, TaskRight, AppLoad, InFlight
    <3> HIDE DEF x, t
    <3>5. /\ load' \in [Loads -> {App!Idle} \cup AppLoad] /\ load'[l] = x /\ \A m \in Loads \ {l} : load'[m] = load[m]
      BY <3>1, <3>2 DEF AppInv, AppType
    <3>6. /\ task' \in [Requests -> {App!NoTask} \cup AppTask \cup AppResult]
          /\ task'[r] = IF new THEN t ELSE task[r]
          /\ \A q \in Requests \ {r} : task'[q] = task[q]
      BY <1>0, <3>1, <3>4 DEF AppInv, AppType
    <3>7. \A q \in Requests : TaskRight(task'[q], q, torn)
      BY <3>4, <3>6 DEF AppInv, AllRight
    <3>8. \A m \in Loads : LoadRight(load'[m], torn)
      BY <3>3, <3>5 DEF AppInv, AllRight
    <3>9. InFlight(task'[r])
      <4>1. ~new => task[r].pc \in {"read", "send", "reply", "match"}
        BY <1>0, <2>2 DEF AppInv, AppType, AppTask, AppResult, App!NoTask
      <4> QED BY <3>4, <3>6, <4>1 DEF InFlight
    <3>10. \A m \in Loads \ {l} : Waits(load[m]) /\ load[m].req = r => ~new /\ load[m].pc = "wait"
      BY <1>0, <2>2 DEF AppInv, Table, Waits, InFlight
    <3>11. Table'
      <4>1. \A m \in Loads : load[m].pc \in {"wait", "owner"} => load[m].req \in Requests
        BY DEF AppInv, AppType, AppLoad, App!Idle
      <4>2. ASSUME NEW m \in Loads, load'[m].pc = "wait" PROVE InFlight(task'[load'[m].req])
        BY <3>2, <3>5, <3>6, <3>9, <3>10, <4>1, <4>2 DEF AppInv, Table, Waits
      <4>3. ASSUME NEW m \in Loads, load'[m].pc = "owner" PROVE task'[load'[m].req].pc = "done"
        BY <3>2, <3>5, <3>6, <3>10, <4>1, <4>3 DEF AppInv, Table, Waits
      <4>4. \A m, n \in Loads : Waits(load'[m]) /\ Waits(load'[n]) /\ load'[m].owner /\ load'[n].owner
                           /\ load'[m].req = load'[n].req => m = n
        <5>1. \A m \in Loads \ {l} : Waits(load'[m]) /\ load'[m].owner /\ load'[m].req = r => ~new
          BY <3>5, <3>10
        <5> SUFFICES ASSUME NEW m \in Loads, NEW n \in Loads, m # n,
                            Waits(load'[m]), Waits(load'[n]), load'[m].owner, load'[n].owner,
                            load'[m].req = load'[n].req
                     PROVE  FALSE
          OBVIOUS
        <5>2. CASE m = l
          BY <3>2, <3>5, <5>1, <5>2
        <5>3. CASE n = l
          BY <3>2, <3>5, <5>1, <5>3
        <5>4. CASE m # l /\ n # l
          BY <3>5, <5>4 DEF AppInv, Table
        <5> QED BY <5>2, <5>3, <5>4
      <4>5. \A m \in Loads : load'[m].pc = "owner" => load'[m].owner
        BY <3>2, <3>5 DEF AppInv, Table
      <4> QED BY <4>2, <4>3, <4>4, <4>5 DEF Table
    <3>12. FlagHeld'
      BY <1>0, <2>0, <3>2, <3>3, <3>5, FlagKept
    <3> QED BY <1>0, <2>0, <3>5, <3>6, <3>7, <3>8, <3>11, <3>12, ShownKept DEF AppInv, AppType, AllRight
  <2> QED BY <2>1, <2>2
<1> QED BY <1>1, <1>2, <1>3, <1>4, <1>5 DEF App!Call

\* The steps of a task.
LEMMA TaskStep ==
  ASSUME AppInv, NEW r \in Requests, App!Task(r)
  PROVE  AppInv'
<1>0. UNCHANGED <<scene, server, asked, shown, busy>> /\ InFlight(task[r]) /\ torn \subseteq torn'
    BY DEF App!Task, App!TaskRead, App!TaskSend, App!TaskTransportFails, App!TaskCancelled, App!TaskNotModified, App!TaskUndecodable,
           App!TaskStore, App!TaskStoreCut, App!TaskMatch, App!Unchanged, InFlight
<1>1. task[r] \in AppTask /\ TaskRight(task[r], r, torn)
    BY <1>0 DEF AppInv, AppType, AllRight, AppResult, App!NoTask, InFlight
<1>s. server[r] \in Contents \cup {App!Broken} /\ server[r] # App!None /\ disk[r] \in AppEntry
    BY AppSettings DEF AppInv, AppType, App!ScenarioAssumption, App!None, App!Broken
\* The task ends, with the disk as it was, or with this entry erased or cut.
<1>2. ASSUME NEW result \in AppResult, ResultRight(result, r, torn'), App!Ended(r, result),
             disk' \in [Requests -> AppEntry], \A q \in Requests \ torn' : disk'[q].body = disk'[q].etag
      PROVE  AppInv'
  <2>1. /\ load' \in [Loads -> {App!Idle} \cup AppLoad]
        /\ task' \in [Requests -> {App!NoTask} \cup AppTask \cup AppResult]
        /\ \A l \in Loads : LoadRight(load'[l], torn')
        /\ \A q \in Requests : TaskRight(task'[q], q, torn')
        /\ Table'
        /\ \A l \in Loads : load[l] # App!Idle => load'[l] # App!Idle /\ load'[l].req = load[l].req
    BY <1>0, <1>2, EndedStep
  <2>2. FlagHeld'
    BY <1>0, <2>1, FlagKept
  <2> QED BY <1>0, <1>2, <2>1, <2>2, ShownKept DEF AppInv, AppType, AllRight
<1>3. \A q \in Requests \ torn' : disk[q].body = disk[q].etag
    BY <1>0 DEF AppInv, AllRight
<1>4. \A ok \in BOOLEAN, c, u \in Bodies, x \in BOOLEAN :
         /\ App!Result(ok, c, u, x) \in AppResult
         /\ App!Result(ok, c, u, x).ok = ok /\ App!Result(ok, c, u, x).content = c /\ App!Result(ok, c, u, x).truth = u
    BY DEF App!Result, AppResult
<1>5. App!None \in Bodies
    BY DEF Bodies
<1>6. ASSUME App!Fails(r) \/ App!IsCancelled(r), disk' \in [Requests -> AppEntry],
             \A q \in Requests \ torn' : disk'[q].body = disk'[q].etag
      PROVE  AppInv'
  <2>1. PICK x \in BOOLEAN : App!Ended(r, App!Result(FALSE, App!None, App!None, x))
    BY <1>6 DEF App!Fails, App!IsCancelled
  <2>2. App!Result(FALSE, App!None, App!None, x) \in AppResult /\ ResultRight(App!Result(FALSE, App!None, App!None, x), r, torn')
    BY <1>4, <1>5 DEF ResultRight
  <2> QED BY <1>2, <1>6, <2>1, <2>2
\* The task moves on.
<1>7. ASSUME NEW t \in AppTask, TaskRight(t, r, torn), task' = [task EXCEPT ![r] = t], UNCHANGED <<load, torn>>,
             disk' \in [Requests -> AppEntry], \A q \in Requests \ torn : disk'[q].body = disk'[q].etag
      PROVE  AppInv'
  <2>1. /\ task' \in [Requests -> {App!NoTask} \cup AppTask \cup AppResult]
        /\ \A q \in Requests : TaskRight(task'[q], q, torn)
        /\ Table'
    BY <1>0, <1>7, TaskMoves
  <2>2. FlagHeld'
    BY <1>0, <1>7, FlagKept
  <2> QED BY <1>0, <1>7, <2>1, <2>2, ShownKept DEF AppInv, AppType, AllRight
<1>8. disk \in [Requests -> AppEntry] /\ task \in [Requests -> {App!NoTask} \cup AppTask \cup AppResult]
    BY DEF AppInv, AppType
<1>9. CASE App!TaskRead(r)
  <2> DEFINE t == [task[r] EXCEPT !.pc = "send", !.entry = App!Entry(r)]
  <2>1. task' = [task EXCEPT ![r] = t] /\ UNCHANGED <<load, disk, torn>>
    BY <1>8, <1>9 DEF App!TaskRead
  <2>2. App!Entry(r) \in AppEntry /\ (r \notin torn => App!Entry(r).body = App!Entry(r).etag)
    BY <1>s DEF App!Entry, App!NoEntry, AppEntry, Bodies, AppInv, AllRight
  <2>3. t \in AppTask /\ t.pc = "send" /\ t.entry = App!Entry(r)
    BY <1>1, <2>2 DEF AppTask
  <2>4. TaskRight(t, r, torn)
    BY <2>2, <2>3 DEF TaskRight
  <2> HIDE DEF t
  <2> QED BY <1>3, <1>7, <1>8, <2>1, <2>3, <2>4
<1>10. CASE App!TaskSend(r)
  <2> DEFINE e == task[r].entry
             body == IF App!NotModified(e, server[r]) THEN App!None ELSE server[r]
             t == [task[r] EXCEPT !.pc = "reply", !.content = body, !.truth = server[r]]
  <2>1. task' = [task EXCEPT ![r] = t] /\ UNCHANGED <<load, disk, torn>> /\ task[r].pc = "send"
    BY <1>8, <1>10 DEF App!TaskSend
  <2>2. body \in Bodies /\ server[r] \in Bodies
    BY <1>s DEF Bodies
  <2>3. server[r] = IF body = App!None THEN e.etag ELSE body
    BY <1>s DEF App!NotModified
  <2> HIDE DEF body
  <2>4. t \in AppTask /\ t.pc = "reply" /\ t.entry = e /\ t.content = body /\ t.truth = server[r]
    BY <1>1, <2>2 DEF AppTask
  <2>5. TaskRight(t, r, torn)
    BY <1>1, <2>1, <2>3, <2>4 DEF TaskRight
  <2> HIDE DEF t
  <2> QED BY <1>3, <1>7, <1>8, <2>1, <2>4, <2>5
<1>11. CASE App!TaskTransportFails(r) \/ App!TaskCancelled(r) \/ App!TaskUndecodable(r)
  BY <1>3, <1>6, <1>8, <1>11 DEF App!TaskTransportFails, App!TaskCancelled, App!TaskUndecodable
<1>12. CASE App!TaskNotModified(r)
  <2> DEFINE t == [task[r] EXCEPT !.pc = "match", !.content = task[r].entry.body]
  <2>1. task' = [task EXCEPT ![r] = t] /\ UNCHANGED <<load, disk, torn>> /\ task[r].pc = "reply" /\ task[r].content = App!None
    BY <1>8, <1>12 DEF App!TaskNotModified
  <2>2. t \in AppTask /\ t.pc = "match" /\ t.content = task[r].entry.body /\ t.truth = task[r].truth
    BY <1>1 DEF AppTask, AppEntry
  <2>3. TaskRight(t, r, torn)
    BY <1>1, <2>1, <2>2 DEF TaskRight
  <2> HIDE DEF t
  <2> QED BY <1>3, <1>7, <1>8, <2>1, <2>2, <2>3
<1>13. CASE App!TaskStore(r)
  <2> DEFINE t == [task[r] EXCEPT !.pc = "match"]
  <2>1. /\ task' = [task EXCEPT ![r] = t] /\ UNCHANGED <<load, torn>> /\ task[r].pc = "reply" /\ task[r].content # App!None
        /\ disk' = App!Stored(r, task[r].content)
    BY <1>8, <1>13 DEF App!TaskStore
  <2>2. t \in AppTask /\ t.pc = "match" /\ t.content = task[r].content /\ t.truth = task[r].truth
    BY <1>1 DEF AppTask
  <2>3. TaskRight(t, r, torn)
    BY <1>1, <2>1, <2>2 DEF TaskRight
  <2> HIDE DEF t
  <2>4. task[r].content \in Bodies
    BY <1>1 DEF AppTask
  <2>5. disk' \in [Requests -> AppEntry] /\ \A q \in Requests \ torn : disk'[q].body = disk'[q].etag
    BY <1>3, <1>8, <2>1, <2>4 DEF App!Stored, AppEntry
  <2> QED BY <1>7, <2>1, <2>2, <2>3, <2>5
<1>14. CASE App!TaskStoreCut(r)
  <2>1. disk' = App!CutStored(r, task[r].content) /\ torn' = torn \cup {r} /\ App!Fails(r)
    BY <1>14 DEF App!TaskStoreCut
  <2>2. task[r].content \in Bodies
    BY <1>1 DEF AppTask
  <2>3. disk' \in [Requests -> AppEntry]
    BY <1>8, <1>s, <2>1, <2>2 DEF App!CutStored, AppEntry
  <2>4. \A q \in Requests \ torn' : disk'[q].body = disk'[q].etag
    BY <1>3, <1>8, <2>1 DEF App!CutStored
  <2> QED BY <1>6, <2>1, <2>3, <2>4
<1>15. CASE App!TaskMatch(r)
  <2>1. task[r].pc = "match" /\ UNCHANGED torn
    BY <1>15 DEF App!TaskMatch
  <2>2. CASE task[r].content = App!Broken
    <3>1. disk' = App!Removed(r) /\ App!Fails(r)
      BY <1>15, <2>2 DEF App!TaskMatch
    <3>2. disk' \in [Requests -> AppEntry] /\ \A q \in Requests \ torn' : disk'[q].body = disk'[q].etag
      BY <1>3, <1>8, <3>1 DEF App!Removed, App!NoEntry, AppEntry, Bodies
    <3> QED BY <1>6, <3>1, <3>2
  <2>3. CASE task[r].content # App!Broken
    <3> DEFINE result == App!Result(TRUE, task[r].content, task[r].truth, FALSE)
    <3>1. App!Ended(r, result) /\ UNCHANGED disk
      BY <1>15, <2>3 DEF App!TaskMatch, App!Answers
    <3>2. result \in AppResult /\ result.content = task[r].content /\ result.truth = task[r].truth
      <4>1. task[r].content \in Bodies /\ task[r].truth \in Bodies
        BY <1>1 DEF AppTask
      <4> QED BY <4>1 DEF App!Result, AppResult
    <3> HIDE DEF result
    <3>3. ResultRight(result, r, torn')
      BY <1>1, <2>1, <2>3, <3>2 DEF ResultRight, TaskRight
    <3> QED BY <1>2, <1>3, <1>8, <3>1, <3>2, <3>3
  <2> QED BY <2>2, <2>3
<1> QED BY <1>9, <1>10, <1>11, <1>12, <1>13, <1>14, <1>15 DEF App!Task

\* The calls of a view that leaves are cancelled, and the tasks they started.
LEMMA CancelStep ==
  ASSUME AppInv, App!CancelAuto, UNCHANGED <<scene, server, disk, shown, busy, torn>>,
         asked' = asked \/ App!screen = "region"
  PROVE  AppInv'
<1> DEFINE stopped == {l \in Loads : load[l] # App!Idle /\ load[l].auto}
           stops(r) == \E l \in stopped : load[l].req = r /\ load[l].owner /\ load[l].pc = "wait"
<1>1. /\ load' = [l \in Loads |-> IF l \in stopped THEN [load[l] EXCEPT !.cancelled = TRUE] ELSE load[l]]
      /\ task' = [r \in Requests |-> IF stops(r) THEN [task[r] EXCEPT !.cancelled = TRUE] ELSE task[r]]
    BY DEF App!CancelAuto
<1>2. ASSUME NEW l \in Loads
      PROVE  /\ load'[l] \in {App!Idle} \cup AppLoad /\ LoadRight(load'[l], torn)
             /\ load'[l].pc = load[l].pc /\ (load[l] # App!Idle => load'[l] # App!Idle)
             /\ (load[l] # App!Idle => load'[l].req = load[l].req /\ load'[l].owner = load[l].owner)
  <2>0. load[l] \in {App!Idle} \cup AppLoad /\ LoadRight(load[l], torn) /\ App!Idle.pc = "idle"
    BY DEF AppInv, AppType, AllRight, App!Idle
  <2>1. CASE l \in stopped
    <3> DEFINE x == [load[l] EXCEPT !.cancelled = TRUE]
    <3>1. load[l] \in AppLoad /\ load'[l] = x
      BY <1>1, <2>0, <2>1
    <3>2. /\ x \in AppLoad /\ x.pc = load[l].pc /\ x.req = load[l].req /\ x.owner = load[l].owner
          /\ x.got = load[l].got /\ x.pc # "idle"
      BY <3>1 DEF AppLoad
    <3> HIDE DEF x
    <3> QED BY <2>0, <3>1, <3>2 DEF LoadRight
  <2>2. CASE l \notin stopped
    <3>1. load'[l] = load[l]
      BY <1>1, <2>2
    <3> QED BY <2>0, <3>1
  <2> QED BY <2>1, <2>2
<1>3. ASSUME NEW r \in Requests
      PROVE  /\ task'[r] \in {App!NoTask} \cup AppTask \cup AppResult /\ TaskRight(task'[r], r, torn)
             /\ task'[r].pc = task[r].pc
  <2>0. task[r] \in {App!NoTask} \cup AppTask \cup AppResult /\ TaskRight(task[r], r, torn)
    BY DEF AppInv, AppType, AllRight
  <2>1. CASE stops(r)
    <3> DEFINE t == [task[r] EXCEPT !.cancelled = TRUE]
    <3>1. InFlight(task[r]) /\ task'[r] = t
      BY <1>1, <2>1 DEF AppInv, Table
    <3>2. task[r] \in AppTask
      BY <2>0, <3>1 DEF InFlight, App!NoTask, AppResult
    <3>3. /\ t \in AppTask /\ t.pc = task[r].pc /\ t.entry = task[r].entry /\ t.content = task[r].content
          /\ t.truth = task[r].truth /\ t.ok = task[r].ok
      BY <3>2 DEF AppTask
    <3> HIDE DEF t
    <3> QED BY <2>0, <3>1, <3>3 DEF TaskRight, ResultRight
  <2>2. CASE ~stops(r)
    <3>1. task'[r] = task[r]
      BY <1>1, <2>2
    <3> QED BY <2>0, <3>1
  <2> QED BY <2>1, <2>2
<1>4. AppType' /\ AllRight'
    BY <1>1, <1>2, <1>3 DEF AppInv, AppType, AllRight
<1>5. Table'
  <2>1. \A l \in Loads : Waits(load[l]) => load[l] # App!Idle /\ load[l].req \in Requests
    BY DEF AppInv, AppType, AppLoad, App!Idle, Waits
  <2> QED BY <1>2, <1>3, <2>1 DEF AppInv, Table, Waits, InFlight
<1>6. FlagHeld' /\ App!ShownIsAsked'
    BY <1>2 DEF AppInv, FlagHeld, App!ShownIsAsked, App!screen
<1> QED BY <1>4, <1>5, <1>6 DEF AppInv

\* Every step keeps the invariant: calls, tasks, the reader, the server and the system.
LEMMA AppNext == AppInv /\ [App!Next]_App!vars => AppInv'
<1> SUFFICES ASSUME AppInv, [App!Next]_App!vars PROVE AppInv'
    OBVIOUS
<1>1. App!Keys \subseteq Requests
    BY AppSettings DEF App!ScenarioAssumption, App!Keys, AppInv, AppType
<1>2. ASSUME NEW l \in Loads, NEW r \in App!Keys, App!Appear(l, r) \/ App!Press(l, r) PROVE AppInv'
  <2>1. CASE UNCHANGED <<scene, server, disk, task, torn, asked, shown, busy, load>>
    BY <2>1 DEF AppInv, AppType, AllRight, Table, FlagHeld, App!ShownIsAsked, App!screen, Waits
  <2>2. CASE (App!Begin(l, r, TRUE) \/ App!Begin(l, r, FALSE)) /\ UNCHANGED <<scene, server, disk, task, torn>>
    BY <1>1, <2>2, BeginStep
  <2> QED BY <1>2, <2>1, <2>2 DEF App!Appear, App!Press
<1>3. CASE App!Disappear \/ App!ChangePostcode
    BY <1>3, CancelStep DEF App!Disappear, App!ChangePostcode
<1>4. CASE App!ServerChanges
  <2>1. UNCHANGED <<scene, disk, task, torn, asked, shown, busy, load>>
    BY <1>4 DEF App!ServerChanges, App!Unchanged
  <2>2. server' \in [Requests -> Contents \cup {App!Broken}]
    BY <1>1, <1>4 DEF App!ServerChanges, AppInv, AppType
  <2> QED BY <2>1, <2>2 DEF AppInv, AppType, AllRight, Table, FlagHeld, App!ShownIsAsked, App!screen, Waits
<1>5. CASE App!Terminate
  <2>1. /\ UNCHANGED <<scene, server, disk, torn>> /\ task' = [r \in Requests |-> App!NoTask]
        /\ load' = [l \in Loads |-> App!Idle] /\ shown' = {} /\ busy' = {}
    BY <1>5 DEF App!Terminate
  <2>2. AppType'
    BY <2>1 DEF AppInv, AppType
  <2>3. AllRight'
    BY <2>1 DEF AppInv, AllRight, LoadRight, TaskRight, App!NoTask, App!Idle
  <2>4. Table' /\ FlagHeld' /\ App!ShownIsAsked'
    BY <2>1 DEF Table, FlagHeld, App!ShownIsAsked, App!Idle, Waits
  <2> QED BY <2>2, <2>3, <2>4 DEF AppInv
<1>6. CASE UNCHANGED App!vars
  <2>1. UNCHANGED <<scene, server, disk, task, torn, asked, shown, busy, load>>
    BY <1>6 DEF App!vars
  <2> QED BY <2>1 DEF AppInv, AppType, AllRight, Table, FlagHeld, App!ShownIsAsked, App!screen, Waits
<1>7. ASSUME NEW r \in App!Keys, App!Task(r) PROVE AppInv'
    BY <1>1, <1>7, TaskStep
<1> QED BY <1>2, <1>3, <1>4, <1>5, <1>6, <1>7, CallStep DEF App!Next, App!User

\* The invariant of the loads, in the composition.
AppHolds == part = "app" => AppInv

\* The composition keeps it.
LEMMA AppKept == SurfaceSpec => []AppHolds
<1>1. SurfaceInit => AppHolds
    BY AppStart DEF SurfaceInit, AppHolds
<1>2. AppHolds /\ [SurfaceNext]_allvars => AppHolds'
  <2> SUFFICES ASSUME AppHolds, [SurfaceNext]_allvars, part' = "app" PROVE AppInv'
      BY DEF AppHolds
  <2>1. part = "app" /\ [App!Next]_App!vars
    BY DEF SurfaceNext, allvars, appVars, App!vars
  <2> QED BY <2>1, AppNext DEF AppHolds
<1> QED BY <1>1, <1>2, PTL DEF SurfaceSpec

\* What is on display answers the request on display, however the loads interleave.
THEOREM DisplayAnswers == SurfaceSpec => []ShownIsAsked
<1>1. AppHolds => ShownIsAsked
    BY AppEnd DEF AppHolds, ShownIsAsked
<1> QED BY <1>1, AppKept, PTL

\* No refreshing flag outlives the calls that set it.
THEOREM FlagsCleared == SurfaceSpec => []NoStuckFlag
<1>1. AppHolds => NoStuckFlag
    BY AppEnd DEF AppHolds, NoStuckFlag
<1> QED BY <1>1, AppKept, PTL

\* An answer the app confirms is what the server held, unless a write was cut.
THEOREM AnswersServed == SurfaceSpec => []ConfirmedIsServed
<1>1. AppHolds => ConfirmedIsServed
    BY AppEnd DEF AppHolds, ConfirmedIsServed
<1> QED BY <1>1, AppKept, PTL

-----------------------------------------------------------------------------
(* Explanations and questions. *)

Evidence == [version : Nat, facts : Facts, live : BOOLEAN]
ExplainCall ==
  [pc : {"evidence", "lookup", "model", "store", "answered"}, of : Evidence, packet : Evidence,
   text : Evidence \cup {Explaining!None}, fallback : BOOLEAN]
Finding == [at : Nat, facts : SUBSET Observations, cited : BOOLEAN]
AskCall ==
  [pc : {"round", "model", "tools", "answered", "refused"}, mapTime : Nat, rounds : Nat,
   tools : Nat, wanted : Int, gathered : SUBSET Finding, claims : SUBSET Numbers, asOf : Nat]

ExplainType ==
  /\ topic \in Explaining!Topics /\ subject \in Evidence
  /\ today \in Explaining!Days
  /\ budget \in [Explaining!Days -> Nat] /\ posted \in [Explaining!Days -> Nat]
  /\ topic # "ask" => call \in [Calls -> ExplainCall \cup {Explaining!Idle}]
  /\ topic = "ask" => call \in [Calls -> AskCall \cup {Explaining!Idle}]

\* A row holds evidence of its key, and what is served is of the version it is labelled
\* with, but for the event whose evidence a call saw change.
RowMatches(row, k, changed) ==
  /\ row \in Evidence
  /\ topic = "event" => row.facts = k \/ k \in changed
  /\ topic = "notice" => row.version = k

CallMatches(said, changed) ==
  /\ topic = "notice" => said.packet = said.of
  /\ said.pc = "store" => said.text = said.packet
  /\ said.pc = "answered" =>
       \/ Explaining!Same(said.text, said.of)
       \/ topic = "event" /\ (said.of.facts \in changed \/ ~Explaining!Same(said.packet, said.of))

ExplainMatching ==
  topic # "ask" =>
    /\ \A k \in DOMAIN cache : RowMatches(cache[k], k, crossed)
    /\ \A c \in Calls : call[c] # Explaining!Idle => CallMatches(call[c], crossed)

WithinBudget == \A d \in Explaining!Days : posted[d] <= budget[d] /\ budget[d] <= DailyLimit

\* What a question gathered is of its map time, but for what was retrieved later, and
\* an answer rests on it.
AskGrounded(question) ==
  /\ question.rounds <= MaxRounds /\ question.tools <= MaxToolCalls
  /\ question.mapTime # Explaining!Live =>
       \A e \in question.gathered :
         /\ \A f \in e.facts : f.observed <= question.mapTime
         /\ e.at > question.mapTime => \E f \in Observations : f.observed <= question.mapTime /\ f.retrieved = e.at
  /\ question.pc = "answered" =>
       /\ \E e \in question.gathered : e.cited
       /\ \A n \in question.claims : \E e \in question.gathered : \E f \in e.facts : f.number = n
       /\ \A e \in question.gathered : question.asOf <= e.at

Grounded == topic = "ask" => \A c \in Calls : call[c] # Explaining!Idle => AskGrounded(call[c])

ExplainInv == ExplainType /\ ExplainMatching /\ WithinBudget /\ Grounded

\* A process starts with no rows, no calls and a full budget.
LEMMA ExplainStart == Explaining!Init => ExplainInv
<1> SUFFICES ASSUME Explaining!Init PROVE ExplainInv
    OBVIOUS
<1>1. 0 \in Explaining!Days
    BY ExplanationSettings DEF Explaining!ExplanationAssumption, Explaining!Days, Explaining!Topics
<1>2. ExplainType
    BY <1>1 DEF Explaining!Init, ExplainType, Explaining!Idle, Evidence
<1>3. \A c \in Calls : call[c] = Explaining!Idle
    BY DEF Explaining!Init
<1>4. cache = [k \in {} |-> Explaining!None] /\ DOMAIN cache = {}
    BY DEF Explaining!Init
<1>5. WithinBudget
    BY ExplanationSettings DEF Explaining!ExplanationAssumption, Explaining!Init, WithinBudget
<1> QED BY <1>2, <1>3, <1>4, <1>5 DEF ExplainInv, ExplainMatching, Grounded

\* The invariant says what the two properties do.
LEMMA ExplainEnd == ExplainInv => Explaining!ExplanationMatches /\ Explaining!AnswerGrounded
<1> SUFFICES ASSUME ExplainInv PROVE Explaining!ExplanationMatches /\ Explaining!AnswerGrounded
    OBVIOUS
<1>0. \A c \in Calls : call[c].pc = "answered" => call[c] # Explaining!Idle
    BY DEF Explaining!Idle
<1>1. Explaining!ExplanationMatches
    BY <1>0 DEF ExplainInv, ExplainMatching, Explaining!ExplanationMatches, CallMatches
<1>2. \A d \in Explaining!Days : posted[d] <= DailyLimit
    BY ExplanationSettings DEF Explaining!ExplanationAssumption, ExplainInv, WithinBudget, ExplainType
<1>3. ASSUME topic = "ask", NEW c \in Calls, call[c].pc = "answered"
      PROVE  /\ call[c].rounds <= MaxRounds /\ call[c].tools <= MaxToolCalls
             /\ \E e \in call[c].gathered : e.cited
             /\ \A n \in call[c].claims : \E e \in call[c].gathered : \E f \in e.facts :
                  f.number = n /\ (call[c].mapTime # Explaining!Live => f.observed <= call[c].mapTime)
             /\ \A e \in call[c].gathered :
                  /\ call[c].asOf <= e.at
                  /\ call[c].mapTime # Explaining!Live /\ call[c].asOf > call[c].mapTime =>
                       \E f \in Observations : f.observed <= call[c].mapTime /\ f.retrieved = e.at
  <2>1. AskGrounded(call[c]) /\ call[c] \in AskCall
    BY <1>0, <1>3 DEF ExplainInv, ExplainType, Grounded
  <2>2. call[c].asOf \in Nat /\ call[c].mapTime \in Nat /\ \A e \in call[c].gathered : e.at \in Nat
    BY <2>1 DEF AskCall, Finding
  <2>3. \A n \in call[c].claims : \E e \in call[c].gathered : \E f \in e.facts :
          f.number = n /\ (call[c].mapTime # Explaining!Live => f.observed <= call[c].mapTime)
    BY <1>3, <2>1 DEF AskGrounded
  <2>4. ASSUME NEW e \in call[c].gathered
        PROVE  /\ call[c].asOf <= e.at
               /\ call[c].mapTime # Explaining!Live /\ call[c].asOf > call[c].mapTime =>
                    \E f \in Observations : f.observed <= call[c].mapTime /\ f.retrieved = e.at
    <3>1. call[c].asOf <= e.at
      BY <1>3, <2>1 DEF AskGrounded
    <3>2. call[c].asOf > call[c].mapTime => e.at > call[c].mapTime
      BY <2>2, <3>1
    <3> QED BY <2>1, <3>1, <3>2 DEF AskGrounded
  <2> QED BY <1>3, <2>1, <2>3, <2>4 DEF AskGrounded
<1> QED BY <1>1, <1>2, <1>3 DEF Explaining!AnswerGrounded

\* The dates the tools give their results: a result is dated after the time it was asked
\* for only if it found a fact that was retrieved at that date.
LEMMA DatedByFacts ==
  ASSUME NEW c, Explaining!Now(c) \in Nat, Explaining!Present \in Nat,
         NEW found \in SUBSET Explaining!Readable(c), NEW at \in Explaining!Dates(c, found)
  PROVE  /\ at \in Nat /\ found \subseteq Observations
         /\ \A f \in found : f.observed <= Explaining!Now(c)
         /\ at <= Explaining!Now(c) \/ \E f \in found : f.retrieved = at
<1>1. found \subseteq Observations /\ \A f \in found : f.observed <= Explaining!Now(c)
    BY DEF Explaining!Readable
<1>2. \A f \in Explaining!Readable(c) :
         f.observed \in Nat /\ f.retrieved \in Nat /\ f.observed <= Explaining!Now(c)
    BY ExplanationSettings DEF Explaining!ExplanationAssumption, Explaining!Readable
<1>3. CASE at \in Explaining!Times(found) \/ at \in Explaining!Times(Explaining!Readable(c))
  <2>1. at \in Nat /\ at <= Explaining!Now(c)
    BY <1>2, <1>3 DEF Explaining!Times
  <2> QED BY <1>1, <2>1
<1>4. CASE \E notices \in SUBSET found :
             at \in Explaining!Times(found \ notices) \cup {f.retrieved : f \in notices}
  <2>1. PICK notices \in SUBSET found :
             at \in Explaining!Times(found \ notices) \cup {f.retrieved : f \in notices}
    BY <1>4
  <2>2. CASE at \in Explaining!Times(found \ notices)
    <3>1. PICK f \in found : at = f.observed
      BY <2>2 DEF Explaining!Times
    <3>2. f \in Explaining!Readable(c)
      OBVIOUS
    <3> QED BY <1>1, <1>2, <3>1, <3>2
  <2>3. CASE at \in {f.retrieved : f \in notices}
    <3>1. PICK f \in found : at = f.retrieved
      BY <2>3
    <3>2. f \in Explaining!Readable(c)
      OBVIOUS
    <3>3. at \in Nat
      BY <1>2, <3>1, <3>2
    <3> QED BY <1>1, <3>1, <3>3
  <2> QED BY <2>1, <2>2, <2>3
<1>5. CASE at \in {Explaining!Now(c)} \cup Explaining!Earliest({Explaining!Now(c), Explaining!Present})
  <2>1. at \in Nat /\ at <= Explaining!Now(c)
    BY <1>5 DEF Explaining!Earliest
  <2> QED BY <1>1, <2>1
<1>6. /\ Explaining!Earliest(Explaining!Times(found)) \subseteq Explaining!Times(found)
      /\ \A T : Explaining!Latest(T) \subseteq T
    BY DEF Explaining!Earliest, Explaining!Latest
<1>7. CASE at \in Explaining!NewestDates(found)
  <2>1. PICK notices \in SUBSET found :
             at \in Explaining!Latest(Explaining!Times(found \ notices) \cup {f.retrieved : f \in notices})
    BY <1>7 DEF Explaining!NewestDates
  <2> QED BY <1>4, <1>6, <2>1
<1>8. CASE at \in Explaining!EmptyDates(c, found)
  <2>1. at \in {Explaining!Now(c)} \cup Explaining!Earliest({Explaining!Now(c), Explaining!Present})
          \cup Explaining!Times(Explaining!Readable(c))
    BY <1>8 DEF Explaining!EmptyDates
  <2> QED BY <1>3, <1>5, <2>1
<1>9. CASE at \in Explaining!StateDates(found)
    BY <1>3, <1>6, <1>9 DEF Explaining!StateDates
<1> QED BY <1>7, <1>8, <1>9 DEF Explaining!Dates

\* An answer is dated by its oldest result: _validate_final takes the least time.
LEMMA OldestIsLeast ==
  ASSUME NEW es \in SUBSET Finding, es # {}
  PROVE  Explaining!Oldest(es) \in Nat /\ \A e \in es : Explaining!Oldest(es) <= e.at
<1> DEFINE times == {e.at : e \in es}
<1>1. times # {} /\ times \subseteq Nat
    BY DEF Finding
<1>2. PICK t \in times : \A u \in times : t <= u
    BY <1>1, LeastNatural
<1>3. Explaining!Oldest(es) \in times /\ \A e \in es : Explaining!Oldest(es) <= e.at
    BY <1>2 DEF Explaining!Oldest
<1> QED BY <1>1, <1>3

\* A call may claim one of the day's budget, and send it.
BudgetMoves ==
  \/ UNCHANGED <<budget, posted>>
  \/ Explaining!Claimable /\ budget' = Explaining!Claimed /\ posted' \in {posted, Explaining!Sent}

\* A claim within the limit keeps the count of calls sent within it, on every day.
LEMMA ClaimKept ==
  ASSUME ExplainType, WithinBudget, Explaining!Claimable, budget' = Explaining!Claimed,
         posted' \in {posted, Explaining!Sent}
  PROVE  /\ budget' \in [Explaining!Days -> Nat] /\ posted' \in [Explaining!Days -> Nat]
         /\ \A d \in Explaining!Days : posted'[d] <= budget'[d] /\ budget'[d] <= DailyLimit
<1>1. DailyLimit \in Nat /\ today \in Explaining!Days
    BY ExplanationSettings DEF Explaining!ExplanationAssumption, ExplainType
<1>2. budget' \in [Explaining!Days -> Nat] /\ posted' \in [Explaining!Days -> Nat]
    BY <1>1 DEF ExplainType, Explaining!Claimed, Explaining!Sent
<1>3. ASSUME NEW d \in Explaining!Days PROVE posted'[d] <= budget'[d] /\ budget'[d] <= DailyLimit
  <2>1. budget[d] \in Nat /\ posted[d] \in Nat /\ posted[d] <= budget[d] /\ budget[d] <= DailyLimit
    BY DEF ExplainType, WithinBudget
  <2>2. budget'[d] = (IF d = today THEN budget[d] + 1 ELSE budget[d])
    BY DEF ExplainType, Explaining!Claimed
  <2>3. posted'[d] = (IF d = today THEN posted[d] + 1 ELSE posted[d]) \/ posted'[d] = posted[d]
    BY DEF ExplainType, Explaining!Sent
  <2> QED BY <1>1, <2>1, <2>2, <2>3 DEF Explaining!Claimable
<1> QED BY <1>2, <1>3

\* A call of an explanation moves: only its own fields matter.
LEMMA ExplainMoves ==
  ASSUME ExplainInv, topic # "ask", NEW c \in Calls, NEW moved \in ExplainCall,
         call' = [call EXCEPT ![c] = moved], UNCHANGED <<topic, subject, today>>,
         BudgetMoves,
         crossed \subseteq crossed',
         \A k \in DOMAIN cache' : RowMatches(cache'[k], k, crossed'),
         CallMatches(moved, crossed')
  PROVE  ExplainInv'
<1>1. budget' \in [Explaining!Days -> Nat] /\ posted' \in [Explaining!Days -> Nat] /\ WithinBudget'
    BY ClaimKept DEF ExplainInv, ExplainType, WithinBudget, BudgetMoves
<1>2. ExplainType'
    BY <1>1 DEF ExplainInv, ExplainType
<1>3. call'[c] = moved /\ \A d \in Calls \ {c} : call'[d] = call[d]
    BY DEF ExplainInv, ExplainType
<1>4. ASSUME NEW d \in Calls, call'[d] # Explaining!Idle PROVE CallMatches(call'[d], crossed')
  <2>1. CASE d = c
    BY <1>3, <2>1
  <2>2. CASE d # c
    BY <1>3, <1>4, <2>2 DEF ExplainInv, ExplainMatching, CallMatches
  <2> QED BY <2>1, <2>2
<1>6. ExplainMatching'
    BY <1>4 DEF ExplainMatching, RowMatches, CallMatches, Explaining!Same
<1>7. Grounded'
    BY DEF Grounded
<1> QED BY <1>1, <1>2, <1>6, <1>7 DEF ExplainInv

\* What the calls of an explanation and its rows are before a step.
\* What a running explanation is.
LEMMA ExplainHas ==
  ASSUME ExplainInv, topic # "ask", NEW c \in Calls, call[c].pc # "idle"
  PROVE  call[c] \in ExplainCall /\ CallMatches(call[c], crossed)
BY DEF ExplainInv, ExplainType, ExplainMatching, Explaining!Idle

\* EventExplanationService: every step of an explanation keeps the invariant.
LEMMA ExplainCallStep ==
  ASSUME ExplainInv, NEW c \in Calls,
         Explaining!Explain(c) \/ Explaining!Gather(c) \/ Explaining!CacheHit(c) \/ Explaining!FallBack(c) \/ Explaining!Post(c) \/ Explaining!Rejected(c)
           \/ Explaining!Validated(c) \/ Explaining!Store(c)
  PROVE  ExplainInv'
<1>0. topic # "ask" /\ UNCHANGED <<topic, subject, today>> /\ topic \in Explaining!Topics /\ subject \in Evidence
      /\ call \in [Calls -> ExplainCall \cup {Explaining!Idle}]
    BY DEF Explaining!Explain, Explaining!Gather, Explaining!CacheHit, Explaining!FallBack, Explaining!Post, Explaining!Rejected, Explaining!Validated, Explaining!Store, Explaining!Keeps, ExplainInv, ExplainType
<1>r. \A k \in DOMAIN cache : RowMatches(cache[k], k, crossed)
    BY <1>0 DEF ExplainInv, ExplainMatching
<1>1. CASE Explaining!Explain(c)
  <2> DEFINE m == [pc |-> "evidence", of |-> subject, packet |-> subject, text |-> Explaining!None, fallback |-> FALSE]
  <2>1. m \in ExplainCall /\ CallMatches(m, crossed)
    BY <1>0 DEF ExplainCall, CallMatches
  <2>2. call' = [call EXCEPT ![c] = m] /\ UNCHANGED <<cache, budget, posted, crossed>>
    BY <1>1 DEF Explaining!Explain
  <2> HIDE DEF m
  <2> QED BY <1>0, <1>r, <2>1, <2>2, ExplainMoves DEF BudgetMoves
<1>2. CASE call[c].pc # "idle"
  <2>1. /\ call[c] \in ExplainCall
        /\ topic = "notice" => call[c].packet = call[c].of
        /\ call[c].pc = "store" => call[c].text = call[c].packet
    BY <1>0, <1>2, ExplainHas DEF CallMatches
  <2>2. CASE Explaining!Gather(c)
    <3> DEFINE m == [call[c] EXCEPT !.pc = "lookup", !.packet = IF topic = "event" THEN subject ELSE call[c].packet]
    <3>1. m \in ExplainCall /\ CallMatches(m, crossed)
      BY <1>0, <2>1 DEF ExplainCall, CallMatches
    <3>2. call' = [call EXCEPT ![c] = m] /\ UNCHANGED <<cache, budget, posted, crossed>>
      BY <1>0, <2>2 DEF Explaining!Gather
    <3> HIDE DEF m
    <3> QED BY <1>0, <1>r, <3>1, <3>2, ExplainMoves DEF BudgetMoves
  <2>3. CASE Explaining!CacheHit(c)
    <3> DEFINE text == cache[Explaining!Key(call[c].of)]
               m == [call[c] EXCEPT !.pc = "answered", !.text = text, !.fallback = FALSE]
    <3>0. Explaining!Key(call[c].of) \in DOMAIN cache /\ text \in Evidence
      BY <1>r, <2>3 DEF Explaining!CacheHit, RowMatches
    <3>1. /\ m \in ExplainCall /\ m.pc = "answered" /\ m.packet = call[c].packet /\ m.of = call[c].of
          /\ m.text = text
      BY <2>1, <3>0 DEF ExplainCall
    <3>2. call' = [call EXCEPT ![c] = m] /\ UNCHANGED <<cache, budget, posted, crossed>>
      BY <1>0, <2>3 DEF Explaining!CacheHit, Explaining!Answered
    <3>3. CallMatches(m, crossed)
      BY <1>0, <1>r, <2>1, <3>0, <3>1 DEF CallMatches, RowMatches, Explaining!Same, Explaining!Key, Explaining!Topics
    <3> HIDE DEF m, text
    <3> QED BY <1>0, <1>r, <2>1, <3>1, <3>2, <3>3, ExplainMoves DEF BudgetMoves
  <2>4. CASE Explaining!FallBack(c) \/ Explaining!Rejected(c)
    <3> DEFINE m == [call[c] EXCEPT !.pc = "answered", !.text = call[c].packet, !.fallback = TRUE]
    <3>1. m \in ExplainCall /\ m.pc = "answered" /\ m.packet = call[c].packet /\ m.of = call[c].of /\ m.text = m.packet
      BY <2>1 DEF ExplainCall
    <3>2. /\ call' = [call EXCEPT ![c] = m] /\ UNCHANGED <<cache, posted, crossed>>
          /\ UNCHANGED budget \/ (Explaining!Claimable /\ budget' = Explaining!Claimed)
      BY <1>0, <2>4 DEF Explaining!FallBack, Explaining!Rejected, Explaining!Answered
    <3>3. CallMatches(m, crossed)
      BY <1>0, <2>1, <3>1 DEF CallMatches, Explaining!Same, Explaining!Topics
    <3> HIDE DEF m
    <3> QED BY <1>0, <1>r, <2>1, <3>1, <3>2, <3>3, ExplainMoves DEF BudgetMoves
  <2>5. CASE Explaining!Post(c)
    <3> DEFINE m == [call[c] EXCEPT !.pc = "model"]
    <3>1. m \in ExplainCall /\ CallMatches(m, crossed)
      BY <2>1 DEF ExplainCall, CallMatches
    <3>2. /\ call' = [call EXCEPT ![c] = m] /\ UNCHANGED <<cache, crossed>>
          /\ Explaining!Claimable /\ budget' = Explaining!Claimed /\ posted' = Explaining!Sent
      BY <1>0, <2>5 DEF Explaining!Post, Explaining!At
    <3> HIDE DEF m
    <3> QED BY <1>0, <1>r, <2>1, <3>1, <3>2, ExplainMoves DEF BudgetMoves
  <2>6. CASE Explaining!Validated(c)
    <3> DEFINE m == [call[c] EXCEPT !.pc = "store", !.text = call[c].packet]
    <3>1. m \in ExplainCall /\ CallMatches(m, crossed)
      BY <2>1 DEF ExplainCall, CallMatches
    <3>2. call' = [call EXCEPT ![c] = m] /\ UNCHANGED <<cache, budget, posted, crossed>>
      BY <1>0, <2>6 DEF Explaining!Validated
    <3> HIDE DEF m
    <3> QED BY <1>0, <1>r, <2>1, <3>1, <3>2, ExplainMoves DEF BudgetMoves
  <2>7. CASE Explaining!Store(c)
    <3> DEFINE m == [call[c] EXCEPT !.pc = "answered", !.text = call[c].text, !.fallback = FALSE]
               k == Explaining!Key(call[c].of)
    <3>1. m \in ExplainCall /\ m.pc = "answered" /\ m.packet = call[c].packet /\ m.of = call[c].of /\ m.text = m.packet
      BY <2>1, <2>7 DEF ExplainCall, Explaining!Store
    <3>2. call' = [call EXCEPT ![c] = m] /\ UNCHANGED <<budget, posted>>
      BY <1>0, <2>7 DEF Explaining!Store, Explaining!Answered
    <3>3. CallMatches(m, crossed) /\ CallMatches(m, crossed \cup {call[c].of.facts})
      BY <1>0, <2>1, <3>1 DEF CallMatches, Explaining!Same, Explaining!Topics
    <3>4. CASE k \in DOMAIN cache
      <4>1. UNCHANGED <<cache, crossed>>
        BY <2>7, <3>4 DEF Explaining!Store
      <4> HIDE DEF m, k
      <4> QED BY <1>0, <1>r, <2>1, <3>1, <3>2, <3>3, <4>1, ExplainMoves DEF BudgetMoves
    <3>5. CASE k \notin DOMAIN cache
      <4>1. /\ cache' = [x \in DOMAIN cache \cup {k} |-> IF x = k THEN call[c].text ELSE cache[x]]
            /\ crossed' = (IF ~Explaining!Same(call[c].packet, call[c].of) THEN crossed \cup {call[c].of.facts} ELSE crossed)
        BY <2>7, <3>5 DEF Explaining!Store
      <4>2. /\ call[c].text = call[c].packet /\ call[c].packet \in Evidence
            /\ k = (IF topic = "event" THEN call[c].of.facts ELSE call[c].of.version)
        BY <2>1, <2>7 DEF Explaining!Store, ExplainCall, Explaining!Key
      <4>3. RowMatches(call[c].text, k, crossed')
        BY <1>0, <2>1, <4>1, <4>2 DEF RowMatches, Explaining!Same, Explaining!Topics
      <4>4. crossed \subseteq crossed' /\ CallMatches(m, crossed')
        BY <3>3, <4>1
      <4> HIDE DEF m, k
      <4>5. ASSUME NEW x \in DOMAIN cache' PROVE RowMatches(cache'[x], x, crossed')
        <5>1. x \in DOMAIN cache \cup {k} /\ cache'[x] = IF x = k THEN call[c].text ELSE cache[x]
          BY <4>1
        <5>2. CASE x = k
          BY <5>1, <5>2, <4>3
        <5>3. CASE x # k
          BY <1>r, <5>1, <5>3, <4>4 DEF RowMatches
        <5> QED BY <5>2, <5>3
      <4> QED BY <1>0, <2>1, <3>1, <3>2, <4>4, <4>5, ExplainMoves DEF BudgetMoves
    <3> QED BY <3>4, <3>5
  <2> QED BY <1>2, <2>2, <2>3, <2>4, <2>5, <2>6, <2>7 DEF Explaining!Explain, Explaining!Idle
<1> QED BY <1>1, <1>2 DEF Explaining!Explain, Explaining!Gather, Explaining!CacheHit, Explaining!FallBack, Explaining!Post, Explaining!Rejected, Explaining!Validated, Explaining!Store

\* A question moves: only its own fields matter.
LEMMA AskMoves ==
  ASSUME ExplainInv, topic = "ask", NEW c \in Calls, NEW moved \in AskCall,
         call' = [call EXCEPT ![c] = moved], UNCHANGED <<topic, subject, today, cache, crossed>>,
         BudgetMoves, AskGrounded(moved)
  PROVE  ExplainInv'
<1>1. budget' \in [Explaining!Days -> Nat] /\ posted' \in [Explaining!Days -> Nat] /\ WithinBudget'
    BY ClaimKept DEF ExplainInv, ExplainType, WithinBudget, BudgetMoves
<1>2. ExplainType'
    BY <1>1 DEF ExplainInv, ExplainType
<1>3. call'[c] = moved /\ \A d \in Calls \ {c} : call'[d] = call[d]
    BY DEF ExplainInv, ExplainType
<1>4. ASSUME NEW d \in Calls, call'[d] # Explaining!Idle PROVE AskGrounded(call'[d])
  <2>1. CASE d = c
    BY <1>3, <2>1
  <2>2. CASE d # c
    BY <1>3, <1>4, <2>2 DEF ExplainInv, Grounded
  <2> QED BY <2>1, <2>2
<1>5. Grounded'
    BY <1>4 DEF Grounded, AskGrounded
<1>6. ExplainMatching'
    BY DEF ExplainMatching
<1> QED BY <1>1, <1>2, <1>5, <1>6 DEF ExplainInv

\* OpenRouterAskClient: every step of a question keeps the invariant.
LEMMA AskStep ==
  ASSUME ExplainInv, NEW c \in Calls,
         Explaining!Ask(c) \/ Explaining!Round(c) \/ Explaining!ModelFails(c) \/ Explaining!WantsTools(c) \/ Explaining!Tool(c) \/ Explaining!Final(c)
  PROVE  ExplainInv'
<1>0. /\ topic = "ask" /\ UNCHANGED <<topic, subject, today, cache, crossed>> /\ subject \in Evidence
      /\ call \in [Calls -> AskCall \cup {Explaining!Idle}]
    BY DEF Explaining!Ask, Explaining!Round, Explaining!ModelFails, Explaining!WantsTools, Explaining!Tool, Explaining!Final, Explaining!Keeps, ExplainInv, ExplainType
<1>s. MaxRounds \in Nat /\ MaxToolCalls \in Nat /\ MaxPerRound \in Nat /\ MaxVersions \in Nat /\ subject.version \in Nat
    BY <1>0, ExplanationSettings DEF Explaining!ExplanationAssumption, Evidence
<1>1. CASE Explaining!Ask(c)
  <2>1. PICK t \in {Explaining!Live} \cup 1..MaxVersions :
       call' = [call EXCEPT ![c] =
         [pc |-> "round", mapTime |-> t, rounds |-> 0, tools |-> 0, wanted |-> 0,
          gathered |-> {}, claims |-> {}, asOf |-> 0]]
    BY <1>1 DEF Explaining!Ask
  <2> DEFINE m == [pc |-> "round", mapTime |-> t, rounds |-> 0, tools |-> 0, wanted |-> 0,
          gathered |-> {}, claims |-> {}, asOf |-> 0]
  <2>2. t \in Nat
    BY <1>s DEF Explaining!Live
  <2>3. m \in AskCall /\ AskGrounded(m)
    BY <1>s, <2>2 DEF AskCall, AskGrounded
  <2>4. call' = [call EXCEPT ![c] = m] /\ BudgetMoves
    BY <1>1, <2>1 DEF Explaining!Ask, BudgetMoves
  <2> HIDE DEF m
  <2> QED BY <1>0, <2>3, <2>4, AskMoves
<1>2. CASE call[c].pc # "idle"
  <2>1. call[c] \in AskCall /\ AskGrounded(call[c])
    BY <1>0, <1>2 DEF Explaining!Idle, ExplainInv, Grounded
  <2> DEFINE refused == [call[c] EXCEPT !.pc = "refused"]
  <2>2. refused \in AskCall /\ AskGrounded(refused)
    BY <2>1 DEF AskCall, AskGrounded
  <2>3. Explaining!Unavailable(c) => call' = [call EXCEPT ![c] = refused]
    BY <1>0 DEF Explaining!Unavailable
  <2> HIDE DEF refused
  <2>4. ASSUME Explaining!Unavailable(c), UNCHANGED <<budget, posted>> PROVE ExplainInv'
    BY <1>0, <2>2, <2>3, <2>4, AskMoves DEF BudgetMoves
  <2>5. CASE Explaining!Round(c)
    <3> DEFINE m == [call[c] EXCEPT !.pc = "model", !.rounds = call[c].rounds + 1]
    <3>1. CASE call[c].rounds < MaxRounds /\ Explaining!Claimable
      <4>0. call[c].rounds + 1 \in Nat /\ call[c].rounds + 1 <= MaxRounds
        BY <1>s, <2>1, <3>1 DEF AskCall
      <4>1. m \in AskCall
        BY <2>1, <4>0 DEF AskCall
      <4>3. AskGrounded(m)
        BY <2>1, <4>0 DEF AskCall, AskGrounded
      <4>2. call' = [call EXCEPT ![c] = m] /\ BudgetMoves
        BY <1>0, <2>5, <3>1 DEF Explaining!Round, BudgetMoves
      <4> HIDE DEF m
      <4> QED BY <1>0, <4>1, <4>2, <4>3, AskMoves
    <3>2. CASE ~(call[c].rounds < MaxRounds /\ Explaining!Claimable)
      BY <2>4, <2>5, <3>2 DEF Explaining!Round
    <3> QED BY <3>1, <3>2
  <2>6. CASE Explaining!ModelFails(c)
    BY <2>4, <2>6 DEF Explaining!ModelFails
  <2>7. CASE Explaining!WantsTools(c)
    <3>1. PICK n \in 1..(MaxPerRound + 1) :
       IF Explaining!WithinLimits(c, n)
       THEN call' = [call EXCEPT ![c].pc = "tools", ![c].tools = @ + n, ![c].wanted = n]
       ELSE Explaining!Unavailable(c)
      BY <2>7 DEF Explaining!WantsTools
    <3> DEFINE m == [call[c] EXCEPT !.pc = "tools", !.tools = call[c].tools + n, !.wanted = n]
    <3>2. CASE Explaining!WithinLimits(c, n)
      <4>0. n \in Nat
        BY <1>s
      <4>1. call[c].tools + n \in Nat /\ call[c].tools + n <= MaxToolCalls
        BY <1>s, <2>1, <3>2, <4>0 DEF AskCall, Explaining!WithinLimits
      <4> DEFINE tools == call[c].tools + n
      <4> HIDE DEF tools
      <4>3. m \in AskCall
        <5>1. tools \in Nat /\ n \in Int
          BY <4>0, <4>1 DEF tools
        <5>2. m = [call[c] EXCEPT !.pc = "tools", !.tools = tools, !.wanted = n]
          BY DEF tools
        <5> HIDE DEF m
        <5> QED BY <2>1, <5>1, <5>2 DEF AskCall
      <4>4. AskGrounded(m)
        BY <2>1, <4>1 DEF AskCall, AskGrounded
      <4>2. call' = [call EXCEPT ![c] = m] /\ BudgetMoves
        BY <1>0, <2>7, <3>1, <3>2 DEF Explaining!WantsTools, BudgetMoves
      <4> HIDE DEF m
      <4> QED BY <1>0, <4>2, <4>3, <4>4, AskMoves
    <3>3. CASE ~Explaining!WithinLimits(c, n)
      BY <2>4, <2>7, <3>1, <3>3 DEF Explaining!WantsTools
    <3> QED BY <3>2, <3>3
  <2>8. CASE Explaining!Tool(c)
    <3>0. PICK found, given \in SUBSET Explaining!Readable(c), cited \in BOOLEAN :
       /\ given \subseteq found /\ (given = {} => found = {})
       /\ \E at \in Explaining!Dates(c, found) :
            call' = [call EXCEPT
              ![c].gathered = @ \cup {[at |-> at, facts |-> given, cited |-> cited]},
              ![c].wanted = @ - 1,
              ![c].pc = IF call[c].wanted = 1 THEN "round" ELSE "tools"]
      BY <2>8 DEF Explaining!Tool
    <3>1. PICK at \in Explaining!Dates(c, found) :
       call' = [call EXCEPT
         ![c].gathered = @ \cup {[at |-> at, facts |-> given, cited |-> cited]},
         ![c].wanted = @ - 1,
         ![c].pc = IF call[c].wanted = 1 THEN "round" ELSE "tools"]
      BY <3>0
    <3> DEFINE e == [at |-> at, facts |-> given, cited |-> cited]
               m == [call[c] EXCEPT !.gathered = call[c].gathered \cup {e},
                                    !.wanted = call[c].wanted - 1,
                                    !.pc = IF call[c].wanted = 1 THEN "round" ELSE "tools"]
    <3>2. /\ Explaining!Now(c) \in Nat /\ Explaining!Present \in Nat
          /\ call[c].mapTime # Explaining!Live => Explaining!Now(c) = call[c].mapTime
      BY <1>s, <2>1 DEF Explaining!Now, Explaining!Present, AskCall
    <3>d. /\ at \in Nat /\ found \subseteq Observations
          /\ \A f \in found : f.observed <= Explaining!Now(c)
          /\ at <= Explaining!Now(c) \/ \E f \in found : f.retrieved = at
      BY <3>2, DatedByFacts
    <3>3. e \in Finding /\ e.at = at /\ e.facts = given
      BY <3>0, <3>d DEF Finding
    <3>4. call' = [call EXCEPT ![c] = m] /\ BudgetMoves
      BY <1>0, <2>8, <3>1 DEF Explaining!Tool, BudgetMoves
    <3> HIDE DEF e
    <3>5. m \in AskCall
      <4> DEFINE grown == call[c].gathered \cup {e}
                 rest == call[c].wanted - 1
                 l == IF call[c].wanted = 1 THEN "round" ELSE "tools"
      <4>1. grown \in SUBSET Finding /\ rest \in Int /\ l \in {"round", "tools"}
        BY <2>1, <3>3 DEF AskCall
      <4>2. m = [call[c] EXCEPT !.gathered = grown, !.wanted = rest, !.pc = l]
        OBVIOUS
      <4> HIDE DEF m, grown, rest, l
      <4> QED BY <2>1, <4>1, <4>2 DEF AskCall
    <3>6. m.pc # "answered" /\ m.rounds = call[c].rounds /\ m.tools = call[c].tools
          /\ m.mapTime = call[c].mapTime /\ m.gathered = call[c].gathered \cup {e}
      BY <2>1 DEF AskCall
    <3>7. AskGrounded(m)
      <4>1. ASSUME m.mapTime # Explaining!Live, NEW x \in m.gathered
            PROVE  /\ \A f \in x.facts : f.observed <= m.mapTime
                   /\ x.at > m.mapTime => \E f \in Observations : f.observed <= m.mapTime /\ f.retrieved = x.at
        <5>1. CASE x \in call[c].gathered
          BY <2>1, <3>6, <4>1, <5>1 DEF AskGrounded
        <5>2. CASE x = e
          <6>1. m.mapTime = Explaining!Now(c)
            BY <3>2, <3>6, <4>1
          <6>2. at > m.mapTime => ~(at <= Explaining!Now(c))
            BY <3>2, <3>d, <6>1
          <6>3. at > m.mapTime => \E f \in Observations : f.observed <= m.mapTime /\ f.retrieved = at
            BY <3>d, <6>1, <6>2
          <6>4. \A f \in given : f.observed <= m.mapTime
            BY <3>0, <3>d, <6>1
          <6> QED BY <3>3, <5>2, <6>3, <6>4
        <5> QED BY <3>6, <5>1, <5>2
      <4> QED BY <2>1, <3>6, <4>1 DEF AskGrounded
    <3> HIDE DEF m
    <3> QED BY <1>0, <3>4, <3>5, <3>7, AskMoves
  <2>9. CASE Explaining!Final(c)
    <3>1. PICK claims \in SUBSET Numbers :
       IF Explaining!Supported(c, claims)
       THEN call' = [call EXCEPT ![c].pc = "answered", ![c].claims = claims,
                                 ![c].asOf = Explaining!Oldest(call[c].gathered)]
       ELSE Explaining!Unavailable(c)
      BY <2>9 DEF Explaining!Final
    <3> DEFINE m == [call[c] EXCEPT !.pc = "answered", !.claims = claims, !.asOf = Explaining!Oldest(call[c].gathered)]
    <3>2. CASE Explaining!Supported(c, claims)
      <4>1. /\ call[c].gathered \in SUBSET Finding /\ \E e \in call[c].gathered : e.cited
            /\ \A n \in claims : \E e \in call[c].gathered : \E f \in e.facts : f.number = n
        BY <2>1, <3>2 DEF Explaining!Supported, AskCall
      <4>2. Explaining!Oldest(call[c].gathered) \in Nat /\ \A e \in call[c].gathered : Explaining!Oldest(call[c].gathered) <= e.at
        BY <4>1, OldestIsLeast
      <4>3. m \in AskCall /\ AskGrounded(m)
        BY <1>s, <2>1, <4>1, <4>2 DEF AskCall, AskGrounded
      <4>4. call' = [call EXCEPT ![c] = m] /\ BudgetMoves
        BY <1>0, <2>9, <3>1, <3>2 DEF Explaining!Final, BudgetMoves
      <4> HIDE DEF m
      <4> QED BY <1>0, <4>3, <4>4, AskMoves
    <3>3. CASE ~Explaining!Supported(c, claims)
      BY <2>4, <2>9, <3>1, <3>3 DEF Explaining!Final
    <3> QED BY <3>2, <3>3
  <2> QED BY <1>2, <2>5, <2>6, <2>7, <2>8, <2>9 DEF Explaining!Ask, Explaining!Idle
<1> QED BY <1>1, <1>2 DEF Explaining!Ask, Explaining!Round, Explaining!ModelFails, Explaining!WantsTools, Explaining!Tool, Explaining!Final

\* Every step keeps the invariant: the calls, revisions, midnight and restarts.
LEMMA ExplainNext == ExplainInv /\ [Explaining!Next]_Explaining!vars => ExplainInv'
<1> SUFFICES ASSUME ExplainInv, [Explaining!Next]_Explaining!vars PROVE ExplainInv'
    OBVIOUS
<1>0. Explaining!Idle.pc = "idle"
    BY DEF Explaining!Idle
<1>1. ASSUME NEW c \in Calls, Explaining!Forget(c) PROVE ExplainInv'
  <2>1. UNCHANGED <<topic, subject, cache, budget, posted, today, crossed>> /\ call' = [call EXCEPT ![c] = Explaining!Idle]
    BY <1>1 DEF Explaining!Forget
  <2>2. ExplainType'
    BY <2>1 DEF ExplainInv, ExplainType
  <2>3. \A d \in Calls : call'[d] # Explaining!Idle => call'[d] = call[d]
    BY <2>1 DEF ExplainInv, ExplainType
  <2>4. ExplainMatching' /\ Grounded'
    BY <2>1, <2>3 DEF ExplainInv, ExplainMatching, Grounded, RowMatches, CallMatches, Explaining!Same
  <2> QED BY <2>1, <2>2, <2>4 DEF ExplainInv, WithinBudget
<1>2. CASE Explaining!Revise \/ Explaining!Resolve
  <2>1. UNCHANGED <<topic, cache, budget, posted, today, call, crossed>>
    BY <1>2 DEF Explaining!Revise, Explaining!Resolve
  <2>2. subject' \in Evidence
    <3>1. subject \in Evidence
      BY DEF ExplainInv, ExplainType
    <3>2. CASE Explaining!Revise
      BY <3>1, <3>2 DEF Explaining!Revise, Evidence
    <3>3. CASE Explaining!Resolve
      BY <3>1, <3>3 DEF Explaining!Resolve, Evidence
    <3> QED BY <1>2, <3>2, <3>3
  <2>3. ExplainType' /\ WithinBudget' /\ Grounded'
    BY <2>1, <2>2 DEF ExplainInv, ExplainType, WithinBudget, Grounded
  <2>4. ExplainMatching'
    BY <2>1 DEF ExplainInv, ExplainMatching, RowMatches, CallMatches, Explaining!Same
  <2> QED BY <2>3, <2>4 DEF ExplainInv
<1>3. CASE Explaining!Midnight
  <2>1. UNCHANGED <<topic, subject, cache, budget, posted, call, crossed>> /\ today < LastDay[topic] /\ today' = today + 1
    BY <1>3 DEF Explaining!Midnight
  <2>2. today' \in 0..LastDay[topic] /\ topic \in Explaining!Topics
    BY <2>1, ExplanationSettings DEF Explaining!ExplanationAssumption, ExplainInv, ExplainType, Explaining!Topics, Explaining!Days
  <2>3. today' \in Explaining!Days
    BY <2>2 DEF Explaining!Days
  <2>4. ExplainType' /\ WithinBudget' /\ Grounded'
    BY <2>1, <2>3 DEF ExplainInv, ExplainType, WithinBudget, Grounded
  <2>5. ExplainMatching'
    BY <2>1 DEF ExplainInv, ExplainMatching, RowMatches, CallMatches, Explaining!Same
  <2> QED BY <2>4, <2>5 DEF ExplainInv
<1>4. CASE Explaining!Restart
  <2>1. /\ UNCHANGED <<topic, subject, cache, today, crossed>> /\ call' = [c \in Calls |-> Explaining!Idle]
        /\ budget' = [d \in Explaining!Days |-> 0] /\ posted' = [d \in Explaining!Days |-> 0]
    BY <1>4 DEF Explaining!Restart
  <2>2. ExplainType' /\ WithinBudget' /\ Grounded'
    BY <2>1, ExplanationSettings DEF Explaining!ExplanationAssumption, ExplainInv, ExplainType, WithinBudget, Grounded
  <2>3. ExplainMatching'
    BY <2>1 DEF ExplainInv, ExplainMatching, RowMatches, CallMatches, Explaining!Same
  <2> QED BY <2>2, <2>3 DEF ExplainInv
<1>5. CASE UNCHANGED Explaining!vars
  <2>1. UNCHANGED <<topic, subject, cache, budget, posted, today, call, crossed>>
    BY <1>5 DEF Explaining!vars
  <2>2. ExplainType' /\ WithinBudget' /\ Grounded'
    BY <2>1 DEF ExplainInv, ExplainType, WithinBudget, Grounded
  <2>3. ExplainMatching'
    BY <2>1 DEF ExplainInv, ExplainMatching, RowMatches, CallMatches, Explaining!Same
  <2> QED BY <2>2, <2>3 DEF ExplainInv
<1> QED BY <1>1, <1>2, <1>3, <1>4, <1>5, ExplainCallStep, AskStep DEF Explaining!Next, Explaining!Serve

\* The invariant of the model-backed endpoints, in the composition.
ExplainHolds == part = "explanations" => ExplainInv

\* The composition keeps it.
LEMMA ExplainKept == SurfaceSpec => []ExplainHolds
<1>1. SurfaceInit => ExplainHolds
    BY ExplainStart DEF SurfaceInit, ExplainHolds
<1>2. ExplainHolds /\ [SurfaceNext]_allvars => ExplainHolds'
  <2> SUFFICES ASSUME ExplainHolds, [SurfaceNext]_allvars, part' = "explanations" PROVE ExplainInv'
      BY DEF ExplainHolds
  <2>1. part = "explanations" /\ [Explaining!Next]_Explaining!vars
    BY DEF SurfaceNext, allvars, explainVars, Explaining!vars
  <2> QED BY <2>1, ExplainNext DEF ExplainHolds
<1> QED BY <1>1, <1>2, PTL DEF SurfaceSpec

\* What a request is served was validated on evidence with the key of its label, unless
\* the evidence of a detected event changed under a call.
THEOREM ExplanationsMatch == SurfaceSpec => []ExplanationMatches
<1>1. ExplainHolds => ExplanationMatches
    BY ExplainEnd DEF ExplainHolds, ExplanationMatches
<1> QED BY <1>1, ExplainKept, PTL

\* No more model calls leave on a day than the limit, and an answer is within its rounds,
\* rests on what its tools read: facts of its map time or before, whatever late notices
\* and corrections were retrieved since.
THEOREM AnswersGrounded == SurfaceSpec => []AnswerGrounded
<1>1. ExplainHolds => AnswerGrounded
    BY ExplainEnd DEF ExplainHolds, AnswerGrounded
<1> QED BY <1>1, ExplainKept, PTL

-----------------------------------------------------------------------------
(* The charging planner (LocalPlans). *)

\* What the settings say.
LEMMA PlanConstants ==
  /\ PerSlot \in Nat \ {0} /\ Durations \subseteq Nat \ {0}
  /\ MaxAge \in Int /\ Lookback \in Int /\ MaxAge <= Lookback /\ DefaultHorizon \in Int
  /\ \A c \in Curves : /\ IsFiniteSet(DOMAIN c) /\ DOMAIN c \subseteq Int
                       /\ \A k \in DOMAIN c : c[k] \in Nat
<1>1. \A S : Plans!IsFiniteSet(S) = IsFiniteSet(S)
    BY DEF Plans!IsFiniteSet, IsFiniteSet
<1>2. /\ PerSlot \in Nat \ {0} /\ Durations \subseteq Nat \ {0}
      /\ MaxAge \in Int /\ Lookback \in Int /\ MaxAge <= Lookback /\ DefaultHorizon \in Int
      /\ \A c \in Curves : /\ Plans!IsFiniteSet(DOMAIN c) /\ DOMAIN c \subseteq Int
                           /\ \A k \in DOMAIN c : c[k] \in Nat
    BY PlanSettings, Zenon DEF Plans!PlanAssumption
<1> QED BY <1>1, <1>2, Zenon

\* The smaller of two numbers, and the largest of finitely many.
LEMMA PlanExtremes ==
  /\ \A a, b \in Int : Plans!Min({a, b}) = IF a <= b THEN a ELSE b
  /\ \A S : S # {} /\ IsFiniteSet(S) /\ S \subseteq Int =>
              Plans!Max(S) \in S /\ \A x \in S : x <= Plans!Max(S)
<1>1. ASSUME NEW a \in Int, NEW b \in Int PROVE Plans!Min({a, b}) = IF a <= b THEN a ELSE b
  <2> DEFINE m == IF a <= b THEN a ELSE b
  <2>1. m \in {a, b} /\ \A x \in {a, b} : m <= x
    OBVIOUS
  <2>2. \A x \in {a, b} : (\A y \in {a, b} : x <= y) => x = m
    OBVIOUS
  <2>3. Plans!Min({a, b}) = CHOOSE x \in {a, b} : \A y \in {a, b} : x <= y
    BY DEF Plans!Min
  <2> HIDE DEF m
  <2>4. Plans!Min({a, b}) = m
    BY <2>1, <2>2, <2>3
  <2> QED BY <2>4 DEF m
<1>2. ASSUME NEW S, S # {}, IsFiniteSet(S), S \subseteq Int
      PROVE  Plans!Max(S) \in S /\ \A x \in S : x <= Plans!Max(S)
  <2>1. \E x \in S : \A y \in S : x >= y
    BY <1>2, GreatestOfFinite
  <2>2. Plans!Max(S) = CHOOSE x \in S : \A y \in S : x >= y
    BY DEF Plans!Max
  <2>3. Plans!Max(S) \in S /\ \A y \in S : Plans!Max(S) >= y
    BY <2>1, <2>2
  <2> QED BY <1>2, <2>3
<1> QED BY <1>1, <1>2

\* A tick lies in its slot.
LEMMA SlotOf ==
  ASSUME PerSlot \in Nat \ {0}, NEW t \in Int
  PROVE  /\ Plans!Slot(t) \in Int /\ Plans!Slot(t) * PerSlot \in Int
         /\ Plans!Slot(t) * PerSlot <= t /\ t < Plans!Slot(t) * PerSlot + PerSlot
         /\ (Plans!Slot(t) + 1) * PerSlot = Plans!Slot(t) * PerSlot + PerSlot
BY DEF Plans!Slot

\* Multiples of the slot are as far apart as their factors.
LEMMA Multiples ==
  ASSUME PerSlot \in Nat \ {0}, NEW k \in Int, NEW j \in Int
  PROVE  /\ k * PerSlot \in Int /\ k <= j => k * PerSlot <= j * PerSlot
         /\ k < j => k * PerSlot + PerSlot <= j * PerSlot
         /\ (k + j) * PerSlot = k * PerSlot + j * PerSlot
<1>1. k * PerSlot \in Int /\ j * PerSlot \in Int
    OBVIOUS
<1>2. k <= j => k * PerSlot <= j * PerSlot
  <2> SUFFICES ASSUME k <= j PROVE k * PerSlot <= j * PerSlot
    OBVIOUS
  <2>1. (j - k) * PerSlot >= 0 /\ (j - k) * PerSlot = j * PerSlot - k * PerSlot
    OBVIOUS
  <2> QED BY <1>1, <2>1
<1>3. k < j => k * PerSlot + PerSlot <= j * PerSlot
  <2> SUFFICES ASSUME k < j PROVE k * PerSlot + PerSlot <= j * PerSlot
    OBVIOUS
  <2>1. j - (k + 1) \in Nat
    OBVIOUS
  <2>2. (j - (k + 1)) * PerSlot >= 0
    BY <2>1
  <2>3. (j - (k + 1)) * PerSlot = j * PerSlot - (k * PerSlot + PerSlot)
    OBVIOUS
  <2> QED BY <1>1, <2>2, <2>3
<1>4. (k + j) * PerSlot = k * PerSlot + j * PerSlot
    OBVIOUS
<1> QED BY <1>1, <1>2, <1>3, <1>4

\* The slot of a tick is the one whose ticks it is among.
LEMMA SlotIs ==
  ASSUME PerSlot \in Nat \ {0}, NEW t \in Int, NEW k \in Int,
         k * PerSlot <= t, t < k * PerSlot + PerSlot
  PROVE  Plans!Slot(t) = k
<1> DEFINE s == Plans!Slot(t)
<1>1. s \in Int /\ s * PerSlot \in Int /\ s * PerSlot <= t /\ t < s * PerSlot + PerSlot
    BY SlotOf
<1> HIDE DEF s
<1>2. k * PerSlot \in Int
    OBVIOUS
<1>3. ~(s < k)
  <2>1. s < k => s * PerSlot + PerSlot <= k * PerSlot
    BY <1>1, Multiples
  <2> QED BY <1>1, <1>2, <2>1
<1>4. ~(k < s)
  <2>1. k < s => k * PerSlot + PerSlot <= s * PerSlot
    BY <1>1, Multiples
  <2> QED BY <1>1, <1>2, <2>1
<1> QED BY <1>1, <1>3, <1>4 DEF s

\* The ticks from a to b have an intensity, and what they add up to.
Covered(g, a, b) == \A t \in a..(b - 1) : Plans!Slot(t) \in DOMAIN g
IsForecast(g) == \A k \in DOMAIN g : g[k] \in Nat
Terms(g, a, b) == [t \in a..(b - 1) |-> g[Plans!Slot(t)]]
Burden(g, a, b) == SumOver(Terms(g, a, b), a..(b - 1))

\* What the property adds up.
LEMMA CarbonIs ==
  ASSUME NEW c, NEW a \in Int, NEW b \in Int
  PROVE  Plans!Carbon(c, a, b) = Burden(c.curve, a, b)
<1> DEFINE S == a..(b - 1)
           w == Terms(c.curve, a, b)
           Iterates(f) == f = [s \in SUBSET S |->
                                IF s = {} THEN 0
                                ELSE LET x == CHOOSE x \in s : TRUE
                                     IN  c.curve[Plans!Slot(x)] + f[s \ {x}]]
<1>1. Plans!Carbon(c, a, b) = (CHOOSE f : Iterates(f))[S]
    BY Zenon DEF Plans!Carbon, Plans!MapThenSumSet, Plans!MapThenFoldSet
<1>2. ASSUME NEW f PROVE Iterates(f) <=> SumsUp(f, w, S)
  <2>1. \A s \in SUBSET S : s # {} =>
          /\ Picks(S)[s] = CHOOSE x \in s : TRUE
          /\ w[CHOOSE x \in s : TRUE] = c.curve[Plans!Slot(CHOOSE x \in s : TRUE)]
    BY DEF Picks, Terms
  <2> DEFINE L(s) == IF s = {} THEN 0
                     ELSE LET x == CHOOSE x \in s : TRUE IN c.curve[Plans!Slot(x)] + f[s \ {x}]
             R(s) == IF s = {} THEN 0 ELSE w[Picks(S)[s]] + f[s \ {Picks(S)[s]}]
  <2>2. ASSUME NEW s \in SUBSET S PROVE L(s) = R(s)
    <3> DEFINE x == CHOOSE x \in s : TRUE
    <3>1. CASE s = {}
      BY <3>1
    <3>2. CASE s # {}
      <4>1. L(s) = c.curve[Plans!Slot(x)] + f[s \ {x}] /\ R(s) = w[Picks(S)[s]] + f[s \ {Picks(S)[s]}]
        BY <3>2
      <4>2. Picks(S)[s] = x /\ w[x] = c.curve[Plans!Slot(x)]
        BY <2>1, <3>2
      <4> HIDE DEF L, R, x, w, S
      <4> QED BY <4>1, <4>2
    <3> QED BY <3>1, <3>2
  <2>3. (f = [s \in SUBSET S |-> L(s)]) <=> f = [s \in SUBSET S |-> R(s)]
    <3> HIDE DEF L, R, S, w
    <3>1. [s \in SUBSET S |-> L(s)] = [s \in SUBSET S |-> R(s)]
      BY <2>2
    <3> QED BY <3>1
  <2> QED BY <2>3 DEF SumsUp
<1> HIDE DEF Iterates, w, S
<1>3. (CHOOSE f : Iterates(f)) = CHOOSE f : SumsUp(f, w, S)
    BY <1>2
<1> QED BY <1>1, <1>3 DEF SumOver, Burden, w, S

\* The first tick, and the others.
LEMMA BurdenStep ==
  ASSUME NEW g, IsForecast(g), NEW a \in Int, NEW b \in Int, Covered(g, a, b)
  PROVE  /\ Burden(g, a, b) \in Int
         /\ a >= b => Burden(g, a, b) = 0
         /\ a < b => /\ Burden(g, a, b) = g[Plans!Slot(a)] + Burden(g, a + 1, b)
                     /\ g[Plans!Slot(a)] \in Nat /\ Covered(g, a + 1, b)
<1> DEFINE S == a..(b - 1)
           w == Terms(g, a, b)
<1>1. IsFiniteSet(S) /\ \A x \in S : w[x] \in Nat /\ w[x] = g[Plans!Slot(x)] /\ x \in Int
    BY FS_Interval DEF Terms, IsForecast, Covered
<1>2. \A x \in S : w[x] \in Int
    BY <1>1
<1> HIDE DEF w
<1>3. SumOver(w, S) \in Int /\ (S = {} => SumOver(w, S) = 0)
  <2> HIDE DEF S
  <2> QED BY <1>1, <1>2, SumOfTerms
<1>4. ASSUME a < b PROVE /\ SumOver(w, S) = w[a] + Burden(g, a + 1, b)
                         /\ w[a] = g[Plans!Slot(a)] /\ w[a] \in Nat
  <2> DEFINE T == (a + 1)..(b - 1)
             v == Terms(g, a + 1, b)
  <2>1. a \in S /\ S \ {a} = T
    BY <1>4
  <2>2. SumOver(w, S) = w[a] + SumOver(w, S \ {a})
    <3> HIDE DEF S, T
    <3> QED BY <1>1, <1>2, <2>1, SumFrom
  <2>3. IsFiniteSet(T) /\ \A x \in T : w[x] \in Int
    BY <1>1, <1>2, <2>1, FS_Subset
  <2>4. \A x \in T : v[x] = w[x]
    BY <1>1, <2>1 DEF Terms
  <2> HIDE DEF T, v
  <2>5. SumOver(v, T) = SumOver(w, T)
    BY <2>3, <2>4, SumOfTerms
  <2> QED BY <1>1, <2>1, <2>2, <2>5 DEF Burden, T, v
<1>5. a >= b => S = {}
    OBVIOUS
<1>6. a < b => Covered(g, a + 1, b)
    BY DEF Covered
<1> QED BY <1>3, <1>4, <1>5, <1>6 DEF Burden, w

\* What ticks add up to is not below zero.
LEMMA BurdenNat ==
  ASSUME NEW g, IsForecast(g), NEW a \in Int, NEW b \in Int, Covered(g, a, b)
  PROVE  Burden(g, a, b) \in Nat
<1> DEFINE P == {n \in Nat : \A x \in Int : x + n = b /\ Covered(g, x, b) => Burden(g, x, b) \in Nat}
<1>1. 0 \in P
    BY BurdenStep
<1>2. ASSUME NEW n \in Nat, n \in P PROVE n + 1 \in P
  <2> SUFFICES ASSUME NEW x \in Int, x + (n + 1) = b, Covered(g, x, b)
               PROVE  Burden(g, x, b) \in Nat
    OBVIOUS
  <2>1. /\ Burden(g, x, b) = g[Plans!Slot(x)] + Burden(g, x + 1, b)
        /\ g[Plans!Slot(x)] \in Nat /\ Covered(g, x + 1, b)
    BY BurdenStep
  <2>2. Burden(g, x + 1, b) \in Nat
    BY <1>2, <2>1
  <2> QED BY <2>1, <2>2
<1>3. Nat \subseteq P
  <2> HIDE DEF P
  <2> QED BY <1>1, <1>2, NaturalsFrom
<1>4. CASE a <= b
  <2>1. b - a \in Nat /\ a + (b - a) = b
    BY <1>4
  <2>2. b - a \in P
    <3> HIDE DEF P
    <3> QED BY <1>3, <2>1
  <2> QED BY <2>1, <2>2
<1>5. CASE ~(a <= b)
  <2>1. Burden(g, a, b) = 0
    BY <1>5, BurdenStep
  <2> QED BY <2>1
<1> QED BY <1>4, <1>5

\* Ticks of one slot count as often as there are of them.
LEMMA BurdenRun ==
  ASSUME NEW g, IsForecast(g), NEW a \in Int, NEW e \in Int, NEW b \in Int, a <= e, e <= b,
         Covered(g, a, b), NEW k \in DOMAIN g, \A t \in a..(e - 1) : Plans!Slot(t) = k
  PROVE  Burden(g, a, b) = g[k] * (e - a) + Burden(g, e, b)
<1> DEFINE v == g[k]
           rest == Burden(g, e, b)
           P == {n \in Nat : \A x \in Int :
                   x + n = e /\ Covered(g, x, b) /\ (\A t \in x..(e - 1) : Plans!Slot(t) = k)
                     => Burden(g, x, b) = v * n + rest}
<1>1. v \in Nat /\ Covered(g, e, b)
    BY DEF IsForecast, Covered
<1>2. rest \in Nat
    BY <1>1, BurdenNat
<1> HIDE DEF v, rest
<1>3. 0 \in P
  <2> SUFFICES ASSUME NEW x \in Int, x + 0 = e PROVE Burden(g, x, b) = v * 0 + rest
    OBVIOUS
  <2>1. x = e /\ v * 0 + rest = rest
    BY <1>1, <1>2
  <2> QED BY <2>1 DEF rest
<1>4. ASSUME NEW n \in Nat, n \in P PROVE n + 1 \in P
  <2> SUFFICES ASSUME NEW x \in Int, x + (n + 1) = e, Covered(g, x, b),
                      \A t \in x..(e - 1) : Plans!Slot(t) = k
               PROVE  Burden(g, x, b) = v * (n + 1) + rest
    OBVIOUS
  <2>1. x < b /\ x \in x..(e - 1) /\ \A t \in (x + 1)..(e - 1) : t \in x..(e - 1)
    OBVIOUS
  <2>2. Burden(g, x, b) = g[Plans!Slot(x)] + Burden(g, x + 1, b) /\ Covered(g, x + 1, b)
    BY <2>1, BurdenStep
  <2>3. g[Plans!Slot(x)] = v
    BY <2>1 DEF v
  <2>4. Burden(g, x + 1, b) = v * n + rest
    <3>1. x + 1 \in Int /\ (x + 1) + n = e
      OBVIOUS
    <3> QED BY <1>4, <2>1, <2>2, <3>1
  <2>5. v * (n + 1) = v * n + v /\ v * n \in Int
    BY <1>1
  <2> HIDE DEF P
  <2> QED BY <1>1, <1>2, <2>2, <2>3, <2>4, <2>5
<1>5. Nat \subseteq P
  <2> HIDE DEF P
  <2> QED BY <1>3, <1>4, NaturalsFrom
<1>6. e - a \in P /\ a + (e - a) = e
    BY <1>5
<1>7. Burden(g, a, b) = v * (e - a) + rest
    BY <1>6
<1> QED BY <1>7 DEF v, rest

\* A part of a forecast adds up to the same.
LEMMA BurdenSame ==
  ASSUME NEW g, NEW h, IsForecast(h), NEW a \in Int, NEW b \in Int, Covered(h, a, b),
         \A k \in DOMAIN h : g[k] = h[k]
  PROVE  Burden(g, a, b) = Burden(h, a, b)
<1> DEFINE S == a..(b - 1)
           w == Terms(h, a, b)
           v == Terms(g, a, b)
<1>1. IsFiniteSet(S) /\ \A x \in S : w[x] \in Int /\ v[x] = w[x]
    BY FS_Interval DEF Terms, IsForecast, Covered
<1> HIDE DEF S, w, v
<1>2. SumOver(v, S) = SumOver(w, S)
    BY <1>1, SumOfTerms
<1> QED BY <1>2 DEF Burden, S, w, v

\* The walk of a window adds up its ticks, unless one is not covered (_window_at).
LEMMA TotalIs ==
  ASSUME NEW g, IsForecast(g), DOMAIN g \subseteq Int, NEW a \in Int, NEW b \in Int, a <= b
  PROVE  Plans!Total(g, a, b) = IF Covered(g, a, b) THEN Burden(g, a, b) ELSE Plans!Gap
<1> DEFINE at(c) == Plans!Slot(c)
           until(c) == Plans!Min({(Plans!Slot(c) + 1) * PerSlot, b})
           e == [c \in a..b |-> IF Covered(g, c, b) THEN Burden(g, c, b) ELSE Plans!Gap]
           IsWalk(f) ==
             f = [c \in a..b |->
                    IF c = b THEN 0
                    ELSE IF at(c) \notin DOMAIN g THEN Plans!Gap
                    ELSE IF f[until(c)] = Plans!Gap THEN Plans!Gap
                    ELSE g[at(c)] * (until(c) - c) + f[until(c)]]
<1>1. Plans!Total(g, a, b) = (CHOOSE f : IsWalk(f))[a]
    BY Zenon DEF Plans!Total
<1>2. Plans!Gap = -1 /\ PerSlot \in Nat \ {0}
    BY PlanConstants DEF Plans!Gap
<1>3. ASSUME NEW c \in a..b, c # b
      PROVE  /\ until(c) \in a..b /\ c < until(c) /\ until(c) \in Int
             /\ \A t \in c..(until(c) - 1) : Plans!Slot(t) = at(c)
  <2> DEFINE s == at(c)
             u == until(c)
  <2>1. c \in Int /\ c < b
    BY <1>3
  <2>2. /\ s \in Int /\ s * PerSlot \in Int /\ s * PerSlot <= c /\ c < s * PerSlot + PerSlot
        /\ (s + 1) * PerSlot = s * PerSlot + PerSlot
    BY <1>2, <2>1, SlotOf
  <2>3. u = IF s * PerSlot + PerSlot <= b THEN s * PerSlot + PerSlot ELSE b
    <3>1. s * PerSlot + PerSlot \in Int
      BY <1>2, <2>2
    <3> QED BY <2>2, <3>1, PlanExtremes
  <2> HIDE DEF s, u
  <2>4. u \in Int /\ c < u /\ u <= b /\ u <= s * PerSlot + PerSlot
    BY <1>2, <2>1, <2>2, <2>3
  <2>5. ASSUME NEW t \in c..(u - 1) PROVE Plans!Slot(t) = s
    <3>1. t \in Int /\ s * PerSlot <= t /\ t < s * PerSlot + PerSlot
      BY <1>2, <2>1, <2>2, <2>4
    <3> QED BY <1>2, <2>2, <3>1, SlotIs
  <2>6. u \in a..b
    BY <1>3, <2>1, <2>4
  <2> QED BY <2>4, <2>5, <2>6 DEF s, u
<1> HIDE DEF until
<1>4. \A c \in a..b : e[c] = IF c = b THEN 0
                            ELSE IF at(c) \notin DOMAIN g THEN Plans!Gap
                            ELSE IF e[until(c)] = Plans!Gap THEN Plans!Gap
                            ELSE g[at(c)] * (until(c) - c) + e[until(c)]
  <2> SUFFICES ASSUME NEW c \in a..b
               PROVE  e[c] = IF c = b THEN 0
                             ELSE IF at(c) \notin DOMAIN g THEN Plans!Gap
                             ELSE IF e[until(c)] = Plans!Gap THEN Plans!Gap
                             ELSE g[at(c)] * (until(c) - c) + e[until(c)]
    OBVIOUS
  <2>1. CASE c = b
    <3>1. Covered(g, b, b)
      BY DEF Covered
    <3>2. Burden(g, b, b) = 0
      BY <3>1, BurdenStep
    <3> QED BY <2>1, <3>1, <3>2
  <2>2. CASE c # b
    <3> DEFINE u == until(c)
               s == at(c)
    <3>1. u \in a..b /\ c < u /\ u \in Int /\ c \in Int /\ u <= b /\ \A t \in c..(u - 1) : Plans!Slot(t) = s
      BY <1>3, <2>2
    <3> HIDE DEF u, s
    <3>2. CASE s \notin DOMAIN g
      <4>1. c \in c..(b - 1) /\ c \in c..(u - 1)
        BY <2>2, <3>1
      <4>2. ~Covered(g, c, b)
        BY <3>1, <3>2, <4>1 DEF Covered
      <4> QED BY <2>2, <3>2, <4>2 DEF s
    <3>3. CASE s \in DOMAIN g
      <4>1. Covered(g, c, b) <=> Covered(g, u, b)
        <5>1. \A t \in c..(b - 1) : t \in c..(u - 1) \/ t \in u..(b - 1)
          BY <3>1
        <5>2. \A t \in u..(b - 1) : t \in c..(b - 1)
          BY <3>1
        <5> QED BY <3>1, <3>3, <5>1, <5>2 DEF Covered
      <4>2. e[u] = IF Covered(g, u, b) THEN Burden(g, u, b) ELSE Plans!Gap
        BY <3>1
      <4>3. CASE ~Covered(g, u, b)
        BY <2>2, <3>3, <4>1, <4>2, <4>3 DEF s, u
      <4>4. CASE Covered(g, u, b)
        <5>1. Burden(g, c, b) = g[s] * (u - c) + Burden(g, u, b)
          BY <3>1, <3>3, <4>1, <4>4, BurdenRun
        <5>2. Burden(g, u, b) \in Nat
          BY <3>1, <4>4, BurdenNat
        <5>3. Burden(g, u, b) # Plans!Gap
          BY <1>2, <5>2
        <5> QED BY <2>2, <3>3, <4>1, <4>2, <4>4, <5>1, <5>3 DEF s, u
      <4> QED BY <4>3, <4>4
    <3> QED BY <3>2, <3>3
  <2> QED BY <2>1, <2>2
<1> HIDE DEF at
<1>5. IsWalk(e)
  <2> DEFINE r(c) == IF c = b THEN 0
                     ELSE IF at(c) \notin DOMAIN g THEN Plans!Gap
                     ELSE IF e[until(c)] = Plans!Gap THEN Plans!Gap
                     ELSE g[at(c)] * (until(c) - c) + e[until(c)]
  <2>1. \A c \in a..b : e[c] = r(c)
    BY <1>4
  <2>2. e = [c \in a..b |-> e[c]]
    OBVIOUS
  <2> HIDE DEF r, e
  <2>3. e = [c \in a..b |-> r(c)]
    BY <2>1, <2>2
  <2> QED BY <2>3 DEF r
<1>6. ASSUME NEW f, IsWalk(f) PROVE f[a] = e[a]
  <2> DEFINE P == {n \in Nat : \A c \in a..b : b - c <= n => f[c] = e[c]}
  <2>1. \A c \in a..b : f[c] = IF c = b THEN 0
                              ELSE IF at(c) \notin DOMAIN g THEN Plans!Gap
                              ELSE IF f[until(c)] = Plans!Gap THEN Plans!Gap
                              ELSE g[at(c)] * (until(c) - c) + f[until(c)]
    BY <1>6, Zenon
  <2> HIDE DEF e
  <2>2. 0 \in P
    <3> SUFFICES ASSUME NEW c \in a..b, b - c <= 0 PROVE f[c] = e[c]
      OBVIOUS
    <3>1. c = b
      OBVIOUS
    <3> QED BY <1>4, <2>1, <3>1
  <2>3. ASSUME NEW n \in Nat, n \in P PROVE n + 1 \in P
    <3> SUFFICES ASSUME NEW c \in a..b, b - c <= n + 1 PROVE f[c] = e[c]
      OBVIOUS
    <3>1. CASE c = b
      BY <1>4, <2>1, <3>1
    <3>2. CASE c # b
      <4>1. until(c) \in a..b /\ c < until(c) /\ until(c) \in Int
        BY <1>3, <3>2
      <4>2. b - until(c) <= n
        BY <4>1
      <4>3. f[until(c)] = e[until(c)]
        BY <2>3, <4>1, <4>2
      <4> QED BY <1>4, <2>1, <4>3
    <3> QED BY <3>1, <3>2
  <2>4. Nat \subseteq P
    <3> HIDE DEF P
    <3> QED BY <2>2, <2>3, NaturalsFrom
  <2>5. b - a \in P /\ a \in a..b
    BY <2>4
  <2> QED BY <2>5
<1> HIDE DEF IsWalk, e
<1>7. IsWalk(CHOOSE f : IsWalk(f))
    BY <1>5
<1>8. Plans!Total(g, a, b) = e[a]
    BY <1>1, <1>6, <1>7
<1>9. e[a] = IF Covered(g, a, b) THEN Burden(g, a, b) ELSE Plans!Gap
    BY DEF e
<1> QED BY <1>8, <1>9

\* The window of d slots that begins with slot s is there.
Whole(g, s, d) == s..(s + d - 1) \subseteq DOMAIN g

\* Slots are there when their ticks are covered.
LEMMA CoversSlots ==
  ASSUME NEW g, NEW s \in Int, NEW d \in Nat \ {0}, NEW a \in Int, NEW b \in Int,
         a = s * PerSlot, b = s * PerSlot + d * PerSlot
  PROVE  Covered(g, a, b) <=> Whole(g, s, d)
<1>1. PerSlot \in Nat \ {0}
    BY PlanConstants
<1>2. b = (s + d) * PerSlot /\ (s + d) \in Int
    BY <1>1, Multiples
<1>3. ASSUME Whole(g, s, d), NEW t \in a..(b - 1)
      PROVE  Plans!Slot(t) \in DOMAIN g
  <2> DEFINE k == Plans!Slot(t)
  <2>1. t \in Int /\ a <= t /\ t < b
    OBVIOUS
  <2>2. k \in Int /\ k * PerSlot \in Int /\ k * PerSlot <= t /\ t < k * PerSlot + PerSlot
    BY <1>1, <2>1, SlotOf
  <2> HIDE DEF k
  <2>3. k < s => k * PerSlot + PerSlot <= a
    BY <1>1, <2>2, Multiples
  <2>4. s + d <= k => b <= k * PerSlot
    BY <1>1, <1>2, <2>2, Multiples
  <2>5. s <= k /\ k < s + d
    BY <1>1, <1>2, <2>1, <2>2, <2>3, <2>4
  <2>6. k \in s..(s + d - 1)
    BY <2>2, <2>5
  <2> QED BY <1>3, <2>6 DEF Whole, k
<1>4. ASSUME Covered(g, a, b), NEW k \in s..(s + d - 1)
      PROVE  k \in DOMAIN g
  <2>1. k \in Int /\ s <= k /\ k < s + d
    OBVIOUS
  <2>2. PICK t \in Int : t = k * PerSlot
    BY <1>1, <2>1
  <2>3. a <= t /\ t + PerSlot <= b
    BY <1>1, <1>2, <2>1, <2>2, Multiples
  <2>4. Plans!Slot(t) = k
    BY <1>1, <2>1, <2>2, SlotIs
  <2>5. t \in a..(b - 1)
    BY <1>1, <2>3
  <2> QED BY <1>4, <2>4, <2>5 DEF Covered
<1>5. Whole(g, s, d) => Covered(g, a, b)
    BY <1>3, Zenon DEF Covered
<1>6. Covered(g, a, b) => Whole(g, s, d)
    BY <1>4 DEF Whole
<1> QED BY <1>5, <1>6

\* The same of the ticks of a window.
LEMMA CoversWhole ==
  ASSUME NEW g, NEW s \in Int, NEW d \in Nat \ {0}
  PROVE  Covered(g, s * PerSlot, s * PerSlot + d * PerSlot) <=> Whole(g, s, d)
<1>1. /\ s * PerSlot \in Int /\ s * PerSlot + d * PerSlot \in Int
    BY PlanConstants
<1> QED BY <1>1, CoversSlots, Zenon

\* So are the slots of any ticks.
LEMMA CoversNow ==
  ASSUME NEW g, NEW a \in Int, NEW b \in Int, a < b, Covered(g, a, b)
  PROVE  Plans!Slot(a)..Plans!Slot(b - 1) \subseteq DOMAIN g
<1>1. PerSlot \in Nat \ {0}
    BY PlanConstants
<1> SUFFICES ASSUME NEW k \in Plans!Slot(a)..Plans!Slot(b - 1) PROVE k \in DOMAIN g
    OBVIOUS
<1> DEFINE x == Plans!Slot(a)
           y == Plans!Slot(b - 1)
<1>2. /\ x \in Int /\ x * PerSlot \in Int /\ a < x * PerSlot + PerSlot
      /\ y \in Int /\ y * PerSlot \in Int /\ y * PerSlot <= b - 1
    BY <1>1, SlotOf, b - 1 \in Int
<1> HIDE DEF x, y
<1>3. k \in Int /\ x <= k /\ k <= y
    BY <1>2 DEF x, y
<1>4. k * PerSlot \in Int /\ x * PerSlot <= k * PerSlot /\ k * PerSlot <= y * PerSlot
    BY <1>1, <1>2, <1>3, Multiples
<1>5. CASE k * PerSlot <= a
  <2>1. Plans!Slot(a) = k
    <3>1. a < k * PerSlot + PerSlot
      BY <1>1, <1>2, <1>4
    <3> QED BY <1>1, <1>3, <1>5, <3>1, SlotIs
  <2>2. a \in a..(b - 1)
    OBVIOUS
  <2> QED BY <2>1, <2>2 DEF Covered
<1>6. CASE ~(k * PerSlot <= a)
  <2>1. Plans!Slot(k * PerSlot) = k
    <3>1. k * PerSlot < k * PerSlot + PerSlot /\ k * PerSlot <= k * PerSlot
      BY <1>1, <1>4
    <3> QED BY <1>1, <1>3, <1>4, <3>1, SlotIs
  <2>2. k * PerSlot \in a..(b - 1)
    BY <1>2, <1>4, <1>6
  <2> QED BY <2>1, <2>2 DEF Covered
<1> QED BY <1>5, <1>6

\* The starts of the whole windows of g from slot e to slot n, and what one adds up to.
Starts(g, d, e, n) == {s \in e..(n - d) : Whole(g, s, d)}
Cost(g, d, s) == Burden(g, s * PerSlot, s * PerSlot + d * PerSlot)

\* What a plan recommends is the first of the windows that cost least, and it is compared
\* with starting now when that is covered (plan_flexible_use, _compare_start_now).
LEMMA PlanIs ==
  ASSUME now \in Int, NEW v, IsForecast(v.points), DOMAIN v.points \subseteq Int,
         NEW d \in Nat \ {0}, NEW e \in Int, NEW n \in Int
  PROVE  LET p == Plans!Plan(v, d, e, n)
             W == Starts(v.points, d, e, n)
             length == d * PerSlot
             nowCost == Burden(v.points, now, now + length)
         IN  /\ p.earliest = e /\ p.latest = n /\ p.duration = d
             /\ W = {} => p.status = "insufficient"
             /\ W # {} => /\ p.status \in {"lower", "similar", "found"}
                          /\ p.capture = v.at /\ p.start \in W
                          /\ \A s \in W : Cost(v.points, d, p.start) < Cost(v.points, d, s)
                               \/ (Cost(v.points, d, p.start) = Cost(v.points, d, s) /\ p.start <= s)
                          /\ p.status = "lower" =>
                               /\ Covered(v.points, now, now + length)
                               /\ nowCost - Cost(v.points, d, p.start) >= Absolute * length
                               /\ (nowCost - Cost(v.points, d, p.start)) * 100 >= Percent * nowCost
<1> DEFINE g == v.points
           length == d * PerSlot
           W == Starts(g, d, e, n)
           total == [s \in e..(n - d) |-> Plans!Total(g, s * PerSlot, s * PerSlot + length)]
           complete == {s \in DOMAIN total : total[s] # Plans!Gap}
           best == CHOOSE s \in complete : \A o \in complete :
                     total[s] < total[o] \/ (total[s] = total[o] /\ s <= o)
           now0 == Plans!Total(g, now, now + length)
           found == [status |-> Plans!Comparison(now0, total[best], length),
                     capture |-> v.at, start |-> best,
                     earliest |-> e, latest |-> n, duration |-> d]
           p == Plans!Plan(v, d, e, n)
<1>1. p = IF complete = {} THEN Plans!Refusal("insufficient", e, n, d) ELSE found
    BY DEF Plans!Plan
<1>2. PerSlot \in Nat \ {0} /\ length \in Nat /\ Plans!Gap = -1 /\ n - d \in Int
    BY PlanConstants DEF Plans!Gap
<1> HIDE DEF p, length
<1>3. ASSUME NEW s \in e..(n - d)
      PROVE  /\ s \in Int
             /\ s \in W => total[s] = Cost(g, d, s) /\ total[s] \in Nat
             /\ s \notin W => total[s] = Plans!Gap
  <2>1. s \in Int /\ s * PerSlot \in Int /\ s * PerSlot + length \in Int
        /\ s * PerSlot <= s * PerSlot + length
    BY <1>2
  <2>2. total[s] = IF Covered(g, s * PerSlot, s * PerSlot + length)
                   THEN Burden(g, s * PerSlot, s * PerSlot + length) ELSE Plans!Gap
    BY <2>1, TotalIs
  <2>3. Covered(g, s * PerSlot, s * PerSlot + length) <=> s \in W
    BY <2>1, CoversWhole DEF Starts, length
  <2> HIDE DEF total, W
  <2>4. s \in W => Burden(g, s * PerSlot, s * PerSlot + length) \in Nat
    BY <2>1, <2>3, BurdenNat
  <2> QED BY <2>1, <2>2, <2>3, <2>4 DEF Cost, length
<1>4. complete = W
  <2>1. \A s \in e..(n - d) : s \in W <=> total[s] # Plans!Gap
    <3> HIDE DEF total, W
    <3>1. \A s \in e..(n - d) : s \in W => total[s] \in Nat
      BY <1>3
    <3>2. \A x \in Nat : x # Plans!Gap
      BY <1>2
    <3> QED BY <1>3, <3>1, <3>2
  <2> QED BY <2>1 DEF Starts
<1>5. CASE W = {}
  <2>1. p = Plans!Refusal("insufficient", e, n, d)
    BY <1>1, <1>4, <1>5
  <2> QED BY <1>5, <2>1 DEF Plans!Refusal, p
<1>6. CASE W # {}
  <2>1. W \subseteq e..(n - d) /\ IsFiniteSet(W) /\ W \subseteq Int
    <3>1. IsFiniteSet(e..(n - d)) /\ e..(n - d) \subseteq Int
      BY <1>2, FS_Interval
    <3>2. W \subseteq e..(n - d)
      BY DEF Starts
    <3> QED BY <3>1, <3>2, FS_Subset
  <2> HIDE DEF W
  <2>2. p = found
    BY <1>1, <1>4, <1>6
  <2> HIDE DEF total, complete
  <2>3. \A s \in W : s \in Int /\ total[s] = Cost(g, d, s) /\ total[s] \in Nat
    BY <1>3, <2>1
  <2>4. \E s \in W : \A o \in W : total[s] < total[o] \/ (total[s] = total[o] /\ s <= o)
    <3> DEFINE h == [s \in W |-> -total[s]]
               i == [s \in W |-> -s]
    <3>1. \A s \in W : h[s] = -total[s] /\ h[s] \in Int /\ i[s] = -s /\ i[s] \in Int
      BY <2>3
    <3> HIDE DEF h, i
    <3>2. PICK x \in W : \A y \in W : h[y] <= h[x]
      BY <1>6, <2>1, <3>1, HighestOfFinite
    <3> DEFINE U == {s \in W : total[s] = total[x]}
    <3>3. x \in U /\ IsFiniteSet(U) /\ \A s \in U : i[s] \in Int
      BY <2>1, <3>1, FS_Subset
    <3>4. PICK m \in U : \A y \in U : i[y] <= i[m]
      <4> HIDE DEF U
      <4> QED BY <3>3, HighestOfFinite
    <3>5. ASSUME NEW o \in W PROVE total[m] < total[o] \/ (total[m] = total[o] /\ m <= o)
      <4>1. total[m] = total[x] /\ m \in W /\ total[x] <= total[o]
        <5>1. h[o] <= h[x] /\ h[o] = -total[o] /\ h[x] = -total[x]
          BY <3>1, <3>2
        <5> QED BY <2>3, <3>2, <5>1
      <4>2. CASE total[o] = total[x]
        <5>1. i[o] <= i[m] /\ i[o] = -o /\ i[m] = -m
          BY <3>1, <3>4, <4>1, <4>2
        <5> QED BY <2>3, <4>1, <4>2, <5>1
      <4>3. CASE total[o] # total[x]
        BY <2>3, <4>1, <4>3
      <4> QED BY <4>2, <4>3
    <3> QED BY <3>4, <3>5
  <2>5. best \in W /\ \A o \in W : total[best] < total[o] \/ (total[best] = total[o] /\ best <= o)
    <3>1. best = CHOOSE s \in W : \A o \in W : total[s] < total[o] \/ (total[s] = total[o] /\ s <= o)
      BY <1>4
    <3> HIDE DEF best
    <3> QED BY <2>4, <3>1
  <2> HIDE DEF best
  <2>6. /\ p.earliest = e /\ p.latest = n /\ p.duration = d /\ p.capture = v.at /\ p.start = best
        /\ p.status = Plans!Comparison(now0, total[best], length)
    BY <2>2
  <2>7. p.status \in {"lower", "similar", "found"}
    BY <2>6 DEF Plans!Comparison
  <2>8. now0 = IF Covered(g, now, now + length) THEN Burden(g, now, now + length) ELSE Plans!Gap
    <3>1. now + length \in Int /\ now <= now + length
      BY <1>2
    <3> QED BY <3>1, TotalIs
  <2> HIDE DEF now0, found
  <2>9. p.status = "lower" => /\ now0 # Plans!Gap
                              /\ now0 - total[best] >= Absolute * length
                              /\ (now0 - total[best]) * 100 >= Percent * now0
    BY <2>6 DEF Plans!Comparison
  <2>10. p.status = "lower" =>
           /\ Covered(g, now, now + length)
           /\ Burden(g, now, now + length) - Cost(g, d, best) >= Absolute * length
           /\ (Burden(g, now, now + length) - Cost(g, d, best)) * 100
                >= Percent * Burden(g, now, now + length)
    <3>1. total[best] = Cost(g, d, best)
      BY <2>3, <2>5
    <3> QED BY <2>8, <2>9, <3>1
  <2>11. \A s \in W : Cost(g, d, best) < Cost(g, d, s) \/ (Cost(g, d, best) = Cost(g, d, s) /\ best <= s)
    BY <2>3, <2>5
  <2> QED BY <1>6, <2>5, <2>6, <2>7, <2>10, <2>11 DEF p, length, W
<1> QED BY <1>5, <1>6

\* The next slot to begin is not before the one that runs.
LEMMA NextSlotIs ==
  ASSUME NEW t \in Int
  PROVE  Plans!Slot(t) \in Int /\ Plans!NextSlot(t) \in Int /\ Plans!Slot(t) <= Plans!NextSlot(t)
<1> DEFINE k == Plans!Slot(t)
           n == Plans!NextSlot(t)
<1>1. PerSlot \in Nat \ {0} /\ t + PerSlot - 1 \in Int
    BY PlanConstants
<1>2. k \in Int /\ k * PerSlot \in Int /\ k * PerSlot <= t
    BY <1>1, SlotOf
<1>3. n = Plans!Slot(t + PerSlot - 1)
    BY DEF Plans!NextSlot, Plans!Slot
<1>4. n \in Int /\ n * PerSlot \in Int /\ t + PerSlot - 1 < n * PerSlot + PerSlot
    BY <1>1, <1>3, SlotOf
<1> HIDE DEF k, n
<1>5. n < k => n * PerSlot + PerSlot <= k * PerSlot
    BY <1>1, <1>2, <1>4, Multiples
<1>6. k <= n
    BY <1>1, <1>2, <1>4, <1>5
<1> QED BY <1>2, <1>4, <1>6 DEF k, n

\* The part of a forecast that is read: the slots from this one to the last before L.
Rows(g, L) == [k \in DOMAIN g \cap (Plans!Slot(now)..(L - 1)) |-> g[k]]

\* What is read is a forecast too, and it holds every window of slots still to come.
LEMMA RowsAre ==
  ASSUME now \in Int, NEW g \in Curves, NEW L \in Int
  PROVE  /\ IsForecast(Rows(g, L)) /\ DOMAIN Rows(g, L) \subseteq Int /\ IsFiniteSet(DOMAIN Rows(g, L))
         /\ IsForecast(g) /\ \A k \in DOMAIN Rows(g, L) : k \in DOMAIN g /\ g[k] = Rows(g, L)[k]
         /\ \A s \in Int : \A d \in Nat \ {0} : Whole(Rows(g, L), s, d) => Whole(g, s, d)
         /\ \A s \in Int : \A d \in Nat \ {0} :
              Whole(g, s, d) /\ Plans!Slot(now) <= s /\ s + d <= L =>
                /\ Whole(Rows(g, L), s, d) /\ DOMAIN Rows(g, L) # {}
                /\ s + d <= Plans!Max(DOMAIN Rows(g, L)) + 1
<1> DEFINE D == DOMAIN g \cap (Plans!Slot(now)..(L - 1))
           r == Rows(g, L)
<1>1. IsFiniteSet(DOMAIN g) /\ DOMAIN g \subseteq Int /\ IsForecast(g)
    BY PlanConstants DEF IsForecast
<1>2. DOMAIN r = D /\ \A k \in D : r[k] = g[k]
    BY DEF Rows
<1>3. IsFiniteSet(D)
    BY <1>1, FS_Subset, D \subseteq DOMAIN g
<1>4. D \subseteq Int /\ D \subseteq DOMAIN g
    BY <1>1
<1>5. Plans!Slot(now) \in Int
    BY NextSlotIs
<1> HIDE DEF r
<1>6. IsForecast(r) /\ \A k \in DOMAIN r : k \in DOMAIN g /\ g[k] = r[k]
    BY <1>1, <1>2 DEF IsForecast
<1>7. ASSUME NEW s \in Int, NEW d \in Nat \ {0}, Whole(r, s, d) PROVE Whole(g, s, d)
    BY <1>2, <1>7 DEF Whole
<1>8. ASSUME NEW s \in Int, NEW d \in Nat \ {0}, Whole(g, s, d), Plans!Slot(now) <= s, s + d <= L
      PROVE  Whole(r, s, d) /\ DOMAIN r # {} /\ s + d <= Plans!Max(DOMAIN r) + 1
  <2>1. \A k \in s..(s + d - 1) : k \in DOMAIN g /\ k \in Plans!Slot(now)..(L - 1)
    BY <1>5, <1>8 DEF Whole
  <2>2. s..(s + d - 1) \subseteq D /\ s + d - 1 \in s..(s + d - 1)
    BY <2>1
  <2>3. s + d - 1 \in D
    BY <2>2
  <2> HIDE DEF D
  <2>4. Plans!Max(D) \in Int /\ s + d - 1 <= Plans!Max(D)
    BY <1>3, <1>4, <2>3, PlanExtremes
  <2> QED BY <1>2, <2>2, <2>3, <2>4 DEF Whole
<1> QED BY <1>2, <1>3, <1>4, <1>6, <1>7, <1>8, <1>1 DEF r

\* The windows of what is read, up to some slot before L, are those of the forecast.
LEMMA SameStarts ==
  ASSUME now \in Int, NEW g \in Curves, NEW L \in Int, NEW d \in Nat \ {0},
         NEW e \in Int, Plans!Slot(now) <= e, NEW n \in Int, n <= L
  PROVE  /\ Starts(Rows(g, L), d, e, n) = Starts(g, d, e, n)
         /\ \A s \in Starts(g, d, e, n) : s \in Int /\ Cost(g, d, s) = Cost(Rows(g, L), d, s)
<1> DEFINE r == Rows(g, L)
<1>1. ASSUME NEW s \in e..(n - d) PROVE Whole(r, s, d) <=> Whole(g, s, d)
  <2>1. s \in Int /\ Plans!Slot(now) <= s /\ s + d <= L
    BY NextSlotIs
  <2> QED BY <2>1, RowsAre
<1> HIDE DEF r
<1>2. Starts(r, d, e, n) = Starts(g, d, e, n)
    BY <1>1 DEF Starts
<1>3. ASSUME NEW s \in Starts(g, d, e, n) PROVE s \in Int /\ Cost(g, d, s) = Cost(r, d, s)
  <2>1. s \in Int /\ Whole(r, s, d)
    BY <1>1 DEF Starts
  <2> DEFINE a == s * PerSlot
             b == s * PerSlot + d * PerSlot
  <2>2. a \in Int /\ b \in Int
    BY <2>1, PlanConstants
  <2>3. Covered(r, a, b)
    BY <2>1, CoversWhole
  <2> HIDE DEF a, b
  <2>4. IsForecast(r) /\ \A k \in DOMAIN r : g[k] = r[k]
    BY RowsAre DEF r
  <2>5. Burden(g, a, b) = Burden(r, a, b)
    BY <2>2, <2>3, <2>4, BurdenSame
  <2> QED BY <2>1, <2>5 DEF Cost, a, b
<1> QED BY <1>2, <1>3 DEF r

\* The captures are in the order of their times.
PlanType ==
  /\ now \in Int
  /\ captures \in Seq([at : Int, curve : Curves])
  /\ \A i, j \in DOMAIN captures : i < j => captures[i].at < captures[j].at

\* What is read of the captures.
LEMMA VintagesAre ==
  ASSUME NEW L \in Int
  PROVE  LET V == Plans!Vintages(L)
             I == {j \in DOMAIN captures : now - captures[j].at <= Lookback
                                           /\ DOMAIN Rows(captures[j].curve, L) # {}}
         IN  /\ DOMAIN V = I
             /\ \A i \in I : V[i].at = captures[i].at /\ V[i].points = Rows(captures[i].curve, L)
BY DEF Plans!Vintages, Plans!Restrict, Rows

\* Where the search of a vintage ends (_plan_vintage).
Finish(v, L, defaulted) == IF defaulted THEN Plans!Min({L, Plans!HorizonEnd(v)}) ELSE L

\* The first vintage, newest first, with a plan; or else the newest that reaches far enough.
LEMMA SelectIs ==
  ASSUME NEW V, DOMAIN V \subseteq Int, IsFiniteSet(DOMAIN V),
         NEW d, NEW e, NEW L, NEW defaulted \in BOOLEAN
  PROVE  LET p == Plans!Select(V, d, e, L, defaulted)
             plan(i) == Plans!Plan(V[i], d, e, Finish(V[i], L, defaulted))
             tried == {i \in DOMAIN V : Finish(V[i], L, defaulted) - e >= d}
         IN  \/ /\ tried = {}
                /\ \E r \in {"short", "unusable"} : p = Plans!Refusal(r, e, L, d)
             \/ \E i \in tried :
                  /\ p = plan(i)
                  /\ plan(i).status # "insufficient" =>
                       \A j \in tried : i < j => plan(j).status = "insufficient"
                  /\ plan(i).status = "insufficient" =>
                       \A j \in tried : plan(j).status = "insufficient"
<1> DEFINE p == Plans!Select(V, d, e, L, defaulted)
           plan(i) == Plans!Plan(V[i], d, e, Finish(V[i], L, defaulted))
           tried == {i \in DOMAIN V : Finish(V[i], L, defaulted) - e >= d}
           usable == {i \in tried : plan(i).status # "insufficient"}
           chosen == Plans!Max(IF usable # {} THEN usable ELSE tried)
<1>1. p = IF tried = {}
          THEN Plans!Refusal(IF defaulted THEN "short" ELSE "unusable", e, L, d)
          ELSE plan(chosen)
    BY Zenon DEF Plans!Select, Finish
<1> HIDE DEF p, plan
<1>2. tried \subseteq Int /\ IsFiniteSet(tried)
    BY FS_Subset, tried \subseteq DOMAIN V
<1>3. CASE tried = {}
  <2>1. p = Plans!Refusal(IF defaulted THEN "short" ELSE "unusable", e, L, d)
    BY <1>1, <1>3
  <2>2. (IF defaulted THEN "short" ELSE "unusable") \in {"short", "unusable"}
    OBVIOUS
  <2>3. \E r \in {"short", "unusable"} : p = Plans!Refusal(r, e, L, d)
    BY <2>1, <2>2, Zenon
  <2> QED BY <1>3, <2>3 DEF p, tried
<1>4. CASE usable # {}
  <2>1. usable \subseteq Int /\ IsFiniteSet(usable) /\ usable \subseteq tried
    BY <1>2, FS_Subset
  <2>2. chosen = Plans!Max(usable)
    BY <1>4
  <2> HIDE DEF chosen, tried
  <2>3. chosen \in usable /\ \A j \in usable : j <= chosen
    <3> HIDE DEF usable
    <3> QED BY <1>4, <2>1, <2>2, PlanExtremes
  <2>4. chosen \in tried /\ plan(chosen).status # "insufficient"
    BY <2>3
  <2>5. \A j \in tried : chosen < j => plan(j).status = "insufficient"
    <3> SUFFICES ASSUME NEW j \in tried, chosen < j PROVE ~(plan(j).status # "insufficient")
      OBVIOUS
    <3>1. j \in Int /\ chosen \in Int /\ j \notin usable
      <4> HIDE DEF usable
      <4> QED BY <1>2, <2>3, <2>4
    <3> QED BY <3>1
  <2>6. p = plan(chosen)
    BY <1>1, <2>4
  <2> QED BY <2>4, <2>5, <2>6 DEF p, plan, tried
<1>5. CASE usable = {} /\ tried # {}
  <2>1. chosen = Plans!Max(tried)
    BY <1>5
  <2>2. \A j \in tried : plan(j).status = "insufficient"
    BY <1>5
  <2> HIDE DEF chosen, usable
  <2>3. chosen \in tried
    <3> HIDE DEF tried
    <3> QED BY <1>2, <1>5, <2>1, PlanExtremes
  <2>4. p = plan(chosen)
    BY <1>1, <1>5
  <2> QED BY <2>2, <2>3, <2>4 DEF p, plan, tried
<1> QED BY <1>3, <1>4, <1>5 DEF p, plan, tried

Recommended == {"lower", "similar", "found"}
Refused == {"missing", "stale", "short", "unusable", "insufficient"}

\* The windows of a capture within the bounds of an answer.
Within(a, c) == Starts(c.curve, a.duration, a.earliest, a.latest)

\* The answer a, given at time n, recommends the best window of capture i of cs.
BestOf(a, n, cs, i) ==
  LET g == cs[i].curve
      length == a.duration * PerSlot
      best == Cost(g, a.duration, a.start)
  IN  /\ cs[i].at = a.capture /\ a.start \in Within(a, cs[i])
      /\ \A s \in Within(a, cs[i]) :
           best < Cost(g, a.duration, s) \/ (best = Cost(g, a.duration, s) /\ a.start <= s)
      /\ \A j \in (i + 1)..Len(cs) : Within(a, cs[j]) = {}
      /\ a.status = "lower" =>
           /\ Covered(g, n, n + length)
           /\ Burden(g, n, n + length) - best >= Absolute * length
           /\ (Burden(g, n, n + length) - best) * 100 >= Percent * Burden(g, n, n + length)

IsFresh(n, c) == n - c.at <= MaxAge

Best(a, n, cs) ==
  /\ a.status \in Recommended \cup Refused =>
       a.duration \in Nat \ {0} /\ a.earliest \in Int /\ a.latest \in Int
  /\ a.status \in Recommended => \E i \in DOMAIN cs : IsFresh(n, cs[i]) /\ BestOf(a, n, cs, i)
  /\ a.status \in Refused => \A i \in DOMAIN cs : IsFresh(n, cs[i]) => Within(a, cs[i]) = {}

\* A promise kept is what the property says.
LEMMA BestIsBestPlan == PlanType /\ Best(answer, now, captures) => Plans!PlanIsBest
<1> SUFFICES ASSUME PlanType, Best(answer, now, captures) PROVE Plans!PlanIsBest
    OBVIOUS
<1>1. \A i \in DOMAIN captures : i \in Plans!Fresh <=> IsFresh(now, captures[i])
    BY DEF Plans!Fresh, IsFresh
<1>2. \A c : Plans!Windows(c) = Within(answer, c)
    BY DEF Plans!Windows, Within, Starts, Whole
<1>3. ASSUME answer.status \in Recommended
      PROVE  \E i \in Plans!Fresh :
        LET c == captures[i]
            length == answer.duration * PerSlot
            delta == Plans!Carbon(c, now, now + length) - Plans!Of(c, answer.start)
        IN  /\ c.at = answer.capture
            /\ answer.start \in Plans!Windows(c)
            /\ \A s \in Plans!Windows(c) :
                 \/ Plans!Of(c, answer.start) < Plans!Of(c, s)
                 \/ Plans!Of(c, answer.start) = Plans!Of(c, s) /\ answer.start <= s
            /\ \A j \in (i + 1)..Len(captures) : Plans!Windows(captures[j]) = {}
            /\ answer.status = "lower" =>
                 /\ Plans!Slot(now)..Plans!Slot(now + length - 1) \subseteq DOMAIN c.curve
                 /\ delta >= Absolute * length
                 /\ delta * 100 >= Percent * Plans!Carbon(c, now, now + length)
  <2> DEFINE d == answer.duration
             length == d * PerSlot
  <2>1. d \in Nat \ {0} /\ answer.earliest \in Int /\ answer.latest \in Int
    BY <1>3 DEF Best
  <2>2. length \in Nat \ {0} /\ now \in Int /\ now + length \in Int /\ now < now + length
    BY <2>1, PlanConstants DEF PlanType
  <2>3. PICK i \in DOMAIN captures : IsFresh(now, captures[i]) /\ BestOf(answer, now, captures, i)
    BY <1>3 DEF Best
  <2> DEFINE c == captures[i]
             g == captures[i].curve
  <2>4. ASSUME NEW s \in Within(answer, c) PROVE Plans!Of(c, s) = Cost(g, d, s)
    <3>1. s \in Int
      BY <2>1 DEF Within, Starts
    <3>2. (s + d) * PerSlot = s * PerSlot + d * PerSlot /\ s * PerSlot \in Int
          /\ (s + d) * PerSlot \in Int
      BY <2>1, <3>1, PlanConstants, Multiples
    <3>3. Plans!Of(c, s) = Plans!Carbon(c, s * PerSlot, (s + d) * PerSlot)
      BY DEF Plans!Of
    <3>4. Plans!Carbon(c, s * PerSlot, (s + d) * PerSlot) = Burden(g, s * PerSlot, (s + d) * PerSlot)
      BY <3>2, CarbonIs, Zenon
    <3> QED BY <3>2, <3>3, <3>4 DEF Cost
  <2>5. Plans!Carbon(c, now, now + length) = Burden(g, now, now + length)
    BY <2>2, CarbonIs, Zenon
  <2>6. Covered(g, now, now + length) =>
          Plans!Slot(now)..Plans!Slot(now + length - 1) \subseteq DOMAIN g
    <3> HIDE DEF length, g
    <3> QED BY <2>2, CoversNow
  <2>7. answer.start \in Within(answer, c) /\ c.at = answer.capture
    BY <2>3 DEF BestOf
  <2>8. \A s \in Within(answer, c) :
          \/ Cost(g, d, answer.start) < Cost(g, d, s)
          \/ Cost(g, d, answer.start) = Cost(g, d, s) /\ answer.start <= s
    BY <2>3 DEF BestOf
  <2>9. \A j \in (i + 1)..Len(captures) : Within(answer, captures[j]) = {}
    BY <2>3 DEF BestOf
  <2>10. answer.status = "lower" =>
           /\ Covered(g, now, now + length)
           /\ Burden(g, now, now + length) - Cost(g, d, answer.start) >= Absolute * length
           /\ (Burden(g, now, now + length) - Cost(g, d, answer.start)) * 100
                >= Percent * Burden(g, now, now + length)
    BY <2>3 DEF BestOf
  <2>11. i \in Plans!Fresh
    BY <1>1, <2>3
  <2> HIDE DEF c, g, length
  <2>12. \A s \in Plans!Windows(c) :
           \/ Plans!Of(c, answer.start) < Plans!Of(c, s)
           \/ Plans!Of(c, answer.start) = Plans!Of(c, s) /\ answer.start <= s
    BY <1>2, <2>4, <2>7, <2>8
  <2>13. answer.status = "lower" =>
           /\ Plans!Slot(now)..Plans!Slot(now + length - 1) \subseteq DOMAIN g
           /\ Plans!Carbon(c, now, now + length) - Plans!Of(c, answer.start) >= Absolute * length
           /\ (Plans!Carbon(c, now, now + length) - Plans!Of(c, answer.start)) * 100
                >= Percent * Plans!Carbon(c, now, now + length)
    BY <2>4, <2>5, <2>6, <2>7, <2>10
  <2>14. /\ c.at = answer.capture /\ answer.start \in Plans!Windows(c)
         /\ \A j \in (i + 1)..Len(captures) : Plans!Windows(captures[j]) = {}
    BY <1>2, <2>7, <2>9
  <2> QED BY <2>11, <2>12, <2>13, <2>14, Zenon DEF c, g, length
<1>4. answer.status \in Refused => \A i \in Plans!Fresh : Plans!Windows(captures[i]) = {}
    BY <1>1, <1>2 DEF Best, Plans!Fresh
<1> QED BY <1>3, <1>4 DEF Plans!PlanIsBest, Recommended, Refused

\* An answer, computed now from the captures, keeps its promise (plan_local_windows).
LEMMA AnswerKeepsPromise ==
  ASSUME PlanType, NEW d \in Nat \ {0}, NEW e \in Int, NEW L \in Int, NEW defaulted \in BOOLEAN,
         Plans!Slot(now) <= e
  PROVE  Best(Plans!Answer(d, e, L, defaulted), now, captures)
<1> DEFINE V == Plans!Vintages(L)
           fresh == Plans!Restrict(V, {i \in DOMAIN V : now - V[i].at <= MaxAge})
           F == {i \in DOMAIN captures : IsFresh(now, captures[i])
                                         /\ DOMAIN Rows(captures[i].curve, L) # {}}
           a == Plans!Answer(d, e, L, defaulted)
           end(i) == Finish(fresh[i], L, defaulted)
           plan(i) == Plans!Plan(fresh[i], d, e, end(i))
           tried == {i \in F : end(i) - e >= d}
<1>1. /\ now \in Int /\ \A i \in DOMAIN captures : i \in Int /\ i \in 1..Len(captures)
                            /\ captures[i].at \in Int /\ captures[i].curve \in Curves
      /\ DOMAIN captures = 1..Len(captures) /\ Len(captures) \in Nat
  <2>1. captures \in Seq([at : Int, curve : Curves]) /\ now \in Int
    BY DEF PlanType
  <2>2. DOMAIN captures = 1..Len(captures) /\ Len(captures) \in Nat
    BY <2>1
  <2>3. \A i \in 1..Len(captures) : captures[i] \in [at : Int, curve : Curves]
    <3> DEFINE R == [at : Int, curve : Curves]
    <3>1. captures \in Seq(R)
      BY <2>1
    <3> HIDE DEF R
    <3>2. \A i \in 1..Len(captures) : captures[i] \in R
      BY <3>1
    <3> QED BY <3>2 DEF R
  <2> QED BY <2>1, <2>2, <2>3
<1> SUFFICES Best(a, now, captures)
    OBVIOUS
<1>2. /\ a = IF DOMAIN V = {} THEN Plans!Refusal("missing", e, L, d)
             ELSE IF DOMAIN fresh = {} THEN Plans!Refusal("stale", e, L, d)
             ELSE Plans!Select(fresh, d, e, L, defaulted)
    BY Zenon DEF Plans!Answer
<1>3. /\ DOMAIN fresh = F /\ F \subseteq DOMAIN V
      /\ \A i \in F : fresh[i].at = captures[i].at /\ fresh[i].points = Rows(captures[i].curve, L)
  <2> DEFINE I == {j \in DOMAIN captures : now - captures[j].at <= Lookback
                                           /\ DOMAIN Rows(captures[j].curve, L) # {}}
  <2>1. /\ DOMAIN V = I
        /\ \A i \in I : V[i].at = captures[i].at /\ V[i].points = Rows(captures[i].curve, L)
    BY VintagesAre
  <2> HIDE DEF V
  <2>2. \A i \in DOMAIN captures : IsFresh(now, captures[i]) => now - captures[i].at <= Lookback
    BY <1>1, PlanConstants DEF IsFresh
  <2>3. F = {i \in DOMAIN V : now - V[i].at <= MaxAge}
    BY <2>1, <2>2 DEF IsFresh
  <2> HIDE DEF F, I
  <2>4. DOMAIN fresh = DOMAIN V \cap F /\ \A i \in F : i \in DOMAIN V => fresh[i] = V[i]
    BY <2>3 DEF Plans!Restrict
  <2>5. F \subseteq I /\ F \subseteq DOMAIN V
    BY <2>1, <2>3
  <2> QED BY <2>1, <2>4, <2>5
<1> HIDE DEF V, fresh, a
\* A fresh capture with a window in sight is tried, as far as that window at least.
<1>4. ASSUME NEW i \in F PROVE end(i) \in Int /\ end(i) <= L
  <2>1. /\ DOMAIN fresh[i].points \subseteq Int /\ IsFiniteSet(DOMAIN fresh[i].points)
        /\ DOMAIN fresh[i].points # {}
    <3>1. captures[i].curve \in Curves /\ DOMAIN Rows(captures[i].curve, L) # {}
      BY <1>1
    <3>2. DOMAIN Rows(captures[i].curve, L) \subseteq Int /\ IsFiniteSet(DOMAIN Rows(captures[i].curve, L))
      BY <1>1, <3>1, RowsAre
    <3>3. fresh[i].points = Rows(captures[i].curve, L)
      BY <1>3
    <3> QED BY <3>1, <3>2, <3>3
  <2>2. Plans!HorizonEnd(fresh[i]) \in Int
    BY <2>1, PlanExtremes DEF Plans!HorizonEnd
  <2> QED BY <2>2, PlanExtremes DEF Finish
<1>5. ASSUME NEW j \in DOMAIN captures, IsFresh(now, captures[j]), NEW n \in Int, n <= L,
             NEW s \in Starts(captures[j].curve, d, e, n)
      PROVE  j \in tried /\ s + d <= end(j)
  <2> DEFINE g == captures[j].curve
  <2>1. s \in Int /\ e <= s /\ s + d <= n /\ Whole(g, s, d)
    BY DEF Starts
  <2>2. g \in Curves /\ Plans!Slot(now) \in Int
    BY <1>1, NextSlotIs
  <2>3. Plans!Slot(now) <= s /\ s + d <= L
    BY <1>5, <2>1, <2>2
  <2> HIDE DEF g
  <2>4. DOMAIN Rows(g, L) # {} /\ s + d <= Plans!Max(DOMAIN Rows(g, L)) + 1
        /\ IsFiniteSet(DOMAIN Rows(g, L)) /\ DOMAIN Rows(g, L) \subseteq Int
    BY <1>1, <2>1, <2>2, <2>3, RowsAre
  <2>5. j \in F
    BY <1>5, <2>4 DEF g
  <2>6. s + d <= Plans!HorizonEnd(fresh[j]) /\ Plans!HorizonEnd(fresh[j]) \in Int
    <3>1. fresh[j].points = Rows(g, L)
      BY <1>3, <2>5 DEF g
    <3>2. Plans!HorizonEnd(fresh[j]) = Plans!Max(DOMAIN Rows(g, L)) + 1
      BY <3>1 DEF Plans!HorizonEnd
    <3>3. Plans!Max(DOMAIN Rows(g, L)) \in Int
      BY <2>4, PlanExtremes
    <3> QED BY <2>4, <3>2, <3>3
  <2>7. s + d <= end(j) /\ end(j) \in Int
    BY <1>4, <2>1, <2>3, <2>5, <2>6, PlanExtremes DEF Finish
  <2>8. end(j) - e >= d
    <3> HIDE DEF end
    <3> QED BY <2>1, <2>7
  <2> QED BY <2>5, <2>7, <2>8
\* The plan of a vintage that is tried, in terms of its capture.
<1>6. ASSUME NEW i \in F
      PROVE  LET g == captures[i].curve
                 W == Starts(g, d, e, end(i))
                 length == d * PerSlot
             IN  /\ plan(i).earliest = e /\ plan(i).latest = end(i) /\ plan(i).duration = d
                 /\ W = {} => plan(i).status = "insufficient"
                 /\ W # {} =>
                      /\ plan(i).status \in Recommended
                      /\ plan(i).capture = captures[i].at /\ plan(i).start \in W
                      /\ \A s \in W : Cost(g, d, plan(i).start) < Cost(g, d, s)
                           \/ (Cost(g, d, plan(i).start) = Cost(g, d, s) /\ plan(i).start <= s)
                      /\ plan(i).status = "lower" =>
                           /\ Covered(g, now, now + length)
                           /\ Burden(g, now, now + length) - Cost(g, d, plan(i).start)
                                >= Absolute * length
                           /\ (Burden(g, now, now + length) - Cost(g, d, plan(i).start)) * 100
                                >= Percent * Burden(g, now, now + length)
  <2> DEFINE g == captures[i].curve
             r == Rows(g, L)
             n == end(i)
             W == Starts(g, d, e, n)
             length == d * PerSlot
             q == plan(i)
             v == fresh[i]
  <2>1. g \in Curves /\ n \in Int /\ n <= L /\ v.points = r /\ v.at = captures[i].at
    BY <1>1, <1>3, <1>4
  <2> HIDE DEF g, n, v
  <2>2. IsForecast(r) /\ DOMAIN r \subseteq Int /\ \A k \in DOMAIN r : k \in DOMAIN g /\ g[k] = r[k]
    BY <1>1, <2>1, RowsAre
  <2>3. Starts(r, d, e, n) = W /\ \A s \in W : s \in Int /\ Cost(g, d, s) = Cost(r, d, s)
    BY <1>1, <2>1, SameStarts
  <2>4. q = Plans!Plan(v, d, e, n)
    BY DEF v, n
  <2> HIDE DEF q, r, W, length
  <2>5. /\ q.earliest = e /\ q.latest = n /\ q.duration = d
        /\ W = {} => q.status = "insufficient"
        /\ W # {} => /\ q.status \in Recommended
                     /\ q.capture = v.at /\ q.start \in W
                     /\ \A s \in W : Cost(r, d, q.start) < Cost(r, d, s)
                          \/ (Cost(r, d, q.start) = Cost(r, d, s) /\ q.start <= s)
                     /\ q.status = "lower" =>
                          /\ Covered(r, now, now + length)
                          /\ Burden(r, now, now + length) - Cost(r, d, q.start) >= Absolute * length
                          /\ (Burden(r, now, now + length) - Cost(r, d, q.start)) * 100
                               >= Percent * Burden(r, now, now + length)
    <3>1. IsForecast(v.points) /\ DOMAIN v.points \subseteq Int
      BY <2>1, <2>2
    <3>2. LET p == Plans!Plan(v, d, e, n)
              U == Starts(v.points, d, e, n)
              nowCost == Burden(v.points, now, now + d * PerSlot)
          IN  /\ p.earliest = e /\ p.latest = n /\ p.duration = d
              /\ U = {} => p.status = "insufficient"
              /\ U # {} => /\ p.status \in {"lower", "similar", "found"}
                           /\ p.capture = v.at /\ p.start \in U
                           /\ \A s \in U : Cost(v.points, d, p.start) < Cost(v.points, d, s)
                               \/ (Cost(v.points, d, p.start) = Cost(v.points, d, s) /\ p.start <= s)
                           /\ p.status = "lower" =>
                               /\ Covered(v.points, now, now + d * PerSlot)
                               /\ nowCost - Cost(v.points, d, p.start) >= Absolute * (d * PerSlot)
                               /\ (nowCost - Cost(v.points, d, p.start)) * 100 >= Percent * nowCost
      BY <1>1, <2>1, <3>1, PlanIs
    <3> QED BY <2>1, <2>3, <2>4, <3>2 DEF length, Recommended
  <2>6. Covered(r, now, now + length) =>
          Covered(g, now, now + length) /\ Burden(g, now, now + length) = Burden(r, now, now + length)
    <3>1. now + length \in Int
      BY <1>1, PlanConstants DEF length
    <3>2. Covered(r, now, now + length) => Covered(g, now, now + length)
      BY <2>2 DEF Covered
    <3>3. Covered(r, now, now + length) => Burden(g, now, now + length) = Burden(r, now, now + length)
      BY <1>1, <2>2, <3>1, BurdenSame
    <3> QED BY <3>2, <3>3
  <2>7. W # {} => \A s \in W : Cost(g, d, q.start) < Cost(g, d, s)
                          \/ (Cost(g, d, q.start) = Cost(g, d, s) /\ q.start <= s)
    BY <2>3, <2>5
  <2>8. W # {} /\ q.status = "lower" =>
          /\ Covered(g, now, now + length)
          /\ Burden(g, now, now + length) - Cost(g, d, q.start) >= Absolute * length
          /\ (Burden(g, now, now + length) - Cost(g, d, q.start)) * 100
               >= Percent * Burden(g, now, now + length)
    BY <2>3, <2>5, <2>6
  <2>9. W # {} => q.status \in Recommended /\ q.capture = captures[i].at /\ q.start \in W
    BY <2>1, <2>5
  <2>10. q.earliest = e /\ q.latest = n /\ q.duration = d /\ (W = {} => q.status = "insufficient")
    BY <2>5
  <2> QED BY <2>7, <2>8, <2>9, <2>10, Zenon DEF g, n, W, length, q
<1> HIDE DEF plan, end, F
\* Without a window in sight of the fresh captures there is nothing to recommend.
<1>7. ASSUME NEW r \in Refused, a = Plans!Refusal(r, e, L, d), tried = {}
      PROVE  Best(a, now, captures)
  <2>1. a.status = r /\ a.earliest = e /\ a.latest = L /\ a.duration = d
    BY <1>7 DEF Plans!Refusal
  <2>2. \A i \in DOMAIN captures : IsFresh(now, captures[i]) => Within(a, captures[i]) = {}
    BY <1>5, <1>7, <2>1 DEF Within
  <2> QED BY <2>1, <2>2 DEF Best, Refused, Recommended
<1>8. CASE DOMAIN V = {}
  <2>1. tried = {}
    BY <1>3, <1>8
  <2> QED BY <1>2, <1>7, <1>8, <2>1 DEF Refused
<1>9. CASE DOMAIN V # {} /\ DOMAIN fresh = {}
  <2>1. tried = {}
    BY <1>3, <1>9
  <2> QED BY <1>2, <1>7, <1>9, <2>1 DEF Refused
<1>10. CASE DOMAIN V # {} /\ DOMAIN fresh # {}
  <2>1. a = Plans!Select(fresh, d, e, L, defaulted)
    BY <1>2, <1>10
  <2>2. F \subseteq Int /\ IsFiniteSet(F)
    <3>1. IsFiniteSet(DOMAIN captures)
      BY <1>1, FS_Interval
    <3>2. F \subseteq DOMAIN captures
      BY DEF F
    <3> QED BY <1>1, <3>1, <3>2, FS_Subset
  <2>3. \/ tried = {} /\ \E r \in {"short", "unusable"} : a = Plans!Refusal(r, e, L, d)
        \/ \E i \in tried :
             /\ a = plan(i)
             /\ plan(i).status # "insufficient" =>
                  \A j \in tried : i < j => plan(j).status = "insufficient"
             /\ plan(i).status = "insufficient" =>
                  \A j \in tried : plan(j).status = "insufficient"
    BY <1>3, <2>1, <2>2, SelectIs DEF plan, end
  <2>4. CASE tried = {} /\ \E r \in {"short", "unusable"} : a = Plans!Refusal(r, e, L, d)
    BY <1>7, <2>4 DEF Refused
  <2>5. ASSUME NEW i \in tried, a = plan(i),
               plan(i).status # "insufficient" =>
                 \A j \in tried : i < j => plan(j).status = "insufficient",
               plan(i).status = "insufficient" =>
                 \A j \in tried : plan(j).status = "insufficient"
        PROVE  Best(a, now, captures)
    <3> DEFINE n == end(i)
               length == d * PerSlot
    <3>1. i \in F /\ i \in DOMAIN captures /\ IsFresh(now, captures[i]) /\ n \in Int /\ n <= L
      BY <1>4 DEF F
    <3>2. a.earliest = e /\ a.latest = n /\ a.duration = d
      BY <1>6, <2>5, <3>1
    <3> HIDE DEF tried, n
    \* A fresh capture with a window before n is tried and has a plan.
    <3>3. ASSUME NEW j \in DOMAIN captures, IsFresh(now, captures[j]), Within(a, captures[j]) # {}
          PROVE  j \in tried /\ plan(j).status # "insufficient"
      <4>1. PICK s \in Starts(captures[j].curve, d, e, n) : TRUE
        BY <3>2, <3>3 DEF Within
      <4>2. j \in tried /\ s + d <= end(j)
        BY <1>5, <3>1, <3>3
      <4>3. j \in F /\ end(j) \in Int
        BY <1>4, <4>2 DEF tried
      <4>4. s \in Starts(captures[j].curve, d, e, end(j))
        <5>1. s \in Int /\ e <= s /\ Whole(captures[j].curve, s, d)
          BY <3>1 DEF Starts
        <5>2. s \in e..(end(j) - d)
          BY <4>2, <4>3, <5>1
        <5> QED BY <5>1, <5>2 DEF Starts
      <4>5. plan(j).status \in Recommended
        BY <1>6, <4>3, <4>4
      <4> QED BY <4>2, <4>5 DEF Recommended
    <3>4. CASE plan(i).status = "insufficient"
      <4>1. \A j \in DOMAIN captures : IsFresh(now, captures[j]) => Within(a, captures[j]) = {}
        BY <2>5, <3>3, <3>4
      <4>2. a.status = "insufficient"
        BY <2>5, <3>4
      <4> QED BY <3>1, <3>2, <4>1, <4>2 DEF Best, Recommended, Refused
    <3>5. CASE plan(i).status # "insufficient"
      <4>1. Starts(captures[i].curve, d, e, n) # {} /\ Within(a, captures[i]) = Starts(captures[i].curve, d, e, n)
        BY <1>6, <3>1, <3>2, <3>5 DEF n, Within
      <4>2. ASSUME NEW j \in (i + 1)..Len(captures) PROVE Within(a, captures[j]) = {}
        <5>1. j \in DOMAIN captures /\ i < j /\ i \in Int
          BY <1>1, <3>1
        <5>2. captures[i].at < captures[j].at
          BY <3>1, <5>1 DEF PlanType
        <5>3. IsFresh(now, captures[j])
          BY <1>1, <3>1, <5>1, <5>2, PlanConstants DEF IsFresh
        <5> QED BY <2>5, <3>3, <3>5, <5>1, <5>3
      <4>3. BestOf(a, now, captures, i)
        BY <1>6, <2>5, <3>1, <3>2, <4>1, <4>2 DEF BestOf, n
      <4>4. a.status \in Recommended
        BY <1>6, <2>5, <3>1, <4>1 DEF n
      <4>5. a.status \notin Refused
        BY <4>4 DEF Recommended, Refused
      <4> QED BY <3>1, <3>2, <4>3, <4>4, <4>5 DEF Best
    <3> QED BY <3>4, <3>5
  <2> QED BY <2>3, <2>4, <2>5
<1> QED BY <1>8, <1>9, <1>10

PlanInv == PlanType /\ Best(answer, now, captures)
PlanHolds == part = "plans" => PlanInv

\* Before the first capture nothing is promised; nor is it without an answer.
LEMMA NothingPromised ==
  ASSUME NEW a, a.status \notin Recommended \cup Refused, NEW n, NEW cs
  PROVE  Best(a, n, cs)
BY DEF Best

\* Nothing has been asked at first.
LEMMA PlanStart == Plans!Init => PlanInv
<1> SUFFICES ASSUME Plans!Init PROVE PlanInv
    OBVIOUS
<1>1. now = 0 /\ captures = <<>> /\ answer.status = "none"
    BY DEF Plans!Init, Plans!NoAnswer
<1>2. PlanType
    BY <1>1 DEF PlanType
<1>3. answer.status \notin Recommended \cup Refused
    BY <1>1 DEF Recommended, Refused
<1> QED BY <1>2, <1>3, NothingPromised DEF PlanInv

\* An answer is computed from the captures of that moment; captures come in the order of
\* their times, and a capture or the passing of time withdraws the answer.
LEMMA PlanNext == PlanInv /\ [Plans!Next]_Plans!vars => PlanInv'
<1> SUFFICES ASSUME PlanInv, [Plans!Next]_Plans!vars PROVE PlanInv'
    OBVIOUS
<1>1. PlanType /\ Best(answer, now, captures)
    BY DEF PlanInv
<1>2. ASSUME answer' = Plans!NoAnswer PROVE Best(answer, now, captures)'
  <2>1. answer'.status \notin Recommended \cup Refused
    BY <1>2 DEF Plans!NoAnswer, Recommended, Refused
  <2>2. Best(answer', now', captures')
    BY <2>1, NothingPromised
  <2> QED BY <2>2
<1>3. ASSUME NEW c \in Curves, Plans!Capture(c) PROVE PlanInv'
  <2> DEFINE R == [at : Int, curve : Curves]
             x == [at |-> now, curve |-> c]
  <2>1. /\ captures' = Append(captures, x) /\ now' = now
        /\ \A i \in DOMAIN captures : captures[i].at < now
    BY <1>3 DEF Plans!Capture
  <2>2. captures \in Seq(R) /\ x \in R /\ x.at = now /\ now \in Int
        /\ \A i, j \in DOMAIN captures : i < j => captures[i].at < captures[j].at
    BY <1>1 DEF PlanType
  <2> HIDE DEF R, x
  <2>3. /\ captures' \in Seq(R) /\ Len(captures) \in Nat /\ DOMAIN captures = 1..Len(captures)
        /\ DOMAIN captures' = 1..(Len(captures) + 1)
        /\ captures'[Len(captures) + 1] = x
        /\ \A i \in 1..Len(captures) : captures'[i] = captures[i]
    BY <2>1, <2>2
  <2>4. ASSUME NEW i \in DOMAIN captures', NEW j \in DOMAIN captures', i < j
        PROVE  captures'[i].at < captures'[j].at
    <3>1. i \in DOMAIN captures /\ captures'[i] = captures[i]
      BY <2>3, <2>4
    <3>2. CASE j = Len(captures) + 1
      BY <2>1, <2>2, <2>3, <3>1, <3>2
    <3>3. CASE j # Len(captures) + 1
      <4>1. j \in DOMAIN captures /\ captures'[j] = captures[j]
        BY <2>3, <3>3
      <4> QED BY <2>2, <2>4, <3>1, <4>1
    <3> QED BY <3>2, <3>3
  <2>5. PlanType'
    BY <2>1, <2>2, <2>3, <2>4 DEF PlanType, R
  <2>6. answer' = Plans!NoAnswer
    BY <1>3 DEF Plans!Capture
  <2> QED BY <1>2, <2>5, <2>6 DEF PlanInv
<1>4. ASSUME NEW d \in Durations, NEW e \in Plans!Bounds, NEW l \in Plans!Bounds, Plans!Ask(d, e, l)
      PROVE  PlanInv'
  <2> DEFINE from == IF e = Plans!Default THEN Plans!NextSlot(now) ELSE e[1]
             until == IF l = Plans!Default THEN Plans!NextSlot(now) + DefaultHorizon ELSE l[1]
             defaulted == l = Plans!Default
  <2>1. /\ answer' = IF Plans!ValidSpan(d, from, until)
                     THEN Plans!Answer(d, from, until, defaulted)
                     ELSE [status |-> "invalid"]
        /\ now' = now /\ captures' = captures
    BY <1>4 DEF Plans!Ask
  <2>2. now \in Int /\ d \in Nat \ {0} /\ DefaultHorizon \in Int
    BY <1>1, PlanConstants DEF PlanType
  <2>3. /\ Plans!Slot(now) \in Int /\ Plans!NextSlot(now) \in Int
        /\ Plans!Slot(now) <= Plans!NextSlot(now)
    BY <2>2, NextSlotIs
  <2>4. \A b \in Plans!Bounds : b = Plans!Default \/ b[1] \in Int
    BY DEF Plans!Bounds
  <2>5. from \in Int /\ until \in Int /\ defaulted \in BOOLEAN
    BY <2>2, <2>3, <2>4
  <2> HIDE DEF from, until, defaulted
  <2>6. CASE Plans!ValidSpan(d, from, until)
    <3>1. Plans!Slot(now) <= from
      BY <2>3, <2>5, <2>6 DEF Plans!ValidSpan
    <3>2. Best(Plans!Answer(d, from, until, defaulted), now, captures)
      BY <1>1, <2>2, <2>5, <3>1, AnswerKeepsPromise
    <3>3. Best(answer', now', captures')
      BY <2>1, <2>6, <3>2
    <3> QED BY <1>1, <2>1, <3>3 DEF PlanInv, PlanType
  <2>7. CASE ~Plans!ValidSpan(d, from, until)
    <3>1. answer'.status \notin Recommended \cup Refused
      BY <2>1, <2>7 DEF Recommended, Refused
    <3>2. Best(answer', now', captures')
      BY <3>1, NothingPromised
    <3> QED BY <1>1, <2>1, <3>2 DEF PlanInv, PlanType
  <2> QED BY <2>6, <2>7
<1>5. ASSUME Plans!Tick PROVE PlanInv'
  <2>1. now' = now + 1 /\ captures' = captures /\ answer' = Plans!NoAnswer
    BY <1>5 DEF Plans!Tick
  <2>2. PlanType'
    BY <1>1, <2>1 DEF PlanType
  <2> QED BY <1>2, <2>1, <2>2 DEF PlanInv
<1>6. CASE UNCHANGED Plans!vars
    BY <1>1, <1>6 DEF Plans!vars, PlanInv, PlanType
<1> QED BY <1>3, <1>4, <1>5, <1>6 DEF Plans!Next

\* The charging window shown is the best of the newest fresh forecast that has one, and a
\* plan is refused for want of a forecast only when no fresh forecast has a window
\* (plan_local_windows, plan_flexible_use).
THEOREM PlansAreBest == SurfaceSpec => []PlanIsBest
<1>1. SurfaceInit => PlanHolds
    BY PlanStart DEF SurfaceInit, PlanHolds
<1>2. PlanHolds /\ [SurfaceNext]_allvars => PlanHolds'
  <2> SUFFICES ASSUME PlanHolds, [SurfaceNext]_allvars, part' = "plans" PROVE PlanInv'
      BY DEF PlanHolds
  <2>1. part = "plans" /\ [Plans!Next]_Plans!vars
    BY DEF SurfaceNext, allvars, planVars, Plans!vars
  <2> QED BY <2>1, PlanNext DEF PlanHolds
<1>3. PlanHolds => PlanIsBest
    BY BestIsBestPlan DEF PlanHolds, PlanInv, PlanIsBest
<1> QED BY <1>1, <1>2, <1>3, PTL DEF SurfaceSpec

-----------------------------------------------------------------------------
(* The rate limits (RateLimit), for any policies, clients, limits, window     *)
(* and clock.                                                                *)

\* A window and a second are some ticks long.
LEMMA Ticks == Window \in Nat \ {0} /\ TicksPerSecond \in Nat \ {0}
BY LimitsAssumption DEF LimitsAssumption

USE Ticks

-----------------------------------------------------------------------------
(* Numbers and sequences *)

\* A number of ticks, in seconds rounded up.
LEMMA SecondsRoundUp ==
    ASSUME NEW x \in Int
    PROVE  /\ Seconds(x) \in Int
           /\ x <= Seconds(x) * TicksPerSecond
           /\ (Seconds(x) - 1) * TicksPerSecond < x
BY DEF Seconds

-----------------------------------------------------------------------------
(* Deques.  What a deque holds are the newest requests its bucket admitted; *)
(* what it no longer holds is older than the cutoff of some discard.        *)

Sorted(A) == \A i, j \in 1..Len(A) : i <= j => A[i] <= A[j]

Remains(A, C, cutoff) ==
    \E k \in 0..Len(A) :
       /\ Len(C) = Len(A) - k
       /\ \A i \in 1..Len(C) : C[i] = A[k + i]
       /\ \A i \in 1..k : A[i] <= cutoff

\* Discarding keeps what is live, and only that.
LEMMA LiveRemains ==
    ASSUME NEW A \in Seq(Nat), Sorted(A), NEW C \in Seq(Nat),
           NEW early \in Int, NEW cutoff \in Int, early <= cutoff, Remains(A, C, early)
    PROVE  /\ Live(C, cutoff) \in Seq(Nat)
           /\ Remains(A, Live(C, cutoff), cutoff)
           /\ Len(Live(C, cutoff)) <= Len(C)
           /\ Live(C, cutoff) # <<>> => Live(C, cutoff)[1] > cutoff
<1>1. PICK k \in 0..Len(A) : /\ Len(C) = Len(A) - k
                             /\ \A i \in 1..Len(C) : C[i] = A[k + i]
                             /\ \A i \in 1..k : A[i] <= early
    BY DEF Remains
<1>2. ASSUME NEW i \in 1..Len(C), NEW j \in 1..Len(C), i <= j PROVE C[i] <= C[j]
  <2>1. /\ Len(A) \in Nat /\ Len(C) \in Nat
        /\ k + i \in 1..Len(A) /\ k + j \in 1..Len(A) /\ k + i <= k + j
    BY <1>1, <1>2
  <2>2. A[k + i] <= A[k + j]
    BY <2>1 DEF Sorted
  <2> QED BY <1>1, <2>2
<1>3. \E m \in 0..Len(C) : Expired(C, cutoff, m)
  <2> DEFINE Late == {i \in 1..Len(C) : C[i] > cutoff}
  <2>1. CASE Late = {}
    <3>1. ASSUME NEW i \in 1..Len(C) PROVE C[i] \in Nat /\ ~(C[i] > cutoff)
      <4>1. i \notin Late
        BY <2>1
      <4> QED BY <4>1
    <3>2. Len(C) \in 0..Len(C) /\ Expired(C, cutoff, Len(C))
      BY <3>1 DEF Expired
    <3> QED BY <3>2
  <2>2. CASE Late # {}
    <3>1. PICK n \in Late : \A m \in Late : n <= m
      <4>1. Late \subseteq Nat
        OBVIOUS
      <4> HIDE DEF Late
      <4> QED BY <2>2, <4>1, LeastNatural
    <3>2. /\ n \in 1..Len(C) /\ n - 1 \in 0..Len(C) /\ (n - 1) + 1 = n /\ C[n] > cutoff
      OBVIOUS
    <3>3. \A i \in 1..(n - 1) : C[i] <= cutoff
      <4>1. ASSUME NEW i \in 1..(n - 1) PROVE C[i] <= cutoff
        <5>1. i \in 1..Len(C) /\ ~(n <= i)
          BY <3>2
        <5>2. C[i] \in Nat /\ ~(C[i] > cutoff)
          BY <3>1, <5>1
        <5> QED BY <5>2
      <4> QED BY <4>1
    <3>4. Expired(C, cutoff, n - 1)
      BY <3>2, <3>3 DEF Expired
    <3> QED BY <3>2, <3>4
  <2> QED BY <2>1, <2>2
<1>4. PICK n \in 0..Len(C) : Expired(C, cutoff, n) /\ Live(C, cutoff) = SubSeq(C, n + 1, Len(C))
    BY <1>3 DEF Live
<1>5. /\ Live(C, cutoff) \in Seq(Nat)
      /\ Len(Live(C, cutoff)) = Len(C) - n
      /\ \A i \in 1..(Len(C) - n) : Live(C, cutoff)[i] = C[n + i]
    BY <1>4
<1>6. Remains(A, Live(C, cutoff), cutoff)
  <2>1. k + n \in 0..Len(A) /\ Len(Live(C, cutoff)) = Len(A) - (k + n)
    BY <1>1, <1>5
  <2>2. ASSUME NEW i \in 1..Len(Live(C, cutoff))
        PROVE  Live(C, cutoff)[i] = A[(k + n) + i]
    <3>1. i \in 1..(Len(C) - n) /\ n + i \in 1..Len(C) /\ k + (n + i) = (k + n) + i
      BY SMTT(30), <1>5
    <3> QED BY <3>1, <1>1, <1>5
  <2>3. ASSUME NEW i \in 1..(k + n) PROVE A[i] <= cutoff
    <3>1. CASE i <= k
      <4>1. i \in 1..k /\ i \in 1..Len(A)
        BY <3>1
      <4>2. A[i] \in Nat /\ A[i] <= early
        BY <4>1, <1>1
      <4> QED BY <4>2
    <3>2. CASE i > k
      <4>1. i - k \in 1..n /\ i - k \in 1..Len(C) /\ k + (i - k) = i
        BY <3>2
      <4>2. C[i - k] <= cutoff
        BY <4>1, <1>4 DEF Expired
      <4> QED BY <4>1, <4>2, <1>1
    <3> QED BY <3>1, <3>2
  <2> QED BY <2>1, <2>2, <2>3 DEF Remains
<1>7. Live(C, cutoff) # <<>> => Live(C, cutoff)[1] > cutoff
  <2>1. SUFFICES ASSUME Live(C, cutoff) # <<>> PROVE Live(C, cutoff)[1] > cutoff
    OBVIOUS
  <2>2. Len(C) - n \in Nat /\ Len(C) - n # 0
    BY <2>1, <1>4, <1>5
  <2>3. 1 \in 1..(Len(C) - n) /\ n < Len(C)
    BY <2>2
  <2>4. Live(C, cutoff)[1] = C[n + 1]
    BY <2>3, <1>5
  <2>5. C[n + 1] > cutoff
    BY <2>3, <1>4 DEF Expired
  <2> QED BY <2>4, <2>5
<1> QED BY <1>5, <1>6, <1>7

\* What a discarded deque holds, in terms of what was admitted.
LEMMA Occupancy ==
    ASSUME NEW A \in Seq(Nat), Sorted(A), NEW L \in Seq(Nat), NEW cutoff \in Int,
           NEW n \in Nat \ {0}, Remains(A, L, cutoff), L # <<>> => L[1] > cutoff
    PROVE  Len(L) >= n <=> Len(A) >= n /\ A[Len(A) - n + 1] > cutoff
<1>1. PICK k \in 0..Len(A) : /\ Len(L) = Len(A) - k
                             /\ \A i \in 1..Len(L) : L[i] = A[k + i]
                             /\ \A i \in 1..k : A[i] <= cutoff
    BY DEF Remains
<1>2. Len(A) \in Nat /\ Len(L) \in Nat /\ \A i \in 1..Len(A) : A[i] \in Nat
    OBVIOUS
<1>3. ASSUME Len(L) >= n PROVE Len(A) >= n /\ A[Len(A) - n + 1] > cutoff
  <2>1. /\ 1 \in 1..Len(L) /\ L # <<>> /\ Len(A) >= n
        /\ k + 1 \in 1..Len(A) /\ Len(A) - n + 1 \in 1..Len(A) /\ k + 1 <= Len(A) - n + 1
    BY <1>1, <1>2, <1>3
  <2>2. A[k + 1] > cutoff
    BY <1>1, <2>1
  <2>3. A[k + 1] <= A[Len(A) - n + 1]
    BY <2>1 DEF Sorted
  <2>4. A[k + 1] \in Nat /\ A[Len(A) - n + 1] \in Nat
    BY <1>2, <2>1
  <2> QED BY SMTT(30), <2>1, <2>2, <2>3, <2>4
<1>4. ASSUME Len(L) < n, Len(A) >= n PROVE ~(A[Len(A) - n + 1] > cutoff)
  <2>1. Len(A) - n + 1 \in 1..k /\ Len(A) - n + 1 \in 1..Len(A)
    BY <1>1, <1>2, <1>4
  <2>2. A[Len(A) - n + 1] <= cutoff /\ A[Len(A) - n + 1] \in Nat
    BY <1>1, <1>2, <2>1
  <2> QED BY <2>2
<1> QED BY <1>2, <1>3, <1>4

\* An admitted request enters the deque and the history alike.
LEMMA RemainsAppended ==
    ASSUME NEW A \in Seq(Nat), Sorted(A), NEW L \in Seq(Nat), NEW cutoff \in Int,
           NEW t \in Nat, \A i \in 1..Len(A) : A[i] <= t, Remains(A, L, cutoff)
    PROVE  /\ Sorted(Append(A, t)) /\ Remains(Append(A, t), Append(L, t), cutoff)
           /\ \A i \in 1..Len(Append(A, t)) : Append(A, t)[i] <= t
<1>1. PICK k \in 0..Len(A) : /\ Len(L) = Len(A) - k
                             /\ \A i \in 1..Len(L) : L[i] = A[k + i]
                             /\ \A i \in 1..k : A[i] <= cutoff
    BY DEF Remains
<1>2. /\ Len(A) \in Nat /\ Len(L) \in Nat
      /\ Append(A, t) \in Seq(Nat) /\ Len(Append(A, t)) = Len(A) + 1
      /\ \A i \in 1..Len(A) : Append(A, t)[i] = A[i] /\ A[i] \in Nat
      /\ Append(A, t)[Len(A) + 1] = t
    OBVIOUS
<1>3. /\ Append(L, t) \in Seq(Nat) /\ Len(Append(L, t)) = Len(L) + 1
      /\ \A i \in 1..Len(L) : Append(L, t)[i] = L[i]
      /\ Append(L, t)[Len(L) + 1] = t
    OBVIOUS
<1> DEFINE B == Append(A, t)
           M == Append(L, t)
<1> HIDE DEF B, M
<1>4. ASSUME NEW i \in 1..Len(B) PROVE B[i] <= t
  <2>1. i \in 1..Len(A) \/ i = Len(A) + 1
    BY <1>2 DEF B
  <2> QED BY <1>2, <2>1 DEF B
<1>5. Sorted(B)
  <2>1. ASSUME NEW i \in 1..Len(B), NEW j \in 1..Len(B), i <= j PROVE B[i] <= B[j]
    <3>1. CASE j = Len(A) + 1
      BY <3>1, <1>2, <1>4 DEF B
    <3>2. CASE j # Len(A) + 1
      <4>1. i \in 1..Len(A) /\ j \in 1..Len(A)
        BY <3>2, <2>1, <1>2 DEF B
      <4>2. A[i] <= A[j]
        BY <4>1, <2>1 DEF Sorted
      <4> QED BY <4>1, <4>2, <1>2 DEF B
    <3> QED BY <3>1, <3>2
  <2> QED BY <2>1 DEF Sorted
<1>6. Remains(B, M, cutoff)
  <2>1. k \in 0..Len(B) /\ Len(M) = Len(B) - k
    BY <1>1, <1>2, <1>3 DEF B, M
  <2>2. ASSUME NEW i \in 1..Len(M) PROVE M[i] = B[k + i]
    <3>1. CASE i = Len(L) + 1
      <4>1. k + i = Len(A) + 1
        BY <3>1, <1>1, <1>2
      <4> QED BY <3>1, <4>1, <1>2, <1>3 DEF B, M
    <3>2. CASE i # Len(L) + 1
      <4>1. i \in 1..Len(L) /\ k + i \in 1..Len(A)
        <5>1. i \in 1..(Len(L) + 1)
          BY <1>3 DEF M
        <5>2. i \in 1..Len(L)
          <6>1. \A n \in Nat : \A j \in 1..(n + 1) : j # n + 1 => j \in 1..n
            OBVIOUS
          <6>2. Len(L) \in Nat
            BY <1>2
          <6> QED BY <3>2, <5>1, <6>1, <6>2
        <5> QED BY <1>1, <1>2, <5>2
      <4>2. L[i] = A[k + i]
        BY <1>1, <4>1
      <4>3. M[i] = L[i] /\ B[k + i] = A[k + i]
        BY <4>1, <1>2, <1>3 DEF B, M
      <4> QED BY <4>2, <4>3
    <3> QED BY <3>1, <3>2
  <2>3. ASSUME NEW i \in 1..k PROVE B[i] <= cutoff
    <3>1. i \in 1..Len(A) /\ A[i] <= cutoff
      BY <1>1, <1>2
    <3> QED BY <3>1, <1>2 DEF B
  <2> QED BY <2>1, <2>2, <2>3 DEF Remains
<1> QED BY <1>4, <1>5, <1>6 DEF B, M

-----------------------------------------------------------------------------
(* The inductive invariant *)

TypeInv ==
  /\ now \in Nat
  /\ calls \in [Buckets -> Seq(Nat)]
  /\ admitted \in [Buckets -> Seq(Nat)]
  /\ refusal \in [Buckets -> [at : Int, retry : Int]]

\* A deque is the end of what its bucket admitted; what it lost is a window old.
Follows(b) ==
  /\ Sorted(admitted[b])
  /\ \A i \in 1..Len(admitted[b]) : admitted[b][i] <= now
  /\ Remains(admitted[b], calls[b], now - Window)
  /\ Len(calls[b]) <= Limit(b)
DequesFollow == \A b \in Buckets : Follows(b)

\* The request a full bucket waits for, and what a bucket that waits for it is.
Crowded(b) == Len(admitted[b]) >= Limit(b)
Oldest(b) == admitted[b][Len(admitted[b]) - Limit(b) + 1]

\* There is a moment at which both buckets have room and before which one has not;
\* a refusal names the first second that is not before it.
Moment(p, c, m) ==
  /\ \A b \in Both(p, c) : Crowded(b) => Oldest(b) + Window <= m
  /\ \E b \in Both(p, c) : Crowded(b) /\ Oldest(b) + Window = m
Named(r, m) ==
  /\ m <= r.at + r.retry * TicksPerSecond
  /\ r.at + (r.retry - 1) * TicksPerSecond < m
RefusalsTold ==
  \A p \in Policies, c \in Clients :
    refusal[<<p, c>>] # Never => \E m \in Int : Moment(p, c, m) /\ Named(refusal[<<p, c>>], m)

IInv == TypeInv /\ DequesFollow /\ Bounded /\ RefusalsTold

-----------------------------------------------------------------------------
(* Facts about the buckets of a request *)

\* The buckets of a request, and their limits.
LEMMA BucketFacts ==
    /\ \A b \in Buckets : Limit(b) \in Nat \ {0}
    /\ \A p \in Policies, c \in Clients :
         Both(p, c) \subseteq Buckets /\ \A b \in Both(p, c) : b[1] = p
    /\ \A b \in Buckets : b = <<b[1], b[2]>> /\ b[1] \in Policies
    /\ \A p \in Policies, c \in Clients : <<p, c>> \in Buckets
BY LimitsAssumption DEF LimitsAssumption, Limit, Both, Buckets

\* The deques a request is judged by.
LEMMA FreshFollows ==
    ASSUME TypeInv, DequesFollow, NEW p \in Policies, NEW c \in Clients,
           NEW d, d = Fresh(p, c, now - Window)
    PROVE  /\ d \in [Buckets -> Seq(Nat)]
           /\ \A b \in Buckets : Remains(admitted[b], d[b], now - Window)
           /\ \A b \in Buckets : Len(d[b]) <= Limit(b)
           /\ \A b \in Both(p, c) : d[b] # <<>> => d[b][1] > now - Window
<1> DEFINE cutoff == now - Window
           L(b) == Live(calls[b], cutoff)
<1>1. ASSUME NEW b \in Buckets
      PROVE  /\ L(b) \in Seq(Nat) /\ Remains(admitted[b], L(b), cutoff) /\ Len(L(b)) <= Limit(b)
             /\ L(b) # <<>> => L(b)[1] > cutoff
  <2>1. /\ admitted[b] \in Seq(Nat) /\ calls[b] \in Seq(Nat) /\ cutoff \in Int /\ cutoff <= cutoff
        /\ Limit(b) \in Nat
    BY BucketFacts DEF TypeInv
  <2>2. Sorted(admitted[b]) /\ Remains(admitted[b], calls[b], cutoff) /\ Len(calls[b]) <= Limit(b)
    BY DEF DequesFollow, Follows
  <2>3. /\ L(b) \in Seq(Nat) /\ Remains(admitted[b], L(b), cutoff) /\ Len(L(b)) <= Len(calls[b])
        /\ L(b) # <<>> => L(b)[1] > cutoff
    <3> HIDE DEF cutoff
    <3> QED BY <2>1, <2>2, LiveRemains
  <2>4. Len(L(b)) \in Nat /\ Len(calls[b]) \in Nat
    BY <2>1, <2>3
  <2> HIDE DEF L, cutoff
  <2> QED BY <2>1, <2>2, <2>3, <2>4
<1>2. ASSUME NEW b \in Buckets
      PROVE  /\ calls[b] \in Seq(Nat) /\ Remains(admitted[b], calls[b], cutoff)
             /\ Len(calls[b]) <= Limit(b)
    BY DEF TypeInv, DequesFollow, Follows
<1>3. d = [b \in Buckets |-> IF b \in Both(p, c) THEN L(b)
                             ELSE IF b[2] # All /\ Sweeps THEN L(b) ELSE calls[b]]
    BY DEF Fresh, Swept
<1>4. /\ \A b \in Buckets : d[b] = L(b) \/ d[b] = calls[b]
      /\ \A b \in Both(p, c) : b \in Buckets /\ d[b] = L(b)
    BY <1>3, BucketFacts
<1> HIDE DEF L, cutoff
<1>5. \A b \in Buckets : d[b] \in Seq(Nat) /\ Remains(admitted[b], d[b], cutoff) /\ Len(d[b]) <= Limit(b)
    BY <1>1, <1>2, <1>4
<1>6. \A b \in Both(p, c) : d[b] # <<>> => d[b][1] > cutoff
    BY <1>1, <1>4
<1>7. d \in [Buckets -> Seq(Nat)]
    BY <1>3, <1>5
<1> QED BY <1>5, <1>6, <1>7 DEF cutoff

\* A bucket has no room exactly when the request it waits for is within the window.
LEMMA FullMeans ==
    ASSUME TypeInv, DequesFollow, NEW p \in Policies, NEW c \in Clients,
           NEW d, d = Fresh(p, c, now - Window), NEW b \in Both(p, c)
    PROVE  Full(d, b) <=> Crowded(b) /\ Oldest(b) > now - Window
<1>1. b \in Buckets /\ Limit(b) \in Nat \ {0}
    BY BucketFacts
<1>2. /\ admitted[b] \in Seq(Nat) /\ Sorted(admitted[b]) /\ now - Window \in Int
    BY <1>1 DEF TypeInv, DequesFollow, Follows
<1>3. /\ d[b] \in Seq(Nat) /\ Remains(admitted[b], d[b], now - Window)
      /\ d[b] # <<>> => d[b][1] > now - Window
    BY <1>1, FreshFollows
<1>4. Len(d[b]) >= Limit(b) <=>
        Len(admitted[b]) >= Limit(b) /\ admitted[b][Len(admitted[b]) - Limit(b) + 1] > now - Window
    BY <1>1, <1>2, <1>3, Occupancy
<1> QED BY <1>4 DEF Full, Crowded, Oldest

\* The moment a refusal is computed from.
LEMMA RetryAtIsMoment ==
    ASSUME TypeInv, DequesFollow, NEW p \in Policies, NEW c \in Clients,
           NEW d, d = Fresh(p, c, now - Window),
           NEW full, full = {b \in Both(p, c) : Full(d, b)}, full # {}
    PROVE  /\ RetryAt(d, full) \in Int /\ RetryAt(d, full) > now
           /\ Moment(p, c, RetryAt(d, full))
<1>1. ASSUME NEW b \in full
      PROVE  /\ b \in Both(p, c) /\ Opens(d, b) \in Nat /\ Opens(d, b) > now
             /\ Crowded(b) /\ Opens(d, b) = Oldest(b) + Window
  <2>1. /\ b \in Both(p, c) /\ b \in Buckets /\ Full(d, b) /\ Limit(b) \in Nat \ {0}
        /\ now \in Nat /\ admitted[b] \in Seq(Nat)
    BY BucketFacts DEF TypeInv
  <2>2. Crowded(b) /\ Oldest(b) > now - Window
    BY <2>1, FullMeans
  <2>3. /\ d[b] \in Seq(Nat) /\ Remains(admitted[b], d[b], now - Window)
        /\ Len(d[b]) <= Limit(b) /\ Len(d[b]) >= Limit(b)
    BY <2>1, FreshFollows DEF Full
  <2>4. PICK k \in 0..Len(admitted[b]) : /\ Len(d[b]) = Len(admitted[b]) - k
                                         /\ \A i \in 1..Len(d[b]) : d[b][i] = admitted[b][k + i]
    BY <2>3 DEF Remains
  <2>5. Len(d[b]) \in Nat /\ Len(admitted[b]) \in Nat /\ Len(d[b]) = Limit(b)
    <3>1. Len(d[b]) \in Nat /\ Len(admitted[b]) \in Nat
      BY <2>1, <2>3
    <3> QED BY <2>1, <2>3, <3>1
  <2>6. /\ 1 \in 1..Len(d[b]) /\ k + 1 = Len(admitted[b]) - Limit(b) + 1
        /\ k + 1 \in 1..Len(admitted[b])
    BY <2>1, <2>4, <2>5
  <2>7. d[b][1] = admitted[b][k + 1] /\ admitted[b][k + 1] \in Nat
    <3>1. d[b][1] = admitted[b][k + 1]
      BY <2>4, <2>6
    <3>2. admitted[b][k + 1] \in Nat
      BY <2>1, <2>6
    <3> QED BY <3>1, <3>2
  <2>8. d[b][1] = Oldest(b) /\ d[b][1] \in Nat
    BY <2>6, <2>7 DEF Oldest
  <2> QED BY <2>1, <2>2, <2>8 DEF Opens
<1> DEFINE T == {Opens(d, b) : b \in full}
<1>2. \E t \in T : \A b \in full : Opens(d, b) <= t
  <2>1. \A b, e \in full : b # <<p, All>> /\ e # <<p, All>> => b = e
    BY DEF Both
  <2>2. PICK e \in full : TRUE
    OBVIOUS
  <2>3. CASE \E a \in full : a # e /\ Opens(d, a) > Opens(d, e)
    <3>1. PICK a \in full : a # e /\ Opens(d, a) > Opens(d, e)
      BY <2>3
    <3>2. \A b \in full : b = a \/ b = e
      BY <1>1, <3>1 DEF Both
    <3>3. \A b \in full : Opens(d, b) <= Opens(d, a)
      BY <1>1, <3>1, <3>2
    <3> QED BY <3>3
  <2>4. CASE ~\E a \in full : a # e /\ Opens(d, a) > Opens(d, e)
    <3>1. \A b \in full : Opens(d, b) <= Opens(d, e)
      BY <1>1, <2>4
    <3> QED BY <3>1
  <2> QED BY <2>3, <2>4
<1>3. /\ RetryAt(d, full) \in T
      /\ \A b \in full : Opens(d, b) <= RetryAt(d, full)
  <2> HIDE DEF T
  <2>1. RetryAt(d, full) = CHOOSE t \in T : \A b \in full : Opens(d, b) <= t
    BY Zenon DEF RetryAt, T
  <2> QED BY <1>2, <2>1
<1>4. PICK e \in full : RetryAt(d, full) = Opens(d, e)
    BY <1>3
<1>5. ASSUME NEW b \in Both(p, c), Crowded(b) PROVE Oldest(b) + Window <= RetryAt(d, full)
  <2>1. CASE b \in full
    BY <2>1, <1>1, <1>3
  <2>2. CASE b \notin full
    <3>1. ~(Oldest(b) > now - Window)
      BY <2>2, <1>5, FullMeans
    <3>2. b \in Buckets /\ Limit(b) \in Nat \ {0} /\ admitted[b] \in Seq(Nat) /\ now \in Nat
      BY BucketFacts DEF TypeInv
    <3>3. Oldest(b) \in Nat
      <4>1. Len(admitted[b]) \in Nat /\ Len(admitted[b]) >= Limit(b)
        BY <3>2, <1>5 DEF Crowded
      <4>2. Len(admitted[b]) - Limit(b) + 1 \in 1..Len(admitted[b])
        BY <3>2, <4>1
      <4>3. admitted[b][Len(admitted[b]) - Limit(b) + 1] \in Nat
        BY <3>2, <4>2
      <4> QED BY <4>3 DEF Oldest
    <3>4. RetryAt(d, full) \in Nat /\ RetryAt(d, full) > now
      BY <1>1, <1>4
    <3> QED BY <3>1, <3>2, <3>3, <3>4
  <2> QED BY <2>1, <2>2
<1>6. /\ e \in Both(p, c) /\ Crowded(e) /\ Oldest(e) + Window = RetryAt(d, full)
      /\ RetryAt(d, full) \in Int /\ RetryAt(d, full) > now
    BY <1>1, <1>4
<1> HIDE DEF T
<1>7. Moment(p, c, RetryAt(d, full))
    BY <1>5, <1>6 DEF Moment
<1> QED BY <1>6, <1>7

-----------------------------------------------------------------------------
(* Steps *)

\* The invariant holds before the first request.
LEMMA InitEstablishes == Init => IInv
<1> SUFFICES ASSUME Init PROVE IInv
    OBVIOUS
<1>1. TypeInv
    BY DEF Init, TypeInv, Never
<1>2. ASSUME NEW b \in Buckets PROVE Follows(b)
  <2>1. admitted[b] = <<>> /\ calls[b] = <<>> /\ Limit(b) \in Nat
    BY BucketFacts DEF Init
  <2>2. Remains(<<>>, <<>>, now - Window)
    <3>1. 0 \in 0..Len(<<>>) /\ Len(<<>>) = Len(<<>>) - 0
      OBVIOUS
    <3> QED BY <3>1 DEF Remains
  <2> QED BY <2>1, <2>2 DEF Follows, Sorted
<1>3. Bounded
    BY BucketFacts DEF Bounded, Init
<1>4. RefusalsTold
    BY BucketFacts DEF RefusalsTold, Init
<1> QED BY <1>1, <1>2, <1>3, <1>4 DEF IInv, DequesFollow

\* Time alone exceeds no limit.
LEMMA TickStep == IInv /\ Tick => IInv'
<1> SUFFICES ASSUME IInv, Tick PROVE IInv'
    OBVIOUS
<1>1. now \in Nat /\ now' = now + 1 /\ UNCHANGED <<calls, keys, admitted, refusal>>
    BY DEF IInv, TypeInv, Tick
<1>2. TypeInv'
    BY <1>1 DEF IInv, TypeInv
<1>3. ASSUME NEW b \in Buckets PROVE Follows(b)'
  <2>1. /\ admitted[b] \in Seq(Nat) /\ Len(admitted[b]) \in Nat /\ calls[b] \in Seq(Nat)
    BY DEF IInv, TypeInv
  <2>2. /\ Sorted(admitted[b]) /\ \A i \in 1..Len(admitted[b]) : admitted[b][i] <= now
        /\ Remains(admitted[b], calls[b], now - Window) /\ Len(calls[b]) <= Limit(b)
    BY DEF IInv, DequesFollow, Follows
  <2>3. \A i \in 1..Len(admitted[b]) :
          /\ admitted[b][i] <= now'
          /\ admitted[b][i] <= now - Window => admitted[b][i] <= now' - Window
    BY <1>1, <2>1, <2>2
  <2>4. Remains(admitted[b], calls[b], now' - Window)
    <3>1. PICK k \in 0..Len(admitted[b]) :
            /\ Len(calls[b]) = Len(admitted[b]) - k
            /\ \A i \in 1..Len(calls[b]) : calls[b][i] = admitted[b][k + i]
            /\ \A i \in 1..k : admitted[b][i] <= now - Window
      BY <2>2 DEF Remains
    <3>2. \A i \in 1..k : i \in 1..Len(admitted[b]) /\ admitted[b][i] <= now' - Window
      BY <2>1, <2>3, <3>1
    <3> QED BY <3>1, <3>2 DEF Remains
  <2> QED BY <1>1, <2>2, <2>3, <2>4 DEF Follows, Limit
<1>4. DequesFollow'
    BY <1>3 DEF DequesFollow
<1>5. Bounded'
    BY <1>1 DEF IInv, Bounded, Limit
<1>6. RefusalsTold'
    BY <1>1 DEF IInv, RefusalsTold, Moment, Crowded, Oldest, Limit
<1> QED BY <1>2, <1>4, <1>5, <1>6 DEF IInv

\* An admitted request finds room in both its buckets and fills one place of each.
LEMMA AdmitStep ==
    ASSUME IInv, NEW p \in Policies, NEW c \in Clients, Admit(p, c)
    PROVE  IInv'
<1> DEFINE d == Fresh(p, c, now - Window)
<1>1. /\ \A b \in Both(p, c) : ~Full(d, b)
      /\ calls' = [b \in Buckets |-> IF b \in Both(p, c) THEN Append(d[b], now) ELSE d[b]]
      /\ admitted' = [b \in Buckets |-> IF b \in Both(p, c) THEN Append(admitted[b], now)
                                        ELSE admitted[b]]
      /\ refusal' = [b \in Buckets |-> IF b[1] = p THEN Never ELSE refusal[b]]
      /\ now' = now
    BY DEF Admit
<1>2. /\ d \in [Buckets -> Seq(Nat)]
      /\ \A b \in Buckets : Remains(admitted[b], d[b], now - Window)
      /\ \A b \in Buckets : Len(d[b]) <= Limit(b)
    BY FreshFollows DEF IInv
<1>3. ASSUME NEW b \in Both(p, c) PROVE Crowded(b) => ~(Oldest(b) > now - Window)
    BY <1>1, FullMeans DEF IInv
<1> HIDE DEF d
<1>4. /\ now \in Nat /\ Window \in Nat /\ admitted \in [Buckets -> Seq(Nat)]
      /\ \A b \in Buckets : Limit(b) \in Nat \ {0} /\ Limit(b)' = Limit(b)
    BY BucketFacts DEF IInv, TypeInv, Limit
<1>5. TypeInv'
  <2>1. calls' \in [Buckets -> Seq(Nat)] /\ admitted' \in [Buckets -> Seq(Nat)]
    BY <1>1, <1>2, <1>4
  <2>2. refusal' \in [Buckets -> [at : Int, retry : Int]]
    BY <1>1 DEF IInv, TypeInv, Never
  <2> QED BY <1>1, <1>4, <2>1, <2>2 DEF TypeInv
<1>6. ASSUME NEW b \in Buckets PROVE Follows(b)'
  <2>1. /\ admitted[b] \in Seq(Nat) /\ d[b] \in Seq(Nat) /\ Sorted(admitted[b])
        /\ \A i \in 1..Len(admitted[b]) : admitted[b][i] <= now
        /\ Remains(admitted[b], d[b], now - Window) /\ Len(d[b]) <= Limit(b)
    BY <1>2, <1>4 DEF IInv, DequesFollow, Follows
  <2>2. CASE b \in Both(p, c)
    <3>1. admitted[b]' = Append(admitted[b], now) /\ calls[b]' = Append(d[b], now)
      BY <1>1, <2>2
    <3>2. /\ Sorted(admitted[b]') /\ Remains(admitted[b]', calls[b]', now - Window)
          /\ \A i \in 1..Len(admitted[b]') : admitted[b]'[i] <= now
      <4>1. now - Window \in Int
        BY <1>4
      <4>2. /\ Sorted(Append(admitted[b], now))
            /\ Remains(Append(admitted[b], now), Append(d[b], now), now - Window)
            /\ \A i \in 1..Len(Append(admitted[b], now)) : Append(admitted[b], now)[i] <= now
        BY <1>4, <2>1, <4>1, RemainsAppended
      <4> QED BY <3>1, <4>2
    <3>3. Len(calls[b]') <= Limit(b)
      <4>1. ~(Len(d[b]) >= Limit(b)) /\ Len(d[b]) \in Nat /\ Limit(b) \in Nat
        BY <1>1, <1>4, <2>1, <2>2 DEF Full
      <4>2. Len(calls[b]') = Len(d[b]) + 1
        BY <2>1, <1>4, <3>1
      <4> QED BY <4>1, <4>2
    <3> QED BY <1>1, <1>4, <3>2, <3>3 DEF Follows
  <2>3. CASE b \notin Both(p, c)
    <3>1. admitted[b]' = admitted[b] /\ calls[b]' = d[b]
      BY <1>1, <2>3
    <3> QED BY <1>1, <1>4, <2>1, <3>1 DEF Follows
  <2> QED BY <2>2, <2>3
<1>7. ASSUME NEW b \in Buckets, NEW i \in 1..Len(admitted'[b]), i + Limit(b) <= Len(admitted'[b])
      PROVE  admitted'[b][i + Limit(b)] >= admitted'[b][i] + Window
  <2>1. /\ admitted[b] \in Seq(Nat) /\ Len(admitted[b]) \in Nat /\ Limit(b) \in Nat \ {0}
        /\ \A j \in 1..Len(admitted[b]) : j + Limit(b) <= Len(admitted[b]) =>
             admitted[b][j + Limit(b)] >= admitted[b][j] + Window
    BY <1>4 DEF IInv, Bounded
  <2>2. CASE b \notin Both(p, c)
    <3>1. admitted'[b] = admitted[b]
      BY <1>1, <2>2
    <3> QED BY <1>7, <2>1, <3>1
  <2>3. CASE b \in Both(p, c)
    <3>1. admitted'[b] = Append(admitted[b], now)
      BY <1>1, <2>3
    <3>2. /\ Len(admitted'[b]) = Len(admitted[b]) + 1 /\ admitted'[b][Len(admitted[b]) + 1] = now
          /\ \A j \in 1..Len(admitted[b]) : admitted'[b][j] = admitted[b][j]
      BY <1>4, <2>1, <3>1
    <3>3. i \in 1..Len(admitted[b]) /\ i + Limit(b) <= Len(admitted[b]) + 1
      BY <1>7, <2>1, <3>2
    <3>4. CASE i + Limit(b) = Len(admitted[b]) + 1
      <4>1. Crowded(b) /\ Oldest(b) = admitted[b][i]
        <5>1. Len(admitted[b]) - Limit(b) + 1 = i /\ Len(admitted[b]) >= Limit(b)
          <6> DEFINE n == Len(admitted[b])
                     l == Limit(b)
          <6>1. n \in Nat /\ l \in Nat /\ i \in 1..n /\ i + l = n + 1
            BY <2>1, <3>3, <3>4
          <6> HIDE DEF n, l
          <6>2. n - l + 1 = i /\ n >= l
            BY <6>1
          <6> QED BY <6>2 DEF n, l
        <5> QED BY <5>1 DEF Crowded, Oldest
      <4>2. admitted[b][i] \in Nat /\ ~(admitted[b][i] > now - Window)
        BY <1>3, <2>1, <2>3, <3>3, <4>1
      <4>3. admitted'[b][i + Limit(b)] = now /\ admitted'[b][i] = admitted[b][i]
        BY <3>2, <3>3, <3>4
      <4> QED BY <1>4, <4>2, <4>3
    <3>5. CASE i + Limit(b) # Len(admitted[b]) + 1
      <4>1. i + Limit(b) \in 1..Len(admitted[b]) /\ i + Limit(b) <= Len(admitted[b])
        <5> DEFINE n == Len(admitted[b])
                   l == Limit(b)
        <5>1. n \in Nat /\ l \in Nat /\ i \in 1..n /\ i + l <= n + 1 /\ i + l # n + 1
          BY <2>1, <3>3, <3>5
        <5> HIDE DEF n, l
        <5>2. i + l \in 1..n /\ i + l <= n
          BY <5>1
        <5> QED BY <5>2 DEF n, l
      <4>2. admitted[b][i + Limit(b)] >= admitted[b][i] + Window
        BY <2>1, <3>3, <4>1
      <4> QED BY <3>2, <3>3, <4>1, <4>2
    <3> QED BY <3>4, <3>5
  <2> QED BY <2>2, <2>3
<1>8. Bounded'
    BY <1>4, <1>7 DEF Bounded
<1>9. ASSUME NEW q \in Policies, NEW e \in Clients, refusal'[<<q, e>>] # Never
      PROVE  \E m \in Int : Moment(q, e, m)' /\ Named(refusal'[<<q, e>>], m)
  <2>1. q # p /\ refusal'[<<q, e>>] = refusal[<<q, e>>]
    BY <1>1, <1>9, BucketFacts
  <2>2. PICK m \in Int : Moment(q, e, m) /\ Named(refusal[<<q, e>>], m)
    BY <1>9, <2>1 DEF IInv, RefusalsTold
  <2>3. \A b \in Both(q, e) : b \in Buckets /\ b \notin Both(p, c)
    BY <2>1, BucketFacts DEF Both
  <2>4. \A b \in Both(q, e) : admitted'[b] = admitted[b] /\ Limit(b)' = Limit(b)
    BY <1>1, <1>4, <2>3
  <2>5. Moment(q, e, m)'
    BY <2>2, <2>4 DEF Moment, Crowded, Oldest, Both
  <2> QED BY <2>1, <2>2, <2>5
<1>10. RefusalsTold'
    BY <1>9 DEF RefusalsTold, Named
<1>11. DequesFollow'
    BY <1>6 DEF DequesFollow
<1> QED BY <1>5, <1>8, <1>10, <1>11 DEF IInv

\* A refused request takes no place and is told when its buckets have room.
LEMMA RefuseStep ==
    ASSUME IInv, NEW p \in Policies, NEW c \in Clients, Refuse(p, c)
    PROVE  IInv'
<1> DEFINE d == Fresh(p, c, now - Window)
           full == {b \in Both(p, c) : Full(d, b)}
           ready == RetryAt(d, full)
<1>1. /\ full # {} /\ calls' = d
      /\ refusal' = [refusal EXCEPT ![<<p, c>>] = [at |-> now, retry |-> RetryAfter(d, full)]]
      /\ now' = now /\ admitted' = admitted
    BY DEF Refuse
<1>2. /\ d \in [Buckets -> Seq(Nat)]
      /\ \A b \in Buckets : Remains(admitted[b], d[b], now - Window)
      /\ \A b \in Buckets : Len(d[b]) <= Limit(b)
    BY FreshFollows DEF IInv
<1>3. ready \in Int /\ ready > now /\ Moment(p, c, ready)
    BY <1>1, RetryAtIsMoment DEF IInv
<1>4. RetryAfter(d, full) = IF Seconds(ready - now) > 1 THEN Seconds(ready - now) ELSE 1
    BY DEF RetryAfter
<1> HIDE DEF d, full, ready
<1>5. now \in Nat /\ refusal \in [Buckets -> [at : Int, retry : Int]] /\ <<p, c>> \in Buckets
    BY BucketFacts DEF IInv, TypeInv
<1>6. /\ Seconds(ready - now) \in Int /\ ready - now <= Seconds(ready - now) * TicksPerSecond
      /\ (Seconds(ready - now) - 1) * TicksPerSecond < ready - now
    BY <1>3, <1>5, SecondsRoundUp
<1>7. RetryAfter(d, full) = Seconds(ready - now)
  <2>1. Seconds(ready - now) > 0
    <3>1. ready - now > 0 /\ ready - now \in Int
      BY <1>3, <1>5
    <3> QED BY <1>6, <3>1
  <2> QED BY <1>4, <1>6, <2>1
<1>8. Named([at |-> now, retry |-> RetryAfter(d, full)], ready)
  <2> DEFINE s == Seconds(ready - now)
             x == s * TicksPerSecond
             y == (s - 1) * TicksPerSecond
  <2>1. x \in Int /\ y \in Int /\ ready - now <= x /\ y < ready - now
    BY <1>6
  <2> HIDE DEF x, y
  <2>2. ready <= now + x /\ now + y < ready
    BY <2>1, <1>3, <1>5
  <2> QED BY <2>2, <1>7 DEF Named, x, y
<1>9. TypeInv'
  <2>1. RetryAfter(d, full) \in Int
    BY <1>6, <1>7
  <2> QED BY <1>1, <1>2, <1>5, <2>1 DEF IInv, TypeInv
<1>10. ASSUME NEW b \in Buckets PROVE Follows(b)'
    BY <1>1, <1>2 DEF IInv, DequesFollow, Follows, Limit
<1>11. DequesFollow'
    BY <1>10 DEF DequesFollow
<1>12. Bounded'
    BY <1>1 DEF IInv, Bounded, Limit
<1>13. ASSUME NEW q \in Policies, NEW e \in Clients, refusal'[<<q, e>>] # Never
       PROVE  \E m \in Int : Moment(q, e, m) /\ Named(refusal'[<<q, e>>], m)
  <2>1. CASE <<q, e>> = <<p, c>>
    <3>1. refusal'[<<q, e>>] = [at |-> now, retry |-> RetryAfter(d, full)]
      BY <1>1, <1>5, <2>1
    <3> QED BY <1>3, <1>8, <2>1, <3>1
  <2>2. CASE <<q, e>> # <<p, c>>
    <3>1. refusal'[<<q, e>>] = refusal[<<q, e>>]
      BY <1>1, <1>5, <2>2, BucketFacts
    <3> QED BY <1>13, <3>1 DEF IInv, RefusalsTold
  <2> QED BY <2>1, <2>2
<1>14. \A q \in Policies, e \in Clients, m \in Int : Moment(q, e, m)' <=> Moment(q, e, m)
    BY <1>1 DEF Moment, Crowded, Oldest, Both, Limit
<1>15. RefusalsTold'
    BY <1>13, <1>14 DEF RefusalsTold, Named
<1> QED BY <1>9, <1>11, <1>12, <1>15 DEF IInv

-----------------------------------------------------------------------------
(* What the invariant says of a client *)

\* A client that waits as long as it was told is admitted, and no sooner.
LEMMA TellsTheTruth == IInv => RetryHonest
<1> SUFFICES ASSUME IInv, NEW p \in Policies, NEW c \in Clients, refusal[<<p, c>>] # Never,
                    NEW d, d = Fresh(p, c, now - Window)
             PROVE  LET r == refusal[<<p, c>>]
                        room == \A b \in Both(p, c) : ~Full(d, b)
                    IN  /\ now >= r.at + r.retry * TicksPerSecond => room
                        /\ now <= r.at + (r.retry - 1) * TicksPerSecond => ~room
    BY DEF RetryHonest
<1> DEFINE r == refusal[<<p, c>>]
           x == r.at + r.retry * TicksPerSecond
           y == r.at + (r.retry - 1) * TicksPerSecond
<1>1. PICK m \in Int : Moment(p, c, m) /\ Named(r, m)
    BY DEF IInv, RefusalsTold
<1>2. x \in Int /\ y \in Int /\ now \in Nat
  <2>1. r \in [at : Int, retry : Int] /\ now \in Nat
    BY BucketFacts DEF IInv, TypeInv
  <2>2. r.at \in Int /\ r.retry \in Int
    BY <2>1
  <2> HIDE DEF r
  <2> QED BY <2>1, <2>2
<1>3. m <= x /\ y < m
    BY <1>1 DEF Named
<1> HIDE DEF x, y
<1>4. ASSUME NEW b \in Both(p, c), Crowded(b) PROVE Oldest(b) \in Nat
  <2>1. admitted[b] \in Seq(Nat) /\ Limit(b) \in Nat \ {0} /\ Len(admitted[b]) >= Limit(b)
    BY <1>4, BucketFacts DEF IInv, TypeInv, Crowded
  <2>2. Len(admitted[b]) - Limit(b) + 1 \in 1..Len(admitted[b])
    BY <2>1
  <2>3. admitted[b][Len(admitted[b]) - Limit(b) + 1] \in Nat
    BY <2>1, <2>2
  <2> QED BY <2>3 DEF Oldest
<1>5. ASSUME now >= x, NEW b \in Both(p, c) PROVE ~Full(d, b)
  <2>1. Crowded(b) => Oldest(b) + Window <= m
    BY <1>1 DEF Moment
  <2>2. Crowded(b) => ~(Oldest(b) > now - Window)
    BY <1>2, <1>3, <1>4, <1>5, <2>1
  <2> QED BY <2>2, FullMeans DEF IInv
<1>6. ASSUME now <= y PROVE \E b \in Both(p, c) : Full(d, b)
  <2>1. PICK b \in Both(p, c) : Crowded(b) /\ Oldest(b) + Window = m
    BY <1>1 DEF Moment
  <2>2. Oldest(b) > now - Window
    BY <1>2, <1>3, <1>4, <1>6, <2>1
  <2> QED BY <2>1, <2>2, FullMeans DEF IInv
<1> QED BY <1>5, <1>6 DEF x, y

-----------------------------------------------------------------------------
(* Theorem *)

\* No bucket admits more than its limit in any window of time, and a refused client
\* is told the first second at which both of its buckets have room: for any policies,
\* limits and clients, whenever deques are swept and discarded.
THEOREM LimitsKept == Spec => []LimitsHold
<1>1. IInv /\ [Next]_vars => IInv'
  <2> SUFFICES ASSUME IInv, [Next]_vars PROVE IInv'
    OBVIOUS
  <2>1. CASE Tick
    BY <2>1, TickStep
  <2>2. ASSUME NEW p \in Policies, NEW c \in Clients, Admit(p, c) PROVE IInv'
    BY <2>2, AdmitStep
  <2>3. ASSUME NEW p \in Policies, NEW c \in Clients, Refuse(p, c) PROVE IInv'
    BY <2>3, RefuseStep
  <2>4. CASE UNCHANGED vars
    <3>1. UNCHANGED <<now, calls, keys, admitted, refusal>>
      BY <2>4 DEF vars
    <3>2. TypeInv' /\ DequesFollow'
      BY <3>1 DEF IInv, TypeInv, DequesFollow, Follows, Limit
    <3>3. Bounded'
      BY <3>1 DEF IInv, Bounded, Limit
    <3>4. RefusalsTold'
      BY <3>1 DEF IInv, RefusalsTold, Moment, Crowded, Oldest, Limit
    <3> QED BY <3>2, <3>3, <3>4 DEF IInv
  <2> QED BY <2>1, <2>2, <2>3, <2>4 DEF Next
<1>2. IInv => LimitsHold
    BY TellsTheTruth DEF IInv, LimitsHold
<1> QED BY InitEstablishes, <1>1, <1>2, PTL DEF Spec
=============================================================================
