------------------------------ MODULE Induction ------------------------------
(***************************************************************************)
(* Induction and recursion with sets and functions in the place of         *)
(* operators: what the proofs about folds and orders rest on.              *)
(***************************************************************************)
EXTENDS Integers, FiniteSets, WellFoundedInduction, FiniteSetTheorems, TLAPS

\* A set of naturals has a smallest element.
LEMMA LeastNatural ==
    ASSUME NEW T, T \subseteq Nat, T # {}
    PROVE  \E n \in T : \A m \in T : n <= m
<1> DEFINE Less == {ss \in Nat \X Nat : ss[1] < ss[2]}
<1>1. IsWellFoundedOn(Less, Nat)
    BY NatLessThanWellFounded, Zenon DEF OpToRel
<1>2. PICK n \in T : \A m \in T : ~(<<m, n>> \in Less)
    BY <1>1, WFMin
<1>3. ASSUME NEW m \in T PROVE n <= m
  <2>1. m \in Nat /\ n \in Nat
    OBVIOUS
  <2>2. <<m, n>> \in Nat \X Nat /\ ~(<<m, n>>[1] < <<m, n>>[2])
    BY <1>2, <2>1
  <2> QED BY <2>1, <2>2
<1> QED BY <1>3

\* A set of integers that a bound exceeds has a largest element.
LEMMA LargestInteger ==
    ASSUME NEW T, T \subseteq Int, T # {}, NEW b \in Int, \A t \in T : t <= b
    PROVE  \E n \in T : \A m \in T : m <= n
<1> DEFINE U == {b - t : t \in T}
<1>1. U \in SUBSET Nat /\ U # {}
  <2>1. \A t \in T : b - t \in Nat
    OBVIOUS
  <2> QED BY <2>1
<1>2. PICK u \in U : \A v \in U : u <= v
  <2> HIDE DEF U
  <2> QED BY <1>1, LeastNatural
<1>3. PICK n \in T : u = b - n
    BY <1>2
<1>4. ASSUME NEW m \in T PROVE m <= n
  <2>1. b - m \in U
    OBVIOUS
  <2>2. b - n <= b - m /\ m \in Int /\ n \in Int
    BY <1>2, <1>3, <2>1
  <2> QED BY <2>2
<1> QED BY <1>4

\* What holds of zero and of the successor of what it holds of, holds of all naturals.
LEMMA NaturalsFrom ==
    ASSUME NEW P, 0 \in P, \A n \in Nat : n \in P => n + 1 \in P
    PROVE  Nat \subseteq P
<1> DEFINE T == Nat \ P
<1> SUFFICES ASSUME T # {} PROVE FALSE
    OBVIOUS
<1>1. PICK n \in T : \A m \in T : n <= m
    BY LeastNatural
<1>2. n # 0 /\ n - 1 \in Nat /\ n - 1 \notin T
    BY <1>1
<1> QED BY <1>2

\* What holds of a set when it holds of the sets with one element less, holds of every
\* finite set.
LEMMA FiniteSetsFrom ==
    ASSUME NEW S, IsFiniteSet(S), NEW D,
           \A T \in SUBSET S : (\A x \in T : T \ {x} \in D) => T \in D
    PROVE  \A T \in SUBSET S : T \in D
<1> DEFINE P == {n \in Nat : \A T \in SUBSET S : Cardinality(T) = n => T \in D}
<1>1. \A T \in SUBSET S : IsFiniteSet(T) /\ Cardinality(T) \in Nat
    BY FS_Subset, FS_CardinalityType
<1>2. 0 \in P
    BY <1>1, FS_EmptySet
<1>3. ASSUME NEW n \in Nat, n \in P PROVE n + 1 \in P
  <2>1. ASSUME NEW T \in SUBSET S, Cardinality(T) = n + 1 PROVE T \in D
    <3>1. ASSUME NEW x \in T PROVE Cardinality(T \ {x}) = n
      <4> HIDE DEF P
      <4>1. Cardinality(T \ {x}) = Cardinality(T) - 1
        BY <1>1, FS_RemoveElement
      <4> QED BY <2>1, <4>1
    <3> QED BY <1>3, <3>1
  <2> QED BY <2>1
<1>4. Nat \subseteq P
  <2> HIDE DEF P
  <2> QED BY <1>2, <1>3, NaturalsFrom
<1> QED BY <1>1, <1>4

\* A finite set of integers that is not empty has a largest element.
LEMMA GreatestOfFinite ==
    ASSUME NEW T, T \subseteq Int, T # {}, IsFiniteSet(T)
    PROVE  \E x \in T : \A y \in T : x >= y
<1> DEFINE D == {U \in SUBSET T : U # {} => \E x \in U : \A y \in U : x >= y}
<1>1. ASSUME NEW U \in SUBSET T, \A x \in U : U \ {x} \in D PROVE U \in D
  <2> SUFFICES ASSUME U # {} PROVE \E x \in U : \A y \in U : x >= y
    OBVIOUS
  <2>1. PICK z \in U : TRUE
    OBVIOUS
  <2>2. CASE U \ {z} = {}
    BY <2>1, <2>2
  <2>3. CASE U \ {z} # {}
    <3>1. PICK x \in U \ {z} : \A y \in U \ {z} : x >= y
      BY <1>1, <2>3
    <3>2. x \in Int /\ z \in Int /\ U \subseteq Int
      OBVIOUS
    <3>3. CASE x >= z
      BY <3>1, <3>3
    <3>4. CASE ~(x >= z)
      <4>1. ASSUME NEW y \in U PROVE z >= y
        BY <3>1, <3>2, <3>4, y = z \/ y \in U \ {z}
      <4> QED BY <4>1
    <3> QED BY <3>3, <3>4
  <2> QED BY <2>2, <2>3
<1> HIDE DEF D
<1>2. T \in D
    BY <1>1, FiniteSetsFrom
<1> QED BY <1>2 DEF D

\* One member of a finite set is as high as any.
LEMMA HighestOfFinite ==
    ASSUME NEW T, T # {}, IsFiniteSet(T), NEW h, \A x \in T : h[x] \in Int
    PROVE  \E x \in T : \A y \in T : h[y] <= h[x]
<1> DEFINE D == {U \in SUBSET T : U # {} => \E x \in U : \A y \in U : h[y] <= h[x]}
<1>1. ASSUME NEW U \in SUBSET T, \A x \in U : U \ {x} \in D PROVE U \in D
  <2> SUFFICES ASSUME U # {} PROVE \E x \in U : \A y \in U : h[y] <= h[x]
    OBVIOUS
  <2>1. PICK z \in U : TRUE
    OBVIOUS
  <2>2. h[z] \in Int
    OBVIOUS
  <2>3. CASE U \ {z} = {}
    BY <2>2, <2>3
  <2>4. CASE U \ {z} # {}
    <3>1. PICK x \in U \ {z} : \A y \in U \ {z} : h[y] <= h[x]
      BY <1>1, <2>4
    <3>2. h[x] \in Int /\ \A y \in U : h[y] \in Int
      OBVIOUS
    <3>3. CASE h[z] <= h[x]
      BY <3>1, <3>3
    <3>4. CASE ~(h[z] <= h[x])
      <4>1. ASSUME NEW y \in U PROVE h[y] <= h[z]
        BY <2>2, <3>1, <3>2, <3>4, y = z \/ y \in U \ {z}
      <4> QED BY <4>1
    <3> QED BY <3>3, <3>4
  <2> QED BY <2>3, <2>4
<1> HIDE DEF D
<1>2. T \in D
    BY <1>1, FiniteSetsFrom
<1> QED BY <1>2 DEF D

\* A function on the subsets of a finite set may be defined from its value on a set with
\* one element less, which is what the folds of the community modules do.
RecursiveOn(f, S, base, pick, step) ==
    f = [s \in SUBSET S |-> IF s = {} THEN base ELSE step[s][f[s \ {pick[s]}]]]

\* Such a function exists.
LEMMA RecursionOnSets ==
    ASSUME NEW S, IsFiniteSet(S), NEW V, NEW base \in V,
           NEW pick, \A s \in SUBSET S : s # {} => pick[s] \in s,
           NEW step, \A s \in SUBSET S : s # {} => \A v \in V : step[s][v] \in V
    PROVE  \E f \in [SUBSET S -> V] : RecursiveOn(f, S, base, pick, step)
<1> DEFINE Upto(n) == {s \in SUBSET S : Cardinality(s) <= n}
           Right(f, s) == f[s] = IF s = {} THEN base ELSE step[s][f[s \ {pick[s]}]]
           P == {n \in Nat : \E f \in [SUBSET S -> V] : \A s \in Upto(n) : Right(f, s)}
<1>1. \A T \in SUBSET S : IsFiniteSet(T) /\ Cardinality(T) \in Nat
    BY FS_Subset, FS_CardinalityType
<1>2. 0 \in P
  <2>1. \A s \in Upto(0) : s = {}
    BY <1>1, FS_EmptySet
  <2>2. [s \in SUBSET S |-> base] \in [SUBSET S -> V]
    OBVIOUS
  <2>3. \A s \in Upto(0) : Right([t \in SUBSET S |-> base], s)
    BY <2>1
  <2> QED BY <2>2, <2>3
<1>3. ASSUME NEW n \in Nat, n \in P PROVE n + 1 \in P
  <2>1. PICK f \in [SUBSET S -> V] : \A s \in Upto(n) : Right(f, s)
    BY <1>3
  <2> DEFINE g == [s \in SUBSET S |-> IF s = {} THEN base ELSE step[s][f[s \ {pick[s]}]]]
  <2>2. g \in [SUBSET S -> V]
    OBVIOUS
  <2>3. \A s \in Upto(n) : g[s] = f[s]
    BY <2>1
  <2>4. ASSUME NEW s \in Upto(n + 1) PROVE Right(g, s)
    <3>1. CASE s = {}
      BY <3>1
    <3>2. CASE s # {}
      <4>1. s \ {pick[s]} \in SUBSET S /\ Cardinality(s \ {pick[s]}) = Cardinality(s) - 1
        BY <1>1, <3>2, FS_RemoveElement
      <4>2. s \ {pick[s]} \in Upto(n)
        BY <1>1, <4>1
      <4> QED BY <2>3, <3>2, <4>2
    <3> QED BY <3>1, <3>2
  <2>5. \E h \in [SUBSET S -> V] : \A s \in Upto(n + 1) : Right(h, s)
    BY <2>2, <2>4
  <2> HIDE DEF Right, Upto
  <2> QED BY <2>5
<1>4. Nat \subseteq P
  <2> HIDE DEF P
  <2> QED BY <1>2, <1>3, NaturalsFrom
<1>5. Cardinality(S) \in P
    BY <1>1, <1>4
<1>6. PICK f \in [SUBSET S -> V] : \A s \in Upto(Cardinality(S)) : Right(f, s)
    BY <1>5
<1>7. \A s \in SUBSET S : s \in Upto(Cardinality(S))
    BY FS_Subset
<1>8. \A s \in SUBSET S : f[s] = IF s = {} THEN base ELSE step[s][f[s \ {pick[s]}]]
    BY <1>6, <1>7
<1>9. f = [s \in SUBSET S |-> IF s = {} THEN base ELSE step[s][f[s \ {pick[s]}]]]
    BY <1>8
<1> QED BY <1>9 DEF RecursiveOn
-----------------------------------------------------------------------------
(* Sums over finite sets, as MapThenSumSet of the community modules computes them *)

\* Each subset has a member that is added last.
Picks(S) == [s \in SUBSET S |-> CHOOSE x \in s : TRUE]
SumsUp(f, w, S) ==
    f = [s \in SUBSET S |-> IF s = {} THEN 0 ELSE w[Picks(S)[s]] + f[s \ {Picks(S)[s]}]]
SumOver(w, S) == (CHOOSE f : SumsUp(f, w, S))[S]

\* The partial sums exist, and there is one function of them.
LEMMA PartialSums ==
    ASSUME NEW S, IsFiniteSet(S), NEW w, \A x \in S : w[x] \in Int
    PROVE  \E f \in [SUBSET S -> Int] : SumsUp(f, w, S) /\ SumOver(w, S) = f[S]
<1> DEFINE pick == Picks(S)
           step == [s \in SUBSET S |-> [v \in Int |-> w[pick[s]] + v]]
<1>1. \A s \in SUBSET S : s # {} => pick[s] \in s
    BY DEF Picks
<1> HIDE DEF pick
<1>2. \A s \in SUBSET S : s # {} => \A v \in Int : step[s][v] \in Int /\ step[s][v] = w[pick[s]] + v
    BY <1>1
<1> HIDE DEF step
<1>3. PICK f \in [SUBSET S -> Int] : RecursiveOn(f, S, 0, pick, step)
  <2> DEFINE zero == 0
  <2>1. zero \in Int
    OBVIOUS
  <2> HIDE DEF zero
  <2>2. \E f \in [SUBSET S -> Int] : RecursiveOn(f, S, zero, pick, step)
    BY <1>1, <1>2, <2>1, RecursionOnSets
  <2> QED BY <2>2 DEF zero
<1>4. SumsUp(f, w, S)
  <2>1. \A s \in SUBSET S : f[s] = IF s = {} THEN 0 ELSE w[pick[s]] + f[s \ {pick[s]}]
    <3> SUFFICES ASSUME NEW s \in SUBSET S
                 PROVE  f[s] = IF s = {} THEN 0 ELSE w[pick[s]] + f[s \ {pick[s]}]
      OBVIOUS
    <3>1. f[s] = IF s = {} THEN 0 ELSE step[s][f[s \ {pick[s]}]]
      BY <1>3 DEF RecursiveOn
    <3>2. s # {} => f[s \ {pick[s]}] \in Int
      OBVIOUS
    <3> QED BY <1>2, <3>1, <3>2
  <2>2. f = [s \in SUBSET S |-> IF s = {} THEN 0 ELSE w[pick[s]] + f[s \ {pick[s]}]]
    BY <2>1
  <2> QED BY <2>2 DEF SumsUp, pick
<1>5. ASSUME NEW g, SumsUp(g, w, S) PROVE g = f
  <2> DEFINE D == {s \in SUBSET S : g[s] = f[s]}
  <2>1. /\ \A s \in SUBSET S : g[s] = IF s = {} THEN 0 ELSE w[pick[s]] + g[s \ {pick[s]}]
        /\ \A s \in SUBSET S : f[s] = IF s = {} THEN 0 ELSE w[pick[s]] + f[s \ {pick[s]}]
        /\ g = [s \in SUBSET S |-> g[s]]
    BY <1>4, <1>5 DEF SumsUp, pick
  <2>2. ASSUME NEW T \in SUBSET S, \A x \in T : T \ {x} \in D PROVE T \in D
    BY <1>1, <2>1, <2>2
  <2> HIDE DEF D
  <2>3. \A T \in SUBSET S : T \in D
    BY <2>2, FiniteSetsFrom
  <2> QED BY <2>1, <2>3 DEF D
<1>6. SumOver(w, S) = f[S]
    BY <1>4, <1>5 DEF SumOver
<1> QED BY <1>4, <1>6

\* A sum may be begun with any member.
LEMMA SumFrom ==
    ASSUME NEW S, IsFiniteSet(S), NEW w, \A x \in S : w[x] \in Int, NEW x \in S
    PROVE  SumOver(w, S) = w[x] + SumOver(w, S \ {x})
<1> DEFINE pick == Picks(S)
<1>1. PICK f \in [SUBSET S -> Int] : SumsUp(f, w, S) /\ SumOver(w, S) = f[S]
    BY PartialSums
<1>2. \A s \in SUBSET S : /\ f[s] \in Int
                          /\ f[s] = IF s = {} THEN 0 ELSE w[pick[s]] + f[s \ {pick[s]}]
                          /\ s # {} => pick[s] \in s
    BY <1>1 DEF SumsUp, Picks
<1> HIDE DEF pick
<1> DEFINE D == {s \in SUBSET S : \A y \in s : f[s] = w[y] + f[s \ {y}]}
<1>3. ASSUME NEW T \in SUBSET S, \A y \in T : T \ {y} \in D PROVE T \in D
  <2> SUFFICES ASSUME NEW y \in T PROVE f[T] = w[y] + f[T \ {y}]
    OBVIOUS
  <2> DEFINE p == pick[T]
  <2>1. p \in T /\ f[T] = w[p] + f[T \ {p}]
    BY <1>2
  <2> HIDE DEF p
  <2>2. CASE p = y
    BY <2>1, <2>2
  <2>3. CASE p # y
    <3>1. T \ {p} \in D /\ T \ {y} \in D /\ y \in T \ {p} /\ p \in T \ {y}
      BY <1>3, <2>1, <2>3
    <3>2. f[T \ {p}] = w[y] + f[(T \ {p}) \ {y}] /\ f[T \ {y}] = w[p] + f[(T \ {y}) \ {p}]
      BY <3>1
    <3> DEFINE U == (T \ {p}) \ {y}
    <3>3. (T \ {y}) \ {p} = U /\ U \in SUBSET S
      OBVIOUS
    <3>4. w[p] \in Int /\ w[y] \in Int /\ f[U] \in Int
      BY <1>2, <2>1, <3>3
    <3> HIDE DEF U
    <3>5. f[T \ {p}] = w[y] + f[U] /\ f[T \ {y}] = w[p] + f[U]
      BY <3>2, <3>3 DEF U
    <3> HIDE DEF D
    <3> QED BY <2>1, <3>4, <3>5
  <2> QED BY <2>2, <2>3
<1> HIDE DEF D
<1>4. S \in D
    BY <1>3, FiniteSetsFrom
<1>5. f[S] = w[x] + f[S \ {x}]
    BY <1>4 DEF D
<1> DEFINE T == S \ {x}
<1>6. IsFiniteSet(T) /\ \A y \in T : w[y] \in Int
    BY FS_Subset
<1> HIDE DEF T
<1>7. PICK g \in [SUBSET T -> Int] : SumsUp(g, w, T) /\ SumOver(w, T) = g[T]
    BY <1>6, PartialSums
<1>8. \A s \in SUBSET T : /\ g[s] = IF s = {} THEN 0 ELSE w[Picks(T)[s]] + g[s \ {Picks(T)[s]}]
                          /\ s \in SUBSET S /\ Picks(T)[s] = pick[s]
  <2>1. \A s \in SUBSET T : g[s] = IF s = {} THEN 0 ELSE w[Picks(T)[s]] + g[s \ {Picks(T)[s]}]
    BY <1>7 DEF SumsUp
  <2>2. \A s \in SUBSET T : s \in SUBSET S
    BY DEF T
  <2>3. \A s \in SUBSET T : Picks(T)[s] = pick[s]
    BY <2>2 DEF Picks, pick
  <2> QED BY <2>1, <2>2, <2>3
<1> DEFINE E == {s \in SUBSET T : g[s] = f[s]}
<1>9. ASSUME NEW U \in SUBSET T, \A y \in U : U \ {y} \in E PROVE U \in E
  <2>1. /\ g[U] = IF U = {} THEN 0 ELSE w[pick[U]] + g[U \ {pick[U]}]
        /\ f[U] = IF U = {} THEN 0 ELSE w[pick[U]] + f[U \ {pick[U]}]
        /\ U # {} => pick[U] \in U
    BY <1>2, <1>8
  <2> QED BY <1>9, <2>1
<1> HIDE DEF E
<1>10. T \in E
    BY <1>6, <1>9, FiniteSetsFrom
<1>11. SumOver(w, T) = f[T]
    BY <1>7, <1>10 DEF E
<1> QED BY <1>1, <1>5, <1>11 DEF T

\* A sum of integers is one, the sum over nothing is zero, and a sum depends on its terms only.
LEMMA SumOfTerms ==
    ASSUME NEW S, IsFiniteSet(S), NEW w, \A x \in S : w[x] \in Int
    PROVE  /\ SumOver(w, S) \in Int
           /\ S = {} => SumOver(w, S) = 0
           /\ \A v : (\A x \in S : v[x] = w[x]) => SumOver(v, S) = SumOver(w, S)
<1>1. PICK f \in [SUBSET S -> Int] : SumsUp(f, w, S) /\ SumOver(w, S) = f[S]
    BY PartialSums
<1>2. S = {} => f[S] = 0
    BY <1>1 DEF SumsUp
<1>3. ASSUME NEW v, \A x \in S : v[x] = w[x] PROVE SumOver(v, S) = SumOver(w, S)
  <2>1. \A s \in SUBSET S : s # {} => Picks(S)[s] \in S
    BY DEF Picks
  <2>2. ASSUME NEW g PROVE SumsUp(g, v, S) <=> SumsUp(g, w, S)
    BY <1>3, <2>1 DEF SumsUp
  <2> QED BY <2>2 DEF SumOver
<1> QED BY <1>1, <1>2, <1>3

-----------------------------------------------------------------------------
(* Orders, as sets of pairs *)

\* Of two members of T one comes before the other.
Total(R, T) == \A x, y \in T : x # y => <<x, y>> \in R \/ <<y, x>> \in R
Transitive(R, T) ==
    \A x, y, z \in T : <<x, y>> \in R /\ <<y, z>> \in R => <<x, z>> \in R

\* A finite set that is totally ordered has a last member.
LEMMA LastOfFinite ==
    ASSUME NEW S, IsFiniteSet(S), S # {}, NEW R, Total(R, S), Transitive(R, S)
    PROVE  \E m \in S : \A x \in S \ {m} : <<x, m>> \in R
<1> DEFINE D == {T \in SUBSET S : T # {} => \E m \in T : \A x \in T \ {m} : <<x, m>> \in R}
<1>1. ASSUME NEW T \in SUBSET S, \A x \in T : T \ {x} \in D PROVE T \in D
  <2> SUFFICES ASSUME T # {} PROVE \E m \in T : \A x \in T \ {m} : <<x, m>> \in R
    OBVIOUS
  <2>1. PICK z \in T : TRUE
    OBVIOUS
  <2>2. CASE T \ {z} = {}
    BY <2>1, <2>2
  <2>3. CASE T \ {z} # {}
    <3>1. PICK m \in T \ {z} : \A x \in (T \ {z}) \ {m} : <<x, m>> \in R
      BY <1>1, <2>1, <2>3
    <3>2. CASE <<z, m>> \in R
      BY <3>1, <3>2
    <3>3. CASE <<m, z>> \in R
      <4>1. ASSUME NEW x \in T \ {z} PROVE <<x, z>> \in R
        <5>1. CASE x = m
          BY <3>3, <5>1
        <5>2. CASE x # m
          BY <2>1, <3>1, <3>3, <5>2 DEF Transitive
        <5> QED BY <5>1, <5>2
      <4> QED BY <2>1, <4>1
    <3> QED BY <2>1, <3>1, <3>2, <3>3 DEF Total
  <2> QED BY <2>2, <2>3
<1> HIDE DEF D
<1>2. S \in D
    BY <1>1, FiniteSetsFrom
<1> QED BY <1>2 DEF D

\* The members of T, one after another, as R orders them.
Enumerates(q, T, R) ==
    /\ q \in [1..Cardinality(T) -> T]
    /\ \A x \in T : \E i \in 1..Cardinality(T) : q[i] = x
    /\ \A i, j \in 1..Cardinality(T) : i < j => q[i] # q[j] /\ <<q[i], q[j]>> \in R

\* A finite set that is totally ordered can be listed in its order.
LEMMA Enumeration ==
    ASSUME NEW S, IsFiniteSet(S), NEW R, Total(R, S), Transitive(R, S)
    PROVE  \E q : Enumerates(q, S, R)
<1> DEFINE D == {T \in SUBSET S : \E q : Enumerates(q, T, R)}
<1>1. ASSUME NEW T \in SUBSET S, \A x \in T : T \ {x} \in D PROVE T \in D
  <2>1. IsFiniteSet(T) /\ Cardinality(T) \in Nat
    BY FS_Subset, FS_CardinalityType
  <2>2. CASE T = {}
    <3>1. Cardinality(T) = 0
      BY <2>2, FS_EmptySet
    <3>2. 1..0 = {}
      OBVIOUS
    <3>3. Enumerates([i \in 1..0 |-> i], T, R)
      BY <2>2, <3>1, <3>2 DEF Enumerates
    <3> QED BY <3>3
  <2>3. CASE T # {}
    <3>1. Total(R, T) /\ Transitive(R, T)
      BY DEF Total, Transitive
    <3>2. PICK m \in T : \A x \in T \ {m} : <<x, m>> \in R
      BY <2>1, <2>3, <3>1, LastOfFinite
    <3>3. PICK q : Enumerates(q, T \ {m}, R)
      BY <1>1, <3>2
    <3> DEFINE n == Cardinality(T \ {m})
               f == [i \in 1..(n + 1) |-> IF i = n + 1 THEN m ELSE q[i]]
    <3>4. n \in Nat /\ Cardinality(T) = n + 1
      <4>1. n = Cardinality(T) - 1 /\ IsFiniteSet(T \ {m})
        BY <2>1, <3>2, FS_RemoveElement
      <4>2. n \in Nat
        BY <4>1, FS_CardinalityType
      <4> QED BY <2>1, <4>1, <4>2
    <3>5. /\ \A i \in 1..n : q[i] \in T \ {m}
          /\ \A x \in T \ {m} : \E i \in 1..n : q[i] = x
          /\ \A i, j \in 1..n : i < j => q[i] # q[j] /\ <<q[i], q[j]>> \in R
      BY <3>3 DEF Enumerates
    <3> HIDE DEF n
    <3>6. /\ f[n + 1] = m
          /\ \A i \in 1..n : f[i] = q[i] /\ i \in 1..(n + 1) /\ i < n + 1
          /\ \A i \in 1..(n + 1) : i \in 1..n \/ i = n + 1
      BY <3>4
    <3>7. f \in [1..(n + 1) -> T]
      BY <3>2, <3>5, <3>6
    <3>8. \A x \in T : \E i \in 1..(n + 1) : f[i] = x
      BY <3>4, <3>5, <3>6
    <3>9. \A i, j \in 1..(n + 1) : i < j => f[i] # f[j] /\ <<f[i], f[j]>> \in R
      <4> HIDE DEF f
      <4>1. ASSUME NEW i \in 1..(n + 1), NEW j \in 1..(n + 1), i < j
            PROVE  f[i] # f[j] /\ <<f[i], f[j]>> \in R
        <5>1. i \in 1..n
          BY <3>4, <4>1
        <5>2. CASE j \in 1..n
          BY <3>5, <3>6, <4>1, <5>1, <5>2
        <5>3. CASE j = n + 1
          <6>1. f[j] = m /\ f[i] \in T \ {m}
            BY <3>5, <3>6, <5>1, <5>3
          <6> QED BY <3>2, <6>1
        <5> QED BY <3>6, <5>2, <5>3
      <4> QED BY <4>1
    <3>10. Enumerates(f, T, R)
      BY <3>4, <3>7, <3>8, <3>9 DEF Enumerates
    <3> QED BY <3>10
  <2> QED BY <2>2, <2>3
<1> HIDE DEF D
<1>2. S \in D
    BY <1>1, FiniteSetsFrom
<1> QED BY <1>2 DEF D

\* A list of as many distinct members as the set has names all of them.
LEMMA AllListed ==
    ASSUME NEW S, IsFiniteSet(S), NEW q \in [1..Cardinality(S) -> S],
           \A i, j \in 1..Cardinality(S) : i # j => q[i] # q[j]
    PROVE  \A x \in S : \E i \in 1..Cardinality(S) : q[i] = x
<1>1. Cardinality(S) \in Nat
    BY FS_CardinalityType
<1>2. IsFiniteSet(1..Cardinality(S)) /\ Cardinality(1..Cardinality(S)) = Cardinality(S)
    BY <1>1, FS_Interval
<1>3. q \in Injection(1..Cardinality(S), S)
    BY DEF Injection, IsInjective
<1>4. q \in Surjection(1..Cardinality(S), S)
    BY <1>2, <1>3, FS_Injection
<1> QED BY <1>4 DEF Surjection


\* A finite set of integers can be listed in ascending order, and whatever lists it without
\* repetition names all of it.
LEMMA Ascending ==
    ASSUME NEW S, IsFiniteSet(S), S \subseteq Int
    PROVE  LET n == Cardinality(S)
               L == {f \in [1..n -> S] : \A i, j \in 1..n : i # j => f[i] # f[j]}
           IN  /\ n \in Nat
               /\ \E q \in L : \A i, j \in DOMAIN q : i < j => q[i] < q[j]
               /\ \A q \in L : \A r \in S : \E i \in 1..n : q[i] = r
<1> DEFINE less == {p \in S \X S : p[1] < p[2]}
           n == Cardinality(S)
           L == {f \in [1..n -> S] : \A i, j \in 1..n : i # j => f[i] # f[j]}
<1>1. n \in Nat
    BY FS_CardinalityType
<1>2. \A x, y \in S : <<x, y>> \in less <=> x < y
    OBVIOUS
<1>3. Total(less, S) /\ Transitive(less, S)
  <2> HIDE DEF less
  <2> QED BY <1>2 DEF Total, Transitive
<1>4. PICK q : Enumerates(q, S, less)
  <2> HIDE DEF less
  <2> QED BY <1>3, Enumeration
<1>5. q \in L /\ \A i, j \in DOMAIN q : i < j => q[i] < q[j]
  <2> HIDE DEF less, n
  <2>1. /\ q \in [1..n -> S]
        /\ \A i, j \in 1..n : i < j => q[i] # q[j] /\ <<q[i], q[j]>> \in less
    BY <1>4 DEF Enumerates, n
  <2>2. ASSUME NEW i \in 1..n, NEW j \in 1..n, i # j PROVE q[i] # q[j]
    <3>1. n \in Nat /\ i \in Int /\ j \in Int
      BY <1>1
    <3>2. i < j \/ j < i
      BY <2>2, <3>1
    <3> QED BY <2>1, <3>2
  <2>3. \A i, j \in 1..n : i < j => q[i] < q[j]
    BY <1>2, <2>1
  <2> QED BY <2>1, <2>2, <2>3
<1>6. \A f \in L : \A r \in S : \E i \in 1..n : f[i] = r
    BY AllListed
<1> QED BY <1>1, <1>5, <1>6

===============================================================================
