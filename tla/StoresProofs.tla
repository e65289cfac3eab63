---------------------------- MODULE StoresProofs ----------------------------
(***************************************************************************)
(* The stores behind MCStores, for any constants: the tables of the        *)
(* present say what the newest deliveries say, and the chains of reported  *)
(* notices stay whole, whatever the order of the windows.                  *)
(***************************************************************************)
EXTENDS MCStores, SequenceTheorems, Induction

\* The library's operators are the same in every component.
LEMMA CurrentLibrary ==
  /\ \A S : Current!Cardinality(S) = Cardinality(S) /\ Current!IsFiniteSet(S) = IsFiniteSet(S)
BY DEF Current!Cardinality, Cardinality, Current!IsFiniteSet, IsFiniteSet

-----------------------------------------------------------------------------
(* The tables of the present (CurrentTables). *)

Known == Current!Status \cup {Current!Absent, Current!Unusable}
Incident == [ref: Refs, status: Known]

CurrentTypes ==
  /\ served \in [Refs -> Known]
  /\ incidents \in [Refs -> [present: BOOLEAN, status: Known]]
  /\ assets \in [Refs -> [class: {"none", "reference", "placeholder"}, active: BOOLEAN]]
  /\ newest \in [incidents: [Refs -> Known \cup {"unknown"}],
                 listed: SUBSET Refs, mentioned: SUBSET Refs,
                 segments: [Refs -> SUBSET Current!Segment]]
  /\ fetch \in [pc: {"idle", "page", "store"}, rows: Seq(Incident), total: Nat, steady: BOOLEAN]

\* The pages read so far are the beginning of what is served, as long as it does not
\* change; a snapshot to store that was not cut off is all of it, and one with rows has a
\* usable one.
PagesRight ==
  /\ fetch.pc = "page" => Len(fetch.rows) <= MaxRecords
  /\ fetch.pc \in {"page", "store"} /\ fetch.steady =>
        /\ Len(fetch.rows) <= Len(Current!ServedRows)
        /\ fetch.rows = SubSeq(Current!ServedRows, 1, Len(fetch.rows))
  /\ fetch.pc = "store" /\ fetch.steady =>
        /\ fetch.total = Len(Current!ServedRows)
        /\ fetch.total <= MaxRecords => Len(fetch.rows) = fetch.total
  /\ fetch.pc = "store" /\ fetch.rows # <<>> =>
        \E i \in DOMAIN fetch.rows : fetch.rows[i].status # Current!Unusable

\* A REPD site is never only mentioned.
SitesListed == table = "repd" => \A r \in Refs : assets[r].class # "placeholder"

CurrentInv == CurrentTypes /\ PagesRight /\ SitesListed /\ Current!CurrentIsNewest

\* The smaller of two integers.
LEMMA SmallerOfTwo ==
  ASSUME NEW a \in Int, NEW b \in Int
  PROVE  Current!Min({a, b}) = IF a <= b THEN a ELSE b
<1> DEFINE m == IF a <= b THEN a ELSE b
<1>1. m \in {a, b} /\ \A x \in {a, b} : m <= x
    OBVIOUS
<1>2. \A x \in {a, b} : (\A y \in {a, b} : x <= y) => x = m
    OBVIOUS
<1>3. Current!Min({a, b}) = CHOOSE x \in {a, b} : \A y \in {a, b} : x <= y
    BY DEF Current!Min
<1> HIDE DEF m
<1>4. Current!Min({a, b}) = m
    BY <1>1, <1>2, <1>3
<1> QED BY <1>4 DEF m

\* The references in their order, each once.
LEMMA OrderedIs ==
  ASSUME NEW R, R \subseteq Refs
  PROVE  /\ Current!Ordered(R) \in [1..Cardinality(R) -> R]
         /\ \A r \in R : \E i \in 1..Cardinality(R) : Current!Ordered(R)[i] = r
         /\ Cardinality(R) \in Nat
<1> DEFINE n == Cardinality(R)
           L == {f \in [1..n -> R] : \A i, j \in 1..n : i # j => f[i] # f[j]}
<1>1. IsFiniteSet(R) /\ R \subseteq Int
  <2>1. IsFiniteSet(Refs) /\ Refs \subseteq Nat
    BY CurrentSettings, CurrentLibrary DEF Current!CurrentAssumption
  <2>2. R \subseteq Int
    BY <2>1
  <2> HIDE DEF n, L
  <2> QED BY <2>1, <2>2, FS_Subset
<1>2. /\ n \in Nat
      /\ \E q \in L : \A i, j \in DOMAIN q : i < j => q[i] < q[j]
      /\ \A q \in L : \A r \in R : \E i \in 1..n : q[i] = r
    BY <1>1, Ascending
<1>3. Current!Ordered(R) = CHOOSE q \in L : \A i, j \in DOMAIN q : i < j => q[i] < q[j]
    BY CurrentLibrary DEF Current!Ordered, Current!SetToSeqs
<1>4. Current!Ordered(R) \in L
    BY <1>2, <1>3
<1> QED BY <1>2, <1>4

\* What UK Power Networks serves is the list of the present incidents.
LEMMA ServedIsListed ==
  ASSUME CurrentTypes
  PROVE  /\ Current!ServedRows \in Seq(Incident) /\ Len(Current!ServedRows) \in Nat
         /\ \A i \in 1..Len(Current!ServedRows) :
               /\ Current!ServedRows[i].status = served[Current!ServedRows[i].ref]
               /\ served[Current!ServedRows[i].ref] # Current!Absent
         /\ \A r \in Refs : served[r] # Current!Absent =>
               \E i \in 1..Len(Current!ServedRows) : Current!ServedRows[i].ref = r
<1> DEFINE R == {r \in Refs : served[r] # Current!Absent}
           q == Current!Ordered(R)
           n == Cardinality(R)
           S == [i \in 1..n |-> [ref |-> q[i], status |-> served[q[i]]]]
<1>1. /\ q \in [1..n -> R] /\ n \in Nat
      /\ \A r \in R : \E i \in 1..n : q[i] = r
    BY OrderedIs
<1>2. Current!ServedRows = S
    BY <1>1 DEF Current!ServedRows
<1>3. \A i \in 1..n : S[i] = [ref |-> q[i], status |-> served[q[i]]] /\ q[i] \in R
    BY <1>1
<1>4. S \in [1..n -> Incident]
    BY <1>3 DEF Incident, CurrentTypes
<1>5. S \in Seq(Incident) /\ Len(S) = n
  <2> HIDE DEF S, n
  <2>1. n \in Nat
    BY <1>1 DEF n
  <2> QED BY <1>4, <2>1
<1> QED BY <1>1, <1>2, <1>3, <1>5

\* A page continues the list, and does not go beyond the bound.
LEMMA PageContinues ==
  ASSUME CurrentTypes, NEW k \in Nat, k <= MaxRecords
  PROVE  /\ Current!Page(k) \in Seq(Incident)
         /\ k + Len(Current!Page(k)) <= MaxRecords
         /\ k <= Len(Current!ServedRows) =>
              /\ k + Len(Current!Page(k)) <= Len(Current!ServedRows)
              /\ SubSeq(Current!ServedRows, 1, k) \o Current!Page(k)
                   = SubSeq(Current!ServedRows, 1, k + Len(Current!Page(k)))
<1> DEFINE S == Current!ServedRows
           n == Len(S)
           size == IF PageSize <= MaxRecords - k THEN PageSize ELSE MaxRecords - k
           m == IF k + size <= n THEN k + size ELSE n
<1>1. PageSize \in Nat /\ MaxRecords \in Nat
    BY CurrentSettings DEF Current!CurrentAssumption
<1>2. S \in Seq(Incident) /\ n \in Nat
    BY ServedIsListed
<1>3. Current!Min({PageSize, MaxRecords - k}) = size /\ size \in Nat /\ k + size <= MaxRecords
    BY <1>1, SmallerOfTwo
<1>5. m \in Nat /\ m <= n /\ m <= k + size /\ Current!Min({k + size, n}) = m
  <2> HIDE DEF size, S
  <2> QED BY <1>1, <1>2, <1>3, SmallerOfTwo
<1>6. Current!Page(k) = SubSeq(S, k + 1, m)
    BY <1>3, <1>5 DEF Current!Page
<1> HIDE DEF S, n, size, m
<1>7. n = Len(S)
    BY DEF n
<1>8. CASE m <= k
  <2>1. SubSeq(S, k + 1, m) = <<>>
    BY <1>2, <1>5, <1>7, <1>8
  <2>2. k <= n => SubSeq(S, 1, k) \in Seq(Incident)
    BY <1>2, <1>7
  <2>3. k + Len(<<>>) = k
    OBVIOUS
  <2>4. k <= n => SubSeq(S, 1, k) \o <<>> = SubSeq(S, 1, k)
    BY <2>2
  <2>5. Current!Page(k) = <<>> /\ <<>> \in Seq(Incident)
    BY <1>6, <2>1
  <2>6. k <= n => SubSeq(S, 1, k) \o Current!Page(k) = SubSeq(S, 1, k + Len(Current!Page(k)))
    BY <2>3, <2>4, <2>5
  <2> QED BY <2>3, <2>5, <2>6 DEF S, n
<1>9. CASE k < m
  <2>1. /\ SubSeq(S, k + 1, m) \in Seq(Incident) /\ Len(SubSeq(S, k + 1, m)) = m - k
        /\ \A i \in 1..(m - k) : SubSeq(S, k + 1, m)[i] = S[k + i]
    BY <1>2, <1>5, <1>7, <1>9
  <2>2. /\ SubSeq(S, 1, k) \in Seq(Incident) /\ Len(SubSeq(S, 1, k)) = k
        /\ \A i \in 1..k : SubSeq(S, 1, k)[i] = S[i]
    BY <1>2, <1>5, <1>7, <1>9
  <2>3. /\ SubSeq(S, 1, m) \in Seq(Incident) /\ Len(SubSeq(S, 1, m)) = m
        /\ \A i \in 1..m : SubSeq(S, 1, m)[i] = S[i]
    BY <1>2, <1>5, <1>7, <1>9
  <2>4. SubSeq(S, 1, k) \o SubSeq(S, k + 1, m) = SubSeq(S, 1, m)
    <3> DEFINE a == SubSeq(S, 1, k)
               b == SubSeq(S, k + 1, m)
               c == SubSeq(S, 1, m)
    <3> HIDE DEF a, b, c
    <3>1. a \in Seq(Incident) /\ b \in Seq(Incident) /\ Len(a) = k /\ Len(b) = m - k
      BY <2>1, <2>2 DEF a, b
    <3>2. a \o b \in Seq(Incident) /\ Len(a \o b) = m
      BY <3>1, <1>5, <1>9
    <3>3. \A i \in 1..m : (a \o b)[i] = IF i <= k THEN a[i] ELSE b[i - k]
      BY <3>1, <1>5, <1>9
    <3>4. ASSUME NEW i \in 1..m PROVE (a \o b)[i] = c[i]
      <4>1. CASE i <= k
        <5>1. i \in 1..k
          BY <1>5, <4>1
        <5>2. a[i] = S[i] /\ c[i] = S[i]
          BY <2>2, <2>3, <5>1 DEF a, c
        <5> QED BY <3>3, <4>1, <5>2
      <4>2. CASE i > k
        <5>1. i - k \in 1..(m - k) /\ k + (i - k) = i
          BY <1>5, <4>2
        <5>2. b[i - k] = S[i]
          BY <2>1, <5>1 DEF b
        <5>3. c[i] = S[i] /\ ~(i <= k)
          BY <1>5, <2>3, <4>2 DEF c
        <5> QED BY <3>3, <5>2, <5>3
      <4>3. i <= k \/ i > k
        BY <1>5
      <4> QED BY <4>1, <4>2, <4>3
    <3>5. c \in Seq(Incident) /\ Len(c) = m
      BY <2>3 DEF c
    <3>6. a \o b = c
      BY <3>2, <3>4, <3>5, SeqEqual
    <3> QED BY <3>6 DEF a, b, c
  <2>5. k + (m - k) = m /\ m <= MaxRecords
    BY <1>1, <1>3, <1>5, <1>9
  <2> QED BY <1>5, <1>6, <2>1, <2>4, <2>5 DEF S, n
<1> QED BY <1>5, <1>8, <1>9

\* At the start the tables are empty and no delivery has said anything.
LEMMA CurrentStart == Current!Init => CurrentInv
<1> SUFFICES ASSUME Current!Init PROVE CurrentInv
    OBVIOUS
<1> USE DEF Current!Init
<1>1. CurrentTypes
  <2>1. <<>> \in Seq(Incident)
    OBVIOUS
  <2> QED BY <2>1 DEF CurrentTypes, Known, Current!Status, Current!Absent, Current!Unusable, Current!NoFetch, Current!NoAsset
<1>2. PagesRight
    BY DEF PagesRight, Current!NoFetch
<1>3. SitesListed
    BY DEF SitesListed, Current!NoAsset
<1>4. Current!CurrentIsNewest
    BY DEF Current!CurrentIsNewest, Current!MembershipTold, Current!Unusable, Current!Kept, Current!NoAsset
<1> QED BY <1>1, <1>2, <1>3, <1>4 DEF CurrentInv

\* What the present tables and the newest deliveries are compared on.
Compared == <<table, incidents, assets, segments, newest>>

\* A step that leaves the compared tables alone.
LEMMA ComparedKept ==
  ASSUME CurrentInv, UNCHANGED Compared
  PROVE  SitesListed' /\ Current!CurrentIsNewest'
BY DEF CurrentInv, Compared, SitesListed, Current!CurrentIsNewest, Current!MembershipTold, Current!Kept

\* A delivery to the other tables leaves the incidents as the newest snapshot told.
LEMMA MembershipKept ==
  ASSUME Current!MembershipTold, UNCHANGED incidents, newest'.incidents = newest.incidents
  PROVE  Current!MembershipTold'
BY DEF Current!MembershipTold

\* The list depends on what is served alone.
LEMMA SameList ==
  ASSUME UNCHANGED served
  PROVE  Current!ServedRows' = Current!ServedRows
BY DEF Current!ServedRows

\* A fetch that begins has read nothing, one that is disturbed promises nothing.
LEMMA FetchSteps ==
  ASSUME CurrentInv, Current!BeginFetch \/ Current!Serve \/ Current!FetchFails
  PROVE  CurrentInv'
<1>1. CASE Current!BeginFetch
  <2>1. /\ fetch' = [Current!NoFetch EXCEPT !.pc = "page"]
        /\ UNCHANGED <<table, served, incidents, reader, assets, segments, newest, changes>>
    BY <1>1 DEF Current!BeginFetch
  <2>2. fetch'.pc = "page" /\ fetch'.rows = <<>> /\ fetch'.total = 0 /\ fetch'.steady = TRUE
    BY <2>1 DEF Current!NoFetch
  <2>3. <<>> \in Seq(Incident) /\ Len(<<>>) = 0
    OBVIOUS
  <2>4. fetch' \in [pc: {"idle", "page", "store"}, rows: Seq(Incident), total: Nat, steady: BOOLEAN]
    BY <2>1, <2>3 DEF Current!NoFetch
  <2>5. CurrentTypes'
    BY <2>1, <2>4 DEF CurrentInv, CurrentTypes
  <2>6. Current!ServedRows' = Current!ServedRows
    BY <2>1, SameList
  <2>7. Len(Current!ServedRows) \in Nat /\ Current!ServedRows \in Seq(Incident)
    BY ServedIsListed DEF CurrentInv
  <2>8. SubSeq(Current!ServedRows, 1, 0) = <<>>
    BY <2>7
  <2>9. MaxRecords \in Nat
    BY CurrentSettings DEF Current!CurrentAssumption
  <2>10. PagesRight'
    BY <2>2, <2>3, <2>6, <2>7, <2>8, <2>9 DEF PagesRight
  <2> QED BY <2>1, <2>5, <2>10, ComparedKept DEF Compared, CurrentInv
<1>2. CASE Current!Serve
  <2>1. PICK r \in Refs, s \in Known : served' = [served EXCEPT ![r] = s]
    BY <1>2 DEF Current!Serve, Known
  <2>2. /\ fetch' = IF fetch = Current!NoFetch THEN fetch ELSE [fetch EXCEPT !.steady = FALSE]
        /\ UNCHANGED <<table, incidents, reader, assets, segments, newest, stores>>
    BY <1>2 DEF Current!Serve
  <2>3. served' \in [Refs -> Known]
    BY <2>1 DEF CurrentInv, CurrentTypes
  <2>4. CurrentTypes'
    BY <2>2, <2>3 DEF CurrentInv, CurrentTypes
  <2>5. /\ fetch'.pc = fetch.pc /\ fetch'.rows = fetch.rows
        /\ fetch.pc \in {"page", "store"} => fetch'.steady = FALSE
    BY <2>2 DEF CurrentInv, CurrentTypes, Current!NoFetch
  <2>6. PagesRight'
    BY <2>5 DEF CurrentInv, PagesRight
  <2> QED BY <2>2, <2>4, <2>6, ComparedKept DEF Compared, CurrentInv
<1>3. CASE Current!FetchFails
  <2>1. fetch' = Current!NoFetch
        /\ UNCHANGED <<table, served, incidents, reader, assets, segments, newest, changes>>
    BY <1>3 DEF Current!FetchFails
  <2>2. <<>> \in Seq(Incident)
    OBVIOUS
  <2>3. CurrentTypes' /\ PagesRight'
    BY <2>1, <2>2 DEF Current!NoFetch, CurrentInv, CurrentTypes, PagesRight
  <2> QED BY <2>1, <2>3, ComparedKept DEF Compared, CurrentInv
<1> QED BY <1>1, <1>2, <1>3

\* The next page continues the list; at the end the list is whole or was cut off.
LEMMA PageStep ==
  ASSUME CurrentInv, Current!ReadPage
  PROVE  CurrentInv'
<1> DEFINE S == Current!ServedRows
           page == Current!Page(Len(fetch.rows))
           more == fetch.rows \o page
           ends == page = <<>> \/ Len(more) >= Len(S) \/ Len(more) >= MaxRecords
           short == Len(S) <= MaxRecords /\ Len(more) < Len(S)
           unread == more # <<>> /\ Current!Usable(more) = {}
<1>1. /\ fetch.pc = "page"
      /\ fetch' = IF ~ends THEN [fetch EXCEPT !.rows = more, !.total = Len(S)]
                  ELSE IF short \/ unread THEN Current!NoFetch
                  ELSE [fetch EXCEPT !.pc = "store", !.rows = more, !.total = Len(S)]
      /\ UNCHANGED <<table, served, incidents, reader, assets, segments, newest, changes, stores>>
    BY DEF Current!ReadPage
<1>2. /\ fetch \in [pc: {"idle", "page", "store"}, rows: Seq(Incident), total: Nat, steady: BOOLEAN]
      /\ Len(fetch.rows) \in Nat /\ Len(fetch.rows) <= MaxRecords /\ MaxRecords \in Nat
    BY <1>1, CurrentSettings DEF CurrentInv, CurrentTypes, PagesRight, Current!CurrentAssumption
<1>3. /\ S \in Seq(Incident) /\ Len(S) \in Nat
      /\ page \in Seq(Incident) /\ Len(page) \in Nat /\ Len(fetch.rows) + Len(page) <= MaxRecords
      /\ Len(fetch.rows) <= Len(S) =>
           /\ Len(fetch.rows) + Len(page) <= Len(S)
           /\ SubSeq(S, 1, Len(fetch.rows)) \o page = SubSeq(S, 1, Len(fetch.rows) + Len(page))
  <2> DEFINE k == Len(fetch.rows)
  <2>1. CurrentTypes /\ k \in Nat /\ k <= MaxRecords
    BY <1>2 DEF CurrentInv
  <2> HIDE DEF k
  <2>2. /\ Current!Page(k) \in Seq(Incident)
        /\ k + Len(Current!Page(k)) <= MaxRecords
        /\ k <= Len(Current!ServedRows) =>
             /\ k + Len(Current!Page(k)) <= Len(Current!ServedRows)
             /\ SubSeq(Current!ServedRows, 1, k) \o Current!Page(k)
                  = SubSeq(Current!ServedRows, 1, k + Len(Current!Page(k)))
    BY <2>1, PageContinues
  <2>3. Current!ServedRows \in Seq(Incident) /\ Len(Current!ServedRows) \in Nat
    BY <2>1, ServedIsListed
  <2>4. Len(Current!Page(k)) \in Nat
    BY <2>2
  <2> QED BY <2>2, <2>3, <2>4 DEF k
<1>4. S' = S
    BY <1>1, SameList
<1> HIDE DEF S, page
<1>5. more \in Seq(Incident) /\ Len(more) = Len(fetch.rows) + Len(page)
    BY <1>2, <1>3
<1>6. fetch.steady => Len(more) <= Len(S) /\ more = SubSeq(S, 1, Len(more))
    BY <1>1, <1>3, <1>5 DEF CurrentInv, PagesRight, S
<1>u. ~unread /\ more # <<>> => \E i \in DOMAIN more : more[i].status # Current!Unusable
    BY DEF Current!Usable
<1> HIDE DEF more, unread
<1>7. CurrentTypes'
  <2>1. fetch' \in [pc: {"idle", "page", "store"}, rows: Seq(Incident), total: Nat, steady: BOOLEAN]
    <3>1. <<>> \in Seq(Incident)
      OBVIOUS
    <3> HIDE DEF ends, short
    <3> QED BY <1>1, <1>2, <1>3, <1>5, <3>1 DEF Current!NoFetch
  <2> QED BY <1>1, <2>1 DEF CurrentInv, CurrentTypes
<1>8. PagesRight'
  <2>1. CASE ~ends
    <3>1. fetch'.pc = "page" /\ fetch'.rows = more /\ fetch'.steady = fetch.steady
      BY <1>1, <1>2, <2>1
    <3> QED BY <1>3, <1>4, <1>5, <1>6, <3>1 DEF PagesRight, S
  <2>2. CASE ends /\ (short \/ unread)
    <3>1. fetch'.pc = "idle"
      BY <1>1, <2>2 DEF Current!NoFetch
    <3> QED BY <3>1 DEF PagesRight
  <2>3. CASE ends /\ ~(short \/ unread)
    <3>1. /\ fetch'.pc = "store" /\ fetch'.rows = more /\ fetch'.steady = fetch.steady
          /\ fetch'.total = Len(S)
      BY <1>1, <1>2, <2>3
    <3>2. fetch.steady /\ Len(S) <= MaxRecords => Len(more) = Len(S)
      BY <1>2, <1>3, <1>5, <1>6, <2>3
    <3>3. fetch'.rows # <<>> => \E i \in DOMAIN fetch'.rows : fetch'.rows[i].status # Current!Unusable
      BY <1>u, <2>3, <3>1
    <3> QED BY <1>4, <1>6, <3>1, <3>2, <3>3 DEF PagesRight, S
  <2> QED BY <2>1, <2>2, <2>3
<1> QED BY <1>1, <1>7, <1>8, ComparedKept DEF Compared, CurrentInv

\* A whole list tells of every reference what is served, as far as its row is usable.
LEMMA ParsedIsServed ==
  ASSUME CurrentTypes, NEW r \in Refs
  PROVE  Current!Parsed(Current!ServedRows)[r]
           = IF served[r] = Current!Unusable THEN Current!Absent ELSE served[r]
<1> DEFINE S == Current!ServedRows
           I == {i \in Current!Usable(S) : S[i].ref = r}
<1>1. /\ S \in Seq(Incident) /\ Len(S) \in Nat
      /\ \A i \in 1..Len(S) : S[i].status = served[S[i].ref]
      /\ served[r] # Current!Absent => \E i \in 1..Len(S) : S[i].ref = r
    BY ServedIsListed
<1>2. DOMAIN S = 1..Len(S)
    BY <1>1
<1> HIDE DEF S
<1>3. Current!Parsed(S)[r] = IF I = {} THEN Current!Absent ELSE S[Current!Max(I)].status
    BY DEF Current!Parsed
<1>4. CASE I = {}
  <2>1. \A i \in 1..Len(S) : S[i].ref = r => served[r] = Current!Unusable
    BY <1>1, <1>2, <1>4 DEF Current!Usable
  <2>2. served[r] \in {Current!Absent, Current!Unusable}
    BY <1>1, <2>1
  <2> QED BY <1>3, <1>4, <2>2 DEF S
<1>5. CASE I # {}
  <2>1. I \subseteq Int /\ IsFiniteSet(I)
    <3>1. I \subseteq 1..Len(S)
      BY <1>2 DEF Current!Usable
    <3>2. IsFiniteSet(1..Len(S)) /\ 1..Len(S) \subseteq Int
      BY <1>1, FS_Interval
    <3> QED BY <3>1, <3>2, FS_Subset
  <2> HIDE DEF I
  <2>2. \E x \in I : \A y \in I : x >= y
    BY <1>5, <2>1, GreatestOfFinite
  <2>3. Current!Max(I) \in I
    BY <2>2 DEF Current!Max
  <2>4. /\ Current!Max(I) \in 1..Len(S) /\ S[Current!Max(I)].ref = r
        /\ S[Current!Max(I)].status # Current!Unusable
    BY <1>2, <2>3 DEF I, Current!Usable
  <2> QED BY <1>1, <1>3, <1>5, <2>4 DEF S
<1> QED BY <1>4, <1>5

\* The rows read, the parsed status of each reference.
LEMMA ParsedIsKnown ==
  ASSUME CurrentTypes, NEW r \in Refs
  PROVE  Current!Parsed(fetch.rows)[r] \in Known
<1> DEFINE R == fetch.rows
           I == {i \in Current!Usable(R) : R[i].ref = r}
<1>1. R \in Seq(Incident) /\ Len(R) \in Nat /\ DOMAIN R = 1..Len(R)
    BY DEF CurrentTypes
<1> HIDE DEF R
<1>2. \A i \in DOMAIN R : R[i].status \in Known
  <2>1. \A i \in DOMAIN R : R[i] \in Incident
    BY <1>1
  <2> QED BY <2>1 DEF Incident
<1>3. Current!Parsed(R)[r] = IF I = {} THEN Current!Absent ELSE R[Current!Max(I)].status
    BY DEF Current!Parsed
<1>4. I \subseteq Int /\ IsFiniteSet(I)
  <2>1. I \subseteq 1..Len(R) /\ IsFiniteSet(1..Len(R))
    BY <1>1, FS_Interval DEF Current!Usable
  <2> QED BY <1>1, <2>1, FS_Subset
<1>5. ASSUME I # {} PROVE Current!Max(I) \in DOMAIN R
  <2> HIDE DEF I
  <2>1. \E x \in I : \A y \in I : x >= y
    BY <1>4, <1>5, GreatestOfFinite
  <2>2. Current!Max(I) \in I
    BY <2>1 DEF Current!Max
  <2> QED BY <2>2 DEF I, Current!Usable
<1>6. Current!Absent \in Known
    BY DEF Known
<1> HIDE DEF I
<1> QED BY <1>2, <1>3, <1>5, <1>6 DEF R

\* Storing a snapshot that was neither disturbed nor cut off brings what is served.
LEMMA StoreStep ==
  ASSUME CurrentInv, Current!StoreSnapshot
  PROVE  CurrentInv'
<1> DEFINE told == [r \in Refs |-> IF ~fetch.steady \/ fetch.total > MaxRecords
                                 THEN "unknown" ELSE served[r]]
           P == Current!Parsed(fetch.rows)
<1>1. /\ fetch.pc = "store" /\ fetch' = Current!NoFetch
      /\ incidents' = [r \in Refs |->
             IF P[r] # Current!Absent THEN [present |-> TRUE, status |-> P[r]]
             ELSE [incidents[r] EXCEPT !.present = FALSE]]
      /\ newest' = [newest EXCEPT !.incidents = told]
      /\ UNCHANGED <<table, served, reader, assets, segments, changes>>
    BY DEF Current!StoreSnapshot, Current!Refreshed
<1>2. \A r \in Refs : P[r] \in Known /\ told[r] \in Known \cup {"unknown"}
  <2>1. \A r \in Refs : P[r] \in Known
    BY ParsedIsKnown DEF CurrentInv
  <2>2. \A r \in Refs : served[r] \in Known
    BY DEF CurrentInv, CurrentTypes
  <2> QED BY <2>1, <2>2
<1>3. \A r \in Refs : told[r] # "unknown" =>
         /\ told[r] = served[r] /\ fetch.rows = Current!ServedRows
         /\ P[r] = IF served[r] = Current!Unusable THEN Current!Absent ELSE served[r]
  <2> SUFFICES ASSUME NEW r \in Refs, told[r] # "unknown"
               PROVE  /\ told[r] = served[r] /\ fetch.rows = Current!ServedRows
                      /\ P[r] = IF served[r] = Current!Unusable THEN Current!Absent ELSE served[r]
    OBVIOUS
  <2>1. fetch.steady /\ ~(fetch.total > MaxRecords) /\ told[r] = served[r]
    OBVIOUS
  <2>2. fetch.total \in Nat /\ MaxRecords \in Nat
    BY CurrentSettings DEF CurrentInv, CurrentTypes, Current!CurrentAssumption
  <2>3. Len(fetch.rows) = Len(Current!ServedRows)
      /\ fetch.rows = SubSeq(Current!ServedRows, 1, Len(fetch.rows))
    BY <1>1, <2>1, <2>2 DEF CurrentInv, PagesRight
  <2>4. Current!ServedRows \in Seq(Incident)
    BY ServedIsListed DEF CurrentInv
  <2>5. fetch.rows = Current!ServedRows
    BY <2>3, <2>4
  <2>6. P[r] = IF served[r] = Current!Unusable THEN Current!Absent ELSE served[r]
    BY <2>5, ParsedIsServed DEF CurrentInv
  <2> QED BY <2>1, <2>5, <2>6
<1>4. CurrentTypes' /\ PagesRight'
  <2>1. <<>> \in Seq(Incident) /\ TRUE \in BOOLEAN /\ FALSE \in BOOLEAN
    OBVIOUS
  <2>2. fetch' \in [pc: {"idle", "page", "store"}, rows: Seq(Incident), total: Nat, steady: BOOLEAN]
        /\ fetch'.pc = "idle"
    BY <1>1, <2>1 DEF Current!NoFetch
  <2>3. incidents' \in [Refs -> [present: BOOLEAN, status: Known]]
    <3> HIDE DEF P
    <3>1. \A r \in Refs : incidents[r] \in [present: BOOLEAN, status: Known]
      BY DEF CurrentInv, CurrentTypes
    <3>2. ASSUME NEW r \in Refs
          PROVE  /\ [present |-> TRUE, status |-> P[r]] \in [present: BOOLEAN, status: Known]
                 /\ [incidents[r] EXCEPT !.present = FALSE] \in [present: BOOLEAN, status: Known]
      BY <1>2, <3>1
    <3> QED BY <1>1, <3>2
  <2>4. told \in [Refs -> Known \cup {"unknown"}]
    BY <1>2
  <2> HIDE DEF told
  <2>5. newest' \in [incidents: [Refs -> Known \cup {"unknown"}],
                     listed: SUBSET Refs, mentioned: SUBSET Refs,
                     segments: [Refs -> SUBSET Current!Segment]]
    BY <1>1, <2>4 DEF CurrentInv, CurrentTypes
  <2> QED BY <1>1, <2>2, <2>3, <2>5 DEF CurrentInv, CurrentTypes, PagesRight
<1>5. SitesListed'
    BY <1>1 DEF CurrentInv, SitesListed
<1>6. Current!CurrentIsNewest'
  <2>1. newest'.incidents = told /\ newest'.listed = newest.listed
        /\ newest'.mentioned = newest.mentioned /\ newest'.segments = newest.segments
    BY <1>1 DEF CurrentInv, CurrentTypes
  <2> HIDE DEF P, told
  <2>2. ASSUME NEW r \in Refs
        PROVE  /\ P[r] # Current!Absent =>
                    incidents'[r].present = TRUE /\ incidents'[r].status = P[r]
               /\ P[r] = Current!Absent => incidents'[r].present = FALSE
    <3>1. incidents[r] \in [present: BOOLEAN, status: Known]
      BY DEF CurrentInv, CurrentTypes
    <3>2. incidents'[r] = IF P[r] # Current!Absent THEN [present |-> TRUE, status |-> P[r]]
                          ELSE [incidents[r] EXCEPT !.present = FALSE]
      BY <1>1
    <3> QED BY <3>1, <3>2
  <2>3. ASSUME NEW r \in Refs, told[r] # "unknown"
        PROVE  /\ incidents'[r].present = (told[r] \in Current!Status)
               /\ incidents'[r].present => incidents'[r].status = told[r]
    <3>1. told[r] = served[r] /\ served[r] \in Known
          /\ P[r] = IF served[r] = Current!Unusable THEN Current!Absent ELSE served[r]
      BY <1>3, <2>3 DEF CurrentInv, CurrentTypes
    <3>2. CASE told[r] \in Current!Status
      <4>1. P[r] = told[r] /\ P[r] # Current!Absent
        BY <3>1, <3>2 DEF Current!Status, Current!Absent, Current!Unusable
      <4>2. (told[r] \in Current!Status) = TRUE
        BY <3>2
      <4> QED BY <2>2, <4>1, <4>2, Zenon
    <3>3. CASE told[r] \notin Current!Status
      <4>1. P[r] = Current!Absent
        BY <3>1, <3>3 DEF Known
      <4>2. (told[r] \in Current!Status) = FALSE
        BY <3>3
      <4>3. incidents'[r].present = FALSE
        BY <2>2, <4>1
      <4> QED BY <4>2, <4>3, Zenon
    <3> QED BY <3>2, <3>3
  <2>4. ASSUME NEW r \in Refs, told[r] = Current!Unusable
        PROVE  \E x \in Refs : incidents'[x].present
    <3>1. served[r] = Current!Unusable /\ fetch.rows = Current!ServedRows
      BY <1>3, <2>4 DEF Current!Unusable
    <3>2. /\ Current!ServedRows \in Seq(Incident)
          /\ \A i \in 1..Len(Current!ServedRows) :
                /\ Current!ServedRows[i].status = served[Current!ServedRows[i].ref]
                /\ served[Current!ServedRows[i].ref] # Current!Absent
          /\ \E i \in 1..Len(Current!ServedRows) : Current!ServedRows[i].ref = r
      BY <3>1, ServedIsListed DEF CurrentInv, Current!Absent, Current!Unusable
    <3>3. fetch.rows # <<>>
      BY <3>1, <3>2
    <3>4. PICK i \in DOMAIN fetch.rows : fetch.rows[i].status # Current!Unusable
      BY <1>1, <3>3 DEF CurrentInv, PagesRight
    <3> DEFINE x == Current!ServedRows[i].ref
    <3>5. /\ i \in 1..Len(Current!ServedRows) /\ x \in Refs
          /\ served[x] # Current!Unusable /\ served[x] # Current!Absent
      <4>1. i \in 1..Len(Current!ServedRows) /\ Current!ServedRows[i] \in Incident
        BY <3>1, <3>2, <3>4
      <4>2. /\ Current!ServedRows[i].status # Current!Unusable
            /\ Current!ServedRows[i].status = served[x] /\ served[x] # Current!Absent
        BY <3>1, <3>2, <3>4, <4>1
      <4> QED BY <4>1, <4>2 DEF Incident
    <3> HIDE DEF x
    <3>6. told[x] # "unknown"
      <4>1. fetch.steady /\ ~(fetch.total > MaxRecords)
        BY <2>4 DEF told, Current!Unusable
      <4>2. told[x] = served[x] /\ served[x] \in Known
        BY <3>5, <4>1 DEF told, CurrentInv, CurrentTypes
      <4> QED BY <4>2 DEF Known, Current!Status, Current!Absent, Current!Unusable
    <3>7. P[x] # Current!Absent
      BY <1>3, <3>5, <3>6
    <3> QED BY <2>2, <3>5, <3>7
  <2>5. Current!MembershipTold'
    BY <2>1, <2>3, <2>4 DEF Current!MembershipTold
  <2>6. UNCHANGED <<assets, segments>>
    BY <1>1
  <2>7. /\ \A r \in Refs : assets[r].class # "none" =>
              assets[r].active = \/ r \in newest.listed \cup newest.mentioned
                                 \/ assets[r].class = "placeholder"
        /\ \A u \in Refs : {s \in segments : s.unit = u} = newest.segments[u]
    BY DEF CurrentInv, Current!CurrentIsNewest, Current!Kept
  <2> QED BY <2>1, <2>5, <2>6, <2>7 DEF Current!CurrentIsNewest, Current!Kept
<1> QED BY <1>4, <1>5, <1>6 DEF CurrentInv

\* Nothing of the incidents is touched.
LEMMA PagesKept ==
  ASSUME CurrentInv, UNCHANGED <<served, fetch, incidents>>
  PROVE  PagesRight'
BY SameList DEF CurrentInv, PagesRight

\* A request reads.
LEMMA RequestSteps ==
  ASSUME CurrentInv,
         Current!ReadIncidents \/ Current!CountMatching \/ Current!CountAll \/ Current!Answered
  PROVE  CurrentInv'
<1>1. UNCHANGED <<table, served, fetch, incidents, assets, segments, newest>>
    BY DEF Current!ReadIncidents, Current!CountMatching, Current!CountAll, Current!Answered
<1>2. CurrentTypes'
    BY <1>1 DEF CurrentInv, CurrentTypes
<1> QED BY <1>1, <1>2, PagesKept, ComparedKept DEF CurrentInv, Compared

\* A reference snapshot activates what it lists and retires the rest of its class.
LEMMA ReferenceStep ==
  ASSUME CurrentInv, table \in {"bm_units", "repd"}, NEW S \in SUBSET Refs,
         Current!DeliverReference(S)
  PROVE  CurrentInv'
<1> DEFINE A == [class: {"none", "reference", "placeholder"}, active: BOOLEAN]
           after(r) == IF r \in S THEN [class |-> "reference", active |-> TRUE]
                       ELSE IF Current!Retired(S, r) THEN [assets[r] EXCEPT !.active = FALSE]
                       ELSE assets[r]
<1>1. /\ assets' = [r \in Refs |-> after(r)]
      /\ newest' = [newest EXCEPT !.listed = S, !.mentioned = {}]
      /\ UNCHANGED <<table, served, fetch, incidents, reader, segments, changes>>
    BY DEF Current!DeliverReference
<1>2. \A r \in Refs : assets[r] \in A
    BY DEF CurrentInv, CurrentTypes
<1>3. /\ newest'.incidents = newest.incidents /\ newest'.segments = newest.segments
      /\ newest'.listed = S /\ newest'.mentioned = {}
      /\ newest' \in [incidents: [Refs -> Known \cup {"unknown"}],
                      listed: SUBSET Refs, mentioned: SUBSET Refs,
                      segments: [Refs -> SUBSET Current!Segment]]
    BY <1>1 DEF CurrentInv, CurrentTypes
<1>4. ASSUME NEW r \in Refs
      PROVE  /\ assets'[r] \in A
             /\ table = "repd" => assets'[r].class # "placeholder"
             /\ assets'[r].class # "none" =>
                  assets'[r].active = (r \in S \/ assets'[r].class = "placeholder")
  <2>1. assets'[r] = after(r)
    BY <1>1
  <2>2. CASE r \in S
    <3>1. assets'[r].class = "reference" /\ assets'[r].active = TRUE /\ assets'[r] \in A
      BY <2>1, <2>2
    <3> QED BY <2>2, <3>1
  <2>3. CASE r \notin S /\ Current!Retired(S, r)
    <3>1. /\ assets'[r].class = assets[r].class /\ assets'[r].active = FALSE /\ assets'[r] \in A
      BY <1>2, <2>1, <2>3
    <3>2. assets[r].class # "placeholder"
      BY <2>3 DEF Current!Retired, CurrentInv, SitesListed
    <3>3. (r \in S \/ assets'[r].class = "placeholder") = FALSE
      BY <2>3, <3>1, <3>2
    <3>4. assets'[r].active = (r \in S \/ assets'[r].class = "placeholder")
      BY <3>1, <3>3, Zenon
    <3> QED BY <3>1, <3>2, <3>4
  <2>4. CASE r \notin S /\ ~Current!Retired(S, r)
    <3>1. assets'[r] = assets[r]
      BY <2>1, <2>4
    <3>2. table = "repd" => assets[r].class # "placeholder"
      BY DEF CurrentInv, SitesListed
    <3>3. ASSUME assets[r].class # "none"
          PROVE  assets[r].active = (r \in S \/ assets[r].class = "placeholder")
      <4>1. assets[r].class = "placeholder"
        BY <1>2, <2>4, <3>3 DEF Current!Retired, Current!Kept
      <4>2. assets[r].active = (r \in newest.listed \cup newest.mentioned
                                  \/ assets[r].class = "placeholder")
        BY <3>3 DEF CurrentInv, Current!CurrentIsNewest, Current!Kept
      <4>3. (r \in newest.listed \cup newest.mentioned \/ assets[r].class = "placeholder") = TRUE
            /\ (r \in S \/ assets[r].class = "placeholder") = TRUE
        BY <4>1
      <4> QED BY <4>2, <4>3, Zenon
    <3> QED BY <1>2, <3>1, <3>2, <3>3
  <2> QED BY <2>2, <2>3, <2>4
<1> HIDE DEF after
<1>5. CurrentTypes'
    BY <1>1, <1>3, <1>4 DEF CurrentInv, CurrentTypes
<1>6. SitesListed'
    BY <1>1, <1>4 DEF SitesListed
<1>7. Current!CurrentIsNewest'
  <2>1. newest'.listed \cup newest'.mentioned = S
    BY <1>3
  <2>2. \A r \in Refs : assets'[r].class # "none" =>
           assets'[r].active = \/ r \in newest'.listed \cup newest'.mentioned
                               \/ assets'[r].class = "placeholder"
    BY <1>4, <2>1
  <2>3. /\ Current!MembershipTold
        /\ \A u \in Refs : {s \in segments : s.unit = u} = newest.segments[u]
    BY DEF CurrentInv, Current!CurrentIsNewest
  <2>4. UNCHANGED <<incidents, segments>>
    BY <1>1
  <2>5. Current!MembershipTold'
    BY <1>3, <2>3, <2>4, MembershipKept
  <2> QED BY <1>3, <2>2, <2>3, <2>4, <2>5 DEF Current!CurrentIsNewest, Current!Kept
<1> QED BY <1>1, <1>5, <1>6, <1>7, PagesKept DEF CurrentInv

\* Records that depend on units activate them, and make the unknown ones placeholders.
LEMMA DependentsStep ==
  ASSUME CurrentInv, NEW S \in SUBSET Refs, Current!DeliverDependents(S)
  PROVE  CurrentInv'
<1> DEFINE A == [class: {"none", "reference", "placeholder"}, active: BOOLEAN]
           after(r) == IF r \notin S THEN assets[r]
                       ELSE IF Current!Kept(r) THEN [assets[r] EXCEPT !.active = TRUE]
                       ELSE [class |-> "placeholder", active |-> TRUE]
           named == newest.mentioned \cup S
<1>1. /\ assets' = [r \in Refs |-> after(r)] /\ table = "bm_units"
      /\ newest' = [newest EXCEPT !.mentioned = named]
      /\ UNCHANGED <<table, served, fetch, incidents, reader, segments, changes>>
    BY DEF Current!DeliverDependents
<1>2. \A r \in Refs : assets[r] \in A
    BY DEF CurrentInv, CurrentTypes
<1>3. /\ newest'.incidents = newest.incidents /\ newest'.segments = newest.segments
      /\ newest'.listed = newest.listed /\ newest'.mentioned = named
      /\ newest' \in [incidents: [Refs -> Known \cup {"unknown"}],
                      listed: SUBSET Refs, mentioned: SUBSET Refs,
                      segments: [Refs -> SUBSET Current!Segment]]
    BY <1>1 DEF CurrentInv, CurrentTypes
<1>4. ASSUME NEW r \in Refs
      PROVE  /\ assets'[r] \in A
             /\ assets'[r].class # "none" =>
                  assets'[r].active = \/ r \in newest.listed \cup named
                                      \/ assets'[r].class = "placeholder"
  <2>1. assets'[r] = after(r)
    BY <1>1
  <2>2. CASE r \in S
    <3>1. assets'[r].active = TRUE /\ assets'[r] \in A
      <4>1. assets[r] \in A
        BY <1>2
      <4>2. CASE Current!Kept(r)
        <5>1. assets'[r] = [assets[r] EXCEPT !.active = TRUE]
          BY <2>1, <2>2, <4>2
        <5> QED BY <4>1, <5>1
      <4>3. CASE ~Current!Kept(r)
        <5>1. assets'[r] = [class |-> "placeholder", active |-> TRUE]
          BY <2>1, <2>2, <4>3
        <5> QED BY <5>1
      <4> QED BY <4>2, <4>3
    <3>2. (r \in newest.listed \cup named \/ assets'[r].class = "placeholder") = TRUE
      BY <2>2
    <3>3. assets'[r].active = (r \in newest.listed \cup named \/ assets'[r].class = "placeholder")
      BY <3>1, <3>2, Zenon
    <3> QED BY <3>1, <3>3
  <2>3. CASE r \notin S
    <3>1. assets'[r] = assets[r]
      BY <2>1, <2>3
    <3>2. r \in newest.listed \cup named <=> r \in newest.listed \cup newest.mentioned
      BY <2>3
    <3>3. assets[r].class # "none" =>
            assets[r].active = \/ r \in newest.listed \cup newest.mentioned
                               \/ assets[r].class = "placeholder"
      BY DEF CurrentInv, Current!CurrentIsNewest, Current!Kept
    <3> QED BY <1>2, <3>1, <3>2, <3>3
  <2> QED BY <2>2, <2>3
<1> HIDE DEF after, named
<1>5. CurrentTypes'
    BY <1>1, <1>3, <1>4 DEF CurrentInv, CurrentTypes
<1>6. SitesListed'
    BY <1>1 DEF SitesListed
<1>7. Current!CurrentIsNewest'
  <2>1. \A r \in Refs : assets'[r].class # "none" =>
           assets'[r].active = \/ r \in newest'.listed \cup newest'.mentioned
                               \/ assets'[r].class = "placeholder"
    BY <1>3, <1>4
  <2>2. /\ Current!MembershipTold
        /\ \A u \in Refs : {s \in segments : s.unit = u} = newest.segments[u]
    BY DEF CurrentInv, Current!CurrentIsNewest
  <2>3. UNCHANGED <<incidents, segments>>
    BY <1>1
  <2>4. Current!MembershipTold'
    BY <1>3, <2>2, <2>3, MembershipKept
  <2> QED BY <1>3, <2>1, <2>2, <2>3, <2>4 DEF Current!CurrentIsNewest, Current!Kept
<1> QED BY <1>1, <1>5, <1>6, <1>7, PagesKept DEF CurrentInv

\* A delivery replaces the segments of the units it covers, and no others.
LEMMA NotificationsStep ==
  ASSUME CurrentInv, NEW units \in SUBSET Refs, NEW p \in Periods,
         NEW delivered \in SUBSET Current!Segment,
         Current!DeliverNotifications(units, p, delivered)
  PROVE  CurrentInv'
<1> DEFINE of(u, T) == {s \in T : s.unit = u}
           told == [u \in Refs |-> IF u \in units THEN of(u, delivered) ELSE newest.segments[u]]
<1>1. /\ \A s \in delivered : s.unit \in units /\ s.period = p
      /\ segments' = (segments \ Current!Pruned(units, p, delivered)) \cup delivered
      /\ newest' = [newest EXCEPT !.segments = told]
      /\ UNCHANGED <<table, served, fetch, incidents, reader, assets, changes>>
    BY DEF Current!DeliverNotifications
<1>2. told \in [Refs -> SUBSET Current!Segment]
    BY DEF CurrentInv, CurrentTypes
<1>3. /\ newest'.incidents = newest.incidents /\ newest'.segments = told
      /\ newest'.listed = newest.listed /\ newest'.mentioned = newest.mentioned
      /\ newest' \in [incidents: [Refs -> Known \cup {"unknown"}],
                      listed: SUBSET Refs, mentioned: SUBSET Refs,
                      segments: [Refs -> SUBSET Current!Segment]]
  <2> HIDE DEF told
  <2> QED BY <1>1, <1>2 DEF CurrentInv, CurrentTypes
<1>4. ASSUME NEW u \in Refs PROVE of(u, segments') = told[u]
  <2>1. CASE u \in units
    <3>1. ASSUME NEW s \in segments', s.unit = u PROVE s \in delivered
      BY <1>1, <2>1, <3>1 DEF Current!Pruned
    <3> QED BY <1>1, <2>1, <3>1
  <2>2. CASE u \notin units
    <3>1. of(u, segments) = newest.segments[u]
      BY DEF CurrentInv, Current!CurrentIsNewest
    <3>2. of(u, segments') = of(u, segments)
      BY <1>1, <2>2 DEF Current!Pruned
    <3> QED BY <2>2, <3>1, <3>2
  <2> QED BY <2>1, <2>2
<1> HIDE DEF told
<1>5. CurrentTypes' /\ SitesListed'
    BY <1>1, <1>3 DEF CurrentInv, CurrentTypes, SitesListed
<1>6. Current!CurrentIsNewest'
  <2>1. \A u \in Refs : {s \in segments' : s.unit = u} = newest'.segments[u]
    BY <1>3, <1>4
  <2> HIDE DEF of
  <2>2. /\ Current!MembershipTold
        /\ \A r \in Refs : assets[r].class # "none" =>
              assets[r].active = \/ r \in newest.listed \cup newest.mentioned
                                 \/ assets[r].class = "placeholder"
    BY DEF CurrentInv, Current!CurrentIsNewest, Current!Kept
  <2>3. UNCHANGED <<incidents, assets>>
    BY <1>1
  <2>4. Current!MembershipTold'
    BY <1>3, <2>2, <2>3, MembershipKept
  <2> QED BY <1>3, <2>1, <2>2, <2>3, <2>4 DEF Current!CurrentIsNewest, Current!Kept
<1> QED BY <1>1, <1>5, <1>6, PagesKept DEF CurrentInv

\* Every step of the present tables keeps the invariant.
LEMMA CurrentNext == CurrentInv /\ [Current!Next]_currentVars => CurrentInv'
<1> SUFFICES ASSUME CurrentInv, [Current!Next]_currentVars PROVE CurrentInv'
    OBVIOUS
<1>1. CASE Current!Next
  <2>1. CASE Current!BeginFetch \/ Current!Serve \/ Current!FetchFails
    BY <2>1, FetchSteps
  <2>2. CASE Current!ReadPage
    BY <2>2, PageStep
  <2>3. CASE Current!StoreSnapshot
    BY <2>3, StoreStep
  <2>4. CASE Current!ReadIncidents \/ Current!CountMatching \/ Current!CountAll \/ Current!Answered
    BY <2>4, RequestSteps
  <2>5. CASE table \in {"bm_units", "repd"} /\ \E S \in SUBSET Refs : Current!DeliverReference(S)
    BY <2>5, ReferenceStep
  <2>6. CASE \E S \in SUBSET Refs : Current!DeliverDependents(S)
    BY <2>6, DependentsStep
  <2>7. CASE \E units \in SUBSET Refs, p \in Periods, delivered \in SUBSET Current!Segment :
               Current!DeliverNotifications(units, p, delivered)
    BY <2>7, NotificationsStep
  <2> QED BY <1>1, <2>1, <2>2, <2>3, <2>4, <2>5, <2>6, <2>7 DEF Current!Next
<1>2. CASE UNCHANGED currentVars
  <2>1. UNCHANGED <<table, served, fetch, incidents, assets, segments, newest>>
    BY <1>2 DEF currentVars
  <2>2. CurrentTypes'
    BY <2>1 DEF CurrentInv, CurrentTypes
  <2> QED BY <2>1, <2>2, PagesKept, ComparedKept DEF CurrentInv, Compared
<1> QED BY <1>1, <1>2

CurrentHolds == store = "current" => CurrentInv

\* In the composition the present tables keep their invariant.
LEMMA CurrentKept == StoresSpec => []CurrentHolds
<1>1. StoresInit => CurrentHolds
  <2> SUFFICES ASSUME StoresInit, store = "current" PROVE CurrentInv
    BY DEF CurrentHolds
  <2>1. Current!Init
    BY DEF StoresInit
  <2> QED BY <2>1, CurrentStart
<1>2. CurrentHolds /\ [StoresNext]_allvars => CurrentHolds'
  <2> SUFFICES ASSUME CurrentHolds, [StoresNext]_allvars, store' = "current" PROVE CurrentInv'
    BY DEF CurrentHolds
  <2>1. store = "current" /\ [Current!Next]_currentVars
    BY DEF StoresNext, allvars
  <2> QED BY <2>1, CurrentNext DEF CurrentHolds
<1> QED BY <1>1, <1>2, PTL DEF StoresSpec

\* CurrentTables, CurrentIsNewest: for any references, page size, bound and any order of
\* deliveries and changes, the tables of the present say what the newest deliveries say.
THEOREM PresentIsNewest == StoresSpec => []CurrentIsNewest
<1>1. CurrentHolds => CurrentIsNewest
    BY DEF CurrentHolds, CurrentInv, CurrentIsNewest
<1> QED BY <1>1, CurrentKept, PTL
-----------------------------------------------------------------------------
(* The chains of reported notices (EventLifecycle). *)

\* The library's operators are the same in every component.
LEMMA NoticesLibrary ==
  /\ \A S : Notices!Cardinality(S) = Cardinality(S)
  /\ \A S : Notices!IsFiniteSet(S) = IsFiniteSet(S)
BY DEF Notices!Cardinality, Cardinality, Notices!IsFiniteSet, IsFiniteSet

\* What the constants promise.
LEMMA NoticeConstants ==
  /\ Key \subseteq Nat /\ Time \subseteq Nat /\ "open" \notin Ended
  /\ \A n \in Notices!Notice : /\ Notices!RevisionOf(n) \in Nat /\ n.pub \in Nat /\ n.key \in Nat
                              /\ n.event \in Event /\ n.status \in Ended \cup Lively
                              /\ n.sound \in BOOLEAN
<1>1. /\ Key \subseteq Nat /\ Time \subseteq Nat /\ "open" \notin Ended
      /\ Revision \in [Event -> [Key -> Nat]]
    BY NoticeSettings DEF Notices!EventLifecycleAssumption
<1>2. ASSUME NEW n \in Notices!Notice
      PROVE  /\ Notices!RevisionOf(n) \in Nat /\ n.pub \in Nat /\ n.key \in Nat
             /\ n.event \in Event /\ n.status \in Ended \cup Lively /\ n.sound \in BOOLEAN
  <2>1. n.event \in Event /\ n.key \in Key /\ n.pub \in Time /\ n.status \in Ended \cup Lively
        /\ n.sound \in BOOLEAN
    BY DEF Notices!Notice
  <2>2. Revision[n.event][n.key] \in Nat
    BY <1>1, <2>1
  <2> QED BY <1>1, <2>1, <2>2 DEF Notices!RevisionOf
<1> QED BY <1>1, <1>2

\* A chain of the event e that a reader accepts.
GoodChain(e, s) ==
  /\ s \in Seq(Notices!Stored)
  /\ \A i \in 1..Len(s) :
       /\ s[i].notice.event = e /\ s[i].number = i
       /\ (s[i].status = "open") = (i = 1)
       /\ s[i].status \in Ended => i = Len(s)
       /\ s[i].notice.status \in Ended => s[i].status \in Ended
       /\ \A j \in 1..(i - 1) :
            /\ s[j].notice # s[i].notice
            /\ s[j].notice.pub <= s[i].notice.pub
            /\ Notices!RevisionOf(s[j].notice) <= Notices!RevisionOf(s[i].notice)

\* t begins with s.
Begins(s, t) == Len(s) <= Len(t) /\ \A i \in 1..Len(s) : t[i] = s[i]

\* Where the entries of t come from.
FromWindow(s, W, t) ==
  \A i \in 1..Len(t) : t[i].notice \in W \/ \E j \in 1..Len(s) : t[i].notice = s[j].notice

\* The age of notices is an order.
LEMMA OlderIsOrder ==
  ASSUME NEW n \in Notices!Notice, NEW q \in Notices!Notice
  PROVE  /\ ~Notices!OlderThan(n, n)
         /\ Notices!OlderThan(n, q) => ~Notices!OlderThan(q, n)
         /\ Notices!Before(n, q) => ~Notices!OlderThan(q, n)
         /\ Notices!Before(n, q) => ~Notices!Before(q, n)
         /\ ~Notices!OlderThan(n, q) => Notices!RevisionOf(q) <= Notices!RevisionOf(n)
<1>1. /\ Notices!RevisionOf(n) \in Nat /\ n.pub \in Nat /\ n.key \in Nat
      /\ Notices!RevisionOf(q) \in Nat /\ q.pub \in Nat /\ q.key \in Nat
    BY NoticeConstants
<1> QED BY <1>1 DEF Notices!OlderThan, Notices!Before

\* A notice that extends a chain leaves a chain, with the old one at its beginning.
LEMMA ExtendKeeps ==
  ASSUME NEW e \in Event, NEW s, GoodChain(e, s), NEW n \in Notices!Notice, n.event = e
  PROVE  LET t == Notices!Extended(s, n)
         IN  /\ GoodChain(e, t) /\ Begins(s, t)
             /\ Notices!Extends(s, n) => Len(t) = Len(s) + 1 /\ t[Len(t)].notice = n
             /\ ~Notices!Extends(s, n) => t = s
<1> DEFINE r == Notices!NextRevision(s, n)
           t == Notices!Extended(s, n)
           k == Len(s)
<1>1. s \in Seq(Notices!Stored) /\ k \in Nat
    BY DEF GoodChain
<1>2. CASE ~Notices!Extends(s, n)
  <2>1. t = s
    BY <1>2 DEF Notices!Extended
  <2> QED BY <1>1, <1>2, <2>1 DEF Begins
<1>3. CASE Notices!Extends(s, n)
  <2>1. t = Append(s, r)
    BY <1>3 DEF Notices!Extended
  <2>2. /\ n.status \in Ended \cup Lively /\ n.pub \in Nat /\ Notices!RevisionOf(n) \in Nat
        /\ "open" \notin Ended
    BY NoticeConstants
  <2>3. /\ r.number = k + 1 /\ r.notice = n
        /\ r.status = IF n.status \in Ended THEN n.status ELSE IF s = <<>> THEN "open" ELSE "updated"
    BY DEF Notices!NextRevision
  <2>4. r \in Notices!Stored
    BY <1>1, <2>2 DEF Notices!NextRevision, Notices!Stored
  <2> HIDE DEF r
  <2>5. /\ t \in Seq(Notices!Stored) /\ Len(t) = k + 1 /\ t[k + 1] = r
        /\ \A i \in 1..k : t[i] = s[i]
    BY <1>1, <2>1, <2>4
  <2>6. s = <<>> <=> k = 0
    BY <1>1
  <2>7. /\ \A i \in DOMAIN s : s[i].notice # n
        /\ \A i \in DOMAIN s : ~Notices!OlderThan(n, s[i].notice)
        /\ ~Notices!Terminal(s)
        /\ s # <<>> => Notices!Last(s).notice.pub <= n.pub
        /\ s = <<>> => n.status \notin Ended
    BY <1>3 DEF Notices!Extends
  <2>8. \A i \in 1..k : s[i] \in Notices!Stored /\ i \in DOMAIN s
    BY <1>1
  <2>9. \A i \in 1..k : s[i].notice \in Notices!Notice /\ s[i].notice.pub \in Nat
    BY <2>8, NoticeConstants DEF Notices!Stored
  <2>10. ASSUME NEW j \in 1..k
         PROVE  /\ s[j].notice # n /\ s[j].notice.pub <= n.pub
                /\ Notices!RevisionOf(s[j].notice) <= Notices!RevisionOf(n)
    <3>1. s[j].notice # n /\ ~Notices!OlderThan(n, s[j].notice)
      BY <2>7, <2>8
    <3>2. Notices!RevisionOf(s[j].notice) <= Notices!RevisionOf(n)
      BY <2>9, <3>1, OlderIsOrder
    <3>3. s # <<>> /\ k \in 1..k /\ s[k].notice.pub <= n.pub
      BY <1>1, <2>6, <2>7 DEF Notices!Last
    <3>4. s[j].notice.pub <= s[k].notice.pub
      <4>1. CASE j = k
        BY <2>9, <4>1
      <4>2. CASE j # k
        BY <1>1, <3>3, <4>2, j \in 1..(k - 1) DEF GoodChain
      <4> QED BY <4>1, <4>2
    <3>5. s[j].notice.pub \in Nat /\ s[k].notice.pub \in Nat
      BY <2>9, <3>3
    <3>6. s[j].notice.pub <= n.pub
      BY <2>2, <3>3, <3>4, <3>5
    <3> QED BY <3>1, <3>2, <3>6
  <2>11. \A i \in 1..k : s[i].status \notin Ended
    <3>1. k # 0 => s[k].status \notin Ended
      BY <2>6, <2>7 DEF Notices!Terminal, Notices!Last
    <3>2. \A i \in 1..k : s[i].status \in Ended => i = k
      BY DEF GoodChain
    <3> QED BY <1>1, <3>1, <3>2
  <2> HIDE DEF t
  <2>12. ASSUME NEW i \in 1..(k + 1)
         PROVE  /\ t[i].notice.event = e /\ t[i].number = i
                /\ (t[i].status = "open") = (i = 1)
                /\ t[i].status \in Ended => i = k + 1
                /\ t[i].notice.status \in Ended => t[i].status \in Ended
                /\ \A j \in 1..(i - 1) :
                     /\ t[j].notice # t[i].notice
                     /\ t[j].notice.pub <= t[i].notice.pub
                     /\ Notices!RevisionOf(t[j].notice) <= Notices!RevisionOf(t[i].notice)
    <3>1. CASE i \in 1..k
      <4>1. t[i] = s[i] /\ \A j \in 1..(i - 1) : t[j] = s[j]
        BY <1>1, <2>5, <3>1
      <4>2. /\ s[i].notice.event = e /\ s[i].number = i
            /\ (s[i].status = "open") = (i = 1)
            /\ s[i].status \notin Ended
            /\ s[i].notice.status \in Ended => s[i].status \in Ended
            /\ \A j \in 1..(i - 1) :
                 /\ s[j].notice # s[i].notice
                 /\ s[j].notice.pub <= s[i].notice.pub
                 /\ Notices!RevisionOf(s[j].notice) <= Notices!RevisionOf(s[i].notice)
        BY <2>11, <3>1 DEF GoodChain
      <4> QED BY <4>1, <4>2
    <3>2. CASE i = k + 1
      <4>1. t[i] = r /\ \A j \in 1..(i - 1) : j \in 1..k /\ t[j] = s[j]
        BY <1>1, <2>5, <3>2
      <4>2. (r.status = "open") = (i = 1)
        <5>1. CASE k = 0
          BY <2>3, <2>6, <2>7, <3>2, <5>1
        <5>2. CASE k # 0
          BY <1>1, <2>2, <2>3, <2>6, <3>2, <5>2
        <5> QED BY <5>1, <5>2
      <4>3. n.status \in Ended => r.status \in Ended
        BY <2>3
      <4> QED BY <2>3, <2>10, <3>2, <4>1, <4>2, <4>3
    <3> QED BY <1>1, <3>1, <3>2
  <2>13. GoodChain(e, t)
    BY <2>5, <2>12 DEF GoodChain
  <2>14. Begins(s, t) /\ t[Len(t)].notice = n
    BY <1>1, <2>3, <2>5 DEF Begins
  <2> QED BY <1>3, <2>5, <2>13, <2>14 DEF t
<1> QED BY <1>2, <1>3

\* The notices of one event that a window may deliver: one for each key.
IsWindow(e, W) ==
  /\ W \subseteq Notices!Notice /\ IsFiniteSet(W)
  /\ \A n \in W : n.event = e
  /\ \A n \in W : \A q \in W \ {n} : n.key # q.key

\* q is the window, oldest first.
Lists(q, W) ==
  /\ q \in [1..Cardinality(W) -> W]
  /\ \A n \in W : \E i \in 1..Cardinality(W) : q[i] = n
  /\ \A i, j \in 1..Cardinality(W) : i < j => Notices!Before(q[i], q[j])

\* Any window can be put in order, and is.
LEMMA WindowOrdered ==
  ASSUME NEW e \in Event, NEW W, IsWindow(e, W)
  PROVE  Lists(Notices!OldestFirst(W), W)
<1> DEFINE older == {p \in W \X W : Notices!Before(p[1], p[2])}
           n == Cardinality(W)
           P(q) == \A i, j \in DOMAIN q : i < j => Notices!Before(q[i], q[j])
<1>1. IsFiniteSet(W) /\ n \in Nat
    BY FS_CardinalityType DEF IsWindow
<1>2. \A x, y \in W : <<x, y>> \in older <=> Notices!Before(x, y)
    OBVIOUS
<1>3. \A x \in W : /\ Notices!RevisionOf(x) \in Nat /\ x.pub \in Nat /\ x.key \in Nat
    BY NoticeConstants DEF IsWindow
<1>4. Total(older, W) /\ Transitive(older, W)
  <2> HIDE DEF older
  <2>1. ASSUME NEW x \in W, NEW y \in W, x # y PROVE Notices!Before(x, y) \/ Notices!Before(y, x)
    <3>1. x.key # y.key
      BY <2>1 DEF IsWindow
    <3> QED BY <1>3, <3>1 DEF Notices!Before, Notices!OlderThan
  <2>2. ASSUME NEW x \in W, NEW y \in W, NEW z \in W, Notices!Before(x, y), Notices!Before(y, z)
        PROVE  Notices!Before(x, z)
    BY <1>3, <2>2 DEF Notices!Before, Notices!OlderThan
  <2> QED BY <1>2, <2>1, <2>2 DEF Total, Transitive
<1>5. PICK q : Enumerates(q, W, older)
  <2> HIDE DEF older
  <2> QED BY <1>1, <1>4, Enumeration
<1>6. Notices!SetToSeqs(W) = {f \in [1..n -> W] : \A i, j \in 1..n : i # j => f[i] # f[j]}
    BY NoticesLibrary DEF Notices!SetToSeqs
<1>7. q \in Notices!SetToSeqs(W) /\ P(q)
  <2> HIDE DEF older, n
  <2>1. /\ q \in [1..n -> W]
        /\ \A i, j \in 1..n : i < j => q[i] # q[j] /\ <<q[i], q[j]>> \in older
    BY <1>5 DEF Enumerates, n
  <2>2. \A i, j \in 1..n : i # j => q[i] # q[j]
    <3>1. ASSUME NEW i \in 1..n, NEW j \in 1..n, i # j PROVE q[i] # q[j]
      <4>1. i < j \/ j < i
        BY <1>1, <3>1
      <4> QED BY <2>1, <4>1
    <3> QED BY <3>1
  <2>3. \A i, j \in 1..n : i < j => Notices!Before(q[i], q[j])
    BY <1>2, <2>1
  <2> QED BY <1>6, <2>1, <2>2, <2>3
<1> DEFINE o == CHOOSE q_1 \in Notices!SetToSeqs(W) : P(q_1)
<1>8. o \in Notices!SetToSeqs(W) /\ P(o) /\ Notices!OldestFirst(W) = o
  <2>1. \E q_1 \in Notices!SetToSeqs(W) : P(q_1)
    BY <1>7
  <2>2. o \in Notices!SetToSeqs(W) /\ P(o)
    <3> HIDE DEF P
    <3> QED BY <2>1
  <2> QED BY <2>2 DEF Notices!OldestFirst
<1>9. o \in [1..n -> W] /\ \A i, j \in 1..n : i # j => o[i] # o[j]
  <2> HIDE DEF o, P
  <2> QED BY <1>6, <1>8
<1>10. \A x \in W : \E i \in 1..n : o[i] = x
  <2> HIDE DEF o, P
  <2> QED BY <1>1, <1>9, AllListed
<1>11. \A i, j \in 1..n : i < j => Notices!Before(o[i], o[j])
  <2> HIDE DEF o
  <2> QED BY <1>8, <1>9
<1> QED BY <1>8, <1>9, <1>10, <1>11 DEF Lists

\* Storing a window is to extend the chain by one notice after another.
LEMMA WindowFolds ==
  ASSUME NEW e \in Event, NEW W, IsWindow(e, W), NEW s \in Seq(Notices!Stored)
  PROVE  \E f \in [0..Cardinality(W) -> Seq(Notices!Stored)] :
           /\ f[0] = s
           /\ \A i \in 1..Cardinality(W) :
                 f[i] = Notices!Extended(f[i - 1], Notices!OldestFirst(W)[i])
           /\ Notices!WithWindow(s, W) = f[Cardinality(W)]
<1> DEFINE n == Cardinality(W)
           D == 1..n
           V == Seq(Notices!Stored)
           q == Notices!OldestFirst(W)
<1>1. n \in Nat /\ IsFiniteSet(W)
    BY FS_CardinalityType DEF IsWindow
<1>2. q \in [D -> W]
    BY WindowOrdered DEF Lists
<1>3. W \subseteq Notices!Notice
    BY DEF IsWindow
<1> HIDE DEF q, n
<1>4. IsFiniteSet(D)
    BY <1>1, FS_Interval
<1>5. \A t \in SUBSET D : t # {} => /\ Notices!Max(t) \in t
                                     /\ \A x \in t : x <= Notices!Max(t)
  <2>1. ASSUME NEW t \in SUBSET D, t # {}
        PROVE  Notices!Max(t) \in t /\ \A x \in t : x <= Notices!Max(t)
    <3>1. t \subseteq Int /\ IsFiniteSet(t)
      <4>1. IsFiniteSet(t)
        BY <1>4, FS_Subset
      <4>2. D \subseteq Int
        BY <1>1
      <4> QED BY <4>1, <4>2
    <3>2. \E x \in t : \A y \in t : x >= y
      BY <2>1, <3>1, GreatestOfFinite
    <3>3. Notices!Max(t) = CHOOSE x \in t : \A y \in t : x >= y
      BY DEF Notices!Max
    <3>4. Notices!Max(t) \in t /\ \A y \in t : Notices!Max(t) >= y
      BY <3>2, <3>3
    <3> QED BY <3>1, <3>4
  <2> QED BY <2>1
<1>6. \A v \in V, x \in W : Notices!Extended(v, x) \in V
  <2>1. ASSUME NEW v \in V, NEW x \in W PROVE Notices!Extended(v, x) \in V
    <3>1. Notices!NextRevision(v, x) \in Notices!Stored
      BY <1>3, NoticeConstants DEF Notices!NextRevision, Notices!Stored
    <3> QED BY <3>1 DEF Notices!Extended
  <2> QED BY <2>1
<1> DEFINE pick == [t \in SUBSET D |-> Notices!Max(t)]
           step == [t \in SUBSET D |-> [v \in V |-> Notices!Extended(v, q[pick[t]])]]
           Folds(h) == h = [t \in SUBSET D |-> IF t = {} THEN s
                              ELSE Notices!Extended(h[t \ {Notices!Max(t)}], q[Notices!Max(t)])]
<1>7. Notices!WithWindow(s, W) = (CHOOSE h : Folds(h))[D]
  <2>1. DOMAIN q = D
    BY <1>2
  <2>2. Notices!WithWindow(s, W) = Notices!FoldLeft(Notices!Extended, s, q)
    BY DEF Notices!WithWindow, q
  <2>3. Notices!FoldLeft(Notices!Extended, s, q) =
          (CHOOSE h : h = [t \in SUBSET DOMAIN q |-> IF t = {} THEN s
                              ELSE Notices!Extended(h[t \ {Notices!Max(t)}], q[Notices!Max(t)])])[DOMAIN q]
    BY DEF Notices!FoldLeft, Notices!MapThenFoldSet
  <2> QED BY <2>1, <2>2, <2>3
<1>8. \A t \in SUBSET D : t # {} => pick[t] \in t
    BY <1>5
<1>9. \A t \in SUBSET D : t # {} => \A v \in V : step[t][v] \in V
    BY <1>2, <1>6, <1>8
<1>10. PICK g \in [SUBSET D -> V] : RecursiveOn(g, D, s, pick, step)
  <2> HIDE DEF pick, step, D, V, Folds
  <2> QED BY <1>4, <1>8, <1>9, RecursionOnSets DEF V
<1>11. Folds(g)
  <2>1. ASSUME NEW t \in SUBSET D, t # {}
        PROVE  step[t][g[t \ {pick[t]}]] = Notices!Extended(g[t \ {Notices!Max(t)}], q[Notices!Max(t)])
    OBVIOUS
  <2> HIDE DEF step
  <2> QED BY <1>10, <2>1 DEF RecursiveOn
<1> DEFINE h == CHOOSE h_1 : Folds(h_1)
<1>12. Folds(h)
    BY <1>11
<1>13. \A t \in SUBSET D : h[t] = IF t = {} THEN s
                              ELSE Notices!Extended(h[t \ {Notices!Max(t)}], q[Notices!Max(t)])
  <2> HIDE DEF h
  <2> QED BY <1>12
<1> DEFINE f == [i \in 0..n |-> h[1..i]]
<1> HIDE DEF h, Folds, pick, step
<1>14. f[0] = s
  <2>1. 1..0 = {} /\ {} \in SUBSET D /\ 0 \in 0..n
    BY <1>1
  <2>2. f[0] = h[1..0]
    BY <2>1
  <2> QED BY <1>13, <2>1, <2>2
<1>15. ASSUME NEW i \in D PROVE f[i] = Notices!Extended(f[i - 1], q[i])
  <2>1. i \in 0..n /\ i - 1 \in 0..n /\ 1..i \in SUBSET D /\ 1..i # {} /\ i \in Int
    <3>1. i \in Int /\ 1 <= i /\ i <= n
      BY <1>1
    <3>2. \A x \in 1..i : x \in D
      BY <1>1, <3>1
    <3>3. i \in 1..i
      BY <3>1
    <3> QED BY <1>1, <3>1, <3>2, <3>3
  <2>2. Notices!Max(1..i) = i
    <3> DEFINE m == Notices!Max(1..i)
    <3>1. i \in 1..i
      BY <2>1
    <3>2. m \in 1..i /\ i <= m
      BY <1>5, <2>1, <3>1
    <3> HIDE DEF m
    <3>3. m = i
      BY <2>1, <3>2
    <3> QED BY <3>3 DEF m
  <2>3. (1..i) \ {i} = 1..(i - 1)
    BY <2>1
  <2>4. f[i] = h[1..i] /\ f[i - 1] = h[1..(i - 1)]
    BY <2>1
  <2> HIDE DEF f
  <2> QED BY <1>13, <2>1, <2>2, <2>3, <2>4
<1>16. \A i \in 0..n : f[i] \in V
  <2> DEFINE G == {i \in Nat : i \in 0..n => f[i] \in V}
  <2> HIDE DEF f
  <2>1. 0 \in G
    BY <1>14
  <2>2. ASSUME NEW i \in Nat, i \in G PROVE i + 1 \in G
    <3> SUFFICES ASSUME i + 1 \in 0..n PROVE f[i + 1] \in V
      OBVIOUS
    <3>1. i \in 0..n /\ i + 1 \in D /\ (i + 1) - 1 = i
      BY <1>1
    <3>2. f[i] \in V
      BY <2>2, <3>1
    <3>3. f[i + 1] = Notices!Extended(f[i], q[i + 1])
      BY <1>15, <3>1
    <3> QED BY <1>2, <1>6, <3>1, <3>2, <3>3
  <2> HIDE DEF G
  <2>3. Nat \subseteq G
    BY <2>1, <2>2, NaturalsFrom
  <2> QED BY <1>1, <2>3 DEF G
<1>17. f[n] = Notices!WithWindow(s, W)
  <2>1. n \in 0..n
    BY <1>1
  <2> QED BY <1>7, <2>1 DEF h
<1>18. f \in [0..n -> V]
    BY <1>16
<1> HIDE DEF f
<1> QED BY <1>14, <1>15, <1>17, <1>18 DEF n, q

\* The chains between the notices of a window.
Steps(W, s, f) ==
  /\ f[0] = s
  /\ \A i \in 1..Cardinality(W) : f[i] = Notices!Extended(f[i - 1], Notices!OldestFirst(W)[i])

\* Every one of them is whole, begins with the stored chain and adds only notices of the window.
LEMMA StepsHold ==
  ASSUME NEW e \in Event, NEW W, IsWindow(e, W), NEW s, GoodChain(e, s), NEW f, Steps(W, s, f)
  PROVE  \A i \in 0..Cardinality(W) :
            GoodChain(e, f[i]) /\ Begins(s, f[i]) /\ FromWindow(s, W, f[i])
<1> DEFINE n == Cardinality(W)
           q == Notices!OldestFirst(W)
           Fine(t) == GoodChain(e, t) /\ Begins(s, t) /\ FromWindow(s, W, t)
           G == {i \in Nat : i \in 0..n => Fine(f[i])}
<1>1. n \in Nat /\ W \subseteq Notices!Notice /\ (\A x \in W : x.event = e) /\ q \in [1..n -> W]
    BY FS_CardinalityType, WindowOrdered DEF IsWindow, Lists
<1>2. f[0] = s /\ \A i \in 1..n : f[i] = Notices!Extended(f[i - 1], q[i])
    BY DEF Steps
<1> HIDE DEF n, q
<1>3. Fine(s)
  <2>1. Len(s) \in Nat
    BY DEF GoodChain
  <2> QED BY <2>1 DEF Begins, FromWindow
<1>4. 0 \in G
    BY <1>2, <1>3
<1>5. ASSUME NEW i \in Nat, i \in G PROVE i + 1 \in G
  <2> SUFFICES ASSUME i + 1 \in 0..n PROVE Fine(f[i + 1])
    OBVIOUS
  <2>1. i \in 0..n /\ i + 1 \in 1..n /\ (i + 1) - 1 = i
    BY <1>1
  <2>2. Fine(f[i])
    BY <1>5, <2>1
  <2>3. f[i + 1] = Notices!Extended(f[i], q[i + 1]) /\ q[i + 1] \in W
    BY <1>1, <1>2, <2>1
  <2> DEFINE u == f[i]
             t == Notices!Extended(u, q[i + 1])
  <2>4. q[i + 1] \in Notices!Notice /\ q[i + 1].event = e
    BY <1>1, <2>3
  <2>5. /\ GoodChain(e, t) /\ Begins(u, t)
        /\ Notices!Extends(u, q[i + 1]) => Len(t) = Len(u) + 1 /\ t[Len(t)].notice = q[i + 1]
        /\ ~Notices!Extends(u, q[i + 1]) => t = u
    BY <2>2, <2>4, ExtendKeeps
  <2>6. f[i + 1] = t
    BY <2>3
  <2>7. Len(s) \in Nat /\ Len(u) \in Nat /\ Len(t) \in Nat
    BY <2>2, <2>5 DEF GoodChain
  <2>8. GoodChain(e, u) /\ Begins(s, u) /\ FromWindow(s, W, u)
    BY <2>2
  <2> HIDE DEF u, t
  <2>9. Begins(s, t)
    BY <2>5, <2>7, <2>8 DEF Begins
  <2>10. FromWindow(s, W, t)
    <3>1. CASE Notices!Extends(u, q[i + 1])
      <4>1. Len(t) = Len(u) + 1 /\ t[Len(t)].notice \in W
        BY <2>3, <2>5, <3>1
      <4>2. \A k \in 1..Len(t) : k \in 1..Len(u) \/ k = Len(t)
        BY <2>7, <4>1
      <4>3. \A k \in 1..Len(u) : t[k] = u[k]
        BY <2>5 DEF Begins
      <4> QED BY <2>8, <4>1, <4>2, <4>3 DEF FromWindow
    <3>2. CASE ~Notices!Extends(u, q[i + 1])
      BY <2>5, <2>8, <3>2
    <3> QED BY <3>1, <3>2
  <2> QED BY <2>5, <2>6, <2>9, <2>10
<1> HIDE DEF G, Fine
<1>6. Nat \subseteq G
    BY <1>4, <1>5, NaturalsFrom
<1> QED BY <1>1, <1>6 DEF G, Fine, n

\* A stored window leaves a whole chain, with the stored one at its beginning.
LEMMA WindowExtends ==
  ASSUME NEW e \in Event, NEW W, IsWindow(e, W), NEW s, GoodChain(e, s)
  PROVE  GoodChain(e, Notices!WithWindow(s, W)) /\ Begins(s, Notices!WithWindow(s, W))
<1>1. s \in Seq(Notices!Stored)
    BY DEF GoodChain
<1>2. PICK f : Steps(W, s, f) /\ Notices!WithWindow(s, W) = f[Cardinality(W)]
    BY <1>1, WindowFolds DEF Steps
<1>3. Cardinality(W) \in 0..Cardinality(W)
    BY FS_CardinalityType DEF IsWindow
<1> QED BY <1>2, <1>3, StepsHold

\* Every step of a chain has its delta.
DeltasOf(c) ==
  UNION {{[event |-> e, from |-> i, to |-> i + 1] : i \in 1..(Len(c[e]) - 1)} : e \in Event}

ChainInv ==
  /\ published \subseteq Notices!Notice /\ IsFiniteSet(published)
  /\ \A n \in published : \A q \in published \ {n} : n.event # q.event \/ n.key # q.key
  /\ chain \in [Event -> Seq(Notices!Stored)]
  /\ \A e \in Event : GoodChain(e, chain[e])
  /\ deltas = DeltasOf(chain)

\* At the start nothing is published and every chain is empty.
LEMMA ChainStart == Notices!Init => ChainInv
<1> SUFFICES ASSUME Notices!Init PROVE ChainInv
    OBVIOUS
<1>1. published = {} /\ chain = [e \in Event |-> <<>>] /\ deltas = {}
    BY DEF Notices!Init
<1>2. <<>> \in Seq(Notices!Stored) /\ Len(<<>>) = 0
    OBVIOUS
<1>3. IsFiniteSet({})
    BY FS_EmptySet
<1>4. \A e \in Event : GoodChain(e, chain[e])
    BY <1>1, <1>2 DEF GoodChain
<1>5. DeltasOf(chain) = {}
  <2>1. \A e \in Event : 1..(Len(chain[e]) - 1) = {}
    BY <1>1, <1>2
  <2> QED BY <2>1 DEF DeltasOf
<1> QED BY <1>1, <1>2, <1>3, <1>4, <1>5 DEF ChainInv

\* A publication replaces that of its event and key.
LEMMA PublishStep ==
  ASSUME ChainInv, NEW n \in Notices!Notice, Notices!Publish(n)
  PROVE  ChainInv'
<1> DEFINE others == {p \in published : <<p.event, p.key>> # <<n.event, n.key>>}
<1>1. published' = others \cup {n} /\ UNCHANGED <<chain, deltas>>
    BY DEF Notices!Publish
<1>2. IsFiniteSet(others) /\ others \subseteq published
    BY FS_Subset DEF ChainInv
<1>3. IsFiniteSet(published')
    BY <1>1, <1>2, FS_AddElement
<1>4. \A p \in others : p.event # n.event \/ p.key # n.key
    OBVIOUS
<1> HIDE DEF others
<1> QED BY <1>1, <1>2, <1>3, <1>4 DEF ChainInv

\* What is delivered of an event is a window of it.
LEMMA WindowOf ==
  ASSUME ChainInv, NEW W \in SUBSET published, NEW e \in Event
  PROVE  IsWindow(e, {n \in W : n.event = e})
<1>1. IsFiniteSet({n \in W : n.event = e})
    BY FS_Subset DEF ChainInv
<1> QED BY <1>1 DEF IsWindow, ChainInv

\* A window extends the chains of its events, and adds the deltas of what it appended.
LEMMA WindowStep ==
  ASSUME ChainInv, NEW W \in SUBSET published, Notices!Deliver(W)
  PROVE  /\ ChainInv'
         /\ \A e \in Event : Begins(chain[e], chain'[e])
<1>1. /\ chain' = [e \in Event |-> Notices!WithWindow(chain[e], {n \in W : n.event = e})]
      /\ deltas' = deltas \cup UNION {{[event |-> e, from |-> i - 1, to |-> i] :
                          i \in (Len(chain[e]) + 1)..Len(chain'[e]) \ {1}} : e \in Event}
      /\ UNCHANGED published
    BY DEF Notices!Deliver
<1>2. \A e \in Event : GoodChain(e, chain'[e]) /\ Begins(chain[e], chain'[e])
  <2>1. ASSUME NEW e \in Event
        PROVE  GoodChain(e, chain'[e]) /\ Begins(chain[e], chain'[e])
    <3>1. GoodChain(e, chain[e]) /\ chain'[e] = Notices!WithWindow(chain[e], {n \in W : n.event = e})
      BY <1>1 DEF ChainInv
    <3> QED BY <3>1, WindowOf, WindowExtends
  <2> QED BY <2>1
<1>3. chain' \in [Event -> Seq(Notices!Stored)]
    BY <1>1, <1>2 DEF GoodChain
<1>4. deltas' = DeltasOf(chain')
  <2>1. \A e \in Event : Len(chain[e]) \in Nat /\ Len(chain'[e]) \in Nat /\ Len(chain[e]) <= Len(chain'[e])
    BY <1>2 DEF ChainInv, GoodChain, Begins
  <2> DEFINE old(e) == {[event |-> e, from |-> i, to |-> i + 1] : i \in 1..(Len(chain[e]) - 1)}
             new(e) == {[event |-> e, from |-> i - 1, to |-> i] :
                          i \in (Len(chain[e]) + 1)..Len(chain'[e]) \ {1}}
             all(e) == {[event |-> e, from |-> i, to |-> i + 1] : i \in 1..(Len(chain'[e]) - 1)}
  <2>2. ASSUME NEW e \in Event PROVE all(e) = old(e) \cup new(e)
    <3>1. Len(chain[e]) \in Nat /\ Len(chain'[e]) \in Nat /\ Len(chain[e]) <= Len(chain'[e])
      BY <2>1
    <3> DEFINE a == Len(chain[e])
               b == Len(chain'[e])
    <3> HIDE DEF a, b
    <3>2. a \in Nat /\ b \in Nat /\ a <= b
      BY <3>1 DEF a, b
    <3>3. \A i \in 1..(b - 1) : i \in 1..(a - 1) \/ (i + 1 \in (a + 1)..b \ {1} /\ (i + 1) - 1 = i)
      BY <3>2
    <3>4. \A i \in (a + 1)..b \ {1} : i - 1 \in 1..(b - 1) /\ (i - 1) + 1 = i
      BY <3>2
    <3>5. \A i \in 1..(a - 1) : i \in 1..(b - 1)
      BY <3>2
    <3>6. ASSUME NEW d \in all(e) PROVE d \in old(e) \cup new(e)
      <4>1. PICK i \in 1..(b - 1) : d = [event |-> e, from |-> i, to |-> i + 1]
        BY <3>6 DEF b
      <4>2. CASE i \in 1..(a - 1)
        BY <4>1, <4>2 DEF a
      <4>3. CASE i + 1 \in (a + 1)..b \ {1} /\ (i + 1) - 1 = i
        <5>1. d = [event |-> e, from |-> (i + 1) - 1, to |-> i + 1]
          BY <4>1, <4>3
        <5> QED BY <4>3, <5>1 DEF a, b
      <4> QED BY <3>3, <4>1, <4>2, <4>3
    <3>7. ASSUME NEW d \in old(e) PROVE d \in all(e)
      BY <3>5, <3>7 DEF a, b
    <3>8. ASSUME NEW d \in new(e) PROVE d \in all(e)
      <4>1. PICK i \in (a + 1)..b \ {1} : d = [event |-> e, from |-> i - 1, to |-> i]
        BY <3>8 DEF a, b
      <4>2. d = [event |-> e, from |-> i - 1, to |-> (i - 1) + 1] /\ i - 1 \in 1..(b - 1)
        BY <3>4, <4>1
      <4> QED BY <4>2 DEF b
    <3> QED BY <3>6, <3>7, <3>8
  <2>3. deltas = UNION {old(e) : e \in Event}
    BY DEF ChainInv, DeltasOf
  <2>4. deltas' = deltas \cup UNION {new(e) : e \in Event}
    BY <1>1
  <2>5. DeltasOf(chain') = UNION {all(e) : e \in Event}
    BY DEF DeltasOf
  <2> HIDE DEF old, new, all
  <2> QED BY <2>2, <2>3, <2>4, <2>5
<1> QED BY <1>1, <1>2, <1>3, <1>4 DEF ChainInv

\* The deltas that lead to a revision of a chain: none to the first, one to every other.
LEMMA DeltasLeading ==
  ASSUME ChainInv, NEW e \in Event, NEW j \in 1..Len(chain[e])
  PROVE  {d \in deltas : d.event = e /\ d.to = j}
           = IF j = 1 THEN {} ELSE {[event |-> e, from |-> j - 1, to |-> j]}
<1> DEFINE D == {d \in deltas : d.event = e /\ d.to = j}
           k == Len(chain[e])
<1>1. k \in Nat /\ j \in Int /\ 1 <= j /\ j <= k
    BY DEF ChainInv, GoodChain
<1>2. deltas = UNION {{[event |-> u, from |-> i, to |-> i + 1] : i \in 1..(Len(chain[u]) - 1)} : u \in Event}
    BY DEF ChainInv, DeltasOf
<1>3. ASSUME NEW d \in D PROVE j # 1 /\ d = [event |-> e, from |-> j - 1, to |-> j]
  <2>1. PICK u \in Event : d \in {[event |-> u, from |-> i, to |-> i + 1] : i \in 1..(Len(chain[u]) - 1)}
    BY <1>2
  <2>2. PICK i \in 1..(Len(chain[u]) - 1) : d = [event |-> u, from |-> i, to |-> i + 1]
    BY <2>1
  <2>3. u = e /\ i + 1 = j /\ i \in Int /\ 1 <= i
    BY <2>2
  <2> QED BY <1>1, <2>2, <2>3
<1>4. ASSUME j # 1 PROVE [event |-> e, from |-> j - 1, to |-> j] \in D
  <2>1. j - 1 \in 1..(k - 1) /\ (j - 1) + 1 = j
    BY <1>1, <1>4
  <2>2. [event |-> e, from |-> j - 1, to |-> j]
          \in {[event |-> e, from |-> i, to |-> i + 1] : i \in 1..(Len(chain[e]) - 1)}
    BY <2>1
  <2> QED BY <1>2, <2>2
<1> QED BY <1>3, <1>4

\* A reader is given the newest revisions, each with its delta, and the bounds of the chain.
LEMMA HistoryHolds ==
  ASSUME ChainInv, NEW e \in Event, NEW limit \in 1..2, chain[e] # <<>>
  PROVE  LET h == Notices!HistoryRows(e, limit)
         IN  /\ Notices!Accepted(h) /\ h.rows[1].revision = Notices!Last(chain[e])
             /\ h.latest = Notices!Last(chain[e]).notice.pub
<1> DEFINE s == chain[e]
           k == Len(s)
           all == Notices!Reverse(s)
           pubs == {all[i].notice.pub : i \in DOMAIN all}
           m == Notices!Min({Len(all), limit})
           h == Notices!HistoryRows(e, limit)
           D(j) == {d \in deltas : d.event = e /\ d.to = j}
<1>1. /\ s \in Seq(Notices!Stored) /\ k \in Nat /\ k >= 1
      /\ \A i \in 1..k : s[i].number = i
      /\ \A i \in 1..k : \A j \in 1..(i - 1) : s[j].notice.pub <= s[i].notice.pub
    BY DEF ChainInv, GoodChain
<1>2. \A i \in 1..k : s[i].notice.pub \in Nat
  <2>1. \A i \in 1..k : s[i] \in Notices!Stored
    BY <1>1
  <2> QED BY <2>1, NoticeConstants DEF Notices!Stored
<1>3. /\ Len(all) = k /\ DOMAIN all = 1..k
      /\ \A i \in 1..k : all[i] = s[(k - i) + 1] /\ (k - i) + 1 \in 1..k
    BY <1>1 DEF Notices!Reverse
<1> HIDE DEF s, k, all
<1>4. m \in 1..k /\ 1 \in 1..m
  <2> DEFINE least == IF k <= limit THEN k ELSE limit
  <2>1. k \in Int /\ limit \in Int /\ least \in {k, limit} /\ least <= k /\ least <= limit
    BY <1>1
  <2>2. Notices!Min({k, limit}) = CHOOSE x \in {k, limit} : \A y \in {k, limit} : x <= y
    BY DEF Notices!Min
  <2>3. \A x \in {k, limit} : (\A y \in {k, limit} : x <= y) => x = least
    BY <2>1
  <2>4. Notices!Min({k, limit}) = least
    <3> HIDE DEF least
    <3> QED BY <2>1, <2>2, <2>3
  <2> QED BY <1>1, <1>3, <2>4
<1>5. /\ h.rows = [i \in 1..m |-> [revision |-> all[i], deltas |-> D(all[i].number)]]
      /\ h.total = Len(all) /\ h.first = Notices!Min(pubs) /\ h.latest = Notices!Max(pubs)
    BY DEF Notices!HistoryRows, s, k, all
<1> HIDE DEF h, m
<1>6. DOMAIN h.rows = 1..m /\ Len(h.rows) = m /\ m \in Nat /\ m <= k
    BY <1>1, <1>4, <1>5
<1>7. \A i \in 1..m : /\ i \in 1..k /\ h.rows[i].revision = s[(k - i) + 1]
                       /\ h.rows[i].revision.number = (k - i) + 1
                       /\ h.rows[i].deltas = D((k - i) + 1)
                       /\ (k - i) + 1 \in 1..k
  <2>1. ASSUME NEW i \in 1..m
        PROVE  /\ i \in 1..k /\ h.rows[i].revision = s[(k - i) + 1]
               /\ h.rows[i].revision.number = (k - i) + 1
               /\ h.rows[i].deltas = D((k - i) + 1)
               /\ (k - i) + 1 \in 1..k
    <3>1. i \in 1..k
      BY <1>1, <1>6
    <3>2. all[i] = s[(k - i) + 1] /\ (k - i) + 1 \in 1..k /\ all[i].number = (k - i) + 1
      BY <1>1, <1>3, <3>1
    <3>3. h.rows[i] = [revision |-> all[i], deltas |-> D(all[i].number)]
      BY <1>5
    <3> HIDE DEF D
    <3> QED BY <3>1, <3>2, <3>3
  <2> QED BY <2>1
<1>8. \A j \in 1..k : IF j > 1 THEN Notices!Cardinality(D(j)) = 1 ELSE D(j) = {}
  <2>1. ASSUME NEW j \in 1..k PROVE IF j > 1 THEN Notices!Cardinality(D(j)) = 1 ELSE D(j) = {}
    <3>1. D(j) = IF j = 1 THEN {} ELSE {[event |-> e, from |-> j - 1, to |-> j]}
      BY DeltasLeading DEF k, s
    <3>2. \A x : Notices!Cardinality({x}) = 1
      BY FS_Singleton, NoticesLibrary
    <3>3. CASE j = 1
      BY <3>1, <3>3
    <3>4. CASE j # 1
      <4>1. D(j) = {[event |-> e, from |-> j - 1, to |-> j]} /\ j > 1
        BY <1>1, <3>1, <3>4
      <4> QED BY <3>2, <4>1
    <3> QED BY <3>3, <3>4
  <2> QED BY <2>1
<1>9. Notices!Max(pubs) = s[k].notice.pub /\ Notices!Max(pubs) \in pubs /\ pubs \subseteq Nat
  <2> DEFINE top == s[k].notice.pub
  <2>1. \A i \in 1..k : all[i].notice.pub \in Nat /\ all[i].notice.pub <= top
    <3>1. ASSUME NEW i \in 1..k PROVE s[i].notice.pub <= s[k].notice.pub
      <4>1. CASE i = k
        BY <1>1, <1>2, <4>1
      <4>2. CASE i # k
        <5>1. i \in 1..(k - 1) /\ k \in 1..k
          BY <1>1, <4>2
        <5> QED BY <1>1, <5>1
      <4> QED BY <4>1, <4>2
    <3> QED BY <1>2, <1>3, <3>1
  <2>2. 1 \in 1..k /\ all[1] = s[k] /\ k \in 1..k
    BY <1>1, <1>3
  <2>3. top \in pubs /\ pubs \subseteq Nat /\ (\A y \in pubs : y <= top) /\ top \in Nat
    BY ZenonT(40), <1>2, <1>3, <2>1, <2>2
  <2> HIDE DEF pubs, top
  <2>4. Notices!Max(pubs) = CHOOSE x \in pubs : \A y \in pubs : x >= y
    BY DEF Notices!Max
  <2>5. \A y \in pubs : top >= y
    BY <2>3
  <2>6. \A x \in pubs : (\A y \in pubs : x >= y) => x = top
    BY <2>3, <2>5
  <2>7. Notices!Max(pubs) = top
    BY <2>3, <2>4, <2>5, <2>6
  <2> QED BY <2>3, <2>7 DEF top
<1>10. Notices!Min(pubs) <= Notices!Max(pubs)
  <2>1. pubs # {} /\ pubs \subseteq Nat
    BY <1>9
  <2> HIDE DEF pubs
  <2>2. \E x \in pubs : \A y \in pubs : x <= y
    BY <2>1, LeastNatural
  <2>3. \A y \in pubs : Notices!Min(pubs) <= y
    BY <2>2 DEF Notices!Min
  <2> QED BY <1>9, <2>3
<1> HIDE DEF pubs, D
<1>11. Notices!Accepted(h)
  <2>1. \A i \in DOMAIN h.rows :
          IF h.rows[i].revision.number > 1 THEN Notices!Cardinality(h.rows[i].deltas) = 1
                                           ELSE h.rows[i].deltas = {}
    BY <1>6, <1>7, <1>8
  <2>2. \A i, j \in DOMAIN h.rows : i < j => h.rows[j].revision.number < h.rows[i].revision.number
    <3>1. ASSUME NEW i \in 1..m, NEW j \in 1..m, i < j
          PROVE  h.rows[j].revision.number < h.rows[i].revision.number
      <4>1. h.rows[j].revision.number = (k - j) + 1 /\ h.rows[i].revision.number = (k - i) + 1
        BY <1>7
      <4> QED BY <1>1, <1>6, <3>1, <4>1
    <3> QED BY <1>6, <3>1
  <2>3. Len(h.rows) <= h.total
    BY <1>3, <1>5, <1>6
  <2>4. h.first <= h.latest
    BY <1>5, <1>10
  <2> QED BY <2>1, <2>2, <2>3, <2>4 DEF Notices!Accepted
<1>12. h.rows[1].revision = s[k]
  <2>1. (k - 1) + 1 = k
    BY <1>1
  <2> QED BY <1>4, <1>7, <2>1
<1> QED BY <1>5, <1>9, <1>11, <1>12 DEF Notices!Last, s, k, h

\* The invariant is what ChainValid promises.
LEMMA ChainEnd == ChainInv => Notices!ChainValid
<1> SUFFICES ASSUME ChainInv PROVE Notices!ChainValid
    OBVIOUS
<1>1. ASSUME NEW e \in Event, NEW i \in DOMAIN chain[e]
      PROVE  /\ chain[e][i].number = i
             /\ (chain[e][i].status = "open") = (i = 1)
             /\ chain[e][i].status \in Ended => i = Len(chain[e])
             /\ \A j \in 1..(i - 1) :
                   /\ chain[e][j].notice # chain[e][i].notice
                   /\ chain[e][j].notice.pub <= chain[e][i].notice.pub
                   /\ Notices!RevisionOf(chain[e][j].notice) <= Notices!RevisionOf(chain[e][i].notice)
  <2>1. GoodChain(e, chain[e])
    BY DEF ChainInv
  <2>2. i \in 1..Len(chain[e])
    BY <2>1 DEF GoodChain
  <2> QED BY <2>1, <2>2 DEF GoodChain
<1>2. deltas = UNION {{[event |-> e, from |-> i, to |-> i + 1] : i \in 1..(Len(chain[e]) - 1)} : e \in Event}
    BY DEF ChainInv, DeltasOf
<1>3. \A e \in Event, limit \in 1..2 : chain[e] # <<>> =>
        LET h == Notices!HistoryRows(e, limit)
        IN  /\ Notices!Accepted(h) /\ h.rows[1].revision = Notices!Last(chain[e])
            /\ h.latest = Notices!Last(chain[e]).notice.pub
    BY HistoryHolds
<1> QED BY <1>1, <1>2, <1>3 DEF Notices!ChainValid

\* Every step of the notices keeps the invariant and the beginning of every chain.
LEMMA ChainNext ==
  ASSUME ChainInv, [Notices!Next]_noticeVars
  PROVE  /\ ChainInv'
         /\ \A e \in Event : Begins(chain[e], chain'[e])
<1>1. \A e \in Event : Begins(chain[e], chain[e])
  <2>1. \A e \in Event : Len(chain[e]) \in Nat
    BY DEF ChainInv, GoodChain
  <2> QED BY <2>1 DEF Begins
<1>2. CASE \E n \in Notices!Notice : Notices!Publish(n)
  <2>1. chain' = chain
    BY <1>2 DEF Notices!Publish
  <2> QED BY <1>1, <1>2, <2>1, PublishStep
<1>3. CASE \E W \in SUBSET published : Notices!Deliver(W)
    BY <1>3, WindowStep
<1>4. CASE UNCHANGED noticeVars
  <2>1. UNCHANGED <<published, chain, deltas>>
    BY <1>4 DEF noticeVars
  <2> QED BY <1>1, <2>1 DEF ChainInv
<1> QED BY <1>2, <1>3, <1>4 DEF Notices!Next

\* Of an event whose newest publication says it ended, the window of all that is served
\* takes that publication last; it ends the chain, if another one has not.
LEMMA EndTaken ==
  ASSUME ChainInv, Notices!Deliver(published), NEW n \in published, Notices!SaysEnded(n),
         chain'[n.event] # <<>>
  PROVE  Notices!Terminal(chain'[n.event])
<1> DEFINE e == n.event
           W == {x \in published : x.event = n.event}
           N == Cardinality(W)
           q == Notices!OldestFirst(W)
           s == chain[e]
<1>1. n \in Notices!Notice /\ e \in Event /\ published \subseteq Notices!Notice
    BY NoticeConstants DEF ChainInv
<1>2. IsWindow(e, W) /\ N \in Nat
  <2>1. IsWindow(e, {x \in published : x.event = e})
    BY <1>1, WindowOf
  <2> QED BY <2>1, FS_CardinalityType DEF IsWindow
<1>3. GoodChain(e, s) /\ s \in Seq(Notices!Stored)
    BY <1>1 DEF ChainInv, GoodChain
<1>4. chain'[e] = Notices!WithWindow(s, W)
    BY <1>1 DEF Notices!Deliver
<1>5. /\ n \in W /\ n.status \in Ended /\ n.sound
      /\ \A x \in W : (x = n \/ Notices!Before(x, n)) /\ x.pub <= n.pub
      /\ \A i \in DOMAIN s : (s[i].notice = n \/ Notices!Before(s[i].notice, n)) /\ s[i].notice.pub <= n.pub
  <2>1. /\ n.status \in Ended /\ n.sound
        /\ \A x \in published \cup {chain[n.event][i].notice : i \in DOMAIN chain[n.event]} :
              x.event = n.event => (x = n \/ Notices!Before(x, n)) /\ x.pub <= n.pub
    BY DEF Notices!SaysEnded
  <2>2. \A i \in DOMAIN s : s[i].notice.event = n.event
    BY <1>3 DEF GoodChain
  <2> QED BY <2>1, <2>2
<1>6. Lists(q, W)
    BY <1>1, <1>2, WindowOrdered
<1>7. W \subseteq Notices!Notice
    BY <1>1
<1> HIDE DEF W, N, q, s
<1>8. PICK f : Steps(W, s, f) /\ Notices!WithWindow(s, W) = f[N]
    BY <1>1, <1>2, <1>3, WindowFolds DEF Steps, N
<1>9. N \in 1..N /\ q[N] = n
  <2>1. PICK k \in 1..N : q[k] = n
    BY <1>5, <1>6 DEF Lists, N
  <2>2. N \in 1..N /\ q[N] \in W
    BY <1>2, <1>6, <2>1 DEF Lists, N
  <2>3. CASE k = N
    BY <2>1, <2>2, <2>3
  <2>4. CASE k # N
    <3>1. k < N
      BY <1>2, <2>1, <2>4
    <3>2. Notices!Before(n, q[N])
      BY <1>6, <2>1, <2>2, <3>1 DEF Lists, N
    <3>3. q[N] = n \/ Notices!Before(q[N], n)
      BY <1>5, <2>2
    <3>4. q[N] \in Notices!Notice
      BY <1>7, <2>2
    <3> QED BY <1>1, <3>2, <3>3, <3>4, OlderIsOrder
  <2> QED BY <2>3, <2>4
<1> DEFINE u == f[N - 1]
<1>10. f[N] = Notices!Extended(u, n)
    BY <1>8, <1>9 DEF Steps, N, q
<1>11. GoodChain(e, u) /\ FromWindow(s, W, u)
  <2>1. N - 1 \in 0..N
    BY <1>2, <1>9
  <2>2. \A i \in 0..Cardinality(W) : GoodChain(e, f[i]) /\ Begins(s, f[i]) /\ FromWindow(s, W, f[i])
    BY <1>1, <1>2, <1>3, <1>8, StepsHold
  <2> QED BY <2>1, <2>2 DEF N
<1> HIDE DEF u
<1>12. chain'[e] = Notices!Extended(u, n)
    BY <1>4, <1>8, <1>10
<1>13. u \in Seq(Notices!Stored) /\ Len(u) \in Nat /\ DOMAIN u = 1..Len(u)
    BY <1>11 DEF GoodChain
<1>14. \A i \in 1..Len(u) : /\ u[i].notice = n \/ Notices!Before(u[i].notice, n)
                            /\ u[i].notice.pub <= n.pub /\ u[i].notice \in Notices!Notice
  <2>1. ASSUME NEW i \in 1..Len(u)
        PROVE  /\ u[i].notice = n \/ Notices!Before(u[i].notice, n)
               /\ u[i].notice.pub <= n.pub /\ u[i].notice \in Notices!Notice
    <3>1. CASE u[i].notice \in W
      BY <1>5, <1>7, <3>1
    <3>2. CASE \E j \in 1..Len(s) : u[i].notice = s[j].notice
      <4>1. PICK j \in 1..Len(s) : u[i].notice = s[j].notice
        BY <3>2
      <4>2. j \in DOMAIN s /\ s[j] \in Notices!Stored
        BY <1>3
      <4>3. s[j].notice \in Notices!Notice
        BY <4>2 DEF Notices!Stored
      <4> QED BY <1>5, <4>1, <4>2, <4>3
    <3> QED BY <1>11, <3>1, <3>2 DEF FromWindow
  <2> QED BY <2>1
<1>15. CASE Notices!Extends(u, n)
  <2>1. Notices!Extended(u, n) = Append(u, Notices!NextRevision(u, n))
    BY <1>15 DEF Notices!Extended
  <2>2. Notices!NextRevision(u, n).status \in Ended
    BY <1>5 DEF Notices!NextRevision
  <2>3. chain'[e] # <<>> /\ Notices!Last(chain'[e]) = Notices!NextRevision(u, n)
    BY <1>12, <1>13, <2>1 DEF Notices!Last
  <2> QED BY <2>2, <2>3 DEF Notices!Terminal
<1>16. CASE ~Notices!Extends(u, n)
  <2>1. chain'[e] = u /\ u # <<>>
    BY <1>12, <1>16 DEF Notices!Extended
  <2>2. Len(u) \in 1..Len(u)
    BY <1>13, <2>1
  <2>3. CASE \E i \in DOMAIN u : u[i].notice = n
    <3>1. PICK i \in 1..Len(u) : u[i].notice = n
      BY <1>13, <2>3
    <3>2. u[i].status \in Ended /\ i = Len(u)
      BY <1>5, <1>11, <3>1 DEF GoodChain
    <3> QED BY <2>1, <3>2 DEF Notices!Terminal, Notices!Last
  <2>4. CASE \E i \in DOMAIN u : Notices!OlderThan(n, u[i].notice)
    <3>1. PICK i \in 1..Len(u) : Notices!OlderThan(n, u[i].notice)
      BY <1>13, <2>4
    <3> QED BY <1>1, <1>14, <3>1, OlderIsOrder
  <2>5. CASE Notices!Terminal(u)
    BY <2>1, <2>5
  <2>6. CASE ~(Notices!Last(u).notice.pub <= n.pub)
    BY <1>14, <2>2, <2>6 DEF Notices!Last
  <2> QED BY <1>5, <1>16, <2>1, <2>3, <2>4, <2>5, <2>6 DEF Notices!Extends
<1> QED BY <1>15, <1>16

\* Every step of the notices is one that EndNotMissed allows.
LEMMA EndStep ==
  ASSUME ChainInv, [Notices!Next]_noticeVars
  PROVE  Notices!EndSeen
<1>1. ASSUME NEW e \in Event PROVE Notices!IsPrefix(chain[e], chain'[e])
  <2>1. Begins(chain[e], chain'[e])
    BY ChainNext
  <2>2. chain[e] \in Seq(Notices!Stored) /\ chain'[e] \in Seq(Notices!Stored)
    BY ChainNext DEF ChainInv
  <2> DEFINE s == chain[e]
             t == chain'[e]
             k == Len(s)
  <2> HIDE DEF s, t, k
  <2>3. /\ s \in Seq(Notices!Stored) /\ t \in Seq(Notices!Stored) /\ k = Len(s) /\ k <= Len(t)
        /\ k \in Nat /\ \A i \in 1..k : t[i] = s[i]
    BY <2>1, <2>2 DEF Begins, s, t, k
  <2>4. SubSeq(s, 1, k) \in Seq(Notices!Stored) /\ Len(SubSeq(s, 1, k)) = k
        /\ \A i \in 1..k : SubSeq(s, 1, k)[i] = s[i]
    BY <2>3
  <2>5. SubSeq(t, 1, k) \in Seq(Notices!Stored) /\ Len(SubSeq(t, 1, k)) = k
        /\ \A i \in 1..k : SubSeq(t, 1, k)[i] = t[i]
    BY <2>3
  <2>6. SubSeq(s, 1, k) = SubSeq(t, 1, k)
    BY <2>3, <2>4, <2>5, SeqEqual
  <2> QED BY <2>3, <2>6 DEF Notices!IsPrefix, s, t, k
<1> QED BY <1>1, EndTaken DEF Notices!EndSeen

ChainHolds == store = "notices" => ChainInv

\* In the composition the chains keep their invariant.
LEMMA ChainKept == StoresSpec => []ChainHolds
<1>1. StoresInit => ChainHolds
  <2> SUFFICES ASSUME StoresInit, store = "notices" PROVE ChainInv
    BY DEF ChainHolds
  <2>1. Notices!Init
    BY DEF StoresInit
  <2> QED BY <2>1, ChainStart
<1>2. ChainHolds /\ [StoresNext]_allvars => ChainHolds'
  <2> SUFFICES ASSUME ChainHolds, [StoresNext]_allvars, store' = "notices" PROVE ChainInv'
    BY DEF ChainHolds
  <2>1. store = "notices" /\ [Notices!Next]_noticeVars
    BY DEF StoresNext, allvars
  <2> QED BY <2>1, ChainNext DEF ChainHolds
<1> QED BY <1>1, <1>2, PTL DEF StoresSpec

\* EventLifecycle, ChainValid: for any events, keys, times, statuses and any order, overlap
\* and repetition of windows, every chain is one that a reader accepts, and every request
\* for a history is answered.
THEOREM ChainsAccepted == StoresSpec => []ChainValid
<1>1. ChainHolds => ChainValid
    BY ChainEnd DEF ChainHolds, ChainValid
<1> QED BY <1>1, ChainKept, PTL

\* EventLifecycle, EndNotMissed: no delivery rewrites a chain, and a delivery of all that
\* is served ends every event with a chain whose newest publication says it ended.
THEOREM EndsSeen == StoresSpec => EndNotMissed
<1>1. ChainHolds /\ [StoresNext]_allvars => [store = "notices" => Notices!EndSeen]_allvars
  <2> SUFFICES ASSUME ChainHolds, [StoresNext]_allvars, store = "notices" PROVE Notices!EndSeen
    OBVIOUS
  <2>1. ChainInv /\ [Notices!Next]_noticeVars
    BY DEF StoresNext, allvars, ChainHolds
  <2> QED BY <2>1, EndStep
<1> QED BY <1>1, ChainKept, PTL DEF StoresSpec, EndNotMissed

-----------------------------------------------------------------------------
\* The library's operators are the same in both kinds of feed.
LEMMA FeedsLibrary ==
  /\ \A S : Whole!Cardinality(S) = Cardinality(S) /\ Whole!IsFiniteSet(S) = IsFiniteSet(S)
BY DEF Whole!Cardinality, Cardinality, Whole!IsFiniteSet, IsFiniteSet

-----------------------------------------------------------------------------
(* One request (SourceClient). *)

CallRecord ==
  [state: {"resting", "asking", "failed"}, form: {"json", "bytes"}, attempt: Nat, waited: Int,
   last: {"none", "lost", "busy", "refused", "garbled", "scalar"}]

\* Each wait came after an attempt, and what can be repeated has used all of them.
CallRight ==
  /\ call \in CallRecord
  /\ call.attempt <= MaxAttempts
  /\ call.waited <= IF call.attempt = 0 THEN 0 ELSE (call.attempt - 1) * MaxDelay
  /\ call.state = "asking" => call.attempt >= 1
  /\ /\ call.state = "failed"
     /\ call.last \in {"lost", "busy"} \/ (call.last = "garbled" /\ call.form = "json")
     => call.attempt = MaxAttempts

\* What the settings say of the client.
LEMMA ClientSettings ==
  /\ MaxAttempts \in Nat \ {0} /\ BaseDelay \in Nat /\ MaxDelay \in Nat /\ RetryAfter \subseteq Nat
BY SnapshotSettings DEF Whole!SnapshotAssumption, Whole!ClientAssumption

\* A wait is no longer than the longest delay.
LEMMA DelaysBounded ==
  /\ \A n \in Nat \ {0} : Whole!Backoff(n) \in Int /\ Whole!Backoff(n) <= MaxDelay
  /\ \A r \in Nat : Whole!Capped(r) \in Int /\ Whole!Capped(r) <= MaxDelay
<1>1. ASSUME NEW n \in Nat \ {0} PROVE Whole!Backoff(n) \in Int /\ Whole!Backoff(n) <= MaxDelay
  <2>1. 2^(n - 1) \in Int
    OBVIOUS
  <2>2. BaseDelay * 2^(n - 1) \in Int
    BY <2>1, ClientSettings
  <2> QED BY <2>2, ClientSettings DEF Whole!Backoff
<1>2. ASSUME NEW r \in Nat PROVE Whole!Capped(r) \in Int /\ Whole!Capped(r) <= MaxDelay
  BY ClientSettings DEF Whole!Capped
<1> QED BY <1>1, <1>2

\* The next attempt, after a wait.
LEMMA NextAttempt ==
  ASSUME CallRight, call.state = "asking", call.attempt < MaxAttempts,
         NEW delay \in Int, delay <= MaxDelay, NEW why \in {"lost", "busy", "garbled"},
         call' = [call EXCEPT !.attempt = @ + 1, !.waited = @ + delay, !.last = why]
  PROVE  CallRight'
<1>1. /\ call \in CallRecord /\ call.attempt \in Nat /\ call.waited \in Int /\ call.attempt >= 1
      /\ call.waited <= (call.attempt - 1) * MaxDelay /\ call.state = "asking"
    BY DEF CallRight, CallRecord
<1>2. /\ call'.state = call.state /\ call'.form = call.form /\ call'.attempt = call.attempt + 1
      /\ call'.waited = call.waited + delay /\ call'.last = why /\ call' \in CallRecord
  <2>1. call.attempt + 1 \in Nat /\ call.waited + delay \in Int
    BY <1>1
  <2>2. call = [state |-> call.state, form |-> call.form, attempt |-> call.attempt,
                waited |-> call.waited, last |-> call.last]
    BY <1>1 DEF CallRecord
  <2>3. call' = [state |-> call.state, form |-> call.form, attempt |-> call.attempt + 1,
                 waited |-> call.waited + delay, last |-> why]
    BY <2>2
  <2>4. call.form \in {"json", "bytes"} /\ call.state = "asking"
    BY <1>1 DEF CallRecord
  <2> QED BY <2>1, <2>3, <2>4 DEF CallRecord
<1> DEFINE n == call.attempt
           w == call.waited
<1>3. (n - 1) * MaxDelay + MaxDelay = n * MaxDelay /\ n * MaxDelay \in Int /\ (n - 1) * MaxDelay \in Int
    BY <1>1, ClientSettings
<1>4. w + delay <= (n + 1 - 1) * MaxDelay
  <2>1. n + 1 - 1 = n /\ n \in Nat
    BY <1>1
  <2> HIDE DEF n, w
  <2>2. w + delay <= n * MaxDelay
    <3> DEFINE p == (n - 1) * MaxDelay
               q == n * MaxDelay
    <3>1. p \in Int /\ q \in Int /\ p + MaxDelay = q /\ w \in Int /\ w <= p
      BY <1>1, <1>3 DEF n, w
    <3> HIDE DEF p, q
    <3>2. w + delay <= q
      BY <3>1, ClientSettings
    <3> QED BY <3>2 DEF q
  <2> QED BY <2>1, <2>2
<1>5. n + 1 <= MaxAttempts /\ n + 1 # 0 /\ n + 1 >= 1 /\ n \in Nat
    BY <1>1, ClientSettings
<1> HIDE DEF n, w
<1>6. call'.attempt = n + 1 /\ call'.waited = w + delay /\ call'.state # "failed"
    BY <1>1, <1>2 DEF n, w
<1> QED BY <1>2, <1>4, <1>5, <1>6 DEF CallRight

\* The last attempt, or the end of a request that is not repeated.
LEMMA LastAttempt ==
  ASSUME CallRight, NEW why \in {"lost", "busy", "refused", "garbled", "scalar"},
         why \in {"lost", "busy"} \/ (why = "garbled" /\ call.form = "json")
           => ~(call.attempt < MaxAttempts),
         call' = [call EXCEPT !.state = "failed", !.last = why]
  PROVE  CallRight'
<1>1. call \in CallRecord /\ call.attempt \in Nat /\ call.attempt <= MaxAttempts
    BY DEF CallRight, CallRecord
<1>2. /\ call'.state = "failed" /\ call'.form = call.form /\ call'.attempt = call.attempt
      /\ call'.waited = call.waited /\ call'.last = why /\ call' \in CallRecord
    BY <1>1 DEF CallRecord
<1>3. ~(call.attempt < MaxAttempts) => call.attempt = MaxAttempts
    BY <1>1, ClientSettings
<1> QED BY <1>2, <1>3 DEF CallRight

\* A failed attempt.
LEMMA TroubleKeeps ==
  ASSUME CallRight, Whole!Trouble
  PROVE  CallRight' /\ call.state = "asking"
<1>1. call.state = "asking" /\ call.attempt \in Nat \ {0}
    BY DEF Whole!Trouble, Whole!Lost, Whole!Busy, Whole!Refused, Whole!Garbled, Whole!Scalar, Whole!Asking,
           CallRight, CallRecord
<1> DEFINE B == Whole!Backoff(call.attempt)
<1>2. B \in Int /\ B <= MaxDelay
    BY <1>1, DelaysBounded
<1>3. CASE Whole!Lost
  <2>1. CASE call.attempt < MaxAttempts
    <3>1. call' = [call EXCEPT !.attempt = @ + 1, !.waited = @ + B, !.last = "lost"]
      BY <1>3, <2>1 DEF Whole!Lost, Whole!Again
    <3> HIDE DEF B
    <3> QED BY <1>1, <1>2, <2>1, <3>1, NextAttempt
  <2>2. CASE ~(call.attempt < MaxAttempts)
    <3>1. call' = [call EXCEPT !.state = "failed", !.last = "lost"]
      BY <1>3, <2>2 DEF Whole!Lost, Whole!GaveUp
    <3> QED BY <1>1, <2>2, <3>1, LastAttempt
  <2> QED BY <2>1, <2>2
<1>4. CASE Whole!Busy
  <2>1. CASE call.attempt < MaxAttempts
    <3>1. PICK r \in RetryAfter :
             call' = [call EXCEPT !.attempt = @ + 1,
                                  !.waited = @ + (IF r = Whole!None THEN B ELSE Whole!Capped(r)),
                                  !.last = "busy"]
      BY <1>4, <2>1 DEF Whole!Busy, Whole!Again
    <3> DEFINE delay == IF r = Whole!None THEN B ELSE Whole!Capped(r)
    <3>2. delay \in Int /\ delay <= MaxDelay
      BY <1>2, ClientSettings, DelaysBounded
    <3>3. call' = [call EXCEPT !.attempt = @ + 1, !.waited = @ + delay, !.last = "busy"]
      BY <3>1
    <3> HIDE DEF delay
    <3> QED BY <1>1, <2>1, <3>2, <3>3, NextAttempt
  <2>2. CASE ~(call.attempt < MaxAttempts)
    <3>1. call' = [call EXCEPT !.state = "failed", !.last = "busy"]
      BY <1>4, <2>2 DEF Whole!Busy, Whole!GaveUp
    <3> QED BY <1>1, <2>2, <3>1, LastAttempt
  <2> QED BY <2>1, <2>2
<1>5. CASE Whole!Refused
  <2>1. call' = [call EXCEPT !.state = "failed", !.last = "refused"]
    BY <1>5 DEF Whole!Refused, Whole!GaveUp
  <2> QED BY <1>1, <2>1, LastAttempt
<1>6. CASE Whole!Garbled
  <2>1. CASE call.form = "json" /\ call.attempt < MaxAttempts
    <3>1. call' = [call EXCEPT !.attempt = @ + 1, !.waited = @ + B, !.last = "garbled"]
      BY <1>6, <2>1 DEF Whole!Garbled, Whole!Again
    <3> HIDE DEF B
    <3> QED BY <1>1, <1>2, <2>1, <3>1, NextAttempt
  <2>2. CASE ~(call.form = "json" /\ call.attempt < MaxAttempts)
    <3>1. call' = [call EXCEPT !.state = "failed", !.last = "garbled"]
      BY <1>6, <2>2 DEF Whole!Garbled, Whole!GaveUp
    <3> QED BY <1>1, <2>2, <3>1, LastAttempt
  <2> QED BY <2>1, <2>2
<1>7. CASE Whole!Scalar
  <2>1. call' = [call EXCEPT !.state = "failed", !.last = "scalar"]
    BY <1>7 DEF Whole!Scalar, Whole!GaveUp
  <2> QED BY <1>1, <2>1, LastAttempt
<1> QED BY <1>3, <1>4, <1>5, <1>6, <1>7 DEF Whole!Trouble

\* No request, or a new one.
LEMMA FreshCall ==
  /\ call' = Whole!Resting => CallRight'
  /\ call' = Whole!Request("json") \/ call' = Whole!Request("bytes") => CallRight'
BY ClientSettings DEF CallRight, CallRecord, Whole!Resting, Whole!Request

\* A request that is right is patient.
LEMMA RightIsPatient == CallRight => Whole!Patient
<1> SUFFICES ASSUME CallRight PROVE Whole!Patient
    OBVIOUS
<1>1. /\ call.attempt \in Nat /\ call.waited \in Int /\ call.attempt <= MaxAttempts
      /\ call.waited <= IF call.attempt = 0 THEN 0 ELSE (call.attempt - 1) * MaxDelay
    BY DEF CallRight, CallRecord
<1> DEFINE n == call.attempt
<1>2. (MaxAttempts - 1) * MaxDelay >= 0
    BY ClientSettings
<1>3. n \in Nat \ {0} => (n - 1) * MaxDelay <= (MaxAttempts - 1) * MaxDelay
  <2> HIDE DEF n
  <2>1. SUFFICES ASSUME n \in Nat \ {0} PROVE (n - 1) * MaxDelay <= (MaxAttempts - 1) * MaxDelay
    OBVIOUS
  <2>2. MaxAttempts - n \in Nat /\ MaxDelay \in Nat
    BY <1>1, <2>1, ClientSettings DEF n
  <2>3. (MaxAttempts - n) * MaxDelay >= 0
    BY <2>2
  <2>4. (MaxAttempts - 1) * MaxDelay = (n - 1) * MaxDelay + (MaxAttempts - n) * MaxDelay
    BY <2>1, <2>2, ClientSettings
  <2> QED BY <2>1, <2>2, <2>3, <2>4, ClientSettings
<1>4. call.waited <= (MaxAttempts - 1) * MaxDelay
  <2>1. CASE n = 0
    <3> QED BY <1>1, <1>2, <2>1, ClientSettings
  <2>2. CASE n # 0
    <3> DEFINE p == (n - 1) * MaxDelay
               q == (MaxAttempts - 1) * MaxDelay
    <3>1. p <= q /\ call.waited <= p /\ p \in Int /\ q \in Int
      BY <1>1, <1>3, <2>2, ClientSettings
    <3> HIDE DEF p, q, n
    <3>2. call.waited <= q
      BY <1>1, <3>1
    <3> QED BY <3>2 DEF q
  <2> QED BY <2>1, <2>2
<1> QED BY <1>1, <1>4 DEF Whole!Patient, CallRight

-----------------------------------------------------------------------------
(* Answers that stand for all there is (SnapshotFeeds). *)

\* The days of the window that have been answered: how many, and their rows.
DaysRead(n) ==
  /\ n \in 0..Len(LookBack) /\ left \in Seq(Int) /\ Len(left) = Len(LookBack) - n
  /\ \A i \in 1..Len(left) : left[i] = LookBack[n + i]
  /\ \A i \in 1..n : \A r \in source : r.day = LookBack[i] => r \in rows
  /\ outcome = "asking" => left # <<>>
  /\ outcome = "ready" => n = Len(LookBack)

\* The file that a fetch of the register is about.
FileChosen ==
  /\ (call.state = "asking" /\ call.form = "bytes") \/ outcome = "ready" =>
        scope = Whole!Selected(listing).url
  /\ outcome = "ready" => cached.sites = Whole!Published(scope)

WholeInv ==
  /\ feed \in Snapshots /\ CallRight /\ listing \subseteq FileSet
  /\ outcome # "asking" => call.state # "asking"
  /\ outcome \in {"asking", "ready"} /\ feed # "sites" => \A r \in rows : Whole!Whole(r)
  /\ cached # Whole!NoFile => cached.sites = Whole!Published(cached.url)
  /\ feed = "sites" => FileChosen
  /\ feed = "settled" /\ outcome \in {"asking", "ready"} => \E n \in Int : DaysRead(n)

\* What the settings say of files and days.
LEMMA SnapshotConstants ==
  /\ Snapshots \subseteq {"units", "notifications", "settled", "sites"}
  /\ IsFiniteSet(FileSet) /\ \A f \in FileSet : f.url # 0 /\ f.rank \in Int
  /\ LookBack \in Seq(Int) /\ LookBack # <<>>
BY SnapshotSettings, FeedsLibrary DEF Whole!SnapshotAssumption

\* The file chosen from a listing that is acceptable is one of the files.
LEMMA SelectedIsFile ==
  ASSUME NEW L, L \subseteq FileSet, Whole!Acceptable(L)
  PROVE  Whole!Selected(L) \in FileSet
<1> DEFINE C == Whole!Candidates(L)
           R == {p \in C \X C : p[2].rank <= p[1].rank}
<1>1. C \subseteq FileSet /\ C # {} /\ IsFiniteSet(C)
  <2>1. C \subseteq FileSet /\ C # {}
    BY DEF Whole!Candidates, Whole!Acceptable
  <2> HIDE DEF C
  <2> QED BY <2>1, SnapshotConstants, FS_Subset
<1> HIDE DEF C
<1>2. \A f \in C : f.rank \in Int
  BY <1>1, SnapshotConstants
<1>3. Total(R, C) /\ Transitive(R, C)
  BY <1>2 DEF Total, Transitive
<1>4. PICK f \in C : \A g \in C \ {f} : <<g, f>> \in R
  <2> HIDE DEF R
  <2> QED BY <1>1, <1>3, LastOfFinite
<1>5. ASSUME NEW g \in C PROVE f.rank <= g.rank
  <2>1. CASE g = f
    BY <1>2, <2>1
  <2>2. CASE g # f
    <3>1. <<g, f>> \in R
      BY <1>4, <2>2
    <3> QED BY <3>1
  <2> QED BY <2>1, <2>2
<1> DEFINE s == CHOOSE f_1 \in C : \A g \in C : f_1.rank <= g.rank
<1>6. s \in C
  BY <1>5
<1>7. Whole!Selected(L) = s
  BY DEF Whole!Selected, C
<1> QED BY <1>1, <1>6, <1>7

\* Of the rows that share a key one is there.
LEMMA OneOfEach ==
  ASSUME NEW R, NEW D \in Whole!Deduplicated(R)
  PROVE  D \subseteq R /\ \A r \in R : \E d \in D : Whole!RowKey(d) = Whole!RowKey(r)
<1> SUFFICES ASSUME NEW r \in R PROVE D \subseteq R /\ \E d \in D : Whole!RowKey(d) = Whole!RowKey(r)
  BY DEF Whole!Deduplicated
<1> DEFINE S == {d \in D : Whole!RowKey(d) = Whole!RowKey(r)}
<1>1. D \subseteq R /\ Cardinality(S) = 1
  BY FeedsLibrary DEF Whole!Deduplicated
<1>2. S # {}
  <2> HIDE DEF S
  <2> QED BY <1>1, FS_EmptySet
<1> QED BY <1>1, <1>2

\* A process starts without a fetch.
LEMMA WholeStart == Whole!Init => WholeInv
<1> SUFFICES ASSUME Whole!Init PROVE WholeInv
  OBVIOUS
<1>1. /\ feed \in Snapshots /\ call = Whole!Resting /\ outcome = "none" /\ listing = {}
      /\ cached = Whole!NoFile
  BY DEF Whole!Init
<1>2. CallRight /\ call.state = "resting"
  BY <1>1, ClientSettings DEF CallRight, CallRecord, Whole!Resting
<1> QED BY <1>1, <1>2 DEF WholeInv, FileChosen

\* A poll.
LEMMA PollStep == ASSUME WholeInv, Whole!Poll PROVE WholeInv'
<1>1. /\ call' = Whole!Request("json") /\ outcome' = "asking" /\ rows' = {}
      /\ feed' = feed /\ cached' = cached /\ kept' = kept
  BY DEF Whole!Poll
<1>2. listing' \subseteq FileSet /\ (feed = "settled" => left' = LookBack)
  BY SnapshotConstants DEF Whole!Poll, Whole!Inputs
<1>3. CallRight' /\ call'.form = "json"
  BY <1>1, FreshCall DEF Whole!Request
<1>4. feed = "settled" => DaysRead(0)'
  BY <1>1, <1>2, SnapshotConstants DEF DaysRead
<1> QED BY <1>1, <1>2, <1>3, <1>4 DEF WholeInv, FileChosen

\* The rows of one answer.
LEMMA RowsStep == ASSUME WholeInv, Whole!AnswerRows PROVE WholeInv'
<1> DEFINE R == Whole!Asked(source)
<1>1. /\ call.state = "asking" /\ feed # "sites" /\ feed' = feed /\ rows' = rows \cup R
      /\ UNCHANGED <<source, listing, cached, scope, kept>>
  BY DEF Whole!AnswerRows, Whole!Asking
<1>2. CASE ~Whole!Understood(R) \/ ~Whole!InScope({r \in R : Whole!Whole(r)})
  <2>1. outcome' = "refused" /\ call' = Whole!Resting
    BY <1>2 DEF Whole!AnswerRows, Whole!Refuse
  <2>2. CallRight' /\ call'.state # "asking"
    BY <2>1, FreshCall DEF Whole!Resting
  <2> QED BY <1>1, <2>1, <2>2 DEF WholeInv
<1>3. CASE Whole!Understood(R)
           /\ left' = Tail(left)
           /\ IF Len(left) > 1 THEN call' = Whole!Request("json") /\ UNCHANGED outcome
              ELSE outcome' = "ready" /\ call' = Whole!Resting
  <2>1. outcome = "asking"
    BY <1>1 DEF WholeInv
  <2>2. CallRight' /\ (outcome' # "asking" => call'.state # "asking")
    BY <1>3, <2>1, FreshCall DEF Whole!Resting
  <2>3. \A r \in rows' : Whole!Whole(r)
    BY <1>1, <1>3, <2>1 DEF WholeInv, Whole!Understood
  <2>4. (\A r \in rows : Whole!Whole(r))'
    BY <1>1, <2>3 DEF Whole!Whole, Whole!Unit, Whole!Segment, Whole!Energy
  <2>5. ASSUME feed = "settled" PROVE \E n \in Int : DaysRead(n)'
    <3>1. PICK n \in Int : DaysRead(n)
      BY <2>1, <2>5 DEF WholeInv
    <3> DEFINE k == Len(LookBack)
    <3>2. /\ n \in 0..k /\ k \in Nat /\ left \in Seq(Int) /\ left # <<>> /\ Len(left) = k - n
          /\ \A i \in 1..Len(left) : left[i] = LookBack[n + i]
          /\ \A i \in 1..n : \A r \in source : r.day = LookBack[i] => r \in rows
      BY <2>1, <3>1, SnapshotConstants DEF DaysRead
    <3> HIDE DEF k
    <3>3. /\ Tail(left) \in Seq(Int) /\ Len(Tail(left)) = k - (n + 1) /\ n + 1 \in 0..k
          /\ \A i \in 1..Len(Tail(left)) : Tail(left)[i] = left[i + 1]
          /\ Head(left) = left[1]
      BY <3>2
    <3>4. ASSUME NEW i \in 1..Len(Tail(left)) PROVE Tail(left)[i] = LookBack[(n + 1) + i]
      <4>1. i + 1 \in 1..Len(left) /\ n + (i + 1) = (n + 1) + i
        BY <3>2, <3>3
      <4> QED BY <3>2, <3>3, <4>1
    <3>5. ASSUME NEW i \in 1..(n + 1), NEW r \in source, r.day = LookBack[i] PROVE r \in rows'
      <4>1. CASE i \in 1..n
        BY <1>1, <3>2, <3>5, <4>1
      <4>2. CASE i \notin 1..n
        <5>1. i = n + 1 /\ 1 \in 1..Len(left)
          BY <3>2, <4>2
        <5>2. r.day = Head(left)
          BY <3>2, <3>3, <3>5, <5>1
        <5>3. r \in R
          BY <2>5, <5>2 DEF Whole!Asked
        <5> QED BY <1>1, <5>3
      <4> QED BY <4>1, <4>2
    <3>6. outcome' = "asking" => Tail(left) # <<>>
      <4>1. outcome' = "asking" => Len(left) > 1
        BY <1>3
      <4>2. Len(left) > 1 => Len(Tail(left)) # 0
        BY <3>2, <3>3
      <4> QED BY <3>3, <4>1, <4>2, Len(<<>>) = 0
    <3>7. outcome' = "ready" => n + 1 = k
      BY <1>3, <2>1, <3>2, <3>3
    <3>8. left' = Tail(left) /\ source' = source
      BY <1>1, <1>3
    <3>9. DaysRead(n + 1)'
      BY <3>3, <3>4, <3>5, <3>6, <3>7, <3>8 DEF DaysRead, k
    <3> QED BY <3>2, <3>9
  <2> QED BY <1>1, <1>3, <2>1, <2>2, <2>4, <2>5 DEF WholeInv
<1> QED BY <1>2, <1>3 DEF Whole!AnswerRows, Whole!Ready

\* The listing of the publication.
LEMMA ListingStep == ASSUME WholeInv, Whole!AnswerListing PROVE WholeInv'
<1>1. /\ call.state = "asking" /\ feed = "sites" /\ call.form = "json"
      /\ UNCHANGED <<feed, source, listing, cached, left, rows, kept>>
  BY DEF Whole!AnswerListing, Whole!Asking
<1>2. outcome = "asking"
  BY <1>1 DEF WholeInv
<1>3. CASE ~Whole!Acceptable(listing)
  <2>1. outcome' = "refused" /\ call' = Whole!Resting
    BY <1>3 DEF Whole!AnswerListing, Whole!Refuse
  <2>2. CallRight' /\ call'.state # "asking"
    BY <2>1, FreshCall DEF Whole!Resting
  <2> QED BY <1>1, <2>1, <2>2 DEF WholeInv, FileChosen
<1>4. CASE Whole!Acceptable(listing)
  <2>1. /\ scope' = Whole!Selected(listing).url
        /\ IF cached.url = scope' THEN outcome' = "ready" /\ call' = Whole!Resting
           ELSE call' = Whole!Request("bytes") /\ UNCHANGED outcome
    BY <1>4 DEF Whole!AnswerListing, Whole!Ready
  <2>2. Whole!Selected(listing)' = Whole!Selected(listing)
    BY <1>1 DEF Whole!Selected, Whole!Candidates
  <2>3. scope' # 0
    BY <1>4, <2>1, SelectedIsFile, SnapshotConstants DEF WholeInv
  <2>4. CASE cached.url = scope'
    <3>1. cached.sites = Whole!Published(cached.url)
      BY <2>3, <2>4 DEF WholeInv, Whole!NoFile
    <3>2. Whole!Published(scope)' = Whole!Published(scope')
      BY DEF Whole!Published, Whole!Register
    <3>3. FileChosen'
      BY <1>1, <2>1, <2>2, <2>4, <3>1 DEF FileChosen
    <3>4. CallRight' /\ call'.state # "asking" /\ outcome' = "ready"
      BY <2>1, <2>4, FreshCall DEF Whole!Resting
    <3> QED BY <1>1, <3>3, <3>4 DEF WholeInv
  <2>5. CASE cached.url # scope'
    <3>1. CallRight' /\ outcome' = "asking"
      BY <1>2, <2>1, <2>5, FreshCall
    <3>2. FileChosen'
      BY <2>1, <2>2, <3>1 DEF FileChosen
    <3> QED BY <1>1, <3>1, <3>2 DEF WholeInv
  <2> QED BY <2>4, <2>5
<1> QED BY <1>3, <1>4

\* The file.
LEMMA FileStep == ASSUME WholeInv, Whole!AnswerFile PROVE WholeInv'
<1>1. /\ call.state = "asking" /\ feed = "sites" /\ call.form = "bytes" /\ call' = Whole!Resting
      /\ UNCHANGED <<feed, source, listing, scope, left, rows, kept>>
  BY DEF Whole!AnswerFile, Whole!Asking, Whole!Ready, Whole!Refuse
<1>2. CallRight' /\ call'.state # "asking"
  BY <1>1, FreshCall DEF Whole!Resting
<1>3. scope = Whole!Selected(listing).url
  BY <1>1 DEF WholeInv, FileChosen
<1>4. Whole!Selected(listing)' = Whole!Selected(listing)
  BY <1>1 DEF Whole!Selected, Whole!Candidates
<1>5. CASE outcome' = "refused" /\ UNCHANGED cached
  BY <1>1, <1>2, <1>5 DEF WholeInv, FileChosen
<1>6. CASE outcome' = "ready" /\ cached' = [url |-> scope, sites |-> Whole!Published(scope)]
  <2>1. cached'.url = scope /\ cached'.sites = Whole!Published(scope)
    BY <1>6
  <2>2. FileChosen'
    BY <1>1, <1>3, <1>4, <2>1 DEF FileChosen
  <2> QED BY <1>1, <1>2, <1>6, <2>1, <2>2 DEF WholeInv
<1> QED BY <1>5, <1>6 DEF Whole!AnswerFile, Whole!Ready, Whole!Refuse

\* What ends a fetch without an answer, and what an answer that failed leaves.
LEMMA OtherSteps ==
  ASSUME WholeInv,
         Whole!AnswerOddly \/ Whole!PersistFails \/ Whole!Persist \/ Whole!Restart \/ Whole!Failing
  PROVE  WholeInv'
<1>1. CASE Whole!AnswerOddly
  <2>1. /\ outcome' = "refused" /\ call' = Whole!Resting
        /\ UNCHANGED <<feed, source, listing, cached, scope, left, rows, kept>>
    BY <1>1 DEF Whole!AnswerOddly, Whole!Refuse
  <2>2. CallRight' /\ call'.state # "asking"
    BY <2>1, FreshCall DEF Whole!Resting
  <2> QED BY <2>1, <2>2 DEF WholeInv, FileChosen
<1>2. CASE Whole!PersistFails \/ Whole!Persist
  <2>1. /\ outcome = "ready" /\ outcome' \in {"failed", "stored"}
        /\ UNCHANGED <<call, feed, source, listing, cached, scope, left, rows>>
    BY <1>2 DEF Whole!PersistFails, Whole!Persist
  <2> QED BY <2>1 DEF WholeInv, FileChosen, CallRight
<1>3. CASE Whole!Restart
  <2>1. /\ outcome' = "failed" /\ call' = Whole!Resting /\ cached' = Whole!NoFile
        /\ UNCHANGED <<feed, source, listing, scope, left, rows, kept>>
    BY <1>3 DEF Whole!Restart
  <2>2. CallRight' /\ call'.state # "asking"
    BY <2>1, FreshCall DEF Whole!Resting
  <2> QED BY <2>1, <2>2 DEF WholeInv, FileChosen
<1>4. CASE Whole!Failing
  <2>1. /\ Whole!Trouble
        /\ UNCHANGED <<feed, source, listing, cached, scope, left, rows, outcome, kept>>
    BY <1>4 DEF Whole!Failing
  <2>2. CallRight' /\ call.state = "asking"
    BY <2>1, TroubleKeeps DEF WholeInv
  <2>3. call'.form = call.form
    BY <2>1, <2>2 DEF Whole!Trouble, Whole!Lost, Whole!Busy, Whole!Refused, Whole!Garbled,
                      Whole!Scalar, Whole!Again, Whole!GaveUp, CallRight, CallRecord, WholeInv
  <2>4. outcome = "asking" /\ outcome' = "asking" /\ feed' = feed
    BY <2>1, <2>2 DEF WholeInv
  <2>5. feed = "sites" => FileChosen'
    BY <2>1, <2>2, <2>3, <2>4 DEF WholeInv, FileChosen
  <2>6. ASSUME feed = "settled" PROVE \E n \in Int : DaysRead(n)'
    <3>1. PICK n \in Int : DaysRead(n)
      BY <2>4, <2>6 DEF WholeInv
    <3>2. DaysRead(n)'
      BY <2>1, <3>1 DEF DaysRead
    <3> QED BY <3>2
  <2>7. feed # "sites" => (\A r \in rows : Whole!Whole(r))'
    BY <2>1, <2>4 DEF WholeInv, Whole!Whole, Whole!Unit, Whole!Segment, Whole!Energy
  <2> QED BY <2>1, <2>2, <2>4, <2>5, <2>6, <2>7 DEF WholeInv
<1> QED BY <1>1, <1>2, <1>3, <1>4

\* Steps of the other kind of feed.
LEMMA WholeStep == ASSUME WholeInv, Whole!Next PROVE WholeInv'
BY PollStep, RowsStep, ListingStep, FileStep, OtherSteps DEF Whole!Next

\* What an answer stores, and what it retires.
LEMMA StoredWhole ==
  ASSUME WholeInv, Whole!Persist, outcome' = "stored"
  PROVE  /\ \A e \in kept : (\A d \in kept' : Whole!RowKey(d) # Whole!RowKey(e)) => Whole!Gone(e)
         /\ feed = "sites" => kept' = Whole!Published(Whole!Selected(listing).url)
         /\ feed = "settled" =>
              \A r \in source : r.day \in {LookBack[i] : i \in 1..Len(LookBack)} =>
                  \E d \in kept' : Whole!RowKey(d) = Whole!RowKey(r)
<1> DEFINE records == IF feed = "sites" THEN cached.sites ELSE {r \in rows : Whole!Whole(r)}
<1>1. /\ outcome = "ready" /\ (feed = "sites" => Whole!Contract(records))
      /\ \E D \in Whole!Deduplicated(records) : kept' = Whole!Beside(D) \cup D
  BY DEF Whole!Persist
<1>2. PICK D \in Whole!Deduplicated(records) : kept' = Whole!Beside(D) \cup D
  BY <1>1, Zenon
<1>3. D \subseteq records /\ \A r \in records : \E d \in D : Whole!RowKey(d) = Whole!RowKey(r)
  <2> HIDE DEF records
  <2> QED BY <1>2, OneOfEach
<1>4. feed # "sites" => records = rows /\ \A r \in rows : Whole!Whole(r)
  BY <1>1 DEF WholeInv
<1>5. feed = "sites" =>
        records = Whole!Published(scope) /\ scope = Whole!Selected(listing).url
  BY <1>1 DEF WholeInv, FileChosen
<1> HIDE DEF records
<1>6. feed \in {"units", "notifications", "settled", "sites"}
  BY SnapshotConstants DEF WholeInv
<1>7. ASSUME NEW e \in kept, \A d \in kept' : Whole!RowKey(d) # Whole!RowKey(e)
      PROVE  Whole!Gone(e)
  <2>1. e \notin Whole!Beside(D)
    BY <1>2, <1>7
  <2>2. \A r \in records : Whole!RowKey(r) # Whole!RowKey(e)
    BY <1>2, <1>3, <1>7
  <2>3. CASE feed = "units"
    BY <1>4, <2>2, <2>3 DEF Whole!Gone, Whole!Whole
  <2>4. CASE feed = "notifications"
    BY <1>4, <2>1, <2>2, <2>4 DEF Whole!Gone, Whole!Whole, Whole!Beside
  <2>5. CASE feed = "settled"
    <3>1. PICK d \in D : Whole!RowKey(d) = Whole!RowKey(e)
      BY <2>1, <2>5 DEF Whole!Beside
    <3> QED BY <1>2, <1>7, <3>1
  <2>6. CASE feed = "sites"
    <3>1. ASSUME NEW s \in Whole!Published(scope) PROVE s.id # e.id
      <4>1. Whole!RowKey(s) # Whole!RowKey(e)
        BY <1>5, <2>2, <2>6
      <4> QED BY <2>6, <4>1 DEF Whole!RowKey
    <3> QED BY <2>6, <3>1 DEF Whole!Gone
  <2> QED BY <1>6, <2>3, <2>4, <2>5, <2>6
<1>8. ASSUME feed = "sites" PROVE kept' = Whole!Published(Whole!Selected(listing).url)
  <2>1. Whole!Beside(D) = {}
    BY <1>8 DEF Whole!Beside
  <2>2. \A s, t \in records : s.id = t.id => s = t
    BY <1>1, <1>8 DEF Whole!Contract
  <2>3. ASSUME NEW s \in records PROVE s \in D
    <3>1. PICK d \in D : Whole!RowKey(d) = Whole!RowKey(s)
      BY <1>3
    <3>2. d.id = s.id
      BY <1>8, <3>1 DEF Whole!RowKey
    <3> QED BY <1>3, <2>2, <3>2
  <2> QED BY <1>2, <1>3, <1>5, <1>8, <2>1, <2>3
<1>9. ASSUME feed = "settled", NEW r \in source,
             r.day \in {LookBack[i] : i \in 1..Len(LookBack)}
      PROVE  \E d \in kept' : Whole!RowKey(d) = Whole!RowKey(r)
  <2>1. PICK n \in Int : DaysRead(n)
    BY <1>1, <1>9 DEF WholeInv
  <2>2. r \in rows
    BY <1>1, <1>9, <2>1 DEF DaysRead
  <2> QED BY <1>2, <1>3, <1>4, <1>9, <2>2
<1> QED BY <1>7, <1>8, <1>9

\* No other step stores or retires.
LEMMA WholeAction ==
  ASSUME WholeInv, Whole!Next
  PROVE  Whole!SnapshotsWhole
<1>1. Whole!Patient'
  <2>1. CallRight'
    BY WholeStep DEF WholeInv
  <2> QED BY <2>1, RightIsPatient, PTL
<1>2. CASE Whole!Persist /\ outcome' = "stored"
  <2> QED BY <1>1, <1>2, StoredWhole DEF Whole!SnapshotsWhole
<1>3. CASE ~(Whole!Persist /\ outcome' = "stored")
  <2>1. kept' = kept /\ (outcome' = "stored" => outcome = "stored")
    BY <1>3 DEF Whole!Next, Whole!Poll, Whole!AnswerRows, Whole!AnswerListing, Whole!AnswerFile,
                Whole!AnswerOddly, Whole!Persist, Whole!PersistFails, Whole!Restart,
                Whole!Failing, Whole!Ready, Whole!Refuse
  <2> QED BY <1>1, <2>1 DEF Whole!SnapshotsWhole
<1> QED BY <1>2, <1>3

-----------------------------------------------------------------------------
(* Answers row by row (SourceFeeds). *)

\* The library's operators are the same here too.
LEMMA FactsLibrary ==
  /\ \A S : Facts!Cardinality(S) = Cardinality(S) /\ Facts!IsFiniteSet(S) = IsFiniteSet(S)
BY DEF Facts!Cardinality, Cardinality, Facts!IsFiniteSet, IsFiniteSet

\* The listed messages in their order, each once.
LEMMA IdsOrdered ==
  ASSUME NEW R, R \subseteq Int, IsFiniteSet(R)
  PROVE  /\ Facts!Ordered(R) \in [1..Cardinality(R) -> R]
         /\ \A r \in R : \E i \in 1..Cardinality(R) : Facts!Ordered(R)[i] = r
         /\ Cardinality(R) \in Nat
<1> DEFINE n == Cardinality(R)
           L == {f \in [1..n -> R] : \A i, j \in 1..n : i # j => f[i] # f[j]}
<1>1. /\ n \in Nat
      /\ \E q \in L : \A i, j \in DOMAIN q : i < j => q[i] < q[j]
      /\ \A q \in L : \A r \in R : \E i \in 1..n : q[i] = r
    BY Ascending
<1>2. Facts!Ordered(R) = CHOOSE q \in L : \A i, j \in DOMAIN q : i < j => q[i] < q[j]
    BY FactsLibrary DEF Facts!Ordered, Facts!SetToSeqs
<1>3. Facts!Ordered(R) \in L
    BY <1>1, <1>2
<1> QED BY <1>1, <1>3

\* A position in a list that is cut into pieces of b.
LEMMA PieceOf ==
  ASSUME NEW n \in Nat, NEW b \in Nat \ {0}, NEW i \in 1..n
  PROVE  LET k == (i - 1) \div b + 1
             N == (n + b - 1) \div b
         IN  k \in 1..N /\ N \in Nat /\ (k - 1) * b + 1 <= i /\ i <= k * b
<1> DEFINE k == (i - 1) \div b + 1
           N == (n + b - 1) \div b
<1>1. i - 1 \in Nat /\ n + b - 1 \in Nat
    OBVIOUS
<1>2. k \in Int /\ k - 1 \in Nat /\ (k - 1) * b <= i - 1 /\ i - 1 < ((k - 1) + 1) * b
    BY <1>1
<1>3. N \in Nat /\ n + b - 1 < (N + 1) * b
    BY <1>1
<1> HIDE DEF k, N
<1>4. (N + 1) * b = N * b + b /\ N * b \in Int /\ (k - 1) * b \in Int /\ k \in Int /\ (k - 1) + 1 = k
  <2>1. (N + 1) * b = N * b + b /\ N * b \in Int
    BY <1>3
  <2> QED BY <1>2, <2>1
<1>5. k <= N
  <2> SUFFICES ASSUME k - 1 >= N PROVE FALSE
    BY <1>3, <1>4
  <2>1. (k - 1) - N \in Nat
    BY <1>2, <1>3
  <2>2. ((k - 1) - N) * b >= 0
    BY <2>1
  <2>3. ((k - 1) - N) * b = (k - 1) * b - N * b
    BY <1>2, <1>3
  <2> QED BY <1>1, <1>2, <1>3, <1>4, <2>2, <2>3
<1>6. k \in 1..N /\ (k - 1) * b + 1 <= i /\ i <= k * b
  <2>1. k * b \in Int /\ i - 1 < k * b
    BY <1>2, <1>4
  <2> QED BY <1>2, <1>3, <1>4, <1>5, <2>1
<1> QED BY <1>3, <1>6 DEF k, N

\* The details of every listed message are asked for.
LEMMA BatchesCover ==
  ASSUME NEW ids, ids \subseteq Int, IsFiniteSet(ids), DetailsSize \in Nat \ {0}
  PROVE  /\ Facts!Batches(ids) \in Seq(SUBSET Int)
         /\ \A x \in ids : \E k \in 1..Len(Facts!Batches(ids)) : x \in Facts!Batches(ids)[k]
<1> DEFINE o == Facts!Ordered(ids)
           n == Cardinality(ids)
           b == DetailsSize
           N == (n + b - 1) \div b
           hi(k) == IF k * b < n THEN k * b ELSE n
           lo(k) == (k - 1) * b + 1
           B == [k \in 1..N |-> Facts!ToSet(SubSeq(o, lo(k), hi(k)))]
<1>1. o \in [1..n -> ids] /\ n \in Nat /\ \A x \in ids : \E i \in 1..n : o[i] = x
    BY IdsOrdered
<1>2. o \in Seq(Int) /\ Len(o) = n /\ \A i \in 1..n : o[i] \in Int
  <2> HIDE DEF o, n
  <2>1. o \in [1..n -> Int] /\ n \in Nat
    BY <1>1
  <2> QED BY <2>1
<1>3. Facts!Batches(ids) = B
    BY <1>2 DEF Facts!Batches
<1>4. N \in Nat
  <2>1. n + b - 1 \in Nat
    BY <1>1
  <2> QED BY <2>1
<1> HIDE DEF o, n, N
<1>5. ASSUME NEW k \in 1..N
      PROVE  /\ lo(k) \in Nat \ {0} /\ hi(k) \in Int /\ hi(k) <= n
             /\ SubSeq(o, lo(k), hi(k)) \in Seq(Int)
             /\ Facts!ToSet(SubSeq(o, lo(k), hi(k))) = {o[i] : i \in lo(k)..hi(k)}
  <2>1. k \in Nat \ {0} /\ k - 1 \in Nat
    BY <1>4
  <2>2. (k - 1) * b \in Nat /\ k * b \in Int
    BY <2>1
  <2>3. lo(k) \in Nat \ {0} /\ hi(k) \in Int /\ hi(k) <= n
    BY <1>1, <2>2
  <2> HIDE DEF lo, hi
  <2> DEFINE s == SubSeq(o, lo(k), hi(k))
  <2>4. lo(k)..hi(k) \subseteq 1..n
    BY <1>1, <2>3
  <2>5. /\ s \in Seq(Int)
        /\ Len(s) = IF lo(k) <= hi(k) THEN hi(k) - lo(k) + 1 ELSE 0
        /\ \A j \in 1..Len(s) : s[j] = o[lo(k) + j - 1]
    BY <1>2, <2>3, <2>4
  <2> HIDE DEF s
  <2>6. DOMAIN s = 1..Len(s) /\ Len(s) \in Nat
    BY <2>5
  <2>7. {s[j] : j \in 1..Len(s)} = {o[i] : i \in lo(k)..hi(k)}
    <3>1. ASSUME NEW j \in 1..Len(s) PROVE s[j] \in {o[i] : i \in lo(k)..hi(k)}
      <4>1. lo(k) + j - 1 \in lo(k)..hi(k)
        BY <2>3, <2>5, <2>6
      <4> QED BY <2>5, <4>1
    <3>2. ASSUME NEW i \in lo(k)..hi(k) PROVE o[i] \in {s[j] : j \in 1..Len(s)}
      <4>1. i - lo(k) + 1 \in 1..Len(s) /\ lo(k) + (i - lo(k) + 1) - 1 = i
        BY <2>3, <2>5, <2>6
      <4> QED BY <2>5, <4>1
    <3> QED BY <3>1, <3>2
  <2>8. Facts!ToSet(s) = {s[j] : j \in 1..Len(s)}
    BY <2>6 DEF Facts!ToSet
  <2> QED BY <2>3, <2>5, <2>7, <2>8 DEF s
<1> HIDE DEF lo, hi
<1>6. B \in Seq(SUBSET Int) /\ Len(B) = N
  <2>1. \A k \in 1..N : B[k] \in SUBSET Int
    <3>1. ASSUME NEW k \in 1..N PROVE B[k] \in SUBSET Int
      <4>1. B[k] = {o[i] : i \in lo(k)..hi(k)} /\ lo(k)..hi(k) \subseteq 1..n
        BY <1>1, <1>5
      <4> QED BY <1>2, <4>1
    <3> QED BY <3>1
  <2>2. B \in [1..N -> SUBSET Int]
    BY <2>1
  <2> HIDE DEF B
  <2> QED BY <1>4, <2>2
<1>7. ASSUME NEW x \in ids PROVE \E k \in 1..N : x \in B[k]
  <2>1. PICK i \in 1..n : o[i] = x
    BY <1>1
  <2> DEFINE k == (i - 1) \div b + 1
  <2>2. k \in 1..N /\ (k - 1) * b + 1 <= i /\ i <= k * b
    BY <1>1, PieceOf DEF N
  <2> HIDE DEF k
  <2>3. i \in lo(k)..hi(k)
    <3>1. lo(k) <= i /\ i <= hi(k)
      BY <1>1, <2>2 DEF lo, hi
    <3> QED BY <1>5, <2>2, <3>1
  <2>4. x \in B[k]
    BY <1>5, <2>1, <2>2, <2>3
  <2> QED BY <2>2, <2>4
<1> HIDE DEF B
<1> QED BY <1>3, <1>6, <1>7

\* What the settings say of the rows that a feed is served.
LEMMA FeedConstants ==
  /\ \A f \in Feeds : \A R \in Pools[f] : IsFiniteSet(R) /\ \A r \in R : Facts!Numbered(f, r)
  /\ From \in Int /\ Until \in Int /\ DetailsSize \in Nat \ {0}
BY FeedSettings, FactsLibrary DEF Facts!FeedAssumption

\* The larger of two integers.
LEMMA LargerOfTwo ==
  ASSUME NEW a \in Int, NEW b \in Int
  PROVE  Facts!Max({a, b}) \in {a, b}
<1> DEFINE m == IF a >= b THEN a ELSE b
<1>1. m \in {a, b} /\ \A x \in {a, b} : m >= x
    OBVIOUS
<1>2. Facts!Max({a, b}) = CHOOSE x \in {a, b} : \A y \in {a, b} : x >= y
    BY DEF Facts!Max
<1> HIDE DEF m
<1> QED BY <1>1, <1>2

\* An incident is of a moment.
LEMMA ObservedThen ==
  ASSUME NEW r, Facts!Numbered("incidents", r)
  PROVE  Facts!ObservedAt(r) \in Int
<1> DEFINE T == Facts!Times(r)
<1>1. T \subseteq Int /\ T \subseteq {r.created, r.received, r.restored}
    BY DEF Facts!Times, Facts!Numbered
<1>2. IsFiniteSet({r.created, r.received, r.restored})
  <2>1. IsFiniteSet({} \cup {r.created})
    BY FS_EmptySet, FS_AddElement
  <2>2. IsFiniteSet(({} \cup {r.created}) \cup {r.received})
    BY <2>1, FS_AddElement
  <2>3. IsFiniteSet((({} \cup {r.created}) \cup {r.received}) \cup {r.restored})
    BY <2>2, FS_AddElement
  <2>4. (({} \cup {r.created}) \cup {r.received}) \cup {r.restored}
          = {r.created, r.received, r.restored}
    OBVIOUS
  <2> QED BY <2>3, <2>4
<1>3. T # {} => Facts!Max(T) \in Int
  <2> HIDE DEF T
  <2> SUFFICES ASSUME T # {} PROVE Facts!Max(T) \in Int
    OBVIOUS
  <2>1. IsFiniteSet(T)
    BY <1>1, <1>2, FS_Subset
  <2>2. \E x \in T : \A y \in T : x >= y
    BY <1>1, <2>1, GreatestOfFinite
  <2>3. Facts!Max(T) \in T
    BY <2>2 DEF Facts!Max
  <2> QED BY <1>1, <2>3
<1> QED BY <1>3 DEF Facts!ObservedAt, Facts!Retrieved

\* What a half hour of carbon becomes.
LEMMA CarbonSound ==
  ASSUME NEW f, NEW region, NEW r, NEW x \in Facts!Carbon(f, region, r)
  PROVE  /\ Facts!Storable(x) /\ x.value >= 0 /\ x.table \in {"carbon", "forecast"}
         /\ x.table = "carbon" => f # "carbonForecast"
         /\ x.table = "forecast" => f # "carbonHistory"
         /\ x.at = r.at
<1>1. CASE x = Facts!Estimate(region, r) /\ Facts!Estimates(f, r) /\ ~Facts!BadEstimate(f, r)
  BY <1>1 DEF Facts!Estimate, Facts!Estimates, Facts!BadEstimate, Facts!Reading, Facts!Storable,
              Facts!Usable
<1>2. CASE /\ x = Facts!Intensity(region, r) /\ Facts!Forecasts(f, r) /\ ~Facts!BadForecast(f, r)
           /\ Facts!Readable(r)
  BY <1>2 DEF Facts!Intensity, Facts!Forecasts, Facts!BadForecast, Facts!Reading, Facts!Storable,
              Facts!Usable, Facts!Readable
<1> QED BY <1>1, <1>2 DEF Facts!Carbon, Facts!Only

\* What an incident becomes.
LEMMA IncidentSound ==
  ASSUME NEW r, Facts!Numbered("incidents", r), NEW x \in Facts!Incident(r)
  PROVE  /\ Facts!Storable(x) /\ x.table = "incident" /\ x.place # "full"
         /\ Facts!Incident(r) = {x} /\ x.at = Facts!ObservedAt(r)
<1> DEFINE most == Facts!Max({Facts!Count(r.customers), Facts!Count(r.expected)})
<1>1. /\ Facts!Usable(Facts!Count(r.customers)) /\ Facts!Usable(Facts!Count(r.expected))
      /\ x.table = "incident" /\ x.place = Facts!Reduced(r.place) /\ Facts!Incident(r) = {x}
      /\ x.at = Facts!ObservedAt(r)
      /\ x.customers = most \/ x.customers = Facts!Count(r.customers)
  BY DEF Facts!Incident, Facts!Only
<1>2. Facts!Count(r.customers) \in Int /\ Facts!Count(r.expected) \in Int
  BY DEF Facts!Numbered, Facts!Count
<1>3. most \in {Facts!Count(r.customers), Facts!Count(r.expected)}
  BY <1>2, LargerOfTwo
<1>4. x.customers >= 0
  BY <1>1, <1>3 DEF Facts!Usable
<1> QED BY <1>1, <1>4 DEF Facts!Storable, Facts!Reduced

\* What any row becomes.
LEMMA FactSound ==
  ASSUME NEW f, NEW r, Facts!Numbered(f, r), NEW x \in Facts!FactsOf(f, r)
  PROVE  /\ Facts!Storable(x)
         /\ x.table \in {"demand", "forecast", "carbon"} => x.value >= 0
         /\ x.table = "carbon" => f # "carbonForecast"
         /\ f = "carbonHistory" => x.table = "carbon" /\ x.at \in Int
         /\ x.table = "incident" => x.place # "full"
<1>1. CASE f \in {"generation", "flows", "demand", "frequency", "demandForecast", "windForecast"}
  BY <1>1 DEF Facts!FactsOf, Facts!Generation, Facts!Flow, Facts!Demand, Facts!Frequency,
              Facts!DemandForecast, Facts!WindForecast, Facts!Forecast, Facts!Reading, Facts!Only,
              Facts!Storable
<1>2. CASE f = "warnings"
  BY <1>2 DEF Facts!FactsOf, Facts!Warning, Facts!Notice, Facts!Only, Facts!Storable, Facts!Numbered
<1>3. CASE f = "remit"
  BY <1>3 DEF Facts!FactsOf, Facts!Remit, Facts!Notice, Facts!Only, Facts!Storable, Facts!Numbered
<1>4. CASE f = "incidents"
  <2>1. x \in Facts!Incident(r)
    BY <1>4 DEF Facts!FactsOf
  <2> QED BY <1>4, <2>1, IncidentSound
<1>5. CASE f = "london"
  <2>1. PICK p \in r.periods : x \in Facts!Carbon("london", r.region, p)
    BY <1>5 DEF Facts!FactsOf, Facts!Region
  <2> QED BY <1>5, <2>1, CarbonSound
<1>6. CASE f \notin {"generation", "flows", "demand", "frequency", "demandForecast",
                     "windForecast", "warnings", "remit", "incidents", "london"}
  <2>1. x \in Facts!Carbon(f, "GB", r)
    BY <1>6 DEF Facts!FactsOf
  <2>2. f = "carbonHistory" => r.at \in Int
    BY DEF Facts!Numbered
  <2> QED BY <1>6, <2>1, <2>2, CarbonSound
<1> QED BY <1>1, <1>2, <1>3, <1>4, <1>5, <1>6

\* A row that is counted as unreadable is not another feed's.
LEMMA InvalidInScope ==
  ASSUME NEW f, NEW r, Facts!Invalid(f, r)
  PROVE  ~Facts!OutOfScope(f, r)
BY DEF Facts!Invalid, Facts!OutOfScope

\* The two feeds of one dataset share its rows out.
LEMMA SharedOut == \A r : Facts!OneTakes(r)
BY DEF Facts!OneTakes, Facts!Generation, Facts!Flow, Facts!Only

\* Of the incidents of one reference the newest is kept.
LEMMA NewestKept ==
  ASSUME NEW R, IsFiniteSet(R), \A r \in R : Facts!Numbered("incidents", r),
         NEW x \in Facts!Taken("incidents", R)
  PROVE  \E z \in Facts!Kept("incidents", Facts!Taken("incidents", R)) :
            Facts!RowKey(z) = Facts!RowKey(x)
<1> DEFINE F == Facts!Taken("incidents", R)
           C == {r \in R : \E y \in Facts!Incident(r) : Facts!RowKey(y) = Facts!RowKey(x)}
           earlier == {p \in C \X C : Facts!ObservedAt(p[1]) <= Facts!ObservedAt(p[2])}
<1>1. \A y : y \in F <=> \E r \in R : y \in Facts!Incident(r)
  BY DEF Facts!Taken, Facts!FactsOf
<1>2. IsFiniteSet(C) /\ C # {} /\ C \subseteq R
  <2>1. C # {} /\ C \subseteq R
    BY <1>1
  <2> HIDE DEF C
  <2> QED BY <2>1, FS_Subset
<1>3. \A r \in C : Facts!ObservedAt(r) \in Int
  BY <1>2, ObservedThen
<1>4. PICK m \in C : \A r \in C \ {m} : <<r, m>> \in earlier
  <2> HIDE DEF C
  <2>1. Total(earlier, C) /\ Transitive(earlier, C)
    BY <1>3 DEF Total, Transitive
  <2> HIDE DEF earlier
  <2> QED BY <1>2, <2>1, LastOfFinite
<1>5. ASSUME NEW r \in C PROVE Facts!ObservedAt(r) <= Facts!ObservedAt(m)
  <2>1. CASE r = m
    BY <1>3, <2>1
  <2>2. CASE r # m
    <3>1. <<r, m>> \in earlier
      BY <1>4, <2>2
    <3> QED BY <3>1
  <2> QED BY <2>1, <2>2
<1>6. PICK z \in Facts!Incident(m) : Facts!RowKey(z) = Facts!RowKey(x)
  OBVIOUS
<1>7. z \in F /\ z.at = Facts!ObservedAt(m)
  BY <1>1, <1>2, IncidentSound
<1>8. ASSUME NEW y \in F, Facts!RowKey(y) = Facts!RowKey(z) PROVE y.at <= z.at
  <2>1. PICK r \in R : y \in Facts!Incident(r)
    BY <1>1
  <2>2. r \in C
    BY <1>6, <1>8, <2>1
  <2>3. y.at = Facts!ObservedAt(r)
    BY <2>1, IncidentSound
  <2> QED BY <1>5, <1>7, <2>2, <2>3
<1> HIDE DEF F
<1> QED BY <1>6, <1>7, <1>8 DEF Facts!Kept, F

\* The trouble of a request is the same in both kinds of feed.
LEMMA SameRequests ==
  /\ Facts!Trouble => Whole!Trouble
  /\ Facts!Resting = Whole!Resting /\ Facts!Request("json") = Whole!Request("json")
  /\ Whole!Patient => Facts!Patient
BY DEF Facts!Trouble, Facts!Lost, Facts!Busy, Facts!Refused, Facts!Garbled, Facts!Scalar,
       Facts!Again, Facts!GaveUp, Facts!Backoff, Facts!Capped, Facts!Asking, Facts!None,
       Whole!Trouble, Whole!Lost, Whole!Busy, Whole!Refused, Whole!Garbled, Whole!Scalar,
       Whole!Again, Whole!GaveUp, Whole!Backoff, Whole!Capped, Whole!Asking, Whole!None,
       Facts!Resting, Whole!Resting, Facts!Request, Whole!Request, Facts!Patient, Whole!Patient

\* Every message that was listed has come, or is in a batch that is still to be asked for.
Coming ==
  \A r \in source : Facts!Reads(r.id) => r \in rows \/ \E k \in 1..Len(pending) : r.id \in pending[k]

FactInv ==
  /\ CallRight /\ feed \in Feeds /\ source \in Pools[feed] /\ moves \in Nat
  /\ IsFiniteSet(rows) /\ \A r \in rows : Facts!Numbered(feed, r)
  /\ pending \in Seq(SUBSET Int)
  /\ outcome # "asking" => call.state # "asking" /\ pending = <<>>
  /\ outcome = "asking" /\ pending = <<>> => rows = {}
  /\ pending # <<>> => feed = "remit"
  /\ feed = "remit" /\ moves = 0 /\ ~broken /\ (pending # <<>> \/ outcome \in {"ready", "stored"})
        => Coming
  /\ outcome = "stored" => ~broken

\* What is delivered of the rows of an answer.
LEMMA DeliveredHonest ==
  ASSUME FactInv,
         NEW D \in Facts!Deduplicated(Facts!Kept(feed, Facts!Taken(feed, rows)))
  PROVE  /\ \A x \in D : Facts!Storable(x) /\ Facts!Sound(feed, x)
         /\ \A r \in rows : \A x \in Facts!FactsOf(feed, r) :
              \/ /\ Cardinality({y \in D : Facts!RowKey(y) = Facts!RowKey(x)}) = 1
                 /\ \A y \in D :
                      feed = "incidents" /\ Facts!RowKey(y) = Facts!RowKey(x) => y.at >= x.at
              \/ feed = "carbonHistory" /\ x.at \notin From..(Until - 1)
<1> DEFINE F == Facts!Taken(feed, rows)
           K == Facts!Kept(feed, F)
           Same(x) == {y \in D : Facts!RowKey(y) = Facts!RowKey(x)}
<1>1. D \subseteq K /\ \A z \in K : Cardinality(Same(z)) = 1
  BY FactsLibrary DEF Facts!Deduplicated
<1>2. \A x : x \in F <=> \E r \in rows : x \in Facts!FactsOf(feed, r)
  BY DEF Facts!Taken
<1>3. K \subseteq F /\ (feed = "carbonHistory" => \A x \in K : From <= x.at /\ x.at < Until)
  BY DEF Facts!Kept
<1>4. /\ feed = "carbonHistory" => K = {x \in F : From <= x.at /\ x.at < Until}
      /\ feed = "incidents" =>
           K = {x \in F : \A y \in F : Facts!RowKey(y) = Facts!RowKey(x) => y.at <= x.at}
      /\ feed \notin {"carbonHistory", "incidents"} => K = F
  BY DEF Facts!Kept
<1>5. \A r \in rows : Facts!Numbered(feed, r)
  BY DEF FactInv
<1> HIDE DEF F, K
<1>6. ASSUME NEW x \in D PROVE Facts!Storable(x) /\ Facts!Sound(feed, x)
  <2>1. x \in K
    BY <1>1
  <2>2. PICK r \in rows : x \in Facts!FactsOf(feed, r)
    BY <1>2, <1>3, <2>1
  <2>3. Facts!Numbered(feed, r)
    BY <1>5
  <2> QED BY <1>3, <2>1, <2>2, <2>3, FactSound DEF Facts!Sound
<1>7. ASSUME NEW r \in rows, NEW x \in Facts!FactsOf(feed, r)
      PROVE  \/ /\ Cardinality(Same(x)) = 1
                /\ \A y \in D :
                     feed = "incidents" /\ Facts!RowKey(y) = Facts!RowKey(x) => y.at >= x.at
             \/ feed = "carbonHistory" /\ x.at \notin From..(Until - 1)
  <2>1. x \in F
    BY <1>2
  <2>2. CASE feed = "carbonHistory"
    <3>1. x.at \in Int
      BY <1>5, <2>2, FactSound
    <3>2. x \in K \/ x.at \notin From..(Until - 1)
      BY <1>4, <2>1, <2>2, <3>1, FeedConstants
    <3> QED BY <1>1, <2>2, <3>2
  <2>3. CASE feed = "incidents"
    <3>1. PICK z \in K : Facts!RowKey(z) = Facts!RowKey(x)
      <4>1. \A q \in rows : Facts!Numbered("incidents", q)
        BY <1>5, <2>3
      <4>2. IsFiniteSet(rows)
        BY DEF FactInv
      <4>3. x \in Facts!Taken("incidents", rows)
        BY <2>1, <2>3 DEF F
      <4>4. \E z \in Facts!Kept("incidents", Facts!Taken("incidents", rows)) :
               Facts!RowKey(z) = Facts!RowKey(x)
        BY <4>1, <4>2, <4>3, NewestKept
      <4> QED BY <2>3, <4>4 DEF K, F
    <3>2. Same(z) = Same(x)
      BY <3>1
    <3>3. ASSUME NEW y \in D, Facts!RowKey(y) = Facts!RowKey(x) PROVE y.at >= x.at
      <4>1. y \in K /\ y \in F
        BY <1>1, <1>3
      <4>2. x.at <= y.at
        BY <1>4, <2>1, <2>3, <3>3, <4>1
      <4> QED BY <4>2
    <3> HIDE DEF Same
    <3>4. Cardinality(Same(x)) = 1
      BY <1>1, <3>1, <3>2
    <3> QED BY <3>3, <3>4
  <2>4. CASE feed \notin {"carbonHistory", "incidents"}
    BY <1>1, <1>4, <2>1, <2>4
  <2> QED BY <2>2, <2>3, <2>4
<1> QED BY <1>6, <1>7

\* A fetch begins.
LEMMA FactStart == Facts!Init => FactInv /\ Facts!FeedHonest
<1> SUFFICES ASSUME Facts!Init PROVE FactInv /\ Facts!FeedHonest
  OBVIOUS
<1>1. /\ feed \in Feeds /\ source \in Pools[feed] /\ moves = 0 /\ pending = <<>> /\ rows = {}
      /\ broken = FALSE /\ outcome = "asking" /\ call = Whole!Request("json")
  BY SameRequests DEF Facts!Init
<1>2. CallRight
  BY <1>1, ClientSettings DEF CallRight, CallRecord, Whole!Request
<1>3. FactInv
  BY <1>1, <1>2, FS_EmptySet DEF FactInv
<1> QED BY <1>1, <1>2, <1>3, RightIsPatient, SameRequests, SharedOut DEF Facts!FeedHonest

\* What a request that is right says of the next state.
LEMMA NextPatient == CallRight' => Facts!Patient'
<1>1. CallRight => Facts!Patient
  BY RightIsPatient, SameRequests
<1> QED BY <1>1, PTL

\* A fetch that is under way has nothing to answer for.
LEMMA UnderWay ==
  ASSUME CallRight', outcome' \in {"asking", "ready"}
  PROVE  Facts!FeedHonest'
BY NextPatient, SharedOut DEF Facts!FeedHonest

\* The answer of a window.
LEMMA WindowAnswered == ASSUME FactInv, Facts!AnswerWindow PROVE FactInv' /\ Facts!FeedHonest'
<1>1. /\ call.state = "asking" /\ feed # "remit" /\ rows' = source /\ call' = Whole!Resting
      /\ outcome' = "ready"
      /\ UNCHANGED <<feed, source, moves, listed, pending, broken, stored>>
  BY SameRequests DEF Facts!AnswerWindow, Facts!Ready, Facts!Asking
<1>2. CallRight' /\ call'.state # "asking" /\ outcome = "asking"
  BY <1>1, FreshCall DEF Whole!Resting, FactInv
<1>3. IsFiniteSet(rows') /\ \A r \in rows' : Facts!Numbered(feed, r)
  BY <1>1, FeedConstants DEF FactInv
<1>4. pending = <<>>
  BY <1>1 DEF FactInv
<1>5. (\A r \in rows : Facts!Numbered(feed, r))'
  BY <1>1, <1>3 DEF Facts!Numbered
<1>6. FactInv'
  BY <1>1, <1>2, <1>3, <1>4, <1>5 DEF FactInv
<1> QED BY <1>1, <1>2, <1>6, UnderWay

\* The listing, and the batches of its messages.
LEMMA ListingAnswered == ASSUME FactInv, Facts!AnswerListing PROVE FactInv' /\ Facts!FeedHonest'
<1> DEFINE ids == {r.id : r \in source} \ {Facts!None, Facts!Odd}
<1>1. /\ call.state = "asking" /\ feed = "remit" /\ pending = <<>>
      /\ pending' = Facts!Batches(ids)
      /\ UNCHANGED <<feed, source, moves, rows, broken, stored>>
      /\ \/ pending' # <<>> /\ call' = Whole!Request("json") /\ outcome' = outcome
         \/ pending' = <<>> /\ source = {} /\ call' = Whole!Resting /\ outcome' = "ready"
         \/ pending' = <<>> /\ call' = Whole!Resting /\ outcome' = "schema"
  BY SameRequests DEF Facts!AnswerListing, Facts!Asking, Facts!Ready
<1>2. outcome = "asking" /\ rows = {}
  BY <1>1 DEF FactInv
<1>3. ids \subseteq Int /\ IsFiniteSet(ids)
  <2>1. IsFiniteSet(source) /\ \A r \in source : r.id \in Int
    BY <1>1, FeedConstants DEF FactInv, Facts!Numbered
  <2> DEFINE f == [r \in source |-> r.id]
             all == {r.id : r \in source}
  <2>2. f \in [source -> all] /\ \A y \in all : \E r \in source : f[r] = y
    OBVIOUS
  <2>3. f \in Surjection(source, all)
    BY <2>2 DEF Surjection
  <2> HIDE DEF f, all
  <2>4. IsFiniteSet(all)
    BY <2>1, <2>3, FS_Surjection
  <2>5. ids \subseteq all
    BY DEF all
  <2> HIDE DEF ids
  <2>6. IsFiniteSet(ids)
    BY <2>4, <2>5, FS_Subset
  <2> QED BY <2>1, <2>6 DEF ids
<1>4. /\ pending' \in Seq(SUBSET Int)
      /\ \A x \in ids : \E k \in 1..Len(pending') : x \in pending'[k]
  <2> HIDE DEF ids
  <2> QED BY <1>1, <1>3, BatchesCover, FeedConstants
<1>5. \A r \in source : Facts!Reads(r.id) => r.id \in ids
  BY DEF Facts!Reads
<1>6. Coming'
  BY <1>1, <1>4, <1>5 DEF Coming
<1>7. CallRight' /\ (call' = Whole!Resting => call'.state # "asking")
  BY <1>1, FreshCall DEF Whole!Resting
<1>8. FactInv'
  <2>1. (\A r \in rows : Facts!Numbered(feed, r))' /\ IsFiniteSet(rows')
    BY <1>1, <1>2, FS_EmptySet
  <2> HIDE DEF ids
  <2> QED BY <1>1, <1>2, <1>4, <1>6, <1>7, <2>1 DEF FactInv
<1>9. CASE outcome' \in {"asking", "ready"}
  BY <1>7, <1>8, <1>9, UnderWay
<1>10. CASE pending' = <<>> /\ outcome' = "schema"
  <2>1. ids = {}
    <3> HIDE DEF ids
    <3>1. 1..Len(pending') = {}
      BY <1>10
    <3> QED BY <1>4, <3>1
  <2>2. (rows = {} /\ \A r \in source : ~Facts!Reads(r.id))'
    BY <1>1, <1>2, <1>5, <2>1 DEF Facts!Reads
  <2> QED BY <1>7, <1>8, <1>10, <2>2, NextPatient, SharedOut DEF Facts!FeedHonest
<1> QED BY <1>1, <1>2, <1>8, <1>9, <1>10

\* The next batch, or the end.
LEMMA AfterBatch ==
  ASSUME FactInv, pending # <<>>, outcome = "asking", Facts!NextBatch, pending' = Tail(pending)
  PROVE  /\ pending' \in Seq(SUBSET Int) /\ CallRight' /\ outcome' \in {"asking", "ready"}
         /\ outcome' = "ready" => call'.state # "asking" /\ pending' = <<>>
         /\ outcome' = "asking" => pending' # <<>>
<1>1. pending \in Seq(SUBSET Int) /\ Len(pending) \in Nat \ {0} /\ pending' \in Seq(SUBSET Int)
      /\ Len(pending') = Len(pending) - 1
  BY DEF FactInv
<1>2. CASE Len(pending) > 1
  <2>1. call' = Whole!Request("json") /\ outcome' = "asking"
    BY <1>2, SameRequests DEF Facts!NextBatch
  <2>2. Len(pending') # 0
    <3> DEFINE n == Len(pending)
               k == Len(pending')
    <3>1. n \in Nat /\ k = n - 1 /\ n > 1
      BY <1>1, <1>2
    <3> HIDE DEF n, k
    <3>2. k # 0
      BY <3>1
    <3> QED BY <3>2 DEF k
  <2> QED BY <1>1, <2>1, <2>2, FreshCall, Len(<<>>) = 0
<1>3. CASE ~(Len(pending) > 1)
  <2>1. call' = Whole!Resting /\ outcome' = "ready"
    BY <1>3, SameRequests DEF Facts!NextBatch, Facts!Ready
  <2>2. Len(pending') = 0
    BY <1>1, <1>3
  <2>3. pending' = <<>>
    BY <1>1, <2>2
  <2> QED BY <1>1, <2>1, <2>3, FreshCall DEF Whole!Resting
<1> QED BY <1>2, <1>3

\* The details of a batch.
LEMMA DetailsAnswered == ASSUME FactInv, Facts!AnswerDetails PROVE FactInv' /\ Facts!FeedHonest'
<1>1. /\ call.state = "asking" /\ pending # <<>> /\ feed = "remit" /\ outcome = "asking"
      /\ rows' = rows \cup {r \in source : r.id \in Head(pending)} /\ pending' = Tail(pending)
      /\ UNCHANGED <<feed, source, moves, listed, broken, stored>> /\ Facts!NextBatch
  BY DEF Facts!AnswerDetails, Facts!Asking, FactInv
<1>2. /\ pending' \in Seq(SUBSET Int) /\ CallRight' /\ outcome' \in {"asking", "ready"}
      /\ outcome' = "ready" => call'.state # "asking" /\ pending' = <<>>
      /\ outcome' = "asking" => pending' # <<>>
  BY <1>1, AfterBatch
<1>3. IsFiniteSet(rows') /\ \A r \in rows' : Facts!Numbered(feed, r)
  <2>1. IsFiniteSet(source) /\ \A r \in source : Facts!Numbered(feed, r)
    BY FeedConstants DEF FactInv
  <2> DEFINE more == {r \in source : r.id \in Head(pending)}
  <2>2. more \subseteq source
    OBVIOUS
  <2> HIDE DEF more
  <2>3. IsFiniteSet(rows \cup more)
    BY <2>1, <2>2, FS_Subset, FS_Union DEF FactInv
  <2> QED BY <1>1, <2>1, <2>3 DEF FactInv, more
<1>4. (\A r \in rows : Facts!Numbered(feed, r))'
  BY <1>1, <1>3 DEF Facts!Numbered
<1>5. ASSUME moves' = 0, ~broken' PROVE Coming'
  <2>1. Coming
    BY <1>1, <1>5 DEF FactInv
  <2>2. /\ pending \in Seq(SUBSET Int) /\ Len(pending) \in Nat \ {0}
        /\ Len(Tail(pending)) = Len(pending) - 1 /\ Head(pending) = pending[1]
        /\ \A i \in 1..Len(Tail(pending)) : Tail(pending)[i] = pending[i + 1]
    BY <1>1 DEF FactInv
  <2>3. ASSUME NEW r \in source, Facts!Reads(r.id), r \notin rows'
        PROVE  \E k \in 1..Len(pending') : r.id \in pending'[k]
    <3>1. r \notin rows /\ r.id \notin Head(pending)
      BY <1>1, <2>3
    <3>2. PICK k \in 1..Len(pending) : r.id \in pending[k]
      BY <2>1, <2>3, <3>1 DEF Coming
    <3>3. k - 1 \in 1..Len(Tail(pending)) /\ (k - 1) + 1 = k
      BY <2>2, <3>1, <3>2
    <3>4. r.id \in Tail(pending)[k - 1]
      BY <2>2, <3>2, <3>3
    <3> QED BY <1>1, <3>3, <3>4
  <2>4. \A r \in source : Facts!Reads(r.id) => r \in rows' \/ \E k \in 1..Len(pending') : r.id \in pending'[k]
    BY <2>3
  <2> QED BY <1>1, <2>4 DEF Coming, Facts!Reads
<1>6. FactInv'
  BY <1>1, <1>2, <1>3, <1>4, <1>5 DEF FactInv
<1> QED BY <1>2, <1>6, UnderWay

\* An answer of another shape.
LEMMA OddlyAnswered == ASSUME FactInv, Facts!AnswerOddly PROVE FactInv' /\ Facts!FeedHonest'
<1>1. /\ call.state = "asking" /\ outcome = "asking" /\ broken' = TRUE
      /\ UNCHANGED <<feed, source, moves, listed, rows, stored>>
  BY DEF Facts!AnswerOddly, Facts!Asking, FactInv
<1>2. (\A r \in rows : Facts!Numbered(feed, r))' /\ IsFiniteSet(rows')
  BY <1>1 DEF FactInv
<1>3. CASE pending # <<>>
  <2>1. pending' = Tail(pending) /\ Facts!NextBatch
    BY <1>3 DEF Facts!AnswerOddly
  <2>2. /\ pending' \in Seq(SUBSET Int) /\ CallRight' /\ outcome' \in {"asking", "ready"}
        /\ outcome' = "ready" => call'.state # "asking" /\ pending' = <<>>
        /\ outcome' = "asking" => pending' # <<>>
    BY <1>1, <1>3, <2>1, AfterBatch
  <2>3. FactInv'
    BY <1>1, <1>2, <1>3, <2>2 DEF FactInv
  <2> QED BY <2>2, <2>3, UnderWay
<1>4. CASE pending = <<>>
  <2>1. call' = Whole!Resting /\ outcome' = "schema" /\ pending' = <<>>
    BY <1>4, SameRequests DEF Facts!AnswerOddly
  <2>2. CallRight' /\ call'.state # "asking"
    BY <2>1, FreshCall DEF Whole!Resting
  <2>3. FactInv'
    BY <1>1, <1>2, <2>1, <2>2 DEF FactInv
  <2> QED BY <1>1, <2>1, <2>2, <2>3, NextPatient, SharedOut DEF Facts!FeedHonest
<1> QED BY <1>3, <1>4

\* A delivery.
LEMMA Delivered == ASSUME FactInv, Facts!Deliver PROVE FactInv' /\ Facts!FeedHonest'
<1>1. /\ outcome = "ready"
      /\ UNCHANGED <<call, feed, source, moves, listed, pending, rows, broken>>
  BY DEF Facts!Deliver
<1>2. CallRight' /\ (\A r \in rows : Facts!Numbered(feed, r))' /\ Facts!Patient'
  <2>1. CallRight'
    BY <1>1 DEF CallRight, FactInv
  <2>2. (\A r \in rows : Facts!Numbered(feed, r))'
    BY <1>1 DEF FactInv
  <2> QED BY <2>1, <2>2, NextPatient
<1>3. CASE broken \/ Facts!SchemaError(feed, rows)
  <2>1. outcome' = "schema"
    BY <1>3 DEF Facts!Deliver
  <2>2. FactInv'
    BY <1>1, <1>2, <2>1 DEF FactInv
  <2>3. Facts!SchemaError(feed, rows) =>
          /\ Facts!Taken(feed, rows) = {}
          /\ feed = "incidents" \/ \E r \in rows : ~Facts!OutOfScope(feed, r)
    BY InvalidInScope DEF Facts!SchemaError
  <2>4. /\ Facts!Taken(feed, rows)' = Facts!Taken(feed, rows)
        /\ (\E r \in rows : ~Facts!OutOfScope(feed, r)) => (\E r \in rows : ~Facts!OutOfScope(feed, r))'
    BY <1>1
  <2>5. (\/ broken
         \/ /\ Facts!Taken(feed, rows) = {}
            /\ feed = "incidents" \/ \E r \in rows : ~Facts!OutOfScope(feed, r))'
    BY <1>1, <1>3, <2>3, <2>4
  <2> QED BY <1>2, <2>1, <2>2, <2>5, SharedOut DEF Facts!FeedHonest
<1>4. CASE ~(broken \/ Facts!SchemaError(feed, rows))
  <2>1. PICK D \in Facts!Deduplicated(Facts!Kept(feed, Facts!Taken(feed, rows))) :
           IF \A x \in D : Facts!Storable(x) THEN stored' = D /\ outcome' = "stored"
           ELSE outcome' = "rejected" /\ UNCHANGED stored
    BY <1>4 DEF Facts!Deliver
  <2>2. /\ \A x \in D : Facts!Storable(x) /\ Facts!Sound(feed, x)
        /\ \A r \in rows : \A x \in Facts!FactsOf(feed, r) :
             \/ /\ Cardinality({y \in D : Facts!RowKey(y) = Facts!RowKey(x)}) = 1
                /\ \A y \in D :
                     feed = "incidents" /\ Facts!RowKey(y) = Facts!RowKey(x) => y.at >= x.at
             \/ feed = "carbonHistory" /\ x.at \notin From..(Until - 1)
    BY DeliveredHonest
  <2>3. stored' = D /\ outcome' = "stored"
    BY <2>1, <2>2
  <2>4. FactInv'
    <3>1. feed = "remit" /\ moves = 0 => Coming
      BY <1>1, <1>4 DEF FactInv
    <3>2. feed = "remit" /\ moves = 0 => Coming'
      BY <1>1, <3>1 DEF Coming
    <3> QED BY <1>1, <1>2, <1>4, <2>3, <3>2 DEF FactInv
  <2>5. ASSUME feed = "remit", moves = 0, NEW r \in source, Facts!Remit(r) # {}
        PROVE  \E x \in D : Facts!RowKey(x) \in {Facts!RowKey(y) : y \in Facts!Remit(r)}
    <3>1. Coming /\ pending = <<>>
      BY <1>1, <1>4, <2>5 DEF FactInv
    <3>2. Facts!Reads(r.id)
      BY <2>5 DEF Facts!Remit, Facts!Only
    <3>3. r \in rows
      <4>1. 1..Len(<<>>) = {}
        OBVIOUS
      <4> QED BY <3>1, <3>2, <4>1 DEF Coming
    <3>4. PICK x \in Facts!Remit(r) : TRUE
      BY <2>5
    <3>5. Facts!FactsOf(feed, r) = Facts!Remit(r)
      BY <2>5 DEF Facts!FactsOf
    <3> DEFINE S == {y \in D : Facts!RowKey(y) = Facts!RowKey(x)}
    <3>6. Cardinality(S) = 1
      BY <2>2, <2>5, <3>3, <3>4, <3>5
    <3>7. S # {}
      <4> HIDE DEF S
      <4> QED BY <3>6, FS_EmptySet
    <3> QED BY <3>4, <3>7
  <2>6. (/\ \A x \in stored : Facts!Sound(feed, x)
         /\ \A r \in rows : \A x \in Facts!FactsOf(feed, r) :
              \/ /\ Facts!Cardinality({y \in stored : Facts!RowKey(y) = Facts!RowKey(x)}) = 1
                 /\ \A y \in stored :
                      feed = "incidents" /\ Facts!RowKey(y) = Facts!RowKey(x) => y.at >= x.at
              \/ feed = "carbonHistory" /\ x.at \notin From..(Until - 1)
         /\ feed = "remit" /\ moves = 0 =>
              \A r \in source : Facts!Remit(r) # {} =>
                 \E x \in stored : Facts!RowKey(x) \in {Facts!RowKey(y) : y \in Facts!Remit(r)})'
    BY <1>1, <2>2, <2>3, <2>5, FactsLibrary
  <2> QED BY <1>2, <2>3, <2>4, <2>6, SharedOut DEF Facts!FeedHonest
<1> QED BY <1>3, <1>4

\* The source changes.
LEMMA SourceChanged == ASSUME FactInv, Facts!Change PROVE FactInv' /\ Facts!FeedHonest'
<1>1. /\ call.state = "asking" /\ outcome = "asking" /\ moves' = moves + 1
      /\ source' \in Pools[feed]
      /\ UNCHANGED <<call, feed, listed, pending, rows, broken, outcome, stored>>
  BY DEF Facts!Change, Facts!Asking, FactInv
<1>2. CallRight' /\ (\A r \in rows : Facts!Numbered(feed, r))' /\ moves' \in Nat \ {0}
  BY <1>1 DEF CallRight, FactInv
<1>3. FactInv'
  BY <1>1, <1>2 DEF FactInv
<1> QED BY <1>1, <1>2, <1>3, UnderWay

\* A failed attempt.
LEMMA AttemptFailed == ASSUME FactInv, Facts!Failing PROVE FactInv' /\ Facts!FeedHonest'
<1>1. /\ Whole!Trouble
      /\ UNCHANGED <<feed, source, moves, listed, pending, rows, broken, outcome, stored>>
  BY SameRequests DEF Facts!Failing
<1>2. CallRight' /\ call.state = "asking"
  BY <1>1, TroubleKeeps DEF FactInv
<1>3. outcome = "asking" /\ outcome' = "asking"
  BY <1>1, <1>2 DEF FactInv
<1>4. (\A r \in rows : Facts!Numbered(feed, r))' /\ (Coming => Coming')
  BY <1>1 DEF FactInv, Coming
<1>5. FactInv'
  BY <1>1, <1>2, <1>3, <1>4 DEF FactInv
<1> QED BY <1>2, <1>3, <1>5, UnderWay

\* Every step of a fetch.
LEMMA FactStep ==
  ASSUME FactInv, Facts!Next
  PROVE  FactInv' /\ Facts!FeedHonest'
BY WindowAnswered, ListingAnswered, DetailsAnswered, OddlyAnswered, SourceChanged, Delivered,
   AttemptFailed DEF Facts!Next

-----------------------------------------------------------------------------
(* The feeds in the composition. *)

FeedsHold ==
  /\ store # "feeds" => kind = Idle
  /\ store = "feeds" => \/ kind = "facts" /\ FactInv /\ Facts!FeedHonest
                        \/ kind = "snapshots" /\ WholeInv

\* In the composition the feeds keep their invariants.
LEMMA FeedsKept == StoresSpec => []FeedsHold
<1>1. StoresInit => FeedsHold
  <2> SUFFICES ASSUME StoresInit PROVE FeedsHold
    OBVIOUS
  <2>1. CASE store = "feeds"
    <3>1. FeedsInit
      BY <2>1 DEF StoresInit
    <3> QED BY <2>1, <3>1, FactStart, WholeStart DEF FeedsInit, FeedsHold
  <2>2. CASE store # "feeds"
    BY <2>2 DEF StoresInit, NoFeeds, FeedsHold
  <2> QED BY <2>1, <2>2
<1>2. FeedsHold /\ [StoresNext]_allvars => FeedsHold'
  <2> SUFFICES ASSUME FeedsHold, [StoresNext]_allvars PROVE FeedsHold'
    OBVIOUS
  <2>1. CASE store # "feeds"
    <3>1. store' = store /\ kind' = kind
      BY <2>1 DEF StoresNext, allvars, feedVars
    <3> QED BY <2>1, <3>1 DEF FeedsHold
  <2>2. CASE store = "feeds" /\ FeedsNext /\ UNCHANGED store
    <3>1. kind' = kind
      BY <2>2 DEF FeedsNext
    <3>2. CASE kind = "facts"
      <4>1. FactInv /\ Facts!Next
        BY <2>2, <3>2 DEF FeedsNext, FeedsHold
      <4> QED BY <2>2, <3>1, <3>2, <4>1, FactStep DEF FeedsHold
    <3>3. CASE kind = "snapshots"
      <4>1. WholeInv /\ Whole!Next
        BY <2>2, <3>3 DEF FeedsNext, FeedsHold
      <4> QED BY <2>2, <3>1, <3>3, <4>1, WholeStep DEF FeedsHold
    <3> QED BY <2>2, <3>2, <3>3 DEF FeedsHold
  <2>3. CASE UNCHANGED <<store, feedVars>>
    <3>1. FactInv => FactInv'
      BY <2>3 DEF feedVars, factVars, FactInv, CallRight, Coming
    <3>2. ASSUME WholeInv PROVE WholeInv'
      <4>1. UNCHANGED <<call, feed, source, rows, outcome, listing, cached, scope, left>>
        BY <2>3 DEF feedVars, wholeVars
      <4>2. CallRight' /\ (feed = "sites" => FileChosen')
        BY <3>2, <4>1 DEF WholeInv, CallRight, FileChosen
      <4>3. outcome \in {"asking", "ready"} /\ feed # "sites" => (\A r \in rows : Whole!Whole(r))'
        BY <3>2, <4>1 DEF WholeInv, Whole!Whole, Whole!Unit, Whole!Segment, Whole!Energy
      <4>4. ASSUME feed = "settled", outcome \in {"asking", "ready"}
            PROVE  \E n \in Int : DaysRead(n)'
        <5>1. PICK n \in Int : DaysRead(n)
          BY <3>2, <4>4 DEF WholeInv
        <5>2. DaysRead(n)'
          BY <4>1, <5>1 DEF DaysRead
        <5> QED BY <5>2
      <4> QED BY <3>2, <4>1, <4>2, <4>3, <4>4 DEF WholeInv
    <3>3. Facts!FeedHonest => Facts!FeedHonest'
      BY <2>3 DEF feedVars, factVars, Facts!FeedHonest, Facts!Patient
    <3> QED BY <2>3, <3>1, <3>2, <3>3 DEF FeedsHold, feedVars
  <2> QED BY <2>1, <2>2, <2>3 DEF StoresNext, allvars
<1> QED BY <1>1, <1>2, PTL DEF StoresSpec

\* SourceFeeds, FeedHonest: for any rows, windows, batch sizes, retries and changes of the
\* source, a fetch stores every usable row of its answers, once, and asks for the details
\* of every message that was listed (elexon.py, neso_carbon.py, ukpn.py).
THEOREM FeedsHonest == StoresSpec => []FeedHonest
<1>1. FeedsHold => FeedHonest
  BY DEF FeedsHold, FeedHonest, Idle
<1> QED BY <1>1, FeedsKept, PTL

\* SnapshotFeeds, SnapshotsWhole: whatever is served, listed, lost, refused or remembered, an
\* entry leaves a table only for an answer that was understood whole, and what is stored is
\* all of what was asked for (assets/adapters.py, geography/adapters.py).
THEOREM OnlyWholeRetires == StoresSpec => SnapshotsWhole
<1>1. FeedsHold /\ [StoresNext]_allvars => [kind = "snapshots" => Whole!SnapshotsWhole]_feedVars
  <2> SUFFICES ASSUME FeedsHold, [StoresNext]_allvars, feedVars' # feedVars, kind = "snapshots"
               PROVE  Whole!SnapshotsWhole
    OBVIOUS
  <2>1. store = "feeds" /\ WholeInv
    BY DEF FeedsHold, Idle
  <2>2. FeedsNext
    BY <2>1 DEF StoresNext, allvars
  <2>3. Whole!Next
    BY <2>2 DEF FeedsNext
  <2> QED BY <2>1, <2>3, WholeAction
<1> QED BY <1>1, FeedsKept, PTL DEF StoresSpec, SnapshotsWhole
=============================================================================
