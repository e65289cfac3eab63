------------------------- MODULE RevisionLedgerProofs -------------------------
(***************************************************************************)
(* What a revision ledger promises, proved for every set of identities,    *)
(* facts and delivery metadata.                                            *)
(*                                                                         *)
(* Contiguous is not inductive: that a finite set of revisions has a       *)
(* highest one would need an induction over the data.  The invariant       *)
(* instead says that every identity has a COUNT of revisions, of which a   *)
(* step knows the successor.                                               *)
(***************************************************************************)
EXTENDS RevisionLedger, TLAPS

\* The revision numbers stored for one identity.
Revs(L, i) == {r.rev : r \in Rows(L, i)}

Unique(L) == \A r, q \in L : r.id = q.id /\ r.rev = q.rev => r = q

Counted(L) == \E n \in [Ident -> Nat] : \A i \in Ident : Revs(L, i) = 0..(n[i] - 1)

\* Consecutive revisions state different facts.
Alternating(L) == \A r, q \in L : r.id = q.id /\ q.rev = r.rev + 1 => q.fact # r.fact

\* What every reachable ledger satisfies.
WellFormed(L) == L \subseteq Row /\ Unique(L) /\ Counted(L) /\ Alternating(L)

-----------------------------------------------------------------------------

\* An identity with n > 0 revisions has a latest one, and it is number n - 1.
LEMMA LatestIsHighest ==
    ASSUME NEW L \in SUBSET Row, NEW i \in Ident, NEW n \in Nat \ {0},
           Revs(L, i) = 0..(n - 1)
    PROVE  Latest(L, i) \in Rows(L, i) /\ Latest(L, i).rev = n - 1
<1>1. PICK r \in Rows(L, i) : r.rev = n - 1
  <2>1. n - 1 \in Revs(L, i)
    OBVIOUS
  <2> QED BY <2>1 DEF Revs
<1>2. \A q \in Rows(L, i) : q.rev \in 0..(n - 1)
    BY DEF Revs
<1>3. \A q \in Rows(L, i) : q.rev <= r.rev
    BY <1>1, <1>2
<1>4. /\ Latest(L, i) \in Rows(L, i)
      /\ \A q \in Rows(L, i) : q.rev <= Latest(L, i).rev
    BY <1>1, <1>3 DEF Latest
<1>5. Latest(L, i).rev \in 0..(n - 1)
    BY <1>2, <1>4
<1> QED BY <1>1, <1>4, <1>5

\* The number allocated next is the count, and no stored row has it.
LEMMA NextRevIsCount ==
    ASSUME NEW L \in SUBSET Row, NEW i \in Ident, NEW n \in Nat,
           Revs(L, i) = 0..(n - 1)
    PROVE  /\ NextRev(L, i) = n
           /\ \A r \in Rows(L, i) : r.rev < n
<1>1. \A r \in Rows(L, i) : r.rev \in 0..(n - 1)
    BY DEF Revs
<1>2. CASE n = 0
  <2>1. Rows(L, i) = {}
    BY <1>1, <1>2
  <2> QED BY <2>1, <1>2 DEF NextRev
<1>3. CASE n # 0
  <2>1. Rows(L, i) # {} /\ Latest(L, i).rev = n - 1
    BY <1>3, LatestIsHighest
  <2> QED BY <2>1, <1>1 DEF NextRev
<1> QED BY <1>2, <1>3

\* Every prepared row has the number its identity is counted at.
LEMMA PreparedRows ==
    ASSUME NEW L \in SUBSET Row, NEW n \in [Ident -> Nat],
           \A i \in Ident : Revs(L, i) = 0..(n[i] - 1),
           NEW p \in Payload, NEW d \in Delivery
    PROVE  /\ Prepared(L, p, d) \subseteq Row
           /\ \A q \in Prepared(L, p, d) :
                 /\ q.id \in Ident
                 /\ Changed(L, p, q.id)
                 /\ q = [id |-> q.id, rev |-> n[q.id], fact |-> p[q.id], seen |-> d]
           /\ \A i \in Ident : Changed(L, p, i) =>
                 [id |-> i, rev |-> n[i], fact |-> p[i], seen |-> d] \in Prepared(L, p, d)
<1>1. \A i \in Ident : NextRev(L, i) = n[i]
    BY NextRevIsCount
<1>2. \A i \in Ident : Changed(L, p, i) => p[i] \in Fact
    BY DEF Changed, Payload
<1> QED BY <1>1, <1>2 DEF Prepared, Row

\* A prepared batch never collides with the ledger it was prepared from.
THEOREM PreparedDoesNotConflict ==
    ASSUME NEW L, WellFormed(L), NEW p \in Payload, NEW d \in Delivery
    PROVE  ~Conflicts(L, Prepared(L, p, d))
<1>1. L \in SUBSET Row
    BY DEF WellFormed
<1>2. PICK n \in [Ident -> Nat] : \A i \in Ident : Revs(L, i) = 0..(n[i] - 1)
    BY DEF WellFormed, Counted
<1>3. /\ Prepared(L, p, d) \subseteq Row
      /\ \A q \in Prepared(L, p, d) :
            /\ q.id \in Ident
            /\ Changed(L, p, q.id)
            /\ q = [id |-> q.id, rev |-> n[q.id], fact |-> p[q.id], seen |-> d]
      /\ \A i \in Ident : Changed(L, p, i) =>
            [id |-> i, rev |-> n[i], fact |-> p[i], seen |-> d] \in Prepared(L, p, d)
    BY <1>1, <1>2, PreparedRows
<1>4. SUFFICES ASSUME NEW r \in L, NEW q \in Prepared(L, p, d),
                      r.id = q.id, r.rev = q.rev
               PROVE  FALSE
    BY DEF Conflicts
<1>5. q.id \in Ident /\ q.rev = n[q.id]
    BY <1>3
<1>6. r \in Rows(L, q.id)
    BY <1>4 DEF Rows
<1>7. r.rev < n[q.id]
    BY <1>1, <1>2, <1>5, <1>6, NextRevIsCount
<1>8. n[q.id] \in Nat
    BY <1>5
<1> QED BY <1>4, <1>5, <1>7, <1>8

\* Inserting a prepared batch keeps the ledger well formed.
LEMMA AppendWellFormed ==
    ASSUME NEW L, WellFormed(L), NEW p \in Payload, NEW d \in Delivery
    PROVE  WellFormed(L \cup Prepared(L, p, d))
<1> DEFINE P == Prepared(L, p, d)
           M == L \cup P
<1>1. L \in SUBSET Row /\ Unique(L) /\ Alternating(L)
    BY DEF WellFormed
<1>2. PICK n \in [Ident -> Nat] : \A i \in Ident : Revs(L, i) = 0..(n[i] - 1)
    BY DEF WellFormed, Counted
<1>3. /\ P \subseteq Row
      /\ \A q \in P : /\ q.id \in Ident
                      /\ Changed(L, p, q.id)
                      /\ q = [id |-> q.id, rev |-> n[q.id], fact |-> p[q.id], seen |-> d]
      /\ \A i \in Ident : Changed(L, p, i) =>
            [id |-> i, rev |-> n[i], fact |-> p[i], seen |-> d] \in P
    BY <1>1, <1>2, PreparedRows
<1>4. \A r \in L : r.id \in Ident /\ r.rev \in Nat /\ r \in Rows(L, r.id)
    BY <1>1 DEF Row, Rows
<1>5. \A r \in L : r.rev < n[r.id]
    BY <1>1, <1>2, <1>4, NextRevIsCount
<1>6. M \subseteq Row
    BY <1>1, <1>3
<1>7. Unique(M)
  <2> SUFFICES ASSUME NEW r \in M, NEW q \in M, r.id = q.id, r.rev = q.rev
               PROVE  r = q
    BY DEF Unique
  <2>1. CASE r \in L /\ q \in L
    BY <2>1, <1>1 DEF Unique
  <2>2. CASE r \in P /\ q \in P
    BY <2>2, <1>3
  <2>3. CASE r \in L /\ q \in P
    <3>1. q.rev = n[q.id]
      BY <2>3, <1>3
    <3> QED BY <3>1, <2>3, <1>5, <1>4
  <2>4. CASE r \in P /\ q \in L
    <3>1. r.rev = n[q.id]
      BY <2>4, <1>3
    <3>2. q.rev < n[q.id] /\ q.rev \in Nat /\ n[q.id] \in Nat
      BY <2>4, <1>4, <1>5
    <3> QED BY <3>1, <3>2
  <2> QED BY <2>1, <2>2, <2>3, <2>4
<1>8. Counted(M)
  <2> DEFINE m == [i \in Ident |-> IF Changed(L, p, i) THEN n[i] + 1 ELSE n[i]]
  <2>1. m \in [Ident -> Nat]
    OBVIOUS
  <2>2. ASSUME NEW i \in Ident PROVE Revs(M, i) = 0..(m[i] - 1)
    <3>1. Revs(L, i) = 0..(n[i] - 1) /\ n[i] \in Nat
      BY <1>2
    <3>2. CASE Changed(L, p, i)
      <4>1. [id |-> i, rev |-> n[i], fact |-> p[i], seen |-> d] \in P
        BY <3>2, <1>3
      <4>2. \A r \in Rows(M, i) : r \in Rows(L, i) \/ r.rev = n[i]
        BY <1>3 DEF Rows
      <4>3. Revs(M, i) = Revs(L, i) \cup {n[i]}
        <5>1. Revs(M, i) \subseteq Revs(L, i) \cup {n[i]}
          BY <4>2 DEF Revs
        <5>2. Revs(L, i) \subseteq Revs(M, i)
          BY DEF Revs, Rows
        <5>3. n[i] \in Revs(M, i)
          BY <4>1 DEF Revs, Rows
        <5> QED BY <5>1, <5>2, <5>3
      <4>4. m[i] = n[i] + 1
        BY <3>2
      <4>5. 0..(m[i] - 1) = 0..(n[i] - 1) \cup {n[i]}
        BY <3>1, <4>4
      <4> QED BY <4>3, <4>5, <3>1
    <3>3. CASE ~Changed(L, p, i)
      <4>1. Rows(M, i) = Rows(L, i)
        BY <3>3, <1>3 DEF Rows
      <4> QED BY <4>1, <3>1, <3>3 DEF Revs
    <3> QED BY <3>2, <3>3
  <2> QED BY <2>1, <2>2 DEF Counted
<1>9. Alternating(M)
  <2> SUFFICES ASSUME NEW r \in M, NEW q \in M, r.id = q.id, q.rev = r.rev + 1
               PROVE  q.fact # r.fact
    BY DEF Alternating
  <2>1. CASE r \in L /\ q \in L
    BY <2>1, <1>1 DEF Alternating
  <2>2. CASE r \in P
    <3>1. r.rev = n[r.id] /\ q.rev = n[q.id] + 1 /\ n[q.id] \in Nat
      BY <2>2, <1>3
    <3>2. CASE q \in P
      BY <3>1, <3>2, <1>3
    <3>3. CASE q \in L
      BY <3>1, <3>3, <1>5
    <3> QED BY <3>2, <3>3
  <2>3. CASE r \in L /\ q \in P
    <3>1. q.id \in Ident /\ Changed(L, p, q.id) /\ q.fact = p[q.id] /\ q.rev = n[q.id]
      BY <2>3, <1>3
    <3>2. r \in Rows(L, q.id) /\ r.rev \in Nat /\ n[q.id] \in Nat \ {0}
      BY <2>3, <1>4, <3>1
    <3>3. Latest(L, q.id) \in Rows(L, q.id) /\ Latest(L, q.id).rev = n[q.id] - 1
      BY <3>1, <3>2, <1>1, <1>2, LatestIsHighest
    <3>4. Latest(L, q.id) = r
      BY <3>1, <3>2, <3>3, <1>1, <2>3 DEF Unique, Rows
    <3>5. Latest(L, q.id).fact # p[q.id]
      BY <3>1, <3>2 DEF Changed
    <3> QED BY <3>1, <3>4, <3>5
  <2> QED BY <2>1, <2>2, <2>3
<1> QED BY <1>6, <1>7, <1>8, <1>9 DEF WellFormed

\* An empty table is well formed.
LEMMA EmptyWellFormed == WellFormed({})
<1>1. [i \in Ident |-> 0] \in [Ident -> Nat]
    OBVIOUS
<1>2. \A i \in Ident : Revs({}, i) = 0..([j \in Ident |-> 0][i] - 1)
    BY DEF Revs, Rows
<1>3. Counted({})
    BY <1>1, <1>2 DEF Counted
<1> QED BY <1>3 DEF WellFormed, Unique, Alternating

\* The invariant of the ledger: reachable tables are well formed.
THEOREM LedgerWellFormed == Spec => []WellFormed(ledger)
<1>1. Init => WellFormed(ledger)
    BY EmptyWellFormed DEF Init
<1>2. WellFormed(ledger) /\ [Next]_ledger => WellFormed(ledger)'
    BY AppendWellFormed DEF Next, AppendRevisions
<1> QED BY <1>1, <1>2, PTL DEF Spec

\* A well-formed table numbers its revisions without a hole or a duplicate.
LEMMA WellFormedContiguous ==
    ASSUME WellFormed(ledger) PROVE Contiguous
<1>1. PICK n \in [Ident -> Nat] : \A i \in Ident : Revs(ledger, i) = 0..(n[i] - 1)
    BY DEF WellFormed, Counted
<1>2. ASSUME NEW r \in ledger, NEW k \in 0..r.rev
      PROVE  \E q \in ledger : q.id = r.id /\ q.rev = k
  <2>1. r.id \in Ident /\ r.rev \in Nat /\ r.rev \in Revs(ledger, r.id)
    BY DEF WellFormed, Row, Revs, Rows
  <2>2. k \in Revs(ledger, r.id)
    BY <1>1, <2>1
  <2> QED BY <2>2 DEF Revs, Rows
<1> QED BY <1>2 DEF Contiguous, WellFormed, Unique

\* Revisions are contiguous in every reachable table.
THEOREM LedgerContiguous == Spec => []Contiguous
<1>1. WellFormed(ledger) => Contiguous
    BY WellFormedContiguous
<1> QED BY <1>1, LedgerWellFormed, PTL

\* No revision repeats the facts of the one before it.
THEOREM LedgerNoEmptyRevision == Spec => []NoEmptyRevision
<1>1. WellFormed(ledger) => NoEmptyRevision
    BY DEF WellFormed, Alternating, NoEmptyRevision
<1> QED BY <1>1, LedgerWellFormed, PTL

\* Rows are never rewritten or removed.
THEOREM LedgerImmutable == Spec => Immutable
<1>1. [Next]_ledger => [ledger \subseteq ledger']_ledger
    BY DEF Next, AppendRevisions
<1> QED BY <1>1, PTL DEF Spec, Immutable
=============================================================================
