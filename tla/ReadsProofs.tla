----------------------------- MODULE ReadsProofs -----------------------------
(***************************************************************************)
(* Proofs about the read models of the public API: the notices, the        *)
(* present of the grid, the map of sites, the recent past, the verified    *)
(* forecasts, the materialized history.  Each part has an invariant of its *)
(* own, which holds while the reads are of that part.                      *)
(***************************************************************************)
EXTENDS MCReads, SequenceTheorems, Induction

(* The notices. *)

\* The library's operators are the same in this instance.
LEMMA NoticeLibrary ==
  /\ \A S : Notices!Cardinality(S) = Cardinality(S)
  /\ \A S : Notices!IsFiniteSet(S) <=> IsFiniteSet(S)
BY DEF Notices!Cardinality, Cardinality, Notices!IsFiniteSet, IsFiniteSet

-----------------------------------------------------------------------------
\* A notice is numbered by its source; a warning by none.
NoticeRow(n) ==
  /\ n.id \in Notices!Identity
  /\ n.rev \in Nat /\ n.key \in Nat /\ n.pub \in Int
  /\ n.window[1] \in Int /\ n.window[2] \in Int
  /\ n.id \in Remit => n.key = n.rev
  /\ n.id \in Warnings => n.rev = 0

\* The row of a newer notice of the same id: a higher number, or a later delivery of a
\* warning that keeps its publication time.
Beats(r, q) ==
  \/ r.notice.id \in Remit /\ r.notice.rev > q.notice.rev
  \/ /\ r.notice.id \in Warnings /\ r.notice.rev = q.notice.rev /\ r.notice.pub = q.notice.pub
     /\ r.ret > q.ret

\* The newest row of an id is of the notice that was told last.
OnTop(i) ==
  \E r \in rows : /\ r.notice = told[i] /\ told[i].id = i
                  /\ \A q \in rows \ {r} : q.notice.id = i => Beats(r, q)

NoticeTables ==
  /\ moment \in Int /\ deliveries \in Int
  /\ IsFiniteSet(served) /\ IsFiniteSet(rows)
  /\ \A n \in served : NoticeRow(n) /\ n.pub <= moment
  /\ \A n \in served : \A q \in served \ {n} :
       n.id = q.id => n.id \in Remit /\ n.key # q.key
  /\ \A r \in rows : /\ NoticeRow(r.notice) /\ r.notice.pub <= moment
                     /\ r.ret \in Int /\ r.ret < deliveries

\* A warning that was delivered is still served, under its publication time.
WarningsKept ==
  \A r \in rows : r.notice.id \in Warnings =>
     \E n \in served : n.id = r.notice.id /\ n.pub = r.notice.pub

ToldNewest ==
  /\ DOMAIN told = Notices!Identity
  /\ \A i \in Notices!Identity :
       IF told[i] = Notices!Unknown THEN \A r \in rows : r.notice.id # i ELSE OnTop(i)

\* What a briefing at the instant t holds of a notice.
Near(n, t) ==
  IF n.id \in Warnings THEN n.pub >= t - FreshFor
  ELSE n.window[1] <= t + Horizon /\ (n.window[2] # -1 => n.window[2] > t)
ActiveAt(n, t) ==
  /\ IF n.id \in Warnings THEN n.pub >= t - FreshFor
     ELSE n.window[1] <= t /\ (n.window[2] # -1 => n.window[2] > t)
  /\ n.id \in Remit => n.on
UpcomingAt(n, t) ==
  /\ n.id \in Remit /\ t < n.window[1] /\ n.window[1] <= t + Horizon
  /\ n.window[2] # -1 => n.window[2] > n.window[1]
  /\ n.on

\* The newest notices of all ids.
Ons == {told[i] : i \in {j \in Notices!Identity : told[j] # Notices!Unknown}}

BriefedAll ==
  briefed # Notices!NoBriefing =>
    /\ briefed.at \in Int /\ briefed.at <= moment
    /\ \A n \in Ons : Near(n, briefed.at) /\ (ActiveAt(n, briefed.at) \/ UpcomingAt(n, briefed.at))
                         => n \in briefed.list

NoticeInv == NoticeTables /\ WarningsKept /\ ToldNewest /\ BriefedAll

-----------------------------------------------------------------------------
\* The notices the source serves are in the shape of its rows.
LEMMA NoticeShape ==
  ASSUME NEW i \in Notices!Identity, NEW n \in Notices!Notice(i)
  PROVE  /\ n.id = i /\ n.rev \in Nat /\ n.key \in Nat /\ n.window[1] \in Int /\ n.window[2] \in Int
         /\ i \in Warnings => n.rev = 0
<1>1. n.window \in Windows /\ n.id = i /\ n.rev \in (IF i \in Remit THEN 1..MaxRevisions ELSE {0})
      /\ n.key \in 1..MaxRevisions
  BY DEF Notices!Notice
<1>2. i \in Warnings => i \notin Remit
  BY NoticeSettings DEF Notices!NoticeAssumption
<1>3. n.window[1] \in Int /\ n.window[2] \in Int
  BY <1>1, NoticeSettings DEF Notices!NoticeAssumption
<1>4. n.key \in Nat
  BY <1>1
<1>5. n.rev \in Nat
  <2>1. CASE i \in Remit
    <3>1. n.rev \in 1..MaxRevisions
      BY <1>1, <2>1
    <3> QED BY <3>1
  <2>2. CASE i \notin Remit
    BY <1>1, <2>2
  <2> QED BY <2>1, <2>2
<1>6. i \in Warnings => n.rev = 0
  BY <1>1, <1>2
<1> QED BY <1>1, <1>3, <1>4, <1>5, <1>6

\* At the start nothing is published, delivered, told or shown.
LEMMA NoticeStart == Notices!Init => NoticeInv
<1> SUFFICES ASSUME Notices!Init PROVE NoticeInv
    OBVIOUS
<1>1. NoticeTables
    BY FS_EmptySet DEF Notices!Init, NoticeTables
<1> QED BY <1>1 DEF Notices!Init, NoticeInv, WarningsKept, ToldNewest, BriefedAll

\* A publication changes what the source serves, and nothing that was delivered.
LEMMA PublishStep ==
  ASSUME NoticeInv, NEW i \in Notices!Identity, NEW n \in Notices!Notice(i),
         Notices!PublishRemit(n) \/ Notices!PublishWarning(n)
  PROVE  NoticeInv'
<1> DEFINE kept == IF i \in Remit THEN {q \in served : <<q.id, q.key>> # <<n.id, n.key>>}
                   ELSE {q \in served : q.id # n.id}
<1>0. UNCHANGED <<moment, rows, deliveries, told, briefed>>
    BY DEF Notices!PublishRemit, Notices!PublishWarning
<1>s. /\ n.id = i /\ n.rev \in Nat /\ n.key \in Nat /\ n.window[1] \in Int /\ n.window[2] \in Int
      /\ i \in Warnings => n.rev = 0
    BY NoticeShape
<1>r. i \in Remit <=> i \notin Warnings
    BY NoticeSettings DEF Notices!NoticeAssumption, Notices!Identity
<1>1. served' = kept \cup {n} /\ (i \in Remit => n.pub = moment /\ n.key = n.rev)
      /\ (i \in Warnings => IF \E q \in served : q.id = i THEN \A q \in served : q.id = i => n.pub = q.pub
                            ELSE n.pub = moment)
  <2>1. CASE Notices!PublishRemit(n)
    BY <2>1, <1>s, <1>r DEF Notices!PublishRemit
  <2>2. CASE Notices!PublishWarning(n)
    BY <2>2, <1>s, <1>r DEF Notices!PublishWarning
  <2> QED BY <2>1, <2>2
<1>2. n.pub \in Int /\ n.pub <= moment
  <2>1. \A q \in served : q.pub \in Int /\ q.pub <= moment
    BY DEF NoticeInv, NoticeTables, NoticeRow
  <2>2. moment \in Int
    BY DEF NoticeInv, NoticeTables
  <2> QED BY <1>1, <1>r, <2>1, <2>2
<1>3. NoticeRow(n)
  BY <1>1, <1>2, <1>s, <1>r DEF NoticeRow
<1>4. kept \subseteq served /\ \A q \in kept : q.id = n.id => i \in Remit /\ q.key # n.key
  BY <1>s
<1> HIDE DEF kept
<1>5. IsFiniteSet(served')
  BY <1>1, <1>4, FS_Subset, FS_AddElement DEF NoticeInv, NoticeTables
<1>6. NoticeTables'
  <2>1. \A m \in served' : \A q \in served' \ {m} : m.id = q.id => m.id \in Remit /\ m.key # q.key
    BY <1>1, <1>4, <1>s DEF NoticeInv, NoticeTables
  <2>2. \A m \in served' : NoticeRow(m) /\ m.pub <= moment
    BY <1>1, <1>2, <1>3, <1>4 DEF NoticeInv, NoticeTables
  <2> QED BY <1>0, <1>5, <2>1, <2>2 DEF NoticeInv, NoticeTables
<1>7. WarningsKept'
  <2> SUFFICES ASSUME NEW r \in rows, r.notice.id \in Warnings
               PROVE  \E m \in served' : m.id = r.notice.id /\ m.pub = r.notice.pub
      BY <1>0 DEF WarningsKept
  <2>1. PICK m \in served : m.id = r.notice.id /\ m.pub = r.notice.pub
    BY DEF NoticeInv, WarningsKept
  <2>2. CASE r.notice.id = i
    BY <1>1, <1>s, <2>1, <2>2
  <2>3. CASE r.notice.id # i
    BY <1>1, <1>s, <2>1, <2>3 DEF kept
  <2> QED BY <2>2, <2>3
<1>8. ToldNewest' /\ BriefedAll'
  BY <1>0 DEF NoticeInv, ToldNewest, OnTop, BriefedAll, Ons
<1> QED BY <1>6, <1>7, <1>8 DEF NoticeInv


\* A row that beats another is ranked before it, and not after it.
LEMMA BeatsRanks ==
  ASSUME NEW r, NEW q, Beats(r, q), NoticeRow(r.notice), NoticeRow(q.notice),
         r.ret \in Int, q.ret \in Int
  PROVE  Notices!Ranks(r, q) /\ ~Notices!Ranks(q, r)
<1> DEFINE a == <<r.notice.rev, r.notice.pub, r.ret, r.notice.key>>
           b == <<q.notice.rev, q.notice.pub, q.ret, q.notice.key>>
<1>1. /\ a[1] = r.notice.rev /\ a[2] = r.notice.pub /\ a[3] = r.ret
      /\ b[1] = q.notice.rev /\ b[2] = q.notice.pub /\ b[3] = q.ret
    OBVIOUS
<1>2. /\ a[1] \in Int /\ a[2] \in Int /\ a[3] \in Int
      /\ b[1] \in Int /\ b[2] \in Int /\ b[3] \in Int
    BY DEF NoticeRow
<1>3. a[1] > b[1] \/ (a[1] = b[1] /\ a[2] = b[2] /\ a[3] > b[3])
    BY <1>1 DEF Beats
<1>4. /\ Notices!Ranks(r, q) <=> \E i \in 1..4 : a[i] > b[i] /\ \A j \in 1..(i - 1) : a[j] = b[j]
      /\ Notices!Ranks(q, r) <=> \E i \in 1..4 : b[i] > a[i] /\ \A j \in 1..(i - 1) : b[j] = a[j]
    BY DEF Notices!Ranks
<1> HIDE DEF a, b
<1>5. 1 \in 1..4 /\ 3 \in 1..4 /\ \A j \in 1..(3 - 1) : j = 1 \/ j = 2
    OBVIOUS
<1>6. \A j \in 1..(1 - 1) : FALSE
    OBVIOUS
<1>7. Notices!Ranks(r, q)
    BY <1>3, <1>4, <1>5, <1>6
<1>8. ASSUME NEW i \in 1..4, b[i] > a[i], \A j \in 1..(i - 1) : b[j] = a[j] PROVE FALSE
  <2>1. i > 1 => b[1] = a[1]
    BY <1>8
  <2>2. i > 3 => b[3] = a[3]
    BY <1>8
  <2> QED BY <1>2, <1>3, <1>8, <2>1, <2>2
<1> QED BY <1>4, <1>7, <1>8

\* The newest row of an id is of the notice told last.
LEMMA FirstIsTold ==
  ASSUME NoticeInv, NEW i \in Notices!Identity, told[i] # Notices!Unknown
  PROVE  Notices!Known(i) # {} /\ Notices!First(Notices!Known(i)).notice = told[i] /\ told[i].id = i
<1>1. PICK r \in rows : /\ r.notice = told[i] /\ told[i].id = i
                        /\ \A q \in rows \ {r} : q.notice.id = i => Beats(r, q)
    BY DEF NoticeInv, ToldNewest, OnTop
<1>2. Notices!Known(i) = {q \in rows : q.notice.id = i}
    BY DEF NoticeInv, NoticeTables, Notices!Known
<1> DEFINE K == Notices!Known(i)
           top(q) == \A o \in K \ {q} : Notices!Ranks(q, o)
<1>3. r \in K /\ \A q \in K \ {r} : Notices!Ranks(r, q) /\ ~Notices!Ranks(q, r)
    BY <1>1, <1>2, BeatsRanks DEF NoticeInv, NoticeTables
<1>4. Notices!First(K) = CHOOSE q \in K : top(q)
    BY DEF Notices!First
<1> HIDE DEF K
<1>5. top(r) /\ \A q \in K : top(q) => q = r
    BY <1>3
<1> HIDE DEF top
<1>6. (CHOOSE q \in K : top(q)) = r
    BY <1>3, <1>5
<1>7. K # {}
    BY <1>3
<1> QED BY <1>1, <1>4, <1>6, <1>7 DEF K

\* An id of which nothing was told has no row.
LEMMA UnknownIsAbsent ==
  ASSUME NoticeInv, NEW i \in Notices!Identity
  PROVE  Notices!Known(i) # {} <=> told[i] # Notices!Unknown
<1>1. CASE told[i] = Notices!Unknown
    BY <1>1 DEF NoticeInv, ToldNewest, Notices!Known
<1> QED BY <1>1, FirstIsTold

\* A delivery carries the newest notice of an id, or leaves it on top.
LEMMA DeliverTold ==
  ASSUME NoticeInv, NEW W \in SUBSET served, Notices!Deliver(W), NEW i \in Notices!Identity
  PROVE  IF told'[i] = Notices!Unknown THEN \A r \in rows' : r.notice.id # i ELSE OnTop(i)'
<1> DEFINE mine == {n \in W : n.id = i}
           all == mine \cup ({told[i]} \ {Notices!Unknown})
           top == {n \in all : \A q \in all : q.rev <= n.rev}
           stay == {r \in rows : \A n \in W : <<r.notice.id, r.notice.key>> # <<n.id, n.key>>}
           fresh == {[notice |-> n, ret |-> deliveries] : n \in W}
<1>1. rows' = stay \cup fresh /\ deliveries \in Int
    BY DEF Notices!Deliver, Notices!Upserted, NoticeInv, NoticeTables
<1>2. told'[i] = IF all = {} THEN Notices!Unknown
                 ELSE IF top \cap W # {} THEN CHOOSE n \in top \cap W : TRUE ELSE told[i]
    BY DEF Notices!Deliver
<1>3. i \in Remit <=> i \notin Warnings
    BY NoticeSettings DEF Notices!NoticeAssumption, Notices!Identity
<1>4. \A r \in fresh : r.notice \in W /\ r.ret = deliveries
    OBVIOUS
<1>5. \A n \in W : NoticeRow(n) /\ n # Notices!Unknown
  <2>1. \A n \in W : NoticeRow(n)
    BY DEF NoticeInv, NoticeTables
  <2>2. Notices!Unknown.rev = -1
    BY DEF Notices!Unknown, Notices!None
  <2> QED BY <2>1, <2>2 DEF NoticeRow
<1>6. told[i] # Notices!Unknown => NoticeRow(told[i]) /\ told[i].id = i
    BY DEF NoticeInv, NoticeTables, ToldNewest, OnTop
<1>7. told[i] = Notices!Unknown => \A r \in rows : r.notice.id # i
    BY DEF NoticeInv, ToldNewest
<1>8. \A n \in all : n.id = i /\ n.rev \in Int /\ (i \in Warnings => n.rev = 0)
    BY <1>5, <1>6 DEF NoticeRow
<1>9. all # {} => top # {}
  <2> SUFFICES ASSUME all # {} PROVE top # {}
      OBVIOUS
  <2> DEFINE nums == {n.rev : n \in all}
  <2>1. IsFiniteSet(all)
    <3>1. IsFiniteSet(mine)
      <4>1. mine \subseteq served
        OBVIOUS
      <4> QED BY <4>1, FS_Subset DEF NoticeInv, NoticeTables
    <3>2. all = mine \/ all = mine \cup {told[i]}
      OBVIOUS
    <3> QED BY <3>1, <3>2, FS_AddElement
  <2>2. nums # {} /\ nums \subseteq Int
    BY <1>8
  <2>3. IsFiniteSet(nums)
    <3> DEFINE f == [n \in all |-> n.rev]
    <3>1. f \in Surjection(all, nums)
      BY DEF Surjection
    <3> QED BY <2>1, <3>1, FS_Surjection
  <2>4. PICK x \in nums : \A y \in nums : x >= y
    BY <2>2, <2>3, GreatestOfFinite
  <2>5. PICK n \in all : n.rev = x
    OBVIOUS
  <2>6. \A q \in all : q.rev <= n.rev
    BY <1>8, <2>4, <2>5
  <2> QED BY <2>6
<1>10. CASE mine = {}
  <2>1. \A r \in rows' : r.notice.id = i => r \in rows
    BY <1>1, <1>4, <1>10
  <2>2. \A r \in rows : r.notice.id = i => r \in rows'
    BY <1>1, <1>10
  <2>3. told'[i] = told[i]
    <3>1. told[i] # Notices!Unknown => told[i] \notin W
      BY <1>6, <1>10
    <3>2. all \cap W = {}
      BY <1>10, <3>1
    <3> QED BY <1>2, <3>2, <1>10
  <2> HIDE DEF mine, all, top, stay, fresh
  <2>4. CASE told[i] = Notices!Unknown
    BY <1>7, <2>1, <2>3, <2>4
  <2>5. CASE told[i] # Notices!Unknown
    <3>1. PICK r \in rows : /\ r.notice = told[i] /\ told[i].id = i
                            /\ \A q \in rows \ {r} : q.notice.id = i => Beats(r, q)
      BY <2>5 DEF NoticeInv, ToldNewest, OnTop
    <3> QED BY <2>1, <2>2, <2>3, <2>5, <3>1 DEF OnTop, Beats
  <2> QED BY <2>4, <2>5
<1>11. CASE mine # {} /\ top \cap W # {}
  <2>1. PICK n \in top \cap W : told'[i] = n
    BY <1>2, <1>11
  <2>2. n \in W /\ n.id = i /\ \A q \in all : q.rev <= n.rev
    BY <1>8, <2>1
  <2> DEFINE r == [notice |-> n, ret |-> deliveries]
  <2>3. r \in rows' /\ r.notice = n /\ r.ret = deliveries
    BY <1>1, <2>2
  <2>4. ASSUME NEW q \in fresh \ {r}, q.notice.id = i PROVE Beats(r, q)
    <3>1. q.notice \in W /\ q.notice # n /\ q.notice \in all
      BY <1>4, <2>4
    <3>2. i \in Remit /\ q.notice.key # n.key
      BY <2>2, <2>4, <3>1 DEF NoticeInv, NoticeTables
    <3>3. q.notice.rev <= n.rev /\ q.notice.rev # n.rev
      BY <1>5, <2>2, <2>4, <3>1, <3>2 DEF NoticeRow
    <3>4. q.notice.rev \in Int /\ n.rev \in Int
      BY <1>8, <2>1, <3>1
    <3> HIDE DEF all, mine, top, fresh
    <3> QED BY <2>2, <2>3, <3>2, <3>3, <3>4 DEF Beats
  <2>5. ASSUME NEW q \in stay, q.notice.id = i PROVE Beats(r, q)
    <3>1. q \in rows /\ NoticeRow(q.notice) /\ q.ret \in Int /\ q.ret < deliveries
      BY DEF NoticeInv, NoticeTables
    <3>2. told[i] # Notices!Unknown
      BY <1>7, <2>5, <3>1
    <3>3. PICK o \in rows : /\ o.notice = told[i] /\ told[i].id = i
                            /\ \A p \in rows \ {o} : p.notice.id = i => Beats(o, p)
      BY <3>2 DEF NoticeInv, ToldNewest, OnTop
    <3>4. told[i].rev <= n.rev /\ NoticeRow(told[i])
      BY <1>6, <2>2, <3>2
    <3>5. NoticeRow(n)
      BY <1>5, <2>2
    <3>6. CASE i \in Remit
      <4>1. q.notice.rev <= told[i].rev
        BY <1>3, <2>5, <3>1, <3>3, <3>4, <3>6 DEF Beats, NoticeRow
      <4>2. q.notice.key # n.key
        BY <2>2, <2>5
      <4>3. q.notice.rev # n.rev
        BY <2>2, <2>5, <3>1, <3>5, <3>6, <4>2 DEF NoticeRow
      <4>4. n.rev > q.notice.rev
        BY <3>1, <3>4, <3>5, <4>1, <4>3 DEF NoticeRow
      <4> QED BY <2>2, <2>3, <3>6, <4>4 DEF Beats
    <3>7. CASE i \in Warnings
      <4>1. PICK m \in served : m.id = q.notice.id /\ m.pub = q.notice.pub
        BY <2>5, <3>1, <3>7 DEF NoticeInv, WarningsKept
      <4>2. m = n
        BY <1>3, <2>2, <2>5, <3>7, <4>1 DEF NoticeInv, NoticeTables
      <4>3. n.rev = q.notice.rev
        BY <2>2, <2>5, <3>1, <3>5, <3>7 DEF NoticeRow
      <4>4. deliveries > q.ret
        BY <1>1, <3>1
      <4> QED BY <2>2, <2>3, <3>7, <4>1, <4>2, <4>3, <4>4 DEF Beats
    <3> QED BY <1>3, <3>6, <3>7
  <2>6. \A q \in rows' \ {r} : q.notice.id = i => Beats(r, q)
    BY <1>1, <2>4, <2>5
  <2>7. n # Notices!Unknown
    BY <1>5, <2>2
  <2> HIDE DEF r
  <2> QED BY <2>1, <2>2, <2>3, <2>6, <2>7 DEF OnTop, Beats
<1>12. CASE mine # {} /\ top \cap W = {}
  <2>1. told'[i] = told[i] /\ told[i] # Notices!Unknown /\ told[i] \in top
    <3>1. PICK n \in top : n \notin W
      BY <1>9, <1>12
    <3> QED BY <1>2, <1>12, <3>1
  <2>2. \A n \in mine : n.rev < told[i].rev
    <3> SUFFICES ASSUME NEW n \in mine, ~(n.rev < told[i].rev) PROVE n \in top \cap W
        BY <1>12
    <3>1. n \in W /\ n \in all
      OBVIOUS
    <3>2. \A q \in all : q.rev <= told[i].rev /\ q.rev \in Int /\ told[i].rev \in Int
      BY <1>8, <2>1
    <3>3. \A q \in all : q.rev <= n.rev
      BY <3>1, <3>2
    <3> QED BY <3>1, <3>3
  <2>3. i \in Remit
    <3>1. PICK n \in mine : TRUE
      BY <1>12
    <3>2. n.rev < told[i].rev /\ n \in all /\ told[i] \in all
      BY <2>1, <2>2
    <3> QED BY <1>3, <1>8, <3>2
  <2>4. PICK r \in rows : /\ r.notice = told[i] /\ told[i].id = i
                          /\ \A q \in rows \ {r} : q.notice.id = i => Beats(r, q)
    BY <2>1 DEF NoticeInv, ToldNewest, OnTop
  <2>5. r \in rows'
    <3> SUFFICES ASSUME NEW n \in W, <<r.notice.id, r.notice.key>> = <<n.id, n.key>> PROVE FALSE
        BY <1>1
    <3>1. n \in mine /\ n.key = told[i].key
      BY <2>4
    <3>2. n.rev = told[i].rev
      BY <1>5, <1>6, <2>1, <2>3, <3>1 DEF NoticeRow
    <3>3. n.rev \in Int
      BY <1>8, <3>1
    <3> QED BY <2>2, <3>1, <3>2, <3>3
  <2>6. \A q \in rows' \ {r} : q.notice.id = i => Beats(r, q)
    <3>1. \A q \in fresh : q.notice.id = i => q.notice \in mine
      BY <1>4
    <3>2. \A q \in fresh : q.notice.id = i => q.notice.rev < told[i].rev
      BY <2>2, <3>1
    <3>3. \A q \in fresh : q.notice.id = i => q.notice.rev \in Int
      BY <1>8, <3>1
    <3>4. told[i].rev \in Int
      BY <1>6, <2>1 DEF NoticeRow
    <3>5. \A q \in fresh : q.notice.id = i => Beats(r, q)
      BY <2>3, <2>4, <3>2, <3>3, <3>4 DEF Beats
    <3> QED BY <1>1, <2>4, <3>5
  <2> HIDE DEF mine, all, top, stay, fresh
  <2> QED BY <2>1, <2>4, <2>5, <2>6 DEF OnTop, Beats
<1> QED BY <1>10, <1>11, <1>12


\* A delivery leaves of every id a row that beats the others, of the notice told last.
LEMMA DeliverStep ==
  ASSUME NoticeInv, NEW W \in SUBSET served, Notices!Deliver(W)
  PROVE  NoticeInv'
<1> DEFINE fresh == {[notice |-> n, ret |-> deliveries] : n \in W}
<1>1. /\ rows' \subseteq rows \cup fresh /\ deliveries' = deliveries + 1
      /\ UNCHANGED <<moment, served>> /\ briefed' = Notices!NoBriefing
      /\ DOMAIN told' = Notices!Identity
    BY DEF Notices!Deliver, Notices!Upserted
<1>2. \A r \in fresh : r.notice \in W /\ r.notice \in served /\ r.ret = deliveries
    OBVIOUS
<1>3. IsFiniteSet(rows')
  <2> DEFINE f == [n \in W |-> [notice |-> n, ret |-> deliveries]]
  <2>1. f \in Surjection(W, fresh)
    BY DEF Surjection
  <2>2. IsFiniteSet(W)
    BY FS_Subset DEF NoticeInv, NoticeTables
  <2>3. IsFiniteSet(fresh)
    BY <2>1, <2>2, FS_Surjection
  <2> HIDE DEF fresh
  <2> QED BY <1>1, <2>3, FS_Subset, FS_Union DEF NoticeInv, NoticeTables
<1> HIDE DEF fresh
<1>4. NoticeTables'
  <2>1. deliveries \in Int
    BY DEF NoticeInv, NoticeTables
  <2>2. ASSUME NEW r \in rows'
        PROVE  /\ NoticeRow(r.notice) /\ r.notice.pub <= moment
               /\ r.ret \in Int /\ r.ret < deliveries'
    <3>1. CASE r \in rows
      <4>1. NoticeRow(r.notice) /\ r.notice.pub <= moment /\ r.ret \in Int /\ r.ret < deliveries
        BY <3>1 DEF NoticeInv, NoticeTables
      <4> QED BY <1>1, <2>1, <4>1
    <3>2. CASE r \in fresh
      <4>1. NoticeRow(r.notice) /\ r.notice.pub <= moment
        BY <1>2, <3>2 DEF NoticeInv, NoticeTables
      <4> QED BY <1>1, <1>2, <2>1, <3>2, <4>1
    <3> QED BY <1>1, <3>1, <3>2
  <2> QED BY <1>1, <1>3, <2>1, <2>2 DEF NoticeInv, NoticeTables
<1>5. WarningsKept'
    BY <1>1, <1>2 DEF NoticeInv, WarningsKept
<1>6. ToldNewest'
  <2>1. \A i \in Notices!Identity :
          IF told'[i] = Notices!Unknown THEN \A r \in rows' : r.notice.id # i ELSE OnTop(i)'
    BY DeliverTold
  <2>2. Notices!Unknown' = Notices!Unknown /\ Notices!Identity' = Notices!Identity
    BY DEF Notices!Unknown, Notices!Identity
  <2> QED BY <1>1, <2>1, <2>2 DEF ToldNewest
<1>7. BriefedAll'
  <2>1. Notices!NoBriefing' = Notices!NoBriefing
    BY DEF Notices!NoBriefing
  <2> QED BY <1>1, <2>1 DEF BriefedAll
<1> QED BY <1>4, <1>5, <1>6, <1>7 DEF NoticeInv

\* A notice is on at an instant as the reads compute it.
LEMMA ActiveNow == \A n : Notices!Active(n) <=> ActiveAt(n, moment)
BY DEF Notices!Active, Notices!InWindow, ActiveAt, Notices!None

\* The briefing ranks every row of an id.
LEMMA BriefedNow ==
  ASSUME NoticeInv
  PROVE  Notices!BriefingNotices =
           {n \in Ons : Near(n, moment) /\ (ActiveAt(n, moment) \/ UpcomingAt(n, moment))}
<1> DEFINE newest == {Notices!First(Notices!Known(i)).notice : i \in {j \in Notices!Identity : Notices!Known(j) # {}}}
           near(n) == IF n.id \in Warnings THEN n.pub >= moment - FreshFor
                      ELSE n.window[1] <= moment + Horizon /\ (n.window[2] # Notices!None => n.window[2] > moment)
<1>1. newest = Ons
  <2>1. \A i \in Notices!Identity : Notices!Known(i) # {} <=> told[i] # Notices!Unknown
    BY UnknownIsAbsent
  <2>2. \A i \in Notices!Identity :
           told[i] # Notices!Unknown => Notices!First(Notices!Known(i)).notice = told[i]
    BY FirstIsTold
  <2> QED BY <2>1, <2>2 DEF Ons
<1>2. \A n : Notices!Upcoming(n) <=> UpcomingAt(n, moment)
  BY DEF Notices!Upcoming, UpcomingAt, Notices!None
<1>3. \A n : near(n) <=> Near(n, moment)
  BY DEF Near, Notices!None
<1>4. Notices!BriefingNotices = {n \in newest : near(n) /\ (Notices!Active(n) \/ Notices!Upcoming(n))}
  BY DEF Notices!BriefingNotices
<1> HIDE DEF newest, near
<1> QED BY <1>1, <1>2, <1>3, <1>4, ActiveNow

\* A briefing lists what the stored rows say at its instant.
LEMMA BriefStep ==
  ASSUME NoticeInv, Notices!Brief
  PROVE  NoticeInv'
<1>1. /\ briefed' = [at |-> moment, list |-> Notices!BriefingNotices]
      /\ UNCHANGED <<moment, served, rows, deliveries, told>>
    BY DEF Notices!Brief
<1>2. briefed'.at = moment /\ briefed'.list = Notices!BriefingNotices
    BY <1>1
<1>3. moment \in Int
    BY DEF NoticeInv, NoticeTables
<1>4. BriefedAll'
    BY <1>1, <1>2, <1>3, BriefedNow DEF BriefedAll, Ons, Near, ActiveAt, UpcomingAt
<1>5. NoticeTables' /\ WarningsKept' /\ ToldNewest'
    BY <1>1 DEF NoticeInv, NoticeTables, WarningsKept, ToldNewest, OnTop
<1> QED BY <1>4, <1>5 DEF NoticeInv

\* Every step of the notices keeps the invariant.
LEMMA NoticeNext == NoticeInv /\ [Notices!Next]_Notices!vars => NoticeInv'
<1> SUFFICES ASSUME NoticeInv, [Notices!Next]_Notices!vars PROVE NoticeInv'
    OBVIOUS
<1>1. CASE Notices!Tick
  <2>1. moment' = moment + 1 /\ moment \in Int /\ UNCHANGED <<served, rows, deliveries, told, briefed>>
    BY <1>1 DEF Notices!Tick, NoticeInv, NoticeTables
  <2>2. NoticeTables'
    BY <2>1 DEF NoticeInv, NoticeTables, NoticeRow
  <2>3. BriefedAll'
    BY <2>1 DEF NoticeInv, BriefedAll, Ons, Near, ActiveAt, UpcomingAt
  <2> QED BY <2>1, <2>2, <2>3 DEF NoticeInv, WarningsKept, ToldNewest, OnTop
<1>2. CASE UNCHANGED Notices!vars
    BY <1>2 DEF Notices!vars, NoticeInv, NoticeTables, WarningsKept, ToldNewest, OnTop, BriefedAll, Ons
<1> QED BY <1>1, <1>2, BriefStep, PublishStep, DeliverStep DEF Notices!Next

-----------------------------------------------------------------------------
\* The order of the list: nothing is before itself, and before is transitive.
LEMMA ListedOrder ==
  ASSUME NEW N, \A n \in N : n.pub \in Int /\ n.id \in Notices!Identity
  PROVE  /\ \A n \in N : ~Notices!Listed(n, n)
         /\ \A n, q, m \in N : Notices!Listed(n, q) /\ Notices!Listed(q, m) => Notices!Listed(n, m)
<1>1. \A n \in N : n.id \in Remit <=> n.id \notin Warnings
  BY NoticeSettings DEF Notices!NoticeAssumption, Notices!Identity
<1>2. ASSUME NEW n \in N PROVE ~Notices!Listed(n, n)
  <2>1. n.pub \in Int
    OBVIOUS
  <2> QED BY <1>1, <2>1 DEF Notices!Listed
<1>3. ASSUME NEW n \in N, NEW q \in N, NEW m \in N, Notices!Listed(n, q), Notices!Listed(q, m)
      PROVE  Notices!Listed(n, m)
  <2>1. n.pub \in Int /\ q.pub \in Int /\ m.pub \in Int
    OBVIOUS
  <2>2. n.pub > q.pub /\ q.pub > m.pub => n.pub > m.pub
    BY <2>1
  <2> QED BY <1>1, <1>3, <2>2 DEF Notices!Listed
<1> QED BY <1>2, <1>3

\* The cap leaves out only what comes after a full list.
LEMMA CapIsFull ==
  ASSUME NEW N, IsFiniteSet(N), \A n \in N : n.pub \in Int /\ n.id \in Notices!Identity
  PROVE  LET shown == Notices!Capped(N)
         IN  \A n \in N \ shown : /\ Notices!Cardinality(shown) >= Cap
                                  /\ \A q \in shown : ~Notices!Listed(n, q)
<1> DEFINE before(n) == {q \in N : Notices!Listed(q, n)}
           count == [n \in N |-> Cardinality(before(n))]
           shown == Notices!Capped(N)
<1>1. shown = {n \in N : count[n] < Cap}
    BY NoticeLibrary DEF Notices!Capped
<1>2. Cap \in Nat
    BY NoticeSettings DEF Notices!NoticeAssumption
<1>3. \A n \in N : IsFiniteSet(before(n)) /\ count[n] \in Nat
    BY FS_Subset, FS_CardinalityType
<1>4. ASSUME NEW n \in N, NEW q \in N, Notices!Listed(n, q) PROVE count[n] < count[q]
  <2>1. before(n) \subseteq before(q) /\ n \in before(q) /\ n \notin before(n)
    BY <1>4, ListedOrder
  <2> HIDE DEF before
  <2>2. count[n] <= count[q] /\ (count[n] = count[q] => before(n) = before(q))
    BY <1>3, <2>1, FS_Subset
  <2>3. count[n] # count[q]
    BY <2>1, <2>2
  <2> HIDE DEF count
  <2> QED BY <1>3, <2>2, <2>3
<1> HIDE DEF shown, count
<1>5. ASSUME NEW n \in N \ shown, NEW q \in shown, Notices!Listed(n, q) PROVE FALSE
  <2>1. q \in N /\ count[q] < Cap /\ ~(count[n] < Cap)
    BY <1>1
  <2>2. count[n] \in Nat /\ count[q] \in Nat
    BY <1>3, <2>1
  <2>3. count[n] < count[q]
    BY <1>4, <1>5, <2>1
  <2> QED BY <1>2, <2>1, <2>2, <2>3
<1>6. ASSUME NEW n \in N \ shown PROVE Cardinality(shown) >= Cap
  <2> DEFINE counts == {count[m] : m \in N \ shown}
  <2>1. counts # {} /\ counts \subseteq Nat
    BY <1>3
  <2>2. PICK k \in counts : \A j \in counts : k <= j
    BY <2>1, LeastNatural
  <2>3. PICK m \in N \ shown : count[m] = k
    OBVIOUS
  <2>4. before(m) \subseteq shown
    <3> SUFFICES ASSUME NEW q \in N, Notices!Listed(q, m), q \notin shown PROVE FALSE
        OBVIOUS
    <3>1. count[q] < count[m]
      BY <1>4
    <3>2. count[m] <= count[q]
      BY <2>2, <2>3
    <3>3. count[m] \in Nat /\ count[q] \in Nat
      BY <1>3
    <3> QED BY <3>1, <3>2, <3>3
  <2>5. IsFiniteSet(shown)
    BY <1>1, FS_Subset
  <2>6. Cardinality(before(m)) <= Cardinality(shown)
    BY <2>4, <2>5, FS_Subset
  <2>7. Cardinality(before(m)) >= Cap
    BY <1>1, <1>2, <1>3, <2>3 DEF count
  <2>8. Cardinality(shown) \in Nat /\ Cardinality(before(m)) \in Nat
    BY <1>3, <2>5, FS_CardinalityType
  <2> QED BY <1>2, <2>6, <2>7, <2>8
<1> QED BY <1>5, <1>6, NoticeLibrary DEF shown

\* The invariant is what NoticesCurrent promises.
LEMMA NoticeEnd == NoticeInv => Notices!NoticesCurrent
<1> SUFFICES ASSUME NoticeInv PROVE Notices!NoticesCurrent
    OBVIOUS
<1> DEFINE due == {n \in Ons : Notices!Active(n)}
           hit(i) == \E r \in Notices!Known(i) : Notices!InWindow(r.notice)
           newest == {Notices!First(Notices!Candidates(i)).notice :
                        i \in {j \in Notices!Identity : Notices!Candidates(j) # {}}}
<1>1. \A i \in Notices!Identity : Notices!Candidates(i) = IF hit(i) THEN Notices!Known(i) ELSE {}
    BY DEF Notices!Candidates
<1>2. \A i \in Notices!Identity : Notices!Known(i) # {} =>
         told[i] # Notices!Unknown /\ Notices!First(Notices!Known(i)).notice = told[i]
    BY UnknownIsAbsent, FirstIsTold
<1>3. ASSUME NEW i \in Notices!Identity, told[i] # Notices!Unknown, Notices!Active(told[i]) PROVE hit(i)
  <2>1. Notices!Known(i) # {} /\ Notices!First(Notices!Known(i)).notice = told[i]
    BY <1>3, FirstIsTold
  <2>2. PICK r \in rows : /\ r.notice = told[i] /\ told[i].id = i
                          /\ \A q \in rows \ {r} : q.notice.id = i => Beats(r, q)
    BY <1>3 DEF NoticeInv, ToldNewest, OnTop
  <2>3. r \in Notices!Known(i)
    BY <2>2 DEF NoticeInv, NoticeTables, Notices!Known
  <2> QED BY <1>3, <2>2, <2>3 DEF Notices!Active
<1>4. {n \in newest : Notices!Active(n)} = due
  <2> HIDE DEF hit
  <2>1. ASSUME NEW n \in newest PROVE n \in Ons
    <3>1. PICK i \in Notices!Identity : Notices!Candidates(i) # {} /\ n = Notices!First(Notices!Candidates(i)).notice
      OBVIOUS
    <3>2. Notices!Candidates(i) = Notices!Known(i) /\ Notices!Known(i) # {}
      BY <1>1, <3>1
    <3> QED BY <1>2, <3>1, <3>2 DEF Ons
  <2>2. ASSUME NEW n \in due PROVE n \in newest
    <3>1. PICK i \in Notices!Identity : told[i] # Notices!Unknown /\ n = told[i]
      BY DEF Ons
    <3>2. hit(i)
      BY <1>3, <3>1
    <3>3. Notices!Candidates(i) = Notices!Known(i) /\ Notices!Known(i) # {}
          /\ Notices!First(Notices!Known(i)).notice = told[i]
      BY <1>1, <3>1, <3>2, FirstIsTold
    <3> QED BY <3>1, <3>3
  <2> HIDE DEF newest
  <2> QED BY <2>1, <2>2
<1>5. Notices!ActiveNotices = Notices!Capped(due)
  <2>1. Notices!ActiveNotices = Notices!Capped({n \in newest : Notices!Active(n)})
    BY DEF Notices!ActiveNotices
  <2> HIDE DEF newest, due
  <2> QED BY <1>4, <2>1
<1> HIDE DEF hit, newest
<1>6. \A n \in due : NoticeRow(n)
    BY DEF Ons, NoticeInv, NoticeTables, ToldNewest, OnTop
<1>7. IsFiniteSet(due)
  <2> DEFINE all == {r.notice : r \in rows}
             f == [r \in rows |-> r.notice]
  <2>1. f \in Surjection(rows, all)
    BY DEF Surjection
  <2>2. IsFiniteSet(all)
    BY <2>1, FS_Surjection DEF NoticeInv, NoticeTables
  <2>3. due \subseteq all
    BY DEF Ons, NoticeInv, NoticeTables, ToldNewest, OnTop
  <2> HIDE DEF all, due
  <2> QED BY <2>2, <2>3, FS_Subset
<1>8. Notices!Capped(due) \subseteq due
    BY DEF Notices!Capped
<1>9. Notices!ListIsNewest
  <2>1. \A n \in due : n.pub \in Int /\ n.id \in Notices!Identity
    BY <1>6 DEF NoticeRow
  <2> HIDE DEF due
  <2>2. \A n \in due \ Notices!Capped(due) :
           /\ Notices!Cardinality(Notices!Capped(due)) >= Cap
           /\ \A q \in Notices!Capped(due) : ~Notices!Listed(n, q)
    BY <1>7, <2>1, CapIsFull
  <2>3. /\ Notices!ActiveNotices \subseteq due
        /\ \A n \in due \ Notices!ActiveNotices :
              /\ Notices!Cardinality(Notices!ActiveNotices) >= Cap
              /\ \A q \in Notices!ActiveNotices : ~Notices!Listed(n, q)
    BY <1>5, <1>8, <2>2
  <2> QED BY <2>3 DEF Notices!ListIsNewest, due, Ons
<1>10. Notices!Foretold
  <2> SUFFICES ASSUME briefed # Notices!NoBriefing, NEW n \in Notices!ActiveNotices, n \notin briefed.list
               PROVE  n.window[1] > briefed.at + Horizon
      BY DEF Notices!Foretold
  <2>1. n \in Ons /\ ActiveAt(n, moment) /\ NoticeRow(n)
    BY <1>5, <1>6, <1>8, ActiveNow
  <2>2. briefed.at \in Int /\ briefed.at <= moment /\ moment \in Int /\ Horizon \in Nat /\ FreshFor \in Nat
    BY NoticeSettings DEF NoticeInv, NoticeTables, BriefedAll, Notices!NoticeAssumption
  <2>3. ~(Near(n, briefed.at) /\ (ActiveAt(n, briefed.at) \/ UpcomingAt(n, briefed.at)))
    BY <2>1 DEF NoticeInv, BriefedAll
  <2>4. n.id \in Remit <=> n.id \notin Warnings
    BY <2>1, NoticeSettings DEF NoticeRow, Notices!NoticeAssumption, Notices!Identity
  <2> DEFINE w == n.window
             at == briefed.at
  <2>5. w[1] \in Int /\ w[2] \in Int /\ n.pub \in Int /\ at \in Int
    BY <2>1, <2>2 DEF NoticeRow
  <2>6. n.id \notin Warnings
    BY <2>1, <2>2, <2>3, <2>4, <2>5 DEF Near, ActiveAt
  <2>7. w[1] <= moment /\ (w[2] # -1 => w[2] > moment) /\ n.on
    BY <2>1, <2>4, <2>6 DEF ActiveAt
  <2>8. w[1] <= at + Horizon => Near(n, at)
    BY <2>2, <2>5, <2>6, <2>7 DEF Near
  <2>9. w[1] <= at => ActiveAt(n, at)
    BY <2>2, <2>5, <2>6, <2>7 DEF ActiveAt
  <2>10. at < w[1] /\ w[1] <= at + Horizon => UpcomingAt(n, at)
    BY <2>2, <2>4, <2>5, <2>6, <2>7 DEF UpcomingAt
  <2> HIDE DEF w, at
  <2>11. ~(w[1] <= at + Horizon)
    BY <2>2, <2>3, <2>5, <2>8, <2>9, <2>10 DEF at
  <2> QED BY <2>2, <2>5, <2>11 DEF w, at
<1> QED BY <1>9, <1>10 DEF Notices!NoticesCurrent

\* The notices, while the reads are of the notices.
NoticesHold == reads = "notices" => NoticeInv

\* In the composition the notices keep their invariant.
LEMMA NoticesKept == ReadsSpec => []NoticesHold
<1>1. ReadsInit => NoticesHold
    BY NoticeStart DEF ReadsInit, NoticesHold
<1>2. NoticesHold /\ [ReadsNext]_readVars => NoticesHold'
  <2> SUFFICES ASSUME NoticesHold, [ReadsNext]_readVars, reads' = "notices" PROVE NoticeInv'
      BY DEF NoticesHold
  <2>1. CASE ReadsNext
    <3>1. reads = "notices" /\ Notices!Next
      BY <2>1 DEF ReadsNext
    <3> QED BY <3>1, NoticeNext DEF NoticesHold
  <2>2. CASE UNCHANGED readVars
    <3>1. UNCHANGED Notices!vars /\ reads = "notices"
      BY <2>2 DEF readVars, noticeVars, Notices!vars
    <3> QED BY <3>1, NoticeNext DEF NoticesHold
  <2> QED BY <2>1, <2>2
<1> QED BY <1>1, <1>2, PTL DEF ReadsSpec

\* NoticesCurrent: the list of active notices holds the newest notice delivered of exactly the
\* ids whose newest notice is on, up to the cap, and what it shows was in the briefing before
\* (persistence/reads.py:1085-1400, briefing/service.py).
THEOREM NoticesAreCurrent == ReadsSpec => []NoticesCurrent
<1>1. NoticesHold => NoticesCurrent
    BY NoticeEnd DEF NoticesHold, NoticesCurrent
<1> QED BY <1>1, NoticesKept, PTL

-----------------------------------------------------------------------------
(* The present of the grid. *)

\* The library's operators are the same in this instance.
LEMMA GridLibrary ==
  /\ \A S : Grid!Cardinality(S) = Cardinality(S)
  /\ \A S : Grid!IsFiniteSet(S) <=> IsFiniteSet(S)
BY DEF Grid!Cardinality, Cardinality, Grid!IsFiniteSet, IsFiniteSet

\* The greatest and the least of a finite set of numbers.
LEMMA GreatestIs ==
  ASSUME NEW S, S \subseteq Int, S # {}, IsFiniteSet(S)
  PROVE  Grid!Max(S) \in S /\ \A x \in S : x <= Grid!Max(S)
<1>1. PICK x \in S : \A y \in S : x >= y
  BY GreatestOfFinite
<1>2. Grid!Max(S) \in S /\ \A y \in S : Grid!Max(S) >= y
  BY <1>1 DEF Grid!Max
<1> QED BY <1>2

\* The least of finitely many integers is one of them and below all.
LEMMA LeastIs ==
  ASSUME NEW S, S \subseteq Int, S # {}, IsFiniteSet(S)
  PROVE  Grid!Min(S) \in S /\ \A x \in S : Grid!Min(S) <= x
<1> DEFINE N == {0 - x : x \in S}
           f == [x \in S |-> 0 - x]
<1>1. f \in Surjection(S, N)
  BY DEF Surjection
<1>2. IsFiniteSet(N)
  BY <1>1, FS_Surjection
<1>3. N \subseteq Int /\ N # {}
  <2>1. PICK x \in S : TRUE
    OBVIOUS
  <2>2. 0 - x \in N
    BY <2>1
  <2> QED BY <2>2
<1>4. PICK n \in N : \A m \in N : n >= m
  BY <1>2, <1>3, GreatestOfFinite
<1>5. PICK x \in S : n = 0 - x
  OBVIOUS
<1>6. \A y \in S : x <= y
  <2> SUFFICES ASSUME NEW y \in S PROVE x <= y
      OBVIOUS
  <2>1. 0 - y \in N
    OBVIOUS
  <2>2. n >= 0 - y /\ x \in Int /\ y \in Int
    BY <1>4, <2>1
  <2> QED BY <1>5, <2>2
<1> QED BY <1>6 DEF Grid!Min

-----------------------------------------------------------------------------
GridRows == [fam : Grid!Families, series : Fuels \cup Ties \cup {"gb"}, at : Int, rev : Int, ret : Int]

\* The family of a statement.
OfPart == <<"generation", "demand", "frequency", "interconnectors", "carbon">>

\* A reading of which nothing that was stored before the request is newer.
Covered(r, P) ==
  \E q \in P : \/ q.series = r.series /\ ~Grid!Newer(r, q)
               \/ r.fam = "generation" /\ q.at > r.at

\* What a statement of the request returned.
PartHolds(n, P, held, at) ==
  /\ IsFiniteSet(P)
  /\ \A q \in P : q.fam = OfPart[n] /\ q.at <= at
  /\ \A r \in held : /\ r.fam = OfPart[n] /\ r.at <= at
                     /\ n = 4 => r.at >= at - 6
                     => Covered(r, P)

GridTables ==
  /\ moment \in Int
  /\ rows \subseteq GridRows /\ IsFiniteSet(rows)
  /\ \A r \in rows : r.at <= moment /\ (r.fam \in {"demand", "frequency", "carbon"} => r.series = "gb")
  /\ seen \subseteq rows

GridRequest ==
  /\ got.at \in Int /\ got.parts \in Seq(SUBSET GridRows) /\ Len(got.parts) <= 7
  /\ got = [at |-> got.at, parts |-> got.parts]
  /\ \A r \in seen : r.at <= got.at
  /\ \A n \in 1..5 : n <= Len(got.parts) => PartHolds(n, got.parts[n], seen, got.at)

GridAnswer ==
  reply # Grid!None =>
    /\ Len(got.parts) = 7 /\ reply.at = got.at
    /\ IF reply.ok
       THEN /\ \A f \in Grid!Required : Grid!Family(f) # {}
            /\ reply.readings = Grid!Readings /\ reply.summary = Grid!Summary
            /\ reply.effective = Grid!Max({r.at : r \in Grid!Readings})
       ELSE \E f \in Grid!Required : Grid!Family(f) = {}

GridInv == GridTables /\ GridRequest /\ GridAnswer

-----------------------------------------------------------------------------
\* A finite set of rows has a newest one, and none of the set is newer than that.
LEMMA NewestExists ==
  ASSUME NEW R, R \subseteq GridRows, R # {}, IsFiniteSet(R)
  PROVE  \E q \in Grid!Newest(R) : q \in R
<1> DEFINE Ats == {q.at : q \in R}
           f == [q \in R |-> q.at]
<1>1. f \in Surjection(R, Ats)
  BY DEF Surjection
<1>2. IsFiniteSet(Ats) /\ Ats \subseteq Int /\ Ats # {}
  BY <1>1, FS_Surjection DEF GridRows
<1>3. PICK a \in Ats : \A b \in Ats : a >= b
  BY <1>2, GreatestOfFinite
<1> DEFINE Lasts == {q \in R : q.at = a}
           Revs == {q.rev : q \in Lasts}
           g == [q \in Lasts |-> q.rev]
<1>4. g \in Surjection(Lasts, Revs)
  BY DEF Surjection
<1>5. IsFiniteSet(Lasts)
  BY FS_Subset
<1>6. IsFiniteSet(Revs) /\ Revs \subseteq Int /\ Revs # {}
  BY <1>4, <1>5, FS_Surjection DEF GridRows
<1>7. PICK v \in Revs : \A w \in Revs : v >= w
  BY <1>6, GreatestOfFinite
<1>8. PICK q \in Lasts : q.rev = v
  OBVIOUS
<1>9. ASSUME NEW o \in R PROVE ~Grid!Newer(o, q)
  <2>1. o.at \in Int /\ o.rev \in Int /\ q.at \in Int /\ q.rev \in Int
    BY DEF GridRows
  <2>2. o.at \in Ats /\ q.at = a
    BY <1>8
  <2>3. o.at <= q.at
    BY <1>3, <2>1, <2>2
  <2>4. o.at = q.at => o.rev <= q.rev
    BY <1>7, <1>8, <2>1, <2>2
  <2> QED BY <2>1, <2>3, <2>4 DEF Grid!Newer
<1> QED BY <1>8, <1>9 DEF Grid!Newest

\* The newest row is a row that no other replaces.
LEMMA NewestIsNewest ==
  ASSUME NEW R, NEW q \in Grid!Newest(R)
  PROVE  q \in R /\ \A r \in R : ~Grid!Newer(r, q)
BY DEF Grid!Newest

\* The newest row of every series.
LEMMA BySeriesHolds ==
  ASSUME NEW R, R \subseteq GridRows, IsFiniteSet(R)
  PROVE  /\ Grid!BySeries(R) \subseteq R
         /\ \A r \in R : \E q \in Grid!BySeries(R) : q.series = r.series /\ ~Grid!Newer(r, q)
<1> DEFINE of(s) == {r \in R : r.series = s}
<1>1. Grid!BySeries(R) = UNION {Grid!Newest(of(s)) : s \in {q.series : q \in R}}
  BY DEF Grid!BySeries
<1>2. \A s : Grid!Newest(of(s)) \subseteq of(s)
  BY DEF Grid!Newest
<1>3. Grid!BySeries(R) \subseteq R
  <2>1. \A s : of(s) \subseteq R
    OBVIOUS
  <2> HIDE DEF of
  <2> QED BY <1>1, <1>2, <2>1
<1>4. ASSUME NEW r \in R PROVE \E q \in Grid!BySeries(R) : q.series = r.series /\ ~Grid!Newer(r, q)
  <2> DEFINE mine == of(r.series)
  <2>1. mine \subseteq GridRows /\ IsFiniteSet(mine) /\ r \in mine
    BY FS_Subset
  <2> HIDE DEF mine
  <2>2. PICK q \in Grid!Newest(mine) : q \in mine
    BY <2>1, NewestExists
  <2>3. q \in mine /\ ~Grid!Newer(r, q)
    BY <2>1, <2>2, NewestIsNewest
  <2>4. q \in Grid!BySeries(R)
    BY <1>1, <2>2 DEF mine
  <2> QED BY <2>3, <2>4 DEF mine
<1> QED BY <1>3, <1>4

\* What a table holds until an instant.
LEMMA UntilHolds ==
  ASSUME GridInv, NEW f, NEW c
  PROVE  Grid!Until(f, c) \subseteq rows /\ Grid!Until(f, c) \subseteq GridRows /\ IsFiniteSet(Grid!Until(f, c))
<1>1. Grid!Until(f, c) \subseteq rows
  BY DEF Grid!Until
<1> QED BY <1>1, FS_Subset DEF GridInv, GridTables

\* Each of the statements of the newest readings keeps its promise.
LEMMA StatementHolds ==
  ASSUME GridInv, NEW n \in 1..5
  PROVE  /\ Grid!Statement(n, got.at) \in SUBSET GridRows
         /\ PartHolds(n, Grid!Statement(n, got.at), seen, got.at)
<1> DEFINE c == got.at
<1>0. c \in Int /\ seen \subseteq rows /\ rows \subseteq GridRows
  BY DEF GridInv, GridTables, GridRequest
<1>1. CASE n = 1
  <2> DEFINE R == Grid!Until("generation", c)
             top == {r \in R : \A q \in R : q.at <= r.at}
             P == Grid!BySeries(top)
  <2>1. Grid!Statement(n, c) = P
    BY <1>1 DEF Grid!Statement, Grid!Generation
  <2>2. R \subseteq GridRows /\ R \subseteq rows /\ IsFiniteSet(R)
    BY UntilHolds
  <2>3. top \subseteq R /\ IsFiniteSet(top) /\ top \subseteq GridRows
    BY <2>2, FS_Subset
  <2>4. \A r \in R : r.fam = "generation" /\ r.at <= c
    BY DEF Grid!Until
  <2>5. \A r \in rows : r.fam = "generation" /\ r.at <= c => r \in R
    BY DEF Grid!Until
  <2>6. ASSUME NEW r \in R PROVE \E t \in top : t.at >= r.at
    <3> DEFINE Ats == {q.at : q \in R}
               f == [q \in R |-> q.at]
    <3>1. f \in Surjection(R, Ats)
      BY DEF Surjection
    <3>2. IsFiniteSet(Ats) /\ Ats \subseteq Int /\ Ats # {}
      BY <2>2, <3>1, FS_Surjection DEF GridRows
    <3>3. PICK a \in Ats : \A b \in Ats : a >= b
      BY <3>2, GreatestOfFinite
    <3>4. PICK t \in R : t.at = a
      OBVIOUS
    <3>5. \A q \in R : q.at \in Int /\ q.at <= t.at
      BY <2>2, <3>3, <3>4 DEF GridRows
    <3> QED BY <3>4, <3>5
  <2> HIDE DEF R
  <2>7. P \subseteq top /\ \A r \in top : \E q \in P : q.series = r.series /\ ~Grid!Newer(r, q)
    BY <2>3, BySeriesHolds
  <2>8. ASSUME NEW r \in R PROVE Covered(r, P)
    <3>1. PICK t \in top : t.at >= r.at
      BY <2>6
    <3>2. PICK q \in P : q \in top /\ q.at >= r.at /\ q.at \in Int /\ r.at \in Int
      <4>1. PICK q \in P : q.series = t.series /\ ~Grid!Newer(t, q)
        BY <2>7
      <4>2. q.at \in Int /\ t.at \in Int /\ r.at \in Int /\ q.rev \in Int /\ t.rev \in Int
        BY <2>2, <2>3, <2>7 DEF GridRows
      <4> QED BY <2>7, <3>1, <4>1, <4>2 DEF Grid!Newer
    <3>3. CASE q.at > r.at
      BY <2>4, <3>3 DEF Covered
    <3>4. CASE q.at = r.at
      <4>1. r \in top
        BY <3>2, <3>4
      <4> QED BY <2>7, <4>1 DEF Covered
    <3> QED BY <3>2, <3>3, <3>4
  <2>9. IsFiniteSet(P)
    BY <2>3, <2>7, FS_Subset
  <2> HIDE DEF P, top
  <2>10. OfPart[1] = "generation"
    BY DEF OfPart
  <2> QED BY <1>0, <1>1, <2>1, <2>3, <2>4, <2>5, <2>7, <2>8, <2>9, <2>10 DEF PartHolds
<1>2. ASSUME NEW f \in {"demand", "frequency", "carbon"}, OfPart[n] = f, n # 4,
             Grid!Statement(n, c) = Grid!Latest(f, c)
      PROVE  Grid!Statement(n, c) \in SUBSET GridRows /\ PartHolds(n, Grid!Statement(n, c), seen, c)
  <2> DEFINE R == Grid!Until(f, c)
             P == Grid!Newest(R)
  <2>1. Grid!Statement(n, c) = P
    BY <1>2 DEF Grid!Latest
  <2>2. R \subseteq GridRows /\ R \subseteq rows /\ IsFiniteSet(R)
    BY UntilHolds
  <2>3. \A r \in R : r.fam = f /\ r.at <= c /\ r.series = "gb"
    BY <2>2 DEF Grid!Until, GridInv, GridTables
  <2>4. \A r \in rows : r.fam = f /\ r.at <= c => r \in R
    BY DEF Grid!Until
  <2> HIDE DEF R
  <2>5. P \subseteq R
    BY DEF Grid!Newest
  <2>6. ASSUME NEW r \in R PROVE Covered(r, P)
    <3>1. PICK q \in P : q \in R
      BY <2>2, NewestExists
    <3>2. ~Grid!Newer(r, q)
      BY NewestIsNewest
    <3> QED BY <2>3, <3>1, <3>2 DEF Covered
  <2>7. IsFiniteSet(P)
    BY <2>2, <2>5, FS_Subset
  <2> HIDE DEF P
  <2> QED BY <1>0, <1>2, <2>1, <2>2, <2>3, <2>4, <2>5, <2>6, <2>7 DEF PartHolds
<1>3. CASE n = 4
  <2> DEFINE U == Grid!Until("interconnectors", c)
             R == {r \in U : r.at >= c - 6}
             P == Grid!BySeries(R)
  <2>1. Grid!Statement(n, c) = P
    BY <1>3 DEF Grid!Statement, Grid!Interconnectors
  <2>2. U \subseteq GridRows /\ IsFiniteSet(U)
    BY UntilHolds
  <2>3. R \subseteq GridRows /\ IsFiniteSet(R)
    BY <2>2, FS_Subset
  <2>4. \A r \in R : r.fam = "interconnectors" /\ r.at <= c
    BY DEF Grid!Until
  <2>5. \A r \in rows : r.fam = "interconnectors" /\ r.at <= c /\ r.at >= c - 6 => r \in R
    BY DEF Grid!Until
  <2> HIDE DEF R
  <2>6. P \subseteq R /\ \A r \in R : \E q \in P : q.series = r.series /\ ~Grid!Newer(r, q)
    BY <2>3, BySeriesHolds
  <2>7. IsFiniteSet(P)
    BY <2>3, <2>6, FS_Subset
  <2> HIDE DEF P
  <2>8. OfPart[4] = "interconnectors"
    BY DEF OfPart
  <2> QED BY <1>0, <1>3, <2>1, <2>3, <2>4, <2>5, <2>6, <2>7, <2>8 DEF PartHolds, Covered
<1>4. CASE n = 2
    <2>1. OfPart[n] = "demand" /\ Grid!Statement(n, c) = Grid!Latest("demand", c)
      BY <1>4 DEF OfPart, Grid!Statement
    <2> QED BY <1>2, <1>4, <2>1
<1>5. CASE n = 3
    <2>1. OfPart[n] = "frequency" /\ Grid!Statement(n, c) = Grid!Latest("frequency", c)
      BY <1>5 DEF OfPart, Grid!Statement
    <2> QED BY <1>2, <1>5, <2>1
<1>6. CASE n = 5
    <2>1. OfPart[n] = "carbon" /\ Grid!Statement(n, c) = Grid!Latest("carbon", c)
      BY <1>6 DEF OfPart, Grid!Statement
    <2> QED BY <1>2, <1>6, <2>1
<1> QED BY <1>1, <1>3, <1>4, <1>5, <1>6

\* The two statements that compare with the past return rows of the tables.
LEMMA ComparedRows ==
  ASSUME GridInv, NEW n \in {6, 7}
  PROVE  Grid!Statement(n, got.at) \in SUBSET GridRows
<1> DEFINE c == got.at - 12
<1>1. CASE n = 6
  <2> DEFINE U == Grid!Until("generation", c)
             R == {r \in U : \A q \in U : q.at <= r.at}
  <2>1. Grid!Statement(n, got.at) = Grid!BySeries(R)
    BY <1>1 DEF Grid!Statement, Grid!Generation
  <2>2. U \subseteq GridRows /\ IsFiniteSet(U)
    BY UntilHolds
  <2>3. R \subseteq GridRows /\ IsFiniteSet(R)
    BY <2>2, FS_Subset
  <2> HIDE DEF R
  <2>4. Grid!BySeries(R) \subseteq R
    BY <2>3, BySeriesHolds
  <2> QED BY <2>1, <2>3, <2>4
<1>2. CASE n = 7
  <2> DEFINE U == Grid!Until("interconnectors", c)
             R == {r \in U : r.at >= c - 6}
  <2>1. Grid!Statement(n, got.at) = Grid!BySeries(R)
    BY <1>2 DEF Grid!Statement, Grid!Interconnectors
  <2>2. U \subseteq GridRows /\ IsFiniteSet(U)
    BY UntilHolds
  <2>3. R \subseteq GridRows /\ IsFiniteSet(R)
    BY <2>2, FS_Subset
  <2> HIDE DEF R
  <2>4. Grid!BySeries(R) \subseteq R
    BY <2>3, BySeriesHolds
  <2> QED BY <2>1, <2>3, <2>4
<1> QED BY <1>1, <1>2

-----------------------------------------------------------------------------
\* A row of a series of its family.
LEMMA ReadingIsRow ==
  ASSUME moment \in Int, NEW f \in Grid!Families, NEW s \in Fuels \cup Ties \cup {"gb"},
         NEW at \in Int, NEW rev \in Int
  PROVE  LET x == Grid!Reading(f, s, at, rev)
         IN  x \in GridRows /\ x.fam = f /\ x.series = s /\ x.at = at
BY DEF Grid!Reading, GridRows

\* There are finitely many families of readings.
LEMMA FamiliesFinite == IsFiniteSet(Grid!Families)
<1>0. IsFiniteSet({"generation"})
  BY FS_Singleton
<1>1. IsFiniteSet({"generation"} \cup {"demand"})
  BY <1>0, FS_AddElement
<1>2. IsFiniteSet(({"generation"} \cup {"demand"}) \cup {"frequency"})
  BY <1>1, FS_AddElement
<1>3. IsFiniteSet((({"generation"} \cup {"demand"}) \cup {"frequency"}) \cup {"interconnectors"})
  BY <1>2, FS_AddElement
<1>4. IsFiniteSet(((({"generation"} \cup {"demand"}) \cup {"frequency"}) \cup {"interconnectors"}) \cup {"carbon"})
  BY <1>3, FS_AddElement
<1>5. Grid!Families = ((({"generation"} \cup {"demand"}) \cup {"frequency"}) \cup {"interconnectors"}) \cup {"carbon"}
  BY DEF Grid!Families
<1> QED BY <1>4, <1>5

\* The series of a family: fuels, connectors, or the whole country.
LEMMA SeriesOf ==
  ASSUME NEW f \in Grid!Families
  PROVE  /\ Grid!Series[f] \subseteq Fuels \cup Ties \cup {"gb"} /\ IsFiniteSet(Grid!Series[f])
         /\ f \in {"demand", "frequency", "carbon"} => Grid!Series[f] = {"gb"}
<1>1. Grid!Series[f] = IF f = "generation" THEN Fuels ELSE IF f = "interconnectors" THEN Ties ELSE {"gb"}
  BY DEF Grid!Series
<1>2. IsFiniteSet(Fuels) /\ IsFiniteSet(Ties) /\ IsFiniteSet({"gb"})
  BY GridSettings, GridLibrary, FS_Singleton DEF Grid!GridAssumption
<1> QED BY <1>1, <1>2

\* At the start there are no rows and no request.
LEMMA GridStart == Grid!Init => GridInv
<1> SUFFICES ASSUME Grid!Init PROVE GridInv
    OBVIOUS
<1> DEFINE at(f) == IF Grid!Policy[f].cadence = 6 THEN moment - 6 ELSE moment
           of(f) == {Grid!Reading(f, s, at(f), 0) : s \in Grid!Series[f]}
           all == {of(f) : f \in Grid!Families}
<1>1. /\ moment = Start /\ seen = {} /\ got = [at |-> 0, parts |-> <<>>] /\ reply = Grid!None
      /\ rows = {} \/ rows = UNION all
    BY DEF Grid!Init, Grid!NoRequest
<1>2. moment \in Int
    BY <1>1, GridSettings DEF Grid!GridAssumption
<1>3. \A f \in Grid!Families : at(f) \in Int /\ at(f) <= moment
    BY <1>2
<1> HIDE DEF at
<1>4. ASSUME NEW f \in Grid!Families
      PROVE  /\ IsFiniteSet(of(f))
             /\ \A x \in of(f) : /\ x \in GridRows /\ x.at <= moment
                                 /\ x.fam \in {"demand", "frequency", "carbon"} => x.series = "gb"
  <2> DEFINE g == [s \in Grid!Series[f] |-> Grid!Reading(f, s, at(f), 0)]
  <2>1. g \in Surjection(Grid!Series[f], of(f))
    BY DEF Surjection
  <2>2. IsFiniteSet(of(f))
    BY <2>1, SeriesOf, FS_Surjection
  <2>3. ASSUME NEW s \in Grid!Series[f]
        PROVE  LET x == Grid!Reading(f, s, at(f), 0)
               IN  /\ x \in GridRows /\ x.at <= moment
                   /\ x.fam \in {"demand", "frequency", "carbon"} => x.series = "gb"
    <3>1. s \in Fuels \cup Ties \cup {"gb"} /\ (f \in {"demand", "frequency", "carbon"} => s = "gb")
      BY SeriesOf
    <3>2. LET x == Grid!Reading(f, s, at(f), 0)
          IN  x \in GridRows /\ x.fam = f /\ x.series = s /\ x.at = at(f)
      BY <1>2, <1>3, <3>1, ReadingIsRow
    <3> QED BY <1>3, <3>1, <3>2
  <2> QED BY <2>2, <2>3
<1>5. IsFiniteSet(all)
  <2> DEFINE g == [f \in Grid!Families |-> of(f)]
  <2>1. g \in Surjection(Grid!Families, all)
    BY DEF Surjection
  <2> HIDE DEF all, g
  <2> QED BY <2>1, FamiliesFinite, FS_Surjection
<1>6. IsFiniteSet(UNION all)
  <2>1. \A T \in all : IsFiniteSet(T)
    BY <1>4
  <2> HIDE DEF all
  <2> QED BY <1>5, <2>1, FS_UNION
<1>7. \A x \in rows : /\ x \in GridRows /\ x.at <= moment
                      /\ x.fam \in {"demand", "frequency", "carbon"} => x.series = "gb"
  <2>1. \A x \in UNION all : \E f \in Grid!Families : x \in of(f)
    OBVIOUS
  <2> HIDE DEF all, of
  <2> QED BY <1>1, <1>4, <2>1
<1> HIDE DEF all
<1>8. GridTables
    BY <1>1, <1>2, <1>6, <1>7, FS_EmptySet DEF GridTables
<1>9. GridRequest
  <2>1. got.at = 0 /\ got.parts = <<>> /\ <<>> \in Seq(SUBSET GridRows) /\ Len(<<>>) = 0
    BY <1>1
  <2> QED BY <1>1, <2>1 DEF GridRequest
<1> QED BY <1>1, <1>8, <1>9 DEF GridInv, GridAnswer

\* A request that begins has read nothing.
LEMMA BeginStep ==
  ASSUME GridInv, Grid!Begin
  PROVE  GridInv'
<1>1. /\ got' = [at |-> moment, parts |-> <<>>] /\ seen' = rows /\ reply = Grid!None
      /\ UNCHANGED <<moment, rows, reply>>
    BY DEF Grid!Begin
<1>2. GridTables'
    BY <1>1 DEF GridInv, GridTables
<1>3. GridRequest'
  <2>1. got'.at = moment /\ got'.parts = <<>> /\ <<>> \in Seq(SUBSET GridRows) /\ Len(<<>>) = 0
    BY <1>1
  <2> QED BY <1>1, <2>1 DEF GridInv, GridTables, GridRequest
<1>4. GridAnswer'
  <2>1. Grid!None' = Grid!None
    BY DEF Grid!None
  <2> QED BY <1>1, <2>1 DEF GridAnswer
<1> QED BY <1>2, <1>3, <1>4 DEF GridInv

\* An assignment to the statements of a request leaves its moment alone.
LEMMA PartsReplaced ==
  \A a, before, after : [[at |-> a, parts |-> before] EXCEPT !.parts = after]
                        = [at |-> a, parts |-> after]
OBVIOUS

\* A statement reads rows that were stored when its request began, or later.
LEMMA ReadStep ==
  ASSUME GridInv, Grid!Read
  PROVE  GridInv'
<1> DEFINE old == got.parts
           k == Len(old) + 1
           P == Grid!Statement(k, got.at)
<1>1. /\ got' = [got EXCEPT !.parts = Append(old, P)] /\ Len(old) < 7
      /\ UNCHANGED <<moment, rows, seen, reply>>
    BY DEF Grid!Read
<1>2. old \in Seq(SUBSET GridRows) /\ Len(old) \in Nat /\ k \in 1..7
    BY <1>1 DEF GridInv, GridRequest
<1>3. P \in SUBSET GridRows /\ (k \in 1..5 => PartHolds(k, P, seen, got.at))
  <2>1. CASE k \in 1..5
    BY <2>1, StatementHolds
  <2>2. CASE k \notin 1..5
    <3>1. k \in {6, 7}
      BY <1>2, <2>2
    <3> QED BY <2>2, <3>1, ComparedRows
  <2> QED BY <2>1, <2>2
<1>4. got'.at = got.at /\ got'.parts = Append(old, P) /\ got' = [at |-> got.at, parts |-> Append(old, P)]
  <2>1. got = [at |-> got.at, parts |-> got.parts]
    BY DEF GridInv, GridRequest
  <2> HIDE DEF P
  <2>2. [[at |-> got.at, parts |-> got.parts] EXCEPT !.parts = Append(old, P)]
          = [at |-> got.at, parts |-> Append(old, P)]
    BY PartsReplaced
  <2>3. got' = [at |-> got.at, parts |-> Append(old, P)]
    BY <1>1, <2>1, <2>2
  <2> QED BY <2>3
<1> HIDE DEF P
<1>5. /\ Append(old, P) \in Seq(SUBSET GridRows) /\ Len(Append(old, P)) = k
      /\ \A n \in 1..Len(old) : Append(old, P)[n] = old[n]
      /\ Append(old, P)[k] = P
    BY <1>2, <1>3
<1>6. \A n \in 1..5 : n <= k => PartHolds(n, Append(old, P)[n], seen, got.at)
  <2> SUFFICES ASSUME NEW n \in 1..5, n <= k PROVE PartHolds(n, Append(old, P)[n], seen, got.at)
      OBVIOUS
  <2>1. n = k \/ (n \in 1..Len(old) /\ n <= Len(old))
    BY <1>2
  <2> QED BY <1>3, <1>5, <2>1 DEF GridInv, GridRequest
<1>8. GridRequest'
  <2>1. got'.at \in Int /\ got'.parts \in Seq(SUBSET GridRows) /\ Len(got'.parts) <= 7
        /\ got' = [at |-> got'.at, parts |-> got'.parts]
    BY <1>2, <1>4, <1>5 DEF GridInv, GridRequest
  <2>2. \A r \in seen' : r.at <= got'.at
    BY <1>1, <1>4 DEF GridInv, GridRequest
  <2>3. \A n \in 1..5 : n <= Len(got'.parts) => PartHolds(n, got'.parts[n], seen', got'.at)
    BY <1>1, <1>4, <1>5, <1>6
  <2> QED BY <2>1, <2>2, <2>3 DEF GridRequest
<1>9. GridAnswer'
  <2>1. reply = Grid!None
    <3>1. reply # Grid!None => Len(got.parts) = 7
      BY DEF GridInv, GridAnswer
    <3>2. Len(got.parts) < 7
      BY <1>1
    <3> HIDE DEF old, k
    <3>3. Len(got.parts) # 7
      BY <3>2
    <3> QED BY <3>1, <3>3
  <2>2. Grid!None' = Grid!None
    BY DEF Grid!None
  <2> QED BY <1>1, <2>1, <2>2 DEF GridAnswer
<1>10. GridTables'
    BY <1>1 DEF GridInv, GridTables
<1> QED BY <1>8, <1>9, <1>10 DEF GridInv

\* An answer presents the rows that its statements read.
LEMMA PresentStep ==
  ASSUME GridInv, Grid!Present
  PROVE  GridInv'
<1>1. UNCHANGED <<moment, rows, seen, got>> /\ Len(got.parts) = 7
    BY DEF Grid!Present
<1>2. GridTables' /\ GridRequest'
    BY <1>1 DEF GridInv, GridTables, GridRequest
<1>3. /\ Grid!Readings' = Grid!Readings /\ Grid!Summary' = Grid!Summary
      /\ \A f : Grid!Family(f)' = Grid!Family(f)
      /\ Grid!Required' = Grid!Required
    BY <1>1 DEF Grid!Readings, Grid!Family, Grid!Summary, Grid!State, Grid!Lag, Grid!Age, Grid!Required
<1>4. CASE \E f \in Grid!Required : Grid!Family(f) = {}
  <2>1. reply' = [ok |-> FALSE, at |-> got.at]
    BY <1>4 DEF Grid!Present
  <2>2. ~reply'.ok /\ reply'.at = got.at
    BY <2>1
  <2>3. \E f \in Grid!Required' : Grid!Family(f)' = {}
    BY <1>3, <1>4
  <2> QED BY <1>1, <1>2, <2>2, <2>3 DEF GridInv, GridAnswer
<1>5. CASE ~\E f \in Grid!Required : Grid!Family(f) = {}
  <2>1. /\ reply'.ok /\ reply'.at = got.at
        /\ reply'.readings = Grid!Readings /\ reply'.summary = Grid!Summary
        /\ reply'.effective = Grid!Max({r.at : r \in Grid!Readings})
    BY <1>5 DEF Grid!Present
  <2>2. \A f \in Grid!Required' : Grid!Family(f)' # {}
    BY <1>3, <1>5
  <2>3. Grid!Max({r.at : r \in Grid!Readings})' = Grid!Max({r.at : r \in Grid!Readings})
    BY <1>3 DEF Grid!Max
  <2> QED BY <1>1, <1>2, <1>3, <2>1, <2>2, <2>3 DEF GridInv, GridAnswer
<1> QED BY <1>4, <1>5

\* What depends on the request and its answer alone stays as it is.
LEMMA AnswerStays ==
  ASSUME GridAnswer, UNCHANGED <<got, reply>>
  PROVE  GridAnswer'
<1>1. /\ Grid!Readings' = Grid!Readings /\ Grid!Summary' = Grid!Summary
      /\ \A f : Grid!Family(f)' = Grid!Family(f)
      /\ Grid!Required' = Grid!Required /\ Grid!None' = Grid!None
    BY DEF Grid!Readings, Grid!Family, Grid!Summary, Grid!State, Grid!Lag, Grid!Age, Grid!Required, Grid!None
<1>2. Grid!Max({r.at : r \in Grid!Readings})' = Grid!Max({r.at : r \in Grid!Readings})
    BY <1>1 DEF Grid!Max
<1> QED BY <1>1, <1>2 DEF GridAnswer

\* A delivery is of rows of their families, at instants that are past.
LEMMA DeliveredRows ==
  ASSUME GridInv, NEW W \in Grid!Delivered
  PROVE  /\ IsFiniteSet(W) /\ W \subseteq GridRows
         /\ \A r \in W : r.at <= moment /\ (r.fam \in {"demand", "frequency", "carbon"} => r.series = "gb")
<1>0. moment \in Int
    BY DEF GridInv, GridTables
<1>1. ASSUME NEW f \in Grid!Families, NEW s \in Fuels \cup Ties \cup {"gb"}, NEW at \in Int
      PROVE  LET x == Grid!Row(f, s, at) IN x \in GridRows /\ x.fam = f /\ x.series = s /\ x.at = at
  <2> DEFINE same == {r \in rows : r.fam = f /\ r.series = s /\ r.at = at}
  <2>1. IsFiniteSet(same)
    BY FS_Subset DEF GridInv, GridTables
  <2>2. Grid!Cardinality(same) \in Int
    BY <2>1, FS_CardinalityType, GridLibrary
  <2>3. Grid!Row(f, s, at) = Grid!Reading(f, s, at, Grid!Cardinality(same))
    BY DEF Grid!Row
  <2> HIDE DEF same
  <2> QED BY <1>0, <2>2, <2>3, ReadingIsRow
<1>2. ASSUME NEW at \in {moment - 3, moment}, NEW fuels \in SUBSET Fuels, W = Grid!FuelFile(at, fuels)
      PROVE  /\ IsFiniteSet(W) /\ W \subseteq GridRows
             /\ \A r \in W : r.at <= moment /\ (r.fam \in {"demand", "frequency", "carbon"} => r.series = "gb")
  <2> DEFINE A == {Grid!Row("generation", s, at) : s \in fuels}
             B == {Grid!Row("interconnectors", s, at) : s \in Ties}
             f == [s \in fuels |-> Grid!Row("generation", s, at)]
             g == [s \in Ties |-> Grid!Row("interconnectors", s, at)]
  <2>1. f \in Surjection(fuels, A) /\ g \in Surjection(Ties, B)
    BY DEF Surjection
  <2>2. IsFiniteSet(fuels) /\ IsFiniteSet(Ties)
    BY GridSettings, GridLibrary, FS_Subset DEF Grid!GridAssumption
  <2>3. IsFiniteSet(A) /\ IsFiniteSet(B)
    <3> HIDE DEF A, B, f, g
    <3> QED BY <2>1, <2>2, FS_Surjection
  <2>4. W = A \cup B
    BY <1>2 DEF Grid!FuelFile
  <2>5. at \in Int /\ at <= moment
    BY <1>0
  <2>6. \A r \in A : r \in GridRows /\ r.fam = "generation" /\ r.at = at
    BY <1>1, <2>5 DEF Grid!Families
  <2>7. \A r \in B : r \in GridRows /\ r.fam = "interconnectors" /\ r.at = at
    BY <1>1, <2>5 DEF Grid!Families
  <2> HIDE DEF A, B
  <2>8. IsFiniteSet(A \cup B)
    BY <2>3, FS_Union
  <2> QED BY <2>4, <2>5, <2>6, <2>7, <2>8
<1>3. ASSUME NEW f \in {"demand", "frequency", "carbon"}, NEW at \in Int, at <= moment,
             W = {Grid!Row(f, "gb", at)}
      PROVE  /\ IsFiniteSet(W) /\ W \subseteq GridRows
             /\ \A r \in W : r.at <= moment /\ (r.fam \in {"demand", "frequency", "carbon"} => r.series = "gb")
  <2>1. f \in Grid!Families
    BY DEF Grid!Families
  <2>2. LET x == Grid!Row(f, "gb", at) IN x \in GridRows /\ x.fam = f /\ x.series = "gb" /\ x.at = at
    BY <1>1, <2>1
  <2> QED BY <1>3, <2>2, FS_Singleton
<1>4. 6 * (moment \div 6) - 6 \in Int /\ 6 * (moment \div 6) - 6 <= moment
    BY <1>0
<1>5. \/ \E at \in {moment - 3, moment}, fuels \in SUBSET Fuels : W = Grid!FuelFile(at, fuels)
      \/ W = {Grid!Row("demand", "gb", 6 * (moment \div 6) - 6)}
      \/ W = {Grid!Row("carbon", "gb", 6 * (moment \div 6) - 6)}
      \/ W = {Grid!Row("frequency", "gb", moment)}
    BY DEF Grid!Delivered, Grid!HalfHour
<1> DEFINE half == 6 * (moment \div 6) - 6
<1>6. half \in Int /\ half <= moment /\ moment \in Int /\ moment <= moment
    BY <1>0, <1>4
<1> HIDE DEF half
<1> QED BY <1>2, <1>3, <1>5, <1>6 DEF half

\* Every step of the grid readings keeps the invariant.
LEMMA GridNext == GridInv /\ [Grid!Next]_Grid!vars => GridInv'
<1> SUFFICES ASSUME GridInv, [Grid!Next]_Grid!vars PROVE GridInv'
    OBVIOUS
<1>1. ASSUME NEW W \in Grid!Delivered, Grid!Deliver(W) PROVE GridInv'
  <2>1. rows' = rows \cup W /\ UNCHANGED <<moment, seen, got, reply>>
    BY <1>1 DEF Grid!Deliver
  <2>2. /\ IsFiniteSet(W) /\ W \subseteq GridRows
        /\ \A r \in W : r.at <= moment /\ (r.fam \in {"demand", "frequency", "carbon"} => r.series = "gb")
    BY DeliveredRows
  <2>3. IsFiniteSet(rows')
    BY <2>1, <2>2, FS_Union DEF GridInv, GridTables
  <2>4. GridTables'
    BY <2>1, <2>2, <2>3 DEF GridInv, GridTables
  <2>5. GridRequest'
    BY <2>1 DEF GridInv, GridRequest
  <2> QED BY <2>1, <2>4, <2>5, AnswerStays DEF GridInv
<1>2. ASSUME NEW t \in Clock, Grid!Tick(t) PROVE GridInv'
  <2>1. moment' = t /\ t > moment /\ UNCHANGED <<rows, seen, got, reply>>
    BY <1>2 DEF Grid!Tick
  <2>2. t \in Int
    BY GridSettings DEF Grid!GridAssumption
  <2>3. GridTables'
    <3>1. \A r \in rows : r.at \in Int
      BY DEF GridInv, GridTables, GridRows
    <3> QED BY <2>1, <2>2, <3>1 DEF GridInv, GridTables
  <2>4. GridRequest'
    BY <2>1 DEF GridInv, GridRequest
  <2> QED BY <2>1, <2>3, <2>4, AnswerStays DEF GridInv
<1>3. CASE UNCHANGED Grid!vars
  <2>1. UNCHANGED <<moment, rows, seen, got, reply>>
    BY <1>3 DEF Grid!vars
  <2>2. GridTables' /\ GridRequest'
    BY <2>1 DEF GridInv, GridTables, GridRequest
  <2> QED BY <2>1, <2>2, AnswerStays DEF GridInv
<1> QED BY <1>1, <1>2, <1>3, BeginStep, ReadStep, PresentStep DEF Grid!Next

-----------------------------------------------------------------------------
\* The grades and the policies are few.
LEMMA FewAreFinite == IsFiniteSet(0..2) /\ IsFiniteSet(1..5)
<1>1. 0 \in Int /\ 1 \in Int /\ 2 \in Int /\ 5 \in Int
  OBVIOUS
<1> QED BY ONLY <1>1, FS_Interval

\* The readings of an answer are what its statements returned.
LEMMA ReadingsAre ==
  ASSUME GridInv, Len(got.parts) = 7
  PROVE  /\ Grid!Readings \subseteq GridRows /\ IsFiniteSet(Grid!Readings)
         /\ \A r \in Grid!Readings : r.at <= got.at
         /\ \A n \in 1..5 : PartHolds(n, got.parts[n], seen, got.at) /\ got.parts[n] \subseteq Grid!Readings
<1> DEFINE parts == {got.parts[n] : n \in 1..5}
           f == [n \in 1..5 |-> got.parts[n]]
<1>1. \A n \in 1..5 : PartHolds(n, got.parts[n], seen, got.at) /\ got.parts[n] \subseteq GridRows
    BY DEF GridInv, GridRequest
<1>2. Grid!Readings = UNION parts
    BY DEF Grid!Readings
<1>3. f \in Surjection(1..5, parts) /\ IsFiniteSet(1..5)
  <2>1. f \in Surjection(1..5, parts)
    BY DEF Surjection
  <2> QED BY <2>1, FewAreFinite
<1>4. \A T \in parts : IsFiniteSet(T)
    BY <1>1 DEF PartHolds
<1>5. \A n \in 1..5 : got.parts[n] \subseteq Grid!Readings
    BY <1>2
<1>6. Grid!Readings \subseteq GridRows /\ \A r \in Grid!Readings : r.at <= got.at
    BY <1>1, <1>2 DEF PartHolds
<1> HIDE DEF parts, f
<1>7. IsFiniteSet(Grid!Readings)
    BY <1>2, <1>3, <1>4, FS_Surjection, FS_UNION
<1> QED BY <1>1, <1>5, <1>6, <1>7

\* A required family with a reading that was stored before the request is not empty.
LEMMA RefusedIsEmpty ==
  ASSUME GridInv, Len(got.parts) = 7, NEW f \in Grid!Required, Grid!Family(f) = {}
  PROVE  {r \in seen : r.fam = f} = {}
<1> SUFFICES ASSUME NEW r \in seen, r.fam = f PROVE FALSE
    OBVIOUS
<1>1. PICK n \in {1, 2, 5} : OfPart[n] = f
    BY DEF OfPart, Grid!Required
<1>2. PartHolds(n, got.parts[n], seen, got.at) /\ got.parts[n] \subseteq Grid!Readings
    BY ReadingsAre
<1>3. r.at <= got.at
    BY DEF GridInv, GridRequest
<1>4. Covered(r, got.parts[n])
    BY <1>1, <1>2, <1>3 DEF PartHolds
<1>5. PICK q \in got.parts[n] : TRUE
    BY <1>4 DEF Covered
<1>6. q \in Grid!Readings /\ q.fam = f
    BY <1>1, <1>2, <1>5 DEF PartHolds
<1> QED BY <1>6 DEF Grid!Family

\* The thresholds of the required families.
LEMMA PolicyOf ==
  ASSUME NEW f \in Grid!Required
  PROVE  LET p == Grid!Policy[f]
         IN  /\ p.cadence \in Int /\ p.live \in Int /\ p.stale \in Int /\ p.healthy \in Int /\ p.late \in Int
             /\ 2 * p.cadence + 1 >= p.stale /\ p.stale > p.live
BY DEF Grid!Policy, Grid!Required

\* The worse of two grades.
LEMMA WorseOf ==
  ASSUME NEW a \in 0..2, NEW b \in 0..2
  PROVE  Grid!Max({a, b}) \in 0..2 /\ Grid!Max({a, b}) >= a /\ Grid!Max({a, b}) >= b
<1>1. IsFiniteSet({a, b})
  <2>1. {a, b} \subseteq 0..2
    OBVIOUS
  <2> QED BY ONLY <2>1, FewAreFinite, FS_Subset
<1>2. {a, b} \subseteq Int /\ {a, b} # {}
  OBVIOUS
<1>3. Grid!Max({a, b}) \in {a, b} /\ \A x \in {a, b} : x <= Grid!Max({a, b})
  BY <1>1, <1>2, GreatestIs
<1> DEFINE m == Grid!Max({a, b})
<1>4. m \in {a, b} /\ a <= m /\ b <= m
  BY <1>3
<1> HIDE DEF m
<1>5. m \in 0..2 /\ m >= a /\ m >= b
  BY <1>4
<1> QED BY <1>5 DEF m

\* A grade is one of three.
LEMMA GradeOf == \A x, good, bad : Grid!Grade(x, good, bad) \in 0..2
BY DEF Grid!Grade

\* A required family is in one of the states of a family, and in the last with a stale reading.
LEMMA StateOf ==
  ASSUME GridInv, Len(got.parts) = 7, NEW f \in Grid!Required, Grid!Family(f) # {}
  PROVE  /\ Grid!State(f) \in 0..2
         /\ (\E r \in Grid!Family(f) : Grid!IsStale(r)) => Grid!State(f) = 2
<1> DEFINE p == Grid!Policy[f]
           lag == Grid!Grade(Grid!Lag(f), p.healthy, p.late)
           age == Grid!Grade(Grid!Age(f), p.live, p.stale)
<1>1. Grid!State(f) = Grid!Max({lag, age})
    BY DEF Grid!State
<1>2. lag \in 0..2 /\ age \in 0..2
    BY GradeOf
<1>3. ASSUME NEW r \in Grid!Family(f), Grid!IsStale(r) PROVE age = 2
  <2> DEFINE Ats == {q.at : q \in Grid!Family(f)}
             g == [q \in Grid!Family(f) |-> q.at]
             bound == 2 * p.cadence + 1
  <2>1. /\ Grid!Family(f) \subseteq Grid!Readings /\ Grid!Family(f) \subseteq GridRows
        /\ r.fam = f
    BY ReadingsAre DEF Grid!Family
  <2>2. IsFiniteSet(Grid!Family(f))
    BY <2>1, ReadingsAre, FS_Subset
  <2>3. g \in Surjection(Grid!Family(f), Ats)
    BY DEF Surjection
  <2>4. IsFiniteSet(Ats) /\ Ats # {} /\ Ats \subseteq Int /\ r.at \in Ats
    BY <2>1, <2>2, <2>3, FS_Surjection DEF GridRows
  <2>5. Grid!Min(Ats) \in Int /\ Grid!Min(Ats) <= r.at
    BY <2>4, LeastIs
  <2>6. Grid!Age(f) = got.at - Grid!Min(Ats)
    BY DEF Grid!Age
  <2>7. got.at - r.at > Grid!Max({2, bound})
    BY <1>3, <2>1 DEF Grid!IsStale
  <2>8. /\ p.live \in Int /\ p.stale \in Int /\ bound \in Int
        /\ bound >= p.stale /\ p.stale > p.live
    BY PolicyOf
  <2> HIDE DEF bound, Ats, p
  <2>9. Grid!Max({2, bound}) >= bound /\ Grid!Max({2, bound}) \in Int
    <3>1. IsFiniteSet({2, bound})
      <4>1. IsFiniteSet({2})
        BY FS_Singleton
      <4>2. IsFiniteSet({2} \cup {bound})
        BY <4>1, FS_AddElement
      <4>3. {2, bound} = {2} \cup {bound}
        OBVIOUS
      <4> QED BY <4>2, <4>3
    <3>2. {2, bound} \subseteq Int /\ {2, bound} # {}
      BY <2>8
    <3>3. Grid!Max({2, bound}) \in {2, bound} /\ \A x \in {2, bound} : x <= Grid!Max({2, bound})
      BY <3>1, <3>2, GreatestIs
    <3> QED BY <2>8, <3>3
  <2>10. got.at \in Int /\ r.at \in Int
    BY <2>1 DEF GridInv, GridRequest, GridRows
  <2>11. Grid!Age(f) \in Int /\ Grid!Age(f) >= p.stale /\ ~(Grid!Age(f) <= p.live) /\ ~(Grid!Age(f) < p.stale)
    BY <2>5, <2>6, <2>7, <2>8, <2>9, <2>10
  <2> QED BY <2>11 DEF Grid!Grade
<1> HIDE DEF lag, age
<1>4. Grid!State(f) \in 0..2 /\ Grid!State(f) >= age
    BY <1>1, <1>2, WorseOf
<1> QED BY <1>3, <1>4

\* The invariant is what SnapshotHonest promises.
LEMMA GridEnd == GridInv => Grid!SnapshotHonest
<1> SUFFICES ASSUME GridInv, reply # Grid!None
             PROVE  IF reply.ok THEN Grid!NothingSuperseded /\ Grid!VerdictsAgree /\ reply.effective <= reply.at
                    ELSE \E f \in Grid!Required : {r \in seen : r.fam = f} = {}
    BY DEF Grid!SnapshotHonest
<1>1. /\ Len(got.parts) = 7 /\ reply.at = got.at
      /\ IF reply.ok
         THEN /\ \A f \in Grid!Required : Grid!Family(f) # {}
              /\ reply.readings = Grid!Readings /\ reply.summary = Grid!Summary
              /\ reply.effective = Grid!Max({r.at : r \in Grid!Readings})
         ELSE \E f \in Grid!Required : Grid!Family(f) = {}
    BY DEF GridInv, GridAnswer
<1>2. CASE ~reply.ok
    BY <1>1, <1>2, RefusedIsEmpty
<1>3. CASE reply.ok
  <2>1. Grid!NothingSuperseded
    <3> SUFFICES ASSUME NEW f \in Grid!Families, NEW r \in seen, r.fam = f, r.at <= got.at,
                        f = "interconnectors" => r.at >= got.at - 6
                 PROVE  \E q \in Grid!Readings :
                           /\ q.fam = f
                           /\ \/ q.series = r.series /\ ~Grid!Newer(r, q)
                              \/ f = "generation" /\ q.at > r.at
        BY <1>1, <1>3 DEF Grid!NothingSuperseded, Grid!Held
    <3>1. PICK n \in 1..5 : OfPart[n] = f /\ (n = 4 <=> f = "interconnectors")
      BY DEF OfPart, Grid!Families
    <3>2. PartHolds(n, got.parts[n], seen, got.at) /\ got.parts[n] \subseteq Grid!Readings
      BY <1>1, ReadingsAre
    <3>3. Covered(r, got.parts[n])
      BY <3>1, <3>2 DEF PartHolds
    <3>4. \A q \in got.parts[n] : q.fam = f /\ q \in Grid!Readings
      BY <3>1, <3>2 DEF PartHolds
    <3> QED BY <3>3, <3>4 DEF Covered
  <2>2. Grid!VerdictsAgree
    <3> SUFFICES ASSUME NEW r \in Grid!Readings, r.fam \in Grid!Required, Grid!IsStale(r)
                 PROVE  Grid!Summary = "stale"
        BY <1>1, <1>3 DEF Grid!VerdictsAgree
    <3> DEFINE states == {Grid!State(f) : f \in Grid!Required}
    <3>1. r \in Grid!Family(r.fam)
      BY DEF Grid!Family
    <3>2. Grid!State(r.fam) = 2
      BY <1>1, <1>3, <3>1, StateOf
    <3>3. states \subseteq 0..2 /\ 2 \in states
      BY <1>1, <1>3, <3>2, StateOf
    <3> HIDE DEF states
    <3>4. IsFiniteSet(states) /\ states \subseteq Int /\ states # {}
      <4>1. IsFiniteSet(states)
        BY ONLY <3>3, FewAreFinite, FS_Subset
      <4> QED BY <3>3, <4>1
    <3>5. Grid!Max(states) \in states /\ \A x \in states : x <= Grid!Max(states)
      BY <3>4, GreatestIs
    <3>6. Grid!Max(states) = 2
      <4>1. Grid!Max(states) \in 0..2 /\ 2 <= Grid!Max(states)
        BY <3>3, <3>5
      <4> QED BY <4>1
    <3>7. Grid!Summary = <<"mixed", "delayed", "stale", "unavailable">>[1 + Grid!Max(states)]
      BY DEF Grid!Summary, states
    <3> QED BY <3>6, <3>7
  <2>3. reply.effective <= reply.at
    <3> DEFINE Ats == {r.at : r \in Grid!Readings}
               g == [r \in Grid!Readings |-> r.at]
    <3>1. g \in Surjection(Grid!Readings, Ats)
      BY DEF Surjection
    <3>2. Grid!Readings # {}
      <4>1. Grid!Family("demand") # {}
        BY <1>1, <1>3 DEF Grid!Required
      <4> QED BY <4>1 DEF Grid!Family
    <3>3. IsFiniteSet(Ats) /\ Ats # {} /\ Ats \subseteq Int
      BY <1>1, <3>1, <3>2, ReadingsAre, FS_Surjection DEF GridRows
    <3>4. \A x \in Ats : x <= got.at
      BY <1>1, ReadingsAre
    <3>5. reply.effective = Grid!Max(Ats)
      BY <1>1, <1>3
    <3> HIDE DEF Ats
    <3> QED BY <1>1, <3>3, <3>4, <3>5, GreatestIs
  <2> QED BY <1>3, <2>1, <2>2, <2>3
<1> QED BY <1>2, <1>3

\* The present, while the reads are of the present.
GridHolds == reads = "grid" => GridInv

\* In the composition the grid readings keep their invariant.
LEMMA GridKept == ReadsSpec => []GridHolds
<1>1. ReadsInit => GridHolds
    BY GridStart DEF ReadsInit, GridHolds
<1>2. GridHolds /\ [ReadsNext]_readVars => GridHolds'
  <2> SUFFICES ASSUME GridHolds, [ReadsNext]_readVars, reads' = "grid" PROVE GridInv'
      BY DEF GridHolds
  <2>1. CASE ReadsNext
    <3>1. reads = "grid" /\ Grid!Next
      BY <2>1 DEF ReadsNext
    <3> QED BY <3>1, GridNext DEF GridHolds
  <2>2. CASE UNCHANGED readVars
    <3>1. UNCHANGED Grid!vars /\ reads = "grid"
      BY <2>2 DEF readVars, gridVars, Grid!vars
    <3> QED BY <3>1, GridNext DEF GridHolds
  <2> QED BY <2>1, <2>2
<1> QED BY <1>1, <1>2, PTL DEF ReadsSpec

\* SnapshotHonest: whatever is delivered between the statements of a request for the present,
\* its answer shows nothing that was superseded when it began, its two verdicts on freshness
\* agree, and it is refused only for a family that was empty (api/presenter.py, api/status.py,
\* persistence/reads.py).
THEOREM SnapshotIsHonest == ReadsSpec => []SnapshotHonest
<1>1. GridHolds => SnapshotHonest
    BY GridEnd DEF GridHolds, SnapshotHonest
<1> QED BY <1>1, GridKept, PTL

-----------------------------------------------------------------------------
(* The map of sites. *)

\* The library's operators are the same in this instance.
LEMMA MapLibrary ==
  /\ \A S : Map!Cardinality(S) = Cardinality(S)
  /\ \A S : Map!IsFiniteSet(S) <=> IsFiniteSet(S)
BY DEF Map!Cardinality, Cardinality, Map!IsFiniteSet, IsFiniteSet

\* A common part of two names is told by both.
LEMMA ContainedTells ==
  ASSUME NEW m \in Seq(STRING), NEW n \in Seq(STRING), Map!Contained(m, n)
  PROVE  Map!Telling(m) \cap Map!Telling(n) # {}
<1> DEFINE short == IF Len(m) <= Len(n) THEN m ELSE n
           long == IF Len(m) <= Len(n) THEN n ELSE m
<1>1. PICK i \in 0..(Len(long) - Len(short)) : SubSeq(long, i + 1, i + Len(short)) = short
    BY DEF Map!Contained
<1>2. Map!Telling(short) # {} /\ short \in Seq(STRING) /\ long \in Seq(STRING)
    BY DEF Map!Contained
<1>3. PICK w \in Map!Telling(short) : TRUE
    BY <1>2
<1> HIDE DEF short, long
<1>4. PICK j \in 1..Len(short) : short[j] = w
    BY <1>2, <1>3 DEF Map!Telling, Map!ToSet
<1>5. i + j \in 1..Len(long) /\ long[i + j] = w
  <2>1. Len(short) \in Nat /\ Len(long) \in Nat /\ i \in Int /\ 0 <= i /\ i + Len(short) <= Len(long)
    BY <1>2
  <2>2. i + j \in 1..Len(long)
    BY <2>1
  <2>3. SubSeq(long, i + 1, i + Len(short))[j] = long[(i + 1) + j - 1]
    BY <1>2, <2>1, SubSeqProperties
  <2>4. (i + 1) + j - 1 = i + j
    BY <2>1
  <2> QED BY <1>1, <1>4, <2>2, <2>3, <2>4
<1>6. w \in Map!Telling(long)
    BY <1>2, <1>3, <1>5 DEF Map!Telling, Map!ToSet
<1> QED BY <1>3, <1>6 DEF short, long

\* A unit that fits a site shares a telling token with it, so the index loses none.
LEMMA StrongIsPossible ==
  ASSUME NEW s, s.name \in Seq(STRING), NEW u, u.name \in Seq(STRING), u.party \in Seq(STRING),
         Map!Strong(s, u)
  PROVE  Map!Telling(s.name) \cap (Map!Telling(u.name) \cup Map!Telling(u.party)) # {}
<1>1. Map!Telling(s.name) # {}
    BY DEF Map!Strong
<1>2. CASE s.name = u.name \/ s.name = u.party
    BY <1>1, <1>2
<1>3. CASE Map!Contained(s.name, u.name)
    BY <1>3, ContainedTells
<1>4. CASE Map!Contained(s.name, u.party)
    BY <1>4, ContainedTells
<1> QED BY <1>2, <1>3, <1>4 DEF Map!Strong

Fits(s, U) == {u.id : u \in {v \in U : Map!Strong(s, v)}}

\* The candidates that are strong are the units that fit a site.
LEMMA LinkedFits ==
  ASSUME NEW s, s.name \in Seq(STRING), NEW U,
         \A u \in U : u.name \in Seq(STRING) /\ u.party \in Seq(STRING)
  PROVE  Map!Linked(s, U) = Fits(s, U)
<1>1. \A u \in U : Map!Strong(s, u) => u \in Map!Possible(s, U)
    BY StrongIsPossible DEF Map!Possible
<1> QED BY <1>1 DEF Map!Linked, Map!Possible, Fits

\* The links of a reading: the site's only unit, which no other site claims alone.
Unique(s, S, U) ==
  /\ Map!Cardinality(Fits(s, U)) = 1
  /\ \A q \in S \ {s} : Fits(q, U) # Fits(s, U)

\* A link is made for a site with one fitting unit that fits no other site alone.
LEMMA LinksAre ==
  ASSUME NEW S, \A s \in S : s.name \in Seq(STRING),
         NEW U, \A u \in U : u.name \in Seq(STRING) /\ u.party \in Seq(STRING)
  PROVE  /\ DOMAIN Map!Links(S, U) = {s \in S : Unique(s, S, U)}
         /\ \A s \in DOMAIN Map!Links(S, U) : Map!Links(S, U)[s] \in Fits(s, U)
<1> DEFINE decided == {s \in S : Map!Cardinality(Map!Linked(s, U)) = 1}
           linked == {t \in decided : \A q \in decided \ {t} : Map!Linked(q, U) # Map!Linked(t, U)}
<1>1. \A s \in S : Map!Linked(s, U) = Fits(s, U)
    BY LinkedFits
<1>2. Map!Links(S, U) = [s \in linked |-> CHOOSE id \in Map!Linked(s, U) : TRUE]
    BY DEF Map!Links
<1>3. linked = {s \in S : Unique(s, S, U)}
    BY <1>1 DEF Unique
<1>4. ASSUME NEW s \in linked PROVE Map!Links(S, U)[s] \in Fits(s, U)
  <2>0. s \in S /\ Unique(s, S, U)
    BY <1>3, <1>4
  <2>1. Map!Cardinality({}) = 0
    BY FS_EmptySet, MapLibrary
  <2>2. Fits(s, U) # {}
    <3>1. Map!Cardinality(Fits(s, U)) = 1
      BY <2>0 DEF Unique
    <3>2. SUFFICES ASSUME Fits(s, U) = {} PROVE FALSE
      OBVIOUS
    <3>3. Map!Cardinality({}) = 1
      BY <3>1, <3>2
    <3> QED BY <2>1, <3>3
  <2> QED BY <1>1, <1>2, <1>4, <2>0, <2>2
<1> QED BY <1>2, <1>3, <1>4

-----------------------------------------------------------------------------

SettledRow == [unit : Metered, interval : Int, ret : Int, rev : Nat]

\* What a request has read of the two datasets.
Catalogue(snap) ==
  /\ \E S \in SiteSets, U \in UnitSets :
       /\ snap.sites = Map!Readable(S) /\ snap.units = Map!References(U)
       /\ snap.links = Map!Links(snap.sites, snap.units)
  /\ snap.read \in Int /\ snap.out \in Int

\* A request is a record of where it is, its moment, what it has read and its answer.
IsRequest(x) ==
  x \in [pc : {x.pc}, instant : Int, snap : {x.snap}, answer : {x.answer}]

InTime(x) == x.snap.read >= x.instant \/ x.instant < x.snap.out + TTL

\* Where a request is says what it has.
RequestHas(x) ==
  /\ x.pc \in {"publish", "evidence", "done"} => Catalogue(x.snap)
  /\ x.pc = "publish" => x.snap.read >= x.instant
  /\ x.pc \in {"evidence", "done"} => InTime(x)

LinkShown(x, snap) ==
  x.unit # Map!None <=> Unique(x.site, snap.sites, snap.units)

\* A figure shown is not superseded but by what was stored since the moment.
FigureHolds(e, instant) ==
  /\ e.interval <= instant /\ e.ret <= instant
  /\ \A f \in energy : f.unit = e.unit /\ f.interval = e.interval /\ f.rev > e.rev => f.ret >= instant

MapType ==
  /\ moment \in Int /\ expires \in Int
  /\ sites \in SiteSets /\ units \in UnitSets
  /\ energy \in SUBSET SettledRow /\ IsFiniteSet(energy)
  /\ DOMAIN reader = Readers
  /\ \A r \in Readers : IsRequest(reader[r]) /\ reader[r].instant <= moment

MapInv ==
  /\ MapType
  /\ snapshot # Map!NoSnapshot => Catalogue(snapshot) /\ expires = snapshot.out + TTL
  /\ \A r \in Readers :
       /\ RequestHas(reader[r])
       /\ reader[r].pc = "done" =>
            \A x \in reader[r].answer :
              /\ LinkShown(x, reader[r].snap)
              /\ \A e \in x.energy : FigureHolds(e, reader[r].instant)

\* At the start there is no catalogue and nobody reads.
LEMMA MapStart == Map!Init => MapInv
<1> SUFFICES ASSUME Map!Init PROVE MapInv
    OBVIOUS
<1>1. MapType
    BY FS_EmptySet DEF Map!Init, MapType, IsRequest, Map!Idle
<1>2. \A r \in Readers : reader[r].pc = "idle"
    BY DEF Map!Init, Map!Idle
<1> QED BY <1>1, <1>2 DEF MapInv, Map!Init, RequestHas

\* The catalogue that is read is of sites and units of the configuration.
LEMMA SnapshotReads ==
  ASSUME MapInv
  PROVE  /\ Catalogue(Map!Snapshot(sites, units)) /\ Map!Snapshot(sites, units).read = moment
         /\ Map!Snapshot(sites, units).out = moment
BY DEF MapInv, MapType, Catalogue, Map!Snapshot

\* What a catalogue links is unique in it.
LEMMA CatalogueLinks ==
  ASSUME NEW snap, Catalogue(snap)
  PROVE  /\ DOMAIN snap.links = {s \in snap.sites : Unique(s, snap.sites, snap.units)}
         /\ \A s \in DOMAIN snap.links : snap.links[s] # Map!None
<1>1. PICK S \in SiteSets, U \in UnitSets :
       /\ snap.sites = Map!Readable(S) /\ snap.units = Map!References(U)
       /\ snap.links = Map!Links(snap.sites, snap.units)
    BY DEF Catalogue
<1>2. /\ \A s \in snap.sites : s.name \in Seq(STRING)
      /\ \A u \in snap.units : u.name \in Seq(STRING) /\ u.party \in Seq(STRING) /\ u.id # Map!None
    BY <1>1, MapSettings DEF Map!MapAssumption, Map!Readable, Map!References
<1>3. /\ DOMAIN Map!Links(snap.sites, snap.units) = {s \in snap.sites : Unique(s, snap.sites, snap.units)}
      /\ \A s \in DOMAIN Map!Links(snap.sites, snap.units) :
            Map!Links(snap.sites, snap.units)[s] \in Fits(s, snap.units)
    BY <1>2, LinksAre
<1> QED BY <1>1, <1>2, <1>3 DEF Fits

\* The newest figures of a unit, of the moment of the request.
LEMMA EvidenceHolds ==
  ASSUME MapInv, NEW row, NEW depth, NEW t \in Int,
         NEW e \in Map!LatestSettled(row, depth), e.interval <= t, e.ret <= t
  PROVE  FigureHolds(e, t)
<1>1. e \in energy /\ e.unit = row
      /\ \A f \in energy : f.unit = row /\ f.interval = e.interval => f.rev <= e.rev
    BY DEF Map!LatestSettled
<1>2. \A f \in energy : f.rev \in Nat
    BY DEF MapInv, MapType, SettledRow
<1> QED BY <1>1, <1>2 DEF FigureHolds

\* One request moves.
LEMMA ReaderMoves ==
  ASSUME MapInv, NEW r \in Readers, NEW x, IsRequest(x), x.instant <= moment, RequestHas(x),
         x.pc = "done" => \A a \in x.answer : /\ LinkShown(a, x.snap)
                                             /\ \A e \in a.energy : FigureHolds(e, x.instant),
         reader' = [reader EXCEPT ![r] = x], UNCHANGED <<moment, sites, units, energy>>,
         expires' \in Int, snapshot' # Map!NoSnapshot => Catalogue(snapshot') /\ expires' = snapshot'.out + TTL
  PROVE  MapInv'
<1>1. DOMAIN reader' = Readers /\ reader'[r] = x /\ \A q \in Readers \ {r} : reader'[q] = reader[q]
    BY DEF MapInv, MapType
<1>2. MapType'
    BY <1>1 DEF MapInv, MapType
<1>3. ASSUME NEW q \in Readers
      PROVE  /\ RequestHas(reader'[q])
             /\ reader'[q].pc = "done" =>
                  \A a \in reader'[q].answer :
                    /\ LinkShown(a, reader'[q].snap)
                    /\ \A e \in a.energy : FigureHolds(e, reader'[q].instant)
    BY <1>1 DEF MapInv
<1> QED BY <1>2, <1>3 DEF MapInv, FigureHolds

\* A step of a request leaves every catalogue and answer one of its instant.
LEMMA RequestStep ==
  ASSUME MapInv, NEW r \in Readers,
         Map!Ask(r) \/ Map!LoadCatalog(r) \/ Map!Publish(r) \/ Map!LoadEvidence(r)
  PROVE  MapInv'
<1>0. /\ UNCHANGED <<moment, sites, units, energy>> /\ moment \in Int /\ expires \in Int /\ TTL \in Int
      /\ IsRequest(reader[r]) /\ reader[r].instant <= moment /\ RequestHas(reader[r])
    BY MapSettings DEF Map!Ask, Map!LoadCatalog, Map!Publish, Map!LoadEvidence, Map!MapAssumption, MapInv, MapType
<1>c. snapshot # Map!NoSnapshot => Catalogue(snapshot) /\ expires = snapshot.out + TTL
    BY DEF MapInv
<1>1. CASE Map!Ask(r)
  <2>1. CASE /\ Map!Hit
             /\ reader' = [reader EXCEPT ![r] = [@ EXCEPT !.pc = "evidence", !.instant = moment,
                                                !.snap = snapshot, !.answer = {}]]
    <3> DEFINE x == [reader[r] EXCEPT !.pc = "evidence", !.instant = moment, !.snap = snapshot, !.answer = {}]
    <3>1. reader' = [reader EXCEPT ![r] = x] /\ snapshot # Map!NoSnapshot /\ moment < expires /\ expires' = expires
          /\ UNCHANGED snapshot
      BY <1>1, <2>1 DEF Map!Hit, Map!Ask
    <3>2. /\ x.pc = "evidence" /\ x.instant = moment /\ x.snap = snapshot /\ x.answer = {}
          /\ x \in [pc : {"evidence"}, instant : Int, snap : {snapshot}, answer : {{}}]
      BY <1>0 DEF IsRequest
    <3> HIDE DEF x
    <3>3. IsRequest(x) /\ x.instant <= moment /\ x.pc = "evidence" /\ x.snap = snapshot /\ x.instant = moment
      BY <1>0, <3>2 DEF IsRequest
    <3>4. RequestHas(x)
      BY <1>0, <1>c, <3>1, <3>3 DEF RequestHas, InTime
    <3> QED BY <1>0, <1>c, <3>1, <3>3, <3>4, ReaderMoves
  <2>2. CASE /\ snapshot = Map!NoSnapshot \/ moment >= expires
             /\ reader' = [reader EXCEPT ![r] = [@ EXCEPT !.pc = "load", !.instant = moment, !.answer = {}]]
             /\ UNCHANGED expires
    <3> DEFINE x == [reader[r] EXCEPT !.pc = "load", !.instant = moment, !.answer = {}]
    <3>1. reader' = [reader EXCEPT ![r] = x] /\ UNCHANGED snapshot
      BY <1>1, <2>2 DEF Map!Ask
    <3>2. /\ x.pc = "load" /\ x.instant = moment /\ x.snap = reader[r].snap /\ x.answer = {}
          /\ x \in [pc : {"load"}, instant : Int, snap : {reader[r].snap}, answer : {{}}]
      BY <1>0 DEF IsRequest
    <3> HIDE DEF x
    <3>3. IsRequest(x) /\ x.instant <= moment /\ x.pc = "load"
      BY <1>0, <3>2 DEF IsRequest
    <3>4. RequestHas(x)
      BY <3>3 DEF RequestHas
    <3> QED BY <1>0, <1>c, <2>2, <3>1, <3>3, <3>4, ReaderMoves
  <2> QED BY <1>1, <2>1, <2>2 DEF Map!Ask
<1>2. CASE Map!LoadCatalog(r)
  <2> DEFINE snap == Map!Snapshot(sites, units)
             x == [reader[r] EXCEPT !.pc = "publish", !.snap = snap]
  <2>1. reader' = [reader EXCEPT ![r] = x] /\ UNCHANGED <<snapshot, expires>>
    BY <1>2 DEF Map!LoadCatalog
  <2>2. Catalogue(snap) /\ snap.read = moment /\ snap.out = moment
    BY SnapshotReads
  <2> HIDE DEF snap
  <2>3. /\ x.pc = "publish" /\ x.instant = reader[r].instant /\ x.snap = snap /\ x.answer = reader[r].answer
        /\ x \in [pc : {"publish"}, instant : Int, snap : {snap}, answer : {reader[r].answer}]
    BY <1>0 DEF IsRequest
  <2> HIDE DEF x
  <2>4. IsRequest(x) /\ x.instant <= moment /\ x.pc = "publish" /\ x.snap = snap /\ x.instant = reader[r].instant
    BY <1>0, <2>3 DEF IsRequest
  <2>5. RequestHas(x)
    BY <1>0, <2>2, <2>4 DEF RequestHas, IsRequest
  <2> QED BY <1>0, <1>c, <2>1, <2>4, <2>5, ReaderMoves
<1>3. CASE Map!Publish(r)
  <2> DEFINE snap == reader[r].snap
             x == [reader[r] EXCEPT !.pc = "evidence"]
  <2>1. /\ reader' = [reader EXCEPT ![r] = x] /\ reader[r].pc = "publish"
        /\ snapshot' = [snap EXCEPT !.out = moment] /\ expires' = moment + TTL
    BY <1>3 DEF Map!Publish, Map!At
  <2>2. Catalogue(snap) /\ snap.read >= reader[r].instant
    BY <1>0, <2>1 DEF RequestHas
  <2>3. /\ x.pc = "evidence" /\ x.instant = reader[r].instant /\ x.snap = snap /\ x.answer = reader[r].answer
        /\ x \in [pc : {"evidence"}, instant : Int, snap : {snap}, answer : {reader[r].answer}]
    BY <1>0 DEF IsRequest
  <2> HIDE DEF x
  <2>4. IsRequest(x) /\ x.instant <= moment /\ x.pc = "evidence" /\ x.snap = snap /\ x.instant = reader[r].instant
    BY <1>0, <2>3 DEF IsRequest
  <2>5. RequestHas(x)
    BY <2>2, <2>4 DEF RequestHas, InTime
  <2>6. Catalogue(snapshot') /\ snapshot'.out = moment
    BY <1>0, <2>1, <2>2 DEF Catalogue
  <2>7. expires' = snapshot'.out + TTL /\ expires' \in Int
    BY <1>0, <2>1, <2>6
  <2> HIDE DEF snap
  <2> QED BY <1>0, <2>1, <2>4, <2>5, <2>6, <2>7, ReaderMoves
<1>4. CASE Map!LoadEvidence(r)
  <2> DEFINE snap == reader[r].snap
             t == reader[r].instant
             given == {Map!Shown(s, r) : s \in Map!Selected(r)}
             x == [reader[r] EXCEPT !.pc = "done", !.answer = given]
  <2>1. reader' = [reader EXCEPT ![r] = x] /\ reader[r].pc = "evidence" /\ UNCHANGED <<snapshot, expires>>
    BY <1>4 DEF Map!LoadEvidence, Map!At
  <2>2. Catalogue(snap) /\ InTime(reader[r]) /\ t \in Int
    BY <1>0, <2>1 DEF RequestHas, IsRequest
  <2>3. ASSUME NEW s \in Map!Selected(r)
        PROVE  /\ LinkShown(Map!Shown(s, r), snap)
               /\ \A e \in Map!Shown(s, r).energy : FigureHolds(e, t)
    <3>1. s \in snap.sites
      BY DEF Map!Selected, Map!Served
    <3>2. /\ DOMAIN snap.links = {q \in snap.sites : Unique(q, snap.sites, snap.units)}
          /\ \A q \in DOMAIN snap.links : snap.links[q] # Map!None
      BY <2>2, CatalogueLinks
    <3>3. CASE s \notin DOMAIN snap.links
      <4>1. Map!Shown(s, r) = [site |-> s, unit |-> Map!None, energy |-> {}]
        BY <3>3 DEF Map!Shown
      <4> QED BY <3>1, <3>2, <3>3, <4>1 DEF LinkShown
    <3>4. CASE s \in DOMAIN snap.links
      <4> DEFINE id == snap.links[s]
                 first == Map!Min({u.row : u \in {v \in snap.units : v.id = id}})
                 figures == {e \in Map!LatestSettled(first, Depth[r]) : e.interval <= t /\ e.ret <= t}
      <4>1. Map!Shown(s, r) = [site |-> s, unit |-> id, energy |-> figures]
        BY <3>4 DEF Map!Shown
      <4> HIDE DEF first
      <4>2. \A e \in figures : FigureHolds(e, t)
        BY <2>2, EvidenceHolds
      <4> HIDE DEF figures
      <4> QED BY <3>1, <3>2, <3>4, <4>1, <4>2 DEF LinkShown
    <3> QED BY <3>3, <3>4
  <2>4. \A a \in given : LinkShown(a, snap) /\ \A e \in a.energy : FigureHolds(e, t)
    BY <2>3
  <2> HIDE DEF given
  <2>5. /\ x.pc = "done" /\ x.instant = t /\ x.snap = snap /\ x.answer = given
        /\ x \in [pc : {"done"}, instant : Int, snap : {snap}, answer : {given}]
    BY <1>0 DEF IsRequest
  <2> HIDE DEF x
  <2>6. IsRequest(x) /\ x.instant <= moment /\ x.pc = "done" /\ x.snap = snap /\ x.instant = t /\ x.answer = given
    BY <1>0, <2>2, <2>5 DEF IsRequest
  <2>7. RequestHas(x)
    BY <2>2, <2>6 DEF RequestHas, InTime
  <2> QED BY <1>0, <1>c, <2>1, <2>4, <2>6, <2>7, ReaderMoves
<1> QED BY <1>1, <1>2, <1>3, <1>4

\* A settlement stores a revision that is of this moment.
LEMMA SettleStep ==
  ASSUME MapInv, NEW row \in Metered, NEW n \in Intervals, Map!Settle(row, n)
  PROVE  MapInv'
<1> DEFINE new == [unit |-> row, interval |-> n, ret |-> moment,
                   rev |-> Map!Cardinality({e \in energy : e.unit = row /\ e.interval = n})]
<1>1. energy' = energy \cup {new} /\ UNCHANGED <<moment, sites, units, snapshot, expires, reader>>
    BY DEF Map!Settle
<1>2. new \in SettledRow /\ new.ret = moment
  <2>1. IsFiniteSet({e \in energy : e.unit = row /\ e.interval = n})
    BY FS_Subset DEF MapInv, MapType
  <2>2. new.rev \in Nat
    BY <2>1, FS_CardinalityType, MapLibrary
  <2>3. moment \in Int /\ n \in Int
    BY MapSettings DEF MapInv, MapType, Map!MapAssumption
  <2> QED BY <2>2, <2>3 DEF SettledRow
<1> HIDE DEF new
<1>3. MapType'
    BY <1>1, <1>2, FS_AddElement DEF MapInv, MapType
<1>4. ASSUME NEW r \in Readers, NEW e, FigureHolds(e, reader[r].instant)
      PROVE  FigureHolds(e, reader[r].instant)'
  <2>1. reader[r].instant \in Int /\ reader[r].instant <= moment /\ moment \in Int
    BY DEF MapInv, MapType, IsRequest
  <2> QED BY <1>1, <1>2, <1>4, <2>1 DEF FigureHolds
<1> QED BY <1>1, <1>3, <1>4 DEF MapInv

\* Every step of the map keeps the invariant.
LEMMA MapNext == MapInv /\ [Map!Next]_Map!vars => MapInv'
<1> SUFFICES ASSUME MapInv, [Map!Next]_Map!vars PROVE MapInv'
    OBVIOUS
<1>1. CASE Map!Tick
  <2>1. moment' = moment + 1 /\ UNCHANGED <<sites, units, energy, snapshot, expires, reader>>
    BY <1>1 DEF Map!Tick
  <2>2. MapType'
    BY <2>1 DEF MapInv, MapType, IsRequest
  <2> QED BY <2>1, <2>2 DEF MapInv, FigureHolds
<1>2. ASSUME NEW S \in SiteSets, Map!DeliverSites(S) PROVE MapInv'
    BY <1>2 DEF Map!DeliverSites, MapInv, MapType, FigureHolds
<1>3. ASSUME NEW U \in UnitSets, Map!DeliverUnits(U) PROVE MapInv'
    BY <1>3 DEF Map!DeliverUnits, MapInv, MapType, FigureHolds
<1>4. CASE UNCHANGED Map!vars
    BY <1>4 DEF Map!vars, MapInv, MapType, FigureHolds
<1> QED BY <1>1, <1>2, <1>3, <1>4, RequestStep, SettleStep DEF Map!Next

\* The invariant is what MapHonest promises.
LEMMA MapEnd == MapInv => Map!MapHonest
<1> SUFFICES ASSUME MapInv PROVE Map!MapHonest
    OBVIOUS
<1>1. Map!LinksUnique
  <2> SUFFICES ASSUME NEW r \in Map!Answered, NEW x \in reader[r].answer
               PROVE  LinkShown(x, reader[r].snap)
      BY DEF Map!LinksUnique, LinkShown, Unique, Fits
  <2> QED BY DEF MapInv, Map!Answered, Map!At
<1>2. Map!EvidenceAsOf
    BY DEF MapInv, Map!Answered, Map!At, Map!EvidenceAsOf, FigureHolds
<1>3. Map!CatalogueRecent
    BY DEF MapInv, Map!Answered, Map!At, Map!CatalogueRecent, RequestHas, InTime
<1> QED BY <1>1, <1>2, <1>3 DEF Map!MapHonest

-----------------------------------------------------------------------------
\* The map, while the reads are of the map.
MapHolds == reads = "map" => MapInv

\* In the composition the map keeps its invariant.
LEMMA MapKept == ReadsSpec => []MapHolds
<1>1. ReadsInit => MapHolds
    BY MapStart DEF ReadsInit, MapHolds
<1>2. MapHolds /\ [ReadsNext]_readVars => MapHolds'
  <2> SUFFICES ASSUME MapHolds, [ReadsNext]_readVars, reads' = "map" PROVE MapInv'
      BY DEF MapHolds
  <2>1. CASE ReadsNext
    <3>1. reads = "map" /\ Map!Next
      BY <2>1 DEF ReadsNext
    <3> QED BY <3>1, MapNext DEF MapHolds
  <2>2. CASE UNCHANGED readVars
    <3>1. UNCHANGED Map!vars /\ reads = "map"
      BY <2>2 DEF readVars, mapVars, Map!vars
    <3> QED BY <3>1, MapNext DEF MapHolds
  <2> QED BY <2>1, <2>2
<1> QED BY <1>1, <1>2, PTL DEF ReadsSpec

\* MapHonest: on the map of sites a link is shown exactly when it is unique, no figure is of
\* after its request or superseded before it, and no catalogue outlives its cache
\* (assets/service.py:255-345, assets/linking.py).
THEOREM MapIsHonest == ReadsSpec => []MapHonest
<1>1. MapHolds => MapHonest
    BY MapEnd DEF MapHolds, MapHonest
<1> QED BY <1>1, MapKept, PTL

-----------------------------------------------------------------------------
(* The recent past (Timeline). *)

\* The library's operators are the same here too.
LEMMA PastLibrary ==
  /\ \A S : Past!Cardinality(S) = Cardinality(S) /\ Past!IsFiniteSet(S) = IsFiniteSet(S)
  /\ \A s : Past!ToSet(s) = {s[i] : i \in DOMAIN s}
BY DEF Past!Cardinality, Cardinality, Past!IsFiniteSet, IsFiniteSet, Past!ToSet

PastTypes == input \in Inputs /\ request \in Ranges

\* What the settings say of the numbers in rows and requests.
LEMMA PastNumbers ==
  ASSUME PastTypes
  PROVE  /\ Resolution \in Nat \ {0} /\ MaterialGap \in Int
         /\ Past!start \in Int /\ Past!end \in Int /\ request.now \in Int
         /\ \A r \in input : r.at \in Int /\ r.rev \in Int
<1>1. /\ Resolution \in Nat \ {0} /\ MaterialGap \in Int
      /\ \A I \in Inputs : \A r \in I : r.at \in Int /\ r.rev \in Int
      /\ \A r \in Ranges : r.start \in Int /\ r.end \in Int /\ r.now \in Int
    BY PastSettings, Zenon DEF Past!TimelineAssumption
<1>2. request.start \in Int /\ request.end \in Int /\ request.now \in Int
    BY <1>1 DEF PastTypes
<1> QED BY <1>1, <1>2 DEF PastTypes, Past!start, Past!end

\* What the settings say of the rows of a family.
LEMMA PastRows ==
  ASSUME PastTypes
  PROVE  /\ IsFiniteSet(input)
         /\ \A r \in input : r.fam \notin Past!Families => r.issued \in Int
         /\ \A q, r \in input : q.fam = r.fam =>
              /\ q.fam \in Past!Families \ {"generation"} => q.series = r.series
              /\ q.fam \notin Past!Families /\ q.at = r.at => q.length = r.length
<1>1. \A I \in Inputs :
        /\ Past!IsFiniteSet(I)
        /\ \A r \in I : r.fam \notin Past!Families => r.issued \in Int
        /\ \A q, r \in I : q.fam = r.fam =>
              /\ q.fam \in Past!Families \ {"generation"} => q.series = r.series
              /\ q.fam \notin Past!Families /\ q.at = r.at => q.length = r.length
    BY PastSettings, Zenon DEF Past!TimelineAssumption
<1> QED BY <1>1, PastLibrary, Zenon DEF PastTypes

\* The smaller and the larger of two moments.
LEMMA PastLeast ==
  ASSUME NEW a \in Int, NEW b \in Int
  PROVE  /\ Past!Min({a, b}) = IF a <= b THEN a ELSE b
         /\ Past!Max({a, b}) = IF a >= b THEN a ELSE b
<1> DEFINE m == IF a <= b THEN a ELSE b
           n == IF a >= b THEN a ELSE b
<1>1. m \in {a, b} /\ \A x \in {a, b} : m <= x
    OBVIOUS
<1>2. \A x \in {a, b} : (\A y \in {a, b} : x <= y) => x = m
    OBVIOUS
<1>3. n \in {a, b} /\ \A x \in {a, b} : n >= x
    OBVIOUS
<1>4. \A x \in {a, b} : (\A y \in {a, b} : x >= y) => x = n
    OBVIOUS
<1>5. /\ Past!Min({a, b}) = CHOOSE x \in {a, b} : \A y \in {a, b} : x <= y
      /\ Past!Max({a, b}) = CHOOSE x \in {a, b} : \A y \in {a, b} : x >= y
    BY DEF Past!Min, Past!Max
<1> HIDE DEF m, n
<1>6. Past!Min({a, b}) = m
    BY <1>1, <1>2, <1>5
<1>7. Past!Max({a, b}) = n
    BY <1>3, <1>4, <1>5
<1> QED BY <1>6, <1>7 DEF m, n

\* A moment lies in its bucket.
LEMMA BucketOf ==
  ASSUME Resolution \in Nat \ {0}, NEW t \in Int
  PROVE  /\ Past!Bucket(t) \in Int /\ Past!Bucket(t) <= t /\ t < Past!Bucket(t) + Resolution
         /\ Past!Bucket(t) % Resolution = 0
         /\ t \div Resolution \in Int /\ Past!Bucket(t) = (t \div Resolution) * Resolution
BY DEF Past!Bucket

\* Buckets come one after another.
LEMMA BucketStep ==
  ASSUME Resolution \in Nat \ {0},
         NEW b \in Int, b % Resolution = 0, NEW c \in Int, c % Resolution = 0, b < c
  PROVE  b <= c - Resolution /\ (c - Resolution) % Resolution = 0
<1>1. PICK k \in Int : b = k * Resolution
    OBVIOUS
<1>2. PICK j \in Int : c = j * Resolution
    OBVIOUS
<1>3. k < j
  <2> SUFFICES ASSUME k >= j PROVE FALSE
    OBVIOUS
  <2>1. (k - j) * Resolution >= 0
    OBVIOUS
  <2>2. (k - j) * Resolution = b - c
    BY <1>1, <1>2
  <2> QED BY <2>1, <2>2
<1>4. (j - 1) * Resolution = c - Resolution
    BY <1>2
<1>5. b <= c - Resolution
  <2>1. ((j - 1) - k) * Resolution >= 0
    BY <1>3
  <2>2. ((j - 1) - k) * Resolution = (c - Resolution) - b
    BY <1>1, <1>4
  <2> QED BY <2>1, <2>2
<1>6. ((j - 1) * Resolution) % Resolution = 0
    OBVIOUS
<1> QED BY <1>4, <1>5, <1>6

\* Earlier moments are in earlier buckets.
LEMMA BucketOrder ==
  ASSUME Resolution \in Nat \ {0}, NEW s \in Int, NEW t \in Int
  PROVE  /\ s \div Resolution <= t \div Resolution <=> Past!Bucket(s) <= Past!Bucket(t)
         /\ s <= t => Past!Bucket(s) <= Past!Bucket(t)
<1> DEFINE k == s \div Resolution
           j == t \div Resolution
<1>1. /\ k \in Int /\ j \in Int
      /\ Past!Bucket(s) = k * Resolution /\ Past!Bucket(t) = j * Resolution
      /\ Past!Bucket(s) \in Int /\ Past!Bucket(t) \in Int
      /\ Past!Bucket(s) <= s /\ t < Past!Bucket(t) + Resolution
    BY BucketOf
<1> HIDE DEF k, j
<1>2. k <= j => Past!Bucket(s) <= Past!Bucket(t)
  <2> SUFFICES ASSUME k <= j PROVE Past!Bucket(s) <= Past!Bucket(t)
    OBVIOUS
  <2>1. (j - k) * Resolution >= 0 /\ (j - k) * Resolution = j * Resolution - k * Resolution
    BY <1>1
  <2> QED BY <1>1, <2>1
<1>3. ~(k <= j) => ~(Past!Bucket(s) <= Past!Bucket(t)) /\ ~(s <= t)
  <2> SUFFICES ASSUME ~(k <= j) PROVE Past!Bucket(t) + Resolution <= Past!Bucket(s)
    BY <1>1
  <2>1. k - (j + 1) \in Nat
    BY <1>1
  <2>2. (k - (j + 1)) * Resolution >= 0
    BY <2>1
  <2>3. (k - (j + 1)) * Resolution = k * Resolution - (j * Resolution + Resolution)
    BY <1>1
  <2> QED BY <1>1, <2>2, <2>3
<1> QED BY <1>2, <1>3 DEF k, j

\* The rows of a family in a bucket, and up to its end.
Held(f, c) == {r \in Past!Asked(f) : Past!Bucket(r.at) = c}
Upto(f, c) == {r \in Past!Asked(f) : Past!Bucket(r.at) <= c}
\* The rows of the newest bucket, and the newest correction of the newest reading.
InLast(T) == {r \in T : \A q \in T : Past!Bucket(q.at) <= Past!Bucket(r.at)}
Newest(T) ==
  {r \in T : \A q \in T : q.series = r.series => q.at < r.at \/ (q.at = r.at /\ q.rev <= r.rev)}

\* Where there is a row there is a newest one.
LEMMA NewestSome ==
  ASSUME PastTypes, NEW T, T \subseteq input, NEW s, \E r \in T : r.series = s
  PROVE  \E r \in Newest(T) : r.series = s
<1> DEFINE S == {r \in T : r.series = s}
           ats == [r \in S |-> r.at]
           revs == [r \in S |-> r.rev]
<1>1. /\ IsFiniteSet(S) /\ S # {}
      /\ \A r \in S : ats[r] = r.at /\ revs[r] = r.rev /\ r.at \in Int /\ r.rev \in Int
    BY FS_Subset, PastNumbers, PastRows
<1> HIDE DEF ats, revs
<1>2. PICK x \in S : \A y \in S : ats[y] <= ats[x]
  <2> HIDE DEF S
  <2>1. \A r \in S : ats[r] \in Int
    BY <1>1
  <2> QED BY <1>1, <2>1, HighestOfFinite
<1> DEFINE U == {r \in S : r.at = x.at}
<1>3. IsFiniteSet(U) /\ U # {}
    BY <1>1, FS_Subset
<1>4. PICK m \in U : \A y \in U : revs[y] <= revs[m]
  <2>1. \A r \in U : revs[r] \in Int
    BY <1>1
  <2> HIDE DEF U
  <2> QED BY <1>3, <2>1, HighestOfFinite
<1>5. \A q \in S : q.at < m.at \/ (q.at = m.at /\ q.rev <= m.rev)
  <2> SUFFICES ASSUME NEW q \in S PROVE q.at < m.at \/ (q.at = m.at /\ q.rev <= m.rev)
    OBVIOUS
  <2>1. q.at <= m.at /\ q.at \in Int /\ m.at \in Int /\ m \in S
    BY <1>1, <1>2
  <2>2. CASE q.at = m.at
    BY <1>1, <1>4, <2>1, <2>2
  <2> QED BY <2>1, <2>2
<1> HIDE DEF U
<1>6. m \in T /\ m.series = s
    BY <1>3, <1>4 DEF U
<1> QED BY <1>5, <1>6 DEF Newest

\* What a bucket shows of its own is the newest of its rows (_between_statement,
\* _downsample, _latest_by_bucket).
LEMMA OfBucketIs ==
  ASSUME PastTypes, NEW f \in Past!Families, NEW c \in Int
  PROVE  Past!OfBucket(f, c) = Newest(Held(f, c))
<1> DEFINE A == Past!Asked(f)
<1>1. /\ A \subseteq input /\ Held(f, c) \subseteq A
      /\ \A r \in A : r.fam = f /\ r.at \in Int /\ r.rev \in Int
    BY PastNumbers DEF Past!Asked, Held
<1>2. \A q \in A : \E r \in Past!Between(f) : r.series = q.series /\ r.at = q.at
  <2> SUFFICES ASSUME NEW q \in A
               PROVE  \E r \in Past!Between(f) : r.series = q.series /\ r.at = q.at
    OBVIOUS
  <2> DEFINE S == {r \in A : r.at = q.at}
  <2>1. S \subseteq input /\ \E r \in S : r.series = q.series
    BY <1>1
  <2>2. PICK r \in Newest(S) : r.series = q.series
    <3> HIDE DEF S
    <3> QED BY <2>1, NewestSome
  <2>3. \A p \in A : p.series = r.series /\ p.at = r.at => p.rev <= r.rev
    <3> SUFFICES ASSUME NEW p \in A, p.series = r.series, p.at = r.at PROVE p.rev <= r.rev
      OBVIOUS
    <3>1. r \in S /\ p \in S /\ r.at \in Int
      BY <1>1, <2>2 DEF Newest
    <3> QED BY <2>2, <3>1 DEF Newest
  <2>4. r \in A /\ r.at = q.at
    BY <2>2 DEF Newest
  <2> QED BY <2>2, <2>3, <2>4 DEF Past!Between
<1>3. Past!Between(f) \subseteq A
    BY DEF Past!Between
<1>4. \A r : r \in Past!InBucket(f, c) <=> r \in Newest(Held(f, c))
  <2> SUFFICES ASSUME NEW r PROVE r \in Past!InBucket(f, c) <=> r \in Newest(Held(f, c))
    OBVIOUS
  <2>1. ASSUME r \in Past!InBucket(f, c) PROVE r \in Newest(Held(f, c))
    <3>1. /\ r \in Past!Between(f) /\ Past!Bucket(r.at) = c
          /\ \A q \in Past!Between(f) :
               q.series = r.series /\ Past!Bucket(q.at) = c => q.at <= r.at
      BY <2>1 DEF Past!InBucket, Past!Downsampled
    <3>2. r \in A /\ \A q \in A : q.series = r.series /\ q.at = r.at => q.rev <= r.rev
      BY <3>1 DEF Past!Between
    <3>3. ASSUME NEW q \in Held(f, c), q.series = r.series
          PROVE  q.at < r.at \/ (q.at = r.at /\ q.rev <= r.rev)
      <4>1. q \in A /\ Past!Bucket(q.at) = c
        BY DEF Held
      <4>2. PICK p \in Past!Between(f) : p.series = q.series /\ p.at = q.at
        BY <1>2, <4>1
      <4>3. q.at <= r.at /\ q.at \in Int /\ r.at \in Int
        BY <1>1, <3>1, <3>2, <3>3, <4>1, <4>2
      <4> QED BY <3>2, <3>3, <4>1, <4>3
    <3> QED BY <3>1, <3>2, <3>3 DEF Newest, Held
  <2>2. ASSUME r \in Newest(Held(f, c)) PROVE r \in Past!InBucket(f, c)
    <3>1. /\ r \in A /\ Past!Bucket(r.at) = c
          /\ \A q \in A : q.series = r.series /\ Past!Bucket(q.at) = c =>
               q.at < r.at \/ (q.at = r.at /\ q.rev <= r.rev)
      BY <2>2 DEF Newest, Held
    <3>2. r \in Past!Between(f)
      <4>1. \A q \in A : q.series = r.series /\ q.at = r.at => q.rev <= r.rev
        BY <1>1, <3>1
      <4> QED BY <3>1, <4>1 DEF Past!Between
    <3>3. \A q \in Past!Between(f) : q.series = r.series /\ Past!Bucket(q.at) = c => q.at <= r.at
      BY <1>1, <1>3, <3>1
    <3> QED BY <3>1, <3>2, <3>3 DEF Past!InBucket, Past!Downsampled
  <2> QED BY <2>1, <2>2
<1>5. f # "generation" => \A r, q \in Past!InBucket(f, c) : q.at <= r.at
  <2> SUFFICES ASSUME f # "generation",
                      NEW r \in Past!InBucket(f, c), NEW q \in Past!InBucket(f, c)
               PROVE  q.at <= r.at
    OBVIOUS
  <2>1. /\ r \in Past!Between(f) /\ q \in Past!Between(f)
        /\ Past!Bucket(q.at) = Past!Bucket(r.at)
        /\ \A p \in Past!Between(f) :
               p.series = r.series /\ Past!Bucket(p.at) = Past!Bucket(r.at) => p.at <= r.at
    BY DEF Past!InBucket, Past!Downsampled
  <2>2. q.series = r.series
    BY <1>1, <1>3, <2>1, PastRows
  <2> QED BY <2>1, <2>2
<1>6. Past!OfBucket(f, c) = Past!InBucket(f, c)
    BY <1>5 DEF Past!OfBucket
<1> QED BY <1>4, <1>6

Buckets == Past!Grid(Past!Bucket(Past!start), Past!Bucket(Past!end))

\* What a reader expects of a bucket is the newest of the last bucket with rows.
LEMMA ExpectedIs ==
  ASSUME PastTypes, NEW f, NEW c \in Int, c % Resolution = 0
  PROVE  Past!Expected(f, c) = Newest(InLast(Upto(f, c)))
<1> DEFINE R == {r \in input : r.fam = f /\ Past!start <= r.at
                                /\ r.at < Past!Min({Past!end, c + Resolution})}
           last == {r \in R : \A q \in R : q.at \div Resolution <= r.at \div Resolution}
<1>1. /\ Resolution \in Nat \ {0} /\ Past!end \in Int /\ Past!start \in Int
      /\ \A r \in input : r.at \in Int
    BY PastNumbers
<1>2. \A x \in Int : x < Past!Min({Past!end, c + Resolution})
                      <=> x < Past!end /\ Past!Bucket(x) <= c
  <2> SUFFICES ASSUME NEW x \in Int
               PROVE  x < Past!Min({Past!end, c + Resolution})
                      <=> x < Past!end /\ Past!Bucket(x) <= c
    OBVIOUS
  <2>1. c + Resolution \in Int
    BY <1>1
  <2>2. Past!Min({Past!end, c + Resolution})
          = IF Past!end <= c + Resolution THEN Past!end ELSE c + Resolution
    BY <1>1, <2>1, PastLeast
  <2>3. x < Past!Min({Past!end, c + Resolution}) <=> x < Past!end /\ x < c + Resolution
    BY <1>1, <2>1, <2>2
  <2>4. /\ Past!Bucket(x) \in Int /\ Past!Bucket(x) <= x /\ x < Past!Bucket(x) + Resolution
        /\ Past!Bucket(x) % Resolution = 0
    BY <1>1, BucketOf
  <2>5. c < Past!Bucket(x) => c <= Past!Bucket(x) - Resolution
    BY <1>1, <2>4, BucketStep
  <2>6. x < c + Resolution <=> Past!Bucket(x) <= c
    BY <1>1, <2>4, <2>5
  <2> QED BY <2>3, <2>6
<1>3. R = Upto(f, c)
  <2>1. \A r \in input : Past!start <= r.at /\ r.at < Past!Min({Past!end, c + Resolution})
                          <=> Past!start <= r.at /\ r.at < Past!end /\ Past!Bucket(r.at) <= c
    BY <1>1, <1>2
  <2> QED BY <2>1 DEF Upto, Past!Asked
<1>4. last = InLast(R)
  <2>1. \A q, r \in R : q.at \div Resolution <= r.at \div Resolution
                        <=> Past!Bucket(q.at) <= Past!Bucket(r.at)
    BY <1>1, BucketOrder
  <2> HIDE DEF R
  <2> QED BY <2>1 DEF InLast
<1>5. Past!Expected(f, c) = Newest(last)
    BY DEF Past!Expected, Newest
<1> QED BY <1>3, <1>4, <1>5

\* A bucket has its own rows; else the first has none, and the others what was before.
LEMMA ExpectedStep ==
  ASSUME PastTypes, NEW f \in Past!Families, NEW c \in Buckets
  PROVE  /\ Past!Expected(f, c) = IF Past!OfBucket(f, c) # {} THEN Past!OfBucket(f, c)
                                  ELSE IF c = Past!Bucket(Past!start) THEN {}
                                  ELSE Past!Expected(f, c - Resolution)
         /\ c # Past!Bucket(Past!start) => c - Resolution \in Buckets
<1>1. /\ Resolution \in Nat \ {0} /\ Past!start \in Int /\ Past!end \in Int
      /\ \A r \in Past!Asked(f) : r \in input /\ r.at \in Int /\ Past!start <= r.at
    BY PastNumbers DEF Past!Asked
<1> DEFINE b == Past!Bucket(Past!start)
           e == Past!Bucket(Past!end)
<1>2. b \in Int /\ b % Resolution = 0 /\ e \in Int
    BY <1>1, BucketOf
<1>3. c \in Int /\ c % Resolution = 0 /\ b <= c /\ c <= e
    BY <1>2 DEF Buckets, Past!Grid
<1>4. \A r \in Past!Asked(f) : /\ Past!Bucket(r.at) \in Int /\ Past!Bucket(r.at) % Resolution = 0
                               /\ b <= Past!Bucket(r.at)
    BY <1>1, BucketOf, BucketOrder
<1> DEFINE Stepped == Past!Expected(f, c) = IF Past!OfBucket(f, c) # {} THEN Past!OfBucket(f, c)
                                           ELSE IF c = b THEN {}
                                           ELSE Past!Expected(f, c - Resolution)
<1> HIDE DEF b, e
<1>5. /\ Past!Expected(f, c) = Newest(InLast(Upto(f, c)))
      /\ Past!OfBucket(f, c) = Newest(Held(f, c))
    BY <1>3, ExpectedIs, OfBucketIs
<1>6. ASSUME Held(f, c) # {} PROVE Stepped
  <2>1. InLast(Upto(f, c)) = Held(f, c)
    BY <1>3, <1>4, <1>6 DEF InLast, Upto, Held
  <2>2. Newest(Held(f, c)) # {}
    <3>1. PICK r \in Held(f, c) : TRUE
      BY <1>6
    <3>2. Held(f, c) \subseteq input /\ \E q \in Held(f, c) : q.series = r.series
      BY <1>1, <3>1 DEF Held
    <3> QED BY <3>2, NewestSome
  <2> QED BY <1>5, <2>1, <2>2
<1>7. ASSUME Held(f, c) = {} PROVE Stepped
  <2>1. Past!OfBucket(f, c) = {}
    BY <1>5, <1>7 DEF Newest
  <2>2. \A r \in Upto(f, c) : Past!Bucket(r.at) # c /\ Past!Bucket(r.at) < c
    BY <1>3, <1>4, <1>7 DEF Upto, Held
  <2>3. CASE c = b
    <3>1. Upto(f, c) = {}
      <4> SUFFICES ASSUME NEW r \in Upto(f, c) PROVE FALSE
        OBVIOUS
      <4>1. r \in Past!Asked(f)
        BY DEF Upto
      <4> QED BY <1>2, <1>4, <2>2, <2>3, <4>1
    <3> QED BY <1>5, <2>1, <2>3, <3>1 DEF Newest, InLast
  <2>4. CASE c # b
    <3>1. c - Resolution \in Int /\ (c - Resolution) % Resolution = 0 /\ b <= c - Resolution
      <4>1. b < c /\ c - Resolution \in Int
        BY <1>1, <1>2, <1>3, <2>4
      <4> QED BY <1>1, <1>2, <1>3, <4>1, BucketStep
    <3>2. Upto(f, c) = Upto(f, c - Resolution)
      <4>1. \A r \in Past!Asked(f) : Past!Bucket(r.at) <= c /\ Past!Bucket(r.at) # c
                                     <=> Past!Bucket(r.at) <= c - Resolution
        <5> SUFFICES ASSUME NEW r \in Past!Asked(f)
                     PROVE  Past!Bucket(r.at) <= c /\ Past!Bucket(r.at) # c
                            <=> Past!Bucket(r.at) <= c - Resolution
          OBVIOUS
        <5> DEFINE x == Past!Bucket(r.at)
        <5>1. x \in Int /\ x % Resolution = 0
          BY <1>4
        <5> HIDE DEF x
        <5>2. x < c => x <= c - Resolution
          BY <1>1, <1>3, <5>1, BucketStep
        <5>3. x <= c /\ x # c <=> x <= c - Resolution
          BY <1>1, <1>3, <5>1, <5>2
        <5> QED BY <5>3 DEF x
      <4> QED BY <2>2, <4>1 DEF Upto
    <3>3. Past!Expected(f, c - Resolution) = Newest(InLast(Upto(f, c - Resolution)))
      BY <3>1, ExpectedIs
    <3> QED BY <1>5, <2>1, <2>4, <3>2, <3>3
  <2> QED BY <2>3, <2>4
<1>8. c # b => c - Resolution \in Buckets
  <2> SUFFICES ASSUME c # b PROVE c - Resolution \in Buckets
    OBVIOUS
  <2>1. c - Resolution \in Int /\ (c - Resolution) % Resolution = 0 /\ b <= c - Resolution
    <3>1. b < c /\ c - Resolution \in Int
      BY <1>1, <1>2, <1>3
    <3> QED BY <1>1, <1>2, <1>3, <3>1, BucketStep
  <2>2. c - Resolution <= e
    BY <1>1, <1>2, <1>3
  <2> QED BY <1>2, <2>1, <2>2 DEF Buckets, Past!Grid, b, e
<1>9. Stepped
    BY <1>6, <1>7
<1> QED BY <1>8, <1>9 DEF b

\* What is carried into a bucket is what a reader expects of it (the loop over the buckets).
LEMMA CarriedIs ==
  ASSUME PastTypes, NEW f \in Past!Families
  PROVE  Past!Carried(f) = [c \in Buckets |-> Past!Expected(f, c)]
<1> DEFINE b == Past!Bucket(Past!start)
           e == [c \in Buckets |-> Past!Expected(f, c)]
           IsCarried(g) ==
             g = [c \in Buckets |->
                    IF Past!OfBucket(f, c) # {} THEN Past!OfBucket(f, c)
                    ELSE IF c = b THEN {} ELSE g[c - Resolution]]
<1>1. Past!Carried(f) = CHOOSE g : IsCarried(g)
    BY Zenon DEF Past!Carried, Buckets
<1>2. IsCarried(e)
  <2>1. \A c \in Buckets :
          Past!Expected(f, c) = IF Past!OfBucket(f, c) # {} THEN Past!OfBucket(f, c)
                                ELSE IF c = b THEN {} ELSE e[c - Resolution]
    <3> SUFFICES ASSUME NEW c \in Buckets
                 PROVE  Past!Expected(f, c) =
                          IF Past!OfBucket(f, c) # {} THEN Past!OfBucket(f, c)
                          ELSE IF c = b THEN {} ELSE e[c - Resolution]
      OBVIOUS
    <3>1. /\ Past!Expected(f, c) = IF Past!OfBucket(f, c) # {} THEN Past!OfBucket(f, c)
                                   ELSE IF c = b THEN {} ELSE Past!Expected(f, c - Resolution)
          /\ c # b => c - Resolution \in Buckets
      BY ExpectedStep
    <3> QED BY <3>1
  <2> QED BY <2>1
<1>3. ASSUME NEW g, IsCarried(g) PROVE g = e
  <2> DEFINE T == {n \in Nat : \E c \in Buckets : n = c - b /\ g[c] # Past!Expected(f, c)}
  <2>1. /\ Resolution \in Nat \ {0} /\ b \in Int
        /\ \A c \in Buckets : c \in Int /\ b <= c
    <3>1. Resolution \in Nat \ {0} /\ Past!start \in Int /\ Past!end \in Int
      BY PastNumbers
    <3>2. b \in Int /\ Past!Bucket(Past!end) \in Int
      BY <3>1, BucketOf
    <3> QED BY <3>1, <3>2 DEF Buckets, Past!Grid
  <2> HIDE DEF b
  <2>2. T = {}
    <3> SUFFICES ASSUME T # {} PROVE FALSE
      OBVIOUS
    <3>1. PICK n \in T : \A m \in T : n <= m
      <4> HIDE DEF T
      <4>1. T \subseteq Nat
        BY DEF T
      <4> QED BY <4>1, LeastNatural
    <3>2. PICK c \in Buckets : n = c - b /\ g[c] # Past!Expected(f, c)
      BY <3>1
    <3>3. g[c] = IF Past!OfBucket(f, c) # {} THEN Past!OfBucket(f, c)
                 ELSE IF c = b THEN {} ELSE g[c - Resolution]
      BY <1>3, Zenon
    <3>4. /\ Past!Expected(f, c) = IF Past!OfBucket(f, c) # {} THEN Past!OfBucket(f, c)
                                   ELSE IF c = b THEN {} ELSE Past!Expected(f, c - Resolution)
          /\ c # b => c - Resolution \in Buckets
      BY ExpectedStep DEF b
    <3>5. c # b /\ g[c - Resolution] # Past!Expected(f, c - Resolution)
      BY <3>2, <3>3, <3>4
    <3> DEFINE d == c - Resolution
    <3>6. d \in Buckets /\ d - b \in Nat /\ g[d] # Past!Expected(f, d)
      BY <2>1, <3>4, <3>5
    <3>7. d - b \in T
      BY <3>6
    <3>8. d - b < n
      BY <2>1, <3>2
    <3> HIDE DEF T, d
    <3>9. n \in Int /\ d - b \in Int
      BY <3>1, <3>6 DEF T
    <3> QED BY <3>1, <3>7, <3>8, <3>9
  <2>3. \A c \in Buckets : g[c] = Past!Expected(f, c)
    <3> SUFFICES ASSUME NEW c \in Buckets, g[c] # Past!Expected(f, c) PROVE FALSE
      OBVIOUS
    <3>1. c - b \in Nat
      BY <2>1
    <3> QED BY <2>2, <3>1
  <2>4. g = [c \in Buckets |-> g[c]]
    <3> HIDE DEF T, e
    <3> QED BY <1>3
  <2> QED BY <2>3, <2>4
<1> HIDE DEF IsCarried, e
<1>4. IsCarried(CHOOSE g : IsCarried(g))
    BY <1>2
<1> QED BY <1>1, <1>3, <1>4 DEF e

\* What an observed sample of a bucket shows, and when there is one.
AllOf(c) == Past!Expected("demand", c) \cup Past!Expected("carbon", c) \cup Past!Expected("generation", c)
Due(c) ==
  /\ c <= Past!boundary
  /\ Past!Expected("demand", c) # {} /\ Past!Expected("carbon", c) # {}
  /\ Past!Expected("generation", c) # {}
  /\ \A r \in AllOf(c) : r.at >= c - MaterialGap

\* The observed samples are of the buckets that are due, and show what is expected of them.
LEMMA ObservedIs ==
  ASSUME PastTypes
  PROVE  /\ DOMAIN Past!Observed = {c \in Buckets : Due(c)}
         /\ \A c \in DOMAIN Past!Observed :
              Past!Observed[c] \ Past!Expected("frequency", c) = AllOf(c)
<1> DEFINE required == {"demand", "carbon", "generation"}
           latest == [f \in Past!Families |-> Past!Carried(f)]
           facts(c) == UNION {latest[f][c] : f \in required}
           near(r, c) == c - r.at <= MaterialGap
           given(c) == facts(c) \cup {r \in latest["frequency"][c] : near(r, c)}
           times == {d \in Buckets : /\ d <= Past!boundary
                                     /\ \A f \in required : latest[f][d] # {}
                                     /\ \A r \in facts(d) : near(r, d)}
<1>1. Past!Observed = [c \in times |-> given(c)]
    BY Zenon DEF Past!Observed, Buckets
<1>2. \A f \in Past!Families : \A c \in Buckets : latest[f][c] = Past!Expected(f, c)
  <2> SUFFICES ASSUME NEW f \in Past!Families, NEW c \in Buckets
               PROVE  latest[f][c] = Past!Expected(f, c)
    OBVIOUS
  <2>1. latest[f] = Past!Carried(f)
    OBVIOUS
  <2>2. Past!Carried(f) = [d \in Buckets |-> Past!Expected(f, d)]
    BY CarriedIs
  <2> HIDE DEF latest
  <2> QED BY <2>1, <2>2
<1>3. required \subseteq Past!Families /\ "frequency" \in Past!Families
    BY DEF Past!Families
<1>4. ASSUME NEW c \in Buckets
      PROVE  /\ facts(c) = AllOf(c) /\ latest["frequency"][c] = Past!Expected("frequency", c)
             /\ (\A f \in required : latest[f][c] # {})
                  <=> /\ Past!Expected("demand", c) # {} /\ Past!Expected("carbon", c) # {}
                      /\ Past!Expected("generation", c) # {}
  <2>1. /\ latest["demand"][c] = Past!Expected("demand", c)
        /\ latest["carbon"][c] = Past!Expected("carbon", c)
        /\ latest["generation"][c] = Past!Expected("generation", c)
        /\ latest["frequency"][c] = Past!Expected("frequency", c)
    BY <1>2, <1>3
  <2> HIDE DEF latest
  <2>2. facts(c) = latest["demand"][c] \cup latest["carbon"][c] \cup latest["generation"][c]
    OBVIOUS
  <2> QED BY <2>1, <2>2 DEF AllOf
<1>5. \A f, c : \A r \in Past!Expected(f, c) : r \in input /\ r.fam = f
    BY DEF Past!Expected
<1>6. /\ MaterialGap \in Int /\ \A r \in input : r.at \in Int
      /\ \A c \in Buckets : c \in Int
  <2>1. Resolution \in Nat \ {0} /\ Past!start \in Int /\ Past!end \in Int
    BY PastNumbers
  <2>2. Past!Bucket(Past!start) \in Int /\ Past!Bucket(Past!end) \in Int
    BY <2>1, BucketOf
  <2> QED BY <2>2, PastNumbers DEF Buckets, Past!Grid
<1> HIDE DEF latest, facts
<1>7. ASSUME NEW c \in Buckets PROVE c \in times <=> Due(c)
  <2>1. \A r \in AllOf(c) : near(r, c) <=> r.at >= c - MaterialGap
    <3> SUFFICES ASSUME NEW r \in AllOf(c) PROVE near(r, c) <=> r.at >= c - MaterialGap
      OBVIOUS
    <3>1. r.at \in Int /\ c \in Int /\ MaterialGap \in Int
      BY <1>5, <1>6 DEF AllOf
    <3> QED BY <3>1
  <2> QED BY <1>4, <2>1 DEF Due
<1>8. ASSUME NEW c \in times PROVE given(c) \ Past!Expected("frequency", c) = AllOf(c)
  <2>1. \A r \in AllOf(c) : r \notin Past!Expected("frequency", c)
    BY <1>5 DEF AllOf
  <2>2. given(c) = AllOf(c) \cup {r \in Past!Expected("frequency", c) : near(r, c)}
    BY <1>4
  <2> HIDE DEF given
  <2> QED BY <2>1, <2>2
<1> HIDE DEF times, given
<1>9. times = {c \in Buckets : Due(c)}
    BY <1>7 DEF times
<1> QED BY <1>1, <1>8, <1>9

\* What is equal or less is at most.
LEMMA SoAtMost == \A x, y \in Int : x = y \/ x < y => x <= y
OBVIOUS

\* Forecasts are of buckets after the boundary, and of an issue that none is newer than.
LEMMA ForecastIs ==
  ASSUME PastTypes
  PROVE  /\ DOMAIN Past!Forecast \subseteq Past!FirstForecast..Past!Bucket(Past!end)
         /\ \A c \in DOMAIN Past!Forecast :
              /\ c \in Int /\ c > Past!boundary
              /\ \A r \in Past!Forecast[c] : \A q \in input :
                   q.fam = r.fam /\ q.at = r.at => q.issued <= r.issued
<1>1. /\ Resolution \in Nat \ {0} /\ Past!start \in Int /\ Past!end \in Int /\ request.now \in Int
      /\ \A r \in input : r.fam \notin Past!Families => r.issued \in Int
    BY PastNumbers, PastRows
<1>2. Past!boundary \in Int
    BY <1>1, PastLeast DEF Past!boundary
<1>3. Past!FirstForecast \in Int /\ Past!FirstForecast > Past!boundary
  <2> DEFINE m == Past!Max({Past!start, Past!boundary})
  <2>1. m \in Int /\ m >= Past!boundary
    <3>1. m = IF Past!start >= Past!boundary THEN Past!start ELSE Past!boundary
      BY <1>1, <1>2, PastLeast
    <3> HIDE DEF m
    <3> QED BY <1>1, <1>2, <3>1
  <2> HIDE DEF m
  <2> DEFINE c == Past!Bucket(m)
  <2>2. c \in Int /\ m < c + Resolution
    BY <1>1, <2>1, BucketOf
  <2>3. Past!FirstForecast = IF c <= Past!boundary THEN c + Resolution ELSE c
    BY DEF Past!FirstForecast, m
  <2> HIDE DEF c
  <2> QED BY <1>1, <1>2, <2>1, <2>2, <2>3
<1>4. Past!Bucket(Past!end) \in Int
    BY <1>1, BucketOf
<1> DEFINE times == {d \in Past!Grid(Past!FirstForecast, Past!Bucket(Past!end)) :
                       \A m \in {"demand forecast", "carbon forecast"} : Past!ForecastOf(m, d) # {}}
           given(c) == Past!ForecastOf("demand forecast", c) \cup Past!ForecastOf("carbon forecast", c)
<1>5. Past!Forecast = [c \in times |-> given(c)]
    BY Zenon DEF Past!Forecast
<1>6. times \subseteq Past!FirstForecast..Past!Bucket(Past!end)
    BY DEF Past!Grid
<1>7. ASSUME NEW m \in {"demand forecast", "carbon forecast"}, NEW c, NEW r \in Past!ForecastOf(m, c),
             NEW q \in input, q.fam = r.fam, q.at = r.at
      PROVE  q.issued <= r.issued
  <2>1. r \in Past!Forecasts(m)
    BY DEF Past!ForecastOf
  <2> DEFINE R == {p \in input : p.fam = m /\ p.at < Past!end /\ p.at + p.length > Past!start}
  <2>2. /\ r \in R
        /\ \A p \in R : p.at = r.at => <<p.issued, p.rev>> = <<r.issued, r.rev>>
                             \/ p.issued < r.issued
                             \/ (p.issued = r.issued /\ p.rev < r.rev)
    BY <2>1 DEF Past!Forecasts
  <2>3. m \notin Past!Families
    BY DEF Past!Families
  <2>4. q.length = r.length
    BY <1>7, <2>2, <2>3, PastRows
  <2>5. q \in R
    BY <1>7, <2>2, <2>4
  <2>6. q.issued \in Int /\ r.issued \in Int
    BY <1>1, <1>7, <2>2, <2>3
  <2>7. q.issued = r.issued \/ q.issued < r.issued
    <3> HIDE DEF R
    <3>1. <<q.issued, q.rev>> = <<r.issued, r.rev>> \/ q.issued < r.issued \/ q.issued = r.issued
      BY <1>7, <2>2, <2>5
    <3> QED BY <3>1
  <2> QED BY <2>6, <2>7, SoAtMost, Zenon
<1> HIDE DEF times, given
<1>8. ASSUME NEW c \in times, NEW r \in given(c), NEW q \in input, q.fam = r.fam, q.at = r.at
      PROVE  q.issued <= r.issued
    BY <1>7, <1>8 DEF given
<1>9. \A c \in times : c \in Int /\ c > Past!boundary
    BY <1>2, <1>3, <1>4, <1>6
<1> QED BY <1>5, <1>6, <1>8, <1>9

\* Nth lists a finite set of integers in ascending order.
LEMMA NthOf ==
  ASSUME NEW S, IsFiniteSet(S), S \subseteq Int
  PROVE  LET n == Cardinality(S) IN
         /\ n \in Nat
         /\ \A i \in 1..n : Past!Nth(S, i) \in S
         /\ \A i, j \in 1..n : i < j => Past!Nth(S, i) < Past!Nth(S, j)
         /\ \A c \in S : \E i \in 1..n : Past!Nth(S, i) = c
<1> DEFINE n == Cardinality(S)
           Below(c) == {d \in S : d < c}
<1>1. n \in Nat
    BY FS_CardinalityType
<1>2. PICK q \in [1..n -> S] :
             /\ \A i, j \in DOMAIN q : i < j => q[i] < q[j]
             /\ \A r \in S : \E i \in 1..n : q[i] = r
    BY Ascending, ZenonT(40)
<1>3. /\ \A i \in 1..n : q[i] \in S /\ q[i] \in Int
      /\ \A i, j \in 1..n : i < j => q[i] < q[j]
  <2> HIDE DEF n
  <2> QED BY <1>2
<1> HIDE DEF n
<1>4. ASSUME NEW i \in 1..n PROVE Cardinality(Below(q[i])) = i - 1
  <2> DEFINE g == [j \in 1..(i - 1) |-> q[j]]
  <2>1. \A j \in 1..(i - 1) : j \in 1..n /\ j < i /\ g[j] = q[j]
    BY <1>1
  <2> HIDE DEF g
  <2>2. \A j \in 1..(i - 1) : g[j] \in Below(q[i])
    BY <1>3, <2>1
  <2>3. \A j, k \in 1..(i - 1) : g[j] = g[k] => j = k
    <3> SUFFICES ASSUME NEW j \in 1..(i - 1), NEW k \in 1..(i - 1), j # k PROVE g[j] # g[k]
      OBVIOUS
    <3>1. j < k \/ k < j
      BY <1>1
    <3> QED BY <1>3, <2>1, <3>1
  <2>4. \A c \in Below(q[i]) : \E j \in 1..(i - 1) : g[j] = c
    <3> SUFFICES ASSUME NEW c \in Below(q[i]) PROVE \E j \in 1..(i - 1) : g[j] = c
      OBVIOUS
    <3>1. PICK j \in 1..n : q[j] = c
      BY <1>2
    <3>2. j < i
      <4> SUFFICES ASSUME ~(j < i) PROVE FALSE
        OBVIOUS
      <4>1. i = j \/ i < j
        BY <1>1
      <4> QED BY <1>3, <3>1, <4>1
    <3>3. j \in 1..(i - 1)
      BY <1>1, <3>2
    <3> QED BY <2>1, <3>1, <3>3
  <2> HIDE DEF Below
  <2>5. g \in [1..(i - 1) -> Below(q[i])]
    BY <2>2 DEF g
  <2>6. g \in Bijection(1..(i - 1), Below(q[i]))
    BY <2>3, <2>4, <2>5 DEF Bijection, Injection, Surjection, IsInjective
  <2>7. IsFiniteSet(1..(i - 1)) /\ Cardinality(1..(i - 1)) = i - 1
    <3>1. i - 1 \in Int /\ i - 1 >= 0
      BY <1>1
    <3> QED BY <3>1, FS_Interval
  <2> QED BY <2>6, <2>7, FS_Bijection DEF ExistsBijection
<1>5. ASSUME NEW i \in 1..n PROVE Past!Nth(S, i) = q[i]
  <2>1. Past!Nth(S, i) = CHOOSE c \in S : Cardinality(Below(c)) = i - 1
    BY PastLibrary DEF Past!Nth
  <2>2. ASSUME NEW c \in S, Cardinality(Below(c)) = i - 1 PROVE c = q[i]
    <3>1. PICK j \in 1..n : q[j] = c
      BY <1>2
    <3>2. Cardinality(Below(c)) = j - 1
      BY <1>4, <3>1
    <3> HIDE DEF Below
    <3>3. j = i
      BY <2>2, <3>2, <1>1
    <3> QED BY <3>1, <3>3
  <2> HIDE DEF Below
  <2> QED BY <1>3, <1>4, <2>1, <2>2
<1> QED BY <1>1, <1>2, <1>3, <1>5 DEF n

\* The n samples s of a class give each bucket of F once, in ascending order.
Lists(s, n, F, class) ==
  /\ n \in Nat
  /\ s \in [1..n -> {s[i] : i \in 1..n}]
  /\ \A i \in 1..n : /\ s[i].at \in DOMAIN F /\ s[i].at \in Int
                     /\ s[i].class = class /\ s[i].facts = F[s[i].at]
  /\ \A i, j \in 1..n : i < j => s[i].at < s[j].at
  /\ \A c \in DOMAIN F : \E i \in 1..n : s[i].at = c

\* Samples does so.
LEMMA SamplesOf ==
  ASSUME NEW F, IsFiniteSet(DOMAIN F), DOMAIN F \subseteq Int, NEW class
  PROVE  Lists(Past!Samples(F, class), Cardinality(DOMAIN F), F, class)
<1> DEFINE n == Cardinality(DOMAIN F)
           s == Past!Samples(F, class)
           nth == [i \in 1..n |-> Past!Nth(DOMAIN F, i)]
<1>1. /\ n \in Nat
      /\ \A i \in 1..n : nth[i] \in DOMAIN F /\ nth[i] \in Int
      /\ \A i, j \in 1..n : i < j => nth[i] < nth[j]
      /\ \A c \in DOMAIN F : \E i \in 1..n : nth[i] = c
  <2> HIDE DEF n
  <2>1. /\ n \in Nat
        /\ \A i \in 1..n : Past!Nth(DOMAIN F, i) \in DOMAIN F
        /\ \A i, j \in 1..n : i < j => Past!Nth(DOMAIN F, i) < Past!Nth(DOMAIN F, j)
        /\ \A c \in DOMAIN F : \E i \in 1..n : Past!Nth(DOMAIN F, i) = c
    BY NthOf DEF n
  <2> QED BY <2>1
<1>2. s = [i \in 1..n |-> [at |-> nth[i], class |-> class, facts |-> F[nth[i]]]]
    BY PastLibrary DEF Past!Samples
<1> HIDE DEF s, nth, n
<1>3. \A i \in 1..n : s[i].at = nth[i] /\ s[i].class = class /\ s[i].facts = F[nth[i]]
    BY <1>2
<1>4. s \in [1..n -> {s[i] : i \in 1..n}]
    BY <1>2
<1>5. \A i \in 1..n : /\ s[i].at \in DOMAIN F /\ s[i].at \in Int
                     /\ s[i].class = class /\ s[i].facts = F[s[i].at]
    BY <1>1, <1>3
<1>6. \A i, j \in 1..n : i < j => s[i].at < s[j].at
    BY <1>1, <1>3
<1>7. \A c \in DOMAIN F : \E i \in 1..n : s[i].at = c
    BY <1>1, <1>3
<1> QED BY <1>1, <1>4, <1>5, <1>6, <1>7, Zenon DEF n, s, Lists

\* A function on the first naturals is a sequence.
LEMMA FunctionIsSeq ==
  ASSUME NEW X, NEW n \in Nat, NEW g \in [1..n -> X]
  PROVE  g \in Seq(X) /\ Len(g) = n
OBVIOUS

\* What TimelineExact asks of an answer.
Exact(s) ==
  /\ \A i, j \in DOMAIN s : i < j => s[i].at < s[j].at
  /\ \A c \in Buckets :
       LET shown == {x \in {s[i] : i \in DOMAIN s} : x.at = c /\ x.class = "observed"}
       IN  IF Due(c) THEN \E x \in shown : x.facts \ Past!Expected("frequency", c) = AllOf(c)
           ELSE shown = {}
  /\ \A i \in DOMAIN s : s[i].class = "forecast" =>
       /\ s[i].at > Past!boundary
       /\ \A r \in s[i].facts : \A q \in input :
            q.fam = r.fam /\ q.at = r.at => q.issued <= r.issued

\* The observed samples and then the forecasts are such an answer (present_timeline).
LEMMA AnswerExact ==
  ASSUME PastTypes
  PROVE  Exact(Past!Samples(Past!Observed, "observed") \o Past!Samples(Past!Forecast, "forecast"))
<1> DEFINE A == Past!Samples(Past!Observed, "observed")
           B == Past!Samples(Past!Forecast, "forecast")
           s == A \o B
           n == Cardinality(DOMAIN Past!Observed)
           m == Cardinality(DOMAIN Past!Forecast)
<1>1. /\ Past!boundary \in Int /\ Past!Bucket(Past!start) \in Int
      /\ Past!Bucket(Past!end) \in Int /\ Past!FirstForecast \in Int
  <2>1. /\ Resolution \in Nat \ {0} /\ Past!start \in Int /\ Past!end \in Int
        /\ request.now \in Int
    BY PastNumbers
  <2>2. Past!boundary \in Int
    BY <2>1, PastLeast DEF Past!boundary
  <2>3. Past!Max({Past!start, Past!boundary}) \in Int
    BY <2>1, <2>2, PastLeast
  <2>4. Past!Bucket(Past!Max({Past!start, Past!boundary})) \in Int
    BY <2>1, <2>3, BucketOf
  <2>5. Past!FirstForecast \in Int
    <3> DEFINE c == Past!Bucket(Past!Max({Past!start, Past!boundary}))
    <3>1. Past!FirstForecast = IF c <= Past!boundary THEN c + Resolution ELSE c
      BY DEF Past!FirstForecast
    <3> HIDE DEF c
    <3>2. c \in Int
      BY <2>4 DEF c
    <3> QED BY <2>1, <3>1, <3>2
  <2> QED BY <2>1, <2>2, <2>5, BucketOf
<1>2. /\ DOMAIN Past!Observed = {c \in Buckets : Due(c)}
      /\ IsFiniteSet(DOMAIN Past!Observed) /\ DOMAIN Past!Observed \subseteq Int
      /\ \A c \in DOMAIN Past!Observed : c <= Past!boundary
      /\ \A c \in DOMAIN Past!Observed :
              Past!Observed[c] \ Past!Expected("frequency", c) = AllOf(c)
  <2>1. Buckets \subseteq Past!Bucket(Past!start)..Past!Bucket(Past!end)
    BY DEF Buckets, Past!Grid
  <2>2. IsFiniteSet(Past!Bucket(Past!start)..Past!Bucket(Past!end))
    BY <1>1, FS_Interval
  <2>3. DOMAIN Past!Observed \subseteq Past!Bucket(Past!start)..Past!Bucket(Past!end)
    BY <2>1, ObservedIs
  <2>4. IsFiniteSet(DOMAIN Past!Observed)
    BY <2>2, <2>3, FS_Subset
  <2>5. DOMAIN Past!Observed \subseteq Int
    BY <1>1, <2>3
  <2> QED BY <2>4, <2>5, ObservedIs DEF Due
<1>3. /\ IsFiniteSet(DOMAIN Past!Forecast) /\ DOMAIN Past!Forecast \subseteq Int
  <2>1. IsFiniteSet(Past!FirstForecast..Past!Bucket(Past!end))
    BY <1>1, FS_Interval
  <2>2. DOMAIN Past!Forecast \subseteq Past!FirstForecast..Past!Bucket(Past!end)
    BY ForecastIs
  <2>3. IsFiniteSet(DOMAIN Past!Forecast)
    BY <2>1, <2>2, FS_Subset
  <2> QED BY <1>1, <2>2, <2>3
<1>4. /\ n \in Nat /\ A \in [1..n -> {A[i] : i \in 1..n}]
      /\ \A i \in 1..n : /\ A[i].at \in DOMAIN Past!Observed /\ A[i].at \in Int
                         /\ A[i].class = "observed" /\ A[i].facts = Past!Observed[A[i].at]
      /\ \A i, j \in 1..n : i < j => A[i].at < A[j].at
      /\ \A c \in DOMAIN Past!Observed : \E i \in 1..n : A[i].at = c
  <2>1. IsFiniteSet(DOMAIN Past!Observed) /\ DOMAIN Past!Observed \subseteq Int
    BY <1>2
  <2>2. Lists(A, n, Past!Observed, "observed")
    BY <2>1, SamplesOf
  <2> HIDE DEF A, n
  <2> QED BY <2>2, Zenon DEF Lists
<1>5. /\ m \in Nat /\ B \in [1..m -> {B[i] : i \in 1..m}]
      /\ \A i \in 1..m : /\ B[i].at \in DOMAIN Past!Forecast /\ B[i].at \in Int
                         /\ B[i].class = "forecast" /\ B[i].facts = Past!Forecast[B[i].at]
      /\ \A i, j \in 1..m : i < j => B[i].at < B[j].at
  <2>1. Lists(B, m, Past!Forecast, "forecast")
    BY <1>3, SamplesOf
  <2> HIDE DEF B, m
  <2> QED BY <2>1, Zenon DEF Lists
<1>6. /\ DOMAIN s = 1..(n + m)
      /\ \A i \in 1..n : s[i] = A[i] /\ i \in 1..(n + m)
      /\ \A i \in 1..m : s[n + i] = B[i] /\ n + i \in 1..(n + m)
      /\ \A k \in 1..(n + m) : k \in 1..n \/ \E i \in 1..m : k = n + i
  <2> DEFINE X == {A[i] : i \in 1..n} \cup {B[i] : i \in 1..m}
  <2> HIDE DEF A, B, n, m
  <2>1. A \in [1..n -> X] /\ B \in [1..m -> X]
    BY <1>4, <1>5
  <2> HIDE DEF X
  <2>2. A \in Seq(X) /\ Len(A) = n /\ B \in Seq(X) /\ Len(B) = m
    BY <1>4, <1>5, <2>1, FunctionIsSeq
  <2>3. /\ s \in Seq(X) /\ Len(s) = n + m
        /\ \A i \in 1..(n + m) : s[i] = IF i <= n THEN A[i] ELSE B[i - n]
    BY <2>2, ConcatProperties
  <2> HIDE DEF s
  <2>4. DOMAIN s = 1..(n + m)
    BY <1>4, <1>5, <2>3
  <2>5. ASSUME NEW i \in 1..n PROVE s[i] = A[i] /\ i \in 1..(n + m)
    <3>1. i <= n /\ i \in 1..(n + m)
      BY <1>4, <1>5
    <3> QED BY <2>3, <3>1
  <2>6. ASSUME NEW i \in 1..m PROVE s[n + i] = B[i] /\ n + i \in 1..(n + m)
    <3>1. n + i \in 1..(n + m) /\ ~(n + i <= n) /\ (n + i) - n = i
      BY <1>4, <1>5
    <3> QED BY <2>3, <3>1
  <2>7. ASSUME NEW k \in 1..(n + m) PROVE k \in 1..n \/ \E i \in 1..m : k = n + i
    <3>1. CASE k <= n
      BY <1>4, <3>1
    <3>2. CASE ~(k <= n)
      <4>1. k - n \in 1..m /\ k = n + (k - n)
        BY <1>4, <1>5, <3>2
      <4> QED BY <4>1
    <3> QED BY <3>1, <3>2
  <2> QED BY <2>4, <2>5, <2>6, <2>7
<1>7. \A i \in 1..m : B[i].at > Past!boundary
    BY <1>5, ForecastIs
<1>8. \A i \in 1..n : A[i].at <= Past!boundary
    BY <1>2, <1>4
<1> HIDE DEF s, A, B, n, m
<1>9. \A i, j \in DOMAIN s : i < j => s[i].at < s[j].at
  <2> SUFFICES ASSUME NEW i \in 1..(n + m), NEW j \in 1..(n + m), i < j PROVE s[i].at < s[j].at
    BY <1>6
  <2>1. CASE i \in 1..n /\ j \in 1..n
    BY <1>4, <1>6, <2>1
  <2>2. CASE i \in 1..n /\ j \notin 1..n
    <3>1. PICK k \in 1..m : j = n + k
      BY <1>6, <2>2
    <3>2. A[i].at <= Past!boundary /\ B[k].at > Past!boundary /\ A[i].at \in Int /\ B[k].at \in Int
      BY <1>4, <1>5, <1>7, <1>8, <2>2
    <3> QED BY <1>1, <1>6, <2>2, <3>1, <3>2
  <2>3. CASE i \notin 1..n
    <3>1. PICK h \in 1..m : i = n + h
      BY <1>6, <2>3
    <3>2. j \notin 1..n
      BY <1>4, <3>1
    <3>3. PICK k \in 1..m : j = n + k
      BY <1>6, <3>2
    <3>4. h < k
      BY <1>4, <3>1, <3>3
    <3> QED BY <1>5, <1>6, <3>1, <3>3, <3>4
  <2> QED BY <2>1, <2>2, <2>3
<1>10. \A k \in DOMAIN s : s[k].class = "observed" => k \in 1..n
  <2> SUFFICES ASSUME NEW k \in 1..(n + m), k \notin 1..n PROVE s[k].class # "observed"
    BY <1>6
  <2>1. PICK i \in 1..m : k = n + i
    BY <1>6
  <2> QED BY <1>5, <1>6, <2>1
<1>11. ASSUME NEW c \in Buckets
       PROVE  LET shown == {x \in {s[i] : i \in DOMAIN s} : x.at = c /\ x.class = "observed"}
              IN  IF Due(c)
                  THEN \E x \in shown : x.facts \ Past!Expected("frequency", c) = AllOf(c)
                  ELSE shown = {}
  <2>1. CASE Due(c)
    <3>1. c \in DOMAIN Past!Observed
      BY <1>2, <2>1
    <3>2. PICK i \in 1..n : A[i].at = c
      BY <1>4, <3>1
    <3>3. A[i].class = "observed" /\ A[i].facts = Past!Observed[c]
      BY <1>4, <3>2
    <3>4. i \in DOMAIN s /\ s[i] = A[i]
      BY <1>6
    <3>5. s[i].facts \ Past!Expected("frequency", c) = AllOf(c)
      BY <1>2, <3>1, <3>3, <3>4
    <3> QED BY <2>1, <3>2, <3>3, <3>4, <3>5
  <2>2. CASE ~Due(c)
    <3>1. c \notin DOMAIN Past!Observed
      BY <1>2, <2>2
    <3>2. \A k \in DOMAIN s : ~(s[k].at = c /\ s[k].class = "observed")
      <4> SUFFICES ASSUME NEW k \in DOMAIN s, s[k].at = c, s[k].class = "observed" PROVE FALSE
        OBVIOUS
      <4>1. k \in 1..n
        BY <1>10
      <4>2. s[k].at = A[k].at /\ A[k].at \in DOMAIN Past!Observed
        BY <1>4, <1>6, <4>1
      <4> QED BY <3>1, <4>2
    <3> QED BY <2>2, <3>2
  <2> QED BY <2>1, <2>2
<1>12. ASSUME NEW k \in DOMAIN s, s[k].class = "forecast"
       PROVE  /\ s[k].at > Past!boundary
              /\ \A r \in s[k].facts : \A q \in input :
                   q.fam = r.fam /\ q.at = r.at => q.issued <= r.issued
  <2>1. k \notin 1..n
    BY <1>4, <1>6, <1>12
  <2>2. PICK i \in 1..m : k = n + i
    BY <1>6, <2>1
  <2>3. s[k] = B[i]
    BY <1>6, <2>2
  <2>4. B[i].at \in DOMAIN Past!Forecast /\ B[i].facts = Past!Forecast[B[i].at]
    BY <1>5
  <2> QED BY <1>7, <2>3, <2>4, ForecastIs
<1> QED BY <1>9, <1>11, <1>12 DEF Exact, s, A, B

\* The rows and the request are of the settings; an answer is exact.
PastInv == PastTypes /\ (samples # Past!Unanswered => Exact(samples))

\* Nothing was answered at the start.
LEMMA PastStart == Past!Init => PastInv
BY DEF Past!Init, PastInv, PastTypes

\* A step leaves the rows and the request alone, and answers once.
LEMMA PastNext == PastInv /\ [Past!Next]_Past!vars => PastInv'
<1> SUFFICES ASSUME PastInv, [Past!Next]_Past!vars PROVE PastInv'
    OBVIOUS
<1>1. input' = input /\ request' = request
    BY DEF Past!Next, Past!Answer, Past!vars
<1>2. \/ samples' = samples
      \/ samples' = Past!Samples(Past!Observed, "observed") \o Past!Samples(Past!Forecast, "forecast")
    BY DEF Past!Next, Past!Answer, Past!vars
<1>3. samples' # Past!Unanswered => Exact(samples')
    BY <1>2, AnswerExact DEF PastInv
<1>4. Past!start' = Past!start /\ Past!end' = Past!end /\ Past!boundary' = Past!boundary
    BY <1>1 DEF Past!start, Past!end, Past!boundary
<1>5. Buckets' = Buckets
    BY <1>4 DEF Buckets
<1>6. \A f, c : Past!Expected(f, c)' = Past!Expected(f, c)
    BY <1>1, <1>4 DEF Past!Expected
<1>7. \A c : AllOf(c)' = AllOf(c)
    BY <1>6 DEF AllOf
<1>8. \A c : Due(c)' <=> Due(c)
    BY <1>4, <1>6, <1>7 DEF Due
<1>9. Exact(samples') => Exact(samples)'
    BY <1>1, <1>4, <1>5, <1>6, <1>7, <1>8 DEF Exact
<1>10. Past!Unanswered' = Past!Unanswered
    BY DEF Past!Unanswered
<1> QED BY <1>1, <1>3, <1>9, <1>10 DEF PastInv, PastTypes

\* The invariant is what TimelineExact promises.
LEMMA PastEnd == PastInv => Past!TimelineExact
<1> SUFFICES ASSUME PastInv, samples # Past!Unanswered PROVE Past!TimelineExact
    BY DEF Past!TimelineExact
<1>1. Exact(samples)
    BY DEF PastInv
<1> DEFINE given == {samples[i] : i \in DOMAIN samples}
<1>2. Past!ToSet(samples) = given
    BY PastLibrary
<1>3. \A i, j \in DOMAIN samples : i < j => samples[i].at < samples[j].at
    BY <1>1 DEF Exact
<1>4. ASSUME NEW c \in Past!Grid(Past!Bucket(Past!start), Past!Bucket(Past!end))
      PROVE  LET E == [f \in Past!Families |-> Past!Expected(f, c)]
                 all == E["demand"] \cup E["carbon"] \cup E["generation"]
                 due == /\ c <= Past!boundary
                        /\ E["demand"] # {} /\ E["carbon"] # {} /\ E["generation"] # {}
                        /\ \A r \in all : r.at >= c - MaterialGap
                 shown == {s \in Past!ToSet(samples) : s.at = c /\ s.class = "observed"}
             IN  IF due THEN \E s \in shown : s.facts \ E["frequency"] = all ELSE shown = {}
  <2> DEFINE E == [f \in Past!Families |-> Past!Expected(f, c)]
             shown == {s \in given : s.at = c /\ s.class = "observed"}
  <2>1. /\ E["demand"] = Past!Expected("demand", c) /\ E["carbon"] = Past!Expected("carbon", c)
        /\ E["generation"] = Past!Expected("generation", c)
        /\ E["frequency"] = Past!Expected("frequency", c)
    BY DEF Past!Families
  <2>2. IF Due(c) THEN \E x \in shown : x.facts \ Past!Expected("frequency", c) = AllOf(c)
        ELSE shown = {}
    BY <1>1 DEF Exact, Buckets
  <2> HIDE DEF E
  <2> QED BY <1>2, <2>1, <2>2 DEF Due, AllOf, E
<1>5. \A s \in given : s.class = "forecast" =>
        /\ s.at > Past!boundary
        /\ \A r \in s.facts : \A q \in input :
             q.fam = r.fam /\ q.at = r.at => q.issued <= r.issued
    BY <1>1 DEF Exact
<1> HIDE DEF given
<1> QED BY <1>2, <1>3, <1>4, <1>5 DEF Past!TimelineExact

-----------------------------------------------------------------------------
\* The recent past, while the reads are of it.
PastHolds == reads = "past" => PastInv

\* In the composition the recent past keeps its invariant.
LEMMA PastKept == ReadsSpec => []PastHolds
<1>1. ReadsInit => PastHolds
    BY PastStart DEF ReadsInit, PastHolds
<1>2. PastHolds /\ [ReadsNext]_readVars => PastHolds'
  <2> SUFFICES ASSUME PastHolds, [ReadsNext]_readVars, reads' = "past" PROVE PastInv'
      BY DEF PastHolds
  <2>1. CASE ReadsNext
    <3>1. reads = "past" /\ Past!Next
      BY <2>1 DEF ReadsNext
    <3> QED BY <3>1, PastNext DEF PastHolds
  <2>2. CASE UNCHANGED readVars
    <3>1. UNCHANGED Past!vars /\ reads = "past"
      BY <2>2 DEF readVars, pastVars, Past!vars
    <3> QED BY <3>1, PastNext DEF PastHolds
  <2> QED BY <2>1, <2>2
<1> QED BY <1>1, <1>2, PTL DEF ReadsSpec

\* TimelineExact: the samples of a window are in order of time and change their class once, an
\* observed one shows exactly the newest corrected readings before the end of its bucket and
\* is left out exactly when one is missing or too old, and no forecast is of an issue that a
\* newer one replaced (presenter.py:351-472, reads.py:1316-1400).
THEOREM TimelineIsExact == ReadsSpec => []TimelineExact
<1>1. PastHolds => TimelineExact
    BY PastEnd DEF PastHolds, TimelineExact
<1> QED BY <1>1, PastKept, PTL

-----------------------------------------------------------------------------
(* The verified forecasts (ForecastScores). *)

\* The library's operators are the same here too.
LEMMA ScoreLibrary ==
  /\ \A S : Scores!Cardinality(S) = Cardinality(S)
  /\ \A S : Scores!IsFiniteSet(S) = IsFiniteSet(S)
BY DEF Scores!Cardinality, Cardinality, Scores!IsFiniteSet, IsFiniteSet

\* What the settings say.
LEMMA ScoreConstants ==
  /\ IsFiniteSet(Valids) /\ Valids \subseteq Int
  /\ Edges \in Seq(Int) /\ Len(Edges) > 1 /\ Edges[1] = 0
  /\ \A i, j \in DOMAIN Edges : i < j => Edges[i] < Edges[j]
  /\ \A w \in ScoreWindows : w[1] \in Int /\ w[2] \in Int
  /\ MinSamples \in Int /\ MinCoverage \in Int
BY ScoreSettings, ScoreLibrary, Zenon DEF Scores!ScoreAssumption

\* One horizon of those up to the outermost lies in one bucket; one beyond it in none.
LEMMA OneBucket ==
  /\ IsFiniteSet(Scores!Buckets) /\ Scores!Outermost \in Int
  /\ \A h \in Int : 0 <= h /\ h <= Scores!Outermost =>
       \E b \in Scores!Buckets :
         Scores!Contains(b, h) /\ \A c \in Scores!Buckets : Scores!Contains(c, h) => c = b
  /\ \A h \in Int : h > Scores!Outermost => \A b \in Scores!Buckets : ~Scores!Contains(b, h)
<1> DEFINE n == Len(Edges)
           B == Scores!Buckets
<1>1. /\ n \in Nat /\ n > 1 /\ Edges[1] = 0 /\ \A i \in 1..n : Edges[i] \in Int
      /\ \A i, j \in 1..n : i < j => Edges[i] < Edges[j]
    BY ScoreConstants
<1>2. B = 1..(n - 1) /\ IsFiniteSet(B) /\ Scores!Outermost = Edges[n] /\ Edges[n] \in Int
    BY <1>1, FS_Interval DEF Scores!Buckets, Scores!Outermost
<1> HIDE DEF n, B
<1>3. \A b \in B : /\ b \in 1..n /\ b + 1 \in 1..n /\ b \in Int
                   /\ Edges[b] \in Int /\ Edges[b + 1] \in Int /\ Edges[b] < Edges[b + 1]
                   /\ Edges[b + 1] <= Edges[n]
  <2> SUFFICES ASSUME NEW b \in B
               PROVE  /\ b \in 1..n /\ b + 1 \in 1..n /\ b \in Int
                      /\ Edges[b] \in Int /\ Edges[b + 1] \in Int /\ Edges[b] < Edges[b + 1]
                      /\ Edges[b + 1] <= Edges[n]
    OBVIOUS
  <2>1. b \in 1..n /\ b + 1 \in 1..n /\ n \in 1..n /\ b \in Int /\ b < b + 1
    BY <1>1, <1>2
  <2>2. b + 1 < n => Edges[b + 1] < Edges[n]
    BY <1>1, <2>1
  <2>3. b + 1 = n \/ b + 1 < n
    BY <1>1, <2>1
  <2> QED BY <1>1, <2>1, <2>2, <2>3
<1>4. \A b \in B : \A h \in Int : Scores!Contains(b, h) <=>
        Edges[b] <= h /\ (h < Edges[b + 1] \/ (b + 1 = n /\ h = Edges[n]))
    BY <1>2 DEF Scores!Contains, n
<1>5. ASSUME NEW h \in Int, NEW b \in B, NEW c \in B, Scores!Contains(b, h), Scores!Contains(c, h), b < c
      PROVE  FALSE
  <2>1. b + 1 <= c /\ c <= n - 1
    BY <1>1, <1>2, <1>3, <1>5
  <2>2. Edges[b + 1] <= Edges[c]
    <3>1. b + 1 < c => Edges[b + 1] < Edges[c]
      BY <1>1, <1>3
    <3>2. b + 1 = c \/ b + 1 < c
      BY <2>1, <1>3
    <3> QED BY <1>3, <3>1, <3>2
  <2>3. Edges[c] <= h /\ h < Edges[b + 1]
    BY <1>1, <1>3, <1>4, <1>5, <2>1
  <2> QED BY <1>3, <2>2, <2>3
<1>6. ASSUME NEW h \in Int, 0 <= h, h <= Edges[n]
      PROVE  \E b \in B : Scores!Contains(b, h) /\ \A c \in B : Scores!Contains(c, h) => c = b
  <2> DEFINE T == {b \in B : Edges[b] <= h}
  <2>1. 1 \in T /\ T \subseteq Int /\ IsFiniteSet(T)
    <3>1. 1 \in B
      BY <1>1, <1>2
    <3> QED BY <1>1, <1>2, <1>3, <1>6, <3>1, FS_Subset
  <2>2. PICK b \in T : \A c \in T : b >= c
    <3> HIDE DEF T
    <3> QED BY <2>1, GreatestOfFinite
  <2>3. Scores!Contains(b, h)
    <3>1. CASE b + 1 = n
      BY <1>3, <1>4, <1>6, <3>1
    <3>2. CASE b + 1 # n
      <4>1. b + 1 \in B
        BY <1>1, <1>2, <1>3, <3>2
      <4>2. ~(Edges[b + 1] <= h)
        <5>1. b + 1 \notin T
          BY <1>3, <2>2
        <5> QED BY <4>1, <5>1
      <4> QED BY <1>3, <1>4, <4>2
    <3> QED BY <3>1, <3>2
  <2>4. \A c \in B : Scores!Contains(c, h) => c = b
    <3> SUFFICES ASSUME NEW c \in B, Scores!Contains(c, h) PROVE c = b
      OBVIOUS
    <3>1. ~(b < c) /\ ~(c < b)
      BY <1>5, <2>3
    <3> QED BY <1>3, <3>1
  <2> QED BY <2>3, <2>4
<1>7. ASSUME NEW h \in Int, h > Edges[n], NEW b \in B PROVE ~Scores!Contains(b, h)
    BY <1>2, <1>3, <1>4, <1>7
<1> QED BY <1>2, <1>6, <1>7 DEF B

\* The next revision is above all others.
LEMMA NextRevIs ==
  ASSUME NEW R, IsFiniteSet(R), \A r \in R : r.rev \in Int
  PROVE  Scores!NextRev(R) \in Int /\ \A r \in R : r.rev < Scores!NextRev(R)
<1> DEFINE T == {r.rev : r \in R}
<1>1. CASE R = {}
    BY <1>1 DEF Scores!NextRev
<1>2. CASE R # {}
  <2>1. \E x \in R : \A y \in R : x.rev >= y.rev
    <3> DEFINE h == [r \in R |-> r.rev]
    <3>1. \A r \in R : h[r] = r.rev /\ h[r] \in Int
      OBVIOUS
    <3> HIDE DEF h
    <3>2. \E x \in R : \A y \in R : h[y] <= h[x]
      BY <1>2, <3>1, HighestOfFinite
    <3> QED BY <3>1, <3>2
  <2>2. \E x \in T : \A y \in T : x >= y
    BY <2>1
  <2>3. Scores!Max(T) = CHOOSE x \in T : \A y \in T : x >= y
    BY DEF Scores!Max
  <2>4. Scores!Max(T) \in T /\ \A y \in T : Scores!Max(T) >= y
    BY <2>2, <2>3
  <2>5. Scores!NextRev(R) = Scores!Max(T) + 1
    BY <1>2 DEF Scores!NextRev
  <2> QED BY <2>4, <2>5
<1> QED BY <1>1, <1>2

\* Evidence is numbered revisions.
ForecastRow == [valid : Int, vintage : Int, rev : Int]
OutturnRow == [at : Int, rev : Int]
NewestForecast(F, f) == \A q \in F : Scores!SameForecast(q, f) => q.rev <= f.rev
NewestOutturn(O, o) == \A q \in O : Scores!SameOutturn(q, o) => q.rev <= o.rev

\* A window of evidence.
InWindow(F, O, w) ==
  /\ IsFiniteSet(F) /\ F \subseteq ForecastRow /\ \A f \in F : Scores!In(w, f.valid)
  /\ IsFiniteSet(O) /\ O \subseteq OutturnRow /\ \A o \in O : Scores!In(w, o.at)

\* The vintages counted in a bucket.
LEMMA VintagesOf ==
  ASSUME NEW F, NEW O, NEW w, InWindow(F, O, w), NEW b
  PROVE  \A f : f \in Scores!Vintages(F, w, b) <=>
           f \in F /\ f.vintage <= f.valid /\ NewestForecast(F, f) /\ Scores!Contains(b, f.valid - f.vintage)
<1> DEFINE known == {f \in F : Scores!In(w, f.valid) /\ f.vintage <= f.valid}
<1>1. Scores!Vintages(F, w, b) =
        {f \in known : /\ \A q \in known : Scores!SameForecast(q, f) => q.rev <= f.rev
                       /\ Scores!Contains(b, f.valid - f.vintage)}
    BY DEF Scores!Vintages, Scores!NewestBy
<1>2. \A f : f \in known <=> f \in F /\ f.vintage <= f.valid
    BY DEF InWindow
<1> HIDE DEF known
<1>3. \A f \in known : \A q \in F : Scores!SameForecast(q, f) => q \in known
    BY <1>2 DEF Scores!SameForecast
<1> QED BY <1>1, <1>2, <1>3 DEF NewestForecast

\* Every time with an outturn has one newest.
LEMMA OutturnOf ==
  ASSUME NEW F, NEW O, NEW w, InWindow(F, O, w)
  PROVE  /\ \A o : o \in Scores!SelectedOutturns(O, w) <=> o \in O /\ NewestOutturn(O, o)
         /\ \A o, q \in Scores!SelectedOutturns(O, w) : o.at = q.at => o = q
         /\ \A o \in O : \E q \in Scores!SelectedOutturns(O, w) : q.at = o.at
<1> DEFINE S == Scores!SelectedOutturns(O, w)
<1>1. \A o : o \in S <=> o \in O /\ NewestOutturn(O, o)
  <2>1. {o \in O : Scores!In(w, o.at)} = O
    BY DEF InWindow
  <2> QED BY <2>1 DEF Scores!SelectedOutturns, Scores!NewestBy, NewestOutturn
<1> HIDE DEF S
<1>2. ASSUME NEW o \in S, NEW q \in S, o.at = q.at PROVE o = q
  <2>1. o \in OutturnRow /\ q \in OutturnRow /\ o.rev <= q.rev /\ q.rev <= o.rev
    BY <1>1, <1>2 DEF NewestOutturn, Scores!SameOutturn, InWindow
  <2> QED BY <1>2, <2>1 DEF OutturnRow
<1>3. ASSUME NEW o \in O PROVE \E q \in S : q.at = o.at
  <2> DEFINE T == {q \in O : q.at = o.at}
             h == [q \in T |-> q.rev]
  <2>1. T # {} /\ IsFiniteSet(T) /\ \A q \in T : h[q] \in Int /\ h[q] = q.rev
    BY FS_Subset DEF InWindow, OutturnRow
  <2>2. \E x \in T : \A y \in T : h[y] <= h[x]
    <3> HIDE DEF T, h
    <3> QED BY <2>1, HighestOfFinite
  <2>3. PICK x \in T : \A y \in T : y.rev <= x.rev
    BY <2>1, <2>2
  <2>4. x \in O /\ x.at = o.at /\ NewestOutturn(O, x)
    BY <2>3 DEF NewestOutturn, Scores!SameOutturn
  <2> QED BY <1>1, <2>4
<1> QED BY <1>1, <1>2, <1>3 DEF S

\* The pairs of a bucket: each vintage with an outturn of its time once.
LEMMA PairsCount ==
  ASSUME NEW F, NEW O, NEW w, InWindow(F, O, w), NEW b
  PROVE  LET P == Scores!PairsOf(F, O, w, b)
             V == Scores!Vintages(F, w, b)
         IN  /\ IsFiniteSet(P) /\ IsFiniteSet(V)
             /\ \A p \in P : /\ p.bucket = b /\ p.forecast \in V /\ p.outturn.at = p.forecast.valid
                             /\ p.outturn \in O /\ NewestOutturn(O, p.outturn)
             /\ \A p, q \in P : p.forecast = q.forecast => p = q
             /\ Cardinality(P) = Cardinality({f \in V : \E o \in O : o.at = f.valid})
<1> DEFINE P == Scores!PairsOf(F, O, w, b)
           V == Scores!Vintages(F, w, b)
           S == Scores!SelectedOutturns(O, w)
           D == {f \in V : \E o \in O : o.at = f.valid}
           of(f) == CHOOSE o \in S : o.at = f.valid
           m == [f \in D |-> [bucket |-> b, forecast |-> f, outturn |-> of(f)]]
<1>1. \A p : p \in P <=> \E f \in V : \E o \in S :
                p = [bucket |-> b, forecast |-> f, outturn |-> o] /\ f.valid = o.at
  <2> DEFINE T == {q \in V \X S : q[1].valid = q[2].at}
             row(q) == [bucket |-> b, forecast |-> q[1], outturn |-> q[2]]
  <2>1. P = {row(q) : q \in T}
    BY DEF Scores!PairsOf
  <2> HIDE DEF P, V, S
  <2>2. \A q \in T : q[1] \in V /\ q[2] \in S /\ q[1].valid = q[2].at
    OBVIOUS
  <2>3. \A f \in V : \A o \in S : f.valid = o.at => <<f, o>> \in T /\ row(<<f, o>>) = [bucket |-> b, forecast |-> f, outturn |-> o]
    OBVIOUS
  <2> HIDE DEF T
  <2>4. ASSUME NEW p \in P
        PROVE  \E f \in V : \E o \in S : p = [bucket |-> b, forecast |-> f, outturn |-> o] /\ f.valid = o.at
    BY <2>1, <2>2
  <2>5. ASSUME NEW f \in V, NEW o \in S, f.valid = o.at
        PROVE  [bucket |-> b, forecast |-> f, outturn |-> o] \in P
    <3> HIDE DEF row
    <3> QED BY <2>1, <2>3, <2>5
  <2> QED BY <2>4, <2>5
<1>2. /\ \A o : o \in S <=> o \in O /\ NewestOutturn(O, o)
      /\ \A o, q \in S : o.at = q.at => o = q
      /\ \A o \in O : \E q \in S : q.at = o.at
    BY OutturnOf
<1>3. V \subseteq F /\ IsFiniteSet(V)
  <2>1. V \subseteq F
    BY VintagesOf
  <2> QED BY <2>1, FS_Subset DEF InWindow
<1> HIDE DEF P, V, S
<1>4. \A p \in P : /\ p.bucket = b /\ p.forecast \in V /\ p.outturn \in S
                   /\ p.outturn.at = p.forecast.valid
                   /\ p = [bucket |-> b, forecast |-> p.forecast, outturn |-> p.outturn]
    BY <1>1
<1>5. ASSUME NEW p \in P, NEW q \in P, p.forecast = q.forecast PROVE p = q
  <2>1. p.outturn = q.outturn
    BY <1>2, <1>4, <1>5
  <2>2. /\ p = [bucket |-> b, forecast |-> p.forecast, outturn |-> p.outturn]
        /\ q = [bucket |-> b, forecast |-> q.forecast, outturn |-> q.outturn]
    BY <1>4
  <2> QED BY <1>5, <2>1, <2>2
<1>6. \A f \in D : of(f) \in S /\ of(f).at = f.valid
  <2> SUFFICES ASSUME NEW f \in D PROVE \E o \in S : o.at = f.valid
    OBVIOUS
  <2> QED BY <1>2
<1>7. D \subseteq V /\ IsFiniteSet(D) /\ \A p \in P : p.forecast \in D
    BY <1>2, <1>3, <1>4, FS_Subset
<1>8. \A f \in D : m[f] \in P /\ m[f].forecast = f
  <2> SUFFICES ASSUME NEW f \in D PROVE m[f] \in P /\ m[f].forecast = f
    OBVIOUS
  <2>1. m[f] = [bucket |-> b, forecast |-> f, outturn |-> of(f)]
    OBVIOUS
  <2> HIDE DEF m, of, D
  <2> QED BY <1>1, <1>6, <1>7, <2>1
<1>9. \A p \in P : m[p.forecast] = p
    BY <1>5, <1>7, <1>8
<1>10. m \in Bijection(D, P)
  <2>1. m \in [D -> P]
    <3>1. m = [f \in D |-> m[f]]
      OBVIOUS
    <3> HIDE DEF m, D
    <3> QED BY <1>8, <3>1
  <2> HIDE DEF m, D
  <2>2. \A x, y \in D : m[x] = m[y] => x = y
    BY <1>8
  <2>3. \A p \in P : \E f \in D : m[f] = p
    BY <1>7, <1>9
  <2> QED BY <2>1, <2>2, <2>3 DEF Bijection, Injection, Surjection, IsInjective
<1> HIDE DEF D, m
<1>11. ExistsBijection(D, P)
    BY <1>10 DEF ExistsBijection
<1>12. IsFiniteSet(P) /\ Cardinality(P) = Cardinality(D)
    BY <1>7, <1>11, FS_Bijection
<1> QED BY <1>2, <1>3, <1>4, <1>5, <1>12 DEF P, V, D

\* A result counts what it says it was computed of.
CountsRight(r) ==
  /\ r.rev \in Int /\ r.window[2] \in Int
  /\ r.verified = Cardinality(r.checksum[2]) /\ r.expected = Cardinality(r.checksum[1])
  /\ r.verified \in Int /\ r.expected \in Int
  /\ \A f \in r.checksum[1] : f.vintage <= f.valid

SameResult(q, r) == q.bucket = r.bucket /\ q.window = r.window

\* The results are finitely many revisions, no two of one number.
ResultsRight(R) ==
  /\ IsFiniteSet(R)
  /\ \A r \in R : CountsRight(r)
  /\ \A q, r \in R : SameResult(q, r) /\ q.rev = r.rev => q = r

PairsRight(P) == IsFiniteSet(P) /\ \A p \in P : p.rev \in Int

\* What a run computes of a bucket.
LEMMA AggregateIs ==
  ASSUME NEW F, NEW O, NEW w \in ScoreWindows, InWindow(F, O, w), NEW b
  PROVE  LET a == Scores!Aggregate(F, O, w, b)
         IN  /\ a.bucket = b /\ a.window = w
             /\ a.checksum = <<Scores!Vintages(F, w, b), Scores!PairsOf(F, O, w, b)>>
             /\ \A n \in Int : LET r == [a EXCEPT !.rev = n]
                               IN  /\ r.rev = n /\ r.bucket = b /\ r.window = w
                                   /\ r.checksum = a.checksum /\ CountsRight(r)
<1> DEFINE a == Scores!Aggregate(F, O, w, b)
           V == Scores!Vintages(F, w, b)
           P == Scores!PairsOf(F, O, w, b)
<1>1. /\ a = [a EXCEPT !.rev = a.rev] /\ a.bucket = b /\ a.window = w /\ a.checksum = <<V, P>>
      /\ a.verified = Scores!Cardinality(P) /\ a.expected = Scores!Cardinality(V)
      /\ \A n : LET r == [a EXCEPT !.rev = n]
                IN  /\ r.rev = n /\ r.bucket = a.bucket /\ r.window = a.window
                    /\ r.checksum = a.checksum /\ r.verified = a.verified /\ r.expected = a.expected
    BY DEF Scores!Aggregate
<1> HIDE DEF a, V, P
<1>2. a.verified = Cardinality(P) /\ a.expected = Cardinality(V)
    BY <1>1, ScoreLibrary
<1>3. Cardinality(P) \in Int /\ Cardinality(V) \in Int
  <2>1. IsFiniteSet(P) /\ IsFiniteSet(V)
    BY PairsCount DEF P, V
  <2> QED BY <2>1, FS_CardinalityType
<1>4. \A f \in V : f.vintage <= f.valid
    BY VintagesOf DEF V
<1>5. w[2] \in Int
    BY ScoreConstants
<1>6. ASSUME NEW n \in Int
      PROVE  LET r == [a EXCEPT !.rev = n]
             IN  /\ r.rev = n /\ r.bucket = b /\ r.window = w
                 /\ r.checksum = a.checksum /\ CountsRight(r)
  <2> DEFINE r == [a EXCEPT !.rev = n]
  <2>1. /\ r.rev = n /\ r.bucket = b /\ r.window = w
        /\ r.checksum = <<V, P>> /\ r.verified = Cardinality(P) /\ r.expected = Cardinality(V)
    BY <1>1, <1>2
  <2> HIDE DEF r
  <2>2. CountsRight(r)
    BY <1>3, <1>4, <1>5, <2>1 DEF CountsRight
  <2> QED BY <1>1, <2>1, <2>2 DEF r
<1> QED BY <1>1, <1>6 DEF a, V, P

\* The result of a bucket over a window that the revisions end with.
Tops(R, w, b, r) ==
  /\ r \in R /\ r.bucket = b /\ r.window = w
  /\ \A q \in R : q.bucket = b /\ q.window = w => q.rev < r.rev \/ q = r

\* The results that a run appends keep the numbers apart, and every bucket ends with what
\* the run has computed (_append_results).
LEMMA ResultsAppended ==
  ASSUME NEW F, NEW O, NEW w \in ScoreWindows, InWindow(F, O, w), ResultsRight(results)
  PROVE  LET U == results \cup Scores!NewResults(F, O, w)
         IN  /\ ResultsRight(U)
             /\ \A b \in Scores!Buckets : \E r \in U :
                  Tops(U, w, b, r) /\ r.checksum = Scores!Aggregate(F, O, w, b).checksum
<1> DEFINE B == Scores!Buckets
           agg(b) == Scores!Aggregate(F, O, w, b)
           stored(b) == {q \in results : q.bucket = b /\ q.window = w}
           next(b) == Scores!NextRev(stored(b))
           known(b) == \E q \in stored(b) :
                          /\ \A s \in stored(b) : s.bucket = q.bucket => s.rev <= q.rev
                          /\ q.checksum = agg(b).checksum
           row(b) == [agg(b) EXCEPT !.rev = next(b)]
           N == Scores!NewResults(F, O, w)
           U == results \cup N
<1>1. IsFiniteSet(results) /\ \A r \in results : CountsRight(r) /\ r.rev \in Int
    BY DEF ResultsRight, CountsRight
<1>2. \A b : agg(b).bucket = b /\ agg(b).window = w
    BY AggregateIs
<1>3. N = {row(b) : b \in {c \in B : ~known(c)}}
  <2> DEFINE A == {agg(b) : b \in B}
             kept(r) == {q \in results : q.bucket = r.bucket /\ q.window = r.window}
             same(r) == \E q \in {s \in kept(r) : \A t \in kept(r) : t.bucket = s.bucket => t.rev <= s.rev} :
                          q.checksum = r.checksum
  <2>1. N = {[r EXCEPT !.rev = Scores!NextRev(kept(r))] : r \in {q \in A : ~same(q)}}
    BY DEF Scores!NewResults, Scores!Appended, Scores!NewestBy, Scores!SameBucket
  <2>2. \A b : kept(agg(b)) = stored(b)
    BY <1>2
  <2> HIDE DEF kept, stored, agg
  <2>3. \A b : same(agg(b)) <=> known(b)
    BY <2>2
  <2>4. \A b : row(b) = [agg(b) EXCEPT !.rev = Scores!NextRev(kept(agg(b)))]
    BY <2>2
  <2> DEFINE line(r) == [r EXCEPT !.rev = Scores!NextRev(kept(r))]
  <2>5. N = {line(r) : r \in {q \in A : ~same(q)}}
    BY <2>1
  <2>6. \A b : row(b) = line(agg(b))
    BY <2>4
  <2> HIDE DEF line, row, same, known, N
  <2> QED BY <2>3, <2>5, <2>6
<1>4. \A b : IsFiniteSet(stored(b)) /\ stored(b) \subseteq results
  <2> SUFFICES ASSUME NEW b PROVE IsFiniteSet(stored(b)) /\ stored(b) \subseteq results
    OBVIOUS
  <2>1. stored(b) \subseteq results
    OBVIOUS
  <2> HIDE DEF stored
  <2> QED BY <1>1, <2>1, FS_Subset
<1>5. \A b : next(b) \in Int /\ \A s \in stored(b) : s.rev < next(b)
  <2> SUFFICES ASSUME NEW b PROVE next(b) \in Int /\ \A s \in stored(b) : s.rev < next(b)
    OBVIOUS
  <2> HIDE DEF stored
  <2>1. IsFiniteSet(stored(b)) /\ \A s \in stored(b) : s.rev \in Int
    BY <1>1, <1>4
  <2> QED BY <2>1, NextRevIs
<1>6. \A b : /\ row(b).rev = next(b) /\ row(b).bucket = b /\ row(b).window = w
             /\ row(b).checksum = agg(b).checksum /\ CountsRight(row(b))
  <2> HIDE DEF next
  <2> QED BY <1>5, AggregateIs
<1> HIDE DEF N, row, next, agg, known
<1>7. ResultsRight(U)
  <2>1. IsFiniteSet(U)
    <3>1. IsFiniteSet(N)
      <4> DEFINE C == {c \in B : ~known(c)}
                 m == [b \in C |-> row(b)]
      <4>1. IsFiniteSet(C)
        BY OneBucket, FS_Subset, C \subseteq B
      <4>2. m \in Surjection(C, N)
        <5>1. \A x \in N : \E b \in C : m[b] = x
          BY <1>3
        <5>2. m \in [C -> N]
          BY <1>3
        <5> HIDE DEF m, C
        <5> QED BY <5>1, <5>2 DEF Surjection
      <4> HIDE DEF C, m
      <4> QED BY <4>1, <4>2, FS_Surjection
    <3> QED BY <1>1, <3>1, FS_Union
  <2>2. \A r \in U : CountsRight(r)
    BY <1>1, <1>3, <1>6
  <2>3. ASSUME NEW q \in N, NEW r \in U, SameResult(q, r), q.rev = r.rev PROVE q = r
    <3>1. PICK b \in B : q = row(b) /\ ~known(b)
      BY <1>3
    <3>2. r.bucket = b /\ r.window = w /\ r.rev = next(b)
      BY <1>6, <2>3, <3>1 DEF SameResult
    <3>3. r \notin results
      <4>1. r \in results => r \in stored(b)
        BY <3>2
      <4>2. r \in stored(b) => r.rev < next(b)
        BY <1>5
      <4> QED BY <1>5, <3>2, <4>1, <4>2
    <3>4. PICK c \in B : r = row(c)
      BY <1>3, <3>3
    <3> QED BY <1>6, <3>1, <3>2, <3>4
  <2>4. \A q, r \in U : SameResult(q, r) /\ q.rev = r.rev => q = r
    <3> SUFFICES ASSUME NEW q \in U, NEW r \in U, SameResult(q, r), q.rev = r.rev PROVE q = r
      OBVIOUS
    <3>1. CASE q \in N
      BY <2>3, <3>1
    <3>2. CASE r \in N
      BY <2>3, <3>2 DEF SameResult
    <3>3. CASE q \in results /\ r \in results
      BY <3>3 DEF ResultsRight
    <3> QED BY <3>1, <3>2, <3>3
  <2> QED BY <2>1, <2>2, <2>4 DEF ResultsRight
<1>8. ASSUME NEW b \in B
      PROVE  \E r \in U : Tops(U, w, b, r) /\ r.checksum = agg(b).checksum
  <2>1. \A q \in U : q.bucket = b /\ q.window = w => q \in stored(b) \/ (q = row(b) /\ ~known(b))
    BY <1>3, <1>6
  <2>2. CASE known(b)
    <3>1. PICK r \in stored(b) : /\ \A s \in stored(b) : s.bucket = r.bucket => s.rev <= r.rev
                                 /\ r.checksum = agg(b).checksum
      BY <2>2 DEF known
    <3>2. r \in results /\ r.bucket = b /\ r.window = w /\ r.rev \in Int
      BY <1>1
    <3>3. ASSUME NEW q \in U, q.bucket = b, q.window = w PROVE q.rev < r.rev \/ q = r
      <4>1. q \in stored(b)
        BY <2>1, <2>2, <3>3
      <4>2. q.rev <= r.rev /\ q \in results /\ q.rev \in Int
        BY <1>1, <3>1, <3>2, <4>1
      <4>3. q.rev = r.rev => q = r
        BY <3>2, <3>3, <4>2 DEF ResultsRight, SameResult
      <4> QED BY <3>2, <4>2, <4>3
    <3>4. Tops(U, w, b, r)
      BY <3>2, <3>3 DEF Tops
    <3> QED BY <3>1, <3>2, <3>4
  <2>3. CASE ~known(b)
    <3>1. row(b) \in U
      BY <1>3, <2>3
    <3>2. \A q \in U : q.bucket = b /\ q.window = w => q.rev < row(b).rev \/ q = row(b)
      BY <1>5, <1>6, <2>1
    <3> QED BY <1>6, <3>1, <3>2 DEF Tops
  <2> QED BY <2>2, <2>3
<1> QED BY <1>7, <1>8 DEF agg, N

\* The newest revision of a pair is of these two rows.
PairEnds(P, f, o) ==
  \E q \in P : /\ q.forecast = f /\ q.outturn = o
               /\ \A s \in P : Scores!SamePair(s, q) => s.rev <= q.rev

\* The pairs that a run appends (_append_pairs): each is the newest of its key.
LEMMA PairsAppended ==
  ASSUME NEW F, NEW O, NEW w, InWindow(F, O, w), PairsRight(pairs)
  PROVE  LET U == pairs \cup Scores!NewPairs(F, O, w)
         IN  /\ PairsRight(U)
             /\ \A b \in Scores!Buckets : \A p \in Scores!PairsOf(F, O, w, b) :
                  PairEnds(U, p.forecast, p.outturn)
<1> DEFINE B == Scores!Buckets
           all == UNION {Scores!PairsOf(F, O, w, b) : b \in B}
           stored(p) == {q \in pairs : Scores!SamePair(q, p)}
           known(p) == \E q \in stored(p) :
                         /\ \A s \in stored(p) : Scores!SamePair(s, q) => s.rev <= q.rev
                         /\ q.forecast = p.forecast /\ q.outturn = p.outturn
           row(p) == [bucket |-> p.bucket, forecast |-> p.forecast, outturn |-> p.outturn,
                      rev |-> Scores!NextRev(stored(p))]
           N == Scores!NewPairs(F, O, w)
           U == pairs \cup N
<1>a. ASSUME NEW b
      PROVE  /\ IsFiniteSet(Scores!PairsOf(F, O, w, b))
             /\ \A p \in Scores!PairsOf(F, O, w, b) :
                  p.bucket = b /\ p.forecast \in Scores!Vintages(F, w, b)
    BY PairsCount
<1>1. IsFiniteSet(pairs) /\ \A p \in pairs : p.rev \in Int
    BY DEF PairsRight
<1>2. N = {row(p) : p \in {q \in all : ~known(q)}}
  <2> DEFINE known2(p) == \E q \in {r \in stored(p) : \A s \in stored(p) : Scores!SamePair(s, r) => s.rev <= r.rev} :
                            q.forecast = p.forecast /\ q.outturn = p.outturn
  <2>1. N = {row(p) : p \in {q \in all : ~known2(q)}}
    BY Zenon DEF Scores!NewPairs, Scores!NewestBy
  <2>2. \A p : known2(p) <=> known(p)
    OBVIOUS
  <2> HIDE DEF known, known2, row, all, N
  <2> QED BY <2>1, <2>2
\* No two of the new pairs have one key.
<1>3. \A p \in all : \A q \in all : Scores!SamePair(p, q) => p = q
  <2> SUFFICES ASSUME NEW p \in all, NEW q \in all, Scores!SamePair(p, q) PROVE p = q
    OBVIOUS
  <2>1. PICK b \in B : p \in Scores!PairsOf(F, O, w, b)
    OBVIOUS
  <2>2. PICK c \in B : q \in Scores!PairsOf(F, O, w, c)
    OBVIOUS
  <2>3. p.bucket = b /\ q.bucket = c /\ p.forecast \in Scores!Vintages(F, w, b) /\ q.forecast \in Scores!Vintages(F, w, c)
    BY <1>a, <2>1, <2>2
  <2>4. b = c
    BY <2>3 DEF Scores!SamePair
  <2>5. /\ p.forecast \in F /\ q.forecast \in F
        /\ NewestForecast(F, p.forecast) /\ NewestForecast(F, q.forecast)
    BY <2>3, VintagesOf
  <2>6. /\ p.forecast \in ForecastRow /\ q.forecast \in ForecastRow
        /\ p.forecast.valid = q.forecast.valid /\ p.forecast.vintage = q.forecast.vintage
    BY <2>5 DEF InWindow, Scores!SamePair, Scores!SameForecast
  <2>7. p.forecast.rev <= q.forecast.rev /\ q.forecast.rev <= p.forecast.rev
    BY <2>5, <2>6 DEF NewestForecast, Scores!SameForecast
  <2>8. p.forecast = q.forecast
    BY <2>6, <2>7 DEF ForecastRow
  <2> QED BY <2>1, <2>2, <2>4, <2>8, PairsCount
<1>4. IsFiniteSet(all)
  <2> DEFINE G == {Scores!PairsOf(F, O, w, b) : b \in B}
             m == [b \in B |-> Scores!PairsOf(F, O, w, b)]
  <2>1. \A T \in G : IsFiniteSet(T)
    BY <1>a
  <2>2. m \in Surjection(B, G) /\ IsFiniteSet(B)
    BY OneBucket DEF Surjection
  <2>3. IsFiniteSet(G)
    <3> HIDE DEF G, m
    <3> QED BY <2>2, FS_Surjection
  <2> HIDE DEF G
  <2>4. IsFiniteSet(UNION G)
    BY <2>1, <2>3, FS_UNION
  <2> QED BY <2>4 DEF G
<1>5. \A p : /\ row(p).rev \in Int /\ \A s \in stored(p) : s.rev < row(p).rev
             /\ row(p).bucket = p.bucket /\ row(p).forecast = p.forecast /\ row(p).outturn = p.outturn
  <2> SUFFICES ASSUME NEW p
               PROVE  /\ row(p).rev \in Int /\ \A s \in stored(p) : s.rev < row(p).rev
                      /\ row(p).bucket = p.bucket /\ row(p).forecast = p.forecast
                      /\ row(p).outturn = p.outturn
    OBVIOUS
  <2>1. IsFiniteSet(stored(p)) /\ \A s \in stored(p) : s.rev \in Int
    <3>1. stored(p) \subseteq pairs
      OBVIOUS
    <3> HIDE DEF stored
    <3> QED BY <1>1, <3>1, FS_Subset
  <2> HIDE DEF stored
  <2> QED BY <2>1, NextRevIs
<1>6. PairsRight(U)
  <2> DEFINE C == {q \in all : ~known(q)}
             m == [p \in C |-> row(p)]
  <2> HIDE DEF row, known, N, all
  <2>1. IsFiniteSet(C)
    BY <1>4, FS_Subset, C \subseteq all
  <2>2. m \in Surjection(C, N)
    <3>1. (\A x \in N : \E p \in C : m[p] = x) /\ m \in [C -> N]
      BY <1>2
    <3> HIDE DEF m, C
    <3> QED BY <3>1 DEF Surjection
  <2>3. IsFiniteSet(N)
    <3> HIDE DEF m, C
    <3> QED BY <2>1, <2>2, FS_Surjection
  <2>4. \A p \in N : p.rev \in Int
    BY <1>2, <1>5
  <2> QED BY <1>1, <2>3, <2>4, FS_Union DEF PairsRight
<1>7. ASSUME NEW p \in all PROVE PairEnds(U, p.forecast, p.outturn)
  <2>1. \A s \in N : \E q \in all : s = row(q) /\ ~known(q)
    <3> HIDE DEF row, known, N, all
    <3> QED BY <1>2
  <2>2. \A s \in N : Scores!SamePair(s, p) => s = row(p) /\ ~known(p)
    <3> SUFFICES ASSUME NEW s \in N, Scores!SamePair(s, p) PROVE s = row(p) /\ ~known(p)
      OBVIOUS
    <3>1. PICK q \in all : s = row(q) /\ ~known(q)
      BY <2>1
    <3>2. Scores!SamePair(q, p)
      <4> HIDE DEF row
      <4> QED BY <1>5, <3>1 DEF Scores!SamePair, Scores!SameForecast
    <3>3. q = p
      <4> HIDE DEF all
      <4> QED BY <1>3, <3>2
    <3> QED BY <3>1, <3>3
  <2>3. CASE known(p)
    <3>1. PICK q \in stored(p) : /\ \A s \in stored(p) : Scores!SamePair(s, q) => s.rev <= q.rev
                                 /\ q.forecast = p.forecast /\ q.outturn = p.outturn
      BY <2>3
    <3>2. q \in pairs /\ Scores!SamePair(q, p)
      OBVIOUS
    <3>3. ASSUME NEW s \in U, Scores!SamePair(s, q) PROVE s.rev <= q.rev
      <4>1. Scores!SamePair(s, p)
        BY <3>2, <3>3 DEF Scores!SamePair, Scores!SameForecast
      <4>2. s \in pairs
        <5> HIDE DEF known, row, N
        <5> QED BY <2>2, <2>3, <4>1
      <4>3. s \in stored(p)
        BY <4>1, <4>2
      <4> HIDE DEF stored
      <4> QED BY <3>1, <3>3, <4>3
    <3> QED BY <3>1, <3>2, <3>3 DEF PairEnds
  <2>4. CASE ~known(p)
    <3>1. row(p) \in N
      <4> HIDE DEF known, row, N, all
      <4> QED BY <1>2, <2>4
    <3> HIDE DEF row, known, N
    <3>2. ASSUME NEW s \in U, Scores!SamePair(s, row(p)) PROVE s.rev <= row(p).rev
      <4>1. Scores!SamePair(s, p)
        BY <1>5, <3>2 DEF Scores!SamePair, Scores!SameForecast
      <4>2. CASE s \in N
        BY <1>5, <2>2, <4>1, <4>2
      <4>3. CASE s \in pairs
        <5>1. s \in stored(p) /\ s.rev \in Int
          BY <1>1, <4>1, <4>3
        <5> HIDE DEF stored
        <5> QED BY <1>5, <5>1
      <4> QED BY <4>2, <4>3
    <3> QED BY <1>5, <3>1, <3>2 DEF PairEnds
  <2> QED BY <2>3, <2>4
<1>8. \A b \in B : \A p \in Scores!PairsOf(F, O, w, b) : p \in all
    OBVIOUS
<1> HIDE DEF all
<1> QED BY <1>6, <1>7, <1>8 DEF N

\* Evidence that a run has read of its window.
RunRight(r) ==
  r # Scores!Idle => r.window \in ScoreWindows /\ InWindow(r.forecasts, r.outturns, r.window)

ScoreInv ==
  /\ moment \in Int
  /\ IsFiniteSet(forecasts) /\ forecasts \subseteq ForecastRow
  /\ IsFiniteSet(outturns) /\ outturns \subseteq OutturnRow
  /\ RunRight(run) /\ PairsRight(pairs) /\ ResultsRight(results)

\* What the next revisions say is what the run has computed.
LEMMA ScoredIs ==
  ASSUME NEW F, NEW O, NEW w \in ScoreWindows, InWindow(F, O, w), ResultsRight(results'),
         \A b \in Scores!Buckets : \E r \in results' :
            Tops(results', w, b, r) /\ r.checksum = Scores!Aggregate(F, O, w, b).checksum,
         \A b \in Scores!Buckets : \A p \in Scores!PairsOf(F, O, w, b) :
            PairEnds(pairs', p.forecast, p.outturn)
  PROVE  Scores!Scored(F, O, w)
<1> DEFINE B == Scores!Buckets
           V(b) == Scores!Vintages(F, w, b)
           P(b) == Scores!PairsOf(F, O, w, b)
<1>1. ASSUME NEW b \in B
      PROVE  /\ Scores!Now(w, b) \in results' /\ CountsRight(Scores!Now(w, b))
             /\ Scores!Now(w, b).checksum[1] = V(b) /\ Scores!Now(w, b).checksum[2] = P(b)
  <2>1. PICK r \in results' : Tops(results', w, b, r) /\ r.checksum = Scores!Aggregate(F, O, w, b).checksum
    OBVIOUS
  <2> DEFINE S == {q \in results' : q.bucket = b /\ q.window = w}
  <2>2. r \in S /\ \A q \in results' : q.bucket = b /\ q.window = w => q.rev < r.rev \/ q = r
    BY <2>1 DEF Tops
  <2>3. \A q \in results' : q.rev \in Int
    BY DEF ResultsRight, CountsRight
  <2>4. \A q \in results' : q.bucket = b /\ q.window = w => q.rev <= r.rev
    BY <2>2, <2>3
  <2>5. \A x \in S : (\A q \in results' : q.bucket = b /\ q.window = w => q.rev <= x.rev) => x = r
    <3> SUFFICES ASSUME NEW x \in S, \A q \in results' : q.bucket = b /\ q.window = w => q.rev <= x.rev
                 PROVE  x = r
      OBVIOUS
    <3>1. r.rev <= x.rev /\ (x.rev < r.rev \/ x = r) /\ r.rev \in Int /\ x.rev \in Int
      BY <2>2, <2>3
    <3> QED BY <3>1
  <2>6. Scores!Now(w, b) = CHOOSE x \in S : \A q \in results' : q.bucket = b /\ q.window = w => q.rev <= x.rev
    BY DEF Scores!Now
  <2> HIDE DEF S
  <2>7. Scores!Now(w, b) = r
    BY <2>2, <2>4, <2>5, <2>6
  <2>8. r.checksum = <<V(b), P(b)>>
    BY <2>1, AggregateIs
  <2> QED BY <2>7, <2>8 DEF ResultsRight
<1>2. \A b : \A f : f \in V(b) <=> f \in F /\ f.vintage <= f.valid /\ NewestForecast(F, f)
                                      /\ Scores!Contains(b, f.valid - f.vintage)
    BY VintagesOf
<1> HIDE DEF V, P
<1>3. ASSUME NEW f \in F, NewestForecast(F, f)
      PROVE  Scores!Cardinality({b \in B : f \in Scores!Now(w, b).checksum[1]})
               = IF f.vintage <= f.valid /\ f.valid - f.vintage <= Scores!Outermost THEN 1 ELSE 0
  <2> DEFINE h == f.valid - f.vintage
             C == {b \in B : f \in Scores!Now(w, b).checksum[1]}
  <2>1. h \in Int /\ f.valid \in Int /\ f.vintage \in Int /\ Scores!Outermost \in Int
    BY OneBucket DEF InWindow, ForecastRow
  <2>2. \A b \in B : b \in C <=> f.vintage <= f.valid /\ Scores!Contains(b, h)
    BY <1>1, <1>2, <1>3
  <2>3. C \subseteq B
    OBVIOUS
  <2> HIDE DEF C
  <2>4. CASE f.vintage <= f.valid /\ h <= Scores!Outermost
    <3>1. 0 <= h
      BY <2>1, <2>4
    <3> HIDE DEF h
    <3>2. PICK b \in B : Scores!Contains(b, h) /\ \A c \in B : Scores!Contains(c, h) => c = b
      BY <2>1, <2>4, <3>1, OneBucket
    <3>3. C = {b}
      BY <2>2, <2>3, <2>4, <3>2
    <3>4. Scores!Cardinality(C) = 1
      BY <3>3, FS_Singleton, ScoreLibrary
    <3> QED BY <2>4, <3>4 DEF C, h
  <2>5. CASE ~(f.vintage <= f.valid /\ h <= Scores!Outermost)
    <3>1. C = {}
      <4> HIDE DEF h
      <4>1. \A b \in B : ~(f.vintage <= f.valid /\ Scores!Contains(b, h))
        BY <2>1, <2>5, OneBucket
      <4> QED BY <2>2, <2>3, <4>1
    <3>2. Scores!Cardinality(C) = 0
      BY <3>1, FS_EmptySet, ScoreLibrary
    <3> QED BY <2>5, <3>2 DEF C, h
  <2> QED BY <2>4, <2>5
<1>4. ASSUME NEW b \in B
      PROVE  /\ \A f \in Scores!Now(w, b).checksum[1] : f \in F /\ NewestForecast(F, f)
             /\ \A p \in Scores!Now(w, b).checksum[2] : NewestOutturn(O, p.outturn)
             /\ \A p \in Scores!Now(w, b).checksum[2] : PairEnds(pairs', p.forecast, p.outturn)
  <2>1. \A p \in P(b) : NewestOutturn(O, p.outturn)
    BY PairsCount DEF P
  <2>2. \A p \in P(b) : PairEnds(pairs', p.forecast, p.outturn)
    BY DEF P
  <2> QED BY <1>1, <1>2, <2>1, <2>2
<1>5. ASSUME NEW b \in B
      PROVE  Scores!Now(w, b).verified
               = Scores!Cardinality({f \in Scores!Now(w, b).checksum[1] : \E o \in O : o.at = f.valid})
  <2>1. Scores!Now(w, b).verified = Cardinality(P(b))
    BY <1>1 DEF CountsRight
  <2>2. Cardinality(P(b)) = Cardinality({f \in V(b) : \E o \in O : o.at = f.valid})
    BY PairsCount DEF P, V
  <2> QED BY <1>1, <2>1, <2>2, ScoreLibrary
<1>6. ASSUME NEW b \in B, NEW r \in Scores!Latest(results', b)
      PROVE  /\ \A q \in results' : q.bucket = b => q.window[2] <= r.window[2]
             /\ Scores!Shown(r).status = "available" =>
                  /\ r.verified >= MinSamples
                  /\ r.expected * MinCoverage <= r.verified * 100
                  /\ \A f \in r.checksum[1] : f.vintage <= f.valid
  <2>1. r \in results' /\ \A q \in results' : q.bucket = b => ~Scores!Later(q, r)
    BY DEF Scores!Latest
  <2>2. \A q \in results' : q.window[2] \in Int
    BY DEF ResultsRight, CountsRight
  <2>3. \A q \in results' : q.bucket = b => q.window[2] <= r.window[2]
    BY <2>1, <2>2 DEF Scores!Later
  <2>4. r.verified \in Int /\ r.expected \in Int /\ \A f \in r.checksum[1] : f.vintage <= f.valid
    BY <2>1 DEF ResultsRight, CountsRight
  <2>5. Scores!Shown(r).status = "available" => Scores!Eligible(r.verified, r.expected)
    BY DEF Scores!Shown
  <2>6. Scores!Eligible(r.verified, r.expected) =>
          r.verified >= MinSamples /\ r.expected * MinCoverage <= r.verified * 100
    <3>1. MinSamples \in Int /\ MinCoverage \in Int
      BY ScoreConstants
    <3>2. r.expected * MinCoverage = MinCoverage * r.expected /\ r.expected * MinCoverage \in Int
      BY <2>4, <3>1
    <3> QED BY <2>4, <3>1, <3>2 DEF Scores!Eligible
  <2> QED BY <2>3, <2>4, <2>5, <2>6
<1> QED BY <1>3, <1>4, <1>5, <1>6 DEF Scores!Scored, NewestForecast, NewestOutturn, PairEnds

ScoreHolds == reads = "scores" => ScoreInv

\* Nothing is stored at first.
LEMMA ScoreStart == Scores!Init => ScoreInv
<1> SUFFICES ASSUME Scores!Init PROVE ScoreInv
    OBVIOUS
<1>1. moment = 0 /\ run = Scores!Idle /\ forecasts = {} /\ outturns = {} /\ pairs = {} /\ results = {}
    BY DEF Scores!Init
<1> QED BY <1>1, FS_EmptySet DEF ScoreInv, RunRight, PairsRight, ResultsRight

\* Evidence grows by rows of numbered revisions; a run reads rows of its window, and what it
\* then stores is computed from them.
LEMMA ScoreStep ==
  ScoreInv /\ [Scores!Next]_Scores!vars =>
    /\ ScoreInv'
    /\ run # Scores!Idle /\ (pairs' # pairs \/ results' # results) =>
         Scores!Scored(run.forecasts, run.outturns, run.window)
<1> DEFINE Kept == ScoreInv' /\ (run # Scores!Idle /\ (pairs' # pairs \/ results' # results) =>
                                   Scores!Scored(run.forecasts, run.outturns, run.window))
<1> SUFFICES ASSUME ScoreInv, [Scores!Next]_Scores!vars PROVE Kept
    OBVIOUS
<1>1. /\ moment \in Int
      /\ IsFiniteSet(forecasts) /\ forecasts \subseteq ForecastRow
      /\ IsFiniteSet(outturns) /\ outturns \subseteq OutturnRow
      /\ RunRight(run) /\ PairsRight(pairs) /\ ResultsRight(results)
    BY DEF ScoreInv
<1>2. CASE Scores!StoreForecast
  <2>1. PICK from \in Valids, i \in 0..moment :
          forecasts' = forecasts \cup
            {[valid |-> v, vintage |-> i,
              rev |-> Scores!NextRev({f \in forecasts : f.valid = v /\ f.vintage = i})] :
                v \in {u \in Valids : u >= from}}
    BY <1>2 DEF Scores!StoreForecast
  <2> DEFINE V == {u \in Valids : u >= from}
             old(v) == {f \in forecasts : f.valid = v /\ f.vintage = i}
             row(v) == [valid |-> v, vintage |-> i, rev |-> Scores!NextRev(old(v))]
             N == {row(v) : v \in V}
             m == [v \in V |-> row(v)]
  <2>2. \A v : Scores!NextRev(old(v)) \in Int
    <3> SUFFICES ASSUME NEW v PROVE Scores!NextRev(old(v)) \in Int
      OBVIOUS
    <3>1. old(v) \subseteq forecasts
      OBVIOUS
    <3>2. IsFiniteSet(old(v)) /\ \A f \in old(v) : f.rev \in Int
      <4> HIDE DEF old
      <4> QED BY <1>1, <3>1, FS_Subset DEF ForecastRow
    <3> HIDE DEF old
    <3> QED BY <3>2, NextRevIs
  <2>3. V \subseteq Int /\ IsFiniteSet(V)
    BY ScoreConstants, FS_Subset, V \subseteq Valids
  <2> HIDE DEF V, old
  <2>4. \A v \in V : row(v) \in ForecastRow
    BY <2>2, <2>3 DEF ForecastRow
  <2>5. forecasts' = forecasts \cup N
    BY <2>1 DEF V, old
  <2>6. IsFiniteSet(N)
    <3>1. m \in Surjection(V, N)
      BY DEF Surjection
    <3> HIDE DEF m, N
    <3> QED BY <2>3, <3>1, FS_Surjection
  <2>7. N \subseteq ForecastRow
    <3> HIDE DEF row
    <3> QED BY <2>4
  <2> HIDE DEF N
  <2>8. IsFiniteSet(forecasts') /\ forecasts' \subseteq ForecastRow
    BY <1>1, <2>5, <2>6, <2>7, FS_Union
  <2>9. UNCHANGED <<moment, outturns, run, pairs, results>>
    BY <1>2 DEF Scores!StoreForecast
  <2>10. ScoreInv'
    BY <1>1, <2>8, <2>9 DEF ScoreInv, RunRight, PairsRight, ResultsRight
  <2> QED BY <2>9, <2>10
<1>3. CASE Scores!StoreOutturn
  <2>1. PICK v \in Valids :
          outturns' = outturns \cup {[at |-> v, rev |-> Scores!NextRev({o \in outturns : o.at = v})]}
    BY <1>3 DEF Scores!StoreOutturn
  <2> DEFINE old == {o \in outturns : o.at = v}
  <2>2. old \subseteq outturns
    OBVIOUS
  <2>3. outturns' = outturns \cup {[at |-> v, rev |-> Scores!NextRev(old)]}
    BY <2>1
  <2> HIDE DEF old
  <2>4. IsFiniteSet(old) /\ \A o \in old : o.rev \in Int
    BY <1>1, <2>2, FS_Subset DEF OutturnRow
  <2>5. Scores!NextRev(old) \in Int /\ v \in Int
    BY <2>4, NextRevIs, ScoreConstants
  <2>6. IsFiniteSet(outturns') /\ outturns' \subseteq OutturnRow
    <3>1. [at |-> v, rev |-> Scores!NextRev(old)] \in OutturnRow
      BY <2>5 DEF OutturnRow
    <3> QED BY <1>1, <2>3, <3>1, FS_Union, FS_Singleton
  <2>7. UNCHANGED <<moment, forecasts, run, pairs, results>>
    BY <1>3 DEF Scores!StoreOutturn
  <2>8. ScoreInv'
    BY <1>1, <2>6, <2>7 DEF ScoreInv, RunRight, PairsRight, ResultsRight
  <2> QED BY <2>7, <2>8
<1>4. CASE Scores!Tick
  <2>1. moment' = moment + 1 /\ UNCHANGED <<forecasts, outturns, run, pairs, results>>
    BY <1>4 DEF Scores!Tick
  <2>2. ScoreInv'
    BY <1>1, <2>1 DEF ScoreInv, RunRight, PairsRight, ResultsRight
  <2> QED BY <2>1, <2>2
<1>5. CASE Scores!Load
  <2>1. PICK w \in ScoreWindows :
          run' = [window |-> w, forecasts |-> Scores!Input(w),
                  outturns |-> {o \in outturns : Scores!In(w, o.at)}]
    BY <1>5 DEF Scores!Load
  <2>2. UNCHANGED <<moment, forecasts, outturns, pairs, results>>
    BY <1>5 DEF Scores!Load
  <2> DEFINE O == {o \in outturns : Scores!In(w, o.at)}
             F == Scores!Input(w)
  <2>3. F \subseteq forecasts /\ O \subseteq outturns /\ \A f \in F : Scores!In(w, f.valid)
    BY DEF Scores!Input
  <2>4. \A o \in O : Scores!In(w, o.at)
    OBVIOUS
  <2>5. run'.window = w /\ run'.forecasts = F /\ run'.outturns = O
    BY <2>1
  <2> HIDE DEF F, O
  <2>6. InWindow(F, O, w)
    BY <1>1, <2>3, <2>4, FS_Subset DEF InWindow
  <2>7. RunRight(run')
    BY <2>5, <2>6 DEF RunRight
  <2>8. ScoreInv'
    BY <1>1, <2>2, <2>7 DEF ScoreInv, RunRight, PairsRight, ResultsRight
  <2> QED BY <2>2, <2>8
<1>6. CASE Scores!Persist
  <2> DEFINE F == run.forecasts
             O == run.outturns
             w == run.window
  <2>1. run # Scores!Idle /\ w \in ScoreWindows /\ InWindow(F, O, w)
    BY <1>1, <1>6 DEF Scores!Persist, RunRight
  <2>2. /\ pairs' = pairs \cup Scores!NewPairs(F, O, w)
        /\ results' = results \cup Scores!NewResults(F, O, w)
        /\ run' = Scores!Idle /\ UNCHANGED <<moment, forecasts, outturns>>
    BY <1>6 DEF Scores!Persist
  <2> HIDE DEF F, O, w
  <2>3. /\ PairsRight(pairs')
        /\ \A b \in Scores!Buckets : \A p \in Scores!PairsOf(F, O, w, b) :
             PairEnds(pairs', p.forecast, p.outturn)
    BY <1>1, <2>1, <2>2, PairsAppended
  <2>4. /\ ResultsRight(results')
        /\ \A b \in Scores!Buckets : \E r \in results' :
             Tops(results', w, b, r) /\ r.checksum = Scores!Aggregate(F, O, w, b).checksum
    BY <1>1, <2>1, <2>2, ResultsAppended
  <2>5. Scores!Scored(F, O, w)
    BY <2>1, <2>3, <2>4, ScoredIs
  <2>6. RunRight(run')
    BY <2>2 DEF RunRight
  <2>7. ScoreInv'
    BY <1>1, <2>2, <2>3, <2>4, <2>6 DEF ScoreInv
  <2> QED BY <2>5, <2>7 DEF F, O, w
<1>7. CASE Scores!Abandon
  <2>1. run' = Scores!Idle /\ UNCHANGED <<moment, forecasts, outturns, pairs, results>>
    BY <1>7 DEF Scores!Abandon
  <2>2. ScoreInv'
    BY <1>1, <2>1 DEF ScoreInv, RunRight, PairsRight, ResultsRight
  <2> QED BY <2>1, <2>2
<1>8. CASE UNCHANGED Scores!vars
  <2>1. UNCHANGED <<moment, forecasts, outturns, run, pairs, results>>
    BY <1>8 DEF Scores!vars
  <2>2. ScoreInv'
    BY <1>1, <2>1 DEF ScoreInv, RunRight, PairsRight, ResultsRight
  <2> QED BY <2>1, <2>2
<1> QED BY <1>2, <1>3, <1>4, <1>5, <1>6, <1>7, <1>8 DEF Scores!Next

\* A run stores exactly what its evidence says (app/forecast_verification/job.py:414-584):
\* each vintage issued in time is counted once, by its newest correction, hindsight never,
\* errors are against the newest outturns, and nothing newer is hidden by an older window.
THEOREM ScoresAreHonest == ReadsSpec => ScoreHonest
<1>1. ReadsInit => ScoreHolds
    BY ScoreStart DEF ReadsInit, ScoreHolds
<1>2. ScoreHolds /\ [ReadsNext]_readVars =>
        ScoreHolds' /\ [reads = "scores" => Scores!ScoresKept]_readVars
  <2> SUFFICES ASSUME ScoreHolds, [ReadsNext]_readVars
               PROVE  ScoreHolds' /\ [reads = "scores" => Scores!ScoresKept]_readVars
      OBVIOUS
  <2>1. CASE reads = "scores" /\ [Scores!Next]_Scores!vars /\ reads' = reads
    BY <2>1, ScoreStep DEF ScoreHolds, Scores!ScoresKept
  <2>2. CASE reads # "scores" /\ reads' = reads
    BY <2>2 DEF ScoreHolds
  <2>3. CASE ReadsNext
    <3>1. reads' = reads /\ (reads = "scores" => Scores!Next)
      BY <2>3 DEF ReadsNext
    <3> QED BY <2>1, <2>2, <3>1
  <2>4. CASE UNCHANGED readVars
    <3>1. UNCHANGED Scores!vars /\ reads' = reads
      BY <2>4 DEF readVars, scoreVars, Scores!vars
    <3> QED BY <2>1, <2>2, <3>1
  <2> QED BY <2>3, <2>4
<1> QED BY <1>1, <1>2, PTL DEF ReadsSpec, ScoreHonest

-----------------------------------------------------------------------------
(* The materialized history (HistoryContent). *)

\* The library's operators are the same here too.
LEMMA HistoryLibrary ==
  /\ \A S : History!Cardinality(S) = Cardinality(S)
  /\ \A S : History!IsFiniteSet(S) = IsFiniteSet(S)
BY DEF History!Cardinality, Cardinality, History!IsFiniteSet, IsFiniteSet

\* What the settings say.
LEMMA HistoryConstants ==
  /\ IsFiniteSet(Cadence) /\ Cadence # {}
  /\ HistoryCoverage \in 1..100
  /\ (Cardinality(Cadence) - 1) * 100 < HistoryCoverage * Cardinality(Cadence)
  /\ DaysBefore \in Nat \ {0} /\ Week \in 1..DaysBefore /\ PerDay \in Nat \ {0}
  /\ FirstDay \in Nat \ {0}
  /\ \A p \in DOMAIN Levels : p \in Int /\ Levels[p] \in Int
  /\ \A t \in LateStamps : t[1] \in DOMAIN Levels
  /\ \A c \in Years : /\ History!IsCalendar(c) /\ DOMAIN c \subseteq DOMAIN Levels
                      /\ FirstDay <= c[Len(c)].day
BY HistorySettings, HistoryLibrary, Zenon DEF History!HistoryAssumption

\* Evidence is finitely many numbered revisions of half-hours that have a value.
Sampled(S) ==
  /\ IsFiniteSet(S)
  /\ \A s \in S : /\ s = [at |-> s.at, stamp |-> s.stamp, rev |-> s.rev]
                  /\ s.at \in DOMAIN Levels /\ s.rev \in Int

\* Two sets of evidence have the same rows of a half-hour.
Agree(R, S, p) == \A s : s.at = p => (s \in R <=> s \in S)

\* The newest rows of a set have one for every stamp that has any.
LEMMA NewestOfStamp ==
  ASSUME NEW S, Sampled(S), NEW s \in S
  PROVE  \E r \in S : /\ r.at = s.at /\ r.stamp = s.stamp
                      /\ \A q \in S : q.at = r.at /\ q.stamp = r.stamp => q.rev <= r.rev
<1> DEFINE T == {q \in S : q.at = s.at /\ q.stamp = s.stamp}
           h == [q \in T |-> q.rev]
<1>1. T # {} /\ IsFiniteSet(T) /\ \A q \in T : h[q] = q.rev /\ h[q] \in Int
  <2>1. T \subseteq S /\ s \in T
    OBVIOUS
  <2>2. IsFiniteSet(T)
    BY <2>1, FS_Subset DEF Sampled
  <2> QED BY <2>1, <2>2 DEF Sampled
<1> HIDE DEF h
<1>2. PICK r \in T : \A q \in T : h[q] <= h[r]
  <2> HIDE DEF T
  <2> QED BY <1>1, HighestOfFinite
<1> QED BY <1>1, <1>2

\* The rows that a half-hour is computed from.
Chosen(S, p) == {s \in S : /\ s.at = p /\ s.stamp \in Cadence
                           /\ \A q \in S : q.at = s.at /\ q.stamp = s.stamp => q.rev <= s.rev}

\* The samples kept of a half-hour are the newest of each stamp (_select_highest_revisions).
LEMMA SelectedIs ==
  ASSUME NEW S, NEW p
  PROVE  History!Selected(S, p) = Chosen(S, p)
<1>1. \A s : s \in History!Selected(S, p) <=> s \in Chosen(S, p)
  <2> DEFINE T == {s \in S : s.at = p /\ s.stamp \in Cadence}
  <2>1. History!Selected(S, p) = {s \in T : \A q \in T : q.at = s.at /\ q.stamp = s.stamp => q.rev <= s.rev}
    BY DEF History!Selected, History!Newest
  <2> QED BY <2>1 DEF Chosen
<1> QED BY <1>1

\* Which half-hours have a value depends on nothing but their own rows.
LEMMA SelectedLocal ==
  ASSUME NEW S, NEW R, NEW p, Agree(R, S, p)
  PROVE  /\ History!Selected(R, p) = History!Selected(S, p)
         /\ History!Available(R, p) = History!Available(S, p)
<1>1. Chosen(R, p) = Chosen(S, p)
  <2>1. \A s : s \in Chosen(R, p) <=> s \in Chosen(S, p)
    BY DEF Chosen, Agree
  <2> QED BY <2>1
<1>2. History!Unexpected(R, p) <=> History!Unexpected(S, p)
    BY DEF History!Unexpected, Agree
<1>3. History!Selected(R, p) = History!Selected(S, p)
    BY <1>1, SelectedIs
<1>4. History!Available(R, p) <=> History!Available(S, p)
    BY <1>2, <1>3, Zenon DEF History!Available
<1> QED BY <1>3, <1>4 DEF History!Available

\* A half-hour has a value when it has a sample of every stamp and no other
\* (materialize_half_hours).
LEMMA AvailableIs ==
  ASSUME NEW S, Sampled(S), NEW p
  PROVE  /\ History!Available(S, p) <=> History!Complete(S, p)
         /\ History!Complete(S, p) => History!Selected(S, p) = History!Latest(S, {p})
         /\ IsFiniteSet(Chosen(S, p))
<1> DEFINE C == Chosen(S, p)
           n == Cardinality(Cadence)
           m == [s \in C |-> s.stamp]
           K == {s.stamp : s \in C}
<1>1. C \subseteq S /\ IsFiniteSet(C)
  <2>1. C \subseteq S
    BY DEF Chosen
  <2> QED BY <2>1, FS_Subset DEF Sampled
<1>2. \A s \in C : s.at = p /\ s.stamp \in Cadence
    BY DEF Chosen
<1>3. \A s, r \in C : s.stamp = r.stamp => s = r
  <2> SUFFICES ASSUME NEW s \in C, NEW r \in C, s.stamp = r.stamp PROVE s = r
    OBVIOUS
  <2>1. s \in S /\ r \in S /\ s.at = r.at /\ s.rev <= r.rev /\ r.rev <= s.rev
    BY DEF Chosen
  <2>2. s.rev \in Int /\ r.rev \in Int
    BY <2>1 DEF Sampled
  <2>3. s.rev = r.rev
    BY <2>1, <2>2
  <2> QED BY <2>1, <2>3 DEF Sampled
<1>4. \A k \in Cadence : (\E s \in S : s.at = p /\ s.stamp = k) <=> k \in K
  <2> SUFFICES ASSUME NEW k \in Cadence
               PROVE  (\E s \in S : s.at = p /\ s.stamp = k) <=> k \in K
    OBVIOUS
  <2>1. ASSUME NEW s \in S, s.at = p, s.stamp = k PROVE k \in K
    <3>1. PICK r \in S : /\ r.at = s.at /\ r.stamp = s.stamp
                         /\ \A q \in S : q.at = r.at /\ q.stamp = r.stamp => q.rev <= r.rev
      BY NewestOfStamp
    <3>2. r \in C
      BY <2>1, <3>1 DEF Chosen
    <3> QED BY <2>1, <3>1, <3>2
  <2>2. k \in K => \E s \in S : s.at = p /\ s.stamp = k
    BY <1>1, <1>2
  <2> QED BY <2>1, <2>2
<1>5. K \subseteq Cadence /\ m \in Surjection(C, K) /\ m \in Injection(C, K)
  <2>1. m \in [C -> K] /\ \A k \in K : \E s \in C : m[s] = k
    OBVIOUS
  <2>2. \A s, r \in C : m[s] = m[r] => s = r
    BY <1>3
  <2>3. m \in Surjection(C, K)
    <3> HIDE DEF m, C, K
    <3> QED BY <2>1 DEF Surjection
  <2>4. m \in Injection(C, K)
    <3> HIDE DEF m, C, K
    <3> QED BY <2>1, <2>2 DEF Injection, IsInjective
  <2>5. K \subseteq Cadence
    BY <1>2
  <2> HIDE DEF m, C, K
  <2> QED BY <2>3, <2>4, <2>5
<1> HIDE DEF m, K, C
<1>6. Cardinality(C) = Cardinality(K) /\ IsFiniteSet(K) /\ IsFiniteSet(Cadence)
  <2>1. IsFiniteSet(K) /\ Cardinality(K) = Cardinality(C)
    BY <1>1, <1>5, FS_Surjection
  <2> QED BY <2>1, HistoryConstants
<1>7. /\ Cardinality(K) \in Nat /\ n \in Nat /\ HistoryCoverage \in 1..100
      /\ (n - 1) * 100 < HistoryCoverage * n
    BY <1>6, FS_CardinalityType, HistoryConstants
<1>8. K = Cadence => Cardinality(K) = n
    OBVIOUS
<1>9. K # Cadence => Cardinality(K) <= n - 1
  <2>1. Cardinality(K) <= n /\ (Cardinality(K) = n => K = Cadence)
    BY <1>5, <1>6, FS_Subset
  <2> QED BY <1>7, <2>1
<1>10. History!Enough(Cardinality(C), n) <=> K = Cadence
  <2> DEFINE c == Cardinality(K)
  <2> HIDE DEF n, c
  <2>1. c \in Nat /\ n \in Nat /\ HistoryCoverage * n \in Int
    BY <1>7 DEF c
  <2>2. HistoryCoverage * n <= 100 * n
    BY <1>7
  <2>3. CASE c = n
    <3>1. c * 100 >= HistoryCoverage * n
      BY <2>1, <2>2, <2>3
    <3> QED BY <1>6, <1>7, <1>9, <2>3, <3>1 DEF History!Enough, c
  <2>4. CASE c <= n - 1
    <3>1. c * 100 <= (n - 1) * 100
      BY <2>1, <2>4
    <3>2. ~(c * 100 >= HistoryCoverage * n)
      BY <1>7, <2>1, <3>1
    <3>3. c # n
      BY <2>1, <2>4
    <3> QED BY <1>6, <1>8, <3>2, <3>3 DEF History!Enough, c
  <2> QED BY <1>8, <1>9, <2>3, <2>4 DEF c
<1>11. K = Cadence <=> \A k \in Cadence : \E s \in S : s.at = p /\ s.stamp = k
    BY <1>4, <1>5
<1>12. History!Available(S, p) <=> K = Cadence /\ ~History!Unexpected(S, p)
  <2>1. History!Selected(S, p) = C
    BY SelectedIs DEF C
  <2> QED BY <1>10, <2>1, HistoryLibrary DEF History!Available, n
<1>13. History!Available(S, p) <=> History!Complete(S, p)
    BY <1>11, <1>12 DEF History!Complete, History!Unexpected
<1>14. History!Complete(S, p) => History!Selected(S, p) = History!Latest(S, {p})
  <2> SUFFICES ASSUME History!Complete(S, p) PROVE \A s : s \in Chosen(S, p) <=> s \in History!Latest(S, {p})
    BY SelectedIs
  <2> QED BY DEF Chosen, History!Latest, History!Complete
<1> QED BY <1>1, <1>13, <1>14 DEF C

\* The number of half-hours, of days.
Halves == 1..Len(calendar)
LastDay == calendar[Len(calendar)].day

\* What the calendar says.
LEMMA CalendarIs ==
  ASSUME calendar \in Years
  PROVE  /\ Len(calendar) \in Nat /\ Len(calendar) >= 1 /\ DOMAIN calendar = Halves
         /\ Halves \subseteq DOMAIN Levels /\ IsFiniteSet(Halves)
         /\ LastDay \in Nat /\ FirstDay <= LastDay
         /\ \A p \in Halves : /\ p \in Int /\ calendar[p].day \in Nat /\ calendar[p].day >= 1
                              /\ calendar[p].day <= LastDay
         /\ \A p, q \in Halves : p <= q => calendar[p].day <= calendar[q].day
         /\ \A d \in 1..LastDay : \E p \in Halves : calendar[p].day = d
         /\ \A p, q \in Halves :
              calendar[p].day = calendar[q].day /\ calendar[p].time = calendar[q].time
                /\ calendar[p].offset = calendar[q].offset => p = q
         /\ \A p, q \in Halves :
              calendar[q].time = calendar[p].time /\ calendar[p].day - calendar[q].day \in 1..DaysBefore
                => p - q <= (DaysBefore + 1) * PerDay
<1>1. /\ History!IsCalendar(calendar) /\ DOMAIN calendar \subseteq DOMAIN Levels
      /\ FirstDay <= LastDay
    BY HistoryConstants DEF LastDay
<1> DEFINE R == [day : Nat \ {0}, time : Int, offset : Int]
<1>2. /\ calendar \in Seq(R) /\ calendar # <<>>
      /\ \A p, q \in DOMAIN calendar : p <= q => calendar[p].day <= calendar[q].day
      /\ \A d \in 1..LastDay : \E p \in DOMAIN calendar : calendar[p].day = d
      /\ \A p, q \in DOMAIN calendar : calendar[p] = calendar[q] => p = q
      /\ \A p, q \in DOMAIN calendar :
            calendar[q].time = calendar[p].time /\ calendar[p].day - calendar[q].day \in 1..DaysBefore
              => p - q <= (DaysBefore + 1) * PerDay
    BY <1>1, Zenon DEF History!IsCalendar, LastDay
<1>3. Len(calendar) \in Nat /\ Len(calendar) >= 1 /\ DOMAIN calendar = Halves
  <2> HIDE DEF R
  <2>1. Len(calendar) \in Nat /\ DOMAIN calendar = 1..Len(calendar)
    BY <1>2
  <2>2. Len(calendar) # 0
    BY <1>2, EmptySeq
  <2> QED BY <2>1, <2>2 DEF Halves
<1>4. \A p \in Halves : calendar[p] \in R /\ p \in Int
  <2> HIDE DEF R
  <2> QED BY <1>2, <1>3 DEF Halves
<1>5. \A p \in Halves : /\ calendar[p].day \in Nat /\ calendar[p].day >= 1
                        /\ calendar[p] = [day |-> calendar[p].day, time |-> calendar[p].time,
                                          offset |-> calendar[p].offset]
    BY <1>4
<1>6. Len(calendar) \in Halves /\ \A p \in Halves : p <= Len(calendar)
    BY <1>3 DEF Halves
<1>7. \A p, q \in Halves :
        calendar[p].day = calendar[q].day /\ calendar[p].time = calendar[q].time
          /\ calendar[p].offset = calendar[q].offset => p = q
  <2>1. ASSUME NEW p \in Halves, NEW q \in Halves, calendar[p].day = calendar[q].day,
               calendar[p].time = calendar[q].time, calendar[p].offset = calendar[q].offset
        PROVE  p = q
    <3>1. calendar[p] = calendar[q]
      BY <1>5, <2>1
    <3> QED BY <1>2, <1>3, <3>1
  <2> QED BY <2>1
<1>8. LastDay \in Nat /\ \A p \in Halves : calendar[p].day <= LastDay
    BY <1>2, <1>3, <1>5, <1>6 DEF LastDay
<1>9. IsFiniteSet(Halves)
    BY <1>3, FS_Interval DEF Halves
<1> QED BY <1>1, <1>2, <1>3, <1>4, <1>5, <1>7, <1>8, <1>9

\* The half-hours of a day.
LEMMA PeriodsAre ==
  ASSUME calendar \in Years, NEW d
  PROVE  /\ \A p : p \in History!Periods(d) <=> p \in Halves /\ calendar[p].day = d
         /\ IsFiniteSet(History!Periods(d)) /\ History!Expected(d) = Cardinality(History!Periods(d))
<1>1. \A p : p \in History!Periods(d) <=> p \in Halves /\ calendar[p].day = d
    BY CalendarIs DEF History!Periods
<1>2. IsFiniteSet(History!Periods(d))
    BY <1>1, CalendarIs, FS_Subset
<1> QED BY <1>1, <1>2, HistoryLibrary DEF History!Expected

\* The first half-hour of a day separates the days.
LEMMA FirstIs ==
  ASSUME calendar \in Years, NEW d \in 1..LastDay
  PROVE  /\ History!First(d) \in Halves
         /\ \A p \in Halves : History!First(d) <= p <=> d <= calendar[p].day
<1> DEFINE P == History!Periods(d)
<1>1. \A p : p \in P <=> p \in Halves /\ calendar[p].day = d
    BY PeriodsAre
<1>2. PICK f \in P : \A p \in P : f <= p
  <2>1. P # {} /\ P \subseteq Nat
    BY <1>1, CalendarIs DEF Halves
  <2> HIDE DEF P
  <2> QED BY <2>1, LeastNatural
<1>3. History!First(d) \in P /\ \A p \in P : History!First(d) <= p
  <2>1. History!First(d) = CHOOSE x \in P : \A y \in P : x <= y
    BY DEF History!First, History!Min
  <2> HIDE DEF P
  <2> QED BY <1>2, <2>1
<1> DEFINE g == History!First(d)
<1> HIDE DEF g, P
<1>4. g \in Halves /\ calendar[g].day = d /\ \A p \in P : g <= p
    BY <1>1, <1>3 DEF g
<1>5. ASSUME NEW p \in Halves PROVE g <= p <=> d <= calendar[p].day
  <2>1. p \in Int /\ g \in Int /\ d \in Int /\ calendar[p].day \in Int
    BY <1>4, CalendarIs
  <2>2. g <= p => d <= calendar[p].day
    BY <1>4, CalendarIs
  <2>3. ~(g <= p) => calendar[p].day <= d /\ p \notin P
    <3>1. ~(g <= p) => p <= g
      BY <2>1
    <3> QED BY <1>4, <3>1, CalendarIs
  <2>4. ~(g <= p) => calendar[p].day # d
    BY <1>1, <2>3
  <2> QED BY <2>1, <2>2, <2>3, <2>4
<1> QED BY <1>4, <1>5 DEF g

\* The half-hour at the same time b days before: one at most, within the days that are read
\* (_same_local_target).
LEMMA SameLocalIs ==
  ASSUME calendar \in Years, NEW p \in Halves, NEW b \in 1..DaysBefore
  PROVE  LET d == calendar[p].day - b
         IN  /\ \A q : q \in History!SameLocal(p, b) <=>
                  /\ q \in Halves /\ calendar[q].day = d /\ calendar[q].time = calendar[p].time
                  /\ \/ calendar[q].offset = calendar[p].offset
                     \/ \A r \in History!Periods(d) \ {q} : calendar[r].time # calendar[p].time
             /\ \A q, r \in History!SameLocal(p, b) : q = r
             /\ \A q \in History!SameLocal(p, b) :
                  q < p /\ p - q <= (DaysBefore + 1) * PerDay
<1> DEFINE d == calendar[p].day - b
           C == {q \in History!Periods(d) : History!SameTime(q, p)}
           L == History!SameLocal(p, b)
<1>1. \A q : q \in C <=> q \in Halves /\ calendar[q].day = d /\ calendar[q].time = calendar[p].time
    BY PeriodsAre DEF History!SameTime
<1>2. IsFiniteSet(C) /\ C \subseteq Halves
    BY <1>1, CalendarIs, FS_Subset
<1>3. L = IF Cardinality(C) <= 1 THEN C ELSE {q \in C : calendar[q].offset = calendar[p].offset}
    BY HistoryLibrary DEF History!SameLocal, History!DayOf, History!SameOffset
<1>4. \A q \in Halves : q \in Int /\ calendar[q].day \in Int
    BY CalendarIs
<1>5. b \in Int /\ b >= 1 /\ d \in Int /\ d < calendar[p].day
    BY <1>4
<1>6. \A q : q \in History!Periods(d) <=> q \in Halves /\ calendar[q].day = d
    BY PeriodsAre
<1> HIDE DEF d, C, L
<1>7. Cardinality(C) <= 1 => \A q, r \in C : q = r
  <2> SUFFICES ASSUME Cardinality(C) <= 1, NEW q \in C, NEW r \in C PROVE q = r
    OBVIOUS
  <2>1. Cardinality(C) \in Nat /\ Cardinality(C) # 0
    BY <1>2, FS_CardinalityType, FS_EmptySet
  <2>2. Cardinality(C) = 1
    BY <2>1
  <2> QED BY <1>2, <2>2, FS_Singleton
<1>8. (\A q, r \in C : q = r) => Cardinality(C) <= 1
  <2> SUFFICES ASSUME \A q, r \in C : q = r PROVE Cardinality(C) <= 1
    OBVIOUS
  <2>1. CASE C = {}
    BY <2>1, FS_EmptySet
  <2>2. CASE C # {}
    <3>1. PICK q \in C : C = {q}
      BY <2>2
    <3>2. Cardinality(C) = 1
      BY <3>1, FS_Singleton, Zenon
    <3> QED BY <3>2
  <2> QED BY <2>1, <2>2
<1>9. ASSUME NEW q
      PROVE  q \in L <=> /\ q \in Halves /\ calendar[q].day = d /\ calendar[q].time = calendar[p].time
                         /\ \/ calendar[q].offset = calendar[p].offset
                            \/ \A r \in History!Periods(d) \ {q} : calendar[r].time # calendar[p].time
  <2>1. q \in C => ((\A r \in History!Periods(d) \ {q} : calendar[r].time # calendar[p].time)
                      <=> Cardinality(C) <= 1)
    <3> SUFFICES ASSUME q \in C
                 PROVE  (\A r \in History!Periods(d) \ {q} : calendar[r].time # calendar[p].time)
                          <=> \A r, s \in C : r = s
      BY <1>7, <1>8
    <3>1. \A r : r \in C <=> r \in History!Periods(d) /\ calendar[r].time = calendar[p].time
      BY <1>1, <1>6
    <3> QED BY <3>1
  <2> QED BY <1>1, <1>3, <2>1
<1>10. \A q, r \in L : q = r
  <2> SUFFICES ASSUME NEW q \in L, NEW r \in L PROVE q = r
    OBVIOUS
  <2>1. q \in C /\ r \in C
    BY <1>3
  <2>2. CASE Cardinality(C) <= 1
    BY <1>7, <2>1, <2>2
  <2>3. CASE ~(Cardinality(C) <= 1)
    <3>1. calendar[q].offset = calendar[p].offset /\ calendar[r].offset = calendar[p].offset
      BY <1>3, <2>3
    <3>2. /\ q \in Halves /\ r \in Halves /\ calendar[q].day = calendar[r].day
          /\ calendar[q].time = calendar[r].time /\ calendar[q].offset = calendar[r].offset
      BY <1>1, <2>1, <3>1
    <3> QED BY <3>2, CalendarIs
  <2> QED BY <2>2, <2>3
<1>11. ASSUME NEW q \in L PROVE q < p /\ p - q <= (DaysBefore + 1) * PerDay
  <2>1. q \in Halves /\ calendar[q].day = d /\ calendar[q].time = calendar[p].time
    BY <1>1, <1>3
  <2>2. p <= q => calendar[p].day <= calendar[q].day
    BY <2>1, CalendarIs
  <2>3. calendar[p].day - calendar[q].day \in 1..DaysBefore
    BY <1>4, <2>1 DEF d
  <2>4. p - q <= (DaysBefore + 1) * PerDay
    BY <2>1, <2>3, CalendarIs, Zenon
  <2>5. q < p
    <3>1. ~(p <= q)
      BY <1>4, <1>5, <2>1, <2>2
    <3> QED BY <1>4, <2>1, <3>1
  <2> QED BY <2>4, <2>5
<1> QED BY <1>9, <1>10, <1>11 DEF d, L

\* What the samples of some half-hours add up to.
LEMMA TotalIs ==
  ASSUME NEW S, IsFiniteSet(S), \A s \in S : s.at \in DOMAIN Levels /\ s.rev \in Int
  PROVE  History!Total(S) \in Int
<1> DEFINE w == [s \in S |-> History!Value(s)]
           Iterates(f) == f = [s \in SUBSET S |->
                                IF s = {} THEN 0
                                ELSE LET x == CHOOSE x \in s : TRUE
                                     IN  History!Value(x) + f[s \ {x}]]
<1>1. History!Total(S) = (CHOOSE f : Iterates(f))[S]
    BY Zenon DEF History!Total, History!MapThenSumSet, History!MapThenFoldSet
<1>2. \A s \in S : w[s] \in Int
    BY HistoryConstants DEF History!Value
<1>3. ASSUME NEW f PROVE Iterates(f) <=> SumsUp(f, w, S)
  <2>1. \A s \in SUBSET S : s # {} =>
          /\ Picks(S)[s] = CHOOSE x \in s : TRUE
          /\ w[CHOOSE x \in s : TRUE] = History!Value(CHOOSE x \in s : TRUE)
    BY DEF Picks
  <2> DEFINE L(s) == IF s = {} THEN 0
                     ELSE LET x == CHOOSE x \in s : TRUE IN History!Value(x) + f[s \ {x}]
             R(s) == IF s = {} THEN 0 ELSE w[Picks(S)[s]] + f[s \ {Picks(S)[s]}]
  <2>2. ASSUME NEW s \in SUBSET S PROVE L(s) = R(s)
    <3> DEFINE x == CHOOSE x \in s : TRUE
    <3>1. CASE s = {}
      BY <3>1
    <3>2. CASE s # {}
      <4>1. L(s) = History!Value(x) + f[s \ {x}] /\ R(s) = w[Picks(S)[s]] + f[s \ {Picks(S)[s]}]
        BY <3>2
      <4>2. Picks(S)[s] = x /\ w[x] = History!Value(x)
        BY <2>1, <3>2
      <4> HIDE DEF L, R, x, w
      <4> QED BY <4>1, <4>2
    <3> QED BY <3>1, <3>2
  <2>3. (f = [s \in SUBSET S |-> L(s)]) <=> f = [s \in SUBSET S |-> R(s)]
    <3> HIDE DEF L, R, w
    <3>1. [s \in SUBSET S |-> L(s)] = [s \in SUBSET S |-> R(s)]
      BY <2>2
    <3> QED BY <3>1
  <2> QED BY <2>3 DEF SumsUp
<1> HIDE DEF Iterates, w
<1>4. (CHOOSE f : Iterates(f)) = CHOOSE f : SumsUp(f, w, S)
    BY <1>3
<1>5. SumOver(w, S) \in Int
    BY <1>2, SumOfTerms
<1> QED BY <1>1, <1>4, <1>5 DEF SumOver

\* The lesser of two numbers.
LEMMA LesserOf ==
  ASSUME NEW x \in Int, NEW y \in Int
  PROVE  History!Min({x, y}) = IF x <= y THEN x ELSE y
<1>1. History!Min({x, y}) = CHOOSE z \in {x, y} : \A t \in {x, y} : z <= t
    BY DEF History!Min
<1> DEFINE g == IF x <= y THEN x ELSE y
<1>2. g \in {x, y} /\ \A t \in {x, y} : g <= t
    OBVIOUS
<1>3. \A z \in {x, y} : (\A t \in {x, y} : z <= t) => z = g
    OBVIOUS
<1> HIDE DEF g
<1>4. History!Min({x, y}) = g
    BY <1>1, <1>2, <1>3
<1> QED BY <1>4 DEF g

\* Numbers in ascending order.
Rises(v, n) == /\ v \in [1..n -> Int]
               /\ \A i, j \in 1..n : i < j => v[i] <= v[j]

\* A number at a place between two neighbours, in quarters of their distance.
Between(v, n, position, x) ==
  \E l, u \in 0..(n - 1), m \in 0..3 :
    /\ 4 * l + m = position /\ l <= u /\ u <= l + 1 /\ (l < u \/ u = n - 1)
    /\ x = 4 * v[l + 1] + (v[u + 1] - v[l + 1]) * m

\* A quantile lies between the two values next to its position (_quantile).
LEMMA QuantileIs ==
  ASSUME NEW n \in Nat \ {0}, NEW v, Rises(v, n), NEW k \in 1..3
  PROVE  Between(v, n, (n - 1) * k, History!Quantile(v, k))
<1> DEFINE position == (n - 1) * k
           l == position \div 4
           m == position % 4
           u == IF l + 1 <= n - 1 THEN l + 1 ELSE n - 1
<1>1. v \in Seq(Int) /\ Len(v) = n
    BY DEF Rises
<1>2. position \in Nat /\ position <= 3 * (n - 1)
  <2>1. k = 1 \/ k = 2 \/ k = 3
    OBVIOUS
  <2> QED BY <2>1
<1> HIDE DEF position
<1>3. l \in Nat /\ m \in 0..3 /\ 4 * l + m = position
    BY <1>2
<1> HIDE DEF l, m
<1>4. l <= n - 1
    BY <1>2, <1>3
<1>5. u \in 0..(n - 1) /\ l <= u /\ u <= l + 1 /\ (l < u \/ u = n - 1)
    BY <1>3, <1>4
<1>6. History!Min({l + 1, n - 1}) = u
    BY <1>3, LesserOf
<1>7. History!Quantile(v, k) = 4 * v[l + 1] + (v[u + 1] - v[l + 1]) * m
    BY <1>1, <1>6, Zenon DEF History!Quantile, l, m, position
<1> HIDE DEF u
<1>8. l \in 0..(n - 1)
    BY <1>3, <1>4
<1>9. Between(v, n, position, History!Quantile(v, k))
    BY <1>3, <1>5, <1>7, <1>8 DEF Between
<1> QED BY <1>9 DEF position

\* A greater share is no less; every share lies between the least and the greatest.
LEMMA QuantilesRise ==
  ASSUME NEW n \in Nat \ {0}, NEW v, Rises(v, n)
  PROVE  /\ 4 * v[1] <= History!Quantile(v, 1)
         /\ History!Quantile(v, 1) <= History!Quantile(v, 2)
         /\ History!Quantile(v, 2) <= History!Quantile(v, 3)
         /\ History!Quantile(v, 3) <= 4 * v[n]
<1>1. \A i \in 1..n : v[i] \in Int
    BY DEF Rises
<1>2. \A i, j \in 1..n : i <= j => v[i] <= v[j]
  <2> SUFFICES ASSUME NEW i \in 1..n, NEW j \in 1..n, i <= j PROVE v[i] <= v[j]
    OBVIOUS
  <2>1. i = j \/ i < j
    OBVIOUS
  <2> QED BY <1>1, <2>1 DEF Rises
<1>3. \A i \in 0..(n - 1) : i + 1 \in 1..n /\ i \in Int /\ i <= n - 1
    OBVIOUS
<1>4. ASSUME NEW l \in 0..(n - 1), NEW u \in 0..(n - 1), NEW m \in 0..3, l <= u
      PROVE  LET x == 4 * v[l + 1] + (v[u + 1] - v[l + 1]) * m
             IN  x \in Int /\ 4 * v[l + 1] <= x /\ x <= 4 * v[u + 1]
  <2> DEFINE a == v[l + 1]
             b == v[u + 1]
  <2>1. a \in Int /\ b \in Int /\ a <= b
    BY <1>1, <1>2, <1>3, <1>4
  <2> HIDE DEF a, b
  <2>2. m = 0 \/ m = 1 \/ m = 2 \/ m = 3
    OBVIOUS
  <2>3. /\ 4 * a + (b - a) * m \in Int /\ 4 * a <= 4 * a + (b - a) * m
        /\ 4 * a + (b - a) * m <= 4 * b
    BY <2>1, <2>2
  <2> QED BY <2>3 DEF a, b
<1>5. ASSUME NEW x, NEW p \in Int, Between(v, n, p, x)
      PROVE  x \in Int /\ 4 * v[1] <= x /\ x <= 4 * v[n]
  <2>1. PICK l \in 0..(n - 1), u \in 0..(n - 1), m \in 0..3 :
          l <= u /\ x = 4 * v[l + 1] + (v[u + 1] - v[l + 1]) * m
    BY <1>5 DEF Between
  <2>2. x \in Int /\ 4 * v[l + 1] <= x /\ x <= 4 * v[u + 1]
    BY <1>4, <2>1
  <2>3. v[1] <= v[l + 1] /\ v[u + 1] <= v[n] /\ v[1] \in Int /\ v[n] \in Int
        /\ v[l + 1] \in Int /\ v[u + 1] \in Int
    <3>1. 1 \in 1..n /\ n \in 1..n /\ 1 <= l + 1 /\ u + 1 <= n
      BY <1>3
    <3> QED BY <1>1, <1>2, <1>3, <3>1
  <2> QED BY <2>2, <2>3
<1>6. ASSUME NEW p \in Int, NEW q \in Int, p <= q, NEW x, Between(v, n, p, x), NEW y, Between(v, n, q, y)
      PROVE  x <= y
  <2>1. PICK l \in 0..(n - 1), u \in 0..(n - 1), m \in 0..3 :
          /\ 4 * l + m = p /\ l <= u /\ u <= l + 1 /\ (l < u \/ u = n - 1)
          /\ x = 4 * v[l + 1] + (v[u + 1] - v[l + 1]) * m
    BY <1>6 DEF Between
  <2>2. PICK s \in 0..(n - 1), t \in 0..(n - 1), o \in 0..3 :
          /\ 4 * s + o = q /\ s <= t /\ t <= s + 1 /\ (s < t \/ t = n - 1)
          /\ y = 4 * v[s + 1] + (v[t + 1] - v[s + 1]) * o
    BY <1>6 DEF Between
  <2>3. CASE l = s
    <3>1. u = t /\ m <= o
      BY <1>3, <1>6, <2>1, <2>2, <2>3
    <3> DEFINE a == v[l + 1]
               b == v[u + 1]
    <3>2. a \in Int /\ b \in Int /\ a <= b
      BY <1>1, <1>2, <1>3, <2>1
    <3>3. x = 4 * a + (b - a) * m /\ y = 4 * a + (b - a) * o
      BY <2>1, <2>2, <2>3, <3>1
    <3> HIDE DEF a, b
    <3>4. (m = 0 \/ m = 1 \/ m = 2 \/ m = 3) /\ (o = 0 \/ o = 1 \/ o = 2 \/ o = 3)
      OBVIOUS
    <3> QED BY <3>1, <3>2, <3>3, <3>4
  <2>4. CASE l # s
    <3>1. u <= s
      BY <1>3, <1>6, <2>1, <2>2, <2>4
    <3>2. v[u + 1] <= v[s + 1] /\ v[u + 1] \in Int /\ v[s + 1] \in Int
      BY <1>1, <1>2, <1>3, <3>1
    <3>3. x \in Int /\ x <= 4 * v[u + 1]
      BY <1>4, <2>1
    <3>4. y \in Int /\ 4 * v[s + 1] <= y
      BY <1>4, <2>2
    <3> QED BY <3>2, <3>3, <3>4
  <2> QED BY <2>3, <2>4
<1> DEFINE P(k) == (n - 1) * k
<1>7. P(1) \in Int /\ P(2) \in Int /\ P(3) \in Int /\ P(1) <= P(2) /\ P(2) <= P(3)
    OBVIOUS
<1>8. \A k \in 1..3 : Between(v, n, P(k), History!Quantile(v, k))
    BY QuantileIs
<1> HIDE DEF P
<1>9. \A k \in {1, 2, 3} : k \in 1..3
    OBVIOUS
<1> QED BY <1>5, <1>6, <1>7, <1>8, <1>9

\* The parts of a rolling comparison: the days that count, their half-hours, what these add
\* up to, in ascending order.
UsedDays(S, p) == {b \in 1..DaysBefore : \E q \in History!SameLocal(p, b) : History!Available(S, q)}
Used(S, p) == UNION {History!SameLocal(p, b) : b \in UsedDays(S, p)}
Sum(S, q) == History!Total(History!Selected(S, q))
InOrder(S, U) == CHOOSE s \in History!SetToSeqs(U) :
                   \A i, j \in DOMAIN s : i < j => Sum(S, s[i]) <= Sum(S, s[j])
Ranked(S, U) == [i \in DOMAIN InOrder(S, U) |-> Sum(S, InOrder(S, U)[i])]

\* A rolling comparison, by its parts (_rolling_comparison).
LEMMA RollingParts ==
  ASSUME NEW S, NEW p
  PROVE  LET U == Used(S, p)
             v == Ranked(S, U)
             below == Cardinality({q \in U : Sum(S, q) < Sum(S, p)})
             equal == Cardinality({q \in U : Sum(S, q) = Sum(S, p)})
         IN  History!Rolling(S, p) =
               IF ~History!Available(S, p) THEN History!NoRolling(<<>>)
               ELSE IF ~History!Enough(Cardinality(U), DaysBefore)
               THEN [History!NoRolling(<<Sum(S, p)>>) EXCEPT !.days = UsedDays(S, p)]
               ELSE [known |-> <<Sum(S, p)>>, days |-> UsedDays(S, p),
                     stats |-> <<History!Quantile(v, 2), History!Quantile(v, 1),
                                 History!Quantile(v, 3), 2 * below + equal>>,
                     ids |-> UNION {History!Selected(S, q) : q \in U \cup {p}}]
<1>1. \A T : History!Cardinality(T) = Cardinality(T)
    BY HistoryLibrary
<1> QED BY <1>1 DEF History!Rolling, Used, UsedDays, Sum, Ranked, InOrder

\* The half-hours used are finitely many, one of a day at most.
LEMMA UsedAre ==
  ASSUME calendar \in Years, NEW S, NEW p \in Halves
  PROVE  /\ IsFiniteSet(Used(S, p)) /\ Used(S, p) \subseteq Halves
         /\ \A q : q \in Used(S, p) <=>
              \E b \in 1..DaysBefore : q \in History!SameLocal(p, b) /\ History!Available(S, q)
<1>1. \A q : q \in Used(S, p) <=>
        \E b \in 1..DaysBefore : q \in History!SameLocal(p, b) /\ History!Available(S, q)
  <2>1. \A b \in 1..DaysBefore : \A q, r \in History!SameLocal(p, b) : q = r
    BY SameLocalIs
  <2> SUFFICES ASSUME NEW q
               PROVE  q \in Used(S, p) <=>
                        \E b \in 1..DaysBefore : q \in History!SameLocal(p, b) /\ History!Available(S, q)
    OBVIOUS
  <2>2. ASSUME q \in Used(S, p)
        PROVE  \E b \in 1..DaysBefore : q \in History!SameLocal(p, b) /\ History!Available(S, q)
    <3>1. PICK b \in UsedDays(S, p) : q \in History!SameLocal(p, b)
      BY <2>2 DEF Used
    <3>2. b \in 1..DaysBefore /\ \E r \in History!SameLocal(p, b) : History!Available(S, r)
      BY DEF UsedDays
    <3> QED BY <2>1, <3>1, <3>2
  <2>3. ASSUME NEW b \in 1..DaysBefore, q \in History!SameLocal(p, b), History!Available(S, q)
        PROVE  q \in Used(S, p)
    BY <2>3 DEF Used, UsedDays
  <2> QED BY <2>2, <2>3
<1>2. Used(S, p) \subseteq Halves
    BY <1>1, SameLocalIs
<1> QED BY <1>1, <1>2, CalendarIs, FS_Subset

\* The sums in ascending order are those of the half-hours.
LEMMA RankedAre ==
  ASSUME calendar \in Years, NEW S, Sampled(S), NEW U, U \subseteq Halves
  PROVE  /\ InOrder(S, U) \in History!SetToSeqs(U) /\ Rises(Ranked(S, U), Cardinality(U))
         /\ \A q \in U : \E i \in 1..Cardinality(U) : Ranked(S, U)[i] = Sum(S, q)
         /\ \A i \in 1..Cardinality(U) : \E q \in U : Ranked(S, U)[i] = Sum(S, q)
<1> DEFINE n == Cardinality(U)
           less == {t \in U \X U : \/ Sum(S, t[1]) < Sum(S, t[2])
                                   \/ Sum(S, t[1]) = Sum(S, t[2]) /\ t[1] < t[2]}
           Q == History!SetToSeqs(U)
           P(s) == \A i, j \in DOMAIN s : i < j => Sum(S, s[i]) <= Sum(S, s[j])
<1>1. IsFiniteSet(U) /\ n \in Nat /\ \A q \in U : q \in Int
  <2>1. IsFiniteSet(U) /\ \A q \in U : q \in Int
    BY CalendarIs, FS_Subset
  <2> QED BY <2>1, FS_CardinalityType
<1>2. \A q : Sum(S, q) \in Int
  <2> SUFFICES ASSUME NEW q PROVE Sum(S, q) \in Int
    OBVIOUS
  <2>1. IsFiniteSet(Chosen(S, q)) /\ History!Selected(S, q) = Chosen(S, q)
    BY AvailableIs, SelectedIs
  <2>2. \A s \in Chosen(S, q) : s.at \in DOMAIN Levels /\ s.rev \in Int
    BY DEF Chosen, Sampled
  <2> QED BY <2>1, <2>2, TotalIs DEF Sum
<1>3. \A x, y \in U : <<x, y>> \in less <=>
        Sum(S, x) < Sum(S, y) \/ (Sum(S, x) = Sum(S, y) /\ x < y)
    OBVIOUS
<1> HIDE DEF less
<1>4. Total(less, U)
  <2> SUFFICES ASSUME NEW x \in U, NEW y \in U, x # y PROVE <<x, y>> \in less \/ <<y, x>> \in less
    BY DEF Total
  <2>1. Sum(S, x) \in Int /\ Sum(S, y) \in Int /\ x \in Int /\ y \in Int
    BY <1>1, <1>2
  <2> QED BY <1>3, <2>1
<1>5. Transitive(less, U)
  <2> SUFFICES ASSUME NEW x \in U, NEW y \in U, NEW z \in U, <<x, y>> \in less, <<y, z>> \in less
               PROVE  <<x, z>> \in less
    BY DEF Transitive
  <2>1. /\ Sum(S, x) \in Int /\ Sum(S, y) \in Int /\ Sum(S, z) \in Int
        /\ x \in Int /\ y \in Int /\ z \in Int
    BY <1>1, <1>2
  <2> QED BY <1>3, <2>1
<1>6. PICK e : Enumerates(e, U, less)
    BY <1>1, <1>4, <1>5, Enumeration
<1>7. Q = {f \in [1..n -> U] : \A i, j \in 1..n : i # j => f[i] # f[j]}
    BY HistoryLibrary DEF History!SetToSeqs
<1>8. e \in Q /\ P(e)
  <2>1. /\ e \in [1..n -> U]
        /\ \A i, j \in 1..n : i < j => e[i] # e[j] /\ <<e[i], e[j]>> \in less
    BY <1>6 DEF Enumerates
  <2> HIDE DEF Q, n
  <2>2. ASSUME NEW i \in 1..n, NEW j \in 1..n, i # j PROVE e[i] # e[j]
    <3>1. i < j \/ j < i
      BY <1>1, <2>2
    <3> QED BY <2>1, <3>1
  <2>3. ASSUME NEW i \in 1..n, NEW j \in 1..n, i < j PROVE Sum(S, e[i]) <= Sum(S, e[j])
    <3>1. e[i] \in U /\ e[j] \in U /\ <<e[i], e[j]>> \in less
      BY <2>1, <2>3
    <3> QED BY <1>2, <1>3, <3>1
  <2> QED BY <1>7, <2>1, <2>2, <2>3
<1> DEFINE o == InOrder(S, U)
<1>9. o \in Q /\ P(o)
  <2>1. o = CHOOSE s \in Q : P(s)
    BY DEF InOrder
  <2> HIDE DEF Q, P, o
  <2> QED BY <1>8, <2>1
<1>10. o \in [1..n -> U] /\ \A i, j \in 1..n : i # j => o[i] # o[j]
    BY <1>7, <1>9
<1>11. \A q \in U : \E i \in 1..n : o[i] = q
  <2> HIDE DEF o
  <2> QED BY <1>1, <1>10, AllListed DEF n
<1>12. Ranked(S, U) = [i \in 1..n |-> Sum(S, o[i])]
    BY <1>10 DEF Ranked
<1> HIDE DEF o, n, Q
<1>13. Rises(Ranked(S, U), n)
    BY <1>2, <1>9, <1>10, <1>12 DEF Rises
<1>14. \A i \in 1..n : o[i] \in U /\ Ranked(S, U)[i] = Sum(S, o[i])
    BY <1>10, <1>12
<1> QED BY <1>9, <1>11, <1>13, <1>14 DEF o, n, Q

\* A rolling comparison depends on the rows of its half-hours only.
LEMMA RollingLocal ==
  ASSUME calendar \in Years, NEW S, Sampled(S), NEW R, NEW p \in Halves, Agree(R, S, p),
         \A b \in 1..DaysBefore : \A q \in History!SameLocal(p, b) : Agree(R, S, q)
  PROVE  History!Rolling(R, p) = History!Rolling(S, p)
<1> DEFINE Around == {p} \cup UNION {History!SameLocal(p, b) : b \in 1..DaysBefore}
<1>1. \A q \in Around : /\ History!Available(R, q) = History!Available(S, q)
                      /\ History!Selected(R, q) = History!Selected(S, q)
                      /\ Sum(R, q) = Sum(S, q)
  <2> SUFFICES ASSUME NEW q \in Around
               PROVE  /\ History!Available(R, q) = History!Available(S, q)
                      /\ History!Selected(R, q) = History!Selected(S, q)
                      /\ Sum(R, q) = Sum(S, q)
    OBVIOUS
  <2>1. Agree(R, S, q)
    OBVIOUS
  <2> QED BY <2>1, SelectedLocal DEF Sum
<1>2. \A b \in 1..DaysBefore : History!SameLocal(p, b) \subseteq Around
    OBVIOUS
<1>3. p \in Around
    OBVIOUS
<1> HIDE DEF Around
<1>4. UsedDays(R, p) = UsedDays(S, p)
    BY <1>1, <1>2 DEF UsedDays
<1> DEFINE U == Used(S, p)
<1>5. Used(R, p) = U /\ U \subseteq Around
  <2>1. UsedDays(S, p) \subseteq 1..DaysBefore
    BY DEF UsedDays
  <2> QED BY <1>2, <1>4, <2>1 DEF Used
<1> HIDE DEF U
<1>6. InOrder(R, U) = InOrder(S, U)
  <2>1. \A s \in History!SetToSeqs(U) : \A i \in DOMAIN s : s[i] \in U
    BY DEF History!SetToSeqs
  <2>2. \A s \in History!SetToSeqs(U) :
          (\A i, j \in DOMAIN s : i < j => Sum(R, s[i]) <= Sum(R, s[j]))
            <=> \A i, j \in DOMAIN s : i < j => Sum(S, s[i]) <= Sum(S, s[j])
    <3> SUFFICES ASSUME NEW s \in History!SetToSeqs(U)
                 PROVE  (\A i, j \in DOMAIN s : i < j => Sum(R, s[i]) <= Sum(R, s[j]))
                          <=> \A i, j \in DOMAIN s : i < j => Sum(S, s[i]) <= Sum(S, s[j])
      OBVIOUS
    <3>1. \A i \in DOMAIN s : Sum(R, s[i]) = Sum(S, s[i])
      BY <1>1, <1>5, <2>1
    <3> QED BY <3>1
  <2> QED BY <2>2 DEF InOrder
<1>7. Ranked(R, U) = Ranked(S, U)
  <2>1. Ranked(R, U) = [i \in DOMAIN InOrder(S, U) |-> Sum(R, InOrder(S, U)[i])]
    BY <1>6 DEF Ranked
  <2>2. \A i \in DOMAIN InOrder(S, U) : InOrder(S, U)[i] \in U
    <3>1. InOrder(S, U) \in History!SetToSeqs(U)
      BY RankedAre, UsedAre DEF U
    <3> QED BY <3>1 DEF History!SetToSeqs
  <2>3. \A i \in DOMAIN InOrder(S, U) : Sum(R, InOrder(S, U)[i]) = Sum(S, InOrder(S, U)[i])
    BY <1>1, <1>5, <2>2
  <2> QED BY <2>1, <2>3 DEF Ranked
<1>8. \A q \in U \cup {p} : /\ Sum(R, q) = Sum(S, q)
                            /\ History!Selected(R, q) = History!Selected(S, q)
    BY <1>1, <1>3, <1>5
<1>9. /\ {q \in U : Sum(R, q) < Sum(R, p)} = {q \in U : Sum(S, q) < Sum(S, p)}
      /\ {q \in U : Sum(R, q) = Sum(R, p)} = {q \in U : Sum(S, q) = Sum(S, p)}
      /\ UNION {History!Selected(R, q) : q \in U \cup {p}}
           = UNION {History!Selected(S, q) : q \in U \cup {p}}
    BY <1>8
<1> QED BY <1>1, <1>3, <1>4, <1>5, <1>7, <1>8, <1>9, RollingParts DEF U

\* The half-hours used are the usual ones (_rolling_comparison).
LEMMA UsedIsUsual ==
  ASSUME calendar \in Years, NEW S, Sampled(S), NEW p \in Halves
  PROVE  /\ Used(S, p) = History!Usual(S, p)
         /\ \A q, r \in Used(S, p) : calendar[q].day = calendar[r].day => q = r
<1> DEFINE d(b) == calendar[p].day - b
           Same(q) == /\ calendar[q].time = calendar[p].time
                      /\ \/ calendar[q].offset = calendar[p].offset
                         \/ \A r \in History!Periods(calendar[q].day) \ {q} : calendar[r].time # calendar[p].time
<1>1. \A b \in 1..DaysBefore : \A q : q \in History!SameLocal(p, b) <=>
        q \in Halves /\ calendar[q].day = d(b) /\ Same(q)
    BY SameLocalIs
<1>2. \A q \in Halves : q \in Int /\ q >= 1 /\ calendar[q].day \in Int
    BY CalendarIs DEF Halves
<1>3. \A q \in Halves : History!Available(S, q) <=> History!Complete(S, q)
    BY AvailableIs
<1>4. ASSUME NEW q
      PROVE  q \in History!Usual(S, p) <=>
               /\ q \in 1..(p - 1) /\ History!Complete(S, q)
               /\ calendar[q].day < calendar[p].day
               /\ calendar[p].day - calendar[q].day <= DaysBefore
               /\ Same(q)
    BY DEF History!Usual, History!DayOf, History!SameTime, History!SameOffset
<1> HIDE DEF Same
<1>5. ASSUME NEW q \in Used(S, p) PROVE q \in History!Usual(S, p)
  <2>1. PICK b \in 1..DaysBefore : q \in History!SameLocal(p, b) /\ History!Available(S, q)
    BY UsedAre
  <2>2. q \in Halves /\ calendar[q].day = d(b) /\ Same(q) /\ q < p
    BY <1>1, <2>1, SameLocalIs
  <2>3. DaysBefore \in Int /\ b \in Int
    BY HistoryConstants
  <2> QED BY <1>2, <1>3, <1>4, <2>1, <2>2, <2>3
<1>6. ASSUME NEW q \in History!Usual(S, p) PROVE q \in Used(S, p)
  <2>1. q \in Halves
    BY <1>2, <1>4, CalendarIs DEF Halves
  <2> DEFINE b == calendar[p].day - calendar[q].day
  <2>2. b \in 1..DaysBefore /\ calendar[q].day = calendar[p].day - b
    <3>1. calendar[q].day < calendar[p].day /\ calendar[p].day - calendar[q].day <= DaysBefore
      BY <1>4, <1>6
    <3>2. calendar[p].day \in Int /\ calendar[q].day \in Int
      BY <1>2, <2>1
    <3>3. DaysBefore \in Int
      BY HistoryConstants
    <3> QED BY <3>1, <3>2, <3>3
  <2> HIDE DEF b
  <2>3. q \in History!SameLocal(p, b) /\ History!Available(S, q)
    BY <1>1, <1>3, <1>4, <2>1, <2>2
  <2> QED BY <2>2, <2>3, UsedAre
<1>7. ASSUME NEW q \in Used(S, p), NEW r \in Used(S, p), calendar[q].day = calendar[r].day PROVE q = r
  <2>1. PICK b \in 1..DaysBefore : q \in History!SameLocal(p, b)
    BY UsedAre
  <2>2. PICK c \in 1..DaysBefore : r \in History!SameLocal(p, c)
    BY UsedAre
  <2>3. b = c
    BY <1>1, <1>2, <1>7, <2>1, <2>2
  <2> QED BY <2>1, <2>2, <2>3, SameLocalIs
<1> QED BY <1>5, <1>6, <1>7

\* The newest samples of the half-hours, all together.
LEMMA LatestOfAll ==
  ASSUME NEW S, Sampled(S), NEW P, \A p \in P : History!Complete(S, p)
  PROVE  UNION {History!Selected(S, p) : p \in P} = History!Latest(S, P)
<1>1. \A p \in P : History!Selected(S, p) = History!Latest(S, {p})
    BY AvailableIs
<1>2. \A s : s \in History!Latest(S, P) <=> \E p \in P : s \in History!Latest(S, {p})
    BY DEF History!Latest
<1> QED BY <1>1, <1>2

\* What a rolling comparison says of complete evidence.
Compared(S, p, b) ==
  LET U == History!Usual(S, p)
      V == {History!Total(History!Latest(S, {q})) : q \in U}
  IN  /\ b.stats # <<>> <=>
           History!Complete(S, p) /\ Cardinality(U) * 100 >= HistoryCoverage * DaysBefore
      /\ b.stats # <<>> =>
           /\ \A q, r \in U : History!DayOf(q) = History!DayOf(r) => q = r
           /\ b.ids = History!Latest(S, U \cup {p})
           /\ 4 * History!Min(V) <= b.stats[2] /\ b.stats[2] <= b.stats[1]
           /\ b.stats[1] <= b.stats[3] /\ b.stats[3] <= 4 * History!Max(V)
      /\ b.ids # {} => b.ids = History!Latest(S, U \cup {p})

\* The baseline computed of some evidence says what that evidence says: its size, its
\* quartiles in order and within the values, its rows (_rolling_comparison, _quantile).
LEMMA RollingIs ==
  ASSUME calendar \in Years, NEW S, Sampled(S), NEW p \in Halves
  PROVE  Compared(S, p, History!Rolling(S, p))
<1> DEFINE U == Used(S, p)
           W == History!Usual(S, p)
           n == Cardinality(U)
           v == Ranked(S, U)
           V == {History!Total(History!Latest(S, {q})) : q \in W}
           b == History!Rolling(S, p)
           below == Cardinality({q \in U : Sum(S, q) < Sum(S, p)})
           equal == Cardinality({q \in U : Sum(S, q) = Sum(S, p)})
<1>1. U = W /\ \A q, r \in U : calendar[q].day = calendar[r].day => q = r
    BY UsedIsUsual
<1>2. b = IF ~History!Available(S, p) THEN History!NoRolling(<<>>)
          ELSE IF ~History!Enough(n, DaysBefore)
          THEN [History!NoRolling(<<Sum(S, p)>>) EXCEPT !.days = UsedDays(S, p)]
          ELSE [known |-> <<Sum(S, p)>>, days |-> UsedDays(S, p),
                stats |-> <<History!Quantile(v, 2), History!Quantile(v, 1),
                            History!Quantile(v, 3), 2 * below + equal>>,
                ids |-> UNION {History!Selected(S, q) : q \in U \cup {p}}]
    BY RollingParts
<1>3. History!Available(S, p) <=> History!Complete(S, p)
    BY AvailableIs
<1>4. n \in Nat /\ IsFiniteSet(U)
    BY UsedAre, FS_CardinalityType
<1>5. History!Enough(n, DaysBefore) <=> n * 100 >= HistoryCoverage * DaysBefore
    BY DEF History!Enough
<1>6. \A q \in W : History!Complete(S, q)
    BY DEF History!Usual
<1> HIDE DEF U, W, n, v, V, b, below, equal
<1>7. CASE ~(History!Complete(S, p) /\ n * 100 >= HistoryCoverage * DaysBefore)
  <2>1. b.stats = <<>> /\ b.ids = {}
    BY <1>2, <1>3, <1>5, <1>7 DEF History!NoRolling
  <2> QED BY <1>1, <1>7, <2>1 DEF Compared, W, b, n
<1>8. CASE History!Complete(S, p) /\ n * 100 >= HistoryCoverage * DaysBefore
  <2>1. /\ b.stats = <<History!Quantile(v, 2), History!Quantile(v, 1),
                       History!Quantile(v, 3), 2 * below + equal>>
        /\ b.ids = UNION {History!Selected(S, q) : q \in U \cup {p}}
    BY <1>2, <1>3, <1>5, <1>8
  <2>2. b.ids = History!Latest(S, W \cup {p})
    <3>1. \A q \in W \cup {p} : History!Complete(S, q)
      BY <1>6, <1>8
    <3> QED BY <1>1, <2>1, <3>1, LatestOfAll
  <2>3. n # 0
    <3> DEFINE least == HistoryCoverage * DaysBefore
    <3>1. least \in Int /\ least > 0
      BY HistoryConstants
    <3>2. n * 100 >= least
      BY <1>8
    <3> HIDE DEF least
    <3> QED BY <3>1, <3>2
  <2>4. n \in Nat \ {0} /\ Rises(v, n)
        /\ (\A q \in U : \E i \in 1..n : v[i] = Sum(S, q))
        /\ (\A i \in 1..n : \E q \in U : v[i] = Sum(S, q))
    BY <1>4, <2>3, RankedAre, UsedAre DEF U, v, n
  <2>5. /\ 4 * v[1] <= History!Quantile(v, 1)
        /\ History!Quantile(v, 1) <= History!Quantile(v, 2)
        /\ History!Quantile(v, 2) <= History!Quantile(v, 3)
        /\ History!Quantile(v, 3) <= 4 * v[n]
    BY <2>4, QuantilesRise
  <2>6. \A x : x \in V <=> \E i \in 1..n : v[i] = x
    <3>1. \A q \in W : Sum(S, q) = History!Total(History!Latest(S, {q}))
      BY <1>6, AvailableIs DEF Sum
    <3>2. \A x : x \in V <=> \E q \in W : x = History!Total(History!Latest(S, {q}))
      BY DEF V
    <3>3. \A x : x \in V <=> \E q \in U : x = Sum(S, q)
      BY <1>1, <3>1, <3>2
    <3> QED BY <2>4, <3>3
  <2>7. \A i, j \in 1..n : v[i] \in Int /\ (i <= j => v[i] <= v[j])
    <3> SUFFICES ASSUME NEW i \in 1..n, NEW j \in 1..n
                 PROVE  v[i] \in Int /\ (i <= j => v[i] <= v[j])
      OBVIOUS
    <3>1. i <= j => i = j \/ i < j
      BY <2>4
    <3> QED BY <2>4, <3>1 DEF Rises
  <2>8. 1 \in 1..n /\ n \in 1..n /\ \A i \in 1..n : 1 <= i /\ i <= n
    BY <2>4
  <2>9. History!Min(V) = v[1]
    <3>1. v[1] \in V /\ \A y \in V : v[1] <= y
      BY <2>6, <2>7, <2>8
    <3>2. \A x \in V : (\A y \in V : x <= y) => x = v[1]
      BY <2>6, <2>7, <2>8, <3>1
    <3> QED BY <3>1, <3>2 DEF History!Min
  <2>10. History!Max(V) = v[n]
    <3>1. v[n] \in V /\ \A y \in V : v[n] >= y
      BY <2>6, <2>7, <2>8
    <3>2. \A x \in V : (\A y \in V : x >= y) => x = v[n]
      BY <2>6, <2>7, <2>8, <3>1
    <3> QED BY <3>1, <3>2 DEF History!Max
  <2>11. b.stats # <<>>
    BY <2>1
  <2>12. b.stats[1] = History!Quantile(v, 2) /\ b.stats[2] = History!Quantile(v, 1)
         /\ b.stats[3] = History!Quantile(v, 3)
    BY <2>1
  <2>13. \A q, r \in W : History!DayOf(q) = History!DayOf(r) => q = r
    BY <1>1 DEF History!DayOf
  <2> QED BY <1>1, <1>8, <2>2, <2>5, <2>9, <2>10, <2>11, <2>12, <2>13 DEF Compared, W, V, b, n
<1> QED BY <1>7, <1>8

\* What is kept of a day of complete evidence.
DayRight(S, d, c, a) ==
  LET P == {p \in History!Periods(d) : History!Complete(S, p)}
  IN  /\ c.observed = Cardinality(P)
      /\ a.mean # <<>> <=> Cardinality(P) * 100 >= HistoryCoverage * History!Expected(d)
      /\ a.mean # <<>> => a.mean = <<History!Total(History!Latest(S, P)), Cardinality(P)>>

\* A day that is computed from a window says what all of the evidence says
\* (assess_daily_coverage, aggregate_daily_mean).
LEMMA DayIs ==
  ASSUME calendar \in Years, NEW S, Sampled(S), NEW R, NEW d,
         \A p \in History!Periods(d) : Agree(R, S, p)
  PROVE  DayRight(S, d, History!CoverageOf(R, d), History!AggregateOf(R, d))
<1> DEFINE P == {p \in History!Periods(d) : History!Complete(S, p)}
           O == History!Observed(R, d)
           n == Cardinality(P)
           t == UNION {History!Selected(R, p) : p \in O}
           c == History!CoverageOf(R, d)
           a == History!AggregateOf(R, d)
<1>1. \A p \in History!Periods(d) : /\ History!Available(R, p) <=> History!Complete(S, p)
                                    /\ History!Selected(R, p) = History!Selected(S, p)
  <2> SUFFICES ASSUME NEW p \in History!Periods(d)
               PROVE  /\ History!Available(R, p) <=> History!Complete(S, p)
                      /\ History!Selected(R, p) = History!Selected(S, p)
    OBVIOUS
  <2>1. History!Available(R, p) = History!Available(S, p) /\ History!Selected(R, p) = History!Selected(S, p)
    BY SelectedLocal
  <2>2. History!Available(S, p) <=> History!Complete(S, p)
    BY AvailableIs
  <2> QED BY <2>1, <2>2
<1>2. O = P
    BY <1>1 DEF History!Observed
<1>3. t = History!Latest(S, P)
  <2>1. \A p \in P : History!Complete(S, p)
    OBVIOUS
  <2>2. \A p \in P : History!Selected(R, p) = History!Selected(S, p)
    BY <1>1
  <2> HIDE DEF P, O
  <2>3. UNION {History!Selected(S, p) : p \in P} = History!Latest(S, P)
    BY <2>1, LatestOfAll
  <2>4. t = UNION {History!Selected(S, p) : p \in P}
    BY <1>2, <2>2
  <2> QED BY <2>3, <2>4
<1>4. c.observed = History!Cardinality(O)
    BY DEF History!CoverageOf
<1>5. History!Sufficient(R, d) <=> n * 100 >= HistoryCoverage * History!Expected(d)
  <2>1. History!Cardinality(O) = n
    BY <1>2, HistoryLibrary
  <2> QED BY <2>1 DEF History!Sufficient, History!Enough
<1>6. a.mean = IF History!Sufficient(R, d)
               THEN <<History!Total(t), History!Cardinality(O)>> ELSE <<>>
    BY DEF History!AggregateOf
<1>7. History!Cardinality(O) = n
    BY <1>2, HistoryLibrary
<1> HIDE DEF c, a, t, n, O, P
<1> DEFINE g == <<History!Total(History!Latest(S, P)), n>>
           enough == n * 100 >= HistoryCoverage * History!Expected(d)
<1>8. a.mean = IF enough THEN g ELSE <<>>
    BY <1>3, <1>5, <1>6, <1>7
<1>9. g # <<>>
    OBVIOUS
<1> HIDE DEF g, enough
<1>10. c.observed = n /\ (a.mean # <<>> <=> enough) /\ (a.mean # <<>> => a.mean = g)
    BY <1>4, <1>7, <1>8, <1>9
<1> QED BY <1>10 DEF DayRight, c, a, n, P, g, enough

\* A table of numbered revisions, each of which says something new.
TableRight(T) ==
  /\ IsFiniteSet(T) /\ \A r \in T : r.rev \in Nat
  /\ \A q, r \in T : q.key = r.key /\ q.rev = r.rev => q = r
  /\ History!RevisedOnlyIfChanged(T)

\* The greatest of a finite set of integers.
LEMMA GreatestOf ==
  ASSUME NEW T, T \subseteq Int, T # {}, IsFiniteSet(T)
  PROVE  History!Max(T) \in T /\ \A y \in T : y <= History!Max(T)
<1>1. \E x \in T : \A y \in T : x >= y
    BY GreatestOfFinite
<1>2. History!Max(T) = CHOOSE x \in T : \A y \in T : x >= y
    BY DEF History!Max
<1>3. History!Max(T) \in T /\ \A y \in T : History!Max(T) >= y
    BY <1>1, <1>2
<1> QED BY <1>3

\* What a run appends differs from what was newest, and is newest then (_append_materialized_rows).
LEMMA AppendedIs ==
  ASSUME NEW T, TableRight(T), NEW content, IsFiniteSet(DOMAIN content)
  PROVE  /\ TableRight(History!Appended(T, content))
         /\ \A k \in DOMAIN content : History!Now(History!Appended(T, content), k) = content[k]
<1> DEFINE stored(k) == {r \in T : r.key = k}
           revs(k) == {r.rev : r \in stored(k)} \cup {-1}
           next(k) == History!Max(revs(k)) + 1
           same(k) == \E r \in stored(k) : r.rev = next(k) - 1 /\ r.content = content[k]
           row(k) == [key |-> k, rev |-> next(k), content |-> content[k]]
           D == {k \in DOMAIN content : ~same(k)}
           N == {row(k) : k \in D}
           U == History!Appended(T, content)
<1>1. U = T \cup N
    BY DEF History!Appended
<1>2. ASSUME NEW k
      PROVE  /\ next(k) \in Nat /\ \A r \in stored(k) : r.rev < next(k)
             /\ next(k) > 0 => \E r \in stored(k) : r.rev = next(k) - 1
  <2> DEFINE V == stored(k)
             m == [r \in V |-> r.rev]
             W == {r.rev : r \in V}
  <2>1. IsFiniteSet(V) /\ \A r \in V : r.rev \in Nat
    <3>1. V \subseteq T
      OBVIOUS
    <3> QED BY <3>1, FS_Subset DEF TableRight
  <2> HIDE DEF V
  <2>2. IsFiniteSet(W)
    <3>1. m \in Surjection(V, W)
      BY DEF Surjection
    <3> HIDE DEF m, W
    <3> QED BY <2>1, <3>1, FS_Surjection
  <2>3. revs(k) = W \cup {-1}
    BY DEF V
  <2>4. W \subseteq Nat
    BY <2>1
  <2> DEFINE X == W \cup {-1}
  <2>5. X \subseteq Int /\ X # {} /\ IsFiniteSet(X) /\ \A x \in X : x \in Nat \/ x = -1
    <3> HIDE DEF W
    <3>1. IsFiniteSet({-1})
      BY FS_Singleton
    <3>2. IsFiniteSet(X)
      BY <2>2, <3>1, FS_Union
    <3> QED BY <2>4, <3>2
  <2>6. History!Max(X) \in X /\ \A y \in X : y <= History!Max(X)
    <3> HIDE DEF X
    <3> QED BY <2>5, GreatestOf
  <2> DEFINE g == History!Max(X)
  <2>7. next(k) = g + 1
    BY <2>3
  <2>8. /\ g \in W \/ g = -1
        /\ \A y \in W : y <= g
        /\ -1 <= g
    BY <2>6
  <2> HIDE DEF g, X
  <2>9. g \in Int
    BY <2>4, <2>8
  <2>10. next(k) \in Nat /\ \A r \in V : r.rev < next(k)
    <3>1. \A r \in V : r.rev \in W
      OBVIOUS
    <3> HIDE DEF W, next
    <3> QED BY <2>1, <2>7, <2>8, <2>9, <3>1
  <2>11. next(k) > 0 => \E r \in V : r.rev = next(k) - 1
    <3> HIDE DEF next
    <3>1. next(k) > 0 => g \in W /\ next(k) - 1 = g
      BY <2>7, <2>8, <2>9
    <3> QED BY <3>1
  <2> QED BY <2>10, <2>11 DEF V
<1>3. \A k : row(k).key = k /\ row(k).rev = next(k) /\ row(k).content = content[k]
    OBVIOUS
<1>4. \A k : \A r : r \in stored(k) <=> r \in T /\ r.key = k
    OBVIOUS
<1>5. \A k \in DOMAIN content : k \in D <=> ~same(k)
    OBVIOUS
<1>6. \A r \in N : \E k \in D : r = row(k)
    OBVIOUS
<1>7. \A k \in D : row(k) \in N /\ k \in DOMAIN content
    OBVIOUS
<1>8. IsFiniteSet(U)
  <2> DEFINE m == [k \in D |-> row(k)]
  <2>1. IsFiniteSet(D)
    <3>1. D \subseteq DOMAIN content
      OBVIOUS
    <3> HIDE DEF D
    <3> QED BY <3>1, FS_Subset
  <2>2. m \in Surjection(D, N)
    <3> HIDE DEF D, row
    <3> QED BY DEF Surjection
  <2>3. IsFiniteSet(N)
    <3> HIDE DEF m, N, D
    <3> QED BY <2>1, <2>2, FS_Surjection
  <2> HIDE DEF N, U
  <2> QED BY <1>1, <2>3, FS_Union DEF TableRight
<1>9. \A k : same(k) <=> \E r \in stored(k) : r.rev = next(k) - 1 /\ r.content = content[k]
    OBVIOUS
<1> HIDE DEF N, D, row, next, same, stored, U
<1>10. \A r \in U : r.rev \in Nat
    BY <1>1, <1>2, <1>3, <1>6 DEF TableRight
<1>11. ASSUME NEW q \in N, NEW r \in U, q.key = r.key, q.rev = r.rev PROVE q = r
  <2>1. PICK k \in D : q = row(k)
    BY <1>6
  <2>2. r \notin T
    <3>1. r \in T => r \in stored(k)
      BY <1>3, <1>4, <1>11, <2>1
    <3>2. r \in T => r.rev < next(k)
      BY <1>2, <3>1
    <3> QED BY <1>2, <1>3, <1>11, <2>1, <3>2
  <2>3. PICK j \in D : r = row(j)
    BY <1>1, <1>6, <2>2
  <2> QED BY <1>3, <1>11, <2>1, <2>3
<1>12. \A q, r \in U : q.key = r.key /\ q.rev = r.rev => q = r
  <2> SUFFICES ASSUME NEW q \in U, NEW r \in U, q.key = r.key, q.rev = r.rev PROVE q = r
    OBVIOUS
  <2>1. CASE q \in N
    BY <1>11, <2>1
  <2>2. CASE r \in N
    BY <1>11, <2>2
  <2>3. CASE q \in T /\ r \in T
    BY <2>3 DEF TableRight
  <2> QED BY <1>1, <2>1, <2>2, <2>3
<1>13. ASSUME NEW r \in U, r.rev > 0
       PROVE  \E q \in U : q.key = r.key /\ q.rev = r.rev - 1 /\ q.content # r.content
  <2>1. CASE r \in T
    BY <1>1, <1>13, <2>1 DEF TableRight, History!RevisedOnlyIfChanged
  <2>2. CASE r \in N
    <3>1. PICK k \in D : r = row(k)
      BY <1>6, <2>2
    <3>2. PICK q \in stored(k) : q.rev = next(k) - 1
      BY <1>2, <1>3, <1>13, <3>1
    <3>3. q.content # content[k]
      BY <1>5, <1>7, <1>9, <3>2
    <3> QED BY <1>1, <1>3, <1>4, <3>1, <3>2, <3>3
  <2> QED BY <1>1, <2>1, <2>2
<1>14. TableRight(U)
    BY <1>8, <1>10, <1>12, <1>13 DEF TableRight, History!RevisedOnlyIfChanged
<1>15. ASSUME NEW k \in DOMAIN content PROVE History!Now(U, k) = content[k]
  <2>1. \A q \in U : q.key = k => q \in stored(k) \/ (q = row(k) /\ k \in D)
    BY <1>1, <1>3, <1>4, <1>6
  <2>2. \E r \in U : /\ r.key = k /\ r.content = content[k]
                     /\ \A q \in U : q.key = k => q.rev <= r.rev
    <3>1. CASE same(k)
      <4>1. PICK r \in stored(k) : r.rev = next(k) - 1 /\ r.content = content[k]
        BY <1>9, <3>1
      <4>2. r \in U /\ r.key = k /\ k \notin D
        BY <1>1, <1>4, <1>5, <3>1, <4>1
      <4>3. ASSUME NEW q \in U, q.key = k PROVE q.rev <= r.rev
        <5>1. q.rev < next(k)
          BY <1>2, <2>1, <4>2, <4>3
        <5> QED BY <1>2, <1>10, <4>1, <5>1
      <4> QED BY <4>1, <4>2, <4>3
    <3>2. CASE ~same(k)
      <4>1. row(k) \in U
        BY <1>1, <1>5, <1>7, <3>2
      <4>2. ASSUME NEW q \in U, q.key = k PROVE q.rev <= row(k).rev
        BY <1>2, <1>3, <1>10, <2>1, <4>2
      <4> QED BY <1>3, <4>1, <4>2
    <3> QED BY <3>1, <3>2
  <2>3. PICK r \in U : /\ r.key = k /\ r.content = content[k]
                       /\ \A q \in U : q.key = k => q.rev <= r.rev
    BY <2>2
  <2> DEFINE K == {q \in U : q.key = k}
  <2>4. History!Now(U, k) = (CHOOSE x \in K : \A q \in U : q.key = k => q.rev <= x.rev).content
    BY DEF History!Now
  <2>5. ASSUME NEW x \in K, \A q \in U : q.key = k => q.rev <= x.rev PROVE x = r
    <3>1. x.rev <= r.rev /\ r.rev <= x.rev /\ x.rev \in Nat /\ r.rev \in Nat
      BY <1>10, <2>3, <2>5
    <3>2. x.rev = r.rev
      BY <3>1
    <3> QED BY <1>12, <2>3, <3>2
  <2>6. r \in K
    BY <2>3
  <2> HIDE DEF K
  <2>7. (CHOOSE x \in K : \A q \in U : q.key = k => q.rev <= x.rev) = r
    BY <2>3, <2>5, <2>6
  <2> QED BY <2>3, <2>4, <2>7
<1> QED BY <1>14, <1>15 DEF U

\* What is computed of a window changes with the calendar only, and that never changes.
LEMMA CalendarStays ==
  ASSUME calendar' = calendar
  PROVE  /\ \A d : History!Periods(d)' = History!Periods(d)
         /\ \A R, d : /\ History!CoverageOf(R, d)' = History!CoverageOf(R, d)
                      /\ History!AggregateOf(R, d)' = History!AggregateOf(R, d)
         /\ \A R, p : History!Rolling(R, p)' = History!Rolling(R, p)
<1>1. \A d : History!Periods(d)' = History!Periods(d)
    BY DEF History!Periods
<1>2. \A d : History!Expected(d)' = History!Expected(d)
    BY <1>1 DEF History!Expected
<1>3. \A R, d : History!Observed(R, d)' = History!Observed(R, d)
    BY <1>1 DEF History!Observed
<1>4. \A R, d : History!Sufficient(R, d)' = History!Sufficient(R, d)
    BY <1>2, <1>3 DEF History!Sufficient
<1>5. \A R, d : History!CoverageOf(R, d)' = History!CoverageOf(R, d)
    BY <1>1, <1>2, <1>3, <1>4 DEF History!CoverageOf
<1>6. \A R, d : History!AggregateOf(R, d)' = History!AggregateOf(R, d)
    BY <1>3, <1>4, <1>5 DEF History!AggregateOf
<1>7. \A p, q : /\ History!SameTime(q, p)' = History!SameTime(q, p)
                /\ History!SameOffset(q, p)' = History!SameOffset(q, p)
                /\ History!DayOf(p)' = History!DayOf(p)
    BY DEF History!SameTime, History!SameOffset, History!DayOf
<1>8. \A p, b : History!SameLocal(p, b)' = History!SameLocal(p, b)
    BY <1>1, <1>7 DEF History!SameLocal
<1>9. \A R, p : History!Rolling(R, p)' = History!Rolling(R, p)
  <2> SUFFICES ASSUME NEW R, NEW p PROVE History!Rolling(R, p)' = History!Rolling(R, p)
    OBVIOUS
  <2> DEFINE Body(U, D) ==
               LET v == Ranked(R, U)
                   below == Cardinality({q \in U : Sum(R, q) < Sum(R, p)})
                   equal == Cardinality({q \in U : Sum(R, q) = Sum(R, p)})
               IN  IF ~History!Available(R, p) THEN History!NoRolling(<<>>)
                   ELSE IF ~History!Enough(Cardinality(U), DaysBefore)
                   THEN [History!NoRolling(<<Sum(R, p)>>) EXCEPT !.days = D]
                   ELSE [known |-> <<Sum(R, p)>>, days |-> D,
                         stats |-> <<History!Quantile(v, 2), History!Quantile(v, 1),
                                     History!Quantile(v, 3), 2 * below + equal>>,
                         ids |-> UNION {History!Selected(R, q) : q \in U \cup {p}}]
  <2>1. UsedDays(R, p)' = UsedDays(R, p)
    BY <1>8 DEF UsedDays
  <2>2. Used(R, p)' = Used(R, p)
    BY <1>8, <2>1 DEF Used
  <2>3. History!Rolling(R, p) = Body(Used(R, p), UsedDays(R, p))
    BY RollingParts
  <2>4. \A T : History!Cardinality(T) = Cardinality(T)
    BY HistoryLibrary
  <2>5. History!Rolling(R, p)' = Body(Used(R, p)', UsedDays(R, p)')
    BY <2>4 DEF History!Rolling, Used, UsedDays, Sum, Ranked, InOrder
  <2> HIDE DEF Body
  <2> QED BY <2>1, <2>2, <2>3, <2>5
<1> QED BY <1>1, <1>5, <1>6, <1>9

\* What a run has read is all that its days and their baselines need.
WorkRight(w) ==
  w # History!Idle =>
    /\ w = [from |-> w.from, upto |-> w.upto, read |-> w.read, all |-> w.all, stored |-> w.stored]
    /\ w.from \in Int /\ w.upto \in Int /\ DaysBefore < w.from /\ w.upto <= LastDay
    /\ w.stored \in BOOLEAN
    /\ Sampled(w.all)
    /\ \A p \in Halves : w.from - DaysBefore <= calendar[p].day /\ calendar[p].day < w.upto =>
         Agree(w.read, w.all, p)

\* What a run has stored is what it has computed.
StoredRight(w) ==
  w # History!Idle /\ w.stored => \A d \in w.from..(w.upto - 1) :
    /\ History!Now(coverage, d) = History!CoverageOf(w.read, d)
    /\ History!Now(aggregates, d) = History!AggregateOf(w.read, d)
    /\ \A p \in History!Periods(d) : History!Now(baselines, p) = History!Rolling(w.read, p)

HistoryInv ==
  /\ calendar \in Years /\ moment \in 1..LastDay /\ Sampled(evidence)
  /\ WorkRight(work) /\ StoredRight(work)
  /\ TableRight(coverage) /\ TableRight(aggregates) /\ TableRight(baselines)

\* The first samples of some stamps.
LEMMA FirstsSampled ==
  ASSUME calendar \in Years, NEW D, NEW X
  PROVE  Sampled(History!Firsts(History!Stamps(D) \ X))
<1> DEFINE T == History!Stamps(D) \ X
           F == History!Firsts(T)
           row(t) == [at |-> t[1], stamp |-> t[2], rev |-> 0]
           m == [t \in T |-> row(t)]
<1>1. T \subseteq Halves \X Cadence
    BY PeriodsAre DEF History!Stamps
<1>2. IsFiniteSet(T)
  <2>1. IsFiniteSet(Halves \X Cadence)
    BY CalendarIs, HistoryConstants, FS_Product
  <2> HIDE DEF T
  <2> QED BY <1>1, <2>1, FS_Subset
<1>3. F = {row(t) : t \in T}
    BY DEF History!Firsts
<1>4. \A t \in T : row(t).at \in DOMAIN Levels
    BY <1>1, CalendarIs
<1> HIDE DEF T, F
<1>5. IsFiniteSet(F)
  <2>1. m \in Surjection(T, F)
    BY <1>3 DEF Surjection
  <2> HIDE DEF m
  <2> QED BY <1>2, <2>1, FS_Surjection
<1>6. \A s \in F : /\ s = [at |-> s.at, stamp |-> s.stamp, rev |-> s.rev]
                   /\ s.at \in DOMAIN Levels /\ s.rev \in Int
    BY <1>3, <1>4
<1> QED BY <1>5, <1>6 DEF Sampled, F, T

\* Samples of two reads are samples.
LEMMA SampledUnion ==
  ASSUME NEW S, NEW T, Sampled(S), Sampled(T)
  PROVE  Sampled(S \cup T)
BY FS_Union DEF Sampled

\* The first samples have come.
LEMMA HistoryStart == History!Init => HistoryInv
<1> SUFFICES ASSUME History!Init PROVE HistoryInv
    OBVIOUS
<1>1. /\ calendar \in Years /\ moment = FirstDay /\ work = History!Idle
      /\ evidence = History!Firsts(History!Stamps(1..FirstDay) \ holes)
      /\ coverage = {} /\ aggregates = {} /\ baselines = {}
    BY DEF History!Init
<1>2. moment \in 1..LastDay
    BY <1>1, HistoryConstants, CalendarIs
<1>3. Sampled(evidence)
    BY <1>1, FirstsSampled
<1>4. TableRight({})
    BY FS_EmptySet DEF TableRight, History!RevisedOnlyIfChanged
<1> QED BY <1>1, <1>2, <1>3, <1>4 DEF HistoryInv, WorkRight, StoredRight

\* The tables and the run stay while the days pass and samples come.
LEMMA WorkStays ==
  ASSUME HistoryInv, UNCHANGED <<calendar, work, coverage, aggregates, baselines>>,
         moment' \in 1..LastDay, Sampled(evidence')
  PROVE  HistoryInv'
<1>1. WorkRight(work)' /\ LastDay' = LastDay
    BY DEF HistoryInv, WorkRight, Halves, LastDay
<1>2. StoredRight(work)'
  <2>1. \A k : /\ History!Now(coverage, k)' = History!Now(coverage, k)
               /\ History!Now(aggregates, k)' = History!Now(aggregates, k)
               /\ History!Now(baselines, k)' = History!Now(baselines, k)
    BY DEF History!Now
  <2>2. \A d : /\ History!CoverageOf(work.read, d)' = History!CoverageOf(work.read, d)
               /\ History!AggregateOf(work.read, d)' = History!AggregateOf(work.read, d)
               /\ History!Periods(d)' = History!Periods(d)
    BY CalendarStays
  <2>3. \A p : History!Rolling(work.read, p)' = History!Rolling(work.read, p)
    BY CalendarStays
  <2>4. StoredRight(work)
    BY DEF HistoryInv
  <2> QED BY <2>1, <2>2, <2>3, <2>4 DEF StoredRight
<1> QED BY <1>1, <1>2 DEF HistoryInv, TableRight

\* A sample that arrives is a revision of its own.
LEMMA ArriveStep == HistoryInv /\ History!Arrive => HistoryInv'
<1> SUFFICES ASSUME HistoryInv, History!Arrive PROVE HistoryInv'
    OBVIOUS
<1>1. PICK t \in LateStamps :
        LET known == {s.rev : s \in {q \in evidence : q.at = t[1] /\ q.stamp = t[2]}}
        IN  evidence' = evidence \cup
              {[at |-> t[1], stamp |-> t[2], rev |-> History!Max(known \cup {-1}) + 1]}
    BY DEF History!Arrive
<1> DEFINE T == {q \in evidence : q.at = t[1] /\ q.stamp = t[2]}
           known == {s.rev : s \in T}
           g == History!Max(known \cup {-1})
           r == [at |-> t[1], stamp |-> t[2], rev |-> g + 1]
           m == [s \in T |-> s.rev]
<1>2. IsFiniteSet(T) /\ \A s \in T : s.rev \in Int
  <2>1. T \subseteq evidence
    OBVIOUS
  <2> QED BY <2>1, FS_Subset DEF HistoryInv, Sampled
<1>3. evidence' = evidence \cup {r}
    BY <1>1
<1> HIDE DEF T
<1>4. g \in Int
  <2>1. m \in Surjection(T, known)
    BY DEF Surjection
  <2>2. IsFiniteSet(known) /\ known \subseteq Int
    <3>1. known \subseteq Int
      BY <1>2
    <3> HIDE DEF m, known
    <3> QED BY <1>2, <2>1, <3>1, FS_Surjection
  <2> DEFINE X == known \cup {-1}
  <2>3. IsFiniteSet(X) /\ X \subseteq Int /\ X # {}
    <3> HIDE DEF known
    <3>1. IsFiniteSet({-1})
      BY FS_Singleton
    <3>2. IsFiniteSet(X)
      BY <2>2, <3>1, FS_Union
    <3> QED BY <2>2, <3>2
  <2> HIDE DEF X, known
  <2>4. History!Max(X) \in X
    BY <2>3, GreatestOf
  <2> QED BY <2>3, <2>4 DEF X
<1> HIDE DEF g
<1>5. Sampled({r})
  <2>1. r.at \in DOMAIN Levels /\ r.rev \in Int
    BY <1>4, HistoryConstants
  <2>2. r = [at |-> r.at, stamp |-> r.stamp, rev |-> r.rev]
    OBVIOUS
  <2> HIDE DEF r
  <2>3. IsFiniteSet({r})
    BY FS_Singleton
  <2> QED BY <2>1, <2>2, <2>3 DEF Sampled
<1> HIDE DEF r
<1>6. Sampled(evidence')
    BY <1>3, <1>5, SampledUnion DEF HistoryInv
<1>7. UNCHANGED <<calendar, moment, work, coverage, aggregates, baselines>>
    BY DEF History!Arrive, History!tables
<1>8. moment' \in 1..LastDay
    BY <1>7 DEF HistoryInv
<1> QED BY <1>6, <1>7, <1>8, WorkStays

\* A day passes.
LEMMA TickStep == HistoryInv /\ History!Tick => HistoryInv'
<1> SUFFICES ASSUME HistoryInv, History!Tick PROVE HistoryInv'
    OBVIOUS
<1>1. /\ moment < LastDay /\ moment' = moment + 1
      /\ evidence' = evidence \cup History!Firsts(History!Stamps({moment + 1}) \ holes)
      /\ UNCHANGED <<calendar, work, coverage, aggregates, baselines>>
    BY DEF History!Tick, History!tables, LastDay
<1>2. moment' \in 1..LastDay
    BY <1>1, CalendarIs DEF HistoryInv
<1>3. Sampled(evidence')
    BY <1>1, FirstsSampled, SampledUnion DEF HistoryInv
<1> QED BY <1>1, <1>2, <1>3, WorkStays

\* A window holds the days of a chunk and those before that its baselines look back to.
LEMMA LoadStep == HistoryInv /\ History!Load => HistoryInv'
<1> SUFFICES ASSUME HistoryInv, History!Load PROVE HistoryInv'
    OBVIOUS
<1>1. PICK from \in (DaysBefore + 1)..(moment - 1) : \E upto \in (from + 1)..moment :
        work' = [from |-> from, upto |-> upto, all |-> evidence, stored |-> FALSE,
                 read |-> History!In(evidence, History!ReadStart(from), History!First(upto))]
    BY DEF History!Load
<1>2. PICK upto \in (from + 1)..moment :
        work' = [from |-> from, upto |-> upto, all |-> evidence, stored |-> FALSE,
                 read |-> History!In(evidence, History!ReadStart(from), History!First(upto))]
    BY <1>1
<1>3. UNCHANGED <<calendar, moment, evidence, coverage, aggregates, baselines>>
    BY DEF History!Load, History!tables
<1> DEFINE first == from - DaysBefore
           read == History!In(evidence, History!ReadStart(from), History!First(upto))
<1>4. calendar \in Years /\ moment \in 1..LastDay /\ Sampled(evidence)
    BY DEF HistoryInv
<1>5. /\ from \in Int /\ upto \in Int /\ DaysBefore \in Nat /\ LastDay \in Nat
      /\ DaysBefore < from /\ from < upto /\ upto <= LastDay
      /\ first \in 1..LastDay /\ upto \in 1..LastDay
    BY <1>4, CalendarIs, HistoryConstants
<1>6. History!ReadStart(from) = History!First(first)
  <2>1. History!Max({1, first}) = first
    <3>1. History!Max({1, first}) = CHOOSE x \in {1, first} : \A y \in {1, first} : x >= y
      BY DEF History!Max
    <3>2. first \in Int /\ first >= 1
      BY <1>5
    <3> HIDE DEF first
    <3>3. \A x \in {1, first} : (\A y \in {1, first} : x >= y) => x = first
      BY <3>2
    <3>4. first \in {1, first} /\ \A y \in {1, first} : first >= y
      BY <3>2
    <3> QED BY <3>1, <3>3, <3>4
  <2> QED BY <2>1 DEF History!ReadStart
<1>7. ASSUME NEW p \in Halves, first <= calendar[p].day, calendar[p].day < upto
      PROVE  Agree(read, evidence, p)
  <2>1. History!First(first) <= p /\ History!First(first) \in Int
    <3> HIDE DEF first
    <3> QED BY <1>4, <1>5, <1>7, FirstIs, CalendarIs
  <2>2. p < History!First(upto)
    <3>1. ~(upto <= calendar[p].day)
      BY <1>4, <1>5, <1>7, CalendarIs
    <3>2. ~(History!First(upto) <= p) /\ History!First(upto) \in Halves
      BY <1>4, <1>5, <3>1, FirstIs
    <3> QED BY <1>4, <3>2, CalendarIs
  <2> QED BY <1>6, <2>1, <2>2 DEF Agree, History!In
<1> HIDE DEF read, first
<1>8. /\ work'.from = from /\ work'.upto = upto /\ work'.all = evidence /\ work'.stored = FALSE
      /\ work'.read = read
    BY <1>2 DEF read
<1>9. LastDay' = LastDay /\ Halves' = Halves
    BY <1>3 DEF LastDay, Halves
<1>10. WorkRight(work)'
  <2>1. work' = [from |-> from, upto |-> upto, read |-> read, all |-> evidence, stored |-> FALSE]
    BY <1>2 DEF read
  <2> QED BY <1>3, <1>4, <1>5, <1>7, <1>8, <1>9, <2>1 DEF WorkRight, first
<1>11. StoredRight(work)'
    BY <1>8 DEF StoredRight
<1> QED BY <1>3, <1>9, <1>10, <1>11 DEF HistoryInv, TableRight

\* A run appends what it has computed.
LEMMA PersistStep == HistoryInv /\ History!Persist => HistoryInv'
<1> SUFFICES ASSUME HistoryInv, History!Persist PROVE HistoryInv'
    OBVIOUS
<1> DEFINE days == work.from..(work.upto - 1)
           halves == UNION {History!Periods(d) : d \in days}
           c == [d \in days |-> History!CoverageOf(work.read, d)]
           a == [d \in days |-> History!AggregateOf(work.read, d)]
           b == [p \in halves |-> History!Rolling(work.read, p)]
<1>1. /\ work # History!Idle /\ work' = [work EXCEPT !.stored = TRUE]
      /\ coverage' = History!Appended(coverage, c)
      /\ aggregates' = History!Appended(aggregates, a)
      /\ baselines' = History!Appended(baselines, b)
      /\ UNCHANGED <<calendar, moment, evidence>>
    BY DEF History!Persist
<1>2. /\ calendar \in Years /\ TableRight(coverage) /\ TableRight(aggregates) /\ TableRight(baselines)
      /\ WorkRight(work)
    BY DEF HistoryInv
<1>3. work.from \in Int /\ work.upto \in Int
    BY <1>1, <1>2 DEF WorkRight
<1>4. IsFiniteSet(days) /\ IsFiniteSet(halves)
  <2>1. IsFiniteSet(days)
    BY <1>3, FS_Interval
  <2>2. halves \subseteq Halves
    BY <1>2, PeriodsAre
  <2> HIDE DEF halves
  <2> QED BY <1>2, <2>1, <2>2, CalendarIs, FS_Subset
<1>5. DOMAIN c = days /\ DOMAIN a = days /\ DOMAIN b = halves
    OBVIOUS
<1>6. \A d \in days : /\ c[d] = History!CoverageOf(work.read, d) /\ a[d] = History!AggregateOf(work.read, d)
                      /\ \A p \in History!Periods(d) : p \in halves
    OBVIOUS
<1>7. \A p \in halves : b[p] = History!Rolling(work.read, p)
    OBVIOUS
<1> HIDE DEF c, a, b, halves
<1>8. TableRight(coverage') /\ \A d \in days : History!Now(coverage', d) = c[d]
    BY <1>1, <1>2, <1>4, <1>5, AppendedIs
<1>9. TableRight(aggregates') /\ \A d \in days : History!Now(aggregates', d) = a[d]
    BY <1>1, <1>2, <1>4, <1>5, AppendedIs
<1>10. TableRight(baselines') /\ \A p \in halves : History!Now(baselines', p) = b[p]
    BY <1>1, <1>2, <1>4, <1>5, AppendedIs
<1>11. /\ work'.from = work.from /\ work'.upto = work.upto /\ work'.all = work.all
       /\ work'.read = work.read /\ work'.stored = TRUE
       /\ work' = [from |-> work'.from, upto |-> work'.upto, read |-> work'.read,
                   all |-> work'.all, stored |-> work'.stored]
    BY <1>1, <1>2 DEF WorkRight
<1>12. LastDay' = LastDay /\ Halves' = Halves
    BY <1>1 DEF LastDay, Halves
<1>13. WorkRight(work)'
    BY <1>1, <1>2, <1>11, <1>12 DEF WorkRight
<1>14. StoredRight(work)'
  <2> SUFFICES ASSUME NEW d \in days
               PROVE  /\ History!Now(coverage', d) = History!CoverageOf(work.read, d)'
                      /\ History!Now(aggregates', d) = History!AggregateOf(work.read, d)'
                      /\ \A p \in History!Periods(d)' : History!Now(baselines', p) = History!Rolling(work.read, p)'
    BY <1>11 DEF StoredRight, History!Now
  <2> QED BY <1>1, <1>6, <1>7, <1>8, <1>9, <1>10, <1>11, CalendarStays
<1>15. moment' \in (1..LastDay)' /\ Sampled(evidence)'
    BY <1>1, <1>12 DEF HistoryInv
<1> QED BY <1>1, <1>2, <1>8, <1>9, <1>10, <1>13, <1>14, <1>15 DEF HistoryInv, TableRight

\* Every step of the materialization and of the evidence keeps the invariant.
LEMMA HistoryNext == HistoryInv /\ [History!Next]_History!vars => HistoryInv'
<1> SUFFICES ASSUME HistoryInv, [History!Next]_History!vars PROVE HistoryInv'
    OBVIOUS
<1>1. CASE History!Tick
    BY <1>1, TickStep
<1>2. CASE History!Arrive
    BY <1>2, ArriveStep
<1>3. CASE History!Load
    BY <1>3, LoadStep
<1>4. CASE History!Persist
    BY <1>4, PersistStep
<1>5. CASE History!Abandon
  <2>1. work' = History!Idle
        /\ UNCHANGED <<calendar, moment, evidence, coverage, aggregates, baselines>>
    BY <1>5 DEF History!Abandon, History!tables
  <2>2. WorkRight(work)' /\ StoredRight(work)' /\ LastDay' = LastDay
    BY <2>1 DEF WorkRight, StoredRight, LastDay, History!Idle
  <2> QED BY <2>1, <2>2 DEF HistoryInv, TableRight
<1>6. CASE UNCHANGED History!vars
  <2>1. UNCHANGED <<calendar, moment, evidence, work, coverage, aggregates, baselines>>
    BY <1>6 DEF History!vars
  <2>2. moment' \in 1..LastDay /\ Sampled(evidence')
    BY <2>1 DEF HistoryInv
  <2> QED BY <2>1, <2>2, WorkStays
<1> QED BY <1>1, <1>2, <1>3, <1>4, <1>5, <1>6 DEF History!Next

\* The window of a current reading reaches every half-hour that it is compared with.
LEMMA ContextReaches ==
  ASSUME calendar \in Years, NEW S, NEW p \in Halves
  PROVE  LET W == History!In(S, p - (DaysBefore + 1) * PerDay, p + 1)
         IN  /\ Agree(W, S, p) /\ Agree(W, S, p - 1)
             /\ \A b \in 1..DaysBefore : \A q \in History!SameLocal(p, b) : Agree(W, S, q)
<1> DEFINE reach == (DaysBefore + 1) * PerDay
           W == History!In(S, p - reach, p + 1)
<1>1. reach \in Int /\ reach >= 1
  <2>1. DaysBefore \in Nat /\ PerDay \in Nat /\ PerDay >= 1
    BY HistoryConstants
  <2> QED BY <2>1
<1>2. p \in Int /\ \A q \in Halves : q \in Int
    BY CalendarIs
<1> HIDE DEF reach
<1>3. ASSUME NEW q \in Int, q <= p, p - q <= reach PROVE Agree(W, S, q)
  <2>1. p - reach <= q /\ q < p + 1
    BY <1>1, <1>2, <1>3
  <2> QED BY <2>1 DEF Agree, History!In
<1> HIDE DEF W
<1>4. Agree(W, S, p) /\ Agree(W, S, p - 1)
    BY <1>1, <1>2, <1>3
<1>5. ASSUME NEW b \in 1..DaysBefore, NEW q \in History!SameLocal(p, b) PROVE Agree(W, S, q)
  <2>1. q \in Halves /\ q < p /\ p - q <= reach
    BY SameLocalIs DEF reach
  <2> QED BY <1>2, <1>3, <2>1
<1> QED BY <1>4, <1>5 DEF W, reach

\* What a run stores of its days is what all of the evidence says.
LEMMA StoredExact ==
  ASSUME HistoryInv, work.stored, NEW d \in work.from..(work.upto - 1)
  PROVE  /\ History!DayKept(work.all, d)
         /\ \A p \in History!Periods(d) :
              /\ History!BaselineKept(work.all, p)
              /\ work.all = evidence => History!Context(p).rolling = History!Now(baselines, p)
<1>1. calendar \in Years /\ WorkRight(work) /\ StoredRight(work)
    BY DEF HistoryInv
<1>2. work # History!Idle
    BY DEF History!Idle
<1>3. /\ work.from \in Int /\ work.upto \in Int /\ Sampled(work.all) /\ DaysBefore \in Nat
      /\ \A p \in Halves : work.from - DaysBefore <= calendar[p].day /\ calendar[p].day < work.upto =>
           Agree(work.read, work.all, p)
    BY <1>1, <1>2, HistoryConstants DEF WorkRight
<1>4. d \in Int /\ work.from <= d /\ d < work.upto
    BY <1>3
<1>5. \A p \in Halves : calendar[p].day \in Int
    BY <1>1, CalendarIs
<1>6. \A p \in History!Periods(d) : p \in Halves /\ calendar[p].day = d
    BY <1>1, PeriodsAre
<1>7. \A p \in History!Periods(d) : Agree(work.read, work.all, p)
  <2> SUFFICES ASSUME NEW p \in History!Periods(d) PROVE Agree(work.read, work.all, p)
    OBVIOUS
  <2>1. work.from - DaysBefore <= calendar[p].day /\ calendar[p].day < work.upto
    BY <1>3, <1>4, <1>6
  <2> QED BY <1>3, <1>6, <2>1
<1>8. /\ History!Now(coverage, d) = History!CoverageOf(work.read, d)
      /\ History!Now(aggregates, d) = History!AggregateOf(work.read, d)
      /\ \A p \in History!Periods(d) : History!Now(baselines, p) = History!Rolling(work.read, p)
    BY <1>1, <1>2 DEF StoredRight
<1>9. History!DayKept(work.all, d)
  <2>1. DayRight(work.all, d, History!Now(coverage, d), History!Now(aggregates, d))
    BY <1>1, <1>3, <1>7, <1>8, DayIs
  <2>2. \A T : History!Cardinality(T) = Cardinality(T)
    BY HistoryLibrary
  <2> QED BY <2>1, <2>2 DEF DayRight, History!DayKept
<1>10. ASSUME NEW p \in History!Periods(d)
       PROVE  /\ History!BaselineKept(work.all, p)
              /\ work.all = evidence => History!Context(p).rolling = History!Now(baselines, p)
  <2>1. p \in Halves /\ Agree(work.read, work.all, p)
    BY <1>6, <1>7
  <2>2. ASSUME NEW b \in 1..DaysBefore, NEW q \in History!SameLocal(p, b)
        PROVE  Agree(work.read, work.all, q)
    <3>1. q \in Halves /\ calendar[q].day = d - b
      BY <1>1, <1>6, <2>1, SameLocalIs
    <3>2. work.from - DaysBefore <= calendar[q].day /\ calendar[q].day < work.upto
      BY <1>3, <1>4, <3>1
    <3> QED BY <1>3, <3>1, <3>2
  <2>3. History!Now(baselines, p) = History!Rolling(work.all, p)
    BY <1>1, <1>3, <1>8, <2>1, <2>2, RollingLocal
  <2>4. Compared(work.all, p, History!Now(baselines, p))
    BY <1>1, <1>3, <2>1, <2>3, RollingIs
  <2>5. History!BaselineKept(work.all, p)
    <3>1. \A T : History!Cardinality(T) = Cardinality(T)
      BY HistoryLibrary
    <3> QED BY <2>4, <3>1 DEF Compared, History!BaselineKept
  <2>6. ASSUME work.all = evidence PROVE History!Context(p).rolling = History!Now(baselines, p)
    <3> DEFINE W == History!In(evidence, p - (DaysBefore + 1) * PerDay, p + 1)
    <3>1. /\ Agree(W, evidence, p)
          /\ \A b \in 1..DaysBefore : \A q \in History!SameLocal(p, b) : Agree(W, evidence, q)
      BY <1>1, <2>1, ContextReaches
    <3>2. History!Context(p).rolling = History!Rolling(W, p)
      BY DEF History!Context, History!Comparison
    <3> HIDE DEF W
    <3>3. History!Rolling(W, p) = History!Rolling(evidence, p)
      BY <1>1, <1>3, <2>1, <2>6, <3>1, RollingLocal
    <3> QED BY <2>3, <2>6, <3>2, <3>3
  <2> QED BY <2>5, <2>6
<1> QED BY <1>9, <1>10

\* A reading is compared with complete half-hours at its time of day, by their newest samples.
LEMMA ContextExact ==
  ASSUME HistoryInv, NEW p \in History!Periods(moment)
  PROVE  LET c == History!Context(p)
         IN  /\ \A x \in c.yesterday \cup c.week :
                  /\ History!Complete(evidence, x.from)
                  /\ x.ids = History!Latest(evidence, {x.from})
                  /\ History!SameTime(x.from, p)
             /\ History!Complete(evidence, p) =>
                  /\ c.previous # {} <=> History!Complete(evidence, p - 1)
                  /\ c.yesterday # {} <=>
                       \E q \in History!Usual(evidence, p) : History!DayOf(q) = moment - 1
                  /\ c.rolling.ids # {} =>
                       c.rolling.ids = History!Latest(evidence, History!Usual(evidence, p) \cup {p})
<1> DEFINE W == History!In(evidence, p - (DaysBefore + 1) * PerDay, p + 1)
           c == History!Context(p)
<1>1. calendar \in Years /\ Sampled(evidence) /\ moment \in Int
    BY DEF HistoryInv
<1>2. p \in Halves /\ calendar[p].day = moment
    BY <1>1, PeriodsAre
<1>3. /\ Agree(W, evidence, p) /\ Agree(W, evidence, p - 1)
      /\ \A b \in 1..DaysBefore : \A q \in History!SameLocal(p, b) : Agree(W, evidence, q)
    BY <1>1, <1>2, ContextReaches
<1>4. c = History!Comparison(W, p)
    BY DEF History!Context
<1> HIDE DEF W
<1>5. /\ c.previous = History!Point(W, p, {p - 1})
      /\ c.yesterday = History!Point(W, p, History!SameLocal(p, 1))
      /\ c.week = History!Point(W, p, History!SameLocal(p, Week))
      /\ c.rolling = History!Rolling(W, p)
    BY <1>4 DEF History!Comparison
<1> HIDE DEF c
<1>6. ASSUME NEW q, Agree(W, evidence, q)
      PROVE  /\ History!Available(W, q) <=> History!Complete(evidence, q)
             /\ History!Complete(evidence, q) => History!Selected(W, q) = History!Latest(evidence, {q})
  <2>1. /\ History!Selected(W, q) = History!Selected(evidence, q)
        /\ History!Available(W, q) = History!Available(evidence, q)
    BY <1>6, SelectedLocal
  <2>2. /\ History!Available(evidence, q) <=> History!Complete(evidence, q)
        /\ History!Complete(evidence, q) => History!Selected(evidence, q) = History!Latest(evidence, {q})
    BY <1>1, AvailableIs
  <2> QED BY <2>1, <2>2
<1>7. ASSUME NEW T
      PROVE  /\ \A x \in History!Point(W, p, T) :
                  /\ x.from \in T /\ History!Available(W, x.from) /\ x.ids = History!Selected(W, x.from)
             /\ History!Point(W, p, T) # {} <=>
                  \E q \in T : History!Available(W, p) /\ History!Available(W, q)
  <2> DEFINE row(q) == [from |-> q, ids |-> History!Selected(W, q),
                        change |-> History!Total(History!Selected(W, p))
                                     - History!Total(History!Selected(W, q))]
             A == {t \in T : History!Available(W, p) /\ History!Available(W, t)}
  <2>1. History!Point(W, p, T) = {row(q) : q \in A}
    BY DEF History!Point
  <2>2. \A q : row(q).from = q /\ row(q).ids = History!Selected(W, q)
    OBVIOUS
  <2>3. \A q : q \in A <=> q \in T /\ History!Available(W, p) /\ History!Available(W, q)
    OBVIOUS
  <2> HIDE DEF row, A
  <2>4. \A x : x \in History!Point(W, p, T) <=> \E q \in A : x = row(q)
    BY <2>1
  <2>5. \A x \in History!Point(W, p, T) :
          /\ x.from \in T /\ History!Available(W, x.from) /\ x.ids = History!Selected(W, x.from)
    BY <2>2, <2>3, <2>4
  <2>6. History!Point(W, p, T) # {} <=> \E q : q \in A
    BY <2>4
  <2> QED BY <2>3, <2>5, <2>6
<1>8. 1 \in 1..DaysBefore /\ Week \in 1..DaysBefore
    BY HistoryConstants
<1>9. ASSUME NEW b \in 1..DaysBefore, NEW x \in History!Point(W, p, History!SameLocal(p, b))
      PROVE  /\ History!Complete(evidence, x.from)
             /\ x.ids = History!Latest(evidence, {x.from})
             /\ History!SameTime(x.from, p)
  <2>1. /\ x.from \in History!SameLocal(p, b) /\ History!Available(W, x.from)
        /\ x.ids = History!Selected(W, x.from)
    BY <1>7
  <2>2. calendar[x.from].time = calendar[p].time
    BY <1>1, <1>2, <2>1, SameLocalIs
  <2> QED BY <1>3, <1>6, <2>1, <2>2 DEF History!SameTime
<1>10. History!Complete(evidence, p) => (c.previous # {} <=> History!Complete(evidence, p - 1))
    BY <1>3, <1>5, <1>6, <1>7
<1>11. History!Complete(evidence, p) =>
         (c.yesterday # {} <=> \E q \in History!Usual(evidence, p) : History!DayOf(q) = moment - 1)
  <2> SUFFICES ASSUME History!Complete(evidence, p)
               PROVE  c.yesterday # {} <=>
                        \E q \in History!Usual(evidence, p) : History!DayOf(q) = moment - 1
    OBVIOUS
  <2>1. c.yesterday # {} <=> \E q \in History!SameLocal(p, 1) : History!Complete(evidence, q)
    <3>1. History!Available(W, p)
      BY <1>3, <1>6
    <3>2. \A q \in History!SameLocal(p, 1) :
            History!Available(W, q) <=> History!Complete(evidence, q)
      BY <1>3, <1>6, <1>8
    <3>3. c.yesterday # {} <=>
            \E q \in History!SameLocal(p, 1) : History!Available(W, p) /\ History!Available(W, q)
      BY <1>5, <1>7
    <3> QED BY <3>1, <3>2, <3>3
  <2>2. \A q : q \in History!Usual(evidence, p) <=>
          \E b \in 1..DaysBefore : q \in History!SameLocal(p, b) /\ History!Available(evidence, q)
    BY <1>1, <1>2, UsedAre, UsedIsUsual
  <2>3. \A q : History!Available(evidence, q) <=> History!Complete(evidence, q)
    BY <1>1, AvailableIs
  <2>4. \A b \in 1..DaysBefore : \A q \in History!SameLocal(p, b) : calendar[q].day = moment - b
    BY <1>1, <1>2, SameLocalIs
  <2>5. \A b \in 1..DaysBefore : moment - b = moment - 1 => b = 1
    BY <1>1
  <2> QED BY <1>8, <2>1, <2>2, <2>3, <2>4, <2>5 DEF History!DayOf
<1>12. c.rolling.ids # {} =>
         c.rolling.ids = History!Latest(evidence, History!Usual(evidence, p) \cup {p})
  <2>1. History!Rolling(W, p) = History!Rolling(evidence, p)
    BY <1>1, <1>2, <1>3, RollingLocal
  <2>2. Compared(evidence, p, History!Rolling(evidence, p))
    BY <1>1, <1>2, RollingIs
  <2> QED BY <1>5, <2>1, <2>2 DEF Compared
<1>13. \A x \in c.yesterday \cup c.week :
         /\ History!Complete(evidence, x.from)
         /\ x.ids = History!Latest(evidence, {x.from})
         /\ History!SameTime(x.from, p)
    BY <1>5, <1>8, <1>9
<1> QED BY <1>10, <1>11, <1>12, <1>13 DEF c

\* The invariant says that what is stored and what the API compares is exact.
LEMMA HistoryEnd == HistoryInv => History!HistoryExact
<1> SUFFICES ASSUME HistoryInv PROVE History!HistoryExact
    OBVIOUS
<1>1. /\ History!RevisedOnlyIfChanged(coverage) /\ History!RevisedOnlyIfChanged(aggregates)
      /\ History!RevisedOnlyIfChanged(baselines)
    BY DEF HistoryInv, TableRight
<1>2. work.stored =>
        \A d \in work.from..(work.upto - 1) :
          /\ History!DayKept(work.all, d)
          /\ \A p \in History!Periods(d) :
               /\ History!BaselineKept(work.all, p)
               /\ work.all = evidence => History!Context(p).rolling = History!Now(baselines, p)
    BY StoredExact
<1> QED BY <1>1, <1>2, ContextExact DEF History!HistoryExact

-----------------------------------------------------------------------------

\* The invariant while the reads are of the history.
HistoryHolds == reads = "history" => HistoryInv

\* The part that a behaviour follows keeps its invariant.
LEMMA HistoryKept == ReadsSpec => []HistoryHolds
<1>1. ReadsInit => HistoryHolds
    BY HistoryStart DEF ReadsInit, HistoryHolds
<1>2. HistoryHolds /\ [ReadsNext]_readVars => HistoryHolds'
  <2> SUFFICES ASSUME HistoryHolds, [ReadsNext]_readVars PROVE HistoryHolds'
      OBVIOUS
  <2>1. CASE reads = "history" /\ [History!Next]_History!vars /\ reads' = reads
    BY <2>1, HistoryNext DEF HistoryHolds
  <2>2. CASE reads # "history" /\ reads' = reads
    BY <2>2 DEF HistoryHolds
  <2>3. CASE ReadsNext
    <3>1. reads' = reads /\ (reads = "history" => History!Next)
      BY <2>3 DEF ReadsNext
    <3> QED BY <2>1, <2>2, <3>1
  <2>4. CASE UNCHANGED readVars
    <3>1. UNCHANGED History!vars /\ reads' = reads
      BY <2>4 DEF readVars, historyVars, History!vars, History!tables
    <3> QED BY <2>1, <2>2, <3>1
  <2> QED BY <2>3, <2>4
<1> QED BY <1>1, <1>2, PTL DEF ReadsSpec

\* What is stored of a day says what its evidence says (app/history/materialize.py:202-394,
\* service.py:26-384, materialization_job.py:485-640): whatever the chunks of a run and
\* whenever late samples arrive, the coverage, the mean and the baselines of its days are
\* those of all the evidence there was, newest revision by newest revision; a row is appended
\* only when it differs from the one before; and the API's comparisons are with complete
\* half-hours at the same local time, and agree with the stored baseline when nothing is newer.
THEOREM HistoryIsExact == ReadsSpec => []HistoryExact
<1>1. HistoryHolds => HistoryExact
    BY HistoryEnd DEF HistoryHolds, HistoryExact
<1> QED BY <1>1, HistoryKept, PTL

\* The rows that a run appends hold what it computed, and their numbers are new.
LEMMA AppendedNew ==
  ASSUME NEW T, TableRight(T), NEW content, IsFiniteSet(DOMAIN content)
  PROVE  LET U == History!Appended(T, content)
         IN  /\ \A r \in U \ T : r.key \in DOMAIN content /\ r.content = content[r.key]
             /\ History!Numbered(T, U)
<1> DEFINE U == History!Appended(T, content)
<1>1. \A q, r \in U : q.key = r.key /\ q.rev = r.rev => q = r
    BY AppendedIs DEF TableRight
<1>2. T \subseteq U /\ \A r \in U \ T : r.key \in DOMAIN content /\ r.content = content[r.key]
  <2> DEFINE next(k) == History!Max({r.rev : r \in {q \in T : q.key = k}} \cup {-1}) + 1
             row(k) == [key |-> k, rev |-> next(k), content |-> content[k]]
             same(k) == \E r \in {q \in T : q.key = k} : r.rev = next(k) - 1 /\ r.content = content[k]
             D == {k \in DOMAIN content : ~same(k)}
  <2>1. U = T \cup {row(k) : k \in D}
    BY DEF History!Appended
  <2>2. /\ \A k : row(k).key = k /\ row(k).content = content[k]
        /\ \A k \in D : k \in DOMAIN content
    OBVIOUS
  <2> HIDE DEF row, D, U
  <2> QED BY <2>1, <2>2
<1> HIDE DEF U
<1>3. History!Numbered(T, U)
    BY <1>1, <1>2 DEF History!Numbered
<1> QED BY <1>2, <1>3 DEF U

\* No constraint of the three tables refuses what a run has computed (app/db/models.py).
PersistAccepted ==
  work # History!Idle /\ ~work.stored =>
    LET days == work.from..(work.upto - 1)
        halves == UNION {History!Periods(d) : d \in days}
        C == History!Appended(coverage, [d \in days |-> History!CoverageOf(work.read, d)])
        A == History!Appended(aggregates, [d \in days |-> History!AggregateOf(work.read, d)])
        B == History!Appended(baselines, [p \in halves |-> History!Rolling(work.read, p)])
    IN  /\ \A r \in C \ coverage : History!CoverageStored(r.content)
        /\ \A r \in A \ aggregates : History!AggregateStored(r.content)
        /\ \A r \in B \ baselines : History!BaselineStored(r.content)
        /\ History!Numbered(coverage, C) /\ History!Numbered(aggregates, A)
        /\ History!Numbered(baselines, B)

\* The rows of a day that a run computes satisfy the constraints.
LEMMA DayAccepted ==
  ASSUME HistoryInv, work # History!Idle, NEW d \in work.from..(work.upto - 1)
  PROVE  /\ History!CoverageStored(History!CoverageOf(work.read, d))
         /\ History!AggregateStored(History!AggregateOf(work.read, d))
         /\ \A p \in History!Periods(d) : History!BaselineStored(History!Rolling(work.read, p))
<1>1. calendar \in Years /\ WorkRight(work)
    BY DEF HistoryInv
<1>2. /\ work.from \in Int /\ work.upto \in Int /\ DaysBefore < work.from /\ work.upto <= LastDay
      /\ Sampled(work.all) /\ DaysBefore \in Nat
      /\ \A p \in Halves : work.from - DaysBefore <= calendar[p].day /\ calendar[p].day < work.upto =>
           Agree(work.read, work.all, p)
    BY <1>1, HistoryConstants DEF WorkRight
<1>3. d \in Int /\ work.from <= d /\ d < work.upto
    BY <1>2
<1>4. \A p \in Halves : calendar[p].day \in Int
    BY <1>1, CalendarIs
<1>5. \A p \in History!Periods(d) : p \in Halves /\ calendar[p].day = d
    BY <1>1, PeriodsAre
<1>6. \A p \in History!Periods(d) : Agree(work.read, work.all, p)
  <2> SUFFICES ASSUME NEW p \in History!Periods(d) PROVE Agree(work.read, work.all, p)
    OBVIOUS
  <2>1. work.from - DaysBefore <= calendar[p].day /\ calendar[p].day < work.upto
    BY <1>2, <1>3, <1>5
  <2> QED BY <1>2, <1>5, <2>1
<1> DEFINE P == {p \in History!Periods(d) : History!Complete(work.all, p)}
           c == History!CoverageOf(work.read, d)
           a == History!AggregateOf(work.read, d)
<1>7. DayRight(work.all, d, c, a)
    BY <1>1, <1>2, <1>6, DayIs
<1>8. c.expected = History!Expected(d) /\ a.coverage = c
    BY DEF History!CoverageOf, History!AggregateOf
<1>9. /\ c.observed = Cardinality(P)
      /\ a.mean # <<>> => a.mean = <<History!Total(History!Latest(work.all, P)), Cardinality(P)>>
    BY <1>7 DEF DayRight
<1>10. History!Expected(d) \in Nat /\ History!Expected(d) > 0 /\ Cardinality(P) \in 0..History!Expected(d)
  <2>1. IsFiniteSet(History!Periods(d)) /\ History!Expected(d) = Cardinality(History!Periods(d))
    BY <1>1, PeriodsAre
  <2>2. History!Periods(d) # {}
    <3>1. d \in 1..LastDay
      <4>1. LastDay \in Nat
        BY <1>1, CalendarIs
      <4> QED BY <1>2, <1>3, <4>1
    <3>2. \E p \in Halves : calendar[p].day = d
      BY <1>1, <3>1, CalendarIs
    <3> QED BY <1>1, <3>2, PeriodsAre
  <2>3. Cardinality(History!Periods(d)) \in Nat /\ Cardinality(History!Periods(d)) # 0
    BY <2>1, <2>2, FS_EmptySet, FS_CardinalityType
  <2>4. P \subseteq History!Periods(d)
    OBVIOUS
  <2> HIDE DEF P
  <2>5. /\ Cardinality(P) \in Nat
        /\ Cardinality(P) <= Cardinality(History!Periods(d))
    BY <2>1, <2>4, FS_Subset, FS_CardinalityType
  <2> QED BY <2>1, <2>3, <2>5
<1> HIDE DEF P, c, a
<1>11. History!CoverageStored(c)
    BY <1>8, <1>9, <1>10 DEF History!CoverageStored
<1>12. History!AggregateStored(a)
  <2>1. a.mean # <<>> => a.mean[2] = Cardinality(P)
    BY <1>9
  <2> QED BY <1>8, <1>10, <2>1 DEF History!AggregateStored
<1>13. ASSUME NEW p \in History!Periods(d) PROVE History!BaselineStored(History!Rolling(work.read, p))
  <2>1. p \in Halves /\ Agree(work.read, work.all, p)
    BY <1>5, <1>6
  <2>2. ASSUME NEW b \in 1..DaysBefore, NEW q \in History!SameLocal(p, b)
        PROVE  Agree(work.read, work.all, q)
    <3>1. q \in Halves /\ calendar[q].day = d - b
      BY <1>1, <1>5, <2>1, SameLocalIs
    <3>2. work.from - DaysBefore <= calendar[q].day /\ calendar[q].day < work.upto
      BY <1>2, <1>3, <3>1
    <3> QED BY <1>2, <3>1, <3>2
  <2>3. History!Rolling(work.read, p) = History!Rolling(work.all, p)
    BY <1>1, <1>2, <2>1, <2>2, RollingLocal
  <2>4. Compared(work.all, p, History!Rolling(work.read, p))
    BY <1>1, <1>2, <2>1, <2>3, RollingIs
  <2> QED BY <2>4 DEF Compared, History!BaselineStored
<1> QED BY <1>11, <1>12, <1>13 DEF c, a

\* The invariant has the constraints satisfied.
LEMMA AcceptedEnd == HistoryInv => PersistAccepted
<1> SUFFICES ASSUME HistoryInv, work # History!Idle, ~work.stored PROVE PersistAccepted
    BY DEF PersistAccepted
<1> DEFINE days == work.from..(work.upto - 1)
           halves == UNION {History!Periods(d) : d \in days}
           c == [d \in days |-> History!CoverageOf(work.read, d)]
           a == [d \in days |-> History!AggregateOf(work.read, d)]
           b == [p \in halves |-> History!Rolling(work.read, p)]
           C == History!Appended(coverage, c)
           A == History!Appended(aggregates, a)
           B == History!Appended(baselines, b)
<1>1. /\ calendar \in Years /\ TableRight(coverage) /\ TableRight(aggregates) /\ TableRight(baselines)
      /\ work.from \in Int /\ work.upto \in Int
    BY DEF HistoryInv, WorkRight
<1>2. IsFiniteSet(days) /\ IsFiniteSet(halves)
  <2>1. IsFiniteSet(days)
    BY <1>1, FS_Interval
  <2>2. halves \subseteq Halves
    BY <1>1, PeriodsAre
  <2> HIDE DEF halves
  <2> QED BY <1>1, <2>1, <2>2, CalendarIs, FS_Subset
<1>3. /\ DOMAIN c = days /\ DOMAIN a = days /\ DOMAIN b = halves
      /\ \A d \in days : c[d] = History!CoverageOf(work.read, d) /\ a[d] = History!AggregateOf(work.read, d)
      /\ \A p \in halves : b[p] = History!Rolling(work.read, p)
    OBVIOUS
<1>4. \A p \in halves : \E d \in days : p \in History!Periods(d)
    OBVIOUS
<1>5. PersistAccepted <=>
        /\ \A r \in C \ coverage : History!CoverageStored(r.content)
        /\ \A r \in A \ aggregates : History!AggregateStored(r.content)
        /\ \A r \in B \ baselines : History!BaselineStored(r.content)
        /\ History!Numbered(coverage, C) /\ History!Numbered(aggregates, A)
        /\ History!Numbered(baselines, B)
    BY DEF PersistAccepted
<1>6. \A d \in days : /\ History!CoverageStored(History!CoverageOf(work.read, d))
                      /\ History!AggregateStored(History!AggregateOf(work.read, d))
                      /\ \A p \in History!Periods(d) : History!BaselineStored(History!Rolling(work.read, p))
    BY DayAccepted
<1> HIDE DEF c, a, b, halves, days
<1>7. /\ \A r \in C \ coverage : r.key \in days /\ r.content = c[r.key]
      /\ History!Numbered(coverage, C)
    BY <1>1, <1>2, <1>3, AppendedNew
<1>8. /\ \A r \in A \ aggregates : r.key \in days /\ r.content = a[r.key]
      /\ History!Numbered(aggregates, A)
    BY <1>1, <1>2, <1>3, AppendedNew
<1>9. /\ \A r \in B \ baselines : r.key \in halves /\ r.content = b[r.key]
      /\ History!Numbered(baselines, B)
    BY <1>1, <1>2, <1>3, AppendedNew
<1> HIDE DEF C, A, B
<1> QED BY <1>3, <1>4, <1>5, <1>6, <1>7, <1>8, <1>9

\* No run is refused by the database (app/db/models.py:953-1189): the coverage of a day is
\* no more than the day has, a mean is of half-hours that were counted, the quartiles are in
\* order, and no revision is numbered as one that is stored, whatever the evidence was.  So
\* the constraints that guard Persist keep no wrong row out: none is ever computed.
THEOREM RunsAreAccepted == ReadsSpec => [](reads = "history" => PersistAccepted)
<1>1. HistoryHolds => (reads = "history" => PersistAccepted)
    BY AcceptedEnd DEF HistoryHolds
<1> QED BY <1>1, HistoryKept, PTL
=============================================================================
