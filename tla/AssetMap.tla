------------------------------ MODULE AssetMap ------------------------------
(***************************************************************************)
(* The public map of energy sites (app/assets/service.py, linking.py and   *)
(* repository.py): a register of sites and a catalogue of balancing units, *)
(* delivered independently, are read together, linked by name and cached   *)
(* without a lock; the settled energy of a linked unit is read afterwards,  *)
(* for each request.                                                       *)
(***************************************************************************)
EXTENDS Integers, FiniteSets, FiniteSetsExt, Sequences, SequencesExt

CONSTANTS
    Readers,           \* requests that may run at once
    SiteSets, UnitSets,   \* contents of the two datasets
    Metered,           \* rows of units with settled energy
    Generic,           \* tokens that name no place
    TTL,               \* CATALOG_CACHE_SECONDS
    Intervals,         \* settlement periods; n ends at the instant n
    Wanted, Depth,     \* of each reader: the map or a site, and its settled_per_unit
    MaxTime, MaxRequests, MaxChanges, MaxRows

VARIABLES
    now,
    sites, units,      \* active assets of the two sources
    energy,            \* table b1610_settled_energy_revisions
    changes,           \* catalogues delivered
    cache, expires,    \* _cached_snapshot and _cache_expires_at
    asked,             \* requests begun
    reader             \* each request: where it is, what it has read, its answer

vars == <<now, sites, units, energy, changes, cache, expires, asked, reader>>

None == "none"
NoSnapshot == [read |-> -1]

\* What the configuration says: names are sequences of tokens, times are numbers.
MapAssumption ==
    /\ TTL \in Int /\ Intervals \subseteq Int
    /\ \A S \in SiteSets : \A s \in S : s.name \in Seq(STRING)
    /\ \A U \in UnitSets : \A u \in U : u.name \in Seq(STRING) /\ u.party \in Seq(STRING)

\* A site: its name and operator as sequences of tokens, capacity and fuel, its public id
\* (None when it has no proper one), whether it has coordinates in Great Britain, and
\* whether its row can be read back at all.  A unit: the row of the catalogue it is a
\* variant of, its national id, its name and that of its lead party, capacity and fuel.

-----------------------------------------------------------------------------
(* Links. *)

Telling(name) == ToSet(name) \ Generic

\* _strong_containment: a phrase of at least three tokens, some of them telling, that is
\* most of the other name.
Contained(m, n) ==
    LET short == IF Len(m) <= Len(n) THEN m ELSE n
        long == IF Len(m) <= Len(n) THEN n ELSE m
    IN  /\ Len(short) >= 3 /\ 10 * Len(short) >= 6 * Len(long)
        /\ Telling(short) # {}
        /\ \E i \in 0..(Len(long) - Len(short)) : SubSeq(long, i + 1, i + Len(short)) = short

\* _candidate: the capacity agrees, the fuel does not contradict, and a match weaker than
\* an equal name is corroborated by the fuel or by the operator.
Strong(s, u) ==
    /\ Telling(s.name) # {}
    /\ s.capacity = u.capacity
    /\ s.fuel = u.fuel \/ None \in {s.fuel, u.fuel}
    /\ \/ s.name = u.name
       \/ /\ s.name = u.party \/ Contained(s.name, u.name) \/ Contained(s.name, u.party)
          /\ (s.fuel = u.fuel /\ s.fuel # None) \/ (s.operator = u.party /\ u.party # <<>>)

\* The index of link_repd_sites: units that share a telling token with the site.
Possible(s, U) ==
    {u \in U : Telling(s.name) \cap (Telling(u.name) \cup Telling(u.party)) # {}}

\* link_repd_site: references with the same national id are one unit.
Linked(s, U) == {u.id : u \in {v \in Possible(s, U) : Strong(s, v)}}

\* link_repd_sites: one unit for the site, and one site for the unit.
Links(S, U) ==
    LET decided == {s \in S : Cardinality(Linked(s, U)) = 1}
    IN  [s \in {t \in decided : \A q \in decided \ {t} : Linked(q, U) # Linked(t, U)}
           |-> CHOOSE id \in Linked(s, U) : TRUE]

\* Rows that cannot be read back, and variants of a unit without a national id, are left
\* out before anything is linked.
Readable(S) == {s \in S : s.whole}
References(U) == {u \in U : u.id # None}

Snapshot(S, U) ==
    LET site == Readable(S)
        unit == References(U)
    IN  [read |-> now, out |-> now, sites |-> site, units |-> unit, links |-> Links(site, unit)]

\* A public id that two sites claim is not served.
Served(snap) ==
    {s \in snap.sites : /\ s.located /\ s.public # None
                        /\ \A q \in snap.sites \ {s} : q.public # s.public}

-----------------------------------------------------------------------------
(* Deliveries. *)

DeliverSites(S) ==
    /\ changes < MaxChanges /\ changes' = changes + 1 /\ sites' = S
    /\ UNCHANGED <<now, units, energy, cache, expires, asked, reader>>

DeliverUnits(U) ==
    /\ changes < MaxChanges /\ changes' = changes + 1 /\ units' = U
    /\ UNCHANGED <<now, sites, energy, cache, expires, asked, reader>>

\* A settlement run settles an interval that is over, or corrects it.
Settle(row, n) ==
    /\ n <= now /\ Cardinality(energy) < MaxRows
    /\ energy' = energy \cup {[unit |-> row, interval |-> n, ret |-> now,
                     rev |-> Cardinality({e \in energy : e.unit = row /\ e.interval = n})]}
    /\ UNCHANGED <<now, sites, units, changes, cache, expires, asked, reader>>

-----------------------------------------------------------------------------
(* Requests. *)

At(r, pc) == reader[r].pc = pc

\* Slip: every hit renews the snapshot.
RenewedByHit == cache # NoSnapshot /\ now < expires /\ expires' = now + TTL

Hit == cache # NoSnapshot /\ now < expires /\ expires' = expires

\* The moment of the evaluation is taken before anything is read.
Ask(r) ==
    /\ reader[r].pc \in {"idle", "done"} /\ asked < MaxRequests /\ asked' = asked + 1
    /\ \/ /\ Hit
          /\ reader' = [reader EXCEPT ![r] = [@ EXCEPT !.pc = "evidence", !.instant = now,
                                                !.snap = cache, !.answer = {}]]
       \/ /\ cache = NoSnapshot \/ now >= expires
          /\ reader' = [reader EXCEPT ![r] = [@ EXCEPT !.pc = "load", !.instant = now,
                                                !.answer = {}]]
          /\ UNCHANGED expires
    /\ UNCHANGED <<now, sites, units, energy, changes, cache>>

\* load_catalog: one statement reads both datasets.
LoadCatalog(r) ==
    /\ At(r, "load")
    /\ reader' = [reader EXCEPT ![r] = [@ EXCEPT !.pc = "publish",
                                                 !.snap = Snapshot(sites, units)]]
    /\ UNCHANGED <<now, sites, units, energy, changes, cache, expires, asked>>

\* The reader that ends last leaves its snapshot, whatever it read; `out` records when.
Publish(r) ==
    /\ At(r, "publish")
    /\ cache' = [reader[r].snap EXCEPT !.out = now] /\ expires' = now + TTL
    /\ reader' = [reader EXCEPT ![r].pc = "evidence"]
    /\ UNCHANGED <<now, sites, units, energy, changes, asked>>

\* _latest_settled_statement: the newest revision of an interval, the newest intervals of
\* a unit.
LatestSettled(row, depth) ==
    LET newest == {e \in energy : e.unit = row /\ \A f \in energy :
                      f.unit = row /\ f.interval = e.interval => f.rev <= e.rev}
    IN  {e \in newest : Cardinality({f \in newest : f.interval > e.interval}) < depth}

\* _evidence_by_asset and _present_map_item: nothing that was stored after the moment of
\* the evaluation.
Shown(s, r) ==
    LET snap == reader[r].snap
        t == reader[r].instant
        id == snap.links[s]
        first == Min({u.row : u \in {v \in snap.units : v.id = id}})
    IN  IF s \notin DOMAIN snap.links THEN [site |-> s, unit |-> None, energy |-> {}]
        ELSE [site |-> s, unit |-> id,
              energy |-> {e \in LatestSettled(first, Depth[r]) : e.interval <= t /\ e.ret <= t}]

\* map_assets answers for every site it serves, asset_detail for one.
Selected(r) == {s \in Served(reader[r].snap) : Wanted[r] \in {"map", s.public}}

LoadEvidence(r) ==
    /\ At(r, "evidence")
    /\ reader' = [reader EXCEPT ![r] = [@ EXCEPT !.pc = "done",
                     !.answer = {Shown(s, r) : s \in Selected(r)}]]
    /\ UNCHANGED <<now, sites, units, energy, changes, cache, expires, asked>>

Tick ==
    /\ now < MaxTime /\ now' = now + 1
    /\ UNCHANGED <<sites, units, energy, changes, cache, expires, asked, reader>>

Idle == [pc |-> "idle", instant |-> 0, snap |-> NoSnapshot, answer |-> {}]

Init ==
    /\ now = 0 /\ sites \in SiteSets /\ units \in UnitSets /\ energy = {}
    /\ changes = 0 /\ cache = NoSnapshot /\ expires = 0 /\ asked = 0 /\ reader = [r \in Readers |-> Idle]

Next ==
    \/ Tick
    \/ \E S \in SiteSets \ {sites} : DeliverSites(S)
    \/ \E U \in UnitSets \ {units} : DeliverUnits(U)
    \/ \E row \in Metered, n \in Intervals : Settle(row, n)
    \/ \E r \in Readers : Ask(r) \/ LoadCatalog(r) \/ Publish(r) \/ LoadEvidence(r)

Spec == Init /\ [][Next]_vars
-----------------------------------------------------------------------------
(* Properties *)

Answered == {r \in Readers : At(r, "done")}

\* A unit shown for a site is the only one of the catalogue that fits it, and fits no
\* other site alone: for any reading of the two datasets, also one that the index of
\* tokens narrows.
LinksUnique ==
    \A r \in Answered : \A x \in reader[r].answer :
       LET snap == reader[r].snap
           fits(s) == {u.id : u \in {v \in snap.units : Strong(s, v)}}
       IN  x.unit # None <=> /\ Cardinality(fits(x.site)) = 1
                             /\ \A s \in snap.sites \ {x.site} : fits(s) # fits(x.site)

\* A settled figure is never one that a stored revision had already replaced when the
\* request began, nor one the moment of the answer could not know.
EvidenceAsOf ==
    \A r \in Answered : \A x \in reader[r].answer : \A e \in x.energy :
       /\ e.interval <= reader[r].instant /\ e.ret <= reader[r].instant
       /\ \A f \in energy : f.unit = e.unit /\ f.interval = e.interval /\ f.rev > e.rev
                               => f.ret >= reader[r].instant

\* An answer is made from a catalogue read for it, or from one left in the cache less than
\* the life of a snapshot before, however often that is used and whoever replaces it.
CatalogueRecent ==
    \A r \in Answered :
       \/ reader[r].snap.read >= reader[r].instant
       \/ reader[r].instant < reader[r].snap.out + TTL

\* Links are unique, evidence is of the moment of its request, and no catalogue outlives
\* its cache (assets/service.py:255-345, assets/repository.py).
MapHonest == LinksUnique /\ EvidenceAsOf /\ CatalogueRecent
=============================================================================
