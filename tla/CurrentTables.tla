---------------------------- MODULE CurrentTables ----------------------------
(***************************************************************************)
(* The tables that hold only the present state (app/persistence/           *)
(* ingestion.py from line 1137, app/outages): the incidents of UK Power    *)
(* Networks, read page by page and shown by the outage endpoint, the BM    *)
(* units and REPD sites of the asset table, and the physical notifications *)
(* of the current settlement period.                                       *)
(*                                                                         *)
(* A behaviour is about one of them, `table`: no row and no source lock is *)
(* shared by two.  Deliveries of a source are one after another (Ingestion,*)
(* LockExclusive), and a transaction is one step.                          *)
(***************************************************************************)
EXTENDS Naturals, FiniteSets, Sequences, SequencesExt, FiniteSetsExt

CONSTANTS
    Tables,      \* the tables this instance is about
    Refs,        \* incident references, BM units, REPD sites: numbers, in their order
    Periods,     \* settlement periods
    PageSize, MaxRecords,   \* PAGE_SIZE and max_records of the UKPN adapter
    Limit,       \* the limit of a request to the outage endpoint
    MaxChanges,  \* bound: changes of what UK Power Networks serves
    MaxStores    \* bound: stored incident snapshots

CurrentAssumption ==
    /\ IsFiniteSet(Refs) /\ Refs \subseteq Nat
    /\ PageSize \in Nat /\ MaxRecords \in Nat

VARIABLES
    table,      \* member of Tables; never changes
    served,     \* [Refs -> status], what UK Power Networks serves; its row may be unusable
    fetch,      \* the snapshot being read, page by page
    incidents,  \* [Refs -> row of distribution_incident_current and newest revision]
    reader,     \* a request to /current between its four statements
    assets,     \* [Refs -> row of assets]
    segments,   \* rows of physical_notification_segments_current
    newest,     \* history: what the newest deliveries say
    changes, stores

vars == <<table, served, fetch, incidents, reader, assets, segments, newest, changes, stores>>

Absent == "absent"
Status == {"unplanned", "restored"}
Unusable == "unusable"      \* a row that cannot be read, or tells of other incidents only
Started == {"unplanned"}    \* shown unless restored incidents are asked for
NoFetch == [pc |-> "idle", rows |-> <<>>, total |-> 0, steady |-> TRUE]
NoRead == [pc |-> "idle", shown |-> {}, returned |-> 0, matching |-> 0, all |-> 0]
NoAsset == [class |-> "none", active |-> FALSE]

-----------------------------------------------------------------------------
(* The incidents: UKPNLiveFaultsAdapter.fetch, one page a step. *)

\* order_by = incidentreference.
Ordered(R) == CHOOSE q \in SetToSeqs(R) : \A i, j \in DOMAIN q : i < j => q[i] < q[j]

ServedRows ==
    LET q == Ordered({r \in Refs : served[r] # Absent})
    IN  [i \in DOMAIN q |-> [ref |-> q[i], status |-> served[q[i]]]]

Page(from) ==
    LET size == Min({PageSize, MaxRecords - from})
    IN  SubSeq(ServedRows, from + 1, Min({from + size, Len(ServedRows)}))

\* parse: a row that is malformed or an aggregate is left out, with a warning; of the
\* others of one reference the one observed last.
Usable(rows) == {i \in DOMAIN rows : rows[i].status # Unusable}
Parsed(rows) ==
    [r \in Refs |->
        LET I == {i \in Usable(rows) : rows[i].ref = r}
        IN  IF I = {} THEN Absent ELSE rows[Max(I)].status]

BeginFetch ==
    /\ fetch = NoFetch /\ stores < MaxStores
    /\ fetch' = [NoFetch EXCEPT !.pc = "page"]
    /\ UNCHANGED <<table, served, incidents, reader, assets, segments, newest, changes, stores>>

\* The loop over the pages ends at the declared total, at an empty page or at the
\* bound; a snapshot that is short of the total, and not cut by the bound, is refused,
\* and so is one with rows of which none is usable.
ReadPage ==
    /\ fetch.pc = "page"
    /\ LET rows == fetch.rows \o Page(Len(fetch.rows))
           total == Len(ServedRows)
           ends == \/ Page(Len(fetch.rows)) = <<>> \/ Len(rows) >= total
                   \/ Len(rows) >= MaxRecords
           short == total <= MaxRecords /\ Len(rows) < total
           unread == rows # <<>> /\ Usable(rows) = {}
       IN  fetch' = IF ~ends THEN [fetch EXCEPT !.rows = rows, !.total = total]
                    ELSE IF short \/ unread THEN NoFetch
                    ELSE [fetch EXCEPT !.pc = "store", !.rows = rows, !.total = total]
    /\ UNCHANGED <<table, served, incidents, reader, assets, segments, newest, changes, stores>>

\* An incident opens, is restored, leaves the published list, or has a row that the
\* adapter cannot use.
Serve ==
    /\ changes < MaxChanges
    /\ \E r \in Refs, s \in Status \cup {Absent, Unusable} :
          s # served[r] /\ served' = [served EXCEPT ![r] = s]
    /\ changes' = changes + 1
    /\ fetch' = IF fetch = NoFetch THEN fetch ELSE [fetch EXCEPT !.steady = FALSE]
    /\ UNCHANGED <<table, incidents, reader, assets, segments, newest, stores>>

FetchFails ==
    /\ fetch # NoFetch /\ fetch' = NoFetch
    /\ UNCHANGED <<table, served, incidents, reader, assets, segments, newest, changes, stores>>

\* Slip: the rows absent from the snapshot stay present.
RefreshedOnlyUpserts(S) ==
    [r \in Refs |-> IF S[r] # Absent THEN [present |-> TRUE, status |-> S[r]]
                    ELSE incidents[r]]

\* _refresh_distribution_incident_current, and the revision of each changed incident.
Refreshed(S) ==
    [r \in Refs |-> IF S[r] # Absent THEN [present |-> TRUE, status |-> S[r]]
                    ELSE [incidents[r] EXCEPT !.present = FALSE]]

StoreSnapshot ==
    /\ fetch.pc = "store"
    /\ incidents' = Refreshed(Parsed(fetch.rows))
    /\ newest' = [newest EXCEPT !.incidents =
          [r \in Refs |-> IF \/ ~fetch.steady \/ fetch.total > MaxRecords
                          THEN "unknown" ELSE served[r]]]
    /\ fetch' = NoFetch /\ stores' = stores + 1
    /\ UNCHANGED <<table, served, reader, assets, segments, changes>>

-----------------------------------------------------------------------------
(* A request to /current, without and with restored incidents: load_current. *)

Present(shown) == Cardinality({r \in Refs : incidents[r].present /\ incidents[r].status \in shown})

ReadIncidents ==
    /\ reader.pc = "idle"
    /\ \E shown \in {Started, Status} :
          reader' = [NoRead EXCEPT !.pc = "listed", !.shown = shown,
                                   !.returned = Min({Present(shown), Limit})]
    /\ UNCHANGED <<table, served, fetch, incidents, assets, segments, newest, changes, stores>>

CountMatching ==
    /\ reader.pc = "listed"
    /\ reader' = [reader EXCEPT !.pc = "matched", !.matching = Present(reader.shown)]
    /\ UNCHANGED <<table, served, fetch, incidents, assets, segments, newest, changes, stores>>

CountAll ==
    /\ reader.pc = "matched"
    /\ reader' = [reader EXCEPT !.pc = "answered", !.all = Present(Status)]
    /\ UNCHANGED <<table, served, fetch, incidents, assets, segments, newest, changes, stores>>

Answered ==
    /\ reader.pc = "answered" /\ reader' = NoRead
    /\ UNCHANGED <<table, served, fetch, incidents, assets, segments, newest, changes, stores>>

-----------------------------------------------------------------------------
(* Reference assets. *)

Kept(r) == assets[r].class # "none"

\* A snapshot retires what it does not list: of the BM units only those a reference
\* snapshot once listed, of the REPD sites all.
Retired(S, r) ==
    /\ Kept(r) /\ r \notin S
    /\ table = "bm_units" => assets[r].class = "reference"

\* _persist_asset_reference_snapshot, which does nothing for an empty one, and
\* _persist_repd_snapshot, which refuses it.
DeliverReference(S) ==
    /\ S # {}
    /\ assets' = [r \in Refs |->
          IF r \in S THEN [class |-> "reference", active |-> TRUE]
          ELSE IF Retired(S, r) THEN [assets[r] EXCEPT !.active = FALSE] ELSE assets[r]]
    /\ newest' = [newest EXCEPT !.listed = S, !.mentioned = {}]
    /\ UNCHANGED <<table, served, fetch, incidents, reader, segments, changes, stores>>

\* _ensure_bm_unit_assets: records that depend on units nobody has listed.
DeliverDependents(S) ==
    /\ table = "bm_units" /\ S # {}
    /\ assets' = [r \in Refs |->
          IF r \notin S THEN assets[r]
          ELSE IF Kept(r) THEN [assets[r] EXCEPT !.active = TRUE]
          ELSE [class |-> "placeholder", active |-> TRUE]]
    /\ newest' = [newest EXCEPT !.mentioned = @ \cup S]
    /\ UNCHANGED <<table, served, fetch, incidents, reader, segments, changes, stores>>

-----------------------------------------------------------------------------
(* Physical notifications. *)

Segment == [unit: Refs, period: Periods, level: {1, 2}]

\* _prune_physical_notification_scope: older periods of the declared units, and the
\* rows of this period that are gone.
Pruned(scope, p, rows) ==
    {s \in segments : s.unit \in scope /\ s.period # p}
      \cup ({s \in segments : s.unit \in scope /\ s.period = p} \ rows)

\* A delivery for all units or for those it names; a row outside the declared scope
\* refuses it.
DeliverNotifications(scope, p, rows) ==
    /\ scope # {}
    /\ \A s \in rows : s.unit \in scope /\ s.period = p
    /\ segments' = (segments \ Pruned(scope, p, rows)) \cup rows
    /\ newest' = [newest EXCEPT !.segments =
          [u \in Refs |-> IF u \in scope THEN {s \in rows : s.unit = u} ELSE @[u]]]
    /\ UNCHANGED <<table, served, fetch, incidents, reader, assets, changes, stores>>

-----------------------------------------------------------------------------
Init ==
    /\ table \in Tables
    /\ served = [r \in Refs |-> IF table = "incidents" THEN "unplanned" ELSE Absent]
    /\ fetch = NoFetch /\ reader = NoRead
    /\ incidents = [r \in Refs |-> [present |-> FALSE, status |-> Absent]]
    /\ assets = [r \in Refs |-> NoAsset]
    /\ segments = {}
    /\ newest = [incidents |-> [r \in Refs |-> "unknown"], listed |-> {}, mentioned |-> {},
                 segments |-> [u \in Refs |-> {}]]
    /\ changes = 0 /\ stores = 0

Next ==
    \/ table = "incidents" /\ (BeginFetch \/ ReadPage \/ Serve \/ FetchFails \/ StoreSnapshot)
    \/ table = "incidents" /\ (ReadIncidents \/ CountMatching \/ CountAll \/ Answered)
    \/ table \in {"bm_units", "repd"} /\ \E S \in SUBSET Refs : DeliverReference(S)
    \/ \E S \in SUBSET Refs : DeliverDependents(S)
    \/ /\ table = "notifications"
       /\ \E scope \in SUBSET Refs, p \in Periods, rows \in SUBSET Segment :
             DeliverNotifications(scope, p, rows)

Spec == Init /\ [][Next]_vars
-----------------------------------------------------------------------------
(* Properties *)

\* The incidents of the newest snapshot.  Present are those UK Power Networks served
\* with a usable row, under its status, as long as it changed nothing while the pages
\* were read (an incident that leaves the list meanwhile shifts the next page, and one
\* that is still served may be passed over) and the bound cut nothing off.  An incident
\* still served whose row cannot be used is marked absent: its row is skipped and the
\* others replace the membership.  But only an empty list empties the table, never one
\* whose rows are all unusable.
MembershipTold ==
    /\ \A r \in Refs : newest.incidents[r] # "unknown" =>
          /\ incidents[r].present = (newest.incidents[r] \in Status)
          /\ incidents[r].present => incidents[r].status = newest.incidents[r]
    /\ (\E r \in Refs : newest.incidents[r] = Unusable)
         => \E r \in Refs : incidents[r].present

\* The present tables say what the newest deliveries say.  Incidents: as above.  Assets:
\* active are the listed ones, those a dependent record named since, and the units no
\* snapshot has ever listed.  Notifications: each unit has the rows of the newest
\* delivery that covered it, of one settlement period.
CurrentIsNewest ==
    /\ MembershipTold
    /\ \A r \in Refs : Kept(r) =>
          assets[r].active = \/ r \in newest.listed \cup newest.mentioned
                             \/ assets[r].class = "placeholder"
    /\ \A u \in Refs : {s \in segments : s.unit = u} = newest.segments[u]

\* CurrentOutagesResponse.validate_counts: the total is not below what is returned.
CountsCohere ==
    reader.pc = "answered" => reader.returned <= reader.matching
=============================================================================
