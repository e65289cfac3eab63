--------------------------- MODULE SnapshotFeeds ---------------------------
(***************************************************************************)
(* The feeds whose answer stands for all there is: the balancing units     *)
(* and the notifications of one settlement period, the settled energy of   *)
(* whole days (app/assets/adapters.py, app/assets/elexon.py), and the      *)
(* register of sites, a file that a publication names                      *)
(* (app/geography/adapters.py, app/geography/repd.py).  What such an       *)
(* answer does not hold is retired or pruned, so an answer that was not    *)
(* understood whole must not be one.                                       *)
(***************************************************************************)
EXTENDS SourceClient, Sequences

CONSTANTS
    Snapshots,          \* the feeds
    Answers,            \* a function: the sets of rows that a feed may be served
    Files,              \* the files that the publication may list
    Length, LastPeriod, \* of settlement periods
    Days,               \* the days of settled energy that a fetch looks back to
    East, North,        \* the extent of the national grid
    MaxRecords, MaxSize, MaxPolls

\* A file has a name and a place in its listing.
SnapshotAssumption ==
    /\ ClientAssumption
    /\ Snapshots \subseteq {"units", "notifications", "settled", "sites"}
    /\ IsFiniteSet(Files) /\ \A f \in Files : f.url # 0 /\ f.rank \in Int
    /\ Days \in Seq(Int) /\ Days # <<>>

VARIABLES feed, source, listing, cached, scope, left, rows, outcome, table, polls

vars == <<call, feed, source, listing, cached, scope, left, rows, outcome, table, polls>>

Reads(v) == v \notin {None, Odd}
Named(name) == name \notin {"none", "blank"}

-----------------------------------------------------------------------------
(* Rows. *)

\* A place is whole or absent.
Unit(r) == Named(r.unit) /\ r.capacity # Odd /\ r.place \in {"both", "none"}
UnitKept(r) == r.capacity = None \/ r.capacity >= 0

\* A settlement period of a day, as an interval.
Begins(period) == (period - 1) * Length
Within(r) == Reads(r.period) /\ 1 <= r.period /\ r.period <= LastPeriod
InPeriod(r) ==
    r.start < r.end /\ Begins(r.period) <= r.start /\ r.end <= Begins(r.period) + Length
Segment(r) ==
    /\ Named(r.unit) /\ Within(r)
    /\ Reads(r.start) /\ Reads(r.end) /\ InPeriod(r)
    /\ Reads(r.level)

\* A reported end that is not the end of its period shows a drift of the source's clock.
Energy(r) ==
    /\ Named(r.unit) /\ Reads(r.day) /\ Within(r)
    /\ r.end = Begins(r.period) + Length
    /\ Reads(r.energy)

Whole(r) ==
    CASE feed = "units" -> Unit(r) [] feed = "notifications" -> Segment(r) [] OTHER -> Energy(r)

\* Copies of a segment collapse, segments that overlap contradict each other.
Conflict(R) ==
    \E p, q \in R : /\ p.unit = q.unit /\ p.period = q.period
                    /\ <<p.start, p.end, p.level>> # <<q.start, q.end, q.level>>
                    /\ p.start < q.end /\ q.start < p.end

\* The short status of a site is the canonical one, the full one only where there is none.
Standing == [operational |-> 3, building |-> 2, planned |-> 1]
Status(r) == IF r.short # "none" THEN r.short ELSE r.full
Usable(r) ==
    /\ Status(r) \in DOMAIN Standing
    /\ r.id \notin {"none", "unknown"} /\ r.name \notin {"none", "unknown"}

\* What cannot be read of a site is absent, not invented.
Capacity(r) == IF Reads(r.capacity) /\ r.capacity > 0 THEN r.capacity ELSE None
Located(r) == r.east \in East /\ r.north \in North
Site(r) ==
    [id |-> r.id, standing |-> Standing[Status(r)], located |-> Located(r),
     capacity |-> Capacity(r)]
Weight(known, weight) == IF known THEN weight ELSE 0
Preference(s) == s.standing * 4 + Weight(s.located, 2) + Weight(s.capacity # None, 1)

\* Of the rows that share an id the best counts, and the first of equals.
Register(R) ==
    LET usable == {r \in R : Usable(r)}
        Beats(q, r) == \/ Preference(Site(q)) > Preference(Site(r))
                       \/ Preference(Site(q)) = Preference(Site(r)) /\ q.line <= r.line
    IN  {Site(r) : r \in {s \in usable : \A q \in usable : q.id = s.id => Beats(s, q)}}

\* The first featured file that is an accessible CSV, if it is official and small enough.
Candidates(L) == {f \in L : f.csv}
Selected(L) == CHOOSE f \in Candidates(L) : \A g \in Candidates(L) : f.rank <= g.rank
Acceptable(L) == Candidates(L) # {} /\ Selected(L).official /\ Selected(L).size <= MaxSize

-----------------------------------------------------------------------------
(* A fetch. *)

NoFile == [url |-> 0, sites |-> {}]
Refuse == outcome' = "refused" /\ call' = Resting
Ready == outcome' = "ready" /\ call' = Resting

\* A slip: rows that cannot be read are left out of an answer, as they are of other feeds.
UnderstoodInPart(R) ==
    /\ Cardinality(R) <= MaxRecords
    /\ R = {} \/ \E r \in R : Whole(r)

\* A batch is refused for one row that cannot be read.
Understood(R) == Cardinality(R) <= MaxRecords /\ \A r \in R : Whole(r)

\* A catalogue is not empty, and no answer holds more than what was asked for.
InScope(R) ==
    CASE feed = "units" -> R # {}
      [] feed = "notifications" -> ~Conflict(R) /\ \A r \in R : r.period = scope
      [] OTHER -> \A r \in R : r.day = Head(left)

\* The answer about one day may hold a row of another one.
Asked(R) == IF feed = "settled" THEN {r \in R : r.day \in {Head(left), Odd, 0}} ELSE R

AnswerRows ==
    /\ Asking /\ feed # "sites"
    /\ LET R == Asked(source)
       IN  /\ rows' = rows \cup R
           /\ IF ~Understood(R) \/ ~InScope({r \in R : Whole(r)}) THEN Refuse /\ UNCHANGED left
              ELSE /\ left' = Tail(left)
                   /\ IF Len(left) > 1 THEN call' = Request("json") /\ UNCHANGED outcome
                      ELSE Ready
    /\ UNCHANGED <<feed, source, listing, cached, scope, table, polls>>

\* A file that is known is served from the memory of the process.
AnswerListing ==
    /\ Asking /\ feed = "sites" /\ call.form = "json"
    /\ IF ~Acceptable(listing) THEN Refuse /\ UNCHANGED scope
       ELSE /\ scope' = Selected(listing).url
            /\ IF cached.url = scope' THEN Ready ELSE call' = Request("bytes") /\ UNCHANGED outcome
    /\ UNCHANGED <<feed, source, listing, cached, left, rows, table, polls>>

\* The columns that a register needs are there, under one of their names.
Decoded(url) == \E f \in Files : f.url = url /\ f.columns
Published(url) == Register((CHOOSE f \in Files : f.url = url).rows)
AnswerFile ==
    /\ Asking /\ feed = "sites" /\ call.form = "bytes"
    /\ LET sites == Published(scope)
       IN  IF Decoded(scope) /\ sites # {} /\ Cardinality(sites) <= MaxRecords
           THEN cached' = [url |-> scope, sites |-> sites] /\ Ready
           ELSE Refuse /\ UNCHANGED cached
    /\ UNCHANGED <<feed, source, listing, scope, left, rows, table, polls>>

\* JSON of another shape.
AnswerOddly ==
    /\ Asking /\ call.form = "json"
    /\ Refuse
    /\ UNCHANGED <<feed, source, listing, cached, scope, left, rows, table, polls>>

-----------------------------------------------------------------------------
(* Its delivery: CurrentTables says how rows are retired and pruned. *)

RowKey(r) ==
    CASE feed = "units" -> <<r.unit>>
      [] feed = "notifications" -> <<r.unit, r.period, r.start, r.end>>
      [] feed = "settled" -> <<r.unit, r.day, r.period>>
      [] OTHER -> <<r.id>>

\* Of rows that agree on the conflict columns one is written.
Deduplicated(R) ==
    {D \in SUBSET R : \A r \in R : Cardinality({d \in D : RowKey(d) = RowKey(r)}) = 1}

\* What stays beside it: the notifications of other periods, the energy of other units.
Beside(D) ==
    CASE feed = "notifications" -> {r \in table : r.period # scope}
      [] feed = "settled" -> {r \in table : \A d \in D : RowKey(d) # RowKey(r)}
      [] OTHER -> {}

\* Only a whole register retires sites.
Contract(S) == S # {} /\ \A s, t \in S : s.id = t.id => s = t

Persist ==
    /\ outcome = "ready"
    /\ LET records == IF feed = "sites" THEN cached.sites ELSE {r \in rows : Whole(r)}
       IN  IF \/ feed = "units" /\ \E r \in records : ~UnitKept(r)
              \/ feed = "sites" /\ ~Contract(records)
           THEN outcome' = "failed" /\ UNCHANGED table
           ELSE \E D \in Deduplicated(records) : table' = Beside(D) \cup D /\ outcome' = "stored"
    /\ UNCHANGED <<call, feed, source, listing, cached, scope, left, rows, polls>>

\* The transaction fails.
PersistFails ==
    /\ outcome = "ready" /\ outcome' = "failed"
    /\ UNCHANGED <<call, feed, source, listing, cached, scope, left, rows, table, polls>>

Over == outcome \notin {"asking", "ready"} \/ call.state = "failed"
Inputs ==
    /\ source' \in Answers[feed]
    /\ listing' \in IF feed = "sites" THEN SUBSET Files ELSE {{}}
    /\ left' = IF feed = "settled" THEN Days ELSE <<0>>

\* The period of a notification is the one the poll falls into.
Poll ==
    /\ Over /\ polls < MaxPolls
    /\ polls' = polls + 1
    /\ Inputs
    /\ scope' \in IF feed = "notifications" THEN {p \in 1..LastPeriod : p >= scope} ELSE {0}
    /\ call' = Request("json") /\ outcome' = "asking" /\ rows' = {}
    /\ UNCHANGED <<feed, cached, table>>

\* A new process has nothing in memory.
Restart ==
    /\ cached # NoFile /\ cached' = NoFile
    /\ call' = Resting /\ outcome' = "failed"
    /\ UNCHANGED <<feed, source, listing, scope, left, rows, table, polls>>

Failing ==
    /\ Trouble
    /\ UNCHANGED <<feed, source, listing, cached, scope, left, rows, outcome, table, polls>>

Init ==
    /\ feed \in Snapshots
    /\ call = Resting /\ outcome = "none" /\ polls = 0
    /\ source = {} /\ listing = {} /\ left = <<>> /\ rows = {} /\ scope = 0
    /\ cached = NoFile /\ table = {}

Next ==
    \/ Poll \/ AnswerRows \/ AnswerListing \/ AnswerFile \/ AnswerOddly
    \/ Persist \/ PersistFails \/ Restart \/ Failing

-----------------------------------------------------------------------------

\* The newest answer, read whole, no longer holds an entry of the table.
Gone(e) ==
    CASE feed = "units" -> \A r \in rows : Unit(r) /\ RowKey(r) # RowKey(e)
      [] feed = "notifications" ->
           e.period = scope /\ \A r \in rows : Segment(r) /\ RowKey(r) # RowKey(e)
      [] feed = "sites" -> \A s \in Published(scope) : s.id # e.id
      [] OTHER -> FALSE

\* An entry leaves a table only when an answer that was understood whole does not hold it,
\* settled energy never; what is stored is of the days and of the file that were asked
\* for, all of it, whether it was fetched or remembered; and no request outlasts its
\* attempts (assets/adapters.py:40-70, 108-159, 198-271, geography/adapters.py:63-160).
SnapshotsWhole ==
    /\ Patient'
    /\ \A e \in table : (\A d \in table' : RowKey(d) # RowKey(e)) => Gone(e)
    /\ outcome' = "stored" /\ outcome # "stored" =>
         CASE feed = "sites" -> table' = Published(Selected(listing).url)
           [] feed = "settled" ->
                \A r \in source : r.day \in {Days[i] : i \in 1..Len(Days)} =>
                    \E d \in table' : RowKey(d) = RowKey(r)
           [] OTHER -> TRUE
=============================================================================
