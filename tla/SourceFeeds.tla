---------------------------- MODULE SourceFeeds ----------------------------
(***************************************************************************)
(* The feeds of observations, forecasts and notices: what an adapter asks  *)
(* (app/sources/elexon.py, app/sources/neso_carbon.py,                     *)
(* app/sources/ukpn.py), which rows of the answer it takes, and the rows   *)
(* of which tables they become (app/persistence/records.py).  The source   *)
(* changes while a fetch of several requests is under way.  A job's locks  *)
(* and windows are in Ingestion, the revisions of what is stored in        *)
(* RevisionLedger, the pages of the incidents in CurrentTables.            *)
(***************************************************************************)
EXTENDS SourceClient, Sequences, SequencesExt

CONSTANTS
    Feeds,
    Served,             \* a function: the sets of rows that the source may serve to a feed
    From, Until,        \* the window of the fetch
    Links,              \* fuel codes that begin with INT
    Periods,            \* settlement periods of a day
    BatchSize, MaxChanges

\* What a row of a feed says in numbers.  The texts of a warning are numbered.
Numbered(f, r) ==
    /\ f = "remit" => r.id \in Int /\ r.revision \in Int
    /\ f = "warnings" => r.revision \in Nat \ {0}
    /\ f = "carbonHistory" => r.at \in Int
    /\ f = "incidents" =>
         {r.created, r.received, r.restored, r.customers, r.expected} \subseteq Int

\* An answer ends; RemitUnavailabilityAdapter refuses a batch of nothing.
FeedAssumption ==
    /\ ClientAssumption
    /\ \A f \in Feeds : \A R \in Served[f] : IsFiniteSet(R) /\ \A r \in R : Numbered(f, r)
    /\ From \in Int /\ Until \in Int /\ BatchSize \in Nat \ {0}

VARIABLES feed, source, changes, listed, pending, rows, broken, outcome, stored

vars == <<call, feed, source, changes, listed, pending, rows, broken, outcome, stored>>

-----------------------------------------------------------------------------
(* Rows.  A name that is absent is "none", a number None or Odd. *)

Reads(v) == v \notin {None, Odd}
Named(name) == name \notin {"none", "blank"}

\* _settlement: optional, but in range.
Settled(r) == r.period # Odd /\ (r.period = None \/ (1 <= r.period /\ r.period <= Periods))
Timed(r) == Reads(r.at) /\ Reads(r.published)

\* A forecast of a source without issue times is issued when it is retrieved.
Retrieved == 1002

Reading(table, series, at, issued, value) ==
    [table |-> table, series |-> series, at |-> at, issued |-> issued, until |-> None,
     value |-> value]
Only(fact, taken) == IF taken THEN {fact} ELSE {}

\* An adapter each.  A fuel code that is unknown or blank is kept, that of a link is
\* another feed's.
Generation(r) ==
    Only(Reading("generation", r.code, r.at, r.published, r.value),
         r.code # "none" /\ r.code \notin Links /\ Timed(r) /\ Settled(r) /\ Reads(r.value))
Flow(r) ==
    Only(Reading("interconnector", r.code, r.at, r.published, r.value),
         r.code \in Links /\ Timed(r) /\ Settled(r) /\ Reads(r.value))
Demand(r) ==
    Only(Reading("demand", "gb", r.at, r.published, r.value),
         Timed(r) /\ Settled(r) /\ Reads(r.value) /\ r.value >= 0)
Frequency(r) ==
    Only(Reading("frequency", "gb", r.at, r.published, r.value),
         Reads(r.at) /\ r.published # Odd /\ Reads(r.value) /\ 40 <= r.value /\ r.value <= 60)
Forecast(series, r) == Reading("forecast", series, r.at, r.published, r.value)
DemandForecast(r) ==
    Only(Forecast(IF Named(r.code) THEN r.code ELSE "gb", r),
         Timed(r) /\ Settled(r) /\ Reads(r.value) /\ r.value >= 0)
WindForecast(r) == Only(Forecast("wind", r), Timed(r) /\ Reads(r.value) /\ r.value >= 0)

\* A text that differs under one publication time is another revision of the warning.
Notice(series, revision, r, until) ==
    [table |-> "notice", series |-> series, revision |-> revision, issued |-> r.published,
     at |-> r.at, until |-> until, id |-> r.id]
Warning(r) ==
    Only(Notice(<<r.code, r.published>>, r.revision, r, None),
         Reads(r.published) /\ Named(r.code) /\ Reads(r.revision))

\* An unavailability may be open; the profile of its capacity is read with it.
Remit(r) ==
    Only(Notice(<<r.series>>, r.revision, r, r.until),
         /\ r.code = "unavailability"
         /\ Named(r.series) /\ Reads(r.revision) /\ r.revision >= 1
         /\ Reads(r.id) /\ Timed(r) /\ r.until # Odd
         /\ r.until = None \/ r.at <= r.until
         /\ r.profile)

\* A half hour of carbon.  What the source calls actual is an estimate; it is taken first
\* and stays when the forecast beside it cannot be read.
Readable(r) == Reads(r.at) /\ Reads(r.until) /\ r.at < r.until /\ r.mix
Usable(v) == v # Odd /\ v >= 0
Estimates(f, r) == f # "carbonForecast" /\ r.estimate # None
Forecasts(f, r) == f # "carbonHistory" /\ r.value # None
BadEstimate(f, r) == Estimates(f, r) /\ ~Usable(r.estimate)
BadForecast(f, r) == Forecasts(f, r) /\ ~Usable(r.value)
BadPeriod(f, r) == ~Readable(r) \/ BadEstimate(f, r) \/ BadForecast(f, r)
Estimate(region, r) == Reading("carbon", region, r.at, None, r.estimate)
Intensity(region, r) ==
    [Reading("forecast", region, r.at, Retrieved, r.value) EXCEPT !.until = r.until]
Carbon(f, region, r) ==
    Only(Estimate(region, r), Readable(r) /\ Estimates(f, r) /\ ~BadEstimate(f, r))
    \cup Only(Intensity(region, r),
              Readable(r) /\ Forecasts(f, r) /\ ~BadEstimate(f, r) /\ ~BadForecast(f, r))

\* A region holds its half hours; London's answer is one region.
Region(r) == IF Named(r.region) THEN UNION {Carbon("london", r.region, p) : p \in r.periods} ELSE {}
BadRegion(r) ==
    ~Named(r.region) \/ (Region(r) = {} /\ \E p \in r.periods : BadPeriod("london", p))

\* An incident of the network of UKPN.  Its texts are reduced before they are read: of a
\* postcode the sector stays.  Without any time it is of the moment it was retrieved.
Reduced(place) == IF place = "full" THEN "sector" ELSE place
Times(r) == {r.created, r.received, r.restored} \ {None}
ObservedAt(r) == IF Times(r) = {} THEN Retrieved ELSE Max(Times(r))
Count(n) == IF n = None THEN 0 ELSE n
Located(r) == r.place # "malformed" /\ r.point # Odd
Incident(r) ==
    LET planned == r.status = "planned"
    IN  Only([table |-> "incident", series |-> r.reference, status |-> r.status,
              at |-> ObservedAt(r),
              start |-> IF planned THEN r.planned
                        ELSE IF r.received # None THEN r.received ELSE r.created,
              customers |-> IF planned THEN Max({Count(r.customers), Count(r.expected)})
                            ELSE Count(r.customers),
              place |-> Reduced(r.place)],
             /\ Named(r.reference) /\ r.status \in {"planned", "unplanned", "restored"}
             /\ Odd \notin Times(r) \cup {r.planned}
             /\ Usable(Count(r.customers)) /\ Usable(Count(r.expected))
             /\ Located(r))

FactsOf(f, r) ==
    CASE f = "generation" -> Generation(r)
      [] f = "flows" -> Flow(r)
      [] f = "demand" -> Demand(r)
      [] f = "frequency" -> Frequency(r)
      [] f = "demandForecast" -> DemandForecast(r)
      [] f = "windForecast" -> WindForecast(r)
      [] f = "warnings" -> Warning(r)
      [] f = "remit" -> Remit(r)
      [] f = "incidents" -> Incident(r)
      [] f = "london" -> Region(r)
      [] OTHER -> Carbon(f, "GB", r)

\* Rows that belong to another feed of the same dataset.
OutOfScope(f, r) ==
    \/ f = "generation" /\ r.code \in Links
    \/ f = "flows" /\ r.code \notin Links \cup {"none"}
    \/ f = "remit" /\ r.code \notin {"unavailability", "none"}
    \/ f = "incidents" /\ r.status = "multiple"

\* Rows that a warning counts.
Invalid(f, r) ==
    CASE f = "london" -> BadRegion(r)
      [] f \in {"carbon", "carbonForecast", "carbonHistory"} -> BadPeriod(f, r)
      [] OTHER -> ~OutOfScope(f, r) /\ FactsOf(f, r) = {}

-----------------------------------------------------------------------------
(* A fetch. *)

Taken(f, R) == UNION {FactsOf(f, r) : r \in R}

\* An answer of which nothing can be used, and not because all of it is another feed's;
\* for incidents also where all of it are the aggregates of a map.
SchemaError(f, R) ==
    R # {} /\ Taken(f, R) = {} /\ (f = "incidents" \/ \E r \in R : Invalid(f, r))

Ordered(ids) == CHOOSE q \in SetToSeqs(ids) : \A i, j \in DOMAIN q : i < j => q[i] < q[j]

\* A slip: a last batch that is not full is not asked for.
FullBatches(ids) ==
    LET order == Ordered(ids)
    IN  [k \in 1..(Len(order) \div BatchSize) |->
            ToSet(SubSeq(order, (k - 1) * BatchSize + 1, k * BatchSize))]

\* The last batch may be short.
Batches(ids) ==
    LET order == Ordered(ids)
        size == Len(order)
    IN  [k \in 1..((size + BatchSize - 1) \div BatchSize) |->
            ToSet(SubSeq(order, (k - 1) * BatchSize + 1,
                         IF k * BatchSize < size THEN k * BatchSize ELSE size))]

Ready == call' = Resting /\ outcome' = "ready"

AnswerWindow ==
    /\ Asking /\ feed # "remit"
    /\ rows' = source
    /\ Ready
    /\ UNCHANGED <<feed, source, changes, listed, pending, broken, stored>>

\* Every publication of the window, and then their details, batch by batch.
AnswerListing ==
    /\ Asking /\ feed = "remit" /\ pending = <<>>
    /\ listed' = {r.id : r \in source} \ {None, Odd}
    /\ pending' = Batches(listed')
    /\ IF pending' # <<>> THEN call' = Request("json") /\ UNCHANGED outcome
       ELSE IF source = {} THEN Ready
       ELSE call' = Resting /\ outcome' = "schema"
    /\ UNCHANGED <<feed, source, changes, rows, broken, stored>>

NextBatch == IF Len(pending) > 1 THEN call' = Request("json") /\ UNCHANGED outcome ELSE Ready

AnswerDetails ==
    /\ Asking /\ pending # <<>>
    /\ rows' = rows \cup {r \in source : r.id \in Head(pending)}
    /\ pending' = Tail(pending)
    /\ NextBatch
    /\ UNCHANGED <<feed, source, changes, listed, broken, stored>>

\* JSON of another shape.  Details are looked at when all of them have come.
AnswerOddly ==
    /\ Asking
    /\ broken' = TRUE
    /\ IF pending # <<>> THEN pending' = Tail(pending) /\ NextBatch
       ELSE call' = Resting /\ outcome' = "schema" /\ UNCHANGED pending
    /\ UNCHANGED <<feed, source, changes, listed, rows, stored>>

Change ==
    /\ Asking /\ pending # <<>> /\ changes < MaxChanges
    /\ source' \in Served[feed] \ {source}
    /\ changes' = changes + 1
    /\ UNCHANGED <<call, feed, listed, pending, rows, broken, outcome, stored>>

\* The conflict columns of a table: of rows that agree on them one is written.  Only a
\* forecast is another one when it was issued at another time.
RowKey(x) == CASE x.table = "notice" -> <<x.table, x.series, x.revision>>
            [] x.table = "forecast" -> <<x.table, x.series, x.at, x.issued>>
            [] OTHER -> <<x.table, x.series, x.at>>

\* The range of the history may hold its upper bound; of an incident the newest row counts.
Kept(f, F) ==
    CASE f = "carbonHistory" -> {x \in F : From <= x.at /\ x.at < Until}
      [] f = "incidents" -> {x \in F : \A y \in F : RowKey(y) = RowKey(x) => y.at <= x.at}
      [] OTHER -> F
Deduplicated(F) ==
    {D \in SUBSET F : \A x \in F : Cardinality({y \in D : RowKey(y) = RowKey(x)}) = 1}

\* The constraints of the tables.
Storable(x) ==
    CASE x.table = "forecast" -> x.until = None \/ x.at < x.until
      [] x.table = "notice" ->
           x.revision > 0 /\ (x.until = None \/ x.at = None \/ x.at <= x.until)
      [] x.table = "carbon" -> x.value >= 0
      [] x.table = "incident" -> x.customers >= 0
      [] OTHER -> TRUE

Deliver ==
    /\ outcome = "ready"
    /\ IF broken \/ SchemaError(feed, rows)
       THEN outcome' = "schema" /\ UNCHANGED stored
       ELSE \E D \in Deduplicated(Kept(feed, Taken(feed, rows))) :
              IF \A x \in D : Storable(x) THEN stored' = D /\ outcome' = "stored"
              ELSE outcome' = "rejected" /\ UNCHANGED stored
    /\ UNCHANGED <<call, feed, source, changes, listed, pending, rows, broken>>

Init ==
    /\ feed \in Feeds
    /\ source \in Served[feed]
    /\ changes = 0 /\ listed = {} /\ pending = <<>> /\ rows = {} /\ broken = FALSE
    /\ outcome = "asking" /\ stored = {}
    /\ call = Request("json")

Failing ==
    Trouble /\ UNCHANGED <<feed, source, changes, listed, pending, rows, broken, outcome, stored>>

Next == AnswerWindow \/ AnswerListing \/ AnswerDetails \/ AnswerOddly \/ Change \/ Deliver \/ Failing

-----------------------------------------------------------------------------

\* What a table may be told, whatever the source serves.
Sound(f, x) ==
    /\ x.table \in {"demand", "forecast", "carbon"} => x.value >= 0
    /\ x.table = "carbon" => f # "carbonForecast"
    /\ f = "carbonHistory" => x.table = "carbon" /\ From <= x.at /\ x.at < Until
    /\ x.table = "incident" => x.place # "full"

\* A reading of the dataset that two feeds share is taken by one of them.
OneTakes(r) ==
    /\ Generation(r) = {} \/ Flow(r) = {}
    /\ r.code # "none" /\ Timed(r) /\ Settled(r) /\ Reads(r.value)
         => Generation(r) \cup Flow(r) # {}

\* A fetch stores every usable row of its answers: none is lost for an unreadable
\* neighbour, taken by two feeds or by none, refused by a table after its adapter took it,
\* or replaced by an older one; no postcode is stored whole; an answer that holds nothing
\* for a feed is no failure; and the details of every message that was listed are asked
\* for (elexon.py:136-175, 474-602, neso_carbon.py:117-157, 272-338, ukpn.py:168-280).
FeedHonest ==
    /\ Patient
    /\ outcome # "rejected"
    /\ feed \in {"generation", "flows"} => \A r \in rows : OneTakes(r)
    /\ outcome = "schema" =>
         \/ broken
         \/ Taken(feed, rows) = {} /\ (feed = "incidents" \/ \E r \in rows : ~OutOfScope(feed, r))
         \/ rows = {} /\ \A r \in source : ~Reads(r.id)
    /\ outcome = "stored" =>
         /\ \A x \in stored : Sound(feed, x)
         /\ \A r \in rows : \A x \in FactsOf(feed, r) :
              \/ /\ Cardinality({y \in stored : RowKey(y) = RowKey(x)}) = 1
                 /\ \A y \in stored : feed = "incidents" /\ RowKey(y) = RowKey(x) => y.at >= x.at
              \/ feed = "carbonHistory" /\ x.at \notin From..(Until - 1)
         /\ feed = "remit" /\ changes = 0 =>
              \A r \in source : Remit(r) # {} =>
                 \E x \in stored : RowKey(x) \in {RowKey(y) : y \in Remit(r)}
=============================================================================
