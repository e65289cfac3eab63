------------------------------- MODULE MCReads -------------------------------
(***************************************************************************)
(* The read models of the public API, composed for TLC: the active and the *)
(* briefing notices, the present of the grid, its recent past, the map of  *)
(* sites, the verified forecasts, the materialized history.  Each request  *)
(* reads tables no other part writes, so a behaviour follows the part it   *)
(* chose at the start; the variables of the others stay at Idle.           *)
(* `moment', `rows' and `deliveries' belong to the part that was chosen.   *)
(***************************************************************************)
EXTENDS Integers, Sequences

CONSTANTS
  Remit, Warnings, FreshFor, Horizon, Cap, ReadTime, MaxRevisions, MaxNotices,   \* NoticeReads
  Fuels, Ties, Clock, Start, MaxDeliveries,                                   \* GridReads
  Resolution, MaterialGap,                                                            \* Timeline
  Readers, Metered, Generic, TTL, Intervals, MaxAsked, MaxChanges, MaxRows,     \* AssetMap
  Basis, Valids, Last, MinSamples, MinCoverage, MaxInput, MaxEvidence, MaxComputed,  \* ForecastScores
  Cadence, HistoryCoverage, PerDay, DaysBefore, Week, ChunkDays, FirstDay, MaxLate   \* HistoryContent

\* A notice without an end, one that will begin, one that will last longer.
Windows == {<<0, -1>>, <<1, 2>>, <<2, 2>>}

\* Tables with corrections, missing series and gaps; or with a few readings and forecasts
\* on both sides of the present.
Observed(f, s, at, rev) == [fam |-> f, series |-> s, at |-> at, rev |-> rev]
Forecast(m, at, issued) ==
  [fam |-> m, at |-> at, rev |-> 0, issued |-> issued, length |-> 1]
Demand == {Observed("demand", "gb", at, rev) : at \in {0, 1, 6}, rev \in {0, 1}}
Corrected == {D \in SUBSET Demand : \A r \in D : r.rev = 0 \/ [r EXCEPT !.rev = 0] \in D}
Generated == {Observed("generation", s, at, 0) : s \in {"wind", "gas"}, at \in {1, 5}}
Carbon == {Observed("carbon", "gb", at, 0) : at \in {0, 4}}
Forecasts == {Forecast("demand forecast", at, i) : at \in {5, 6, 7}, i \in {1, 2}}
               \cup {Forecast("carbon forecast", at, 1) : at \in {4, 6}}
Inputs ==
  {D \cup G \cup C \cup {Observed("frequency", "gb", 0, 0)} :
     D \in Corrected, G \in SUBSET Generated, C \in SUBSET Carbon}
  \cup {X \cup {Observed(f, "gb", 4, 0) : f \in {"demand", "carbon"}}
          \cup {Observed("generation", "wind", 4, 0)} : X \in SUBSET Forecasts}
Ranges == [start : {0, 1}, end : {8}, now : {4, 7}] \cup [start : {0}, end : {4}, now : {7}]

\* Sites and units whose names are equal, contained, shared, without a place or held by
\* the lead party; rows that cannot be read back, and public ids that two sites claim.
Owner == <<"moor", "owner">>
Site(id, name, public, located) ==
  [id |-> id, name |-> name, operator |-> Owner, capacity |-> 1, fuel |-> "none",
   public |-> public, located |-> located, whole |-> public # "z"]
Unit(row, id, name, party) ==
  [row |-> row, id |-> id, name |-> name, party |-> party, capacity |-> 1, fuel |-> "none"]
Moor == <<"high", "moor", "hill">>
MoorFarm == Moor \o <<"farm">>
SiteSets ==
  {{Site(1, Moor, "p", TRUE), Site(2, <<"farm">>, "q", TRUE)},
   {Site(1, Moor, "p", TRUE), Site(2, MoorFarm, "z", TRUE), Site(3, MoorFarm, "q", FALSE),
    Site(4, <<"low">>, "q", TRUE)}}
UnitSets ==
  {{Unit(1, "u", Moor, <<>>), Unit(1, "u", MoorFarm, Owner), Unit(2, "v", <<"farm">>, Owner),
    Unit(3, "none", Moor, Owner)},
   {Unit(1, "u", MoorFarm, Owner), Unit(2, "v", <<"low">>, Moor), Unit(3, "u", Moor, <<>>)}}
\* One reader asks for the map, the other for a site.
Wanted == [x \in Readers |-> IF x = "r" THEN "map" ELSE "p"]
Depth == [x \in Readers |-> IF x = "r" THEN 1 ELSE 2]

\* Two windows that end together, and two buckets of horizons.
ScoreWindows == {<<2, 4>>, <<3, 4>>}
Edges == <<0, 1, 2>>

\* The year in which an hour is repeated and the one in which it is left out, on days of two
\* half-hours; samples that are missing, come late, are corrected or lie off the cadence.
Half(d, t, o) == [day |-> d, time |-> t, offset |-> o]
Plain(d, o) == <<Half(d, 1, o), Half(d, 2, o)>>
Autumn == Plain(1, 1) \o Plain(2, 1) \o <<Half(3, 1, 1), Half(3, 1, 0), Half(3, 2, 0)>>
            \o Plain(4, 0) \o Plain(5, 0) \o Plain(6, 0)
Spring == Plain(1, 0) \o Plain(2, 0) \o <<Half(3, 2, 1)>>
            \o Plain(4, 1) \o Plain(5, 1) \o Plain(6, 1)
Years == {Autumn, Spring}
Gaps == {{<<4, 0>>}, {<<6, 2>>, <<9, 0>>}}
LateStamps == {<<4, 0>>, <<7, 1>>, <<9, 2>>}
Levels == [p \in 1..Len(Autumn) |-> (p * 5) % 7]

VARIABLES
  reads,                                                       \* never changes
  moment, rows, deliveries,
  served, published, told, briefed,                            \* NoticeReads
  seen, got, reply,                                            \* GridReads
  input, request, samples,                                     \* Timeline
  sites, units, energy, changes, snapshot, expires, begun, reader,  \* AssetMap
  basis, forecasts, outturns, run, pairs, results,             \* ForecastScores
  calendar, holes, evidence, work, coverage, aggregates, baselines  \* HistoryContent

Notices == INSTANCE NoticeReads WITH now <- moment, Fresh <- FreshFor, MaxTime <- ReadTime,
                                     MaxPublications <- MaxNotices
Grid == INSTANCE GridReads WITH now <- moment, answer <- reply, Connectors <- Ties
Past == INSTANCE Timeline WITH Requests <- Ranges
Map == INSTANCE AssetMap WITH now <- moment, cache <- snapshot, asked <- begun,
                              MaxTime <- ReadTime, MaxRequests <- MaxAsked
Scores == INSTANCE ForecastScores WITH clock <- moment, Windows <- ScoreWindows
History == INSTANCE HistoryContent WITH today <- moment, samples <- evidence,
             Calendars <- Years, Holes <- Gaps, Late <- LateStamps, Level <- Levels,
             MinCoverage <- HistoryCoverage, Lookback <- DaysBefore, Today <- FirstDay

ASSUME NoticeSettings == Notices!NoticeAssumption
ASSUME GridSettings == Grid!GridAssumption
ASSUME PastSettings == Past!TimelineAssumption
ASSUME MapSettings == Map!MapAssumption
ASSUME ScoreSettings == Scores!ScoreAssumption
ASSUME HistorySettings == History!HistoryAssumption

Idle == "idle"
noticeVars == <<served, published, told, briefed>>
gridVars == <<seen, got, reply>>
pastVars == <<input, request, samples>>
mapVars == <<sites, units, energy, changes, snapshot, expires, begun, reader>>
scoreVars == <<basis, forecasts, outturns, run, pairs, results>>
historyVars == <<calendar, holes, evidence, work, coverage, aggregates, baselines>>
readVars == <<reads, moment, rows, deliveries, noticeVars, gridVars, pastVars, mapVars,
              scoreVars, historyVars>>

NoTables == rows = Idle /\ deliveries = Idle
NoNotices == served = Idle /\ published = Idle /\ told = Idle /\ briefed = Idle
NoGrid == seen = Idle /\ got = Idle /\ reply = Idle
NoPast == input = Idle /\ request = Idle /\ samples = Idle
NoMap == /\ sites = Idle /\ units = Idle /\ energy = Idle /\ changes = Idle
         /\ snapshot = Idle /\ expires = Idle /\ begun = Idle /\ reader = Idle
NoScores == /\ basis = Idle /\ forecasts = Idle /\ outturns = Idle /\ run = Idle
            /\ pairs = Idle /\ results = Idle
NoHistory == /\ calendar = Idle /\ holes = Idle /\ evidence = Idle /\ work = Idle
             /\ coverage = Idle /\ aggregates = Idle /\ baselines = Idle
NoReads == /\ reads = Idle /\ moment = Idle
           /\ NoTables /\ NoNotices /\ NoGrid /\ NoPast /\ NoMap /\ NoScores /\ NoHistory

ReadsInit ==
  \/ /\ reads = "notices" /\ Notices!Init
     /\ NoGrid /\ NoPast /\ NoMap /\ NoScores /\ NoHistory
  \/ /\ reads = "grid" /\ Grid!Init
     /\ NoNotices /\ NoPast /\ NoMap /\ NoScores /\ NoHistory
  \/ /\ reads = "past" /\ moment = Idle /\ Past!Init
     /\ NoTables /\ NoNotices /\ NoGrid /\ NoMap /\ NoScores /\ NoHistory
  \/ /\ reads = "map" /\ Map!Init
     /\ NoTables /\ NoNotices /\ NoGrid /\ NoPast /\ NoScores /\ NoHistory
  \/ /\ reads = "scores" /\ Scores!Init
     /\ NoTables /\ NoNotices /\ NoGrid /\ NoPast /\ NoMap /\ NoHistory
  \/ /\ reads = "history" /\ History!Init
     /\ NoTables /\ NoNotices /\ NoGrid /\ NoPast /\ NoMap /\ NoScores

ReadsNext ==
  /\ UNCHANGED reads
  /\ \/ /\ reads = "notices" /\ Notices!Next
        /\ UNCHANGED <<gridVars, pastVars, mapVars, scoreVars, historyVars>>
     \/ /\ reads = "grid" /\ Grid!Next
        /\ UNCHANGED <<noticeVars, pastVars, mapVars, scoreVars, historyVars>>
     \/ /\ reads = "past" /\ Past!Next
        /\ UNCHANGED <<moment, rows, deliveries>>
        /\ UNCHANGED <<noticeVars, gridVars, mapVars, scoreVars, historyVars>>
     \/ /\ reads = "map" /\ Map!Next /\ UNCHANGED <<rows, deliveries>>
        /\ UNCHANGED <<noticeVars, gridVars, pastVars, scoreVars, historyVars>>
     \/ /\ reads = "scores" /\ Scores!Next /\ UNCHANGED <<rows, deliveries>>
        /\ UNCHANGED <<noticeVars, gridVars, pastVars, mapVars, historyVars>>
     \/ /\ reads = "history" /\ History!Next /\ UNCHANGED <<rows, deliveries>>
        /\ UNCHANGED <<noticeVars, gridVars, pastVars, mapVars, scoreVars>>

ReadsSpec == ReadsInit /\ [][ReadsNext]_readVars

\* NoticeReads, NoticesCurrent: the notices served are the ones the source now serves.
NoticesCurrent == reads = "notices" => Notices!NoticesCurrent

\* GridReads, SnapshotHonest: no reading is shown fresher than it is, or without its newest.
SnapshotHonest == reads = "grid" => Grid!SnapshotHonest

\* Timeline, TimelineExact: every bucket holds what was known by its end.
TimelineExact == reads = "past" => Past!TimelineExact

\* AssetMap, MapHonest: links are unique, evidence is of the moment, the catalogue recent.
MapHonest == reads = "map" => Map!MapHonest

\* ForecastScores, ScoresKept: what a run stores is what its evidence says, and what is
\* served is of the newest window.
ScoreHonest == [][reads = "scores" => Scores!ScoresKept]_readVars

\* HistoryContent, HistoryExact: what is stored of a day says what its evidence says.
HistoryExact == reads = "history" => History!HistoryExact
=============================================================================
