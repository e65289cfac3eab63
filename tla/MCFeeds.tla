------------------------------- MODULE MCFeeds -------------------------------
(***************************************************************************)
(* The feeds of the worker, composed for TLC: the rows that sources serve, *)
(* readable and not, and the files that a publication lists.  A behaviour  *)
(* follows the kind of feed it chose at the start.  `feed', `call', the    *)
(* rows and the outcome belong to that kind.                               *)
(***************************************************************************)
EXTENDS Integers

CONSTANTS
  MaxAttempts, BaseDelay, MaxDelay, RetryAfter,                    \* SourceClient
  Feeds, Links, From, Until, DayPeriods, DetailsSize, MaxMoves,    \* SourceFeeds
  Snapshots, Length, LastPeriod, MaxHeld, MaxSize, MaxPolls        \* SnapshotFeeds

\* At most two rows of each pool at once.
Few(pool) == {R \in SUBSET pool : \A a, b, c \in R : a = b \/ b = c \/ a = c}

None == 1000
Odd == 1001
Reading(code, at, published, value, period) ==
  [code |-> code, at |-> at, published |-> published, value |-> value, period |-> period]
Shared ==
  {Reading("wind", 1, 1, 5, 1), Reading("wind", 1, 2, 6, None), Reading("link", 1, 1, 5, 50),
   Reading("blank", 1, 1, 5, 1), Reading("none", 1, 1, 5, 1), Reading("wind", 2, 1, Odd, 1),
   Reading("wind", 2, 1, 5, 51), Reading("link", 2, None, 5, 1)}
National ==
  {Reading("none", 1, 1, 50, 1), Reading("none", 1, 2, 60, 50), Reading("none", 2, None, 45, 1),
   Reading("none", 2, 1, -1, 1), Reading("none", None, 1, 50, 1), Reading("none", 3, 1, 61, 0),
   Reading("b", 1, 1, 40, Odd)}
Warned ==
  {[id |-> 1, code |-> code, at |-> None, published |-> published, revision |-> revision] :
     code \in {"w", "blank"}, published \in {1, Odd}, revision \in {1, 2}}
Message(id, code, revision, until) ==
  [id |-> id, code |-> code, series |-> "m", revision |-> revision, published |-> 1, at |-> 2,
   until |-> until, profile |-> id # 5]
Messages ==
  {Message(1, "unavailability", 1, None), Message(2, "unavailability", 2, 3),
   Message(3, "unavailability", 3, 1), Message(4, "market", 1, None),
   Message(Odd, "unavailability", 4, None), Message(5, "unavailability", 5, None)}
HalfHour(at, until, estimate, value, mix) ==
  [at |-> at, until |-> until, estimate |-> estimate, value |-> value, mix |-> mix]
HalfHours ==
  {HalfHour(1, 2, 5, 6, TRUE), HalfHour(1, 2, 7, Odd, TRUE), HalfHour(2, 3, Odd, 6, TRUE),
   HalfHour(2, 2, 5, 6, TRUE), HalfHour(3, 4, 5, None, TRUE), HalfHour(2, 3, None, -1, FALSE)}
Outage(reference, status, created, restored, customers, place) ==
  [reference |-> reference, status |-> status, created |-> created, received |-> None,
   restored |-> restored, planned |-> 2, customers |-> customers, expected |-> 3,
   place |-> place, point |-> None]
Outages ==
  {Outage("i", "unplanned", 1, None, 5, "full"), Outage("i", "restored", 1, 3, None, "sector"),
   Outage("i", "planned", None, None, 1, "none"), Outage("j", "unplanned", 1, None, -1, "outward"),
   Outage("j", "multiple", 1, None, 9, "full"), Outage("j", "unplanned", Odd, None, 1, "none"),
   Outage("j", "planned", 2, None, 1, "malformed"), Outage("none", "planned", 2, None, 1, "none")}
Pools ==
  [generation |-> Few(Shared), flows |-> Few(Shared),
   demand |-> Few(National), frequency |-> Few(National),
   demandForecast |-> Few(National), windForecast |-> Few(National),
   warnings |-> Few(Warned), remit |-> Few(Messages) \cup {Messages},
   carbon |-> Few(HalfHours), carbonForecast |-> Few(HalfHours),
   carbonHistory |-> Few(HalfHours), incidents |-> Few(Outages),
   london |-> {{[region |-> name, periods |-> R]} : name \in {"13", "none"}, R \in Few(HalfHours)}]

\* Whole and partial answers of the three snapshot feeds, and the files of two publications.
BalancingUnits ==
  {[unit |-> u, capacity |-> c, place |-> "none"] : u \in {"u", "v"}, c \in {1, Odd}}
    \cup {[unit |-> "u", capacity |-> -1, place |-> "both"],
          [unit |-> "none", capacity |-> None, place |-> "none"],
          [unit |-> "v", capacity |-> None, place |-> "one"]}
Segment(u, period, start, end) ==
  [unit |-> u, period |-> period, start |-> start, end |-> end, level |-> 1]
Segments ==
  {Segment("u", 1, 0, 1), Segment("u", 1, 0, 2), Segment("v", 1, 0, 2), Segment("u", 2, 2, 4),
   Segment("v", 1, 0, 4)}
Energy(day, period, end) ==
  [unit |-> "u", day |-> day, period |-> period, end |-> end, energy |-> 1]
Energies ==
  {Energy(1, 1, 2), Energy(1, 2, 4), Energy(2, 1, 2), Energy(1, 1, 4), Energy(0, 1, 2)}
OfSnapshots ==
  [units |-> Few(BalancingUnits), notifications |-> Few(Segments), settled |-> Few(Energies),
   sites |-> {{}}]
Listed(line, id, short, full, east, capacity) ==
  [line |-> line, id |-> id, name |-> id, short |-> short, full |-> full, east |-> east,
   north |-> 1, capacity |-> capacity]
Register ==
  {Listed(1, "p", "planned", "operational", 1, 5), Listed(2, "p", "operational", "none", None, Odd),
   Listed(3, "q", "none", "building", 9, 0), Listed(4, "r", "withdrawn", "operational", 1, 5)}
Newer == {Listed(1, "q", "operational", "none", 1, 5), Listed(2, "unknown", "planned", "none", 1, 5),
          Listed(3, "q", "operational", "none", 1, 6)}
File(url, rank, official, size, rows) ==
  [url |-> url, rank |-> rank, csv |-> rank # 0, official |-> official, size |-> size,
   columns |-> url # 4, rows |-> rows]
FileSet ==
  {File(1, 3, TRUE, 1, Register), File(2, 2, TRUE, 1, Newer), File(3, 1, FALSE, 1, Newer),
   File(4, 4, TRUE, 1, Register), File(5, 5, TRUE, 9, Newer), File(6, 0, TRUE, 1, Newer)}

LookBack == <<1, 2>>

VARIABLES
  kind,                                                       \* never changes
  call, feed, source, rows, outcome,
  moves, listed, pending, broken, stored,                     \* SourceFeeds
  listing, cached, scope, left, kept, polls                  \* SnapshotFeeds

Facts == INSTANCE SourceFeeds WITH Served <- Pools, Periods <- DayPeriods, BatchSize <- DetailsSize,
                                   MaxChanges <- MaxMoves, changes <- moves
Whole == INSTANCE SnapshotFeeds WITH Answers <- OfSnapshots, Files <- FileSet,
                                     Days <- LookBack, East <- 0..8, North <- 0..14,
                                     MaxRecords <- MaxHeld, table <- kept

ASSUME FeedSettings == Facts!FeedAssumption
ASSUME SnapshotSettings == Whole!SnapshotAssumption

Idle == "idle"
factVars == <<moves, listed, pending, broken, stored>>
wholeVars == <<listing, cached, scope, left, kept, polls>>
feedVars == <<kind, call, feed, source, rows, outcome, factVars, wholeVars>>
NoFacts == moves = Idle /\ listed = Idle /\ pending = Idle /\ broken = Idle /\ stored = Idle
NoWhole == /\ listing = Idle /\ cached = Idle /\ scope = Idle /\ left = Idle
           /\ kept = Idle /\ polls = Idle

FeedsInit ==
  \/ kind = "facts" /\ Facts!Init /\ NoWhole
  \/ kind = "snapshots" /\ Whole!Init /\ NoFacts
FeedsNext ==
  /\ UNCHANGED kind
  /\ \/ kind = "facts" /\ Facts!Next /\ UNCHANGED wholeVars
     \/ kind = "snapshots" /\ Whole!Next /\ UNCHANGED factVars

\* SourceFeeds, FeedHonest: a fetch stores every usable row of its answers.
FeedHonest == kind = "facts" => Facts!FeedHonest

\* SnapshotFeeds, SnapshotsWhole: only an answer that was understood whole retires a row.
SnapshotsWhole == [][kind = "snapshots" => Whole!SnapshotsWhole]_feedVars
=============================================================================
