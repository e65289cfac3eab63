--------------------------- MODULE HistoryContent ---------------------------
(***************************************************************************)
(* What a materialized history says (app/history): half-hours computed     *)
(* from the newest revision of every sample, days counted in London time,  *)
(* the usual value at the same time of day on the days before, and the     *)
(* comparison of the current reading that the API makes from the same      *)
(* samples.  The locks and the retries of the job are in DerivedJobs.      *)
(***************************************************************************)
EXTENDS Integers, FiniteSets, FiniteSetsExt, Sequences, SequencesExt

CONSTANTS
    Calendars,     \* sequences of half-hours: the day, the time of day, the offset
    Holes,         \* sets of stamps that are missing at first
    Late,          \* stamps whose samples arrive or are corrected later
    Cadence,       \* the stamps within a half-hour at which the source samples
    Level,         \* the value of a half-hour
    PerDay,        \* half-hours of an ordinary day
    MinCoverage, Lookback, Week,
    ChunkDays,     \* days of one chunk
    Today,         \* the day that is current at first
    MaxLate        \* samples that arrive or are corrected late

\* A calendar of London: the days follow each other without a gap, a half-hour of a day is
\* told by its time and offset, and the same time of day on an earlier day is no further
\* back than days of ordinary length would put it, one day more allowed for.
IsCalendar(c) ==
    /\ c \in Seq([day : Nat \ {0}, time : Int, offset : Int]) /\ c # <<>>
    /\ \A p, q \in DOMAIN c : p <= q => c[p].day <= c[q].day
    /\ \A d \in 1..c[Len(c)].day : \E p \in DOMAIN c : c[p].day = d
    /\ \A p, q \in DOMAIN c : c[p] = c[q] => p = q
    /\ \A p, q \in DOMAIN c :
         c[q].time = c[p].time /\ c[p].day - c[q].day \in 1..Lookback
           => p - q <= (Lookback + 1) * PerDay

\* So few stamps that one missing is too many (six, or one, of a half-hour at 95 per cent).
HistoryAssumption ==
    /\ \A c \in Calendars : IsCalendar(c) /\ DOMAIN c \subseteq DOMAIN Level /\ Today <= c[Len(c)].day
    /\ \A p \in DOMAIN Level : p \in Int /\ Level[p] \in Int
    /\ \A t \in Late : t[1] \in DOMAIN Level
    /\ IsFiniteSet(Cadence) /\ Cadence # {}
    /\ MinCoverage \in 1..100
    /\ (Cardinality(Cadence) - 1) * 100 < MinCoverage * Cardinality(Cadence)
    /\ Lookback \in Nat \ {0} /\ Week \in 1..Lookback /\ PerDay \in Nat \ {0}
    /\ Today \in Nat \ {0}

VARIABLES calendar, holes, today, samples, work, coverage, aggregates, baselines

vars == <<calendar, holes, today, samples, work, coverage, aggregates, baselines>>
tables == <<coverage, aggregates, baselines>>

Idle == [from |-> 0, upto |-> 0, read |-> {}, all |-> {}, stored |-> FALSE]
Enough(n, of) == n * 100 >= MinCoverage * of

-----------------------------------------------------------------------------
(* The calendar: half-hours are numbered in UTC, days are London's.        *)

\* expected_settlement_intervals: a day has a period more or less when the clocks change.
Periods(d) == {p \in DOMAIN calendar : calendar[p].day = d}
First(d) == Min(Periods(d))
Expected(d) == Cardinality(Periods(d))
DayOf(p) == calendar[p].day
SameTime(q, p) == calendar[q].time = calendar[p].time
SameOffset(q, p) == calendar[q].offset = calendar[p].offset

\* Slip: the first of a repeated hour.
FirstSameLocal(p, back) ==
    LET candidates == {q \in Periods(DayOf(p) - back) : SameTime(q, p)}
    IN  {q \in candidates : q = Min(candidates)}

\* _same_local_target: the same time on the wall clock; of a repeated hour, the same offset.
SameLocal(p, back) ==
    LET candidates == {q \in Periods(DayOf(p) - back) : SameTime(q, p)}
    IN  IF Cardinality(candidates) <= 1 THEN candidates
        ELSE {q \in candidates : SameOffset(q, p)}

-----------------------------------------------------------------------------
(* Half-hours, materialize_half_hours.                                     *)

Value(s) == Level[s.at] + s.rev
Total(S) == MapThenSumSet(Value, S)

\* _select_highest_revisions.
Newest(S) == {s \in S : \A q \in S : q.at = s.at /\ q.stamp = s.stamp => q.rev <= s.rev}
Selected(S, p) == Newest({s \in S : s.at = p /\ s.stamp \in Cadence})
Unexpected(S, p) == \E s \in S : s.at = p /\ s.stamp \notin Cadence

\* Nothing is interpolated: a half-hour with gaps, or with samples between its stamps, has no
\* value.
Available(S, p) == Enough(Cardinality(Selected(S, p)), Cardinality(Cadence)) /\ ~Unexpected(S, p)

-----------------------------------------------------------------------------
(* Days, assess_daily_coverage and aggregate_daily_mean.                   *)

Observed(S, d) == {p \in Periods(d) : Available(S, p)}
Sufficient(S, d) == Enough(Cardinality(Observed(S, d)), Expected(d))

\* The checksum of a day covers the raw samples of its half-hours.
CoverageOf(S, d) ==
    [observed |-> Cardinality(Observed(S, d)), expected |-> Expected(d),
     sufficient |-> Sufficient(S, d), evidence |-> {s \in S : s.at \in Periods(d)}]

\* Sums in the place of means, over half-hours that are complete.
AggregateOf(S, d) ==
    [mean |-> IF Sufficient(S, d)
              THEN <<Total(UNION {Selected(S, p) : p \in Observed(S, d)}),
                     Cardinality(Observed(S, d))>>
              ELSE <<>>,
     coverage |-> CoverageOf(S, d)]

-----------------------------------------------------------------------------
(* Comparisons, _rolling_comparison and _point_comparison.                 *)

\* _quantile, in quarters: linear between two neighbours.
Quantile(v, quarter) ==
    LET position == (Len(v) - 1) * quarter
        lower == position \div 4
        upper == Min({lower + 1, Len(v) - 1})
    IN  4 * v[lower + 1] + (v[upper + 1] - v[lower + 1]) * (position % 4)

NoRolling(known) == [known |-> known, stats |-> <<>>, ids |-> {}, days |-> {}]

\* The half-hours of the days before at the same time, one of a day at most.
Rolling(S, p) ==
    LET days == {b \in 1..Lookback : \E q \in SameLocal(p, b) : Available(S, q)}
        used == UNION {SameLocal(p, b) : b \in days}
        of(q) == Total(Selected(S, q))
        values == CHOOSE s \in SetToSeqs(used) : \A i, j \in DOMAIN s : i < j => of(s[i]) <= of(s[j])
        v == [i \in DOMAIN values |-> of(values[i])]
        below == Cardinality({q \in used : of(q) < of(p)})
        equal == Cardinality({q \in used : of(q) = of(p)})
    IN  IF ~Available(S, p) THEN NoRolling(<<>>)
        ELSE IF ~Enough(Cardinality(used), Lookback)
        THEN [NoRolling(<<of(p)>>) EXCEPT !.days = days]
        ELSE [known |-> <<of(p)>>, days |-> days,
              stats |-> <<Quantile(v, 2), Quantile(v, 1), Quantile(v, 3), 2 * below + equal>>,
              ids |-> UNION {Selected(S, q) : q \in used \cup {p}}]

\* Nothing is compared with a half-hour that has no value.
Point(S, p, targets) ==
    {[from |-> q, ids |-> Selected(S, q), change |-> Total(Selected(S, p)) - Total(Selected(S, q))] :
       q \in {t \in targets : Available(S, p) /\ Available(S, t)}}

\* compare_history.
Comparison(S, p) ==
    [previous |-> Point(S, p, {p - 1}), yesterday |-> Point(S, p, SameLocal(p, 1)),
     week |-> Point(S, p, SameLocal(p, Week)), rolling |-> Rolling(S, p)]

-----------------------------------------------------------------------------
(* The evidence, and the days that pass.                                   *)

Stamps(D) == {<<p, k>> : p \in UNION {Periods(d) : d \in D}, k \in Cadence}
Firsts(T) == {[at |-> t[1], stamp |-> t[2], rev |-> 0] : t \in T}

Tick ==
    /\ today < calendar[Len(calendar)].day
    /\ today' = today + 1
    /\ samples' = samples \cup Firsts(Stamps({today + 1}) \ holes)
    /\ UNCHANGED <<calendar, holes, work, tables>>

\* A sample of a completed day that was missing arrives, or one that was there is corrected.
Arrive ==
    /\ Cardinality(samples) < Cardinality(Stamps(1..today) \ holes) + MaxLate
    /\ \E t \in Late :
         /\ t[1] < First(today)
         /\ LET known == {s.rev : s \in {q \in samples : q.at = t[1] /\ q.stamp = t[2]}}
            IN  samples' = samples \cup
                  {[at |-> t[1], stamp |-> t[2], rev |-> Max(known \cup {-1}) + 1]}
    /\ UNCHANGED <<calendar, holes, today, work, tables>>

-----------------------------------------------------------------------------
(* The job.                                                                *)

\* NormalizedHistoryRepository.load: the samples of a window of half-hours.
In(S, from, upto) == {s \in S : from <= s.at /\ s.at < upto}
ReadStart(d) == First(Max({1, d - Lookback}))

\* A chunk of completed days, read in one statement from the days that its baselines need.
Load ==
    /\ work = Idle \/ work.stored
    /\ \E from \in (Lookback + 1)..(today - 1) : \E upto \in (from + 1)..today :
         /\ upto - from <= ChunkDays
         /\ work' = [from |-> from, upto |-> upto, all |-> samples, stored |-> FALSE,
                     read |-> In(samples, ReadStart(from), First(upto))]
    /\ UNCHANGED <<calendar, holes, today, samples, tables>>

\* _next_revision: a revision for content that differs from the newest.
Appended(T, content) ==
    LET stored(k) == {r \in T : r.key = k}
        next(k) == Max({r.rev : r \in stored(k)} \cup {-1}) + 1
        same(k) == \E r \in stored(k) : r.rev = next(k) - 1 /\ r.content = content[k]
    IN  T \cup {[key |-> k, rev |-> next(k), content |-> content[k]] :
                  k \in {j \in DOMAIN content : ~same(j)}}

\* The constraints of the three tables.
CoverageStored(c) == c.expected > 0 /\ c.observed \in 0..c.expected
AggregateStored(c) == c.mean # <<>> => c.mean[2] \in 0..c.coverage.expected
BaselineStored(c) == c.stats # <<>> => c.stats[2] <= c.stats[1] /\ c.stats[1] <= c.stats[3]
Numbered(T, U) == \A r \in U \ T : ~\E q \in T : q.key = r.key /\ q.rev = r.rev

Persist ==
    /\ work # Idle /\ ~work.stored
    /\ LET days == work.from..(work.upto - 1)
           halves == UNION {Periods(d) : d \in days}
       IN  /\ coverage' = Appended(coverage, [d \in days |-> CoverageOf(work.read, d)])
           /\ aggregates' = Appended(aggregates, [d \in days |-> AggregateOf(work.read, d)])
           /\ baselines' = Appended(baselines, [p \in halves |-> Rolling(work.read, p)])
    /\ \A r \in coverage' \ coverage : CoverageStored(r.content)
    /\ \A r \in aggregates' \ aggregates : AggregateStored(r.content)
    /\ \A r \in baselines' \ baselines : BaselineStored(r.content)
    /\ Numbered(coverage, coverage') /\ Numbered(aggregates, aggregates')
    /\ Numbered(baselines, baselines')
    /\ work' = [work EXCEPT !.stored = TRUE]
    /\ UNCHANGED <<calendar, holes, today, samples>>

\* A run that fails leaves nothing of its transaction.
Abandon == work # Idle /\ work' = Idle /\ UNCHANGED <<calendar, holes, today, samples, tables>>

Init ==
    /\ calendar \in Calendars /\ holes \in Holes
    /\ today = Today
    /\ samples = Firsts(Stamps(1..Today) \ holes)
    /\ work = Idle
    /\ coverage = {} /\ aggregates = {} /\ baselines = {}

Next == Tick \/ Arrive \/ Load \/ Persist \/ Abandon

-----------------------------------------------------------------------------
(* The comparison of the current reading, _metric_context.                 *)

\* A day more than the lookback, in UTC; every sample of a half-hour is required.
Context(p) == Comparison(In(samples, p - (Lookback + 1) * PerDay, p + 1), p)

-----------------------------------------------------------------------------

Complete(S, p) == /\ \A k \in Cadence : \E s \in S : s.at = p /\ s.stamp = k
                  /\ \A s \in S : s.at = p => s.stamp \in Cadence
Latest(S, P) == {s \in S : /\ s.at \in P
                           /\ \A q \in S : q.at = s.at /\ q.stamp = s.stamp => q.rev <= s.rev}
Now(T, k) == (CHOOSE r \in {q \in T : q.key = k} : \A q \in T : q.key = k => q.rev <= r.rev).content

\* The half-hours with the time of day of p on the days before it that count.
Usual(S, p) ==
    {q \in 1..(p - 1) :
       /\ Complete(S, q)
       /\ DayOf(q) < DayOf(p) /\ DayOf(p) - DayOf(q) <= Lookback
       /\ SameTime(q, p)
       /\ \/ SameOffset(q, p)
          \/ \A r \in Periods(DayOf(q)) \ {q} : ~SameTime(r, p)}

DayKept(S, d) ==
    LET P == {p \in Periods(d) : Complete(S, p)}
        mean == Now(aggregates, d).mean
    IN  /\ Now(coverage, d).observed = Cardinality(P)
        /\ mean # <<>> <=> Cardinality(P) * 100 >= MinCoverage * Expected(d)
        /\ mean # <<>> => mean = <<Total(Latest(S, P)), Cardinality(P)>>

BaselineKept(S, p) ==
    LET b == Now(baselines, p)
        U == Usual(S, p)
        V == {Total(Latest(S, {q})) : q \in U}
    IN  /\ b.stats # <<>> <=> Complete(S, p) /\ Cardinality(U) * 100 >= MinCoverage * Lookback
        /\ b.stats # <<>> =>
             /\ \A q, r \in U : DayOf(q) = DayOf(r) => q = r
             /\ b.ids = Latest(S, U \cup {p})
             /\ 4 * Min(V) <= b.stats[2] /\ b.stats[2] <= b.stats[1]
             /\ b.stats[1] <= b.stats[3] /\ b.stats[3] <= 4 * Max(V)

\* A revision says something that the one before it did not.
RevisedOnlyIfChanged(T) ==
    \A r \in T : r.rev > 0 =>
        \E q \in T : q.key = r.key /\ q.rev = r.rev - 1 /\ q.content # r.content

\* What a run has stored says what all of the evidence of its moment says, however that was
\* corrected and whichever chunk the day fell into: a day or a usual value rests on complete
\* half-hours and their newest samples, each earlier day counts once, at the same time on the
\* clock, on days of any length, and nothing is revised without a change.  The comparison of
\* a reading that the API makes of the same evidence agrees with the baseline stored for it
\* (materialize.py:194-338, service.py:53-90, 227-345, materialization_job.py:485-640).
HistoryExact ==
    /\ work.stored =>
         \A d \in work.from..(work.upto - 1) :
            /\ DayKept(work.all, d)
            /\ \A p \in Periods(d) :
                 /\ BaselineKept(work.all, p)
                 /\ work.all = samples => Context(p).rolling = Now(baselines, p)
    /\ RevisedOnlyIfChanged(coverage) /\ RevisedOnlyIfChanged(aggregates)
    /\ RevisedOnlyIfChanged(baselines)
    /\ \A p \in Periods(today) :
         LET c == Context(p)
         IN  /\ \A x \in c.yesterday \cup c.week :
                  /\ Complete(samples, x.from) /\ x.ids = Latest(samples, {x.from})
                  /\ SameTime(x.from, p)
             /\ Complete(samples, p) =>
                  /\ c.previous # {} <=> Complete(samples, p - 1)
                  /\ c.yesterday # {} <=> \E q \in Usual(samples, p) : DayOf(q) = today - 1
                  /\ c.rolling.ids # {} => c.rolling.ids = Latest(samples, Usual(samples, p) \cup {p})
=============================================================================
