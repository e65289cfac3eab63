--------------------------- MODULE ForecastScores ---------------------------
(***************************************************************************)
(* What a verified forecast is worth (app/forecast_verification): stored   *)
(* forecast vintages and outturns, both of which the sources correct, are  *)
(* paired for a window of days, counted per horizon, appended as pairs and *)
(* results, and read as the newest result of each horizon.  The locks and  *)
(* the retries of the job are in DerivedJobs; here is what it computes.    *)
(***************************************************************************)
EXTENDS Integers, FiniteSets, FiniteSetsExt, Sequences

CONSTANTS
    Basis,         \* where a target takes the vintage of a forecast from
    Valids,        \* the times forecast
    Last,          \* the last moment
    Windows,       \* pairs <<start, end>>
    Edges,         \* the horizons at which one bucket ends and the next begins
    MinSamples, MinCoverage,
    MaxInput,      \* rows of forecasts that one run takes
    MaxEvidence, MaxComputed

\* Horizons begin with the moment of the forecast and leave no gap.
ScoreAssumption ==
    /\ IsFiniteSet(Valids) /\ Valids \subseteq Int
    /\ Edges \in Seq(Int) /\ Len(Edges) > 1 /\ Edges[1] = 0
    /\ \A i, j \in DOMAIN Edges : i < j => Edges[i] < Edges[j]
    /\ \A w \in Windows : w[1] \in Int /\ w[2] \in Int
    /\ MinSamples \in Int /\ MinCoverage \in Int

VARIABLES basis, clock, forecasts, outturns, run, pairs, results

vars == <<basis, clock, forecasts, outturns, run, pairs, results>>

Buckets == 1..(Len(Edges) - 1)
Outermost == Edges[Len(Edges)]
Idle == [window |-> <<>>, forecasts |-> {}, outturns |-> {}]

\* The newest of the revisions that agree on a key.
NewestBy(R, same(_, _)) == {r \in R : \A q \in R : same(q, r) => q.rev <= r.rev}
SameForecast(q, r) == q.valid = r.valid /\ q.vintage = r.vintage
SameOutturn(q, r) == q.at = r.at
SamePair(q, r) == q.bucket = r.bucket /\ SameForecast(q.forecast, r.forecast)
SameBucket(q, r) == q.bucket = r.bucket

NextRev(R) == IF R = {} THEN 0 ELSE Max({r.rev : r \in R}) + 1

-----------------------------------------------------------------------------
(* The evidence: immutable revisions, as RevisionLedger appends them.  The *)
(* value of a revision follows from its number, so a correction changes it. *)

Evidence == Cardinality({<<f.vintage, f.rev>> : f \in forecasts}) + Cardinality(outturns)

\* An issue covers every time from some time on; a correction part of them.  A source that
\* publishes no issue time is captured: its vintage is the retrieval.
StoreForecast ==
    /\ Evidence < MaxEvidence
    /\ \E from \in Valids, i \in 0..clock :
         LET V == {v \in Valids : v >= from}
             before(v) == {f \in forecasts : f.valid = v /\ f.vintage = i}
         IN  /\ basis = "captured" => i = clock /\ \A v \in V : before(v) = {}
             /\ forecasts' = forecasts \cup
                  {[valid |-> v, vintage |-> i, rev |-> NextRev(before(v))] : v \in V}
    /\ UNCHANGED <<basis, clock, outturns, run, pairs, results>>

StoreOutturn ==
    /\ Evidence < MaxEvidence
    /\ \E v \in Valids :
         /\ v < clock
         /\ outturns' = outturns \cup
              {[at |-> v, rev |-> NextRev({o \in outturns : o.at = v})]}
    /\ UNCHANGED <<basis, clock, forecasts, run, pairs, results>>

Tick == clock < Last /\ clock' = clock + 1 /\ UNCHANGED <<basis, forecasts, outturns, run, pairs, results>>

-----------------------------------------------------------------------------
(* The calculation, verify_forecasts. *)

In(w, t) == w[1] <= t /\ t < w[2]

\* HorizonBucket.contains: a shared edge belongs to the later bucket, the last is closed.
Contains(b, horizon) ==
    /\ Edges[b] <= horizon
    /\ horizon < Edges[b + 1] \/ (b + 1 = Len(Edges) /\ horizon = Outermost)

\* _select_vintages: the newest correction of every vintage that is no hindsight.
Vintages(F, w, b) ==
    LET known == {f \in F : In(w, f.valid) /\ f.vintage <= f.valid}
    IN  {f \in NewestBy(known, SameForecast) : Contains(b, f.valid - f.vintage)}

SelectedOutturns(O, w) == NewestBy({o \in O : In(w, o.at)}, SameOutturn)

\* A forecast without an outturn of its exact time is expected, not verified.
PairsOf(F, O, w, b) ==
    {[bucket |-> b, forecast |-> p[1], outturn |-> p[2]] :
       p \in {q \in Vintages(F, w, b) \X SelectedOutturns(O, w) : q[1].valid = q[2].at}}

Measured(p) == p.outturn.rev + 1
Error(p) == p.forecast.rev - Measured(p)
Eligible(verified, expected) ==
    /\ verified >= MinSamples
    /\ expected > 0 /\ verified * 100 >= MinCoverage * expected

Reason(verified, expected) ==
    CASE Eligible(verified, expected) -> "eligible"
      [] expected = 0 -> "no_forecasts"
      [] expected > 0 /\ verified = 0 -> "no_compatible_outturns"
      [] OTHER -> "thresholds_not_met"

\* _aggregate: sums in the place of means; a percentage only of something.  It is stored
\* under a revision of its own.
Aggregate(F, O, w, b) ==
    LET P == PairsOf(F, O, w, b)
        n == Cardinality(P)
        expected == Cardinality(Vintages(F, w, b))
    IN  [rev |-> 0, computed |-> clock, bucket |-> b, window |-> w, verified |-> n, expected |-> expected,
         reason |-> Reason(n, expected),
         bias |-> MapThenSumSet(Error, P),
         mae |-> MapThenSumSet(LAMBDA p : IF Error(p) < 0 THEN -Error(p) ELSE Error(p), P),
         of |-> MapThenSumSet(Measured, P),
         checksum |-> <<Vintages(F, w, b), P>>]

-----------------------------------------------------------------------------
(* A run. *)

\* _forecast_statement: nothing outside the reach of the outermost horizon is read.
Input(w) == {f \in forecasts : /\ In(w, f.valid)
                               /\ w[1] - Outermost <= f.vintage /\ f.vintage <= w[2]}

\* The rows are read under the locks of the two feeds; more than the bound is an error.
Load ==
    /\ run = Idle
    /\ \E w \in Windows :
         /\ w[2] <= clock
         /\ Cardinality(Input(w)) <= MaxInput
         /\ run' = [window |-> w, forecasts |-> Input(w),
                    outturns |-> {o \in outturns : In(w, o.at)}]
    /\ UNCHANGED <<basis, clock, forecasts, outturns, pairs, results>>

\* _append_pairs: a revision for a pair that is not what its newest revision says.
NewPairs(F, O, w) ==
    LET stored(p) == {q \in pairs : SamePair(q, p)}
        same(q, p) == q.forecast = p.forecast /\ q.outturn = p.outturn
        known(p) == \E q \in NewestBy(stored(p), SamePair) : same(q, p)
    IN  {[bucket |-> p.bucket, forecast |-> p.forecast, outturn |-> p.outturn,
          rev |-> NextRev(stored(p))] :
           p \in {r \in UNION {PairsOf(F, O, w, b) : b \in Buckets} : ~known(r)}}

\* Slip: a bucket is what it was when its counts are.
AppendedByCount(new, R) ==
    LET stored(r) == {q \in R : q.bucket = r.bucket /\ q.window = r.window}
        known(r) == \E q \in NewestBy(stored(r), SameBucket) :
                        q.verified = r.verified /\ q.expected = r.expected
    IN  {[r EXCEPT !.rev = NextRev(stored(r))] : r \in {q \in new : ~known(q)}}

\* _append_results: the same for the aggregate of a bucket over the window.
Appended(new, R) ==
    LET stored(r) == {q \in R : q.bucket = r.bucket /\ q.window = r.window}
        known(r) == \E q \in NewestBy(stored(r), SameBucket) : q.checksum = r.checksum
    IN  {[r EXCEPT !.rev = NextRev(stored(r))] : r \in {q \in new : ~known(q)}}

NewResults(F, O, w) == Appended({Aggregate(F, O, w, b) : b \in Buckets}, results)

\* The constraints of the two tables.
PairStored(p) == /\ p.forecast.vintage <= p.forecast.valid
                 /\ \A q \in pairs : SamePair(q, p) => q.rev # p.rev
ResultStored(r) ==
    /\ r.verified <= r.expected
    /\ r.reason = "eligible" => Eligible(r.verified, r.expected)
    /\ \A q \in results : q.bucket = r.bucket /\ q.window = r.window => q.rev # r.rev

Persist ==
    /\ run # Idle
    /\ LET P == NewPairs(run.forecasts, run.outturns, run.window)
           R == NewResults(run.forecasts, run.outturns, run.window)
       IN  /\ \A p \in P : PairStored(p)
           /\ \A r \in R : ResultStored(r)
           /\ pairs' = pairs \cup P
           /\ results' = results \cup R
    /\ Cardinality(results') <= MaxComputed * Cardinality(Buckets)
    /\ run' = Idle
    /\ UNCHANGED <<basis, clock, forecasts, outturns>>

\* A run that fails leaves nothing of its transaction.
Abandon == run # Idle /\ run' = Idle /\ UNCHANGED <<basis, clock, forecasts, outturns, pairs, results>>

Init ==
    /\ basis \in Basis
    /\ clock = 0 /\ run = Idle
    /\ forecasts = {} /\ outturns = {} /\ pairs = {} /\ results = {}

Next == StoreForecast \/ StoreOutturn \/ Tick \/ Load \/ Persist \/ Abandon

-----------------------------------------------------------------------------
(* The answer of /v1/forecasts/verification. *)

Later(q, r) == q.window[2] > r.window[2]
                 \/ (q.window[2] = r.window[2] /\ q.computed > r.computed)
                 \/ (q.window[2] = r.window[2] /\ q.computed = r.computed /\ q.rev > r.rev)
Latest(R, b) == {r \in R : r.bucket = b /\ \A q \in R : q.bucket = b => ~Later(q, r)}

\* _present_item: errors are withheld unless the counts themselves qualify.
Shown(r) ==
    IF r.reason = "eligible" /\ Eligible(r.verified, r.expected)
    THEN [status |-> "available", mae |-> r.mae, bias |-> r.bias,
          wape |-> IF r.of > 0 THEN <<r.mae, r.of>> ELSE <<>>]
    ELSE [status |-> "insufficient_data"]

-----------------------------------------------------------------------------

\* The newest result of the window of a run that has just been stored.
Now(w, b) == CHOOSE r \in {q \in results' : q.bucket = b /\ q.window = w} :
                 \A q \in results' : q.bucket = b /\ q.window = w => q.rev <= r.rev

\* What a run stores is what its evidence says, however often the evidence was corrected
\* since the window was first verified: every vintage issued in time is counted in one
\* horizon and once, by its newest correction; a vintage that is hindsight in none; the
\* error is that against the newest outturn; nothing newer is hidden by an older window,
\* and what is shown as available rests on enough pairs (core.py:271-453, job.py:414-584).
Scored(F, O, w) ==
    LET counted(b) == Now(w, b).checksum[1]
        newest(S, same(_, _), r) == \A q \in S : same(q, r) => q.rev <= r.rev
    IN  /\ \A f \in F : newest(F, SameForecast, f) =>
             Cardinality({b \in Buckets : f \in counted(b)})
               = IF f.vintage <= f.valid /\ f.valid - f.vintage <= Outermost THEN 1 ELSE 0
        /\ \A b \in Buckets :
             /\ \A f \in counted(b) : f \in F /\ newest(F, SameForecast, f)
             /\ \A p \in Now(w, b).checksum[2] : newest(O, SameOutturn, p.outturn)
             /\ Now(w, b).verified = Cardinality({f \in counted(b) : \E o \in O : o.at = f.valid})
             /\ \A p \in Now(w, b).checksum[2] : \E q \in pairs' :
                  /\ q.forecast = p.forecast /\ q.outturn = p.outturn
                  /\ \A s \in pairs' : SamePair(s, q) => s.rev <= q.rev
             /\ \A r \in Latest(results', b) :
                  /\ \A q \in results' : q.bucket = b => q.window[2] <= r.window[2]
                  /\ Shown(r).status = "available" =>
                       /\ r.verified >= MinSamples
                       /\ r.expected * MinCoverage <= r.verified * 100
                       /\ \A f \in r.checksum[1] : f.vintage <= f.valid

\* A run that stores anything leaves what its evidence says (job.py:414-584).
ScoresKept ==
    run # Idle /\ (pairs' # pairs \/ results' # results) =>
        Scored(run.forecasts, run.outturns, run.window)
=============================================================================
