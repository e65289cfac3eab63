------------------------------ MODULE Timeline ------------------------------
(***************************************************************************)
(* The answer of /v1/grid/timeline: rows of a window, read at their newest *)
(* revision and thinned out (app/persistence/reads.py), then carried from  *)
(* bucket to bucket into samples (present_timeline in                      *)
(* app/api/presenter.py), with forecasts after the present moment.         *)
(***************************************************************************)
EXTENDS Integers, FiniteSets, FiniteSetsExt, Sequences, SequencesExt

CONSTANTS
    Inputs,        \* what the tables hold: sets of rows
    Requests,      \* window_start, window_end and the moment of the request
    Resolution, MaterialGap

\* A row: family, series, moment and revision; a forecast adds when it was issued.
Families == {"demand", "carbon", "frequency", "generation"}

\* Answers are finite; only the generation has more than one series, and the periods that
\* are forecast do not change their length.
TimelineAssumption ==
    /\ Resolution \in Nat \ {0} /\ MaterialGap \in Int
    /\ \A I \in Inputs :
         /\ IsFiniteSet(I)
         /\ \A r \in I : r.at \in Int /\ r.rev \in Int
         /\ \A r \in I : r.fam \notin Families => r.issued \in Int
         /\ \A q, r \in I : q.fam = r.fam =>
              /\ q.fam \in Families \ {"generation"} => q.series = r.series
              /\ q.fam \notin Families /\ q.at = r.at => q.length = r.length
    /\ \A r \in Requests : r.start \in Int /\ r.end \in Int /\ r.now \in Int

VARIABLES input, request, samples

vars == <<input, request, samples>>

Unanswered == <<[at |-> -1]>>

start == request.start
end == request.end
\* Nothing after the present, or after the window, is observed.
boundary == Min({request.now, end})

Bucket(t) == t - (t % Resolution)
Grid(a, b) == {t \in a..b : t % Resolution = 0}

-----------------------------------------------------------------------------
(* The read. *)

Asked(f) == {r \in input : r.fam = f /\ start <= r.at /\ r.at < end}

\* _between_statement: the newest revision of an identity.
Between(f) ==
    {r \in Asked(f) : \A q \in Asked(f) : q.series = r.series /\ q.at = r.at => q.rev <= r.rev}

\* _downsample: the last row of a series in a bucket.
Downsampled(f) ==
    {r \in Between(f) : \A q \in Between(f) :
        q.series = r.series /\ Bucket(q.at) = Bucket(r.at) => q.at <= r.at}

\* _latest_forecasts_statement: the newest issue for a validity that touches the window.
Forecasts(m) ==
    LET R == {r \in input : r.fam = m /\ r.at < end /\ r.at + r.length > start}
    IN  {r \in R : \A q \in R : q.at = r.at => <<q.issued, q.rev>> = <<r.issued, r.rev>>
                                   \/ q.issued < r.issued
                                   \/ (q.issued = r.issued /\ q.rev < r.rev)}

-----------------------------------------------------------------------------
(* The presentation. *)

InBucket(f, c) == {r \in Downsampled(f) : Bucket(r.at) = c}

\* _latest_by_bucket; generation keeps every series of the bucket.
OfBucket(f, c) ==
    IF f = "generation" THEN InBucket(f, c)
    ELSE {r \in InBucket(f, c) : \A q \in InBucket(f, c) : q.at <= r.at}

\* The loop over the buckets: each keeps what the one before had, unless it has its own.
Carried(f) ==
    LET carried[c \in Grid(Bucket(start), Bucket(end))] ==
          IF OfBucket(f, c) # {} THEN OfBucket(f, c)
          ELSE IF c = Bucket(start) THEN {} ELSE carried[c - Resolution]
    IN  carried

Observed ==
    LET required == {"demand", "carbon", "generation"}
        latest == [f \in Families |-> Carried(f)]
        facts(c) == UNION {latest[f][c] : f \in required}
        near(r, c) == c - r.at <= MaterialGap
    IN  [c \in {d \in Grid(Bucket(start), Bucket(end)) :
                  /\ d <= boundary
                  /\ \A f \in required : latest[f][d] # {}
                  /\ \A r \in facts(d) : near(r, d)}
           |-> facts(c) \cup {r \in latest["frequency"][c] : near(r, c)}]

\* _latest_forecasts_by_bucket: the newest issue, the first of those issued together.
ForecastOf(m, c) ==
    LET R == {r \in Forecasts(m) : Bucket(r.at) = c}
    IN  {r \in R : \A q \in R : q.issued < r.issued \/ (q.issued = r.issued /\ q.at >= r.at)}

\* Slip: the bucket that contains the present moment is not passed over.
FirstAtPresent == Bucket(Max({start, boundary}))

FirstForecast ==
    LET c == Bucket(Max({start, boundary})) IN IF c <= boundary THEN c + Resolution ELSE c

Forecast ==
    [c \in {d \in Grid(FirstForecast, Bucket(end)) :
              \A m \in {"demand forecast", "carbon forecast"} : ForecastOf(m, d) # {}}
       |-> ForecastOf("demand forecast", c) \cup ForecastOf("carbon forecast", c)]

\* In ascending order.
Nth(S, i) == CHOOSE c \in S : Cardinality({d \in S : d < c}) = i - 1
Samples(F, class) ==
    [i \in 1..Cardinality(DOMAIN F) |->
        LET c == Nth(DOMAIN F, i) IN [at |-> c, class |-> class, facts |-> F[c]]]

Answer ==
    /\ samples = Unanswered
    /\ samples' = Samples(Observed, "observed") \o Samples(Forecast, "forecast")
    /\ UNCHANGED <<input, request>>

Init == input \in Inputs /\ request \in Requests /\ samples = Unanswered
Next == Answer
Spec == Init /\ [][Next]_vars
-----------------------------------------------------------------------------
(* Properties *)

\* What a reader expects of a bucket: the newest correction of the newest reading
\* before its end, for each series of the newest bucket that has one.
Expected(f, c) ==
    LET R == {r \in input : r.fam = f /\ start <= r.at /\ r.at < Min({end, c + Resolution})}
        last == {r \in R : \A q \in R : q.at \div Resolution <= r.at \div Resolution}
    IN  {r \in last : \A q \in last :
           (q.series = r.series) => (q.at < r.at \/ (q.at = r.at /\ q.rev <= r.rev))}

\* Every bucket of the window has at most one sample, in order of time, and changes its
\* class once, at the present moment: none is both observed and forecast.  An observed
\* sample shows, for each required family, exactly the newest corrected readings before
\* the end of its bucket, and is left out exactly when one is missing or older than the
\* gap allows.  A forecast is never replaced by an issue that is older.
TimelineExact ==
    samples # Unanswered =>
      /\ \A i, j \in DOMAIN samples : i < j => samples[i].at < samples[j].at
      /\ \A c \in Grid(Bucket(start), Bucket(end)) :
           LET E == [f \in Families |-> Expected(f, c)]
               all == E["demand"] \cup E["carbon"] \cup E["generation"]
               due == /\ c <= boundary
                      /\ E["demand"] # {} /\ E["carbon"] # {} /\ E["generation"] # {}
                      /\ \A r \in all : r.at >= c - MaterialGap
               shown == {s \in ToSet(samples) : s.at = c /\ s.class = "observed"}
           IN  IF due THEN \E s \in shown : s.facts \ E["frequency"] = all ELSE shown = {}
      /\ \A s \in ToSet(samples) : s.class = "forecast" =>
           /\ s.at > boundary
           /\ \A r \in s.facts : \A q \in input :
                q.fam = r.fam /\ q.at = r.at => q.issued <= r.issued
=============================================================================
