------------------------------ MODULE GridReads ------------------------------
(***************************************************************************)
(* The answer of /v1/grid/current (app/api/routes.py, app/persistence/     *)
(* reads.py, app/api/presenter.py, app/api/status.py): the newest readings *)
(* of five families, read by statements with a snapshot each beside the    *)
(* deliveries that append rows, and two verdicts on their freshness.       *)
(* Times are in units of five minutes, as are the policies.                *)
(***************************************************************************)
EXTENDS Integers, FiniteSets, FiniteSetsExt, Sequences

CONSTANTS
    Fuels, Connectors,  \* series of generation and of interconnectors
    Clock,              \* the moments the model visits
    Start,              \* the moment of the first deliveries
    MaxDeliveries       \* bound on the deliveries after them

GridAssumption ==
    /\ IsFiniteSet(Fuels) /\ IsFiniteSet(Connectors)
    /\ Start \in Int /\ Clock \subseteq Int

VARIABLES
    now,
    rows,        \* the observation tables: one row per revision of an identity
    deliveries,
    seen,        \* history: the rows when the request began
    got,         \* the request: what each of its statements returned
    answer       \* the response, or why there is none

vars == <<now, rows, deliveries, seen, got, answer>>

None == [at |-> -1]
Families == {"generation", "demand", "frequency", "interconnectors", "carbon"}
Required == {"generation", "demand", "carbon"}
Series == [f \in Families |-> IF f = "generation" THEN Fuels
                              ELSE IF f = "interconnectors" THEN Connectors ELSE {"gb"}]

\* The cadence of the source, and the thresholds of the family: the facts live and
\* stale, the delivery healthy and stale (late).
Policy ==
    [generation      |-> [cadence |-> 1, live |-> 2, stale |-> 3,  healthy |-> 1, late |-> 2],
     demand          |-> [cadence |-> 6, live |-> 9, stale |-> 13, healthy |-> 2, late |-> 4],
     frequency       |-> [cadence |-> 0, live |-> 0, stale |-> 2,  healthy |-> 0, late |-> 2],
     interconnectors |-> [cadence |-> 1, live |-> 2, stale |-> 3,  healthy |-> 1, late |-> 2],
     carbon          |-> [cadence |-> 6, live |-> 6, stale |-> 13, healthy |-> 2, late |-> 4]]

-----------------------------------------------------------------------------
(* Deliveries: each is one transaction of the ingestion. *)

Reading(f, s, at, rev) == [fam |-> f, series |-> s, at |-> at, rev |-> rev, ret |-> now]

\* A fact that differs from the newest revision of its identity becomes the next one.
Row(f, s, at) ==
    Reading(f, s, at, Cardinality({r \in rows : r.fam = f /\ r.series = s /\ r.at = at}))

\* The five-minute file of generation and flows, the newest or one of a quarter of an hour
\* ago; a line that cannot be parsed is left out of it.
FuelFile(at, fuels) ==
    {Row("generation", s, at) : s \in fuels} \cup {Row("interconnectors", c, at) : c \in Connectors}

\* Demand and carbon are published for a half hour that is over.
HalfHour(f) == {Row(f, "gb", 6 * (now \div 6) - 6)}

Delivered == {FuelFile(at, fuels) : at \in {now - 3, now}, fuels \in (SUBSET Fuels) \ {{}}}
               \cup {HalfHour("demand"), HalfHour("carbon"), {Row("frequency", "gb", now)}}

Deliver(W) ==
    /\ deliveries < MaxDeliveries /\ deliveries' = deliveries + 1
    /\ \A r \in W : r.rev <= 1
    /\ rows' = rows \cup W
    /\ UNCHANGED <<now, seen, got, answer>>

-----------------------------------------------------------------------------
(* The request. *)

Newer(r, q) == r.at > q.at \/ (r.at = q.at /\ r.rev > q.rev)
\* Slip: the reading stored last is taken for the newest.
NewestByRetrieval(R) == {r \in R : \A q \in R : ~(q.ret > r.ret \/ (q.ret = r.ret /\ Newer(q, r)))}
Newest(R) == {r \in R : \A q \in R : ~Newer(q, r)}

Until(f, cutoff) == {r \in rows : r.fam = f /\ r.at <= cutoff}
BySeries(R) == UNION {Newest({r \in R : r.series = s}) : s \in {q.series : q \in R}}

\* The newest instant of any fuel, and the fuels that have a row at it.
Generation(cutoff) ==
    LET R == Until("generation", cutoff) IN BySeries({r \in R : \A q \in R : q.at <= r.at})
\* Flows of the last half hour, each connector for itself.
Interconnectors(cutoff) == BySeries({r \in Until("interconnectors", cutoff) : r.at >= cutoff - 6})
Latest(f, cutoff) == Newest(Until(f, cutoff))

Statement(n, cutoff) ==
    CASE n = 1 -> Generation(cutoff)
      [] n = 2 -> Latest("demand", cutoff)
      [] n = 3 -> Latest("frequency", cutoff)
      [] n = 4 -> Interconnectors(cutoff)
      [] n = 5 -> Latest("carbon", cutoff)
      \* current_grid: what the changes of an hour compare with
      [] n = 6 -> Generation(cutoff - 12)
      [] n = 7 -> Interconnectors(cutoff - 12)

NoRequest == [at |-> 0, parts |-> <<>>]

Begin ==
    /\ got = NoRequest /\ answer = None
    /\ got' = [at |-> now, parts |-> <<>>] /\ seen' = rows
    /\ UNCHANGED <<now, rows, deliveries, answer>>

Read ==
    /\ got # NoRequest /\ Len(got.parts) < 7
    /\ got' = [got EXCEPT !.parts = Append(@, Statement(Len(@) + 1, got.at))]
    /\ UNCHANGED <<now, rows, deliveries, seen, answer>>

Readings == UNION {got.parts[n] : n \in 1..5}
Family(f) == {r \in Readings : r.fam = f}
Age(f) == got.at - Min({r.at : r \in Family(f)})
Lag(f) == got.at - Min({r.ret : r \in Family(f)})

\* _reading_is_stale: two cadences of the source and five minutes, or ten minutes.
IsStale(r) == got.at - r.at > Max({2, 2 * Policy[r.fam].cadence + 1})

\* _delivery_state, _fact_state and _combined_family_state.
Grade(x, good, bad) == IF x <= good THEN 0 ELSE IF x < bad THEN 1 ELSE 2
State(f) ==
    IF Family(f) = {} THEN 3
    ELSE Max({Grade(Lag(f), Policy[f].healthy, Policy[f].late),
              Grade(Age(f), Policy[f].live, Policy[f].stale)})

\* present_freshness_summary: the worst state of the required families; families that are
\* all current still differ in cadence.
Summary == <<"mixed", "delayed", "stale", "unavailable">>[1 + Max({State(f) : f \in Required})]

\* present_current: refused when a required family is absent.
Present ==
    /\ Len(got.parts) = 7 /\ answer = None
    /\ answer' =
          IF \E f \in Required : Family(f) = {} THEN [ok |-> FALSE, at |-> got.at]
          ELSE [ok |-> TRUE, at |-> got.at, readings |-> Readings,
                effective |-> Max({r.at : r \in Readings}),
                age |-> Max({0, got.at - Min({r.at : r \in Readings})}),
                freshness |-> IF \E r \in Readings : IsStale(r) THEN "stale" ELSE "live",
                summary |-> Summary,
                \* fuels with a reading to compare with; the others show no change
                compared |-> {p \in Family("generation") \X got.parts[6] : p[1].series = p[2].series}]
    /\ UNCHANGED <<now, rows, deliveries, seen, got>>

Tick(t) == t > now /\ now' = t /\ UNCHANGED <<rows, deliveries, seen, got, answer>>

Init ==
    /\ now = Start /\ deliveries = 0 /\ seen = {} /\ got = NoRequest /\ answer = None
    /\ \/ rows = {}
       \/ rows = UNION {{Reading(f, s, IF Policy[f].cadence = 6 THEN now - 6 ELSE now, 0)
                            : s \in Series[f]} : f \in Families}

Next ==
    \/ Begin \/ Read \/ Present
    \/ \E W \in Delivered : Deliver(W)
    \/ \E t \in Clock : Tick(t)

Spec == Init /\ [][Next]_vars
-----------------------------------------------------------------------------
(* Properties *)

\* What the tables held for a family when the request began.
Held(f) == {r \in seen : r.fam = f /\ r.at <= answer.at}

\* Nothing is shown that a reading stored before the request supersedes: the same series
\* newer or corrected, or, for generation, any fuel at a later instant.
NothingSuperseded ==
    \A f \in Families : \A r \in Held(f) :
       (f = "interconnectors" => r.at >= answer.at - 6)
         => \E q \in answer.readings :
               /\ q.fam = f
               /\ \/ q.series = r.series /\ ~Newer(r, q)
                  \/ f = "generation" /\ q.at > r.at

\* The two verdicts of one answer, computed from different thresholds, agree on the
\* required families: a reading the first calls stale is not current for the second.
VerdictsAgree ==
    (\E r \in answer.readings : r.fam \in Required /\ IsStale(r)) => answer.summary = "stale"

\* A request is refused only when a required family was empty when it began, and an
\* answer shows nothing superseded under verdicts that agree, whatever is delivered
\* between its statements.
SnapshotHonest ==
    answer # None =>
       IF answer.ok THEN NothingSuperseded /\ VerdictsAgree /\ answer.effective <= answer.at
       ELSE \E f \in Required : {r \in seen : r.fam = f} = {}
=============================================================================
