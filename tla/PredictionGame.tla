--------------------------- MODULE PredictionGame ---------------------------
(***************************************************************************)
(* The resolution of one daily prediction: the readings of the evidence    *)
(* window (app/persistence/reads.py), the rule (app/game/resolution.py)    *)
(* and the ledger of results (app/persistence/game.py), for concurrent     *)
(* requests and a publisher that corrects its readings.                    *)
(*                                                                         *)
(* A request computes its result from what it read and only then takes the *)
(* transaction-scoped advisory lock under which a revision is numbered.    *)
(***************************************************************************)
EXTENDS Integers, FiniteSets, FiniteSetsExt

CONSTANTS Requests,      \* the running calls of the endpoint
          Registries,    \* the connector registries a date can have
          Feeds,         \* the connectors that are published
          Flows,         \* the readings a connector can publish, in MW
          Band,          \* NEAR_BALANCED_THRESHOLD_MW
          Target,        \* 18:00 Europe/London
          Reach,         \* the evidence window is Target - Reach .. Target + Reach
          MaxReadings,   \* bound on the stored readings
          MaxTime        \* bound of the clock, in minutes

\* What the game's configuration gives: a registry names its connectors, flows are whole
\* megawatts.
GameAssumption ==
  /\ "none" \notin Requests
  /\ Flows \subseteq Int /\ Band \in Nat /\ Target \in Int /\ Reach \in Nat
  /\ \A R \in Registries : R # {} /\ IsFiniteSet(R)

None == "none"
Span == (Target - Reach)..(Target + Reach)
ResolvesTo == Target + Reach
Idle == [pc |-> "idle"]

VARIABLES
  Connectors, \* expected_connector_ids of the date's registry; never changes
  clock,      \* the minute, to which the endpoint truncates its instant
  readings,   \* stored readings: connector, at, rev, mw, seen (retrieved_at)
  ledger,     \* prediction_resolution_revisions of this prediction and rule
  lock,       \* the holder of the advisory lock
  call        \* the running requests

vars == <<Connectors, clock, readings, ledger, lock, call>>

-----------------------------------------------------------------------------
(* get_interconnector_observations and build_prediction_resolution. *)

\* The newest revision of each reading of the window that was retrieved by `asOf`.
Raw(asOf) == {r \in readings : r.at \in Span /\ r.seen <= asOf}

\* Slip: every revision of a reading is read.
AnyRevision(asOf) == Raw(asOf)
Visible(asOf) ==
  LET seen == {r \in Raw(asOf) : r.connector \in Connectors}
  IN  {r \in seen : \A q \in seen : q.at = r.at /\ q.connector = r.connector => q.rev <= r.rev}

Snapshot(rs, t) == {r \in rs : r.at = t}
Distance(t) == IF t < Target THEN Target - t ELSE t - Target

\* min over the groups: the most complete, then the nearest, then the later.
Better(rs, s, t) ==
  LET n(u) == Cardinality(Snapshot(rs, u))
  IN  \/ n(s) > n(t)
      \/ n(s) = n(t) /\ Distance(s) < Distance(t)
      \/ n(s) = n(t) /\ Distance(s) = Distance(t) /\ s > t
Best(rs) ==
  CHOOSE s \in {r.at : r \in rs} : \A t \in {r.at : r \in rs} \ {s} : Better(rs, s, t)

Net(snapshot) == FoldSet(LAMBDA r, sum : r.mw + sum, 0, snapshot)
Magnitude(n) == IF n < 0 THEN -n ELSE n

Void == [state |-> "void", outcome |-> None, on |-> {}]

\* Complete snapshots outside the band decide; everything else is void.
Verdict(rs) ==
  IF rs = {} THEN Void
  ELSE LET s == Snapshot(rs, Best(rs))
       IN  IF Cardinality(s) < Cardinality(Connectors) THEN Void
           ELSE IF Magnitude(Net(s)) <= Band THEN [Void EXCEPT !.on = s]
           ELSE [state |-> "resolved", on |-> s,
                 outcome |-> IF Net(s) > 0 THEN "importing" ELSE "exporting"]

\* evidence_checksum: what is void for want of a snapshot counts the connectors seen.
Coverage(rs) == IF rs = {} THEN 0 ELSE Cardinality(Snapshot(rs, Best(rs)))
Checksum(c) == [result |-> c.result, coverage |-> c.coverage]

-----------------------------------------------------------------------------
(* prediction_resolution and PostgresPredictionResolutionLedger.persist. *)

Keeps == UNCHANGED <<Connectors, clock, readings>>

\* Before the window closes the answer is pending and nothing is stored.
Arrive(c) ==
  /\ call[c] = Idle
  /\ call' = [call EXCEPT ![c] =
       [pc |-> IF clock < ResolvesTo THEN "pending" ELSE "read", asOf |-> clock,
        seen |-> {}, result |-> Void, coverage |-> 0, revision |-> 0]]
  /\ Keeps /\ UNCHANGED <<ledger, lock>>

\* The observations are read and the candidate is computed from them.
Compute(c) ==
  /\ call[c].pc = "read"
  /\ LET rs == Visible(call[c].asOf)
     IN  call' = [call EXCEPT ![c].pc = "candidate", ![c].seen = Raw(call[c].asOf),
                              ![c].result = Verdict(rs), ![c].coverage = Coverage(rs)]
  /\ Keeps /\ UNCHANGED <<ledger, lock>>

Lock(c) ==
  /\ call[c].pc = "candidate" /\ lock = None
  /\ lock' = c /\ call' = [call EXCEPT ![c].pc = "locked"]
  /\ Keeps /\ UNCHANGED ledger

Ends(c, pc, n) ==
  /\ call' = [call EXCEPT ![c].pc = pc, ![c].revision = n]
  /\ lock' = IF lock = c THEN None ELSE lock

\* The same evidence was resolved before: its immutable row is the answer.
Known(c) ==
  /\ call[c].pc = "locked"
  /\ \E r \in ledger : r.checksum = Checksum(call[c]) /\ Ends(c, "answered", r.number)
  /\ Keeps /\ UNCHANGED ledger

\* Otherwise the next number is read and the row is inserted.
Latest == IF ledger = {} THEN 0 ELSE Max({r.number : r \in ledger})
Number(c) ==
  /\ call[c].pc = "locked"
  /\ \A r \in ledger : r.checksum # Checksum(call[c])
  /\ call' = [call EXCEPT ![c].pc = "numbered", ![c].revision = Latest + 1]
  /\ Keeps /\ UNCHANGED <<ledger, lock>>

\* ON CONFLICT DO NOTHING: when the number or the evidence is taken, nothing is
\* inserted, and the row of the same evidence is the answer if there is one.
Insert(c) ==
  /\ call[c].pc = "numbered"
  /\ LET same == {r \in ledger : r.checksum = Checksum(call[c])}
     IN  IF same = {} /\ \A r \in ledger : r.number # call[c].revision
         THEN /\ Ends(c, "answered", call[c].revision)
              /\ ledger' = ledger \cup {[number |-> call[c].revision, asOf |-> call[c].asOf,
                                         checksum |-> Checksum(call[c])]}
         ELSE /\ UNCHANGED ledger
              /\ IF same = {} THEN Ends(c, "failed", 0)
                 ELSE \E r \in same : Ends(c, "answered", r.number)
  /\ Keeps

\* A statement of the transaction fails or the process ends: the lock is gone with the
\* transaction, and the endpoint answers 503.  A request that fails earlier leaves
\* nothing behind, like one that never goes on.
Fail(c) ==
  /\ call[c].pc \in {"locked", "numbered"}
  /\ Ends(c, "failed", 0)
  /\ Keeps /\ UNCHANGED ledger

-----------------------------------------------------------------------------
(* The ingestion stores readings and corrections of them; time passes. *)

Publish(k, t, mw) ==
  /\ Cardinality(readings) < MaxReadings /\ t <= clock
  /\ LET stored == {r \in readings : r.connector = k /\ r.at = t}
         rev == IF stored = {} THEN 1 ELSE Max({r.rev : r \in stored}) + 1
     IN  /\ \A r \in stored : r.rev = rev - 1 => r.mw # mw
         /\ readings' = readings \cup
              {[connector |-> k, at |-> t, rev |-> rev, mw |-> mw, seen |-> clock]}
  /\ UNCHANGED <<Connectors, clock, ledger, lock, call>>

ClockTick == clock < MaxTime /\ clock' = clock + 1 /\ UNCHANGED <<Connectors, readings, ledger, lock, call>>

Init ==
  /\ Connectors \in Registries
  /\ clock = ResolvesTo - 1 /\ readings = {} /\ ledger = {} /\ lock = None
  /\ call = [c \in Requests |-> Idle]

Resolve(c) == Arrive(c) \/ Compute(c) \/ Lock(c) \/ Known(c) \/ Number(c) \/ Insert(c) \/ Fail(c)

Next ==
  \/ \E c \in Requests : Resolve(c)
  \/ \E k \in Feeds, t \in Span, mw \in Flows : Publish(k, t, mw)
  \/ ClockTick

Spec == Init /\ [][Next]_vars

-----------------------------------------------------------------------------
(* Properties. *)

\* A decided prediction rests on one instant at which every connector was reported,
\* each in its newest revision then retrieved; no complete instant is nearer to the
\* target; the sign of the net flow is the outcome; and with such an instant inside
\* the window the prediction is not void for want of evidence.
Fair(c) ==
  LET seen == call[c].seen
      newest == {r \in seen : r.connector \in Connectors /\ ~\E q \in seen :
                    q.connector = r.connector /\ q.at = r.at /\ q.rev > r.rev}
      full == {t \in Span : \A k \in Connectors : \E r \in newest : r.connector = k /\ r.at = t}
      on == call[c].result.on
  IN  /\ call[c].result.outcome = "importing" => Net(on) > Band
      /\ call[c].result.outcome = "exporting" => Net(on) < -Band
      /\ on # {} => \E t \in full :
           /\ on = {r \in newest : r.at = t}
           /\ \A u \in full : Distance(t) <= Distance(u)
           /\ call[c].result.state = "void" => Magnitude(Net(on)) <= Band
      /\ on = {} => full = {}

\* The results of a prediction are numbered without gaps, one for each evidence, and
\* what a request is told is the row of the evidence it read, also when concurrent
\* requests computed other results.
VerdictFair ==
  /\ \A c \in Requests : call[c].pc = "answered" =>
       /\ Fair(c)
       /\ \E r \in ledger : r.number = call[c].revision /\ r.checksum = Checksum(call[c])
  /\ {r.number : r \in ledger} = 1..Cardinality(ledger)
  /\ \A r, q \in ledger : r.checksum = q.checksum => r = q
=============================================================================
