---------------------------- MODULE WindowPlanner ----------------------------
(***************************************************************************)
(* When a poll job is due and which source window it asks for              *)
(* (app/worker/scheduler.py, PollSchedule and WindowPlanner).  Times are   *)
(* integers; a window is half open.                                        *)
(***************************************************************************)
EXTENDS Integers

CONSTANTS
    Cadence,             \* seconds between two attempts of the live job
    Overlap,             \* re-read behind the checkpoint
    InitialLookback,     \* first window of a new deployment
    MaxLookback,         \* max_incremental_lookback
    ReconcileEvery,      \* interval of the reconciliation job, 0 for None
    ReconcileLookback    \* its window

\* PollSchedule.__post_init__.
ASSUME ScheduleAssumption ==
    /\ Cadence \in Nat \ {0}
    /\ Overlap \in Nat \ {0}
    /\ InitialLookback \in Nat \ {0}
    /\ MaxLookback \in Nat \ {0}
    /\ ReconcileEvery \in Nat
    /\ ReconcileLookback \in Nat \ {0}
    /\ Overlap < MaxLookback

Window == [from: Int, to: Int]

In(t, w) == w.from <= t /\ t < w.to

Larger(a, b) == IF a >= b THEN a ELSE b
Smaller(a, b) == IF a <= b THEN a ELSE b

\* Slip: only the distance to the latest attempt counts.
IsDueByDistance(attempts, now, interval) ==
    \A a \in attempts : a + interval <= now \/ now + interval <= a

\* is_due: `attempts' are the started_at of every run of the job.  The code
\* compares the latest one, so the condition is on all of them.
IsDue(attempts, now, interval) == \A a \in attempts : a + interval <= now

\* incremental: `end' is the checkpoint's window_end; a future checkpoint
\* (clock skew between writers) falls back to a short overlap.
ClampedStart(start, now) ==
    LET floored == Larger(start, now - MaxLookback)
    IN  IF floored >= now THEN now - Smaller(InitialLookback, Overlap) ELSE floored

FirstWindow(now) ==
    [from |-> ClampedStart(now - InitialLookback, now), to |-> now]

ResumeWindow(end, now) ==
    [from |-> ClampedStart(end - Overlap, now), to |-> now]

\* Slip: reconcile only the live overlap.
ShortReconciliation(now) == [from |-> now - Overlap, to |-> now]

ReconciliationWindow(now) == [from |-> now - ReconcileLookback, to |-> now]
=============================================================================
