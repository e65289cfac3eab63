------------------------------ MODULE Ingestion ------------------------------
(***************************************************************************)
(* Live polling, reconciliation and history backfill of one source:        *)
(* several worker replicas (app/worker/scheduler.py) and one-shot backfill *)
(* operators (app/history/backfill.py) share the PostgreSQL tables of      *)
(* app/persistence/ingestion.py and a session-level advisory lock          *)
(* (app/persistence/locks.py).                                             *)
(*                                                                         *)
(* Between any two awaits of one process every other process may run, the  *)
(* publisher may correct a value, a fetch or a transaction may fail, the   *)
(* session that owns the lock may be lost, or the process may crash.       *)
(***************************************************************************)
EXTENDS WindowPlanner, FiniteSets, Sequences

CONSTANTS
    Workers,      \* replicas running IngestionWorker.run_forever
    Operators,    \* processes running HistoryBackfillRunner.run once
    Nobody,       \* "lock not held"
    Slots,        \* instants the source publishes an observation for
    Fact,         \* values an observation can take
    NoFact,       \* nothing published for the slot
    Chunks,       \* the windows of the backfill request, in order
    Forced,        \* the backfill's --force flag
    Skew,         \* [Proc -> Int], wall clock of a process minus real time
    Faults,       \* kinds of failure this instance allows
    Horizon,      \* bound: last instant of the clock
    CalmAfter,    \* bound: failures and publications happen up to here
    MaxFaults     \* bound: number of failures

Proc == Workers \cup Operators

ASSUME IngestionAssumption ==
    /\ Nobody \notin Proc
    /\ Workers \cap Operators = {}
    /\ NoFact \notin Fact
    /\ Slots \subseteq Nat
    /\ Chunks \in Seq(Window)
    /\ Operators # {} => Chunks # <<>>
    /\ \A i \in DOMAIN Chunks : Chunks[i].from < Chunks[i].to
    /\ Skew \in [Proc -> Int]
    /\ Horizon \in Nat /\ CalmAfter \in Nat /\ MaxFaults \in Nat

VARIABLES
    clock,      \* real time
    upstream,   \* [Slots -> fact], what the source serves now
    runs,       \* table ingestion_runs
    ledger,     \* the immutable observation table
    lock,       \* owner of the advisory lock 50hz:ingest:<source>
    rowLock,    \* transaction holding the source_metadata row
    pc,         \* where each process is
    job,        \* the job it executes
    call,       \* its local variables while it executes one
    session,    \* is the connection of its advisory lock alive?
    faults      \* failures so far

db == <<runs, ledger, rowLock>>
vars == <<clock, upstream, db, lock, pc, job, call, session, faults>>

\* Every reading a process can take of its own clock; 0 also stands for none yet.
Instants == {t + Skew[p] : t \in 0..Horizon, p \in Proc} \cup {0}

Ledger == INSTANCE RevisionLedger WITH Ident <- Slots, Delivery <- Instants

-----------------------------------------------------------------------------
(* Jobs and the run table *)

Live == [kind |-> "live", chunk |-> 0]
Reconcile == [kind |-> "reconcile", chunk |-> 0]
Backfill(i) == [kind |-> "backfill", chunk |-> i]
Jobs == {Live, Reconcile} \cup {Backfill(i) : i \in DOMAIN Chunks}

\* The checksum of a run identifies its payload.  A failed run has no payload;
\* its key carries the attempt time instead (and the error type, which nothing
\* reads back).
Run == [job: Jobs, win: Window, started: Int, completed: Int,
        status: {"succeeded", "failed"}, checksum: Ledger!Payload]

NoPayload == [s \in Slots |-> NoFact]

SameKey(r, q) ==
    /\ r.job = q.job /\ r.win = q.win /\ r.status = q.status
    /\ IF r.status = "succeeded" THEN r.checksum = q.checksum
                                 ELSE r.started = q.started

\* INSERT ... ON CONFLICT (idempotency_key) DO UPDATE.
Upsert(R, r) == {q \in R : ~SameKey(q, r)} \cup {r}

RunsOf(j) == {r \in runs : r.job = j}
Succeeded(R) == {r \in R : r.status = "succeeded"}

\* Slip: the latest attempt is the checkpoint, whatever its status.
CheckpointAttempt(R) == {r \in R : \A q \in R : q.started <= r.started}

\* get_checkpoint: the run the checkpoint's window_end comes from.  Rows with
\* equal timestamps are told apart by a hash, so any of them may be returned.
CheckpointSuccess(R) ==
    LET latest == {r \in R : \A q \in R : q.started <= r.started}
        newest == {r \in Succeeded(R) : \A q \in Succeeded(R) :
                      \/ q.completed < r.completed
                      \/ q.completed = r.completed /\ q.started <= r.started}
    IN  UNION {IF r.status = "succeeded" THEN {r} ELSE newest : r \in latest}

Now(p) == clock + Skew[p]

\* The locals of run_once, _execute and persist_success:
\*   tick     attempted_at            win   the window asked for
\*   payload  what the fetch returned  done  completed_at, read after the fetch
\*   prep     the revisions the open transaction is about to insert
Call == [tick: Int, win: Window, payload: Ledger!Payload, done: Instants, prep: SUBSET Ledger!Row]

NoCall(t) == [tick |-> t, win |-> [from |-> 0, to |-> 0], payload |-> NoPayload,
              done |-> 0, prep |-> {}]

\* WindowPlanner.incremental on the checkpoint of the job.
LiveWindows(p) ==
    IF Succeeded(RunsOf(Live)) = {}
    THEN {FirstWindow(call[p].tick)}
    ELSE {ResumeWindow(r.win.to, call[p].tick) : r \in CheckpointSuccess(RunsOf(Live))}

FirstJob(p) == IF p \in Workers THEN Live ELSE Backfill(1)

\* Slip: the reconciliation is not recognized as the last job of a tick.
LastChunkOnly(p) == job[p] = Backfill(Len(Chunks))

LastJob(p) ==
    \/ job[p] = Reconcile
    \/ job[p] = Live /\ ReconcileEvery = 0
    \/ job[p] = Backfill(Len(Chunks))

FollowingJob(j) == IF j = Live THEN Reconcile ELSE Backfill(j.chunk + 1)

\* The tick of a worker, or the command of an operator, is over.
Rest(p) ==
    /\ pc' = [pc EXCEPT ![p] = IF p \in Workers THEN "idle" ELSE "finished"]
    /\ call' = [call EXCEPT ![p] = NoCall(0)]
    /\ job' = [job EXCEPT ![p] = FirstJob(p)]

\* The loop of run_once and of HistoryBackfillRunner.run goes to the next job.
Advance(p) ==
    \/ LastJob(p) /\ Rest(p)
    \/ /\ ~LastJob(p)
       /\ pc' = [pc EXCEPT ![p] = "select"]
       /\ call' = [call EXCEPT ![p] = NoCall(@.tick)]
       /\ job' = [job EXCEPT ![p] = FollowingJob(@)]

Goto(p, l) == pc' = [pc EXCEPT ![p] = l]

-----------------------------------------------------------------------------
Init ==
    /\ clock = 0
    /\ upstream = NoPayload
    /\ runs = {} /\ ledger = {} /\ lock = Nobody /\ rowLock = Nobody
    /\ pc = [p \in Proc |-> "idle"]
    /\ job = [p \in Proc |-> FirstJob(p)]
    /\ call = [p \in Proc |-> NoCall(0)]
    /\ session = [p \in Proc |-> FALSE]
    /\ faults = 0

\* run_forever starts a tick: run_once reads the clock once for all its jobs.
BeginTick(p) ==
    /\ pc[p] = "idle"
    /\ Goto(p, "select")
    /\ call' = [call EXCEPT ![p].tick = Now(p)]
    /\ UNCHANGED <<clock, upstream, db, lock, job, session, faults>>

\* The checkpoint is read and the window planned BEFORE the lock is taken.
SelectPoll(p) ==
    /\ pc[p] = "select" /\ p \in Workers
    /\ LET every == IF job[p] = Live THEN Cadence ELSE ReconcileEvery
           attempts == {r.started : r \in RunsOf(job[p])}
       IN  \/ /\ IsDue(attempts, call[p].tick, every)
              /\ \E w \in IF job[p] = Live THEN LiveWindows(p)
                                           ELSE {ReconciliationWindow(call[p].tick)} :
                    call' = [call EXCEPT ![p].win = w]
              /\ Goto(p, "want")
              /\ UNCHANGED job
           \/ /\ ~IsDue(attempts, call[p].tick, every)
              /\ Advance(p)
    /\ UNCHANGED <<clock, upstream, db, lock, session, faults>>

\* _run_chunk: a chunk whose checkpoint already succeeded is skipped, unless forced.
SelectChunk(p) ==
    /\ pc[p] = "select" /\ p \in Operators
    /\ LET chunk == Chunks[job[p].chunk]
           completed == /\ ~Forced
                        /\ \E r \in Succeeded(RunsOf(job[p])) : r.win.to = chunk.to
       IN  \/ /\ ~completed
              /\ call' = [call EXCEPT ![p].win = chunk, ![p].tick = Now(p)]
              /\ Goto(p, "want")
              /\ UNCHANGED job
           \/ completed /\ Advance(p)
    /\ UNCHANGED <<clock, upstream, db, lock, session, faults>>

\* Slip: the backfill takes a lock of its own instead of the source's.
AcquireOwnLock(p) ==
    /\ pc[p] = "want" /\ (lock = Nobody \/ p \in Operators)
    /\ lock' = IF p \in Operators THEN lock ELSE p
    /\ session' = [session EXCEPT ![p] = TRUE]
    /\ Goto(p, "fetch")
    /\ UNCHANGED <<clock, upstream, db, job, call, faults>>

\* pg_try_advisory_lock answered true.
AcquireLock(p) ==
    /\ pc[p] = "want" /\ lock = Nobody
    /\ lock' = p
    /\ session' = [session EXCEPT ![p] = TRUE]
    /\ Goto(p, "fetch")
    /\ UNCHANGED <<clock, upstream, db, job, call, faults>>

\* It answered false: SKIPPED_LOCKED, no run row is written.
SkipLocked(p) ==
    /\ pc[p] = "want" /\ lock # Nobody
    /\ Advance(p)
    /\ UNCHANGED <<clock, upstream, db, lock, session, faults>>

\* The adapter returns what the source serves for the window at this moment.
Fetch(p) ==
    /\ pc[p] = "fetch"
    /\ call' = [call EXCEPT ![p].done = Now(p), ![p].payload =
          [s \in Slots |-> IF In(s, call[p].win) THEN upstream[s] ELSE NoFact]]
    /\ Goto(p, "persist")
    /\ UNCHANGED <<clock, upstream, db, lock, job, session, faults>>

\* Slip: the latest revisions are read before the metadata row is locked.
BeginUnlocked(p) ==
    /\ pc[p] = "persist"
    /\ rowLock' = p
    /\ call' = [call EXCEPT ![p].prep =
          Ledger!Prepared(ledger, call[p].payload, call[p].done)]
    /\ Goto(p, "insert")
    /\ UNCHANGED <<clock, upstream, runs, ledger, lock, job, session, faults>>

\* persist_success opens its transaction.  The upsert of the source_metadata row
\* comes first and keeps that row locked to the end of the transaction; then
\* _load_latest_revisions reads and _prepare_immutable_revisions allocates.
BeginTransaction(p) ==
    /\ pc[p] = "persist" /\ rowLock = Nobody
    /\ rowLock' = p
    /\ call' = [call EXCEPT ![p].prep =
          Ledger!Prepared(ledger, call[p].payload, call[p].done)]
    /\ Goto(p, "insert")
    /\ UNCHANGED <<clock, upstream, runs, ledger, lock, job, session, faults>>

SuccessRun(p) ==
    [job |-> job[p], win |-> call[p].win, started |-> call[p].tick,
     completed |-> call[p].done, status |-> "succeeded", checksum |-> call[p].payload]

\* The transaction ends; what it fetched and prepared is gone.
EndTransaction(p) ==
    /\ rowLock' = IF rowLock = p THEN Nobody ELSE rowLock
    /\ call' = [call EXCEPT ![p].prep = {}, ![p].payload = NoPayload, ![p].done = 0]

\* Slip: the checkpoint commits although the rows were rolled back.
CommitCheckpointOnly(p) ==
    /\ pc[p] = "insert"
    /\ runs' = Upsert(runs, SuccessRun(p))
    /\ Goto(p, "release")
    /\ EndTransaction(p)
    /\ UNCHANGED <<clock, upstream, ledger, lock, job, session, faults>>

\* Slip: a correction overwrites the revision it corrects.
CommitInPlace(p) ==
    /\ pc[p] = "insert"
    /\ ledger' = {r \in ledger : \A q \in call[p].prep : q.id # r.id} \cup call[p].prep
    /\ runs' = Upsert(runs, SuccessRun(p))
    /\ Goto(p, "release")
    /\ EndTransaction(p)
    /\ UNCHANGED <<clock, upstream, lock, job, session, faults>>

\* Rows and the SUCCEEDED run commit together; ImmutableRevisionConflictError
\* rolls the whole transaction back.
Commit(p) ==
    /\ pc[p] = "insert"
    /\ IF Ledger!Conflicts(ledger, call[p].prep)
       THEN Goto(p, "failing") /\ UNCHANGED <<ledger, runs>>
       ELSE /\ ledger' = ledger \cup call[p].prep
            /\ runs' = Upsert(runs, SuccessRun(p))
            /\ Goto(p, "release")
    /\ EndTransaction(p)
    /\ UNCHANGED <<clock, upstream, lock, job, session, faults>>

FailedRun(p) ==
    [job |-> job[p], win |-> call[p].win, started |-> call[p].tick,
     completed |-> Now(p), status |-> "failed", checksum |-> NoPayload]

\* record_failure, in a transaction of its own.  The source_metadata row it
\* upserts is named after the job and may not be the source's, so it need not
\* wait for rowLock.
RecordFailure(p) ==
    /\ pc[p] = "failing"
    /\ runs' = Upsert(runs, FailedRun(p))
    /\ Goto(p, "release")
    /\ UNCHANGED <<clock, upstream, ledger, rowLock, lock, job, call, session, faults>>

\* pg_advisory_unlock on leaving the context; the next job follows.
Release(p) ==
    /\ pc[p] = "release" /\ session[p]
    /\ lock' = Nobody
    /\ session' = [session EXCEPT ![p] = FALSE]
    /\ Advance(p)
    /\ UNCHANGED <<clock, upstream, db, faults>>

\* Slip: the unlock is not in a `finally'.
UnwindLocked(p) ==
    /\ \/ pc[p] = "raise"
       \/ pc[p] = "release" /\ ~session[p]
    /\ session' = [session EXCEPT ![p] = FALSE]
    /\ IF p \in Workers THEN Rest(p) ELSE Advance(p)
    /\ UNCHANGED <<clock, upstream, db, lock, faults>>

\* An exception leaves the context.  The worker drops the rest of its tick; a
\* backfill reports the chunk as failed and continues.
Unwind(p) ==
    /\ \/ pc[p] = "raise"
       \/ pc[p] = "release" /\ ~session[p]     \* unlocking a lost session raises
    /\ lock' = IF session[p] THEN Nobody ELSE lock
    /\ session' = [session EXCEPT ![p] = FALSE]
    /\ IF p \in Workers THEN Rest(p) ELSE Advance(p)
    /\ UNCHANGED <<clock, upstream, db, faults>>

Step(p) ==
    \/ BeginTick(p) \/ SelectPoll(p) \/ SelectChunk(p)
    \/ AcquireLock(p) \/ SkipLocked(p) \/ Fetch(p)
    \/ BeginTransaction(p) \/ Commit(p)
    \/ RecordFailure(p) \/ Release(p) \/ Unwind(p)

-----------------------------------------------------------------------------
(* Failures and the environment *)

HasLock(p) == pc[p] \in {"fetch", "persist", "insert", "failing", "release", "raise"}

Fault(kind) ==
    /\ kind \in Faults /\ faults < MaxFaults /\ clock <= CalmAfter
    /\ faults' = faults + 1

\* get_checkpoint fails: run_once is abandoned, a backfill goes to its next chunk.
SelectFails(p) ==
    /\ Fault("checkpoint") /\ pc[p] = "select"
    /\ IF p \in Workers THEN Rest(p) ELSE Advance(p)
    /\ UNCHANGED <<clock, upstream, db, lock, session>>

\* The source request fails after its retries.
FetchFails(p) ==
    /\ Fault("fetch") /\ pc[p] = "fetch"
    /\ Goto(p, "failing")
    /\ UNCHANGED <<clock, upstream, db, lock, job, call, session>>

\* The database refuses a statement of the persist transaction.
TransactionFails(p) ==
    /\ Fault("transaction") /\ pc[p] \in {"persist", "insert"}
    /\ EndTransaction(p)
    /\ Goto(p, "failing")
    /\ UNCHANGED <<clock, upstream, runs, ledger, lock, job, session>>

\* record_failure itself fails.  The worker lets the exception out of the tick,
\* the backfill swallows it.
RecordFailureFails(p) ==
    /\ Fault("record") /\ pc[p] = "failing"
    /\ Goto(p, IF p \in Workers THEN "raise" ELSE "release")
    /\ UNCHANGED <<clock, upstream, db, lock, job, call, session>>

\* The connection that owns the advisory lock is closed; the process does not notice.
LoseSession(p) ==
    /\ Fault("session") /\ session[p]
    /\ lock' = Nobody
    /\ session' = [session EXCEPT ![p] = FALSE]
    /\ UNCHANGED <<clock, upstream, db, pc, job, call>>

\* The process dies and is started again; PostgreSQL drops its lock and transaction.
Crash(p) ==
    /\ Fault("crash") /\ pc[p] \notin {"idle", "finished"}
    /\ lock' = IF lock = p THEN Nobody ELSE lock
    /\ rowLock' = IF rowLock = p THEN Nobody ELSE rowLock
    /\ session' = [session EXCEPT ![p] = FALSE]
    /\ pc' = [pc EXCEPT ![p] = "idle"]
    /\ job' = [job EXCEPT ![p] = FirstJob(p)]
    /\ call' = [call EXCEPT ![p] = NoCall(0)]
    /\ UNCHANGED <<clock, upstream, runs, ledger>>

\* The source publishes an observation, possibly late, or corrects one.
Publish(s, f) ==
    /\ s < clock /\ clock <= CalmAfter /\ upstream[s] # f
    /\ upstream' = [upstream EXCEPT ![s] = f]
    /\ UNCHANGED <<clock, db, lock, pc, job, call, session, faults>>

ClockTick ==
    /\ clock < Horizon
    /\ clock' = clock + 1
    /\ UNCHANGED <<upstream, db, lock, pc, job, call, session, faults>>

Environment ==
    \/ \E p \in Proc : SelectFails(p) \/ FetchFails(p) \/ TransactionFails(p) \/ RecordFailureFails(p)
                          \/ LoseSession(p) \/ Crash(p)
    \/ \E s \in Slots, f \in Fact : Publish(s, f)

Next == (\E p \in Proc : Step(p)) \/ ClockTick \/ Environment

Spec == Init /\ [][Next]_vars

\* run_forever keeps ticking and every await returns; time passes.  No lock is
\* promised to anyone: acquiring it is a try-lock.
FairSpec == Spec /\ WF_vars(ClockTick) /\ \A p \in Proc : WF_vars(Step(p))
-----------------------------------------------------------------------------
(* Properties *)

Labels == {"idle", "select", "want", "fetch", "persist", "insert",
           "failing", "release", "raise", "finished"}

\* Every variable has its type.
TypeOK ==
    /\ clock \in 0..Horizon
    /\ upstream \in Ledger!Payload
    /\ runs \subseteq Run
    /\ ledger \subseteq Ledger!Row
    /\ lock \in Proc \cup {Nobody}
    /\ rowLock \in Proc \cup {Nobody}
    /\ pc \in [Proc -> Labels]
    /\ job \in [Proc -> Jobs]
    /\ \A p \in Workers : job[p] \in {Live, Reconcile}
    /\ \A p \in Operators : job[p] \in {Backfill(i) : i \in DOMAIN Chunks}
    /\ call \in [Proc -> Call]
    /\ session \in [Proc -> BOOLEAN]
    /\ faults \in 0..MaxFaults

\* The transaction that read the latest revisions inserts without a conflict,
\* even when the advisory lock has been lost to another process: the row lock
\* of source_metadata, taken first and kept to the commit, is what serializes
\* revision allocation (ImmutableRevisionConflictError is never raised).
NoRevisionConflict ==
    \A p \in Proc : pc[p] = "insert" => ~Ledger!Conflicts(ledger, call[p].prep)

\* A checkpoint never claims data that is not stored: each fact a succeeded run
\* received is a revision of the ledger (rows and run row commit together).
SuccessMeansStored ==
    \A r \in Succeeded(runs), s \in Slots :
        r.checksum[s] # NoFact =>
            \E q \in ledger : q.id = s /\ q.fact = r.checksum[s]

\* While no lock session is lost, a later revision is never older evidence: the
\* fetch happens under the advisory lock, so an answer fetched earlier cannot be
\* stored over one fetched later.
RevisionOrder ==
    \A r, q \in ledger : r.id = q.id /\ r.rev < q.rev => r.seen <= q.seen

\* The windows of live runs leave no instant out between the first run and the
\* checkpoint, whatever failed or crashed in between, unless the outage was
\* longer than max_incremental_lookback (or two replicas made the first run of a
\* new deployment, each from its own initial lookback).
NoSilentGap ==
    LET S == Succeeded(RunsOf(Live))
    IN  \A x \in Instants :
          (\E r \in S : r.win.to <= x) /\ (\E r \in S : x < r.win.from) =>
              \/ \E r \in S : In(x, r.win)
              \/ \E r \in S : /\ x < r.win.from
                             /\ r.win.to - r.win.from \in {MaxLookback, InitialLookback}

\* A poll that is due asks for something new: its window ends after the one its
\* checkpoint comes from, whichever replica wrote that, with whatever clock, and
\* it is not empty.  A replica that meets an attempt of its own future waits.
WindowsAdvance ==
    [][\A p \in Workers :
          pc[p] = "select" /\ pc'[p] = "want" /\ job[p] = Live =>
              /\ call'[p].win.from < call'[p].win.to
              /\ \A r \in CheckpointSuccess(RunsOf(Live)) : r.win.to < call'[p].win.to]_vars

\* A process that still has its lock session is the only one inside the lock.
LockExclusive ==
    \A p, q \in Proc : session[p] /\ HasLock(q) /\ session[q] => p = q /\ lock = p

\* Revision allocation, corrections and duplicates behave as the ledger promises.
LedgerSpec == Ledger!Spec

\* A crash, a failed fetch, a failure that cannot be recorded or a busy lock never stops
\* collection, and no process keeps the lock for ever: when time has
\* come to rest the live job has been attempted within its cadence by some replica.
PollingContinues == <>[](\E r \in RunsOf(Live) : Horizon < r.started + Cadence)

Stored(s) == Ledger!Rows(ledger, s) # {} /\ Ledger!Latest(ledger, s).fact = upstream[s]

\* Once failures and publications stop, every slot the reconciliation window
\* still reaches ends with the value the source serves, however late that value
\* was published or corrected.
EventuallyReconciled ==
    <>[](\A s \in Slots : upstream[s] # NoFact => Stored(s))
=============================================================================
