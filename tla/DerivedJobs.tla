----------------------------- MODULE DerivedJobs -----------------------------
(***************************************************************************)
(* Operator jobs that derive tables from stored evidence: materialization  *)
(* of history (app/history/materialization_job.py) and verification of     *)
(* forecasts (app/forecast_verification/job.py).  A job holds the global   *)
(* lock of its kind while it runs and, for each task, the ingestion locks  *)
(* of the sources it reads, taken by try-locks in the order of their names *)
(* and given back before the derived rows are written.                     *)
(*                                                                         *)
(* Ingestion is reduced to what these jobs see of it: an owner of the      *)
(* source's lock that stores new evidence while it holds it.               *)
(***************************************************************************)
EXTENDS Integers, Sequences, FiniteSets, SequencesExt

CONSTANTS
    Materializers,  \* runs of HistoryMaterializationRunner
    Verifiers,      \* runs of ForecastVerificationRunner
    Forced,         \* the jobs started with --force or --refresh-latest
    Sources,        \* sources, numbered in the order of their lock names
    Keys,           \* job keys
    Cells,          \* identities of derived rows, revisions aside
    Tasks,          \* [Jobs -> Seq(Task)]: the targets and chunks of a request
    Ingester,       \* live polling or backfill, as owner of a source lock
    Nobody,         \* "lock not held"
    Faults,         \* kinds of failure this instance allows
    MaxFaults,      \* bound: number of failure kinds that happen
    MaxVersion      \* bound: changes of one source's evidence

Jobs == Materializers \cup Verifiers

Kind(j) == IF j \in Materializers THEN "materialize" ELSE "verify"

\* inputs: the sources read, in lock order; cells: the rows derived from them.
Task == [key: Keys, inputs: Seq(Sources), cells: SUBSET Cells]

\* A key is computed from the target and the window of a task (materialization_job_key,
\* verification_job_key); the rows derived of a target belong to its kind of job and to its sources.
SameWork(j, t, k, u) ==
    /\ t.key = u.key => Kind(j) = Kind(k) /\ t.cells = u.cells
    /\ t.cells \cap u.cells # {} => Kind(j) = Kind(k) /\ t.inputs = u.inputs

ASSUME JobsAssumption ==
    /\ Materializers \cap Verifiers = {}
    /\ Forced \subseteq Jobs
    /\ Nobody \notin Jobs /\ Ingester \notin Jobs /\ Nobody # Ingester
    /\ Sources \subseteq Nat
    /\ Tasks \in [Jobs -> Seq(Task)]
    /\ \A j \in Jobs : Tasks[j] # <<>>
    /\ \A j \in Jobs : \A n \in DOMAIN Tasks[j] :
          LET inputs == Tasks[j][n].inputs
          IN  \A i, k \in DOMAIN inputs : i < k => inputs[i] < inputs[k]
    /\ \A j, k \in Jobs : \A n \in DOMAIN Tasks[j], o \in DOMAIN Tasks[k] :
          SameWork(j, Tasks[j][n], k, Tasks[k][o])
    /\ MaxFaults \in Nat /\ MaxVersion \in Nat

VARIABLES
    evidence,   \* [Sources -> version], how often the stored evidence changed
    derived,    \* [Cells -> Seq(versions read)], the append-only derived rows
    runs,       \* [Keys -> run row]
    global,     \* [kind -> owner of its global advisory lock]
    source,     \* [Sources -> owner of its ingestion lock]
    pc,         \* where each job is
    at,         \* the task it executes
    held,       \* sources whose lock it has taken, in the order of the stack
    started,    \* has it recorded the start of this task?
    loaded,     \* versions of the inputs it has read so far
    prep,       \* the revisions its open transaction is about to insert
    failed      \* kinds of failure that have happened

locks == <<global, source>>
db == <<evidence, derived, runs>>
locals == <<at, held, started, loaded, prep>>
vars == <<db, locks, pc, locals, failed>>

This(j) == Tasks[j][at[j]]
Inputs(j) == This(j).inputs

NoRun == [status |-> "none", content |-> <<>>]
Status == {"none", "running", "succeeded", "failed"}

Goto(j, l) == pc' = [pc EXCEPT ![j] = l]

\* Leaving the contexts of the source locks.  A lock whose session was lost is
\* not the job's to unlock any more.
UnlockSources(j) == source' = [s \in Sources |-> IF source[s] = j THEN Nobody ELSE source[s]]
AllAlive(j) == \A i \in DOMAIN held[j] : source[held[j][i]] = j

\* The local variables of the next call of _run_chunk or _run_target.
Forget(j) ==
    /\ held' = [held EXCEPT ![j] = <<>>]
    /\ started' = [started EXCEPT ![j] = FALSE]
    /\ loaded' = [loaded EXCEPT ![j] = <<>>]
    /\ prep' = [prep EXCEPT ![j] = {}]

\* The loop of run goes to the next target or chunk, or leaves the global lock.
NextTask(j) ==
    /\ Forget(j)
    /\ IF at[j] < Len(Tasks[j])
       THEN Goto(j, "check") /\ at' = [at EXCEPT ![j] = @ + 1]
       ELSE Goto(j, "release") /\ UNCHANGED at

-----------------------------------------------------------------------------
Init ==
    /\ evidence = [s \in Sources |-> 0]
    /\ derived = [c \in Cells |-> <<>>]
    /\ runs = [k \in Keys |-> NoRun]
    /\ global = [k \in {"materialize", "verify"} |-> Nobody]
    /\ source = [s \in Sources |-> Nobody]
    /\ pc = [j \in Jobs |-> "idle"]
    /\ at = [j \in Jobs |-> 1]
    /\ held = [j \in Jobs |-> <<>>]
    /\ started = [j \in Jobs |-> FALSE]
    /\ loaded = [j \in Jobs |-> <<>>]
    /\ prep = [j \in Jobs |-> {}]
    /\ failed = {}

\* Slip: the global lock is named after the request, so two runs never meet.
BeginJobAlone(j) ==
    /\ pc[j] = "idle"
    /\ global' = [global EXCEPT ![Kind(j)] = j]
    /\ Goto(j, "check")
    /\ UNCHANGED <<db, source, locals, failed>>

\* run takes the global lock of its kind for all its tasks.
BeginJob(j) ==
    /\ pc[j] = "idle" /\ global[Kind(j)] = Nobody
    /\ global' = [global EXCEPT ![Kind(j)] = j]
    /\ Goto(j, "check")
    /\ UNCHANGED <<db, source, locals, failed>>

\* Every task of the request is reported as SKIPPED_LOCKED.
SkipJob(j) ==
    /\ pc[j] = "idle" /\ global[Kind(j)] # Nobody
    /\ Goto(j, "finished")
    /\ UNCHANGED <<db, locks, locals, failed>>

\* A task that already succeeded is skipped, unless forced.
Check(j) ==
    /\ pc[j] = "check"
    /\ \/ /\ j \notin Forced /\ runs[This(j).key].status = "succeeded"
          /\ NextTask(j)
       \/ /\ j \in Forced \/ runs[This(j).key].status # "succeeded"
          /\ Goto(j, "acquire")
          /\ UNCHANGED locals
    /\ UNCHANGED <<db, locks, failed>>

Wanted(j) == Inputs(j)[Len(held[j]) + 1]

\* The next source lock, in the order of the names.
AcquireSource(j) ==
    /\ pc[j] = "acquire" /\ Len(held[j]) < Len(Inputs(j))
    /\ source[Wanted(j)] = Nobody
    /\ source' = [source EXCEPT ![Wanted(j)] = j]
    /\ held' = [held EXCEPT ![j] = Append(@, Wanted(j))]
    /\ UNCHANGED <<db, global, pc, at, started, loaded, prep, failed>>

\* Slip: the locks already taken are kept when a later one is refused.
RefusedKeeping(j) ==
    /\ pc[j] = "acquire" /\ Len(held[j]) < Len(Inputs(j))
    /\ source[Wanted(j)] # Nobody
    /\ NextTask(j)
    /\ UNCHANGED <<db, locks, failed>>

\* A source is busy: SKIPPED_LOCKED.  The stack gives back what it has taken; an
\* unlock that raises ends the task as well, and records nothing, because only a
\* verification takes a second lock and it has not started.
Refused(j) ==
    /\ pc[j] = "acquire" /\ Len(held[j]) < Len(Inputs(j))
    /\ source[Wanted(j)] # Nobody
    /\ UnlockSources(j)
    /\ NextTask(j)
    /\ UNCHANGED <<db, global, failed>>

\* Slip: a verification locks its first source only.
StartWithFirst(j) ==
    /\ pc[j] = "acquire" /\ held[j] # <<>>
    /\ runs' = [runs EXCEPT ![This(j).key] = [NoRun EXCEPT !.status = "running"]]
    /\ started' = [started EXCEPT ![j] = TRUE]
    /\ Goto(j, "load")
    /\ UNCHANGED <<evidence, derived, locks, at, held, loaded, prep, failed>>

\* record_started: the row of an earlier attempt is reused and its result dropped.
Start(j) ==
    /\ pc[j] = "acquire" /\ Len(held[j]) = Len(Inputs(j))
    /\ runs' = [runs EXCEPT ![This(j).key] = [NoRun EXCEPT !.status = "running"]]
    /\ started' = [started EXCEPT ![j] = TRUE]
    /\ Goto(j, "load")
    /\ UNCHANGED <<evidence, derived, locks, at, held, loaded, prep, failed>>

\* One SELECT for each input; under READ COMMITTED each has its own snapshot.
Load(j) ==
    /\ pc[j] = "load" /\ Len(loaded[j]) < Len(Inputs(j))
    /\ loaded' = [loaded EXCEPT ![j] = Append(@, evidence[Inputs(j)[Len(@) + 1]])]
    /\ UNCHANGED <<db, locks, pc, at, held, started, prep, failed>>

\* The source locks are released before the CPU work and the derived
\* transaction.  Unlocking a lost session raises.
Unlock(j) ==
    /\ pc[j] = "load" /\ Len(loaded[j]) = Len(Inputs(j))
    /\ UnlockSources(j)
    /\ held' = [held EXCEPT ![j] = <<>>]
    /\ Goto(j, IF AllAlive(j) THEN "derive" ELSE "failing")
    /\ UNCHANGED <<db, global, at, started, loaded, prep, failed>>

\* persist_success reads the latest stored revision of each row it derived; a row
\* with the same content is left alone.
ReadDerived(j) ==
    /\ pc[j] = "derive"
    /\ prep' = [prep EXCEPT ![j] =
          {[cell |-> c, rev |-> Len(derived[c]) + 1] :
              c \in {d \in This(j).cells : derived[d] = <<>> \/ Last(derived[d]) # loaded[j]}}]
    /\ Goto(j, "insert")
    /\ UNCHANGED <<db, locks, at, held, started, loaded, failed>>

\* Another transaction has inserted a revision that this one allocated.
Conflicting(j) == \E w \in prep[j] : w.rev <= Len(derived[w.cell])

Stored(j) == [c \in Cells |->
    IF \E w \in prep[j] : w.cell = c /\ Len(derived[c]) < w.rev
    THEN Append(derived[c], loaded[j]) ELSE derived[c]]

Success(j) == [runs EXCEPT ![This(j).key] = [status |-> "succeeded", content |-> loaded[j]]]

\* Slip: ON CONFLICT DO NOTHING without counting the rows that went in.
CommitUncounted(j) ==
    /\ pc[j] = "insert"
    /\ derived' = Stored(j) /\ runs' = Success(j)
    /\ NextTask(j)
    /\ UNCHANGED <<evidence, locks, failed>>

\* The derived rows and the success commit together, or neither.
Commit(j) ==
    /\ pc[j] = "insert"
    /\ \/ /\ ~Conflicting(j)
          /\ derived' = Stored(j) /\ runs' = Success(j)
          /\ NextTask(j)
       \/ /\ Conflicting(j)
          /\ Goto(j, "failing")
          /\ UNCHANGED <<derived, runs, locals>>
    /\ UNCHANGED <<evidence, locks, failed>>

\* UPDATE ... WHERE job_key: nothing happens if the row does not exist.
FailedRow(r) == IF r.status = "none" THEN r ELSE [NoRun EXCEPT !.status = "failed"]

\* Slip: a verification, too, records a failure that came before its start.
RecordFailureAlways(j) ==
    /\ pc[j] = "failing"
    /\ runs' = [runs EXCEPT ![This(j).key] = FailedRow(@)]
    /\ NextTask(j)
    /\ UNCHANGED <<evidence, derived, locks, failed>>

\* A failed task is recorded and the next one follows.  A verification records
\* only what it has started; a materialization records every failure, also one
\* of its check or of its lock, over the row of an earlier attempt.
RecordFailure(j) ==
    /\ pc[j] = "failing"
    /\ runs' = IF started[j] \/ j \in Materializers
               THEN [runs EXCEPT ![This(j).key] = FailedRow(@)] ELSE runs
    /\ NextTask(j)
    /\ UNCHANGED <<evidence, derived, locks, failed>>

\* The command ends; leaving the context unlocks the global lock if it is alive.
ReleaseGlobal(j) ==
    /\ pc[j] = "release"
    /\ global' = [global EXCEPT ![Kind(j)] = IF @ = j THEN Nobody ELSE @]
    /\ Goto(j, "finished")
    /\ UNCHANGED <<db, source, locals, failed>>

Step(j) ==
    \/ BeginJob(j) \/ SkipJob(j) \/ Check(j) \/ AcquireSource(j) \/ Refused(j)
    \/ Start(j) \/ Load(j) \/ Unlock(j) \/ ReadDerived(j) \/ Commit(j)
    \/ RecordFailure(j) \/ ReleaseGlobal(j)

-----------------------------------------------------------------------------
(* Failures and ingestion *)

Fault(kind) ==
    /\ kind \in Faults /\ kind \notin failed /\ Cardinality(failed) < MaxFaults
    /\ failed' = failed \cup {kind}

\* A statement, the loader's input limit or the derivation raises.
StepFails(j) ==
    /\ Fault("step") /\ pc[j] \in {"check", "acquire", "load", "derive", "insert"}
    /\ UnlockSources(j)
    /\ Goto(j, "failing")
    /\ UNCHANGED <<db, global, locals>>

\* record_failure fails too; the exception is swallowed.  It follows another
\* failure, so it does not count as one.
RecordFailureFails(j) ==
    /\ "record" \in Faults /\ pc[j] = "failing"
    /\ NextTask(j)
    /\ UNCHANGED <<db, locks, failed>>

\* The connection that owns a lock is closed; the job does not notice.
LoseSource(j, s) ==
    /\ Fault("session") /\ source[s] = j
    /\ source' = [source EXCEPT ![s] = Nobody]
    /\ UNCHANGED <<db, global, pc, locals>>

LoseGlobal(j) ==
    /\ Fault("session") /\ global[Kind(j)] = j
    /\ global' = [global EXCEPT ![Kind(j)] = Nobody]
    /\ UNCHANGED <<db, source, pc, locals>>

\* The process dies, and the command is run again.
Crash(j) ==
    /\ Fault("crash") /\ pc[j] \notin {"idle", "finished"}
    /\ global' = [global EXCEPT ![Kind(j)] = IF @ = j THEN Nobody ELSE @]
    /\ UnlockSources(j)
    /\ Forget(j) /\ at' = [at EXCEPT ![j] = 1]
    /\ Goto(j, "idle")
    /\ UNCHANGED db

\* Ingestion of a source: its lock, a transaction that changes what is stored,
\* and the unlock (Ingestion!AcquireLock, Commit, Release).
IngestBegin(s) ==
    /\ source[s] = Nobody
    /\ source' = [source EXCEPT ![s] = Ingester]
    /\ UNCHANGED <<db, global, pc, locals, failed>>

IngestCommit(s) ==
    /\ source[s] = Ingester /\ evidence[s] < MaxVersion
    /\ evidence' = [evidence EXCEPT ![s] = @ + 1]
    /\ UNCHANGED <<derived, runs, locks, pc, locals, failed>>

IngestEnd(s) ==
    /\ source[s] = Ingester
    /\ source' = [source EXCEPT ![s] = Nobody]
    /\ UNCHANGED <<db, global, pc, locals, failed>>

Environment ==
    \/ \E j \in Jobs : StepFails(j) \/ RecordFailureFails(j) \/ LoseGlobal(j) \/ Crash(j)
    \/ \E j \in Jobs, s \in Sources : LoseSource(j, s)
    \/ \E s \in Sources : IngestBegin(s) \/ IngestCommit(s) \/ IngestEnd(s)

Next == (\E j \in Jobs : Step(j)) \/ Environment

Spec == Init /\ [][Next]_vars

\* Every await of a job returns or raises.  Nothing is promised about ingestion,
\* which may keep a source's lock for ever.
FairSpec == Spec /\ \A j \in Jobs : WF_vars(Step(j))
-----------------------------------------------------------------------------
(* Properties *)

Labels == {"idle", "check", "acquire", "load", "derive", "insert", "failing", "release", "finished"}
Versions == Seq(0..MaxVersion)

NoSessionLost == "session" \notin failed

\* The inputs of a derivation existed together: until the locks are released,
\* what a job has read of each source is what is stored of it, although every
\* source is read by a statement with a snapshot of its own.
CoherentInputs ==
    NoSessionLost => \A j \in Jobs : pc[j] = "load" =>
        \A i \in DOMAIN loaded[j] : loaded[j][i] = evidence[Inputs(j)[i]]

\* A later revision of a derived row is never derived from older evidence, and
\* differs from the one before: the global lock spans the read of the evidence
\* and the commit, although the source locks do not.
DerivedInOrder ==
    NoSessionLost => \A c \in Cells : \A n \in DOMAIN derived[c] \ {1} :
        LET before == derived[c][n - 1]
        IN  /\ before # derived[c][n]
            /\ \A i \in DOMAIN before : before[i] <= derived[c][n][i]

\* A success on record is backed by rows, also when two jobs of one kind run at
\* once because a lock was lost.
SuccessIsStored ==
    \A j \in Jobs : \A n \in DOMAIN Tasks[j] :
        LET task == Tasks[j][n]
        IN  runs[task.key].status = "succeeded" =>
                \A c \in task.cells : \E i \in DOMAIN derived[c] : derived[c][i] = runs[task.key].content

\* A recorded verification is replaced by a new attempt only, never by the
\* failure of one that had not begun (its check or a try-lock raised).
SuccessKept ==
    [][NoSessionLost' => \A j \in Verifiers : \A n \in DOMAIN Tasks[j] :
          LET key == Tasks[j][n].key
          IN  runs[key].status = "succeeded" => runs'[key].status \in {"succeeded", "running"}]_vars

\* Every job ends, whatever fails and however long ingestion keeps a source, and
\* leaves no lock behind.
JobsEnd ==
    <>[]\A j \in Jobs :
          /\ pc[j] = "finished"
          /\ global[Kind(j)] # j /\ \A s \in Sources : source[s] # j
=============================================================================
