---------------------------- MODULE DerivedProofs ----------------------------
(***************************************************************************)
(* Safety of DerivedJobs for any number of jobs, tasks, sources and rows   *)
(* and any set of faults.                                                  *)
(***************************************************************************)
EXTENDS DerivedJobs, TLAPS

\* Two tasks of two jobs with one key are of one kind and derive the same rows; two
\* tasks that derive a row are of one kind and read the same sources.
LEMMA Work ==
    ASSUME NEW j \in Jobs, NEW k \in Jobs, NEW n \in DOMAIN Tasks[j], NEW o \in DOMAIN Tasks[k]
    PROVE  SameWork(j, Tasks[j][n], k, Tasks[k][o])
BY JobsAssumption DEF JobsAssumption

\* No job is one of the other values an owner of a lock can be.
LEMMA Owners == Nobody \notin Jobs /\ Ingester \notin Jobs /\ Nobody # Ingester
BY JobsAssumption DEF JobsAssumption

\* What the tasks of a request are.
LEMMA TasksType ==
    ASSUME NEW j \in Jobs
    PROVE  /\ Tasks[j] \in Seq(Task) /\ Tasks[j] # <<>> /\ 1 \in 1..Len(Tasks[j])
           /\ Len(Tasks[j]) \in Nat /\ DOMAIN Tasks[j] = 1..Len(Tasks[j])
           /\ \A n \in DOMAIN Tasks[j] :
                 /\ Tasks[j][n] \in Task /\ Tasks[j][n].inputs \in Seq(Sources)
                 /\ Tasks[j][n].key \in Keys /\ Tasks[j][n].cells \subseteq Cells
<1>1. Tasks[j] \in Seq(Task) /\ Tasks[j] # <<>>
    BY JobsAssumption DEF JobsAssumption
<1>2. \A n \in DOMAIN Tasks[j] : Tasks[j][n] \in Task
    BY <1>1
<1> QED BY <1>1, <1>2 DEF Task

-----------------------------------------------------------------------------
(* Types *)

LocalType ==
    /\ pc \in [Jobs -> Labels]
    /\ at \in [Jobs -> Nat] /\ \A j \in Jobs : at[j] \in DOMAIN Tasks[j]
    /\ held \in [Jobs -> Seq(Sources)]
    /\ started \in [Jobs -> BOOLEAN]
    /\ loaded \in [Jobs -> Seq(Nat)]
    /\ prep \in [Jobs -> SUBSET [cell : Cells, rev : Nat]]

TypeOK ==
    /\ evidence \in [Sources -> Nat]
    /\ derived \in [Cells -> Seq(Seq(Nat))]
    /\ runs \in [Keys -> [status : Status, content : Seq(Nat)]]
    /\ global \in [{"materialize", "verify"} -> Jobs \cup {Nobody}]
    /\ source \in [Sources -> Jobs \cup {Nobody, Ingester}]
    /\ LocalType

\* The task a job executes.
LEMMA ThisType ==
    ASSUME LocalType, NEW j \in Jobs
    PROVE  /\ This(j) \in Task /\ Inputs(j) \in Seq(Sources) /\ Len(Inputs(j)) \in Nat
           /\ This(j).key \in Keys /\ This(j).cells \subseteq Cells
           /\ at[j] \in DOMAIN Tasks[j] /\ This(j) = Tasks[j][at[j]]
<1>1. at[j] \in DOMAIN Tasks[j]
    BY DEF LocalType
<1> QED BY <1>1, TasksType DEF This, Inputs

\* Every process state but those of job j stays as it is.
OthersKeep(j) ==
    \A k \in Jobs \ {j} :
        /\ pc'[k] = pc[k] /\ at'[k] = at[k] /\ held'[k] = held[k]
        /\ started'[k] = started[k] /\ loaded'[k] = loaded[k] /\ prep'[k] = prep[k]

\* Leaving a task, or the process.
Forgotten(j) == held'[j] = <<>> /\ started'[j] = FALSE /\ loaded'[j] = <<>> /\ prep'[j] = {}

\* Going on to the next task leaves the locals typed and forgets the task.
LEMMA NextTaskLocals ==
    ASSUME LocalType, NEW j \in Jobs, NextTask(j)
    PROVE  /\ LocalType' /\ OthersKeep(j) /\ Forgotten(j)
           /\ pc'[j] \in {"check", "release"}
<1>1. /\ held' = [held EXCEPT ![j] = <<>>] /\ started' = [started EXCEPT ![j] = FALSE]
      /\ loaded' = [loaded EXCEPT ![j] = <<>>] /\ prep' = [prep EXCEPT ![j] = {}]
    BY DEF NextTask, Forget
<1>2. CASE at[j] < Len(Tasks[j])
  <2>1. pc' = [pc EXCEPT ![j] = "check"] /\ at' = [at EXCEPT ![j] = at[j] + 1]
    BY <1>2 DEF NextTask, Goto
  <2>2. at[j] \in 1..Len(Tasks[j]) /\ DOMAIN Tasks[j] = 1..Len(Tasks[j]) /\ Len(Tasks[j]) \in Nat
    BY TasksType DEF LocalType
  <2>3. at[j] + 1 \in DOMAIN Tasks[j] /\ at[j] + 1 \in Nat
    BY <1>2, <2>2
  <2> QED BY <1>1, <2>1, <2>3 DEF LocalType, OthersKeep, Forgotten, Labels
<1>3. CASE ~(at[j] < Len(Tasks[j]))
  <2>1. pc' = [pc EXCEPT ![j] = "release"] /\ at' = at
    BY <1>3 DEF NextTask, Goto
  <2> QED BY <1>1, <2>1 DEF LocalType, OthersKeep, Forgotten, Labels
<1> QED BY <1>2, <1>3

\* What one job does, and what happens to one job.
Struck(j) ==
    \/ StepFails(j) \/ RecordFailureFails(j) \/ LoseGlobal(j) \/ Crash(j)
    \/ \E s \in Sources : LoseSource(j, s)
Moves(j) == Step(j) \/ Struck(j)
Ingests(s) == IngestBegin(s) \/ IngestCommit(s) \/ IngestEnd(s)

\* A step is one of a job, with its failures, or one of the ingestion of a source.
LEMMA NextParts ==
    Next <=> (\E j \in Jobs : Moves(j)) \/ (\E s \in Sources : Ingests(s))
BY DEF Next, Environment, Moves, Struck, Ingests

\* A step of one job keeps the locals typed and those of the others unchanged.
LEMMA MoveLocals ==
    ASSUME TypeOK, NEW j \in Jobs, Moves(j)
    PROVE  LocalType' /\ OthersKeep(j)
<1>0. LocalType
    BY DEF TypeOK
<1> USE <1>0 DEF Goto
<1>1. CASE BeginJob(j)
    BY <1>1 DEF BeginJob, LocalType, OthersKeep, locals, Labels
<1>2. CASE SkipJob(j)
    BY <1>2 DEF SkipJob, LocalType, OthersKeep, locals, Labels
<1>3. CASE Check(j)
  <2>1. CASE NextTask(j)
    BY <2>1, NextTaskLocals
  <2>2. CASE Goto(j, "acquire") /\ UNCHANGED locals
    BY <2>2 DEF LocalType, OthersKeep, locals, Labels
  <2> QED BY <1>3, <2>1, <2>2 DEF Check
<1>4. CASE AcquireSource(j)
  <2>1. Wanted(j) \in Sources
    <3>1. Len(held[j]) + 1 \in 1..Len(Inputs(j)) /\ Inputs(j) \in Seq(Sources)
      <4>1. Len(held[j]) \in Nat /\ Len(held[j]) < Len(Inputs(j)) /\ Len(Inputs(j)) \in Nat
        BY <1>4, ThisType DEF AcquireSource, LocalType
      <4> QED BY <4>1, ThisType
    <3> QED BY <3>1 DEF Wanted
  <2> QED BY <1>4, <2>1 DEF AcquireSource, LocalType, OthersKeep
<1>5. CASE Refused(j)
    BY <1>5, NextTaskLocals DEF Refused
<1>6. CASE Start(j)
    BY <1>6 DEF Start, LocalType, OthersKeep, Labels
<1>7. CASE Load(j)
  <2>1. evidence[Inputs(j)[Len(loaded[j]) + 1]] \in Nat
    <3>1. Len(loaded[j]) + 1 \in 1..Len(Inputs(j)) /\ Inputs(j) \in Seq(Sources)
      <4>1. Len(loaded[j]) \in Nat /\ Len(loaded[j]) < Len(Inputs(j)) /\ Len(Inputs(j)) \in Nat
        BY <1>7, ThisType DEF Load, LocalType
      <4> QED BY <4>1, ThisType
    <3> QED BY <3>1 DEF TypeOK
  <2>2. loaded' = [loaded EXCEPT ![j] = Append(loaded[j], evidence[Inputs(j)[Len(loaded[j]) + 1]])]
    BY <1>7 DEF Load
  <2>3. UNCHANGED <<pc, at, held, started, prep>>
    BY <1>7 DEF Load
  <2> QED BY <2>1, <2>2, <2>3 DEF LocalType, OthersKeep
<1>8. CASE Unlock(j)
    BY <1>8 DEF Unlock, LocalType, OthersKeep, Labels
<1>9. CASE ReadDerived(j)
  <2> DEFINE P == {[cell |-> c, rev |-> Len(derived[c]) + 1] :
                     c \in {d \in This(j).cells : derived[d] = <<>> \/ Last(derived[d]) # loaded[j]}}
  <2>1. P \in SUBSET [cell : Cells, rev : Nat]
    <3>1. \A c \in This(j).cells : c \in Cells /\ Len(derived[c]) + 1 \in Nat
      BY ThisType DEF TypeOK
    <3> QED BY <3>1
  <2>2. prep' = [prep EXCEPT ![j] = P] /\ pc' = [pc EXCEPT ![j] = "insert"]
    BY <1>9 DEF ReadDerived
  <2>3. UNCHANGED <<at, held, started, loaded>>
    BY <1>9 DEF ReadDerived
  <2> HIDE DEF P
  <2> QED BY <2>1, <2>2, <2>3 DEF LocalType, OthersKeep, Labels
<1>10. CASE Commit(j)
  <2>1. CASE NextTask(j)
    BY <2>1, NextTaskLocals
  <2>2. CASE Goto(j, "failing") /\ UNCHANGED locals
    BY <2>2 DEF LocalType, OthersKeep, locals, Labels
  <2> QED BY <1>10, <2>1, <2>2 DEF Commit
<1>11. CASE RecordFailure(j) \/ RecordFailureFails(j)
    BY <1>11, NextTaskLocals DEF RecordFailure, RecordFailureFails
<1>12. CASE ReleaseGlobal(j)
    BY <1>12 DEF ReleaseGlobal, LocalType, OthersKeep, locals, Labels
<1>13. CASE StepFails(j)
    BY <1>13 DEF StepFails, LocalType, OthersKeep, locals, Labels
<1>14. CASE Crash(j)
  <2>1. 1 \in DOMAIN Tasks[j]
    BY TasksType
  <2> QED BY <1>14, <2>1 DEF Crash, Forget, LocalType, OthersKeep, Labels
<1>15. CASE LoseGlobal(j) \/ \E s \in Sources : LoseSource(j, s)
    BY <1>15 DEF LoseGlobal, LoseSource, LocalType, OthersKeep, locals
<1> QED BY <1>1, <1>2, <1>3, <1>4, <1>5, <1>6, <1>7, <1>8, <1>9, <1>10, <1>11, <1>12, <1>13,
           <1>14, <1>15 DEF Moves, Step, Struck

\* The rows of a run that has not succeeded.
LEMMA RunRows ==
    /\ [NoRun EXCEPT !.status = "running"] = [status |-> "running", content |-> <<>>]
    /\ [NoRun EXCEPT !.status = "failed"] = [status |-> "failed", content |-> <<>>]
    /\ [status |-> "running", content |-> <<>>] \in [status : Status, content : Seq(Nat)]
    /\ [status |-> "failed", content |-> <<>>] \in [status : Status, content : Seq(Nat)]
    /\ NoRun \in [status : Status, content : Seq(Nat)]
<1>1. <<>> \in Seq(Nat) /\ {"none", "running", "succeeded", "failed"} = Status
    BY DEF Status
<1> QED BY <1>1 DEF NoRun

\* Every row has at most one more revision after a commit: what the job has read.
LEMMA StoredType ==
    ASSUME TypeOK, NEW j \in Jobs
    PROVE  /\ Stored(j) \in [Cells -> Seq(Seq(Nat))]
           /\ \A c \in Cells : Stored(j)[c] \in {derived[c], Append(derived[c], loaded[j])}
           /\ Success(j) \in [Keys -> [status : Status, content : Seq(Nat)]]
           /\ \A r \in [status : Status, content : Seq(Nat)] :
                 FailedRow(r) \in [status : Status, content : Seq(Nat)]
<1>1. loaded[j] \in Seq(Nat) /\ This(j).key \in Keys
    BY ThisType DEF TypeOK, LocalType
<1>2. \A c \in Cells : derived[c] \in Seq(Seq(Nat)) /\ Append(derived[c], loaded[j]) \in Seq(Seq(Nat))
    BY <1>1 DEF TypeOK
<1>3. \A c \in Cells : Stored(j)[c] \in {derived[c], Append(derived[c], loaded[j])}
    BY DEF Stored
<1>4. Stored(j) \in [Cells -> Seq(Seq(Nat))]
    BY <1>2 DEF Stored
<1>5. Success(j) \in [Keys -> [status : Status, content : Seq(Nat)]]
    BY <1>1 DEF Success, TypeOK, Status
<1>6. \A r \in [status : Status, content : Seq(Nat)] :
         FailedRow(r) \in [status : Status, content : Seq(Nat)]
    BY RunRows DEF FailedRow
<1> QED BY <1>3, <1>4, <1>5, <1>6

\* The tables and the locks stay well typed.
LEMMA MoveShared ==
    ASSUME TypeOK, NEW j \in Jobs, Moves(j)
    PROVE  /\ evidence' = evidence
           /\ derived' \in [Cells -> Seq(Seq(Nat))]
           /\ runs' \in [Keys -> [status : Status, content : Seq(Nat)]]
           /\ global' \in [{"materialize", "verify"} -> Jobs \cup {Nobody}]
           /\ source' \in [Sources -> Jobs \cup {Nobody, Ingester}]
<1>1. /\ Kind(j) \in {"materialize", "verify"} /\ This(j).key \in Keys
      /\ [NoRun EXCEPT !.status = "running"] \in [status : Status, content : Seq(Nat)]
    BY ThisType, RunRows DEF Kind, TypeOK
<1>2. evidence' = evidence
    BY DEF Moves, Step, Struck, BeginJob, SkipJob, Check, AcquireSource, Refused, Start, Load, Unlock,
           ReadDerived, Commit, RecordFailure, RecordFailureFails, ReleaseGlobal, StepFails, LoseGlobal,
           LoseSource, Crash, db
<1>3. derived' = derived \/ derived' = Stored(j)
    BY DEF Moves, Step, Struck, BeginJob, SkipJob, Check, AcquireSource, Refused, Start, Load, Unlock,
           ReadDerived, Commit, RecordFailure, RecordFailureFails, ReleaseGlobal, StepFails, LoseGlobal,
           LoseSource, Crash, db
<1>4. \/ runs' = runs \/ runs' = Success(j)
      \/ runs' = [runs EXCEPT ![This(j).key] = [NoRun EXCEPT !.status = "running"]]
      \/ runs' = [runs EXCEPT ![This(j).key] = FailedRow(runs[This(j).key])]
    BY DEF Moves, Step, Struck, BeginJob, SkipJob, Check, AcquireSource, Refused, Start, Load, Unlock,
           ReadDerived, Commit, RecordFailure, RecordFailureFails, ReleaseGlobal, StepFails, LoseGlobal,
           LoseSource, Crash, db
<1>5. \/ global' = global \/ global' = [global EXCEPT ![Kind(j)] = j]
      \/ global' = [global EXCEPT ![Kind(j)] = Nobody]
      \/ global' = [global EXCEPT ![Kind(j)] = IF global[Kind(j)] = j THEN Nobody ELSE global[Kind(j)]]
    BY DEF Moves, Step, Struck, BeginJob, SkipJob, Check, AcquireSource, Refused, Start, Load, Unlock,
           ReadDerived, Commit, RecordFailure, RecordFailureFails, ReleaseGlobal, StepFails, LoseGlobal,
           LoseSource, Crash, locks
<1>6. \/ source' = source \/ source' = [source EXCEPT ![Wanted(j)] = j]
      \/ source' = [s \in Sources |-> IF source[s] = j THEN Nobody ELSE source[s]]
      \/ \E s \in Sources : source' = [source EXCEPT ![s] = Nobody]
    BY DEF Moves, Step, Struck, BeginJob, SkipJob, Check, AcquireSource, Refused, Start, Load, Unlock,
           ReadDerived, Commit, RecordFailure, RecordFailureFails, ReleaseGlobal, StepFails, LoseGlobal,
           LoseSource, Crash, locks, UnlockSources
<1>7. derived' \in [Cells -> Seq(Seq(Nat))]
    BY <1>3, StoredType DEF TypeOK
<1>8. runs' \in [Keys -> [status : Status, content : Seq(Nat)]]
  <2> DEFINE Row == [status : Status, content : Seq(Nat)]
  <2>1. /\ runs \in [Keys -> Row] /\ Success(j) \in [Keys -> Row] /\ FailedRow(runs[This(j).key]) \in Row
        /\ [NoRun EXCEPT !.status = "running"] \in Row
    BY <1>1, StoredType DEF TypeOK
  <2> HIDE DEF Row
  <2>2. runs' \in [Keys -> Row]
    BY <1>4, <2>1
  <2> QED BY <2>2 DEF Row
<1>9. global' \in [{"materialize", "verify"} -> Jobs \cup {Nobody}]
    BY <1>1, <1>5 DEF TypeOK
<1>10. source' \in [Sources -> Jobs \cup {Nobody, Ingester}]
    BY <1>6 DEF TypeOK
<1> QED BY <1>2, <1>7, <1>8, <1>9, <1>10

\* Ingestion touches nothing of the jobs, and evidence only under its own lock.
LEMMA IngestStep ==
    ASSUME TypeOK, NEW s \in Sources, Ingests(s)
    PROVE  /\ TypeOK' /\ UNCHANGED <<derived, runs, global, pc, locals, failed>>
           /\ \A r \in Sources : evidence'[r] >= evidence[r]
           /\ \A r \in Sources : source[r] \in Jobs =>
                 source'[r] = source[r] /\ evidence'[r] = evidence[r]
<1>1. UNCHANGED <<derived, runs, global, pc, locals, failed>>
    BY DEF Ingests, IngestBegin, IngestCommit, IngestEnd, db, locks
<1>2. \/ source[s] \in {Nobody, Ingester} /\ evidence' = evidence
         /\ source' = [source EXCEPT ![s] = Ingester]
      \/ source[s] \in {Nobody, Ingester} /\ evidence' = evidence
         /\ source' = [source EXCEPT ![s] = Nobody]
      \/ source[s] = Ingester /\ source' = source
         /\ evidence' = [evidence EXCEPT ![s] = evidence[s] + 1]
    BY DEF Ingests, IngestBegin, IngestCommit, IngestEnd, db, locks
<1>3. TypeOK'
  <2>1. evidence' \in [Sources -> Nat]
    <3>1. evidence \in [Sources -> Nat] /\ evidence[s] + 1 \in Nat
      BY DEF TypeOK
    <3>2. evidence' = evidence \/ evidence' = [evidence EXCEPT ![s] = evidence[s] + 1]
      BY <1>2
    <3> QED BY <3>1, <3>2
  <2>3. source' \in [Sources -> Jobs \cup {Nobody, Ingester}]
    <3>1. \/ source' = source \/ source' = [source EXCEPT ![s] = Ingester]
          \/ source' = [source EXCEPT ![s] = Nobody]
      BY <1>2
    <3> QED BY <3>1 DEF TypeOK
  <2>2. LocalType'
    BY <1>1 DEF TypeOK, LocalType, locals
  <2> QED BY <1>1, <2>1, <2>2, <2>3 DEF TypeOK
<1>4. \A r \in Sources : evidence'[r] >= evidence[r]
    BY <1>2 DEF TypeOK
<1>5. \A r \in Sources : source[r] \in Jobs => source'[r] = source[r] /\ evidence'[r] = evidence[r]
    BY <1>2, Owners DEF TypeOK
<1> QED BY <1>1, <1>3, <1>4, <1>5

\* Every variable has its type, for any jobs, tasks, sources and failures.
THEOREM TypeCorrect == Spec => []TypeOK
<1>1. Init => TypeOK
  <2>1. \A j \in Jobs : 1 \in DOMAIN Tasks[j]
    BY TasksType
  <2> QED BY <2>1 DEF Init, TypeOK, LocalType, NoRun, Status, Labels
<1>2. TypeOK /\ [Next]_vars => TypeOK'
  <2> SUFFICES ASSUME TypeOK, [Next]_vars PROVE TypeOK'
    OBVIOUS
  <2>1. ASSUME NEW j \in Jobs, Moves(j) PROVE TypeOK'
    BY <2>1, MoveLocals, MoveShared DEF TypeOK
  <2>2. ASSUME NEW s \in Sources, Ingests(s) PROVE TypeOK'
    BY <2>2, IngestStep
  <2>3. CASE UNCHANGED vars
    BY <2>3 DEF vars, db, locks, locals, TypeOK, LocalType
  <2> QED BY <2>1, <2>2, <2>3, NextParts
<1> QED BY <1>1, <1>2, PTL DEF Spec

-----------------------------------------------------------------------------
(* The effects of a job on the tables and the locks, as the others see them *)

\* A failure that happened stays on record.
LEMMA SessionStays == [Next]_vars /\ NoSessionLost' => NoSessionLost
<1> SUFFICES ASSUME [Next]_vars PROVE failed \subseteq failed'
    BY DEF NoSessionLost
<1>1. ASSUME NEW j \in Jobs, Moves(j) PROVE failed \subseteq failed'
    BY <1>1 DEF Moves, Step, Struck, BeginJob, SkipJob, Check, AcquireSource, Refused, Start, Load,
         Unlock, ReadDerived, Commit, RecordFailure, RecordFailureFails, ReleaseGlobal, StepFails,
         LoseGlobal, LoseSource, Crash, Fault
<1>2. ASSUME NEW s \in Sources, Ingests(s) PROVE failed \subseteq failed'
    BY <1>2 DEF Ingests, IngestBegin, IngestCommit, IngestEnd
<1> QED BY <1>1, <1>2, NextParts DEF vars

\* A job takes a free source lock, or gives back its own.
LEMMA SourceEffect ==
    ASSUME NEW j \in Jobs, Moves(j), NoSessionLost'
    PROVE  \/ source' = source
           \/ source[Wanted(j)] = Nobody /\ source' = [source EXCEPT ![Wanted(j)] = j]
           \/ source' = [s \in Sources |-> IF source[s] = j THEN Nobody ELSE source[s]]
BY DEF Moves, Step, Struck, BeginJob, SkipJob, Check, AcquireSource, Refused, Start, Load, Unlock,
       ReadDerived, Commit, RecordFailure, RecordFailureFails, ReleaseGlobal, StepFails, LoseGlobal,
       LoseSource, Crash, locks, UnlockSources, Fault, NoSessionLost

\* A job takes its free global lock, or gives back its own.
LEMMA GlobalEffect ==
    ASSUME TypeOK, NEW j \in Jobs, Moves(j), NoSessionLost'
    PROVE  \/ global' = global
           \/ global[Kind(j)] = Nobody /\ global' = [global EXCEPT ![Kind(j)] = j]
           \/ pc'[j] \in {"finished", "idle"} /\
              global' = [global EXCEPT ![Kind(j)] = IF global[Kind(j)] = j THEN Nobody
                                                    ELSE global[Kind(j)]]
<1> SUFFICES ASSUME ~(\/ global' = global
                      \/ global[Kind(j)] = Nobody /\ global' = [global EXCEPT ![Kind(j)] = j])
    PROVE  /\ pc' = [pc EXCEPT ![j] = "finished"] \/ pc' = [pc EXCEPT ![j] = "idle"]
           /\ global' = [global EXCEPT ![Kind(j)] = IF global[Kind(j)] = j THEN Nobody
                                                    ELSE global[Kind(j)]]
    BY DEF TypeOK, LocalType
<1> QED
BY DEF Moves, Step, Struck, BeginJob, SkipJob, Check, AcquireSource, Refused, Start, Load, Unlock,
       ReadDerived, Commit, RecordFailure, RecordFailureFails, ReleaseGlobal, StepFails, LoseGlobal,
       LoseSource, Crash, locks, Goto, Fault, NoSessionLost

\* The tables change when a success, a start or a failure is recorded.
Commits(j) ==
    /\ pc[j] = "insert" /\ ~Conflicting(j)
    /\ derived' = Stored(j) /\ runs' = Success(j)
    /\ NextTask(j)
Starts(j) ==
    /\ pc[j] = "acquire" /\ derived' = derived
    /\ runs' = [runs EXCEPT ![This(j).key] = [status |-> "running", content |-> <<>>]]
Fails(j) ==
    /\ pc[j] = "failing" /\ derived' = derived /\ (started[j] \/ j \in Materializers)
    /\ runs' = [runs EXCEPT ![This(j).key] = FailedRow(runs[This(j).key])]

\* Any other step of a job leaves the derived rows and the run table alone.
LEMMA TableEffect ==
    ASSUME NEW j \in Jobs, Moves(j)
    PROVE  (derived' = derived /\ runs' = runs) \/ Commits(j) \/ Starts(j) \/ Fails(j)
BY RunRows
   DEF Moves, Step, Struck, BeginJob, SkipJob, Check, AcquireSource, Refused, Start, Load, Unlock,
       ReadDerived, Commit, RecordFailure, RecordFailureFails, ReleaseGlobal, StepFails, LoseGlobal,
       LoseSource, Crash, db, Commits, Starts, Fails

\* Revisions are only added, and only of rows the job derives.
LEMMA DerivedGrows ==
    ASSUME TypeOK, NEW j \in Jobs, Moves(j), NEW c \in Cells
    PROVE  /\ derived[c] \in Seq(Seq(Nat)) /\ derived'[c] \in Seq(Seq(Nat))
           /\ \/ derived'[c] = derived[c]
              \/ /\ Commits(j) /\ derived'[c] = Append(derived[c], loaded[j])
                 /\ \E w \in prep[j] : w.cell = c
           /\ \A m \in DOMAIN derived[c] : m \in DOMAIN derived'[c] /\ derived'[c][m] = derived[c][m]
<1>1. derived[c] \in Seq(Seq(Nat)) /\ derived'[c] \in Seq(Seq(Nat)) /\ loaded[j] \in Seq(Nat)
    BY MoveShared DEF TypeOK, LocalType
<1>2. \/ derived'[c] = derived[c]
      \/ /\ Commits(j) /\ derived'[c] = Append(derived[c], loaded[j])
         /\ \E w \in prep[j] : w.cell = c
  <2>1. derived' = derived \/ Commits(j)
    BY TableEffect DEF Starts, Fails
  <2>2. CASE Commits(j)
    <3>1. derived'[c] = IF \E w \in prep[j] : w.cell = c /\ Len(derived[c]) < w.rev
                        THEN Append(derived[c], loaded[j]) ELSE derived[c]
      BY <2>2 DEF Commits, Stored
    <3> QED BY <2>2, <3>1
  <2> QED BY <2>1, <2>2
<1>3. ASSUME NEW m \in DOMAIN derived[c]
      PROVE  m \in DOMAIN derived'[c] /\ derived'[c][m] = derived[c][m]
  <2>1. m \in 1..Len(derived[c]) /\ Len(derived[c]) \in Nat
    BY <1>1
  <2>2. CASE derived'[c] = Append(derived[c], loaded[j])
    <3>1. /\ DOMAIN derived'[c] = 1..(Len(derived[c]) + 1)
          /\ \A i \in 1..Len(derived[c]) : derived'[c][i] = derived[c][i]
      BY <1>1, <2>2
    <3> QED BY <2>1, <3>1
  <2> QED BY <1>2, <2>2
<1> QED BY <1>1, <1>2, <1>3

-----------------------------------------------------------------------------
(* The inductive invariant *)

Reading == {"load", "derive", "insert"}

\* A job that has not started a task has read nothing for it.
Unstarted(j) ==
    /\ pc[j] \in {"idle", "check"} => held[j] = <<>>
    /\ pc[j] \in {"idle", "check", "acquire"} => loaded[j] = <<>>
    /\ started[j] => pc[j] \in Reading \cup {"failing"}

\* What a job has read was stored.
Reads(j) ==
    /\ pc[j] \in Reading =>
          /\ Len(loaded[j]) <= Len(Inputs(j))
          /\ \A i \in 1..Len(loaded[j]) : loaded[j][i] <= evidence[Inputs(j)[i]]
    /\ pc[j] \in {"derive", "insert"} => Len(loaded[j]) = Len(Inputs(j))

\* A transaction inserts rows of its task only, and every one that is not there.
Covers(j) ==
    pc[j] = "insert" =>
        /\ \A w \in prep[j] : w.cell \in This(j).cells
        /\ \A c \in This(j).cells :
              \/ \E w \in prep[j] : w.cell = c
              \/ \E i \in DOMAIN derived[c] : derived[c][i] = loaded[j]

\* Derived rows are of what their task reads, and of nothing later than what is stored.
DerivedKnown ==
    \A j \in Jobs : \A n \in DOMAIN Tasks[j] : \A c \in Tasks[j][n].cells :
        \A m \in DOMAIN derived[c] :
            /\ Len(derived[c][m]) = Len(Tasks[j][n].inputs)
            /\ \A i \in 1..Len(derived[c][m]) : derived[c][m][i] <= evidence[Tasks[j][n].inputs[i]]

\* While no lock is lost: a job that runs owns the global lock of its kind, and it
\* owns the source locks until it has read all inputs.
Owns(j) ==
    /\ pc[j] \notin {"idle", "finished"} => global[Kind(j)] = j
    /\ pc[j] \in {"acquire", "load"} =>
          /\ Len(held[j]) <= Len(Inputs(j))
          /\ \A i \in 1..Len(held[j]) : source[Inputs(j)[i]] = j
    /\ pc[j] = "load" => Len(held[j]) = Len(Inputs(j))

Coherent(j) ==
    pc[j] = "load" => \A i \in 1..Len(loaded[j]) : loaded[j][i] = evidence[Inputs(j)[i]]

\* Nothing stored is derived from later evidence than what the job has read.
After(j) ==
    pc[j] \in Reading => \A c \in This(j).cells : \A m \in DOMAIN derived[c] :
        \A i \in 1..Len(loaded[j]) : derived[c][m][i] <= loaded[j][i]

\* What is about to be inserted differs from the last revision.
Differs(j) ==
    pc[j] = "insert" => \A w \in prep[j] :
        derived[w.cell] = <<>> \/ Last(derived[w.cell]) # loaded[j]

\* The run row says that the task a job has started is running.
Recorded(j) == started[j] => runs[This(j).key].status = "running"

Always(j) == Unstarted(j) /\ Reads(j) /\ Covers(j)
WithLocks(j) == Owns(j) /\ Coherent(j) /\ After(j) /\ Differs(j) /\ Recorded(j)

IInv ==
    /\ TypeOK
    /\ \A j \in Jobs : Always(j)
    /\ DerivedKnown
    /\ SuccessIsStored
    /\ NoSessionLost => DerivedInOrder /\ \A j \in Jobs : WithLocks(j)

-----------------------------------------------------------------------------
(* What a step leaves of the invariant of the jobs that do not take it *)

\* The task of a job that takes no step is the same.
LEMMA SameTask ==
    ASSUME NEW j \in Jobs, NEW k \in Jobs \ {j}, OthersKeep(j)
    PROVE  This(k)' = This(k) /\ Inputs(k)' = Inputs(k)
BY DEF OthersKeep, This, Inputs

\* What always holds of a job is not disturbed by another job.
LEMMA OthersAlways ==
    ASSUME TypeOK, NEW j \in Jobs, Moves(j), NEW k \in Jobs \ {j}, Always(k)
    PROVE  Always(k)'
<1>1. OthersKeep(j) /\ This(k)' = This(k) /\ Inputs(k)' = Inputs(k) /\ evidence' = evidence
    BY MoveLocals, MoveShared, SameTask
<1>2. /\ pc'[k] = pc[k] /\ held'[k] = held[k] /\ started'[k] = started[k]
      /\ loaded'[k] = loaded[k] /\ prep'[k] = prep[k]
    BY <1>1 DEF OthersKeep
<1>3. Unstarted(k)' /\ Reads(k)'
    BY <1>1, <1>2 DEF Always, Unstarted, Reads
<1>4. Covers(k)'
  <2>1. SUFFICES ASSUME pc[k] = "insert", NEW c \in This(k).cells, ~\E w \in prep[k] : w.cell = c
                 PROVE  \E i \in DOMAIN derived'[c] : derived'[c][i] = loaded[k]
    BY <1>1, <1>2 DEF Always, Covers
  <2>2. PICK i \in DOMAIN derived[c] : derived[c][i] = loaded[k]
    BY <2>1 DEF Always, Covers
  <2>3. c \in Cells
    BY ThisType DEF TypeOK
  <2> QED BY <2>2, <2>3, DerivedGrows
<1> QED BY <1>3, <1>4 DEF Always

\* What holds of a job while locks are kept is not disturbed by another job.
LEMMA OthersWithLocks ==
    ASSUME TypeOK, NEW j \in Jobs, Moves(j), NEW k \in Jobs \ {j}, NoSessionLost',
           Always(k), WithLocks(k), Always(j), WithLocks(j)
    PROVE  WithLocks(k)'
<1>1. OthersKeep(j) /\ This(k)' = This(k) /\ Inputs(k)' = Inputs(k) /\ evidence' = evidence
    BY MoveLocals, MoveShared, SameTask
<1>2. /\ pc'[k] = pc[k] /\ held'[k] = held[k] /\ started'[k] = started[k]
      /\ loaded'[k] = loaded[k] /\ prep'[k] = prep[k]
    BY <1>1 DEF OthersKeep
<1>3. Owns(k)'
  <2>1. ASSUME global[Kind(k)] = k PROVE global'[Kind(k)] = k
    <3>1. Kind(k) \in {"materialize", "verify"} /\ k # Nobody /\ k # j
      BY Owners DEF Kind
    <3> QED BY <2>1, <3>1, GlobalEffect DEF TypeOK
  <2>2. ASSUME NEW s \in Sources, source[s] = k PROVE source'[s] = k
    <3>1. k # Nobody /\ k # j
      BY Owners
    <3> QED BY <2>2, <3>1, SourceEffect DEF TypeOK
  <2>3. ASSUME pc[k] \in {"acquire", "load"}, NEW i \in 1..Len(held[k])
        PROVE  Inputs(k)[i] \in Sources /\ source[Inputs(k)[i]] = k
    <3>1. Len(held[k]) \in Nat /\ Inputs(k) \in Seq(Sources) /\ Len(Inputs(k)) \in Nat
      BY ThisType DEF TypeOK, LocalType
    <3>2. Len(held[k]) <= Len(Inputs(k)) /\ source[Inputs(k)[i]] = k
      BY <2>3 DEF WithLocks, Owns
    <3>3. i \in 1..Len(Inputs(k))
      BY <3>1, <3>2
    <3> QED BY <3>1, <3>2, <3>3
  <2> QED BY <1>1, <1>2, <2>1, <2>2, <2>3 DEF WithLocks, Owns
<1>4. Coherent(k)'
    BY <1>1, <1>2 DEF WithLocks, Coherent
<1>5. ASSUME pc[k] \in Reading, NEW c \in This(k).cells PROVE derived'[c] = derived[c]
  <2>1. c \in Cells
    BY ThisType DEF TypeOK
  <2>2. SUFFICES ASSUME Commits(j), NEW w \in prep[j], w.cell = c PROVE FALSE
    BY <2>1, DerivedGrows
  <2>3. c \in This(j).cells /\ global[Kind(j)] = j /\ global[Kind(k)] = k
    BY <1>5, <2>2 DEF Commits, Always, Covers, WithLocks, Owns, Reading
  <2>4. Kind(j) = Kind(k)
    <3>1. /\ at[j] \in DOMAIN Tasks[j] /\ at[k] \in DOMAIN Tasks[k]
          /\ This(j) = Tasks[j][at[j]] /\ This(k) = Tasks[k][at[k]]
      BY ThisType DEF TypeOK
    <3>2. SameWork(j, This(j), k, This(k))
      BY <3>1, Work
    <3> QED BY <2>3, <3>2 DEF SameWork
  <2> QED BY <2>3, <2>4
<1>6. After(k)'
    BY <1>1, <1>2, <1>5 DEF WithLocks, After
<1>7. Differs(k)'
  <2>1. \A w \in prep[k] : pc[k] = "insert" => derived'[w.cell] = derived[w.cell]
    BY <1>5 DEF Always, Covers, Reading
  <2> QED BY <1>1, <1>2, <2>1 DEF WithLocks, Differs
<1>8. ASSUME started[k] PROVE runs'[This(k).key] = runs[This(k).key]
  <2>1. SUFFICES ASSUME Commits(j) \/ Starts(j) \/ Fails(j), This(j).key = This(k).key PROVE FALSE
    <3>1. This(k).key \in Keys /\ This(j).key \in Keys
      BY ThisType DEF TypeOK
    <3> QED BY <3>1, TableEffect DEF TypeOK, Commits, Starts, Fails, Success
  <2>2. global[Kind(j)] = j /\ global[Kind(k)] = k
    BY <1>8, <2>1 DEF Commits, Starts, Fails, WithLocks, Owns, Always, Unstarted, Reading
  <2>3. Kind(j) = Kind(k)
    <3>1. /\ at[j] \in DOMAIN Tasks[j] /\ at[k] \in DOMAIN Tasks[k]
          /\ This(j) = Tasks[j][at[j]] /\ This(k) = Tasks[k][at[k]]
      BY ThisType DEF TypeOK
    <3>2. SameWork(j, This(j), k, This(k))
      BY <3>1, Work
    <3> QED BY <2>1, <3>2 DEF SameWork
  <2> QED BY <2>2, <2>3
<1>9. Recorded(k)'
    BY <1>1, <1>2, <1>8 DEF WithLocks, Recorded
<1> QED BY <1>3, <1>4, <1>6, <1>7, <1>9 DEF WithLocks

-----------------------------------------------------------------------------
(* What a step leaves of the invariant of the job that takes it *)

\* Whatever a job does, it keeps its task until it leaves it.
LEMMA OwnTask ==
    ASSUME LocalType, NEW j \in Jobs, at' = at
    PROVE  This(j)' = This(j) /\ Inputs(j)' = Inputs(j)
BY DEF This, Inputs

\* A job that leaves its task has no task to say anything about.
LEMMA OwnForgets ==
    ASSUME TypeOK, NEW j \in Jobs, NextTask(j), global' = global
    PROVE  /\ Always(j)'
           /\ pc[j] \notin {"idle", "finished"} /\ WithLocks(j) => WithLocks(j)'
<1>1. Forgotten(j) /\ pc'[j] \in {"check", "release"}
    BY NextTaskLocals DEF TypeOK
<1>2. /\ pc'[j] \notin Reading \cup {"insert", "load", "derive", "acquire"}
      /\ started'[j] = FALSE /\ held'[j] = <<>> /\ loaded'[j] = <<>>
    BY <1>1 DEF Forgotten, Reading
<1>3. Always(j)'
    BY <1>2 DEF Always, Unstarted, Reads, Covers
<1>4. ASSUME pc[j] \notin {"idle", "finished"}, WithLocks(j) PROVE WithLocks(j)'
    BY <1>2, <1>4 DEF WithLocks, Owns, Coherent, After, Differs, Recorded
<1> QED BY <1>3, <1>4

\* A command that begins, or ends without having a task.
LEMMA OwnElsewhere ==
    ASSUME TypeOK, NEW j \in Jobs, UNCHANGED locals, runs' = runs,
           NEW l \in {"check", "finished"}, Goto(j, l), pc[j] \in {"idle", "release"},
           l = "check" => pc[j] = "idle",
           Unstarted(j)
    PROVE  /\ Always(j)'
           /\ WithLocks(j) /\ (l # "finished" => global'[Kind(j)] = j) => WithLocks(j)'
<1>1. pc'[j] = l /\ l \notin Reading \cup {"insert", "load", "derive", "acquire"}
    BY DEF TypeOK, LocalType, Goto, Reading
<1>2. /\ ~started'[j] /\ held'[j] = held[j] /\ loaded'[j] = loaded[j]
      /\ l = "check" => held[j] = <<>> /\ loaded[j] = <<>>
    BY DEF locals, Unstarted, Reading
<1>3. Always(j)'
    BY <1>1, <1>2 DEF Always, Unstarted, Reads, Covers
<1>4. ASSUME WithLocks(j), l # "finished" => global'[Kind(j)] = j PROVE WithLocks(j)'
    BY <1>1, <1>2, <1>4 DEF WithLocks, Owns, Coherent, After, Differs, Recorded
<1> QED BY <1>3, <1>4

\* The reads: one more source whose lock is owned, one more input that is stored.
LEMMA OwnAcquires ==
    ASSUME TypeOK, NEW j \in Jobs, AcquireSource(j), Always(j)
    PROVE  Always(j)' /\ (WithLocks(j) => WithLocks(j)')
<1>1. /\ pc[j] = "acquire" /\ pc'[j] = "acquire" /\ This(j)' = This(j) /\ Inputs(j)' = Inputs(j)
      /\ source' = [source EXCEPT ![Wanted(j)] = j] /\ held'[j] = Append(held[j], Wanted(j))
      /\ global' = global /\ loaded' = loaded /\ started' = started
      /\ Len(held[j]) < Len(Inputs(j))
    BY DEF AcquireSource, TypeOK, LocalType, This, Inputs
<1>2. Always(j)'
    BY <1>1 DEF Always, Unstarted, Reads, Covers, Reading
<1>3. ASSUME WithLocks(j) PROVE WithLocks(j)'
  <2>1. held[j] \in Seq(Sources) /\ Len(held[j]) \in Nat /\ Inputs(j) \in Seq(Sources)
        /\ Len(Inputs(j)) \in Nat
    BY ThisType DEF TypeOK, LocalType
  <2>2. Len(held[j]) + 1 \in 1..Len(Inputs(j)) /\ Wanted(j) \in Sources
    <3>1. Len(held[j]) + 1 \in 1..Len(Inputs(j))
      BY <1>1, <2>1
    <3> QED BY <2>1, <3>1 DEF Wanted
  <2>3. Len(held'[j]) = Len(held[j]) + 1
    BY <1>1, <2>1, <2>2
  <2>4. ASSUME NEW i \in 1..(Len(held[j]) + 1) PROVE source'[Inputs(j)[i]] = j
    <3>1. CASE i = Len(held[j]) + 1
      BY <1>1, <2>2, <3>1 DEF Wanted, TypeOK
    <3>2. CASE i # Len(held[j]) + 1
      <4>1. i \in 1..Len(held[j]) /\ i \in 1..Len(Inputs(j))
        BY <1>1, <2>1, <3>2
      <4>2. source[Inputs(j)[i]] = j /\ Inputs(j)[i] \in Sources
        BY <1>1, <1>3, <2>1, <4>1 DEF WithLocks, Owns
      <4> QED BY <1>1, <2>2, <4>2 DEF TypeOK
    <3> QED BY <3>1, <3>2
  <2>5. Owns(j)'
    <3>1. Len(held'[j]) <= Len(Inputs(j))
      BY <1>1, <2>1, <2>3
    <3> QED BY <1>1, <1>3, <2>3, <2>4, <3>1 DEF WithLocks, Owns
  <2>6. ~started[j]
    BY <1>1 DEF Always, Unstarted, Reading
  <2> QED BY <1>1, <2>5, <2>6 DEF WithLocks, Coherent, After, Differs, Recorded, Reading
<1> QED BY <1>2, <1>3

\* Recording a start keeps the invariant of the job itself.
LEMMA OwnStarts ==
    ASSUME TypeOK, NEW j \in Jobs, Start(j), Always(j)
    PROVE  Always(j)' /\ (WithLocks(j) => WithLocks(j)')
<1>1. /\ pc[j] = "acquire" /\ pc'[j] = "load" /\ This(j)' = This(j) /\ Inputs(j)' = Inputs(j)
      /\ runs' = [runs EXCEPT ![This(j).key] = [status |-> "running", content |-> <<>>]]
      /\ global' = global /\ source' = source /\ held' = held /\ loaded' = loaded
      /\ started'[j] = TRUE /\ Len(held[j]) = Len(Inputs(j)) /\ loaded[j] = <<>>
    BY RunRows DEF Start, TypeOK, LocalType, This, Inputs, locks, Goto, Always, Unstarted
<1>2. Len(<<>>) = 0 /\ Len(Inputs(j)) \in Nat /\ This(j).key \in Keys
    BY ThisType DEF TypeOK
<1>3. Always(j)'
    BY <1>1, <1>2 DEF Always, Unstarted, Reads, Covers, Reading
<1>4. ASSUME WithLocks(j) PROVE WithLocks(j)'
  <2>1. Owns(j)' /\ Coherent(j)' /\ After(j)' /\ Differs(j)'
    BY <1>1, <1>2, <1>4 DEF WithLocks, Owns, Coherent, After, Differs
  <2>2. Recorded(j)'
    BY <1>1, <1>2 DEF Recorded, TypeOK
  <2> QED BY <2>1, <2>2 DEF WithLocks
<1> QED BY <1>3, <1>4

\* Reading the next input keeps the invariant of the job itself.
LEMMA OwnLoads ==
    ASSUME TypeOK, NEW j \in Jobs, Load(j), Always(j), DerivedKnown
    PROVE  Always(j)' /\ (WithLocks(j) => WithLocks(j)')
<1> DEFINE n == Len(loaded[j]) + 1
<1>1. /\ pc[j] = "load" /\ pc'[j] = "load" /\ This(j)' = This(j) /\ Inputs(j)' = Inputs(j)
      /\ loaded'[j] = Append(loaded[j], evidence[Inputs(j)[n]])
      /\ Len(loaded[j]) < Len(Inputs(j)) /\ evidence' = evidence /\ derived' = derived /\ runs' = runs
      /\ global' = global /\ source' = source /\ held' = held /\ started' = started
    BY DEF Load, TypeOK, LocalType, This, Inputs, db, locks
<1>2. /\ loaded[j] \in Seq(Nat) /\ Len(loaded[j]) \in Nat /\ Inputs(j) \in Seq(Sources)
      /\ Len(Inputs(j)) \in Nat /\ evidence \in [Sources -> Nat]
    BY ThisType DEF TypeOK, LocalType
<1>3. n \in 1..Len(Inputs(j)) /\ Inputs(j)[n] \in Sources /\ evidence[Inputs(j)[n]] \in Nat
  <2>1. n \in 1..Len(Inputs(j))
    BY <1>1, <1>2
  <2> HIDE DEF n
  <2> QED BY <1>2, <2>1
<1>4. /\ Len(loaded'[j]) = n /\ loaded'[j][n] = evidence[Inputs(j)[n]]
      /\ \A i \in 1..Len(loaded[j]) : loaded'[j][i] = loaded[j][i]
      /\ \A i \in 1..n : i = n \/ i \in 1..Len(loaded[j])
    BY SMTT(30), <1>1, <1>2, <1>3
<1> HIDE DEF n
<1>5. Always(j)'
  <2>1. Reads(j)'
    <3>1. Len(loaded'[j]) <= Len(Inputs(j))
      BY <1>2, <1>3, <1>4
    <3>2. \A i \in 1..Len(loaded'[j]) : loaded'[j][i] <= evidence[Inputs(j)[i]]
      BY <1>1, <1>3, <1>4 DEF Always, Reads, Reading
    <3> QED BY <1>1, <3>1, <3>2 DEF Reads
  <2> QED BY <1>1, <2>1 DEF Always, Unstarted, Covers, Reading
<1>6. ASSUME WithLocks(j) PROVE WithLocks(j)'
  <2>1. Coherent(j)'
    BY <1>1, <1>4, <1>6 DEF WithLocks, Coherent
  <2>2. ASSUME NEW c \in This(j).cells, NEW m \in DOMAIN derived[c], NEW i \in 1..Len(loaded'[j])
        PROVE  derived[c][m][i] <= loaded'[j][i]
    <3>1. CASE i # n
      <4>1. i \in 1..Len(loaded[j])
        BY <1>4, <3>1
      <4> QED BY <1>1, <1>4, <1>6, <4>1 DEF WithLocks, After, Reading
    <3>2. CASE i = n
      <4>1. at[j] \in DOMAIN Tasks[j] /\ This(j) = Tasks[j][at[j]]
        BY ThisType DEF TypeOK
      <4>2. /\ Len(derived[c][m]) = Len(Inputs(j))
            /\ \A k \in 1..Len(derived[c][m]) : derived[c][m][k] <= evidence[Inputs(j)[k]]
        BY <4>1 DEF DerivedKnown, Inputs
      <4> QED BY <1>3, <1>4, <3>2, <4>2
    <3> QED BY <3>1, <3>2
  <2>3. After(j)'
    BY <1>1, <2>2 DEF After
  <2>4. Owns(j)' /\ Differs(j)' /\ Recorded(j)'
    BY <1>1, <1>6 DEF WithLocks, Owns, Differs, Recorded
  <2> QED BY <2>1, <2>3, <2>4 DEF WithLocks
<1> QED BY <1>5, <1>6

\* Giving the source locks back keeps the invariant of the job itself.
LEMMA OwnUnlocks ==
    ASSUME TypeOK, NEW j \in Jobs, Unlock(j), Always(j)
    PROVE  Always(j)' /\ (WithLocks(j) => WithLocks(j)')
<1>1. /\ pc[j] = "load" /\ pc'[j] \in {"derive", "failing"}
      /\ This(j)' = This(j) /\ Inputs(j)' = Inputs(j) /\ evidence' = evidence /\ derived' = derived
      /\ Len(loaded[j]) = Len(Inputs(j)) /\ loaded' = loaded /\ runs' = runs
      /\ global' = global /\ started' = started
    BY DEF Unlock, TypeOK, LocalType, This, Inputs, db, Goto
<1>2. Always(j)'
    BY <1>1 DEF Always, Unstarted, Reads, Covers, Reading
<1>3. ASSUME WithLocks(j) PROVE WithLocks(j)'
    BY <1>1, <1>3 DEF WithLocks, Owns, Coherent, After, Differs, Recorded, Reading
<1> QED BY <1>2, <1>3

\* Allocating the revisions keeps the invariant of the job itself.
LEMMA OwnPrepares ==
    ASSUME TypeOK, NEW j \in Jobs, ReadDerived(j), Always(j)
    PROVE  Always(j)' /\ (WithLocks(j) => WithLocks(j)')
<1>1. /\ pc[j] = "derive" /\ pc'[j] = "insert"
      /\ This(j)' = This(j) /\ Inputs(j)' = Inputs(j) /\ evidence' = evidence /\ derived' = derived
      /\ loaded' = loaded /\ runs' = runs /\ global' = global /\ started' = started
      /\ prep'[j] = {[cell |-> c, rev |-> Len(derived[c]) + 1] :
                       c \in {d \in This(j).cells : derived[d] = <<>> \/ Last(derived[d]) # loaded[j]}}
    BY DEF ReadDerived, TypeOK, LocalType, This, Inputs, db, locks, Goto
<1>2. ASSUME NEW c \in This(j).cells, ~\E w \in prep'[j] : w.cell = c
      PROVE  \E i \in DOMAIN derived[c] : derived[c][i] = loaded[j]
  <2>1. derived[c] # <<>> /\ Last(derived[c]) = loaded[j]
    <3>1. SUFFICES ASSUME derived[c] = <<>> \/ Last(derived[c]) # loaded[j]
                   PROVE  \E w \in prep'[j] : w.cell = c
      BY <1>2
    <3>2. [cell |-> c, rev |-> Len(derived[c]) + 1] \in prep'[j]
      BY <1>1, <3>1
    <3> QED BY <3>2
  <2>2. derived[c] \in Seq(Seq(Nat))
    BY ThisType DEF TypeOK
  <2>3. Len(derived[c]) \in DOMAIN derived[c]
    BY <2>1, <2>2
  <2> QED BY <2>1, <2>3 DEF Last
<1>3. Always(j)'
  <2>1. Unstarted(j)' /\ Reads(j)'
    BY <1>1 DEF Always, Unstarted, Reads, Reading
  <2>2. Covers(j)'
    BY <1>1, <1>2 DEF Covers
  <2> QED BY <2>1, <2>2 DEF Always
<1>4. ASSUME WithLocks(j) PROVE WithLocks(j)'
  <2>1. Differs(j)'
    BY <1>1 DEF Differs
  <2>2. Owns(j)' /\ Coherent(j)' /\ After(j)' /\ Recorded(j)'
    BY <1>1, <1>4 DEF WithLocks, Owns, Coherent, After, Recorded, Reading
  <2> QED BY <2>1, <2>2 DEF WithLocks
<1> QED BY <1>3, <1>4

\* Every step of a job keeps the invariant of the job itself.
LEMMA OwnMove ==
    ASSUME TypeOK, NEW j \in Jobs, Moves(j), Always(j), DerivedKnown
    PROVE  Always(j)' /\ (WithLocks(j) /\ NoSessionLost' => WithLocks(j)')
<1>1. LocalType /\ Unstarted(j) /\ Kind(j) \in {"materialize", "verify"}
    BY DEF TypeOK, Always, Kind
<1>2. CASE BeginJob(j)
  <2>1. Goto(j, "check") /\ pc[j] = "idle" /\ UNCHANGED locals /\ runs' = runs /\ global'[Kind(j)] = j
    BY <1>1, <1>2 DEF BeginJob, db, TypeOK
  <2> QED BY <1>1, <2>1, OwnElsewhere
<1>3. CASE SkipJob(j)
  <2>1. Goto(j, "finished") /\ pc[j] = "idle" /\ UNCHANGED locals /\ runs' = runs
    BY <1>3 DEF SkipJob, db
  <2> QED BY <1>1, <2>1, OwnElsewhere
<1>4. CASE ReleaseGlobal(j)
  <2>1. Goto(j, "finished") /\ pc[j] = "release" /\ UNCHANGED locals /\ runs' = runs
    BY <1>4 DEF ReleaseGlobal, db
  <2> QED BY <1>1, <2>1, OwnElsewhere
<1>5. ASSUME NextTask(j), global' = global, pc[j] \notin {"idle", "finished"}
      PROVE  Always(j)' /\ (WithLocks(j) => WithLocks(j)')
    BY <1>5, OwnForgets
<1>6. ASSUME Goto(j, "failing"), UNCHANGED locals, runs' = runs, global' = global,
             pc[j] \notin {"idle", "finished"}
      PROVE  Always(j)' /\ (WithLocks(j) => WithLocks(j)')
  <2>1. WithLocks(j) => global'[Kind(j)] = j
    BY <1>6 DEF WithLocks, Owns
  <2>3. pc'[j] = "failing" /\ started'[j] = started[j] /\ This(j)' = This(j)
    BY <1>1, <1>6, OwnTask DEF locals, LocalType, Goto
  <2>4. Always(j)'
    BY <2>3 DEF Always, Unstarted, Reads, Covers, Reading
  <2>5. ASSUME WithLocks(j) PROVE WithLocks(j)'
    BY <1>6, <2>1, <2>3, <2>5 DEF WithLocks, Owns, Coherent, After, Differs, Recorded, Reading
  <2> QED BY <2>4, <2>5
<1>7. CASE Check(j)
  <2>1. CASE NextTask(j)
    BY <1>5, <1>7, <2>1 DEF Check, locks
  <2>2. CASE Goto(j, "acquire") /\ UNCHANGED locals
    <3>1. /\ pc[j] = "check" /\ pc'[j] = "acquire" /\ global' = global /\ runs' = runs
          /\ held'[j] = <<>> /\ loaded'[j] = <<>> /\ ~started'[j] /\ This(j)' = This(j)
          /\ Inputs(j)' = Inputs(j)
      BY <1>1, <1>7, <2>2, OwnTask DEF Check, locks, db, locals, LocalType, Goto, Unstarted, Reading
    <3>2. Always(j)'
      BY <3>1 DEF Always, Unstarted, Reads, Covers, Reading
    <3>3. Len(<<>>) = 0 /\ Len(Inputs(j)) \in Nat
      BY <1>1, ThisType
    <3>4. ASSUME WithLocks(j) PROVE WithLocks(j)'
      <4>1. Owns(j)'
        BY <3>1, <3>3, <3>4 DEF WithLocks, Owns
      <4> QED BY <3>1, <4>1 DEF WithLocks, Coherent, After, Differs, Recorded, Reading
    <3> QED BY <3>2, <3>4
  <2> QED BY <1>7, <2>1, <2>2 DEF Check
<1>8. CASE AcquireSource(j) \/ Start(j) \/ Load(j) \/ Unlock(j) \/ ReadDerived(j)
    BY <1>8, OwnAcquires, OwnStarts, OwnLoads, OwnUnlocks, OwnPrepares
<1>9. CASE Refused(j) \/ RecordFailure(j) \/ RecordFailureFails(j)
    BY <1>5, <1>9 DEF Refused, RecordFailure, RecordFailureFails, locks
<1>10. CASE Commit(j)
  <2>1. CASE NextTask(j)
    BY <1>5, <1>10, <2>1 DEF Commit, locks
  <2>2. CASE Goto(j, "failing") /\ UNCHANGED <<derived, runs, locals>>
    BY <1>6, <1>10, <2>2 DEF Commit, locks
  <2> QED BY <1>10, <2>1, <2>2 DEF Commit
<1>11. CASE StepFails(j)
    BY <1>6, <1>11 DEF StepFails, db
<1>12. CASE Crash(j)
  <2>1. pc'[j] = "idle" /\ started'[j] = FALSE /\ held'[j] = <<>> /\ loaded'[j] = <<>>
    BY <1>1, <1>12 DEF Crash, Forget, Goto, LocalType
  <2> QED BY <2>1 DEF Always, Unstarted, Reads, Covers, Reading,
                      WithLocks, Owns, Coherent, After, Differs, Recorded
<1>13. CASE LoseGlobal(j) \/ \E s \in Sources : LoseSource(j, s)
  <2>1. UNCHANGED <<evidence, derived, pc, locals>> /\ ~NoSessionLost'
    BY <1>13 DEF LoseGlobal, LoseSource, db, Fault, NoSessionLost
  <2>2. This(j)' = This(j) /\ Inputs(j)' = Inputs(j)
    BY <1>1, <2>1, OwnTask DEF locals
  <2> QED BY <2>1, <2>2 DEF Always, Unstarted, Reads, Covers, locals
<1> QED BY <1>2, <1>3, <1>4, <1>7, <1>8, <1>9, <1>10, <1>11, <1>12, <1>13 DEF Moves, Step, Struck

-----------------------------------------------------------------------------
(* What a step leaves of the tables *)

\* The tasks that derive a row read the same sources.
LEMMA SameInputs ==
    ASSUME TypeOK, NEW j \in Jobs, NEW n \in DOMAIN Tasks[j], NEW k \in Jobs,
           NEW c \in Tasks[j][n].cells, c \in This(k).cells
    PROVE  Tasks[j][n].inputs = Inputs(k)
<1>1. at[k] \in DOMAIN Tasks[k] /\ This(k) = Tasks[k][at[k]]
    BY ThisType DEF TypeOK
<1>2. SameWork(j, Tasks[j][n], k, This(k))
    BY <1>1, Work
<1> QED BY <1>2 DEF SameWork, Inputs

\* With no conflict, the rows a transaction prepares are all inserted.
LEMMA InsertsAll ==
    ASSUME TypeOK, NEW j \in Jobs, Commits(j), NEW w \in prep[j]
    PROVE  derived'[w.cell] = Append(derived[w.cell], loaded[j])
<1>1. w.cell \in Cells /\ w.rev \in Nat /\ derived[w.cell] \in Seq(Seq(Nat))
    BY DEF TypeOK, LocalType
<1>2. Len(derived[w.cell]) < w.rev
    BY <1>1 DEF Commits, Conflicting
<1> QED BY <1>1, <1>2 DEF Commits, Stored

\* A job stores nothing read of evidence that is not there.
LEMMA KnownKept ==
    ASSUME TypeOK, DerivedKnown, NEW k \in Jobs, Moves(k), Always(k)
    PROVE  DerivedKnown'
<1>1. evidence' = evidence
    BY MoveShared
<1>2. SUFFICES ASSUME NEW j \in Jobs, NEW n \in DOMAIN Tasks[j], NEW c \in Tasks[j][n].cells,
                      NEW m \in DOMAIN derived'[c]
               PROVE  /\ Len(derived'[c][m]) = Len(Tasks[j][n].inputs)
                      /\ \A i \in 1..Len(derived'[c][m]) :
                            derived'[c][m][i] <= evidence[Tasks[j][n].inputs[i]]
    BY <1>1 DEF DerivedKnown
<1>3. c \in Cells
    BY TasksType
<1>4. /\ derived[c] \in Seq(Seq(Nat))
      /\ \/ derived'[c] = derived[c]
         \/ /\ Commits(k) /\ derived'[c] = Append(derived[c], loaded[k])
            /\ c \in This(k).cells
  <2>1. /\ derived[c] \in Seq(Seq(Nat))
        /\ \/ derived'[c] = derived[c]
           \/ /\ Commits(k) /\ derived'[c] = Append(derived[c], loaded[k])
              /\ \E w \in prep[k] : w.cell = c
    BY <1>3, DerivedGrows
  <2>2. Commits(k) => \A w \in prep[k] : w.cell \in This(k).cells
    BY DEF Commits, Always, Covers
  <2> QED BY <2>1, <2>2
<1>5. CASE m \in DOMAIN derived[c]
  <2>1. derived'[c][m] = derived[c][m]
    BY <1>3, <1>5, DerivedGrows
  <2> QED BY <1>5, <2>1 DEF DerivedKnown
<1>6. CASE m \notin DOMAIN derived[c]
  <2>1. Commits(k) /\ derived'[c] = Append(derived[c], loaded[k]) /\ c \in This(k).cells
    BY <1>4, <1>6
  <2>2. derived'[c][m] = loaded[k]
    <3>1. m = Len(derived[c]) + 1
      <4>1. DOMAIN derived'[c] = 1..(Len(derived[c]) + 1) /\ DOMAIN derived[c] = 1..Len(derived[c])
            /\ Len(derived[c]) \in Nat
        BY <1>4, <2>1 DEF TypeOK, LocalType
      <4> QED BY <4>1, <1>2, <1>6
    <3> QED BY <1>4, <2>1, <3>1 DEF TypeOK, LocalType
  <2>3. Tasks[j][n].inputs = Inputs(k)
    BY <2>1, SameInputs
  <2>4. /\ Len(loaded[k]) = Len(Inputs(k))
        /\ \A i \in 1..Len(loaded[k]) : loaded[k][i] <= evidence[Inputs(k)[i]]
    BY <2>1 DEF Commits, Always, Reads, Reading
  <2> QED BY <2>2, <2>3, <2>4
<1> QED BY <1>5, <1>6

\* No step of a job leaves a success without its rows.
LEMMA BackedKept ==
    ASSUME TypeOK, SuccessIsStored, NEW k \in Jobs, Moves(k), Always(k)
    PROVE  SuccessIsStored'
<1>1. SUFFICES ASSUME NEW j \in Jobs, NEW n \in DOMAIN Tasks[j], NEW c \in Tasks[j][n].cells,
                      runs'[Tasks[j][n].key].status = "succeeded"
               PROVE  \E i \in DOMAIN derived'[c] : derived'[c][i] = runs'[Tasks[j][n].key].content
    BY DEF SuccessIsStored
<1>2. c \in Cells /\ Tasks[j][n].key \in Keys /\ This(k).key \in Keys
    BY TasksType, ThisType DEF TypeOK
<1>3. CASE runs'[Tasks[j][n].key] = runs[Tasks[j][n].key]
  <2>1. PICK i \in DOMAIN derived[c] : derived[c][i] = runs[Tasks[j][n].key].content
    BY <1>1, <1>3 DEF SuccessIsStored
  <2> QED BY <1>2, <1>3, <2>1, DerivedGrows
<1>4. CASE runs'[Tasks[j][n].key] # runs[Tasks[j][n].key]
  <2>1. Commits(k) /\ This(k).key = Tasks[j][n].key
    <3>1. \A r : FailedRow(r).status = "succeeded" => FailedRow(r) = r
      BY RunRows DEF FailedRow
    <3> QED BY <1>1, <1>2, <1>4, <3>1, TableEffect DEF TypeOK, Commits, Starts, Fails, Success
  <2>2. runs'[Tasks[j][n].key].content = loaded[k]
    BY <1>2, <2>1 DEF Commits, Success, TypeOK
  <2>3. c \in This(k).cells
    <3>1. at[k] \in DOMAIN Tasks[k] /\ This(k) = Tasks[k][at[k]]
      BY ThisType DEF TypeOK
    <3>2. SameWork(j, Tasks[j][n], k, This(k))
      BY <3>1, Work
    <3> QED BY <2>1, <3>2 DEF SameWork
  <2>4. CASE \E w \in prep[k] : w.cell = c
    <3>1. derived'[c] = Append(derived[c], loaded[k])
      BY <2>1, <2>4, InsertsAll
    <3>2. derived[c] \in Seq(Seq(Nat)) /\ loaded[k] \in Seq(Nat)
      BY <1>2 DEF TypeOK, LocalType
    <3>3. Len(derived[c]) + 1 \in DOMAIN derived'[c] /\ derived'[c][Len(derived[c]) + 1] = loaded[k]
      BY <3>1, <3>2
    <3> QED BY <2>2, <3>3
  <2>5. CASE ~\E w \in prep[k] : w.cell = c
    <3>1. PICK i \in DOMAIN derived[c] : derived[c][i] = loaded[k]
      BY <2>1, <2>3, <2>5 DEF Commits, Always, Covers
    <3> QED BY <1>2, <2>2, <3>1, DerivedGrows
  <2> QED BY <2>4, <2>5
<1> QED BY <1>3, <1>4

\* No step of a job stores a derivation of older or of equal evidence.
LEMMA OrderKept ==
    ASSUME TypeOK, DerivedKnown, NEW k \in Jobs, Moves(k), Always(k), WithLocks(k),
           NoSessionLost, DerivedInOrder
    PROVE  DerivedInOrder'
<1>1. SUFFICES ASSUME NEW c \in Cells, NEW n \in DOMAIN derived'[c] \ {1}
               PROVE  /\ derived'[c][n - 1] # derived'[c][n]
                      /\ \A i \in DOMAIN derived'[c][n - 1] :
                            derived'[c][n - 1][i] <= derived'[c][n][i]
    BY DEF DerivedInOrder
<1>2. /\ derived[c] \in Seq(Seq(Nat)) /\ derived'[c] \in Seq(Seq(Nat)) /\ loaded[k] \in Seq(Nat)
      /\ Len(derived[c]) \in Nat /\ DOMAIN derived[c] = 1..Len(derived[c])
    BY MoveShared DEF TypeOK, LocalType
<1>3. CASE derived'[c] = derived[c]
    BY <1>1, <1>3 DEF DerivedInOrder
<1>4. CASE derived'[c] # derived[c]
  <2>1. PICK w \in prep[k] : Commits(k) /\ derived'[c] = Append(derived[c], loaded[k]) /\ w.cell = c
    BY <1>4, DerivedGrows
  <2>2. /\ DOMAIN derived'[c] = 1..(Len(derived[c]) + 1)
        /\ \A i \in 1..Len(derived[c]) : derived'[c][i] = derived[c][i]
        /\ derived'[c][Len(derived[c]) + 1] = loaded[k]
    BY <1>2, <2>1
  <2>3. n \in 1..(Len(derived[c]) + 1) /\ n # 1 /\ n - 1 \in 1..Len(derived[c])
    BY <1>1, <1>2, <2>2
  <2>4. CASE n # Len(derived[c]) + 1
    <3>1. n \in 1..Len(derived[c]) /\ n \in DOMAIN derived[c] \ {1}
      BY <1>2, <2>3, <2>4
    <3> QED BY <2>2, <2>3, <3>1 DEF DerivedInOrder
  <2>5. CASE n = Len(derived[c]) + 1
    <3>1. /\ n - 1 = Len(derived[c]) /\ derived'[c][n] = loaded[k]
          /\ derived'[c][n - 1] = derived[c][Len(derived[c])] /\ derived[c] # <<>>
          /\ Len(derived[c]) \in DOMAIN derived[c]
      <4>1. n - 1 = Len(derived[c]) /\ Len(derived[c]) \in 1..Len(derived[c])
        BY <1>2, <2>3, <2>5
      <4>2. derived'[c][n] = loaded[k] /\ derived'[c][n - 1] = derived[c][Len(derived[c])]
        BY <2>2, <2>5, <4>1
      <4>3. derived[c] # <<>>
        BY <4>1
      <4> QED BY <1>2, <4>1, <4>2, <4>3
    <3>2. derived[c][Len(derived[c])] # loaded[k]
      BY <2>1, <3>1 DEF Commits, WithLocks, Differs, Last
    <3>3. c \in This(k).cells
      BY <2>1 DEF Commits, Always, Covers
    <3>4. /\ Len(derived[c][Len(derived[c])]) = Len(loaded[k])
          /\ \A i \in 1..Len(loaded[k]) : derived[c][Len(derived[c])][i] <= loaded[k][i]
      <4>1. Len(loaded[k]) = Len(Inputs(k))
        BY <2>1 DEF Commits, Always, Reads
      <4>2. at[k] \in DOMAIN Tasks[k] /\ This(k) = Tasks[k][at[k]]
        BY ThisType DEF TypeOK
      <4>3. Len(derived[c][Len(derived[c])]) = Len(Inputs(k))
        BY <3>1, <3>3, <4>2 DEF DerivedKnown, Inputs
      <4>4. \A i \in 1..Len(loaded[k]) : derived[c][Len(derived[c])][i] <= loaded[k][i]
        BY <2>1, <3>1, <3>3 DEF Commits, WithLocks, After, Reading
      <4> QED BY <4>1, <4>3, <4>4
    <3>5. DOMAIN derived[c][Len(derived[c])] = 1..Len(loaded[k])
      <4>1. derived[c][Len(derived[c])] \in Seq(Nat)
        BY <1>2, <3>1
      <4> QED BY <3>4, <4>1
    <3> QED BY <3>1, <3>2, <3>4, <3>5
  <2> QED BY <2>4, <2>5
<1> QED BY <1>3, <1>4

-----------------------------------------------------------------------------
(* Induction *)

\* The invariant holds before the first step.
LEMMA InitEstablishes == Init => IInv
<1> SUFFICES ASSUME Init PROVE IInv
    OBVIOUS
<1>1. TypeOK
  <2>1. \A j \in Jobs : 1 \in DOMAIN Tasks[j]
    BY TasksType
  <2> QED BY <2>1, RunRows DEF Init, TypeOK, LocalType, Labels
<1>2. \A j \in Jobs : Always(j) /\ WithLocks(j)
    BY DEF Init, Always, Unstarted, Reads, Covers, Reading, WithLocks, Owns, Coherent, After, Differs,
           Recorded
<1>3. DOMAIN <<>> = {}
    OBVIOUS
<1>4. DerivedKnown /\ DerivedInOrder
  <2>1. \A c \in Cells : derived[c] = <<>>
    BY DEF Init
  <2>2. \A j \in Jobs : \A n \in DOMAIN Tasks[j] : Tasks[j][n].cells \subseteq Cells
    BY TasksType
  <2> QED BY <1>3, <2>1, <2>2 DEF DerivedKnown, DerivedInOrder
<1>5. SuccessIsStored
  <2>1. \A j \in Jobs : \A n \in DOMAIN Tasks[j] : Tasks[j][n].key \in Keys
    BY TasksType
  <2> QED BY <2>1 DEF Init, SuccessIsStored, NoRun
<1> QED BY <1>1, <1>2, <1>4, <1>5 DEF IInv

\* Every step of a job keeps the whole invariant.
LEMMA JobStep ==
    ASSUME IInv, [Next]_vars, NEW k \in Jobs, Moves(k)
    PROVE  IInv'
<1>1. TypeOK /\ DerivedKnown /\ SuccessIsStored /\ \A j \in Jobs : Always(j)
    BY DEF IInv
<1>2. TypeOK'
    BY <1>1, MoveLocals, MoveShared DEF TypeOK
<1>3. \A j \in Jobs : Always(j)'
    BY <1>1, OwnMove, OthersAlways
<1>4. DerivedKnown' /\ SuccessIsStored'
    BY <1>1, KnownKept, BackedKept
<1>5. ASSUME NoSessionLost' PROVE DerivedInOrder' /\ \A j \in Jobs : WithLocks(j)'
  <2>1. NoSessionLost /\ DerivedInOrder /\ \A j \in Jobs : WithLocks(j)
    BY <1>5, SessionStays DEF IInv
  <2>2. DerivedInOrder'
    BY <1>1, <2>1, OrderKept
  <2>3. \A j \in Jobs : WithLocks(j)'
    BY <1>1, <1>5, <2>1, OwnMove, OthersWithLocks
  <2> QED BY <2>2, <2>3
<1> QED BY <1>2, <1>3, <1>4, <1>5 DEF IInv

\* Every step of an ingestion keeps the whole invariant.
LEMMA IngestionStep ==
    ASSUME IInv, NEW s \in Sources, Ingests(s)
    PROVE  IInv'
<1>1. /\ TypeOK' /\ UNCHANGED <<derived, runs, global, pc, locals, failed>>
      /\ \A r \in Sources : evidence[r] \in Nat /\ evidence'[r] \in Nat /\ evidence'[r] >= evidence[r]
      /\ \A r \in Sources : source[r] \in Jobs => source'[r] = source[r] /\ evidence'[r] = evidence[r]
  <2>1. TypeOK
    BY DEF IInv
  <2>2. /\ TypeOK' /\ UNCHANGED <<derived, runs, global, pc, locals, failed>>
        /\ \A r \in Sources : evidence'[r] >= evidence[r]
        /\ \A r \in Sources : source[r] \in Jobs => source'[r] = source[r] /\ evidence'[r] = evidence[r]
    BY <2>1, IngestStep
  <2>3. \A r \in Sources : evidence[r] \in Nat /\ evidence'[r] \in Nat
    BY <2>1, <2>2 DEF TypeOK
  <2> QED BY <2>2, <2>3
<1>2. ASSUME NEW j \in Jobs
      PROVE  /\ This(j)' = This(j) /\ Inputs(j)' = Inputs(j) /\ Inputs(j) \in Seq(Sources)
             /\ loaded[j] \in Seq(Nat) /\ Len(loaded[j]) \in Nat /\ Len(Inputs(j)) \in Nat
             /\ \A i \in 1..Len(Inputs(j)) : Inputs(j)[i] \in Sources
             /\ \A i \in 1..Len(loaded[j]) : loaded[j][i] \in Nat
             /\ Len(held[j]) \in Nat
  <2>1. TypeOK /\ LocalType
    BY DEF IInv, TypeOK
  <2> QED BY <1>1, <2>1, ThisType, OwnTask DEF locals, LocalType
<1>3. ASSUME NEW j \in Jobs PROVE Always(j)'
  <2>1. Always(j)
    BY DEF IInv
  <2>2. Unstarted(j)' /\ Covers(j)'
    BY <1>1, <1>2, <2>1 DEF Always, Unstarted, Covers, locals
  <2>3. ASSUME pc[j] \in Reading, NEW i \in 1..Len(loaded[j])
        PROVE  loaded[j][i] <= evidence'[Inputs(j)[i]]
    <3>1. Len(loaded[j]) <= Len(Inputs(j)) /\ loaded[j][i] <= evidence[Inputs(j)[i]]
      BY <2>1, <2>3 DEF Always, Reads
    <3>2. i \in 1..Len(Inputs(j))
      BY <1>2, <3>1
    <3>3. Inputs(j)[i] \in Sources /\ loaded[j][i] \in Nat
      BY <1>2, <3>2
    <3> QED BY <1>1, <3>1, <3>3
  <2>4. Reads(j)'
    BY <1>1, <1>2, <2>1, <2>3 DEF Always, Reads, locals
  <2> QED BY <2>2, <2>4 DEF Always
<1>4. DerivedKnown'
  <2>1. SUFFICES ASSUME NEW j \in Jobs, NEW n \in DOMAIN Tasks[j], NEW c \in Tasks[j][n].cells,
                        NEW m \in DOMAIN derived[c], NEW i \in 1..Len(derived[c][m])
                 PROVE  derived[c][m][i] <= evidence'[Tasks[j][n].inputs[i]]
    BY <1>1 DEF IInv, DerivedKnown
  <2>2. /\ Len(derived[c][m]) = Len(Tasks[j][n].inputs)
        /\ derived[c][m][i] <= evidence[Tasks[j][n].inputs[i]]
    BY DEF IInv, DerivedKnown
  <2>3. Tasks[j][n].inputs \in Seq(Sources) /\ c \in Cells
    BY TasksType
  <2>4. Tasks[j][n].inputs[i] \in Sources
    BY <2>2, <2>3
  <2>5. derived[c][m] \in Seq(Nat)
    BY <2>3 DEF IInv, TypeOK
  <2>6. derived[c][m][i] \in Nat
    BY <2>5
  <2> QED BY <1>1, <2>2, <2>4, <2>6
<1>5. SuccessIsStored'
    BY <1>1 DEF IInv, SuccessIsStored
<1>6. ASSUME NoSessionLost' PROVE DerivedInOrder' /\ \A j \in Jobs : WithLocks(j)'
  <2>1. NoSessionLost /\ DerivedInOrder /\ \A j \in Jobs : WithLocks(j)
    BY <1>1, <1>6 DEF IInv, NoSessionLost
  <2>2. DerivedInOrder'
    BY <1>1, <2>1 DEF DerivedInOrder, NoSessionLost
  <2>3. ASSUME NEW j \in Jobs PROVE WithLocks(j)'
    <3>1. After(j)' /\ Differs(j)' /\ Recorded(j)'
      BY <1>1, <1>2, <2>1 DEF WithLocks, After, Differs, Recorded, locals
    <3>2. ASSUME pc[j] \in {"acquire", "load"}, NEW i \in 1..Len(held[j])
          PROVE  /\ Len(held[j]) <= Len(Inputs(j))
                 /\ Inputs(j)[i] \in Sources /\ source[Inputs(j)[i]] = j
      <4>1. Len(held[j]) <= Len(Inputs(j)) /\ source[Inputs(j)[i]] = j
        BY <2>1, <3>2 DEF WithLocks, Owns
      <4>2. i \in 1..Len(Inputs(j))
        BY <1>2, <4>1
      <4> QED BY <1>2, <4>1, <4>2
    <3>3. Owns(j)'
      BY <1>1, <1>2, <2>1, <3>2 DEF WithLocks, Owns, locals
    <3>4. ASSUME pc[j] = "load", NEW i \in 1..Len(loaded[j])
          PROVE  loaded[j][i] = evidence'[Inputs(j)[i]]
      <4>1. /\ loaded[j][i] = evidence[Inputs(j)[i]]
            /\ Len(loaded[j]) <= Len(Inputs(j)) /\ Len(held[j]) = Len(Inputs(j))
        BY <2>1, <3>4 DEF IInv, Always, Reads, Reading, WithLocks, Coherent, Owns
      <4>2. i \in 1..Len(held[j])
        BY <1>2, <4>1
      <4>3. Inputs(j)[i] \in Sources /\ source[Inputs(j)[i]] = j
        BY <3>2, <3>4, <4>2
      <4> QED BY <1>1, <4>1, <4>3
    <3>5. Coherent(j)'
      BY <1>1, <1>2, <3>4 DEF Coherent, locals
    <3> QED BY <3>1, <3>3, <3>5 DEF WithLocks
  <2> QED BY <2>2, <2>3
<1> QED BY <1>1, <1>3, <1>4, <1>5, <1>6 DEF IInv

\* Every step keeps the invariant.
LEMMA Inductive == IInv /\ [Next]_vars => IInv'
<1> SUFFICES ASSUME IInv, [Next]_vars PROVE IInv'
    OBVIOUS
<1>1. ASSUME NEW j \in Jobs, Moves(j) PROVE IInv'
    BY <1>1, JobStep
<1>2. ASSUME NEW s \in Sources, Ingests(s) PROVE IInv'
    BY <1>2, IngestionStep
<1>3. CASE UNCHANGED vars
  <2>1. TypeOK' /\ DerivedKnown' /\ SuccessIsStored'
    BY <1>3 DEF IInv, vars, db, locks, locals, TypeOK, LocalType, DerivedKnown, SuccessIsStored
  <2>2. ASSUME NEW j \in Jobs PROVE Always(j)' /\ (WithLocks(j) => WithLocks(j)')
    BY SMTT(30), <1>3 DEF IInv, vars, db, locks, locals, Always, Unstarted, Reads, Covers, WithLocks, Owns,
                Coherent, After, Differs, Recorded, This, Inputs
  <2>3. NoSessionLost' => NoSessionLost
    BY <1>3 DEF vars, NoSessionLost
  <2>4. DerivedInOrder => DerivedInOrder'
    BY <1>3 DEF vars, db, DerivedInOrder, NoSessionLost
  <2> QED BY <2>1, <2>2, <2>3, <2>4 DEF IInv
<1> QED BY <1>1, <1>2, <1>3, NextParts

\* The invariant holds in every reachable state.
LEMMA InvariantHolds == Spec => []IInv
BY InitEstablishes, Inductive, PTL DEF Spec

-----------------------------------------------------------------------------
(* Theorems *)

\* What a job reads of several sources is stored of all of them at the end of its
\* reads, for any number of sources and whatever else fails.
THEOREM InputsCohere == Spec => []CoherentInputs
<1>1. IInv => CoherentInputs
  <2>1. TypeOK => \A j \in Jobs : DOMAIN loaded[j] = 1..Len(loaded[j])
    BY DEF TypeOK, LocalType
  <2> QED BY <2>1 DEF IInv, WithLocks, Coherent, CoherentInputs
<1> QED BY <1>1, InvariantHolds, PTL

\* Revisions of a derived row follow the evidence, because one lock spans the read of
\* the evidence and the commit of what is derived from it.
THEOREM DerivationsInOrder == Spec => []DerivedInOrder
<1>1. IInv => DerivedInOrder
    BY DEF IInv, DerivedInOrder
<1> QED BY <1>1, InvariantHolds, PTL

\* A recorded success stands for rows that are stored, also when locks are lost.
THEOREM SuccessBacked == Spec => []SuccessIsStored
<1>1. IInv => SuccessIsStored
    BY DEF IInv
<1> QED BY <1>1, InvariantHolds, PTL

\* A recorded verification is not replaced by a failure that came before its start.
THEOREM VerificationKept == Spec => SuccessKept
<1>1. ASSUME IInv, [Next]_vars, NoSessionLost', NEW j \in Verifiers, NEW n \in DOMAIN Tasks[j],
             runs[Tasks[j][n].key].status = "succeeded"
      PROVE  runs'[Tasks[j][n].key].status \in {"succeeded", "running"}
  <2> DEFINE key == Tasks[j][n].key
  <2>1. j \in Jobs /\ key \in Keys /\ Kind(j) = "verify"
    BY TasksType, JobsAssumption DEF Jobs, Kind, JobsAssumption
  <2>2. ASSUME NEW k \in Jobs, Moves(k) PROVE runs'[key].status \in {"succeeded", "running"}
    <3>1. TypeOK /\ WithLocks(k) /\ This(k).key \in Keys
      BY <1>1, SessionStays, ThisType DEF IInv, TypeOK
    <3>2. CASE runs' = runs \/ Commits(k) \/ Starts(k)
      BY <1>1, <2>1, <3>1, <3>2 DEF Commits, Starts, Success, TypeOK
    <3>3. CASE Fails(k) /\ This(k).key # key
      BY <1>1, <2>1, <3>1, <3>3 DEF Fails, TypeOK
    <3>4. CASE Fails(k) /\ This(k).key = key
      <4>1. at[k] \in DOMAIN Tasks[k] /\ This(k) = Tasks[k][at[k]]
        BY <3>1, ThisType DEF TypeOK
      <4>2. SameWork(j, Tasks[j][n], k, This(k))
        BY <2>1, <4>1, Work
      <4>3. k \notin Materializers
        BY <2>1, <3>4, <4>2 DEF SameWork, Kind
      <4>4. runs[key].status = "running"
        BY <3>1, <3>4, <4>3 DEF Fails, WithLocks, Recorded
      <4> QED BY <1>1, <4>4
    <3> QED BY <2>2, <3>2, <3>3, <3>4, TableEffect
  <2>3. ASSUME NEW s \in Sources, Ingests(s) PROVE runs' = runs
    BY <2>3 DEF Ingests, IngestBegin, IngestCommit, IngestEnd, db
  <2>4. CASE UNCHANGED vars
    BY <1>1, <2>4 DEF vars, db
  <2> QED BY <1>1, <2>2, <2>3, <2>4, NextParts
<1>2. IInv /\ [Next]_vars =>
        [NoSessionLost' => \A j \in Verifiers : \A n \in DOMAIN Tasks[j] :
           LET key == Tasks[j][n].key
           IN  runs[key].status = "succeeded" => runs'[key].status \in {"succeeded", "running"}]_vars
    BY <1>1
<1> QED BY <1>2, InvariantHolds, PTL DEF Spec, SuccessKept
=============================================================================
