--------------------------- MODULE IngestionProofs ---------------------------
(***************************************************************************)
(* Safety of Ingestion for any number of replicas, operators, slots and    *)
(* facts, any clock skew and any set of faults.                            *)
(***************************************************************************)
EXTENDS Ingestion, WellFoundedInduction, TLAPS

Proofs == INSTANCE RevisionLedgerProofs WITH Ident <- Slots, Delivery <- Instants

\* The schedule, the processes and the data are what the constants promise.
USE ScheduleAssumption, IngestionAssumption

-----------------------------------------------------------------------------

\* Clock readings are integers.
LEMMA InstantsAreInt == Instants \subseteq Int
BY DEF Instants, Proc

\* A process's own clock always shows one of the readings in Instants.
LEMMA NowIsInstant ==
    ASSUME TypeOK, NEW p \in Proc
    PROVE  Now(p) \in Instants /\ Now(p) \in Int
BY DEF TypeOK, Now, Instants, Proc

\* The empty answer is an answer a fetch can return.
LEMMA NoPayloadType == NoPayload \in Ledger!Payload
BY DEF NoPayload, Ledger!Payload

\* The locals of a process outside a job are well typed.
LEMMA NoCallType == \A t \in Int : NoCall(t) \in Call
<1>1. 0 \in Instants /\ NoPayload \in Ledger!Payload
    BY NoPayloadType DEF Instants
<1> QED BY <1>1 DEF NoCall, Call, Window

-----------------------------------------------------------------------------
(* Types *)

\* The part of the type invariant about one process's own state.
JobType ==
    /\ job \in [Proc -> Jobs]
    /\ \A p \in Workers : job[p] \in {Live, Reconcile}
    /\ \A p \in Operators : job[p] \in {Backfill(i) : i \in DOMAIN Chunks}

LocalType == pc \in [Proc -> Labels] /\ JobType /\ call \in [Proc -> Call]

\* A tick or a command starts with a job of its process.
LEMMA FirstJobType ==
    ASSUME NEW p \in Proc
    PROVE  /\ FirstJob(p) \in Jobs
           /\ p \in Workers => FirstJob(p) \in {Live, Reconcile}
           /\ p \in Operators => FirstJob(p) \in {Backfill(i) : i \in DOMAIN Chunks}
<1>1. CASE p \in Workers
    BY <1>1 DEF FirstJob, Jobs
<1>2. CASE p \in Operators
  <2>1. Chunks # <<>> /\ Chunks \in Seq(Window)
    BY <1>2
  <2>2. 1 \in DOMAIN Chunks
    BY <2>1
  <2> QED BY <1>2, <2>2 DEF FirstJob, Jobs
<1> QED BY <1>1, <1>2 DEF Proc

\* Ending a tick keeps every process in a typed state.
LEMMA RestType ==
    ASSUME LocalType, NEW p \in Proc, Rest(p)
    PROVE  LocalType'
<1>1. NoCall(0) \in Call
    BY NoCallType
<1> QED BY <1>1, FirstJobType DEF LocalType, JobType, Rest, Labels

\* The job after one that is not the last is a job of the same process.
LEMMA FollowingJobType ==
    ASSUME JobType, NEW p \in Proc, ~LastJob(p)
    PROVE  /\ FollowingJob(job[p]) \in Jobs
           /\ p \in Workers => FollowingJob(job[p]) \in {Live, Reconcile}
           /\ p \in Operators => FollowingJob(job[p]) \in {Backfill(i) : i \in DOMAIN Chunks}
<1>1. CASE p \in Workers
  <2>1. job[p] = Live
    BY <1>1 DEF JobType, LastJob
  <2> QED BY <1>1, <2>1 DEF FollowingJob, Jobs
<1>2. CASE p \in Operators
  <2>1. PICK i \in DOMAIN Chunks : job[p] = Backfill(i)
    BY <1>2 DEF JobType
  <2>2. Len(Chunks) \in Nat /\ DOMAIN Chunks = 1..Len(Chunks)
    OBVIOUS
  <2>3. i # Len(Chunks)
    BY <2>1 DEF LastJob
  <2>4. i + 1 \in DOMAIN Chunks
    BY <2>2, <2>3
  <2>5. FollowingJob(job[p]) = Backfill(i + 1)
    BY <2>1 DEF FollowingJob, Backfill, Live
  <2> QED BY <1>2, <2>4, <2>5 DEF Jobs
<1> QED BY <1>1, <1>2 DEF Proc

\* Going on to the next job keeps every process in a typed state.
LEMMA AdvanceType ==
    ASSUME LocalType, NEW p \in Proc, Advance(p)
    PROVE  LocalType'
<1>1. CASE LastJob(p)
    BY <1>1, RestType DEF Advance
<1>2. CASE ~LastJob(p)
  <2>1. NoCall(call[p].tick) \in Call
    BY NoCallType DEF LocalType, Call
  <2>2. /\ FollowingJob(job[p]) \in Jobs
        /\ p \in Workers => FollowingJob(job[p]) \in {Live, Reconcile}
        /\ p \in Operators => FollowingJob(job[p]) \in {Backfill(i) : i \in DOMAIN Chunks}
    BY <1>2, FollowingJobType DEF LocalType
  <2>3. /\ pc' = [pc EXCEPT ![p] = "select"]
        /\ call' = [call EXCEPT ![p] = NoCall(call[p].tick)]
        /\ job' = [job EXCEPT ![p] = FollowingJob(job[p])]
    BY <1>2 DEF Advance
  <2>4. pc' \in [Proc -> Labels] /\ call' \in [Proc -> Call]
    BY <2>1, <2>3 DEF LocalType, Labels
  <2>5. JobType'
    BY <2>2, <2>3 DEF LocalType, JobType, Proc
  <2> QED BY <2>4, <2>5 DEF LocalType
<1> QED BY <1>1, <1>2

\* A checkpoint is one of the runs it is chosen from.
LEMMA CheckpointIsRun ==
    ASSUME NEW R
    PROVE  CheckpointSuccess(R) \subseteq R
<1>1. SUFFICES ASSUME NEW q \in CheckpointSuccess(R)
               PROVE  q \in R
    OBVIOUS
<1> DEFINE newest == {r \in Succeeded(R) : \A s \in Succeeded(R) :
                        \/ s.completed < r.completed
                        \/ s.completed = r.completed /\ s.started <= r.started}
<1>2. newest \subseteq R
    BY DEF Succeeded
<1>3. PICK r \in R : q \in IF r.status = "succeeded" THEN {r} ELSE newest
  <2> HIDE DEF newest
  <2> QED BY <1>1 DEF CheckpointSuccess, newest
<1> QED BY <1>2, <1>3

\* Every planned window is a window.
LEMMA PlannedWindows ==
    ASSUME TypeOK, NEW p \in Proc
    PROVE  /\ LiveWindows(p) \subseteq Window
           /\ ReconciliationWindow(call[p].tick) \in Window
<1>1. call[p].tick \in Int
    BY DEF TypeOK, Call
<1>2. \A s \in Int, t \in Int : ClampedStart(s, t) \in Int
    BY DEF ClampedStart, Larger, Smaller
<1>3. \A r \in CheckpointSuccess(RunsOf(Live)) : r.win.to \in Int
  <2>1. CheckpointSuccess(RunsOf(Live)) \subseteq RunsOf(Live)
    BY CheckpointIsRun
  <2>2. RunsOf(Live) \subseteq Run
    BY DEF RunsOf, TypeOK
  <2> QED BY <2>1, <2>2 DEF Run, Window
<1>4. FirstWindow(call[p].tick) \in Window
  <2>1. call[p].tick - InitialLookback \in Int
    BY <1>1
  <2>2. ClampedStart(call[p].tick - InitialLookback, call[p].tick) \in Int
    BY <1>1, <1>2, <2>1
  <2> QED BY <1>1, <2>2 DEF FirstWindow, Window
<1>5. ASSUME NEW e \in Int PROVE ResumeWindow(e, call[p].tick) \in Window
  <2>1. e - Overlap \in Int
    OBVIOUS
  <2>2. ClampedStart(e - Overlap, call[p].tick) \in Int
    BY <1>1, <1>2, <2>1
  <2> QED BY <1>1, <2>2 DEF ResumeWindow, Window
<1>6. LiveWindows(p) \subseteq Window
    BY <1>3, <1>4, <1>5 DEF LiveWindows
<1> QED BY <1>1, <1>6 DEF ReconciliationWindow, Window

\* What a transaction prepares are rows.
LEMMA PreparedType ==
    ASSUME NEW L \in SUBSET Ledger!Row, NEW f \in Ledger!Payload, NEW d \in Instants,
           \A i \in Slots : Ledger!Rows(L, i) # {} => Ledger!Latest(L, i).rev \in Nat
    PROVE  Ledger!Prepared(L, f, d) \subseteq Ledger!Row
BY DEF Ledger!Prepared, Ledger!Row, Ledger!NextRev, Ledger!Changed, Ledger!Payload

\* Writing a typed run into the run table leaves typed runs.
LEMMA UpsertType ==
    ASSUME NEW R \in SUBSET Run, NEW r \in Run PROVE Upsert(R, r) \subseteq Run
BY DEF Upsert

-----------------------------------------------------------------------------
(* The ledger lemmas, for the ledger of this source *)

\* The revisions of this module are those of the ledger lemmas.
LEMMA SamePrepared ==
    \A L, f, d : Ledger!Prepared(L, f, d) = Proofs!Prepared(L, f, d)
BY DEF Ledger!Prepared, Proofs!Prepared, Ledger!NextRev, Proofs!NextRev,
       Ledger!Changed, Proofs!Changed, Ledger!Latest, Proofs!Latest,
       Ledger!Rows, Proofs!Rows

\* What a transaction prepares under the row lock conflicts with no stored row.
LEMMA PreparedFits ==
    ASSUME NEW L, Proofs!WellFormed(L), NEW f \in Ledger!Payload, NEW d \in Instants
    PROVE  /\ ~Ledger!Conflicts(L, Ledger!Prepared(L, f, d))
           /\ Proofs!WellFormed(L \cup Ledger!Prepared(L, f, d))
<1>1. f \in Proofs!Payload
    BY DEF Ledger!Payload, Proofs!Payload
<1>2. ~Proofs!Conflicts(L, Proofs!Prepared(L, f, d))
    BY <1>1, Proofs!PreparedDoesNotConflict
<1>3. Proofs!WellFormed(L \cup Proofs!Prepared(L, f, d))
    BY <1>1, Proofs!AppendWellFormed
<1> QED BY <1>2, <1>3, SamePrepared DEF Ledger!Conflicts, Proofs!Conflicts

-----------------------------------------------------------------------------
(* The inductive invariant.  NoRevisionConflict is not inductive: one has to  *)
(* know that what a transaction is about to insert was prepared from the      *)
(* ledger as it still is, because it holds the row lock since.                *)

Prepared ==
    \A p \in Proc : pc[p] = "insert" =>
        /\ rowLock = p
        /\ call[p].prep = Ledger!Prepared(ledger, call[p].payload, call[p].done)

IInv ==
    /\ TypeOK
    /\ Proofs!WellFormed(ledger)
    /\ Prepared
    /\ SuccessMeansStored

\* The invariant holds before any process has run.
LEMMA IInvInit == Init => IInv
<1> SUFFICES ASSUME Init PROVE IInv
    OBVIOUS
<1>1. 0 \in Int /\ NoCall(0) \in Call /\ NoPayload \in Ledger!Payload
    BY NoCallType, NoPayloadType
<1>2. JobType
    BY FirstJobType DEF Init, JobType, Proc
<1>3. TypeOK
    BY <1>1, <1>2 DEF Init, TypeOK, JobType, Labels
<1>4. Proofs!WellFormed(ledger)
    BY Proofs!EmptyWellFormed DEF Init
<1>5. Prepared /\ SuccessMeansStored
    BY DEF Init, Prepared, SuccessMeansStored, Succeeded
<1> QED BY <1>3, <1>4, <1>5 DEF IInv

\* A step that writes no table keeps the invariant if no process enters a
\* transaction by it.
LEMMA QuietStep ==
    ASSUME IInv, LocalType', UNCHANGED <<runs, ledger>>,
           clock' \in 0..Horizon, upstream' \in Ledger!Payload,
           lock' \in Proc \cup {Nobody}, rowLock' \in Proc \cup {Nobody},
           session' \in [Proc -> BOOLEAN], faults' \in 0..MaxFaults,
           \A q \in Proc : pc'[q] = "insert" =>
               pc[q] = "insert" /\ call'[q] = call[q] /\ rowLock' = rowLock
    PROVE  IInv'
<1>1. TypeOK'
    BY DEF IInv, TypeOK, LocalType, JobType
<1>2. Prepared'
    BY DEF IInv, Prepared
<1>3. Proofs!WellFormed(ledger)' /\ SuccessMeansStored'
    BY DEF IInv, SuccessMeansStored, Succeeded
<1> QED BY <1>1, <1>2, <1>3 DEF IInv

\* Leaving a job ends in "select", "idle" or "finished" and touches nobody else.
LEMMA RestElsewhere ==
    ASSUME LocalType, NEW p \in Proc, Rest(p) \/ Advance(p)
    PROVE  /\ pc'[p] \in {"select", "idle", "finished"}
           /\ \A q \in Proc \ {p} : pc'[q] = pc[q] /\ call'[q] = call[q]
BY DEF LocalType, Rest, Advance

\* The invariant gives the types of the processes' locals.
LEMMA IInvLocalType == ASSUME IInv PROVE LocalType
BY DEF IInv, TypeOK, LocalType, JobType

\* Steps of a process outside its transaction.
LEMMA StepsOutside ==
    ASSUME IInv, NEW p \in Proc,
           \/ BeginTick(p) \/ SelectPoll(p) \/ SelectChunk(p) \/ AcquireLock(p)
           \/ SkipLocked(p) \/ Fetch(p) \/ Release(p) \/ Unwind(p)
    PROVE  IInv'
<1> USE IInvLocalType
<1>1. Now(p) \in Instants /\ Now(p) \in Int
    BY NowIsInstant DEF IInv
<1>2. CASE BeginTick(p)
  <2>1. LocalType'
    BY ZenonT(40), <1>1, <1>2 DEF BeginTick, Goto, LocalType, JobType, Call, Labels
  <2> QED BY <1>2, <2>1, QuietStep DEF BeginTick, Goto, db, IInv, TypeOK
<1>3. CASE SelectPoll(p)
  <2>1. LocalType'
    <3>1. CASE Advance(p)
      BY <3>1, AdvanceType
    <3>2. CASE ~Advance(p)
      <4>1. PICK w \in Window : /\ call' = [call EXCEPT ![p].win = w]
                                /\ pc' = [pc EXCEPT ![p] = "want"]
                                /\ job' = job
        BY <1>3, <3>2, PlannedWindows DEF SelectPoll, Goto, IInv
      <4> QED BY ZenonT(40), <4>1 DEF LocalType, JobType, Call, Labels
    <3> QED BY <3>1, <3>2
  <2>2. \A q \in Proc : pc'[q] = "insert" => pc[q] = "insert" /\ call'[q] = call[q]
    BY <1>3, RestElsewhere DEF SelectPoll, Goto, LocalType
  <2> QED BY <1>3, <2>1, <2>2, QuietStep DEF SelectPoll, db, IInv, TypeOK
<1>4. CASE SelectChunk(p)
  <2>1. LocalType'
    <3>1. CASE Advance(p)
      BY <3>1, AdvanceType
    <3>2. CASE ~Advance(p)
      <4>1. Chunks[job[p].chunk] \in Window
        BY <1>4 DEF SelectChunk, LocalType, JobType, Backfill
      <4>2. /\ call' = [call EXCEPT ![p].win = Chunks[job[p].chunk], ![p].tick = Now(p)]
            /\ pc' = [pc EXCEPT ![p] = "want"]
            /\ job' = job
        BY <1>4, <3>2 DEF SelectChunk, Goto
      <4>3. call' \in [Proc -> Call]
        <5>1. call[p] \in Call
          BY DEF LocalType
        <5>2. [[call[p] EXCEPT !.win = Chunks[job[p].chunk]] EXCEPT !.tick = Now(p)] \in Call
          BY <1>1, <4>1, <5>1 DEF Call
        <5>3. call' = [call EXCEPT ![p] =
                  [[call[p] EXCEPT !.win = Chunks[job[p].chunk]] EXCEPT !.tick = Now(p)]]
          BY <4>2 DEF LocalType
        <5> QED BY <5>2, <5>3 DEF LocalType
      <4> QED BY <4>2, <4>3 DEF LocalType, JobType, Labels
    <3> QED BY <3>1, <3>2
  <2>2. \A q \in Proc : pc'[q] = "insert" => pc[q] = "insert" /\ call'[q] = call[q]
    BY <1>4, RestElsewhere DEF SelectChunk, Goto, LocalType
  <2> QED BY <1>4, <2>1, <2>2, QuietStep DEF SelectChunk, db, IInv, TypeOK
<1>5. CASE AcquireLock(p)
  <2>1. LocalType'
    BY <1>5 DEF AcquireLock, Goto, LocalType, JobType, Labels
  <2> QED BY <1>5, <2>1, QuietStep DEF AcquireLock, Goto, db, IInv, TypeOK
<1>6. CASE SkipLocked(p)
  <2>1. LocalType'
    BY <1>6, AdvanceType DEF SkipLocked
  <2>2. \A q \in Proc : pc'[q] = "insert" => pc[q] = "insert" /\ call'[q] = call[q]
    BY <1>6, RestElsewhere DEF SkipLocked
  <2> QED BY <1>6, <2>1, <2>2, QuietStep DEF SkipLocked, db, IInv, TypeOK
<1>7. CASE Fetch(p)
  <2>1. [s \in Slots |-> IF In(s, call[p].win) THEN upstream[s] ELSE NoFact] \in Ledger!Payload
    BY DEF IInv, TypeOK, Ledger!Payload
  <2>2. LocalType'
    BY ZenonT(40), <1>1, <1>7, <2>1 DEF Fetch, Goto, LocalType, JobType, Call, Labels
  <2> QED BY <1>7, <2>2, QuietStep DEF Fetch, Goto, db, IInv, TypeOK
<1>8. CASE Release(p)
  <2>1. LocalType'
    BY <1>8, AdvanceType DEF Release
  <2>2. \A q \in Proc : pc'[q] = "insert" => pc[q] = "insert" /\ call'[q] = call[q]
    BY <1>8, RestElsewhere DEF Release
  <2> QED BY <1>8, <2>1, <2>2, QuietStep DEF Release, db, IInv, TypeOK
<1>9. CASE Unwind(p)
  <2>1. LocalType'
    BY <1>9, AdvanceType, RestType DEF Unwind
  <2>2. \A q \in Proc : pc'[q] = "insert" => pc[q] = "insert" /\ call'[q] = call[q]
    BY <1>9, RestElsewhere DEF Unwind
  <2> QED BY <1>9, <2>1, <2>2, QuietStep DEF Unwind, db, IInv, TypeOK
<1> QED BY <1>2, <1>3, <1>4, <1>5, <1>6, <1>7, <1>8, <1>9

\* Opening the persist transaction keeps the invariant: prep comes from the ledger as it is.
LEMMA BeginTransactionStep ==
    ASSUME IInv, NEW p \in Proc, BeginTransaction(p) PROVE IInv'
<1> DEFINE new == Ledger!Prepared(ledger, call[p].payload, call[p].done)
<1>1. call[p] \in Call /\ LocalType
    BY IInvLocalType DEF LocalType
<1>2. call[p].payload \in Ledger!Payload /\ call[p].done \in Instants
    BY <1>1 DEF Call
<1>3. Proofs!WellFormed(ledger \cup new)
    BY <1>2, PreparedFits DEF IInv
<1>4. new \subseteq Ledger!Row
    BY <1>3 DEF Proofs!WellFormed, Proofs!Row, Ledger!Row
<1>5. /\ pc' = [pc EXCEPT ![p] = "insert"] /\ rowLock' = p /\ rowLock = Nobody
      /\ call' = [call EXCEPT ![p].prep = new]
      /\ UNCHANGED <<clock, upstream, runs, ledger, lock, job, session, faults>>
    BY DEF BeginTransaction, Goto
<1>6. TypeOK'
  <2>1. [call[p] EXCEPT !.prep = new] \in Call
    BY <1>1, <1>4 DEF Call
  <2>2. call' \in [Proc -> Call]
    BY <1>1, <1>5, <2>1 DEF LocalType
  <2> QED BY <1>5, <2>2 DEF IInv, TypeOK, Labels
<1>7. Prepared'
  <2> SUFFICES ASSUME NEW q \in Proc, pc'[q] = "insert"
               PROVE  /\ rowLock' = q
                      /\ call'[q].prep = Ledger!Prepared(ledger', call'[q].payload, call'[q].done)
    BY DEF Prepared
  <2>1. CASE q = p
    <3>1. call'[p] = [call[p] EXCEPT !.prep = new]
      BY <1>1, <1>5 DEF LocalType
    <3>2. /\ call'[p].prep = new /\ call'[p].payload = call[p].payload
          /\ call'[p].done = call[p].done
      BY <3>1, <1>1 DEF Call
    <3> QED BY <2>1, <3>2, <1>5
  <2>2. CASE q # p
    <3>1. pc[q] = "insert"
      BY <2>2, <1>1, <1>5 DEF LocalType
    <3> QED BY <3>1, <1>5 DEF IInv, Prepared
  <2> QED BY <2>1, <2>2
<1>8. Proofs!WellFormed(ledger)' /\ SuccessMeansStored'
    BY <1>5 DEF IInv, SuccessMeansStored, Succeeded
<1> QED BY <1>6, <1>7, <1>8 DEF IInv

\* A transaction's end leaves the types and every other process alone.
LEMMA EndTransactionType ==
    ASSUME LocalType, NEW p \in Proc, EndTransaction(p)
    PROVE  /\ call' \in [Proc -> Call]
           /\ \A q \in Proc \ {p} : call'[q] = call[q]
<1> DEFINE c == [[[call[p] EXCEPT !.prep = {}] EXCEPT !.payload = NoPayload] EXCEPT !.done = 0]
<1>1. call[p] \in Call /\ 0 \in Instants
    BY DEF LocalType, Instants
<1>2. c \in Call
    BY <1>1, NoPayloadType DEF Call
<1>3. call' = [call EXCEPT ![p] = c]
    BY DEF EndTransaction, LocalType
<1> HIDE DEF c
<1> QED BY <1>2, <1>3 DEF LocalType

\* The facts a commit records are in the ledger afterwards.
LEMMA CommittedFactsStored ==
    ASSUME NEW L, Proofs!WellFormed(L), NEW f \in Ledger!Payload, NEW d \in Instants,
           NEW s \in Slots, f[s] # NoFact
    PROVE  \E q \in L \cup Ledger!Prepared(L, f, d) : q.id = s /\ q.fact = f[s]
<1>1. CASE Ledger!Changed(L, f, s)
  <2> DEFINE q == [id |-> s, rev |-> Ledger!NextRev(L, s), fact |-> f[s], seen |-> d]
  <2>1. q \in Ledger!Prepared(L, f, d)
    BY <1>1 DEF Ledger!Prepared
  <2>2. q.id = s /\ q.fact = f[s]
    OBVIOUS
  <2> QED BY <2>1, <2>2
<1>2. CASE ~Ledger!Changed(L, f, s)
  <2>1. Ledger!Rows(L, s) # {} /\ Ledger!Latest(L, s).fact = f[s]
    BY <1>2 DEF Ledger!Changed
  <2>2. PICK n \in [Slots -> Nat] : \A i \in Slots : Proofs!Revs(L, i) = 0..(n[i] - 1)
    BY DEF Proofs!WellFormed, Proofs!Counted
  <2>3. L \in SUBSET Proofs!Row
    BY DEF Proofs!WellFormed
  <2>4. PICK r \in L : r.id = s
    BY <2>1 DEF Ledger!Rows
  <2>5. r.rev \in 0..(n[s] - 1) /\ n[s] \in Nat
    BY <2>2, <2>4 DEF Proofs!Revs, Proofs!Rows
  <2>6. n[s] \in Nat \ {0}
    BY <2>5
  <2>7. Proofs!Latest(L, s) \in Proofs!Rows(L, s)
    BY <2>2, <2>3, <2>6, Proofs!LatestIsHighest
  <2>8. Ledger!Latest(L, s) = Proofs!Latest(L, s)
    BY DEF Ledger!Latest, Proofs!Latest, Ledger!Rows, Proofs!Rows
  <2> QED BY <2>1, <2>7, <2>8 DEF Proofs!Rows
<1> QED BY <1>1, <1>2

\* Committing rows and run together keeps the invariant.
LEMMA CommitStep ==
    ASSUME IInv, NEW p \in Proc, Commit(p) PROVE IInv'
<1> DEFINE f == call[p].payload
           d == call[p].done
           new == Ledger!Prepared(ledger, f, d)
<1>1. call[p] \in Call /\ LocalType
    BY IInvLocalType DEF LocalType
<1>2. f \in Ledger!Payload /\ d \in Instants
    BY <1>1 DEF Call
<1>3. rowLock = p /\ call[p].prep = new
    BY DEF IInv, Prepared, Commit
<1>4. ~Ledger!Conflicts(ledger, new) /\ Proofs!WellFormed(ledger \cup new)
    BY <1>2, PreparedFits DEF IInv
<1>5. /\ ledger' = ledger \cup new /\ runs' = Upsert(runs, SuccessRun(p))
      /\ pc' = [pc EXCEPT ![p] = "release"] /\ EndTransaction(p) /\ rowLock' = Nobody
      /\ UNCHANGED <<clock, upstream, lock, job, session, faults>>
    BY <1>3, <1>4 DEF Commit, Goto, EndTransaction
<1>6. TypeOK'
  <2>1. SuccessRun(p) \in Run
    BY <1>1, InstantsAreInt DEF SuccessRun, Run, Call, IInv, TypeOK
  <2>2. runs' \subseteq Run
    BY <1>5, <2>1, UpsertType DEF IInv, TypeOK
  <2>3. ledger' \subseteq Ledger!Row
    BY <1>4, <1>5 DEF Proofs!WellFormed, Proofs!Row, Ledger!Row
  <2>4. call' \in [Proc -> Call]
    BY <1>1, <1>5, EndTransactionType
  <2> QED BY <1>5, <2>2, <2>3, <2>4 DEF IInv, TypeOK, Labels
<1>7. Prepared'
    BY <1>1, <1>3, <1>5 DEF IInv, Prepared, LocalType
<1>8. SuccessMeansStored'
  <2> SUFFICES ASSUME NEW r \in Succeeded(runs'), NEW s \in Slots, r.checksum[s] # NoFact
               PROVE  \E q \in ledger' : q.id = s /\ q.fact = r.checksum[s]
    BY DEF SuccessMeansStored, Succeeded
  <2>1. CASE r = SuccessRun(p)
    <3>1. r.checksum = f
      BY <2>1 DEF SuccessRun
    <3>2. Proofs!WellFormed(ledger) /\ f[s] # NoFact
      BY <3>1 DEF IInv
    <3>3. PICK q \in ledger \cup new : q.id = s /\ q.fact = f[s]
      BY <3>2, <1>2, CommittedFactsStored
    <3>4. q \in ledger' /\ q.fact = r.checksum[s]
      BY <3>1, <3>3, <1>5
    <3> QED BY <3>3, <3>4
  <2>2. CASE r # SuccessRun(p)
    <3>1. r \in Succeeded(runs)
      BY <2>2, <1>5 DEF Upsert, Succeeded
    <3>2. SuccessMeansStored
      BY DEF IInv
    <3>3. PICK q \in ledger : q.id = s /\ q.fact = r.checksum[s]
      BY <3>1, <3>2 DEF SuccessMeansStored
    <3>4. q \in ledger'
      BY <1>5
    <3> QED BY <3>3, <3>4
  <2> QED BY <2>1, <2>2
<1>9. Proofs!WellFormed(ledger)'
    BY <1>4, <1>5
<1> QED BY <1>6, <1>7, <1>8, <1>9 DEF IInv

\* Writing a failed run keeps the invariant.
LEMMA RecordFailureStep ==
    ASSUME IInv, NEW p \in Proc, RecordFailure(p) PROVE IInv'
<1>1. /\ pc' = [pc EXCEPT ![p] = "release"] /\ runs' = Upsert(runs, FailedRun(p))
      /\ UNCHANGED <<clock, upstream, ledger, rowLock, lock, job, call, session, faults>>
    BY DEF RecordFailure, Goto
<1>2. FailedRun(p) \in Run
    BY NowIsInstant, NoPayloadType DEF FailedRun, Run, Call, IInv, TypeOK
<1>3. TypeOK'
    BY <1>1, <1>2, UpsertType DEF IInv, TypeOK, Labels
<1>4. Prepared'
    BY <1>1 DEF IInv, TypeOK, Prepared
<1>5. Succeeded(runs') \subseteq Succeeded(runs)
    BY <1>1 DEF Upsert, Succeeded, FailedRun
<1>6. SuccessMeansStored'
    BY <1>1, <1>5 DEF IInv, SuccessMeansStored
<1> QED BY <1>1, <1>3, <1>4, <1>6 DEF IInv

\* Failures and the environment.
LEMMA FaultSteps ==
    ASSUME IInv, NEW p \in Proc,
           \/ SelectFails(p) \/ FetchFails(p) \/ TransactionFails(p)
           \/ RecordFailureFails(p) \/ LoseSession(p) \/ Crash(p)
    PROVE  IInv'
<1>1. LocalType
    BY IInvLocalType
<1>2. faults' \in 0..MaxFaults
    BY DEF SelectFails, FetchFails, TransactionFails, RecordFailureFails, LoseSession,
           Crash, Fault, IInv, TypeOK
<1>3. CASE SelectFails(p)
  <2>1. LocalType'
    BY <1>1, <1>3, AdvanceType, RestType DEF SelectFails
  <2>2. \A q \in Proc : pc'[q] = "insert" => pc[q] = "insert" /\ call'[q] = call[q]
    BY <1>1, <1>3, RestElsewhere DEF SelectFails
  <2> QED BY <1>2, <1>3, <2>1, <2>2, QuietStep DEF SelectFails, db, IInv, TypeOK
<1>4. CASE FetchFails(p)
  <2>1. LocalType'
    BY <1>1, <1>4 DEF FetchFails, Goto, LocalType, JobType, Labels
  <2> QED BY <1>2, <1>4, <2>1, QuietStep DEF FetchFails, Goto, db, IInv, TypeOK
<1>5. CASE TransactionFails(p)
  <2>1. LocalType' /\ pc' = [pc EXCEPT ![p] = "failing"]
    BY <1>1, <1>5, EndTransactionType DEF TransactionFails, Goto, LocalType, JobType, Labels
  <2>2. rowLock' = rowLock \/ rowLock = p
    BY <1>5 DEF TransactionFails, EndTransaction
  <2>3. \A q \in Proc : pc'[q] = "insert" =>
            pc[q] = "insert" /\ call'[q] = call[q] /\ rowLock' = rowLock
    BY <1>1, <1>5, <2>1, <2>2, EndTransactionType
       DEF TransactionFails, LocalType, IInv, Prepared
  <2>4. rowLock' \in Proc \cup {Nobody}
    BY <1>5 DEF TransactionFails, EndTransaction, IInv, TypeOK
  <2> QED BY <1>2, <1>5, <2>1, <2>3, <2>4, QuietStep DEF TransactionFails, IInv, TypeOK
<1>6. CASE RecordFailureFails(p)
  <2>1. LocalType'
    BY <1>1, <1>6 DEF RecordFailureFails, Goto, LocalType, JobType, Labels
  <2> QED BY <1>2, <1>6, <2>1, QuietStep DEF RecordFailureFails, Goto, db, IInv, TypeOK
<1>7. CASE LoseSession(p)
  <2>1. LocalType'
    BY <1>1, <1>7 DEF LoseSession, LocalType, JobType
  <2> QED BY <1>2, <1>7, <2>1, QuietStep DEF LoseSession, db, IInv, TypeOK
<1>8. CASE Crash(p)
  <2>1. LocalType' /\ pc' = [pc EXCEPT ![p] = "idle"]
    <3>1. NoCall(0) \in Call
      BY NoCallType
    <3>2. /\ FirstJob(p) \in Jobs
          /\ p \in Workers => FirstJob(p) \in {Live, Reconcile}
          /\ p \in Operators => FirstJob(p) \in {Backfill(i) : i \in DOMAIN Chunks}
      BY FirstJobType
    <3>3. JobType'
      BY <1>1, <1>8, <3>2 DEF Crash, LocalType, JobType, Proc
    <3> QED BY <1>1, <1>8, <3>1, <3>3 DEF Crash, LocalType, Labels
  <2>2. \A q \in Proc : pc'[q] = "insert" =>
            pc[q] = "insert" /\ call'[q] = call[q] /\ rowLock' = rowLock
    BY <1>1, <1>8, <2>1 DEF Crash, LocalType, IInv, Prepared
  <2> QED BY <1>2, <1>8, <2>1, <2>2, QuietStep DEF Crash, IInv, TypeOK
<1> QED BY <1>3, <1>4, <1>5, <1>6, <1>7, <1>8

\* Failures, publications and time keep the invariant.
LEMMA EnvironmentSteps ==
    ASSUME IInv, ClockTick \/ \E s \in Slots, f \in Fact : Publish(s, f)
    PROVE  IInv'
<1>1. LocalType' /\ \A q \in Proc : pc'[q] = pc[q] /\ call'[q] = call[q]
    BY IInvLocalType DEF ClockTick, Publish, LocalType, JobType
<1>2. CASE ClockTick
    BY <1>1, <1>2, QuietStep DEF ClockTick, db, IInv, TypeOK
<1>3. ASSUME NEW s \in Slots, NEW f \in Fact, Publish(s, f) PROVE IInv'
  <2>1. upstream' \in Ledger!Payload
    BY <1>3 DEF Publish, IInv, TypeOK, Ledger!Payload
  <2> QED BY <1>1, <1>3, <2>1, QuietStep DEF Publish, db, IInv, TypeOK
<1> QED BY <1>2, <1>3

\* Every step of the specification keeps the invariant.
LEMMA IInvNext == IInv /\ [Next]_vars => IInv'
<1> SUFFICES ASSUME IInv, [Next]_vars PROVE IInv'
    OBVIOUS
<1>1. CASE UNCHANGED vars
    BY <1>1, IInvLocalType, QuietStep DEF vars, db, IInv, TypeOK, LocalType, JobType
<1>2. CASE Next
    BY <1>2, StepsOutside, BeginTransactionStep, CommitStep, RecordFailureStep,
       FaultSteps, EnvironmentSteps DEF Next, Step, Environment
<1> QED BY <1>1, <1>2

\* The inductive invariant holds in every reachable state.
THEOREM Inductive == Spec => []IInv
BY IInvInit, IInvNext, PTL DEF Spec

-----------------------------------------------------------------------------
(* Results *)

\* Every variable has its type, for any constants the assumptions allow.
THEOREM TypeCorrect == Spec => []TypeOK
<1>1. IInv => TypeOK
    BY DEF IInv
<1> QED BY <1>1, Inductive, PTL

\* Revision allocation never conflicts: the row lock of source_metadata is
\* enough, whatever happens to advisory locks, replicas and operators.
THEOREM NoConflict == Spec => []NoRevisionConflict
<1>1. ASSUME IInv, NEW p \in Proc, pc[p] = "insert"
      PROVE  ~Ledger!Conflicts(ledger, call[p].prep)
  <2>1. call[p].payload \in Ledger!Payload /\ call[p].done \in Instants
    BY <1>1 DEF IInv, TypeOK, Call
  <2>2. Proofs!WellFormed(ledger)
    BY <1>1 DEF IInv
  <2>3. ~Ledger!Conflicts(ledger, Ledger!Prepared(ledger, call[p].payload, call[p].done))
    BY <2>1, <2>2, PreparedFits
  <2>4. call[p].prep = Ledger!Prepared(ledger, call[p].payload, call[p].done)
    BY <1>1 DEF IInv, Prepared
  <2> QED BY <2>3, <2>4
<1>2. IInv => NoRevisionConflict
    BY <1>1 DEF NoRevisionConflict
<1> QED BY <1>2, Inductive, PTL

\* A succeeded run's facts are stored, in every reachable state.
THEOREM CheckpointSound == Spec => []SuccessMeansStored
<1>1. IInv => SuccessMeansStored
    BY DEF IInv
<1> QED BY <1>1, Inductive, PTL

\* Polling, reconciliation and backfill together implement the revision ledger.
THEOREM ImplementsLedger == Spec => LedgerSpec
<1>1. Init => Ledger!Init
    BY DEF Init, Ledger!Init
<1>2. IInv /\ [Next]_vars => [Ledger!Next]_ledger
  <2> SUFFICES ASSUME IInv, [Next]_vars, ledger' # ledger PROVE Ledger!Next
    OBVIOUS
  <2>1. PICK p \in Proc : Commit(p)
    BY DEF Next, Step, Environment, vars, db, ClockTick, Publish, BeginTick, SelectPoll,
           SelectChunk, AcquireLock, SkipLocked, Fetch, BeginTransaction, RecordFailure,
           Release, Unwind, SelectFails, FetchFails, TransactionFails, RecordFailureFails,
           LoseSession, Crash
  <2>2. call[p].payload \in Ledger!Payload /\ call[p].done \in Instants
    BY DEF IInv, TypeOK, Call
  <2>3. ledger' = ledger \cup Ledger!Prepared(ledger, call[p].payload, call[p].done)
    BY <2>1 DEF Commit, IInv, Prepared
  <2> QED BY <2>2, <2>3 DEF Ledger!Next, Ledger!AppendRevisions
<1> QED BY <1>1, <1>2, Inductive, PTL DEF Spec, LedgerSpec, Ledger!Spec

-----------------------------------------------------------------------------
(* The advisory lock, and what it adds to the row lock: the order of evidence *)

LockInv == \A p \in Proc : (lock = p <=> session[p]) /\ (session[p] => HasLock(p))

\* Every step keeps the link between lock ownership, live sessions and program counters.
LEMMA LockInvNext == TypeOK /\ LockInv /\ [Next]_vars => LockInv'
<1> SUFFICES ASSUME TypeOK, LockInv, [Next]_vars PROVE LockInv'
    OBVIOUS
<1> USE DEF TypeOK, LockInv, HasLock
<1>1. CASE UNCHANGED vars
    BY <1>1 DEF vars
<1>2. CASE ClockTick \/ \E s \in Slots, f \in Fact : Publish(s, f)
    BY <1>2 DEF ClockTick, Publish
<1>3. ASSUME NEW p \in Proc, Step(p) PROVE LockInv'
  <2>1. CASE BeginTick(p)
    BY <2>1 DEF BeginTick, Goto
  <2>2. CASE SelectPoll(p)
    BY <2>2 DEF SelectPoll, Goto, Advance, Rest
  <2>3. CASE SelectChunk(p)
    BY <2>3 DEF SelectChunk, Goto, Advance, Rest
  <2>4. CASE AcquireLock(p)
    BY <2>4 DEF AcquireLock, Goto
  <2>5. CASE SkipLocked(p)
    BY <2>5 DEF SkipLocked, Advance, Rest
  <2>6. CASE Fetch(p)
    BY <2>6 DEF Fetch, Goto
  <2>7. CASE BeginTransaction(p)
    BY <2>7 DEF BeginTransaction, Goto
  <2>8. CASE Commit(p)
    BY <2>8 DEF Commit, Goto
  <2>9. CASE RecordFailure(p)
    BY <2>9 DEF RecordFailure, Goto
  <2>10. CASE Release(p)
    BY <2>10 DEF Release, Advance, Rest
  <2>11. CASE Unwind(p)
    BY <2>11 DEF Unwind, Advance, Rest
  <2> QED BY <1>3, <2>1, <2>2, <2>3, <2>4, <2>5, <2>6, <2>7, <2>8, <2>9, <2>10, <2>11 DEF Step
<1>4. ASSUME NEW p \in Proc,
             SelectFails(p) \/ FetchFails(p) \/ TransactionFails(p)
                \/ RecordFailureFails(p) \/ LoseSession(p) \/ Crash(p)
      PROVE LockInv'
  <2>1. CASE SelectFails(p)
    BY <2>1 DEF SelectFails, Advance, Rest
  <2>2. CASE FetchFails(p)
    BY <2>2 DEF FetchFails, Goto
  <2>3. CASE TransactionFails(p)
    BY <2>3 DEF TransactionFails, Goto
  <2>4. CASE RecordFailureFails(p)
    BY <2>4 DEF RecordFailureFails, Goto
  <2>5. CASE LoseSession(p)
    BY <2>5 DEF LoseSession
  <2>6. CASE Crash(p)
    BY <2>6 DEF Crash
  <2> QED BY <1>4, <2>1, <2>2, <2>3, <2>4, <2>5, <2>6
<1> QED BY <1>1, <1>2, <1>3, <1>4 DEF Next, Environment

\* At most one process owns the source: a session that is alive excludes all others.
THEOREM LockIsExclusive == Spec => []LockExclusive
<1>1. Init => LockInv
    BY DEF Init, LockInv
<1>2. LockInv => LockExclusive
    BY DEF LockInv, LockExclusive
<1> QED BY <1>1, <1>2, LockInvNext, TypeCorrect, PTL DEF Spec

-----------------------------------------------------------------------------
(* Live polls move forward and leave no gap behind, for any number of       *)
(* replicas, any clock skew and any set of faults.                          *)

\* A planned window is never empty, whatever the checkpoint says.
LEMMA ClampedBelow ==
    ASSUME NEW s \in Int, NEW t \in Int
    PROVE  ClampedStart(s, t) < t
BY DEF ClampedStart, Larger, Smaller

-----------------------------------------------------------------------------
(* WindowsAdvance is about the moment of planning; what makes it true is that *)
(* the checkpoint's end is the tick of the run that wrote it, and a poll is   *)
(* due only after every tick recorded before.                                 *)

\* p is executing a live poll whose window it has planned.
Polling(p) == job[p] = Live /\ pc[p] \notin {"idle", "select"}

EndsAtTick ==
    /\ \A r \in RunsOf(Live) : r.win.to = r.started
    /\ \A p \in Proc : Polling(p) => call[p].win.to = call[p].tick

\* Each live poll under way after the step was under way before it, with the
\* same window and tick.
PollsKept ==
    \A q \in Proc : Polling(q)' =>
        /\ Polling(q)
        /\ call'[q].win = call[q].win /\ call'[q].tick = call[q].tick

\* Leaving a job leaves no live poll of that process under way.
LEMMA LeavingEnds ==
    ASSUME LocalType, NEW p \in Proc, Rest(p) \/ Advance(p)
    PROVE  /\ ~Polling(p)'
           /\ \A q \in Proc \ {p} : pc'[q] = pc[q] /\ call'[q] = call[q] /\ job'[q] = job[q]
<1>1. CASE p \in Workers
    BY <1>1 DEF LocalType, JobType, Polling, Rest, Advance
<1>2. CASE p \in Operators
  <2>1. job'[p] # Live
    <3>1. FirstJob(p) # Live
      BY <1>2 DEF FirstJob, Live, Backfill
    <3>2. FollowingJob(job[p]) # Live
      BY <1>2 DEF LocalType, JobType, FollowingJob, Live, Backfill, Reconcile
    <3> QED BY <3>1, <3>2 DEF LocalType, JobType, Rest, Advance
  <2> QED BY <2>1 DEF LocalType, JobType, Polling, Rest, Advance
<1> QED BY <1>1, <1>2 DEF Proc

\* The plan of a due live poll: it ends at the tick, after every checkpoint.
LEMMA PlannedPoll ==
    ASSUME TypeOK, EndsAtTick, NEW p \in Workers, SelectPoll(p), job[p] = Live, pc'[p] = "want"
    PROVE  /\ job' = job /\ runs' = runs
           /\ \E w : call' = [call EXCEPT ![p].win = w]
           /\ call'[p].tick = call[p].tick
           /\ call'[p].win.to = call[p].tick
           /\ call'[p].win.from < call'[p].win.to
           /\ \A r \in CheckpointSuccess(RunsOf(Live)) : r.win.to < call'[p].win.to
<1> DEFINE t == call[p].tick
<1>1. p \in Proc /\ call[p] \in Call /\ t \in Int
    BY DEF TypeOK, Call, Proc
<1>2. ~Advance(p)
    BY DEF Advance, Rest, TypeOK, Proc
<1>3. PICK w \in LiveWindows(p) : call' = [call EXCEPT ![p].win = w]
    BY <1>2 DEF SelectPoll
<1>4. IsDue({r.started : r \in RunsOf(Live)}, t, Cadence)
    BY <1>2 DEF SelectPoll
<1>5. w.to = t /\ w.from < t
  <2>1. CASE w = FirstWindow(t)
    <3>1. t - InitialLookback \in Int
      BY <1>1
    <3>2. ClampedStart(t - InitialLookback, t) < t
      BY <1>1, <3>1, ClampedBelow
    <3> QED BY <2>1, <3>2 DEF FirstWindow
  <2>2. CASE \E r \in CheckpointSuccess(RunsOf(Live)) : w = ResumeWindow(r.win.to, t)
    <3>1. PICK r \in CheckpointSuccess(RunsOf(Live)) : w = ResumeWindow(r.win.to, t)
      BY <2>2
    <3>2. r \in Run
      BY CheckpointIsRun DEF RunsOf, TypeOK
    <3>3. r.win.to - Overlap \in Int
      BY <3>2 DEF Run, Window
    <3>4. ClampedStart(r.win.to - Overlap, t) < t
      BY <1>1, <3>3, ClampedBelow
    <3> QED BY <3>1, <3>4 DEF ResumeWindow
  <2> QED BY <1>3, <2>1, <2>2 DEF LiveWindows
<1>6. call'[p].win = w /\ call'[p].tick = t
    BY <1>1, <1>3 DEF TypeOK, Call
<1>7. ASSUME NEW r \in CheckpointSuccess(RunsOf(Live)) PROVE r.win.to < t
  <2>1. r \in RunsOf(Live)
    BY CheckpointIsRun
  <2>2. r \in Run
    BY <2>1 DEF RunsOf, TypeOK
  <2>3. r.started \in Int /\ r.win.to = r.started
    BY <2>1, <2>2 DEF EndsAtTick, Run
  <2>4. r.started + Cadence <= t
    BY <1>4, <2>1 DEF IsDue
  <2> QED BY <1>1, <2>3, <2>4
<1>8. job' = job /\ runs' = runs
    BY <1>2 DEF SelectPoll, db
<1> QED BY <1>3, <1>5, <1>6, <1>7, <1>8

\* The end of a transaction forgets the answer, not the window.
LEMMA EndTransactionKeeps ==
    ASSUME LocalType, NEW p \in Proc, EndTransaction(p)
    PROVE  \A q \in Proc : call'[q].win = call[q].win /\ call'[q].tick = call[q].tick
BY DEF LocalType, EndTransaction, Call

\* The step of p that plans a live poll.
Plans(p) == SelectPoll(p) /\ job[p] = Live /\ pc'[p] = "want"

\* The step of p that writes the run r of its job.
Writes(p, r) ==
    /\ pc[p] \notin {"idle", "select"}
    /\ runs' = Upsert(runs, r) /\ job' = job
    /\ r \in {SuccessRun(p), FailedRun(p)}

\* What a step can do to runs and polls.
PollChange ==
    \/ runs' = runs /\ PollsKept
    \/ \E p \in Workers : Plans(p)
    \/ \E p \in Proc, r \in Run : Writes(p, r) /\ PollsKept

\* Steps of one process.
LEMMA StepChange ==
    ASSUME TypeOK, NEW p \in Proc, Step(p)
    PROVE  PollChange
<1>0. LocalType
    BY DEF TypeOK, LocalType, JobType
<1> USE <1>0
<1>1. CASE BeginTick(p)
    BY <1>1 DEF BeginTick, Goto, Polling, LocalType, Call, db, PollChange, PollsKept
<1>2. CASE SelectPoll(p)
  <2>1. CASE Advance(p)
    BY <1>2, <2>1, LeavingEnds DEF SelectPoll, Polling, db, PollChange, PollsKept
  <2>2. CASE ~Advance(p) /\ job[p] = Live
    BY <1>2, <2>2 DEF SelectPoll, Goto, Plans, PollChange, LocalType
  <2>3. CASE ~Advance(p) /\ job[p] # Live
    BY <1>2, <2>3 DEF SelectPoll, Goto, Polling, LocalType, db, PollChange, PollsKept
  <2> QED BY <2>1, <2>2, <2>3
<1>3. CASE SelectChunk(p)
  <2>1. CASE Advance(p)
    BY <1>3, <2>1, LeavingEnds DEF SelectChunk, Polling, db, PollChange, PollsKept
  <2>2. CASE ~Advance(p)
    <3>1. job[p] # Live
      BY <1>3 DEF SelectChunk, LocalType, JobType, Live, Backfill
    <3> QED BY <1>3, <2>2, <3>1
           DEF SelectChunk, Goto, Polling, LocalType, db, PollChange, PollsKept
  <2> QED BY <2>1, <2>2
<1>4. CASE AcquireLock(p)
    BY <1>4 DEF AcquireLock, Goto, Polling, LocalType, db, PollChange, PollsKept
<1>5. CASE SkipLocked(p)
    BY <1>5, LeavingEnds DEF SkipLocked, Polling, db, PollChange, PollsKept
<1>6. CASE Fetch(p)
    BY <1>6 DEF Fetch, Goto, Polling, LocalType, Call, db, PollChange, PollsKept
<1>7. CASE BeginTransaction(p)
    BY <1>7 DEF BeginTransaction, Goto, Polling, LocalType, Call, PollChange, PollsKept
<1>8. CASE Commit(p)
  <2>1. /\ pc[p] = "insert" /\ job' = job
        /\ pc' \in {[pc EXCEPT ![p] = "failing"], [pc EXCEPT ![p] = "release"]}
        /\ EndTransaction(p)
    BY <1>8 DEF Commit, Goto
  <2>2. PollsKept
    BY <2>1, EndTransactionKeeps DEF Polling, LocalType, PollsKept
  <2>3. SuccessRun(p) \in Run
    BY InstantsAreInt DEF SuccessRun, Run, Call, TypeOK
  <2>4. runs' = runs \/ runs' = Upsert(runs, SuccessRun(p))
    BY <1>8 DEF Commit
  <2> QED BY <2>1, <2>2, <2>3, <2>4 DEF PollChange, Writes
<1>9. CASE RecordFailure(p)
  <2>1. /\ pc[p] = "failing" /\ job' = job /\ call' = call
        /\ pc' = [pc EXCEPT ![p] = "release"]
        /\ runs' = Upsert(runs, FailedRun(p))
    BY <1>9 DEF RecordFailure, Goto
  <2>2. PollsKept
    BY <2>1 DEF Polling, LocalType, PollsKept
  <2>3. FailedRun(p) \in Run
    BY NowIsInstant, NoPayloadType DEF FailedRun, Run, Call, TypeOK
  <2> QED BY <2>1, <2>2, <2>3 DEF PollChange, Writes
<1>10. CASE Release(p)
    BY <1>10, LeavingEnds DEF Release, Polling, db, PollChange, PollsKept
<1>11. CASE Unwind(p)
    BY <1>11, LeavingEnds DEF Unwind, Polling, db, PollChange, PollsKept
<1> QED BY <1>1, <1>2, <1>3, <1>4, <1>5, <1>6, <1>7, <1>8, <1>9, <1>10, <1>11 DEF Step

\* Failures of one process write no run and plan nothing.
LEMMA FaultChange ==
    ASSUME TypeOK, NEW p \in Proc,
           \/ SelectFails(p) \/ FetchFails(p) \/ TransactionFails(p)
           \/ RecordFailureFails(p) \/ LoseSession(p) \/ Crash(p)
    PROVE  runs' = runs /\ PollsKept
<1>0. LocalType
    BY DEF TypeOK, LocalType, JobType
<1> USE <1>0
<1>1. CASE SelectFails(p)
    BY <1>1, LeavingEnds DEF SelectFails, Polling, db, PollsKept
<1>2. CASE FetchFails(p)
    BY <1>2 DEF FetchFails, Goto, Polling, LocalType, db, PollsKept
<1>3. CASE TransactionFails(p)
    BY <1>3, EndTransactionKeeps DEF TransactionFails, Goto, Polling, LocalType, PollsKept
<1>4. CASE RecordFailureFails(p)
    BY <1>4 DEF RecordFailureFails, Goto, Polling, LocalType, db, PollsKept
<1>5. CASE LoseSession(p)
    BY <1>5 DEF LoseSession, Polling, db, PollsKept
<1>6. CASE Crash(p)
    BY <1>6 DEF Crash, Polling, LocalType, PollsKept
<1> QED BY <1>1, <1>2, <1>3, <1>4, <1>5, <1>6

\* Every step keeps runs and polls, plans one poll or writes one run.
LEMMA NextChange ==
    ASSUME TypeOK, [Next]_vars
    PROVE  PollChange
<1>1. CASE UNCHANGED vars
    BY <1>1 DEF vars, db, Polling, PollChange, PollsKept
<1>2. CASE ClockTick \/ \E s \in Slots, f \in Fact : Publish(s, f)
    BY <1>2 DEF ClockTick, Publish, db, Polling, PollChange, PollsKept
<1> QED BY <1>1, <1>2, StepChange, FaultChange DEF Next, Environment, PollChange

\* Every step keeps EndsAtTick.
LEMMA EndsNext == TypeOK /\ EndsAtTick /\ [Next]_vars => EndsAtTick'
<1> SUFFICES ASSUME TypeOK, EndsAtTick, [Next]_vars PROVE EndsAtTick'
    OBVIOUS
<1>1. CASE runs' = runs /\ PollsKept
    BY <1>1 DEF EndsAtTick, RunsOf, PollsKept
<1>2. ASSUME NEW p \in Workers, Plans(p) PROVE EndsAtTick'
  <2>1. /\ job' = job /\ runs' = runs
        /\ \E w : call' = [call EXCEPT ![p].win = w]
        /\ call'[p].tick = call[p].tick
        /\ call'[p].win.to = call[p].tick
    BY <1>2, PlannedPoll DEF Plans
  <2>2. p \in Proc /\ \A q \in Proc \ {p} : pc'[q] = pc[q] /\ call'[q] = call[q]
    BY <1>2, <2>1, LeavingEnds DEF Plans, SelectPoll, Goto, TypeOK, LocalType, JobType, Proc
  <2> QED BY <2>1, <2>2 DEF EndsAtTick, RunsOf, Polling
<1>3. ASSUME NEW p \in Proc, NEW r \in Run, Writes(p, r), PollsKept PROVE EndsAtTick'
  <2>1. /\ r.job = job[p] /\ r.win = call[p].win /\ r.started = call[p].tick
        /\ runs' \subseteq runs \cup {r}
    BY <1>3 DEF Writes, SuccessRun, FailedRun, Upsert
  <2>2. r.job = Live => r.win.to = r.started
    BY <1>3, <2>1 DEF EndsAtTick, Polling, Writes
  <2> QED BY <1>3, <2>1, <2>2 DEF EndsAtTick, RunsOf, PollsKept
<1> QED BY <1>1, <1>2, <1>3, NextChange DEF PollChange

\* Only SelectPoll plans a live poll.
LEMMA OnlySelectPollPlans ==
    ASSUME TypeOK, [Next]_vars, NEW p \in Workers,
           pc[p] = "select", pc'[p] = "want", job[p] = Live
    PROVE  SelectPoll(p)
<1>0. LocalType /\ p \in Proc
    BY DEF TypeOK, LocalType, JobType, Proc
<1>1. ASSUME NEW q \in Proc, Step(q) PROVE SelectPoll(p)
    BY <1>0, <1>1, LeavingEnds, RestElsewhere
       DEF Step, BeginTick, SelectPoll, SelectChunk, AcquireLock, SkipLocked, Fetch,
           BeginTransaction, Commit, RecordFailure, Release, Unwind, Goto, LocalType
<1>2. ~(ClockTick \/ \E s \in Slots, f \in Fact : Publish(s, f)) /\ ~UNCHANGED vars
    BY DEF ClockTick, Publish, vars
<1>3. ASSUME NEW q \in Proc,
             \/ SelectFails(q) \/ FetchFails(q) \/ TransactionFails(q)
             \/ RecordFailureFails(q) \/ LoseSession(q) \/ Crash(q)
      PROVE  FALSE
    BY <1>0, <1>3, RestElsewhere
       DEF SelectFails, FetchFails, TransactionFails, RecordFailureFails, LoseSession,
           Crash, Goto, LocalType
<1> QED BY <1>1, <1>2, <1>3 DEF Next, Environment

\* A due poll asks for something new and its window is not empty, whichever
\* replica wrote its checkpoint, and however far the clocks are apart.
THEOREM PollsAdvance == Spec => WindowsAdvance
<1>1. Init => EndsAtTick
    BY DEF Init, EndsAtTick, RunsOf, Polling
<1>2. ASSUME TypeOK, EndsAtTick, [Next]_vars, NEW p \in Workers,
             pc[p] = "select", pc'[p] = "want", job[p] = Live
      PROVE  /\ call'[p].win.from < call'[p].win.to
             /\ \A r \in CheckpointSuccess(RunsOf(Live)) : r.win.to < call'[p].win.to
  <2>1. SelectPoll(p)
    BY <1>2, OnlySelectPollPlans
  <2> QED BY <1>2, <2>1, PlannedPoll
<1> DEFINE Advances ==
        \A p \in Workers :
          pc[p] = "select" /\ pc'[p] = "want" /\ job[p] = Live =>
              /\ call'[p].win.from < call'[p].win.to
              /\ \A r \in CheckpointSuccess(RunsOf(Live)) : r.win.to < call'[p].win.to
<1>3. TypeOK /\ EndsAtTick /\ [Next]_vars => [Advances]_vars
    BY <1>2
<1> QED BY <1>1, <1>3, EndsNext, TypeCorrect, PTL DEF Spec, WindowsAdvance
-----------------------------------------------------------------------------
(* No gap: every window of a live poll reaches back to an earlier live         *)
(* success, unless it is as long as a lookback allows.  Going back from run to *)
(* run, through ends that only decrease, either covers an instant or meets     *)
(* such a window.                                                              *)

LiveSuccesses == Succeeded(RunsOf(Live))

Linked(w) ==
    \/ w.to - w.from \in {MaxLookback, InitialLookback}
    \/ \E r \in LiveSuccesses : w.from <= r.win.to /\ r.win.to < w.to

AllLinked ==
    /\ \A b \in LiveSuccesses : Linked(b.win)
    /\ \A p \in Proc : Polling(p) => Linked(call[p].win)

\* A window after a checkpoint in the past reaches back to it or is as long as
\* max_incremental_lookback allows.
LEMMA ResumeReaches ==
    ASSUME NEW e \in Int, NEW t \in Int, e < t
    PROVE  \/ t - ResumeWindow(e, t).from = MaxLookback
           \/ ResumeWindow(e, t).from <= e
BY DEF ResumeWindow, ClampedStart, Larger, Smaller

\* A first window is as long as a lookback allows.
LEMMA FirstLength ==
    ASSUME NEW t \in Int
    PROVE  t - FirstWindow(t).from \in {MaxLookback, InitialLookback}
BY DEF FirstWindow, ClampedStart, Larger, Smaller

\* The windows of live successes are never forgotten: a run replaces only a run
\* of the same key, hence of the same job, status and window.
LEMMA WindowsStay ==
    ASSUME TypeOK, runs' = runs \/ \E r \in Run : runs' = Upsert(runs, r)
    PROVE  \A b \in LiveSuccesses : \E c \in LiveSuccesses' : c.win = b.win
BY DEF LiveSuccesses, Succeeded, RunsOf, Upsert, SameKey, TypeOK

\* What is linked stays linked.
LEMMA LinkedStays ==
    ASSUME NEW w, Linked(w), \A b \in LiveSuccesses : \E c \in LiveSuccesses' : c.win = b.win
    PROVE  Linked(w)'
BY DEF Linked

\* A checkpoint is a succeeded run.
LEMMA CheckpointSucceeded ==
    ASSUME NEW R
    PROVE  CheckpointSuccess(R) \subseteq Succeeded(R)
<1> SUFFICES ASSUME NEW q \in CheckpointSuccess(R)
             PROVE  q \in Succeeded(R)
    OBVIOUS
<1> DEFINE newest == {r \in Succeeded(R) : \A s \in Succeeded(R) :
                        \/ s.completed < r.completed
                        \/ s.completed = r.completed /\ s.started <= r.started}
<1>1. newest \subseteq Succeeded(R)
    OBVIOUS
<1>2. PICK r \in R : q \in IF r.status = "succeeded" THEN {r} ELSE newest
    BY DEF CheckpointSuccess
<1> HIDE DEF newest
<1> QED BY <1>1, <1>2 DEF Succeeded

\* The window a due poll plans is linked.
LEMMA PlanLinked ==
    ASSUME TypeOK, EndsAtTick, NEW p \in Workers, Plans(p)
    PROVE  /\ runs' = runs /\ Linked(call'[p].win)
           /\ \A q \in Proc \ {p} : Polling(q)' => Polling(q) /\ call'[q] = call[q]
<1> DEFINE t == call[p].tick
<1>1. p \in Proc /\ call[p] \in Call /\ t \in Int
    BY DEF TypeOK, Call, Proc
<1>2. ~Advance(p)
    BY DEF Plans, Advance, Rest, TypeOK, Proc
<1>3. PICK w \in LiveWindows(p) : call' = [call EXCEPT ![p].win = w]
    BY <1>2 DEF Plans, SelectPoll
<1>4. call'[p].win = w /\ \A q \in Proc \ {p} : call'[q] = call[q]
    BY <1>1, <1>3 DEF TypeOK, Call
<1>5. /\ runs' = runs /\ job' = job
      /\ \A r \in CheckpointSuccess(RunsOf(Live)) : r.win.to < w.to
    BY <1>4, PlannedPoll DEF Plans
<1>6. Linked(w)
  <2>1. CASE w = FirstWindow(t)
    <3>1. w.to = t
      BY <2>1 DEF FirstWindow
    <3> QED BY <1>1, <2>1, <3>1, FirstLength DEF Linked
  <2>2. ASSUME NEW r \in CheckpointSuccess(RunsOf(Live)), w = ResumeWindow(r.win.to, t)
        PROVE  Linked(w)
    <3>1. r \in LiveSuccesses /\ r \in Run
      BY <2>2, CheckpointSucceeded, CheckpointIsRun DEF LiveSuccesses, RunsOf, TypeOK
    <3>2. r.win.to \in Int /\ w.to = t /\ r.win.to < t
      BY <1>5, <2>2, <3>1 DEF Run, Window, ResumeWindow
    <3>3. t - w.from = MaxLookback \/ w.from <= r.win.to
      BY <1>1, <2>2, <3>2, ResumeReaches
    <3> QED BY <3>1, <3>2, <3>3 DEF Linked
  <2> QED BY <1>3, <2>1, <2>2 DEF LiveWindows
<1>7. \A q \in Proc \ {p} : pc'[q] = pc[q]
    BY <1>1, <1>2 DEF Plans, SelectPoll, Goto, TypeOK
<1> QED BY <1>4, <1>5, <1>6, <1>7 DEF Polling

\* Every step keeps the windows linked.
LEMMA LinkedNext ==
    ASSUME TypeOK, EndsAtTick, AllLinked, [Next]_vars
    PROVE  AllLinked'
<1>1. CASE runs' = runs /\ PollsKept
  <2>1. \A b \in LiveSuccesses : \E c \in LiveSuccesses' : c.win = b.win
    BY <1>1, WindowsStay
  <2>2. LiveSuccesses' = LiveSuccesses
    BY <1>1 DEF LiveSuccesses, RunsOf
  <2> QED BY <1>1, <2>1, <2>2, LinkedStays DEF AllLinked, PollsKept
<1>2. ASSUME NEW p \in Workers, Plans(p) PROVE AllLinked'
  <2>1. /\ runs' = runs /\ Linked(call'[p].win)
        /\ \A q \in Proc \ {p} : Polling(q)' => Polling(q) /\ call'[q] = call[q]
    BY <1>2, PlanLinked
  <2>2. LiveSuccesses' = LiveSuccesses
    BY <2>1 DEF LiveSuccesses, RunsOf
  <2> QED BY <2>1, <2>2 DEF AllLinked, Linked
<1>3. ASSUME NEW p \in Proc, NEW r \in Run, Writes(p, r), PollsKept PROVE AllLinked'
  <2>1. \A b \in LiveSuccesses : \E c \in LiveSuccesses' : c.win = b.win
    BY <1>3, WindowsStay DEF Writes
  <2>2. ASSUME NEW b \in LiveSuccesses' PROVE Linked(b.win)'
    <3>1. CASE b \in runs
      <4>1. b \in LiveSuccesses
        BY <3>1, <2>2 DEF LiveSuccesses, Succeeded, RunsOf
      <4> QED BY <4>1, <2>1, LinkedStays DEF AllLinked
    <3>2. CASE b = r
      <4>1. job[p] = Live /\ b.win = call[p].win
        BY <1>3, <2>2, <3>2
           DEF Writes, SuccessRun, FailedRun, LiveSuccesses, Succeeded, RunsOf
      <4>2. Polling(p)
        BY <1>3, <4>1 DEF Writes, Polling
      <4> QED BY <2>1, <4>1, <4>2, LinkedStays DEF AllLinked
    <3> QED BY <1>3, <2>2, <3>1, <3>2 DEF LiveSuccesses, Succeeded, RunsOf, Writes, Upsert
  <2>3. ASSUME NEW q \in Proc, Polling(q)' PROVE Linked(call[q].win)' /\ call'[q].win = call[q].win
    BY <1>3, <2>1, <2>3, LinkedStays DEF AllLinked, PollsKept
  <2> QED BY <2>2, <2>3 DEF AllLinked
<1> QED BY <1>1, <1>2, <1>3, NextChange DEF PollChange

\* A non-empty set of integers above x has a least element.
LEMMA LeastAbove ==
    ASSUME NEW x \in Int, NEW T, T \subseteq Int, T # {}, \A t \in T : x < t
    PROVE  \E m \in T : \A t \in T : m <= t
<1> DEFINE Less == {ss \in Nat \X Nat : ss[1] < ss[2]}
           D == {t - x : t \in T}
<1>1. IsWellFoundedOn(Less, Nat)
    BY NatLessThanWellFounded, Zenon DEF OpToRel
<1>2. D \subseteq Nat /\ D # {}
    OBVIOUS
<1> HIDE DEF D
<1>3. PICK d \in D : \A e \in D : ~(<<e, d>> \in Less)
    BY <1>1, <1>2, WFMin
<1>4. ASSUME NEW e \in D PROVE d <= e
  <2>1. e \in Nat /\ d \in Nat
    BY <1>2
  <2>2. <<e, d>> \in Nat \X Nat /\ ~(<<e, d>>[1] < <<e, d>>[2])
    BY <1>3, <2>1
  <2> QED BY <2>1, <2>2
<1>5. PICK m \in T : d = m - x
    BY DEF D
<1>6. ASSUME NEW t \in T PROVE m <= t
  <2>1. t - x \in D
    BY DEF D
  <2>2. d <= t - x
    BY <1>4, <2>1
  <2> QED BY <1>5, <2>2
<1> QED BY <1>5, <1>6

\* Linked windows leave no silent gap.
LEMMA NoGapIfLinked ==
    ASSUME TypeOK, AllLinked
    PROVE  NoSilentGap
<1> DEFINE S == LiveSuccesses
<1> SUFFICES ASSUME NEW x \in Instants, \E r \in S : x < r.win.from,
                    ~ \E r \in S : In(x, r.win)
             PROVE  \E r \in S : /\ x < r.win.from
                                 /\ r.win.to - r.win.from \in {MaxLookback, InitialLookback}
    BY DEF NoSilentGap, LiveSuccesses
<1>1. x \in Int /\ \A r \in S : r.win.from \in Int /\ r.win.to \in Int
    BY InstantsAreInt DEF LiveSuccesses, Succeeded, RunsOf, TypeOK, Run, Window
<1>2. \A r \in S : r.win.from < r.win.to
    BY <1>1 DEF AllLinked, Linked
<1> DEFINE T == {r.win.to : r \in {q \in S : x < q.win.from}}
<1>3. T \subseteq Int /\ T # {} /\ \A t \in T : x < t
  <2>1. PICK r \in S : x < r.win.from
    OBVIOUS
  <2>2. r.win.to \in T
    BY <2>1
  <2>3. ASSUME NEW t \in T PROVE t \in Int /\ x < t
    <3>1. PICK q \in S : x < q.win.from /\ t = q.win.to
      BY <2>3
    <3> QED BY <1>1, <1>2, <3>1
  <2> QED BY <2>2, <2>3
<1>4. PICK m \in T : \A t \in T : m <= t
    BY <1>1, <1>3, LeastAbove
<1>5. PICK b \in S : x < b.win.from /\ b.win.to = m
    OBVIOUS
<1>6. ASSUME NEW r \in S, b.win.from <= r.win.to, r.win.to < b.win.to PROVE FALSE
  <2>1. x < r.win.to
    BY <1>1, <1>5, <1>6
  <2>2. x < r.win.from
    BY <1>1, <1>6, <2>1 DEF In
  <2>3. m <= r.win.to
    BY <1>4, <2>2
  <2> QED BY <1>1, <1>3, <1>5, <1>6, <2>3
<1> QED BY <1>5, <1>6 DEF AllLinked, Linked

\* The windows of live runs leave no instant out between the first run and the
\* checkpoint, whatever fails or crashes in between, except before a window as
\* long as max_incremental_lookback (a longer outage) or as the initial lookback.
THEOREM NothingSkipped == Spec => []NoSilentGap
<1>1. Init => EndsAtTick /\ AllLinked
    BY DEF Init, EndsAtTick, AllLinked, LiveSuccesses, Succeeded, RunsOf, Polling
<1>2. TypeOK /\ EndsAtTick /\ AllLinked /\ [Next]_vars => AllLinked'
    BY LinkedNext
<1>3. TypeOK /\ AllLinked => NoSilentGap
    BY NoGapIfLinked
<1> QED BY <1>1, <1>2, <1>3, EndsNext, TypeCorrect, PTL DEF Spec

-----------------------------------------------------------------------------
(* The order of stored evidence: while no lock session is lost and the      *)
(* processes share one clock, the advisory lock taken before the fetch      *)
(* keeps an older answer from being stored over a newer one, for any        *)
(* replicas, operators, slots, facts and every other failure.               *)

\* What the order rests on: no lock session is lost, and all clocks agree.
OrderedSetting ==
    /\ "session" \notin Faults
    /\ \A p, q \in Proc : Skew[p] = Skew[q]

\* The process holds an answer it fetched and has not stored.
Holding(p) == pc[p] \in {"persist", "insert"}

\* Inside the lock every process still owns it.
Guarded == \A p \in Proc : HasLock(p) => session[p]

\* Nothing was stored, or is held, with a time that is still to come.
NotFuture ==
    /\ \A r \in ledger, p \in Proc : r.seen <= Now(p)
    /\ \A p \in Proc : Holding(p) => call[p].done <= Now(p)

\* A held answer is at least as new as everything stored.
Newest == \A p \in Proc : Holding(p) => \A r \in ledger : r.seen <= call[p].done

OrderInv == RevisionOrder /\ Guarded /\ NotFuture /\ Newest

\* What is known of every state from the other proofs.
Known == IInv /\ LockInv

-----------------------------------------------------------------------------

\* Delivery times and clock readings are integers.
LEMMA TimesAreInt ==
    ASSUME TypeOK
    PROVE  /\ \A r \in ledger : r.seen \in Int
           /\ \A p \in Proc : Now(p) \in Int /\ call[p].done \in Int
<1>1. \A r \in ledger : r.seen \in Instants
    BY DEF TypeOK, Ledger!Row
<1>2. \A p \in Proc : call[p].done \in Instants
    BY DEF TypeOK, Call
<1> QED BY <1>1, <1>2, InstantsAreInt, NowIsInstant

\* At most one process holds the lock, and with it an answer.
LEMMA HoldersAgree ==
    ASSUME LockInv, Guarded, NEW p \in Proc, NEW q \in Proc, HasLock(p), HasLock(q)
    PROVE  p = q
BY DEF LockInv, Guarded

\* A step that stores nothing, in a state whose clock does not go back, keeps
\* the order if the answers held after it were held before it.
LEMMA QuietOrder ==
    ASSUME TypeOK, OrderInv, ledger' = ledger, clock' = clock \/ clock' = clock + 1,
           Guarded',
           \A p \in Proc : Holding(p)' => Holding(p) /\ call'[p].done = call[p].done
    PROVE  OrderInv'
<1>1. \A p \in Proc : Now(p)' \in Int /\ Now(p) <= Now(p)'
    BY DEF Now, TypeOK, Proc
<1>2. RevisionOrder' /\ Newest'
    BY DEF OrderInv, RevisionOrder, Newest
<1>3. NotFuture'
  <2>1. ASSUME NEW r \in ledger', NEW p \in Proc PROVE r.seen <= Now(p)'
    <3>1. r.seen <= Now(p) /\ r.seen \in Int /\ Now(p) \in Int
      BY <2>1, TimesAreInt DEF OrderInv, NotFuture
    <3> QED BY <3>1, <1>1
  <2>2. ASSUME NEW p \in Proc, Holding(p)' PROVE call'[p].done <= Now(p)'
    <3>1. call[p].done <= Now(p) /\ call[p].done \in Int /\ Now(p) \in Int
      BY <2>2, TimesAreInt DEF OrderInv, NotFuture
    <3> QED BY <2>2, <3>1, <1>1
  <2> QED BY <2>1, <2>2 DEF NotFuture
<1> QED BY <1>2, <1>3 DEF OrderInv

\* No step leaves a process inside the lock without its session.
LEMMA GuardedNext ==
    ASSUME OrderedSetting, TypeOK, LockInv, Guarded, [Next]_vars
    PROVE  Guarded'
<1> USE DEF TypeOK, LockInv, Guarded, HasLock
<1>1. CASE UNCHANGED vars
    BY <1>1 DEF vars
<1>2. CASE ClockTick \/ \E s \in Slots, f \in Fact : Publish(s, f)
    BY <1>2 DEF ClockTick, Publish
<1>3. ASSUME NEW p \in Proc, Step(p) PROVE Guarded'
  <2>1. CASE BeginTick(p) \/ AcquireLock(p) \/ Fetch(p) \/ BeginTransaction(p)
             \/ Commit(p) \/ RecordFailure(p)
    BY <2>1 DEF BeginTick, AcquireLock, Fetch, BeginTransaction, Commit, RecordFailure, Goto
  <2>2. CASE SelectPoll(p) \/ SelectChunk(p)
    BY <2>2 DEF SelectPoll, SelectChunk, Goto, Advance, Rest
  <2>3. CASE SkipLocked(p) \/ Release(p) \/ Unwind(p)
    BY <2>3 DEF SkipLocked, Release, Unwind, Advance, Rest
  <2> QED BY <1>3, <2>1, <2>2, <2>3 DEF Step
<1>4. ASSUME NEW p \in Proc,
             SelectFails(p) \/ FetchFails(p) \/ TransactionFails(p)
                \/ RecordFailureFails(p) \/ LoseSession(p) \/ Crash(p)
      PROVE Guarded'
  <2>1. CASE SelectFails(p)
    BY <2>1 DEF SelectFails, Advance, Rest
  <2>2. CASE FetchFails(p) \/ TransactionFails(p) \/ RecordFailureFails(p)
    BY <2>2 DEF FetchFails, TransactionFails, RecordFailureFails, Goto
  <2>3. CASE LoseSession(p)
    BY <2>3 DEF LoseSession, Fault, OrderedSetting
  <2>4. CASE Crash(p)
    BY <2>4 DEF Crash
  <2> QED BY <1>4, <2>1, <2>2, <2>3, <2>4
<1> QED BY <1>1, <1>2, <1>3, <1>4 DEF Next, Environment

-----------------------------------------------------------------------------
(* The two steps that matter *)

\* An answer is dated when it arrives, so everything stored is older.
LEMMA FetchOrder ==
    ASSUME Known, OrderInv, NEW p \in Proc, Fetch(p), Guarded'
    PROVE  OrderInv'
<1>1. TypeOK /\ call[p] \in Call
    BY DEF Known, IInv, TypeOK
<1>2. /\ ledger' = ledger /\ clock' = clock
      /\ pc' = [pc EXCEPT ![p] = "persist"]
      /\ \A q \in Proc \ {p} : call'[q] = call[q]
      /\ call'[p].done = Now(p)
    BY <1>1 DEF Fetch, Goto, TypeOK, Call, db
<1>3. \A q \in Proc : Now(q)' = Now(q) /\ Now(q) <= Now(q)
    BY <1>1, <1>2, TimesAreInt DEF Now
<1>4. \A q \in Proc : Holding(q)' => q = p \/ (Holding(q) /\ call'[q] = call[q])
    BY <1>1, <1>2 DEF Holding, TypeOK
<1>5. NotFuture' /\ Newest' /\ RevisionOrder'
    BY <1>2, <1>3, <1>4 DEF OrderInv, NotFuture, Newest, RevisionOrder
<1> QED BY <1>5 DEF OrderInv

\* A prepared row is dated like its answer and numbered above every stored row
\* of its identity.
LEMMA PreparedAbove ==
    ASSUME NEW L, Proofs!WellFormed(L), NEW f \in Ledger!Payload, NEW d \in Instants,
           NEW q \in Ledger!Prepared(L, f, d)
    PROVE  /\ q.id \in Slots /\ q.rev = Ledger!NextRev(L, q.id) /\ q.seen = d /\ q.rev \in Nat
           /\ \A r \in L : r.id = q.id => r.rev < q.rev
<1>1. PICK n \in [Slots -> Nat] : \A i \in Slots : Proofs!Revs(L, i) = 0..(n[i] - 1)
    BY DEF Proofs!WellFormed, Proofs!Counted
<1>2. L \in SUBSET Proofs!Row
    BY DEF Proofs!WellFormed
<1>3. q.id \in Slots /\ q.rev = Ledger!NextRev(L, q.id) /\ q.seen = d
    BY DEF Ledger!Prepared
<1>4. Proofs!NextRev(L, q.id) = n[q.id] /\ \A r \in Proofs!Rows(L, q.id) : r.rev < n[q.id]
  <2>1. q.id \in Slots /\ n[q.id] \in Nat /\ Proofs!Revs(L, q.id) = 0..(n[q.id] - 1)
    BY <1>1, <1>3
  <2> HIDE <1>1
  <2> QED BY <1>2, <2>1, Proofs!NextRevIsCount
<1>5. Ledger!NextRev(L, q.id) = Proofs!NextRev(L, q.id)
    BY DEF Ledger!NextRev, Proofs!NextRev, Ledger!Latest, Proofs!Latest, Ledger!Rows, Proofs!Rows
<1> QED BY <1>1, <1>3, <1>4, <1>5 DEF Proofs!Rows

\* A commit stores the answer of the one process inside the lock.
LEMMA CommitOrder ==
    ASSUME OrderedSetting, Known, OrderInv, NEW p \in Proc, Commit(p), Guarded'
    PROVE  OrderInv'
<1> DEFINE f == call[p].payload
           d == call[p].done
           new == Ledger!Prepared(ledger, f, d)
<1>1. /\ TypeOK /\ call[p] \in Call /\ Proofs!WellFormed(ledger)
      /\ f \in Ledger!Payload /\ d \in Instants
    BY DEF Known, IInv, TypeOK, Call
<1>2. call[p].prep = new
    BY DEF Known, IInv, Prepared, Commit
<1>3. clock' = clock /\ pc'[p] \in {"failing", "release"}
      /\ \A q \in Proc \ {p} : pc'[q] = pc[q]
    BY <1>1 DEF Commit, Goto, TypeOK
<1>4. Holding(p) /\ HasLock(p)
    BY DEF Commit, Holding, HasLock
<1>5. \A q \in Proc : ~Holding(q)'
  <2> SUFFICES ASSUME NEW q \in Proc, Holding(q)' PROVE FALSE
    OBVIOUS
  <2>1. q # p /\ HasLock(q)
    BY <1>3 DEF Holding, HasLock
  <2> QED BY <2>1, <1>4, HoldersAgree DEF Known, OrderInv
<1>6. ledger' = ledger \/ ledger' = ledger \cup new
    BY <1>2 DEF Commit
<1>7. \A q \in new : /\ q.seen = d /\ q.id \in Slots
                     /\ q.rev = Ledger!NextRev(ledger, q.id) /\ q.rev \in Nat
                     /\ \A r \in ledger : r.id = q.id => r.rev < q.rev
    BY <1>1, PreparedAbove
<1>8. \A r \in ledger : r.seen <= d /\ r.rev \in Nat
    BY <1>1, <1>4 DEF OrderInv, Newest, TypeOK, Ledger!Row
<1>9. d \in Int /\ \A q \in Proc : Now(q)' = Now(q) /\ Now(q) = Now(p) /\ d <= Now(q)
  <2>1. \A q \in Proc : Now(q) = Now(p)
    BY DEF OrderedSetting, Now
  <2> QED BY <2>1, <1>1, <1>3, <1>4, TimesAreInt DEF Now, OrderInv, NotFuture
<1> HIDE DEF f, d, new
<1>10. RevisionOrder'
  <2> SUFFICES ASSUME NEW r \in ledger', NEW q \in ledger', r.id = q.id, r.rev < q.rev
               PROVE  r.seen <= q.seen
    BY DEF RevisionOrder
  <2>1. CASE r \in ledger /\ q \in ledger
    BY <2>1 DEF OrderInv, RevisionOrder
  <2>2. CASE r \in ledger /\ q \in new
    BY <2>2, <1>7, <1>8
  <2>3. CASE r \in new /\ q \in ledger
    <3>1. q.rev < r.rev /\ q.rev \in Nat /\ r.rev \in Nat
      BY <2>3, <1>7, <1>8
    <3> QED BY <3>1
  <2>4. CASE r \in new /\ q \in new
    BY <2>4, <1>7, <1>9
  <2> QED BY <1>6, <2>1, <2>2, <2>3, <2>4
<1>11. NotFuture' /\ Newest'
    BY <1>5, <1>6, <1>7, <1>9 DEF OrderInv, NotFuture, Newest
<1> QED BY <1>10, <1>11 DEF OrderInv

-----------------------------------------------------------------------------

\* Every other step stores nothing and holds nothing new.
LEMMA OrderNext ==
    ASSUME OrderedSetting, Known, OrderInv, [Next]_vars
    PROVE  OrderInv'
<1>1. TypeOK /\ LockInv /\ Guarded
    BY DEF Known, IInv, OrderInv
<1>2. Guarded'
    BY <1>1, GuardedNext
<1> USE DEF TypeOK, Holding
<1>3. CASE UNCHANGED vars
    BY <1>1, <1>2, <1>3, QuietOrder DEF vars, db
<1>4. CASE ClockTick \/ \E s \in Slots, f \in Fact : Publish(s, f)
    BY <1>1, <1>2, <1>4, QuietOrder DEF ClockTick, Publish, db
<1>5. ASSUME NEW p \in Proc, Step(p) PROVE OrderInv'
  <2>1. CASE BeginTick(p)
    BY <1>1, <1>2, <2>1, QuietOrder DEF BeginTick, Goto, db
  <2>2. CASE SelectPoll(p)
    BY <1>1, <1>2, <2>2, QuietOrder DEF SelectPoll, Goto, Advance, Rest, db
  <2>3. CASE SelectChunk(p)
    BY <1>1, <1>2, <2>3, QuietOrder DEF SelectChunk, Goto, Advance, Rest, db
  <2>4. CASE AcquireLock(p)
    BY <1>1, <1>2, <2>4, QuietOrder DEF AcquireLock, Goto, db
  <2>5. CASE SkipLocked(p)
    BY <1>1, <1>2, <2>5, QuietOrder DEF SkipLocked, Advance, Rest, db
  <2>6. CASE Fetch(p)
    BY <1>2, <2>6, FetchOrder
  <2>7. CASE BeginTransaction(p)
    <3>1. call[p] \in Call
      BY <1>1
    <3>2. call'[p].done = call[p].done /\ \A q \in Proc \ {p} : call'[q] = call[q]
      BY <1>1, <2>7, <3>1 DEF BeginTransaction, Call
    <3>3. \A q \in Proc : Holding(q)' => Holding(q) /\ call'[q].done = call[q].done
      BY <1>1, <2>7, <3>2 DEF BeginTransaction, Goto
    <3>4. ledger' = ledger /\ clock' = clock
      BY <2>7 DEF BeginTransaction
    <3> QED BY <1>1, <1>2, <3>3, <3>4, QuietOrder
  <2>8. CASE Commit(p)
    BY <1>2, <2>8, CommitOrder
  <2>9. CASE RecordFailure(p)
    BY <1>1, <1>2, <2>9, QuietOrder DEF RecordFailure, Goto, db
  <2>10. CASE Release(p)
    BY <1>1, <1>2, <2>10, QuietOrder DEF Release, Advance, Rest, db
  <2>11. CASE Unwind(p)
    BY <1>1, <1>2, <2>11, QuietOrder DEF Unwind, Advance, Rest, db
  <2> QED BY <1>5, <2>1, <2>2, <2>3, <2>4, <2>5, <2>6, <2>7, <2>8, <2>9, <2>10, <2>11 DEF Step
<1>6. ASSUME NEW p \in Proc,
             SelectFails(p) \/ FetchFails(p) \/ TransactionFails(p)
                \/ RecordFailureFails(p) \/ LoseSession(p) \/ Crash(p)
      PROVE OrderInv'
  <2>1. CASE SelectFails(p)
    BY ZenonT(40), <1>1, <1>2, <2>1, QuietOrder DEF SelectFails, Advance, Rest, db
  <2>2. CASE FetchFails(p)
    BY <1>1, <1>2, <2>2, QuietOrder DEF FetchFails, Goto, db
  <2>3. CASE TransactionFails(p)
    BY <1>1, <1>2, <2>3, QuietOrder DEF TransactionFails, EndTransaction, Goto, db
  <2>4. CASE RecordFailureFails(p)
    BY <1>1, <1>2, <2>4, QuietOrder DEF RecordFailureFails, Goto, db
  <2>5. CASE LoseSession(p)
    BY <1>1, <1>2, <2>5, QuietOrder DEF LoseSession, db
  <2>6. CASE Crash(p)
    BY <1>1, <1>2, <2>6, QuietOrder DEF Crash, db
  <2> QED BY <1>6, <2>1, <2>2, <2>3, <2>4, <2>5, <2>6
<1> QED BY <1>3, <1>4, <1>5, <1>6 DEF Next, Environment

\* The lock link and the inductive invariant hold together in every state.
LEMMA AlwaysKnown == Spec => []Known
<1>1. Init => LockInv
    BY DEF Init, LockInv
<1>2. IInv /\ LockInv => Known
    BY DEF Known
<1> QED BY <1>1, <1>2, LockInvNext, TypeCorrect, Inductive, PTL DEF Spec

\* A later revision is never older evidence: while no lock session is lost and
\* the processes share one clock, whatever else fails or crashes.
THEOREM EvidenceInOrder ==
    ASSUME OrderedSetting
    PROVE  Spec => []RevisionOrder
<1>1. Init => OrderInv
    BY DEF Init, OrderInv, RevisionOrder, Guarded, NotFuture, Newest, HasLock, Holding
<1>2. Known /\ OrderInv /\ [Next]_vars => OrderInv'
    BY OrderNext
<1>3. OrderInv => RevisionOrder
    BY DEF OrderInv
<1> QED BY <1>1, <1>2, <1>3, AlwaysKnown, PTL DEF Spec
=============================================================================
