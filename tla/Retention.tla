------------------------------ MODULE Retention ------------------------------
(***************************************************************************)
(* The raw documents behind the evidence (table raw_payloads): stored once *)
(* for each source, endpoint and content by the ingestion transaction      *)
(* (app/persistence/ingestion.py), and deleted after their retention by    *)
(* bounded batches (app/worker/retention.py, app/persistence/retention.py) *)
(* that skip rows an ingestion transaction has locked.  The rows derived   *)
(* from a document outlive it (ON DELETE SET NULL) and are left out.       *)
(*                                                                         *)
(* Only the order of retrieval is kept of the times: `docs' is in that     *)
(* order and its first `expired' documents are older than the cutoff.      *)
(***************************************************************************)
EXTENDS Naturals, Sequences, FiniteSets, SequencesExt, FiniteSetsExt

CONSTANTS
    Source,      \* sources; the transactions of one follow each other
    Content,     \* contents a source may serve
    BatchSize, MaxBatches,   \* the bounds of one cleanup
    MaxFaults    \* bound: failures

VARIABLES
    docs,       \* committed rows of raw_payloads, oldest retrieval first
    expired,    \* how many of them are older than the cutoff
    poll,       \* [Source -> the open ingestion transaction]
    pass,       \* the cleanup
    faults

vars == <<docs, expired, poll, pass, faults>>

Document == Source \X Content
NoPoll == [pc |-> "idle", content |-> "none", own |-> FALSE, wrote |-> FALSE]
NoPass == [pc |-> "idle", picked |-> {}, batches |-> 0]

Stored == ToSet(docs)
Doc(s) == <<s, poll[s].content>>

\* A row inserted with a foreign key holds its document FOR KEY SHARE to the commit.
Shared(d) == poll[d[1]].wrote /\ ~poll[d[1]].own /\ Doc(d[1]) = d

Locked(d) == pass.pc = "delete" /\ d \in pass.picked    \* FOR UPDATE

-----------------------------------------------------------------------------
(* persist_success *)

\* INSERT ... ON CONFLICT DO NOTHING.  Only a committed row conflicts; a row that is
\* being deleted makes the statement wait.
InsertRaw(s, c) ==
    /\ poll[s] = NoPoll
    /\ ~Locked(<<s, c>>)
    /\ poll' = [poll EXCEPT ![s] = [pc |-> IF <<s, c>> \in Stored THEN "find" ELSE "rows",
                                    content |-> c, own |-> <<s, c>> \notin Stored,
                                    wrote |-> FALSE]]
    /\ UNCHANGED <<docs, expired, pass, faults>>

\* The id of the row that conflicted; if it is gone, scalar_one raises.
FindRaw(s) ==
    /\ poll[s].pc = "find"
    /\ poll' = [poll EXCEPT ![s] = IF Doc(s) \in Stored THEN [@ EXCEPT !.pc = "rows"] ELSE NoPoll]
    /\ UNCHANGED <<docs, expired, pass, faults>>

\* Evidence rows, if a fact changed.  The foreign key waits for a document that is
\* being deleted and is violated when it is gone.
WriteRows(s) ==
    /\ poll[s].pc = "rows"
    /\ \/ poll' = [poll EXCEPT ![s].pc = "commit"]
       \/ /\ ~Locked(Doc(s))
          /\ poll' = [poll EXCEPT ![s] =
                IF @.own \/ Doc(s) \in Stored THEN [@ EXCEPT !.pc = "commit", !.wrote = TRUE]
                ELSE NoPoll]
    /\ UNCHANGED <<docs, expired, pass, faults>>

\* retrieved_at was taken before the transaction: others may have committed a later one.
Commit(s) ==
    /\ poll[s].pc = "commit"
    /\ IF poll[s].own
       THEN \E i \in (expired + 1)..(Len(docs) + 1) : docs' = InsertAt(docs, i, Doc(s))
       ELSE UNCHANGED docs
    /\ poll' = [poll EXCEPT ![s] = NoPoll]
    /\ UNCHANGED <<expired, pass, faults>>

PollFails(s) ==
    /\ poll[s] # NoPoll /\ faults < MaxFaults
    /\ poll' = [poll EXCEPT ![s] = NoPoll] /\ faults' = faults + 1
    /\ UNCHANGED <<docs, expired, pass>>

-----------------------------------------------------------------------------
(* RawPayloadRetentionWorker.run_once and delete_batch *)

BeginPass ==
    /\ pass = NoPass
    /\ pass' = [NoPass EXCEPT !.pc = "select"]
    /\ UNCHANGED <<docs, expired, poll, faults>>

Free == {i \in 1..expired : ~Shared(docs[i])}

\* Slip: the newest of the expired documents.
BatchFromNewest == {docs[i] : i \in {j \in Free : Cardinality({k \in Free : k > j}) < BatchSize}}

\* The oldest documents, without the locked ones.
Batch == {docs[i] : i \in {j \in Free : Cardinality({k \in Free : k < j}) < BatchSize}}

SelectBatch ==
    /\ pass.pc = "select"
    /\ pass' = IF Batch = {} THEN NoPass ELSE [pass EXCEPT !.pc = "delete", !.picked = Batch]
    /\ UNCHANGED <<docs, expired, poll, faults>>

\* DELETE and commit; the run stops at a short batch or at the bound.
DeleteBatch ==
    /\ pass.pc = "delete"
    /\ docs' = SelectSeq(docs, LAMBDA d : d \notin pass.picked)
    /\ expired' = expired - Cardinality(pass.picked)
    /\ pass' = IF Cardinality(pass.picked) < BatchSize \/ pass.batches + 1 = MaxBatches
               THEN NoPass
               ELSE [pc |-> "select", picked |-> {}, batches |-> pass.batches + 1]
    /\ UNCHANGED <<poll, faults>>

\* Rolled back; run_forever waits for the next interval.
PassFails ==
    /\ pass # NoPass /\ faults < MaxFaults
    /\ pass' = NoPass /\ faults' = faults + 1
    /\ UNCHANGED <<docs, expired, poll>>

Expire ==
    /\ expired < Len(docs) /\ expired' = expired + 1
    /\ UNCHANGED <<docs, poll, pass, faults>>

-----------------------------------------------------------------------------
Init ==
    /\ docs = <<>> /\ expired = 0
    /\ poll = [s \in Source |-> NoPoll]
    /\ pass = NoPass /\ faults = 0

Poll(s) == FindRaw(s) \/ WriteRows(s) \/ Commit(s)
Pass == BeginPass \/ SelectBatch \/ DeleteBatch

Next ==
    \/ \E s \in Source : Poll(s) \/ PollFails(s) \/ \E c \in Content : InsertRaw(s, c)
    \/ Pass \/ PassFails \/ Expire

Spec == Init /\ [][Next]_vars

\* An open transaction goes on, and the cleanup comes again after each interval.
Fairness == WF_vars(Pass) /\ \A s \in Source : WF_vars(Poll(s))
-----------------------------------------------------------------------------
(* Properties *)

Overdue(d) == \E i \in 1..expired : docs[i] = d

\* Every document that is past its retention is deleted, although each cleanup is
\* bounded, skips the documents in use and may fail, and however many documents
\* expire meanwhile; unless an ingestion transaction uses it again.
BacklogDrains == \A d \in Document : Overdue(d) ~> (~Overdue(d) \/ Shared(d))
=============================================================================
