--------------------------- MODULE ObservedEvents ---------------------------
(***************************************************************************)
(* Detected grid events (app/worker/observed_events.py,                    *)
(* app/persistence/observed_events.py, app/events/observed.py): after each *)
(* successful relevant ingestion job a worker replica loads the newest     *)
(* evidence visible at that job's completion, evaluates the rules on it,   *)
(* writes the events and expires the old ones.                             *)
(*                                                                         *)
(* One evidence component is modelled.  A reading is its snapshot at one   *)
(* instant, together with the snapshots the rules compare it with; the     *)
(* readings are an immutable revision ledger.  A rule is stateful (its     *)
(* absence ends the event) or momentary (only a correction of the very     *)
(* same instant retracts it).                                              *)
(***************************************************************************)
EXTENDS Naturals, FiniteSets

CONSTANTS
    Workers,      \* worker replicas
    Nobody,       \* "lock not held"
    Stateful,     \* rules such as renewable_share_milestone
    Momentary,    \* rules such as generation_leader_change
    Value,        \* what a coherent reading can say
    Partial,      \* an incomplete reading: no component
    NoFact,       \* no reading
    Active,       \* [Value -> SUBSET Rule], the rules a reading satisfies
    Bucket,       \* length of the time bucket in a deterministic key
    MaxAge,       \* a reading older than this is no evidence
    Lifetime,     \* [Rule -> Nat], _EXPIRY_BY_EVENT_TYPE
    Limit,        \* _MAX_LIFECYCLE_TRANSITIONS_PER_SCOPE
    Faults,       \* kinds of failure this instance allows
    Horizon,      \* bound: last instant
    CalmAfter,    \* bound: publications and failures happen up to here
    MaxFaults,    \* bound: number of failures
    MaxReadings   \* bound: number of stored readings

Rule == Stateful \cup Momentary

ASSUME ObservedEventsAssumption ==
    /\ Nobody \notin Workers
    /\ Stateful \cap Momentary = {}
    /\ Partial \notin Value /\ NoFact \notin Value \cup {Partial}
    /\ Active \in [Value -> SUBSET Rule]
    /\ Lifetime \in [Rule -> Nat]
    /\ Bucket \in Nat \ {0} /\ Limit \in Nat \ {0} /\ MaxAge \in Nat
    /\ Horizon \in Nat /\ CalmAfter \in Nat /\ MaxFaults \in Nat /\ MaxReadings \in Nat

VARIABLES
    clock,      \* real time
    ledger,     \* stored readings
    events,     \* table detected_events, a function on the keys it holds
    lock,       \* owner of the lock 50hz:maintenance:observed-events:v1
    session,    \* is the connection of its lock alive?
    pc, call,   \* where each replica is, and its locals
    print,      \* evidence fingerprint each replica processed last, in memory
    faults      \* failures so far

vars == <<clock, ledger, events, lock, session, pc, call, print, faults>>

Instants == 0..Horizon

Ledger == INSTANCE RevisionLedger
    WITH Ident <- Instants, Fact <- Value \cup {Partial}, Delivery <- Instants

Key == [rule: Rule, bucket: Nat]
KeyOf(r, t) == [rule |-> r, bucket |-> t \div Bucket]

\* evidence_checksum: instant, facts and record ids.  The record ids of the
\* Elexon adapters do not contain the revision, so a value that returns after a
\* correction has the checksum it had before.
Checksum(c) == [at |-> c.id, value |-> c.fact]

\* The fingerprint contains the revision.
Fingerprint(c) == [at |-> c.id, value |-> c.fact, rev |-> c.rev]
NoPrint == [at |-> 0, value |-> NoFact, rev |-> 0]

Event == [status: {"open", "updated", "resolved"}, version: Nat,
          checksum: [at: Instants, value: Value], last: Instants]

Open(E, k) == k \in DOMAIN E /\ E[k].status # "resolved"

\* PostgresObservedEvidenceLoader.load: the newest reading stored and observed
\* by the cutoff, in its latest visible revision, if it is coherent and recent.
Component(cutoff) ==
    LET visible == {r \in ledger : r.seen <= cutoff /\ r.id <= cutoff}
        newest == {r \in visible : \A q \in visible :
                      q.id < r.id \/ (q.id = r.id /\ q.rev <= r.rev)}
    IN  {r \in newest : r.fact # Partial /\ cutoff - r.id <= MaxAge}

Drafts(c) == {KeyOf(r, c.id) : r \in Active[c.fact]}

\* The locals of one pass:
\*   cutoff  completed_at of the job     read    existing_by_key, as it was read
\*   found   the changed component       locked  rows its transaction has locked
NoEvents == [k \in {} |-> {}]
NoCall == [cutoff |-> 0, found |-> {}, read |-> NoEvents, locked |-> {}]

LockedByOthers(w) == UNION {call[v].locked : v \in Workers \ {w}}

-----------------------------------------------------------------------------
Init ==
    /\ clock = 0
    /\ ledger = {}
    /\ events = NoEvents
    /\ lock = Nobody
    /\ session = [w \in Workers |-> FALSE]
    /\ pc = [w \in Workers |-> "idle"]
    /\ call = [w \in Workers |-> NoCall]
    /\ print = [w \in Workers |-> NoPrint]
    /\ faults = 0

Goto(w, l) == pc' = [pc EXCEPT ![w] = l]

\* Leaving the lock context, normally or by an exception that run_once logs.
Leave(w) ==
    /\ lock' = IF session[w] THEN Nobody ELSE lock
    /\ session' = [session EXCEPT ![w] = FALSE]
    /\ Goto(w, "idle")
    /\ call' = [call EXCEPT ![w] = NoCall]

\* A relevant job succeeded and stored at most one new or corrected reading.
Ingest(w) ==
    /\ pc[w] = "idle"
    /\ \/ UNCHANGED ledger
       \/ /\ clock <= CalmAfter /\ Cardinality(ledger) < MaxReadings
          /\ \E t \in 0..clock, v \in Value \cup {Partial} :
                ledger' = ledger \cup Ledger!Prepared(
                    ledger, [i \in Instants |-> IF i = t THEN v ELSE NoFact], clock)
    /\ call' = [call EXCEPT ![w].cutoff = clock]
    /\ Goto(w, "succeeded")
    /\ UNCHANGED <<clock, events, lock, session, print, faults>>

\* after_success: without the lock the pass is dropped.
TryLock(w) ==
    /\ pc[w] = "succeeded"
    /\ \/ /\ lock = Nobody
          /\ lock' = w
          /\ session' = [session EXCEPT ![w] = TRUE]
          /\ Goto(w, "load")
          /\ UNCHANGED call
       \/ /\ lock # Nobody
          /\ Goto(w, "idle")
          /\ call' = [call EXCEPT ![w] = NoCall]
          /\ UNCHANGED <<lock, session>>
    /\ UNCHANGED <<clock, ledger, events, print, faults>>

\* Slip: expiry only when there is new evidence.
LoadExpiresOnChange(w) ==
    /\ pc[w] = "load"
    /\ LET found == {c \in Component(call[w].cutoff) : Fingerprint(c) # print[w]}
       IN  /\ call' = [call EXCEPT ![w].found = found]
           /\ Goto(w, IF found = {} THEN "unlock" ELSE "apply")
    /\ UNCHANGED <<clock, ledger, events, lock, session, print, faults>>

\* Evidence this process has already processed is not evaluated again.
Load(w) ==
    /\ pc[w] = "load"
    /\ LET found == {c \in Component(call[w].cutoff) : Fingerprint(c) # print[w]}
       IN  /\ call' = [call EXCEPT ![w].found = found]
           /\ Goto(w, IF found = {} THEN "expire" ELSE "apply")
    /\ UNCHANGED <<clock, ledger, events, lock, session, print, faults>>

Existing(w, c) == Drafts(c) \cap DOMAIN events

\* Slip: SELECT without FOR UPDATE.
ReadUnlocked(w) ==
    /\ pc[w] = "apply"
    /\ \E c \in call[w].found :
          call' = [call EXCEPT ![w].read = [k \in Existing(w, c) |-> events[k]]]
    /\ Goto(w, "write")
    /\ UNCHANGED <<clock, ledger, events, lock, session, print, faults>>

\* apply opens its transaction: SELECT ... FOR UPDATE of the drafts' events.
ReadExisting(w) ==
    /\ pc[w] = "apply"
    /\ \E c \in call[w].found :
          /\ Existing(w, c) \cap LockedByOthers(w) = {}
          /\ call' = [call EXCEPT ![w].read = [k \in Existing(w, c) |-> events[k]],
                                  ![w].locked = Existing(w, c)]
    /\ Goto(w, "write")
    /\ UNCHANGED <<clock, ledger, events, lock, session, print, faults>>

\* Slip: an older cutoff rewrites the event.
RevisedAtAnyAge(old, c) ==
    IF old.checksum = Checksum(c) THEN old
    ELSE [status |-> "updated", version |-> old.version + 1,
          checksum |-> Checksum(c), last |-> c.id]

\* An existing event meets a draft: replays and older evidence change nothing.
Revised(old, c) ==
    IF old.checksum = Checksum(c) \/ c.id < old.last THEN old
    ELSE [status |-> "updated", version |-> old.version + 1,
          checksum |-> Checksum(c), last |-> c.id]

New(c) == [status |-> "open", version |-> 1, checksum |-> Checksum(c), last |-> c.id]

\* The loop over the drafts; an INSERT that meets a row does nothing.
AfterDrafts(w, c) ==
    [k \in DOMAIN events \cup Drafts(c) |->
        IF k \notin Drafts(c) THEN events[k]
        ELSE IF k \in DOMAIN call[w].read THEN Revised(call[w].read[k], c)
        ELSE IF k \in DOMAIN events THEN events[k]
        ELSE New(c)]

\* Slip: every scope is same_timestamp_only.
AbsentAtInstant(E, r, c) ==
    {k \in DOMAIN E \ Drafts(c) : k.rule = r /\ Open(E, k) /\ E[k].last = c.id}

\* The open events of a rule that the evidence c does not support any more.
Absent(E, r, c) ==
    {k \in DOMAIN E \ Drafts(c) : k.rule = r /\ Open(E, k) /\
        IF r \in Momentary THEN E[k].last = c.id ELSE E[k].last <= c.id}

\* _resolve_matching_events: S is a batch of the oldest of M, at most Limit.
Batch(E, S, M) ==
    /\ S \subseteq M
    /\ Cardinality(S) = IF Cardinality(M) < Limit THEN Cardinality(M) ELSE Limit
    /\ \A k \in S, j \in M \ S : E[k].last <= E[j].last

Resolve(E, S) == [k \in DOMAIN E |-> IF k \in S THEN [E[k] EXCEPT !.status = "resolved"] ELSE E[k]]

\* Drafts and scopes commit together, then the fingerprint is remembered.
Apply(w) ==
    /\ pc[w] = "write"
    /\ \E c \in call[w].found :
          LET E == AfterDrafts(w, c)
          IN  /\ \E S \in SUBSET DOMAIN E :
                    /\ \A r \in Rule : Batch(E, {k \in S : k.rule = r}, Absent(E, r, c))
                    /\ S \cap LockedByOthers(w) = {}
                    /\ events' = Resolve(E, S)
              /\ print' = [print EXCEPT ![w] = Fingerprint(c)]
    /\ call' = [call EXCEPT ![w].found = {}, ![w].read = NoEvents, ![w].locked = {}]
    /\ Goto(w, "expire")
    /\ UNCHANGED <<clock, ledger, lock, session, faults>>

\* Wall-clock expiry, in a transaction of its own.
Expire(w) ==
    /\ pc[w] = "expire"
    /\ LET expired == {k \in DOMAIN events :
              Open(events, k) /\ events[k].last + Lifetime[k.rule] < call[w].cutoff}
       IN  \E S \in SUBSET expired :
              /\ Batch(events, S, expired)
              /\ S \cap LockedByOthers(w) = {}
              /\ events' = Resolve(events, S)
    /\ Goto(w, "unlock")
    /\ UNCHANGED <<clock, ledger, lock, session, call, print, faults>>

Unlock(w) ==
    /\ pc[w] = "unlock"
    /\ Leave(w)
    /\ UNCHANGED <<clock, ledger, events, print, faults>>

Step(w) ==
    \/ Ingest(w) \/ TryLock(w) \/ Load(w) \/ ReadExisting(w)
    \/ Apply(w) \/ Expire(w) \/ Unlock(w)

-----------------------------------------------------------------------------
(* Failures and the environment *)

Fault(kind) ==
    /\ kind \in Faults /\ faults < MaxFaults /\ clock <= CalmAfter
    /\ faults' = faults + 1

\* A statement of the pass fails, or PostgreSQL breaks a deadlock: the exception
\* leaves the action, is logged, and the fingerprint stays what it was.
PassFails(w) ==
    /\ Fault("pass") /\ pc[w] \in {"load", "apply", "write", "expire"}
    /\ Leave(w)
    /\ UNCHANGED <<clock, ledger, events, print>>

\* The connection that owns the advisory lock is closed; the pass goes on.
LoseSession(w) ==
    /\ Fault("session") /\ session[w]
    /\ lock' = Nobody
    /\ session' = [session EXCEPT ![w] = FALSE]
    /\ UNCHANGED <<clock, ledger, events, pc, call, print>>

\* The process restarts: its fingerprints are gone.
Crash(w) ==
    /\ Fault("crash")
    /\ Leave(w)
    /\ print' = [print EXCEPT ![w] = NoPrint]
    /\ UNCHANGED <<clock, ledger, events>>

ClockTick ==
    /\ clock < Horizon
    /\ clock' = clock + 1
    /\ UNCHANGED <<ledger, events, lock, session, pc, call, print, faults>>

Next ==
    \/ \E w \in Workers : Step(w) \/ PassFails(w) \/ LoseSession(w) \/ Crash(w)
    \/ ClockTick

Spec == Init /\ [][Next]_vars

\* The worker keeps ingesting and every await returns; time passes.
FairSpec == Spec /\ WF_vars(ClockTick) /\ \A w \in Workers : WF_vars(Step(w))
-----------------------------------------------------------------------------
(* Properties *)

Labels == {"idle", "succeeded", "load", "apply", "write", "expire", "unlock"}

\* An event never goes back to older evidence, whichever replica or cutoff
\* writes it ("a replay at an older cutoff must never regress newer evidence").
EvidenceNeverRegresses ==
    [][\A k \in DOMAIN events : k \in DOMAIN events' /\ events'[k].last >= events[k].last]_vars

\* A version number names one piece of evidence: it grows with every change of
\* the evidence, also when two replicas apply their drafts at the same time.
VersionNamesEvidence ==
    [][\A k \in DOMAIN events : events'[k].checksum # events[k].checksum =>
          events'[k].version > events[k].version]_vars

\* No event of a stateful rule is open on evidence older than evidence that some
\* replica has already evaluated and that does not satisfy the rule ("a replay at
\* an older cutoff must never regress newer evidence").
NoStaleOpening ==
    \A k \in DOMAIN events, w \in Workers :
        (/\ Open(events, k) /\ k.rule \in Stateful
         /\ print[w].value \in Value /\ k.rule \notin Active[print[w].value])
        => events[k].last >= print[w].at

\* A correction that is evaluated as active appends a version to its event
\* ("corrections append evidence versions").
CorrectionsAppendVersions ==
    [][\A w \in Workers, k \in DOMAIN events :
          (/\ print[w].value \in Value
           /\ print'[w].at = print[w].at /\ print'[w].value # print[w].value
           /\ \E r \in Active[print'[w].value] : k = KeyOf(r, print[w].at))
          => events'[k].version > events[k].version]_vars

\* No event stays open for ever: once time rests, what is open is younger than
\* its lifetime, even if the process that opened it crashed or no new evidence
\* arrives.
EventsEnd ==
    <>[](\A k \in DOMAIN events :
            Open(events, k) => Horizon <= events[k].last + Lifetime[k.rule])
=============================================================================
