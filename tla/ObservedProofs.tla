---------------------------- MODULE ObservedProofs ----------------------------
(***************************************************************************)
(* What concurrent passes can never do to an event, for any replicas,      *)
(* rules, readings, batch limits and failures, a lost maintenance lock     *)
(* included: the row locks of the transaction are enough.                  *)
(***************************************************************************)
EXTENDS ObservedEvents, FiniteSetTheorems, TLAPS

Proofs == INSTANCE RevisionLedgerProofs
    WITH Ident <- Instants, Fact <- Value \cup {Partial}, Delivery <- Instants

USE ObservedEventsAssumption

-----------------------------------------------------------------------------
(* The inductive invariant *)

\* Evidence a pass may evaluate.
Evidence == {c \in Ledger!Row : c.fact \in Value}

\* The table, or what was read of it: events under some of the keys.
Table == UNION {[K -> Event] : K \in SUBSET Key}

Call == [cutoff: Instants, found: SUBSET Evidence, read: Table, locked: SUBSET Key]

Types ==
    /\ clock \in Instants
    /\ Proofs!WellFormed(ledger)
    /\ events \in Table
    /\ pc \in [Workers -> Labels]
    /\ call \in [Workers -> Call]

\* What a transaction has read of the rows it has locked is what they still hold;
\* no row is locked twice, and none outside a transaction.
ReadIsCurrent ==
    /\ \A w \in Workers :
          /\ pc[w] # "write" => call[w].locked = {}
          /\ DOMAIN call[w].read = call[w].locked
          /\ \A k \in call[w].locked : k \in DOMAIN events /\ call[w].read[k] = events[k]
    /\ \A w, v \in Workers : w # v => call[w].locked \cap call[v].locked = {}

IInv == Types /\ ReadIsCurrent

\* What a step may do to the table, to which the two properties speak.
Grows(E, F) ==
    \A k \in DOMAIN E :
        /\ k \in DOMAIN F
        /\ F[k].last >= E[k].last
        /\ F[k].checksum # E[k].checksum => F[k].version > E[k].version

-----------------------------------------------------------------------------
(* Lemmas about tables *)

\* The empty table and the locals outside a pass are typed.
LEMMA EmptyTyped == NoEvents \in Table /\ DOMAIN NoEvents = {} /\ NoCall \in Call
<1>1. NoEvents \in [{} -> Event] /\ DOMAIN NoEvents = {}
    BY DEF NoEvents
<1>2. NoEvents \in Table
    BY <1>1 DEF Table
<1>3. 0 \in Instants
    BY DEF Instants
<1> QED BY <1>1, <1>2, <1>3 DEF NoCall, Call

\* The parts of a table.
LEMMA TableParts ==
    ASSUME NEW E \in Table
    PROVE  /\ DOMAIN E \subseteq Key
           /\ E = [k \in DOMAIN E |-> E[k]]
           /\ \A k \in DOMAIN E : /\ E[k] \in Event
                                  /\ E[k].last \in Nat /\ E[k].version \in Nat
<1>1. PICK K \in SUBSET Key : E \in [K -> Event]
    BY DEF Table
<1>2. \A x \in Event : x.last \in Nat /\ x.version \in Nat
    BY DEF Event, Instants
<1> QED BY <1>1, <1>2

\* A function from keys to events is a table.
LEMMA MakeTable ==
    ASSUME NEW K \in SUBSET Key, NEW F \in [K -> Event]
    PROVE  F \in Table
BY DEF Table

\* Resolving changes the status of a batch and nothing else.
LEMMA ResolveTable ==
    ASSUME NEW E \in Table, NEW S \in SUBSET DOMAIN E
    PROVE  /\ Resolve(E, S) \in Table /\ DOMAIN Resolve(E, S) = DOMAIN E
           /\ \A k \in DOMAIN E :
                 /\ k \notin S => Resolve(E, S)[k] = E[k]
                 /\ Resolve(E, S)[k].last = E[k].last
                 /\ Resolve(E, S)[k].version = E[k].version
                 /\ Resolve(E, S)[k].checksum = E[k].checksum
<1> DEFINE R == Resolve(E, S)
<1>1. DOMAIN E \subseteq Key /\ \A k \in DOMAIN E : E[k] \in Event
    BY TableParts
<1>2. ASSUME NEW k \in DOMAIN E
      PROVE  /\ R[k] \in Event /\ (k \notin S => R[k] = E[k])
             /\ R[k].last = E[k].last /\ R[k].version = E[k].version
             /\ R[k].checksum = E[k].checksum
    BY <1>1, <1>2 DEF Resolve, Event
<1>3. DOMAIN R = DOMAIN E /\ R = [k \in DOMAIN E |-> R[k]]
    BY DEF Resolve
<1> HIDE DEF R
<1>4. R \in [DOMAIN E -> Event]
    BY <1>2, <1>3
<1>5. R \in Table
    BY <1>1, <1>4, MakeTable
<1> QED BY <1>2, <1>3, <1>5 DEF R

\* A revised event is an event, on evidence that is not older, with a new
\* version if its evidence is another.
LEMMA RevisedEvent ==
    ASSUME NEW old \in Event, NEW c \in Evidence
    PROVE  /\ Revised(old, c) \in Event
           /\ Revised(old, c).last >= old.last
           /\ Revised(old, c).checksum # old.checksum => Revised(old, c).version > old.version
<1>1. old.last \in Instants /\ old.version \in Nat /\ c.id \in Instants /\ c.fact \in Value
    BY DEF Event, Evidence, Ledger!Row
<1>2. old.last \in Nat /\ c.id \in Nat
    BY <1>1 DEF Instants
<1>3. CASE Revised(old, c) = old
    BY <1>2, <1>3
<1>4. CASE Revised(old, c) # old
  <2>1. /\ Revised(old, c) = [status |-> "updated", version |-> old.version + 1,
                              checksum |-> Checksum(c), last |-> c.id]
        /\ ~(c.id < old.last)
    BY <1>4 DEF Revised
  <2>2. Checksum(c) \in [at: Instants, value: Value]
    BY <1>1 DEF Checksum
  <2> QED BY <1>1, <1>2, <2>1, <2>2 DEF Event
<1> QED BY <1>3, <1>4

\* The table after the drafts of w: an event is as it was, or it is one w has
\* read and revised, or it is new.
LEMMA AfterDraftsTable ==
    ASSUME IInv, NEW w \in Workers, NEW c \in call[w].found
    PROVE  LET E == AfterDrafts(w, c)
           IN  /\ E \in Table
               /\ \A k \in DOMAIN events :
                     /\ k \in DOMAIN E
                     /\ E[k] = events[k] \/ (k \in call[w].locked /\ E[k] = Revised(events[k], c))
<1> DEFINE E == AfterDrafts(w, c)
           K == DOMAIN events \cup Drafts(c)
<1>1. call[w] \in Call /\ c \in Evidence /\ events \in Table
    BY DEF IInv, Types, Call
<1>2. c.id \in Instants /\ c.fact \in Value
    BY <1>1 DEF Evidence, Ledger!Row
<1>3. Drafts(c) \subseteq Key
  <2>1. Active[c.fact] \subseteq Rule
    BY <1>2
  <2>2. c.id \div Bucket \in Nat
    BY <1>2 DEF Instants
  <2> QED BY <2>1, <2>2 DEF Drafts, KeyOf, Key
<1>4. K \subseteq Key /\ \A k \in DOMAIN events : events[k] \in Event
    BY <1>1, <1>3, TableParts
<1>5. New(c) \in Event
  <2>1. Checksum(c) \in [at: Instants, value: Value]
    BY <1>2 DEF Checksum
  <2> QED BY <1>2, <2>1 DEF New, Event
<1>6. E = [k \in K |-> E[k]]
    BY DEF AfterDrafts
<1>7. \A k \in DOMAIN call[w].read :
         k \in call[w].locked /\ k \in DOMAIN events /\ call[w].read[k] = events[k]
    BY DEF IInv, ReadIsCurrent
<1>8. ASSUME NEW k \in DOMAIN events
      PROVE  E[k] = events[k] \/ (k \in call[w].locked /\ E[k] = Revised(events[k], c))
    BY <1>7, <1>8 DEF AfterDrafts
<1>9. ASSUME NEW k \in K \ DOMAIN events PROVE E[k] = New(c)
    BY <1>7, <1>9 DEF AfterDrafts
<1> HIDE DEF E
<1>10. ASSUME NEW k \in K PROVE E[k] \in Event
  <2>1. CASE k \in DOMAIN events
    <3>1. Revised(events[k], c) \in Event
      BY <1>1, <1>4, <2>1, RevisedEvent
    <3> QED BY <1>4, <1>8, <2>1, <3>1
  <2>2. CASE k \notin DOMAIN events
    BY <1>5, <1>9, <1>10, <2>2
  <2> QED BY <2>1, <2>2
<1> HIDE DEF K
<1>11. E \in [K -> Event]
    BY <1>6, <1>10
<1>12. E \in Table
    BY <1>4, <1>11, MakeTable
<1>13. DOMAIN events \subseteq DOMAIN E
    BY <1>11 DEF K
<1> QED BY <1>8, <1>12, <1>13 DEF E

-----------------------------------------------------------------------------
(* The steps *)

\* A step that leaves the table alone and starts no transaction keeps the
\* invariant if locals stay typed and locks are kept with their reads, or gone.
LEMMA QuietStep ==
    ASSUME IInv, UNCHANGED events, NEW w \in Workers, Types',
           \A v \in Workers \ {w} : pc'[v] = pc[v] /\ call'[v] = call[v],
           \/ /\ call'[w].locked = call[w].locked /\ call'[w].read = call[w].read
              /\ pc'[w] # "write" => call[w].locked = {}
           \/ call'[w].locked = {} /\ DOMAIN call'[w].read = {}
    PROVE  IInv'
<1>1. call'[w].locked \subseteq call[w].locked
    OBVIOUS
<1>2. ASSUME NEW v \in Workers
      PROVE  /\ pc'[v] # "write" => call'[v].locked = {}
             /\ DOMAIN call'[v].read = call'[v].locked
             /\ \A k \in call'[v].locked : k \in DOMAIN events' /\ call'[v].read[k] = events'[k]
  <2>1. CASE v = w
    BY ZenonT(40), <2>1 DEF IInv, ReadIsCurrent
  <2>2. CASE v # w
    BY <2>2 DEF IInv, ReadIsCurrent
  <2> QED BY <2>1, <2>2
<1>3. ASSUME NEW v \in Workers, NEW u \in Workers, v # u
      PROVE  call'[v].locked \cap call'[u].locked = {}
  <2>1. call'[v].locked \subseteq call[v].locked /\ call'[u].locked \subseteq call[u].locked
    BY <1>1
  <2>2. call[v].locked \cap call[u].locked = {}
    BY <1>3 DEF IInv, ReadIsCurrent
  <2> QED BY <2>1, <2>2
<1> QED BY <1>2, <1>3 DEF IInv, ReadIsCurrent

\* Leaving the lock gives up every row.
LEMMA LeaveLocals ==
    ASSUME IInv, NEW w \in Workers, Leave(w)
    PROVE  /\ pc' \in [Workers -> Labels] /\ call' \in [Workers -> Call]
           /\ call'[w].locked = {} /\ DOMAIN call'[w].read = {}
           /\ \A v \in Workers \ {w} : pc'[v] = pc[v] /\ call'[v] = call[v]
BY EmptyTyped DEF Leave, Goto, IInv, Types, Labels, NoCall

\* The readings that can be evaluated are evidence.
LEMMA FoundIsEvidence ==
    ASSUME Types, NEW x \in Instants
    PROVE  Component(x) \subseteq Evidence
<1>1. ledger \subseteq Ledger!Row
    BY DEF Types, Proofs!WellFormed, Proofs!Row, Ledger!Row
<1> QED BY <1>1 DEF Component, Evidence, Ledger!Row

\* A job stores readings as the ledger promises, and names its cutoff.
LEMMA IngestStep == ASSUME IInv, NEW w \in Workers, Ingest(w) PROVE IInv'
<1>1. Proofs!WellFormed(ledger)'
  <2>1. CASE UNCHANGED ledger
    BY <2>1 DEF IInv, Types
  <2>2. ASSUME NEW t \in 0..clock, NEW v \in Value \cup {Partial},
               ledger' = ledger \cup Ledger!Prepared(
                    ledger, [i \in Instants |-> IF i = t THEN v ELSE NoFact], clock)
        PROVE  Proofs!WellFormed(ledger)'
    <3> DEFINE f == [i \in Instants |-> IF i = t THEN v ELSE NoFact]
    <3>1. f \in Proofs!Payload
      BY DEF Proofs!Payload
    <3>2. clock \in Instants /\ Proofs!WellFormed(ledger)
      BY DEF IInv, Types
    <3> HIDE DEF f
    <3>3. Proofs!WellFormed(ledger \cup Proofs!Prepared(ledger, f, clock))
      BY <3>1, <3>2, Proofs!AppendWellFormed
    <3>4. Proofs!Prepared(ledger, f, clock) = Ledger!Prepared(ledger, f, clock)
      BY DEF Proofs!Prepared, Ledger!Prepared, Proofs!Changed, Ledger!Changed,
             Proofs!NextRev, Ledger!NextRev, Proofs!Latest, Ledger!Latest,
             Proofs!Rows, Ledger!Rows
    <3> QED BY <2>2, <3>3, <3>4 DEF f
  <2> QED BY <2>1, <2>2 DEF Ingest
<1>2. /\ call'[w].locked = call[w].locked /\ call'[w].read = call[w].read
      /\ call' \in [Workers -> Call] /\ pc' \in [Workers -> Labels]
      /\ \A v \in Workers \ {w} : pc'[v] = pc[v] /\ call'[v] = call[v]
    BY DEF Ingest, Goto, IInv, Types, Call, Labels
<1>3. Types' /\ UNCHANGED events
    BY <1>1, <1>2 DEF Ingest, IInv, Types
<1>4. call[w].locked = {}
    BY DEF Ingest, IInv, ReadIsCurrent
<1> QED BY <1>2, <1>3, <1>4, QuietStep

\* Steps that change neither readings nor events.
LEMMA ControlSteps ==
    ASSUME IInv, NEW w \in Workers,
           TryLock(w) \/ Load(w) \/ Unlock(w) \/ PassFails(w) \/ LoseSession(w) \/ Crash(w)
    PROVE  IInv' /\ UNCHANGED events
<1>1. UNCHANGED <<clock, ledger, events>>
    BY DEF TryLock, Load, Unlock, PassFails, LoseSession, Crash
<1>2. CASE TryLock(w)
  <2>1. /\ call' \in [Workers -> Call] /\ pc' \in [Workers -> Labels]
        /\ \A v \in Workers \ {w} : pc'[v] = pc[v] /\ call'[v] = call[v]
    BY <1>2, EmptyTyped DEF TryLock, Goto, IInv, Types, Labels
  <2>2. \/ call'[w] = call[w]
        \/ call'[w].locked = {} /\ DOMAIN call'[w].read = {}
    BY <1>2, EmptyTyped DEF TryLock, NoCall, IInv, Types
  <2>3. call[w].locked = {}
    BY <1>2 DEF TryLock, IInv, ReadIsCurrent
  <2> QED BY <1>1, <2>1, <2>2, <2>3, QuietStep DEF IInv, Types
<1>3. CASE Load(w)
  <2> DEFINE found == {c \in Component(call[w].cutoff) : Fingerprint(c) # print[w]}
  <2>1. call[w] \in Call /\ call[w].cutoff \in Instants
    BY DEF IInv, Types, Call
  <2>2. found \subseteq Evidence
    BY <2>1, FoundIsEvidence DEF IInv
  <2>3. call' = [call EXCEPT ![w].found = found]
    BY <1>3 DEF Load
  <2>4. pc' \in [Workers -> Labels] /\ \A v \in Workers \ {w} : pc'[v] = pc[v]
    BY <1>3 DEF Load, Goto, IInv, Types, Labels
  <2> HIDE DEF found
  <2>5. /\ call' \in [Workers -> Call]
        /\ call'[w].locked = call[w].locked /\ call'[w].read = call[w].read
        /\ \A v \in Workers \ {w} : call'[v] = call[v]
    BY <2>1, <2>2, <2>3 DEF IInv, Types, Call
  <2>6. call[w].locked = {}
    BY <1>3 DEF Load, IInv, ReadIsCurrent
  <2> QED BY <1>1, <2>4, <2>5, <2>6, QuietStep DEF IInv, Types
<1>4. CASE Unlock(w) \/ PassFails(w) \/ Crash(w)
  <2>1. Leave(w)
    BY <1>4 DEF Unlock, PassFails, Crash
  <2> QED BY <1>1, <2>1, LeaveLocals, QuietStep DEF IInv, Types
<1>5. CASE LoseSession(w)
    BY <1>1, <1>5 DEF LoseSession, IInv, Types, ReadIsCurrent
<1> QED BY <1>1, <1>2, <1>3, <1>4, <1>5

\* A transaction reads what it locks.
LEMMA ReadExistingStep ==
    ASSUME IInv, NEW w \in Workers, ReadExisting(w)
    PROVE  IInv' /\ UNCHANGED events
<1>1. PICK c \in call[w].found :
          /\ Existing(w, c) \cap LockedByOthers(w) = {}
          /\ call' = [call EXCEPT ![w].read = [k \in Existing(w, c) |-> events[k]],
                                  ![w].locked = Existing(w, c)]
    BY DEF ReadExisting
<1> DEFINE X == Existing(w, c)
           R == [k \in X |-> events[k]]
<1>2. /\ call[w] \in Call /\ events \in Table
      /\ pc' = [pc EXCEPT ![w] = "write"] /\ UNCHANGED <<clock, ledger, events>>
    BY DEF IInv, Types, ReadExisting, Goto
<1>3. X \subseteq DOMAIN events /\ X \subseteq Key
    BY <1>2, TableParts DEF Existing
<1>4. R \in Table /\ DOMAIN R = X /\ \A k \in X : R[k] = events[k]
  <2>1. \A k \in X : events[k] \in Event
    BY <1>2, <1>3, TableParts
  <2>2. R \in [X -> Event]
    BY <2>1
  <2>3. R \in Table
    BY <1>3, <2>2, MakeTable
  <2> QED BY <2>3
<1>5. X \cap LockedByOthers(w) = {} /\ call' = [call EXCEPT ![w].read = R, ![w].locked = X]
    BY <1>1
<1> HIDE DEF X, R
<1>6. /\ call' \in [Workers -> Call]
      /\ call'[w].read = R /\ call'[w].locked = X
      /\ \A v \in Workers \ {w} : call'[v] = call[v]
    BY <1>2, <1>3, <1>4, <1>5 DEF IInv, Types, Call
<1>7. Types'
    BY <1>2, <1>6 DEF IInv, Types, Labels
<1>8. \A v \in Workers \ {w} : X \cap call[v].locked = {}
    BY <1>5 DEF LockedByOthers
<1>9. ReadIsCurrent'
  <2>1. pc'[w] = "write" /\ \A v \in Workers \ {w} : pc'[v] = pc[v]
    BY <1>2 DEF IInv, Types
  <2>2. ASSUME NEW v \in Workers
        PROVE  /\ pc'[v] # "write" => call'[v].locked = {}
               /\ DOMAIN call'[v].read = call'[v].locked
               /\ \A k \in call'[v].locked : k \in DOMAIN events' /\ call'[v].read[k] = events'[k]
    <3>1. CASE v = w
      BY <1>2, <1>3, <1>4, <1>6, <2>1, <3>1
    <3>2. CASE v # w
      BY <1>2, <1>6, <2>1, <3>2 DEF IInv, ReadIsCurrent
    <3> QED BY <3>1, <3>2
  <2>3. ASSUME NEW v \in Workers, NEW u \in Workers, v # u
        PROVE  call'[v].locked \cap call'[u].locked = {}
    BY <1>6, <1>8, <2>3 DEF IInv, ReadIsCurrent
  <2> QED BY <2>2, <2>3 DEF ReadIsCurrent
<1> QED BY <1>2, <1>7, <1>9 DEF IInv

\* A step that ends the transaction of w, or is none, keeps the invariant if it
\* leaves the rows of the others alone.
LEMMA WriteStep ==
    ASSUME IInv, NEW w \in Workers, Types', call'[w].locked = {}, DOMAIN call'[w].read = {},
           \A v \in Workers \ {w} : pc'[v] = pc[v] /\ call'[v] = call[v],
           \A k \in LockedByOthers(w) : k \in DOMAIN events' /\ events'[k] = events[k]
    PROVE  IInv'
<1>1. ASSUME NEW v \in Workers
      PROVE  /\ pc'[v] # "write" => call'[v].locked = {}
             /\ DOMAIN call'[v].read = call'[v].locked
             /\ \A k \in call'[v].locked : k \in DOMAIN events' /\ call'[v].read[k] = events'[k]
  <2>1. CASE v = w
    BY <2>1
  <2>2. CASE v # w
    <3>1. call[v].locked \subseteq LockedByOthers(w)
      BY <2>2 DEF LockedByOthers
    <3> QED BY <2>2, <3>1 DEF IInv, ReadIsCurrent
  <2> QED BY <2>1, <2>2
<1>2. ASSUME NEW v \in Workers, NEW u \in Workers, v # u
      PROVE  call'[v].locked \cap call'[u].locked = {}
    BY <1>2 DEF IInv, ReadIsCurrent
<1> QED BY <1>1, <1>2 DEF IInv, ReadIsCurrent

\* Drafts and resolutions touch no row of another transaction, and only grow.
LEMMA ApplyStep ==
    ASSUME IInv, NEW w \in Workers, Apply(w)
    PROVE  IInv' /\ Grows(events, events')
<1>1. PICK c \in call[w].found :
          \E S \in SUBSET DOMAIN AfterDrafts(w, c) :
             S \cap LockedByOthers(w) = {} /\ events' = Resolve(AfterDrafts(w, c), S)
    BY DEF Apply
<1> DEFINE E == AfterDrafts(w, c)
<1>2. PICK S \in SUBSET DOMAIN E : S \cap LockedByOthers(w) = {} /\ events' = Resolve(E, S)
    BY <1>1
<1>3. /\ E \in Table
      /\ \A k \in DOMAIN events :
            /\ k \in DOMAIN E
            /\ E[k] = events[k] \/ (k \in call[w].locked /\ E[k] = Revised(events[k], c))
    BY AfterDraftsTable
<1> HIDE DEF E
<1>4. /\ events' \in Table /\ DOMAIN events' = DOMAIN E
      /\ \A k \in DOMAIN E :
            /\ k \notin S => events'[k] = E[k]
            /\ events'[k].last = E[k].last /\ events'[k].version = E[k].version
            /\ events'[k].checksum = E[k].checksum
    BY <1>2, <1>3, ResolveTable
<1>5. c \in Evidence /\ events \in Table /\ call[w] \in Call
    BY DEF IInv, Types, Call
<1>6. Grows(events, events')
  <2> SUFFICES ASSUME NEW k \in DOMAIN events
               PROVE  /\ k \in DOMAIN events'
                      /\ events'[k].last >= events[k].last
                      /\ events'[k].checksum # events[k].checksum =>
                            events'[k].version > events[k].version
    BY DEF Grows
  <2>1. events[k] \in Event /\ events[k].last \in Nat
    BY <1>5, TableParts
  <2>2. CASE E[k] = events[k]
    BY <1>3, <1>4, <2>1, <2>2
  <2>3. CASE E[k] = Revised(events[k], c)
    BY <1>3, <1>4, <1>5, <2>1, <2>3, RevisedEvent
  <2> QED BY <1>3, <2>2, <2>3
<1>7. ASSUME NEW k \in LockedByOthers(w) PROVE k \in DOMAIN events' /\ events'[k] = events[k]
  <2>1. PICK v \in Workers \ {w} : k \in call[v].locked
    BY <1>7 DEF LockedByOthers
  <2>2. k \in DOMAIN events /\ k \notin call[w].locked
    BY <2>1 DEF IInv, ReadIsCurrent
  <2>3. k \in DOMAIN E /\ E[k] = events[k] /\ k \notin S
    BY <1>2, <1>3, <1>7, <2>2
  <2> QED BY <1>4, <2>3
<1>8. /\ call' = [call EXCEPT ![w].found = {}, ![w].read = NoEvents, ![w].locked = {}]
      /\ pc' = [pc EXCEPT ![w] = "expire"] /\ UNCHANGED <<clock, ledger>>
    BY DEF Apply, Goto
<1>9. /\ call' \in [Workers -> Call]
      /\ call'[w].locked = {} /\ call'[w].read = NoEvents
      /\ \A v \in Workers \ {w} : call'[v] = call[v]
    BY <1>5, <1>8, EmptyTyped DEF IInv, Types, Call
<1>10. pc' \in [Workers -> Labels] /\ \A v \in Workers \ {w} : pc'[v] = pc[v]
    BY <1>8 DEF IInv, Types, Labels
<1>11. Types'
    BY <1>4, <1>8, <1>9, <1>10 DEF IInv, Types
<1> QED BY <1>6, <1>7, <1>9, <1>10, <1>11, EmptyTyped, WriteStep

\* Expiry touches no row of another transaction, and changes statuses only.
LEMMA ExpireStep ==
    ASSUME IInv, NEW w \in Workers, Expire(w)
    PROVE  IInv' /\ Grows(events, events')
<1>1. PICK S \in SUBSET DOMAIN events :
          S \cap LockedByOthers(w) = {} /\ events' = Resolve(events, S)
    BY DEF Expire
<1>2. events \in Table /\ \A k \in DOMAIN events : events[k].last \in Nat
    BY TableParts DEF IInv, Types
<1>3. /\ events' \in Table /\ DOMAIN events' = DOMAIN events
      /\ \A k \in DOMAIN events :
            /\ k \notin S => events'[k] = events[k]
            /\ events'[k].last = events[k].last /\ events'[k].version = events[k].version
            /\ events'[k].checksum = events[k].checksum
    BY <1>1, <1>2, ResolveTable
<1>4. Grows(events, events')
    BY <1>2, <1>3 DEF Grows
<1>5. ASSUME NEW k \in LockedByOthers(w) PROVE k \in DOMAIN events' /\ events'[k] = events[k]
  <2>1. PICK v \in Workers \ {w} : k \in call[v].locked
    BY <1>5 DEF LockedByOthers
  <2>2. k \in DOMAIN events
    BY <2>1 DEF IInv, ReadIsCurrent
  <2> QED BY <1>1, <1>3, <1>5, <2>2
<1>6. /\ pc' \in [Workers -> Labels] /\ UNCHANGED <<clock, ledger, call>>
      /\ \A v \in Workers \ {w} : pc'[v] = pc[v]
    BY DEF Expire, Goto, IInv, Types, Labels
<1>7. Types'
    BY <1>3, <1>6 DEF IInv, Types
<1>8. call'[w].locked = {} /\ DOMAIN call'[w].read = {}
    BY <1>6 DEF Expire, IInv, ReadIsCurrent
<1> QED BY <1>4, <1>5, <1>6, <1>7, <1>8, WriteStep

\* Every step keeps the invariant, and the table only grows.
LEMMA EveryStep ==
    ASSUME IInv, [Next]_vars
    PROVE  IInv' /\ (events' # events => Grows(events, events'))
<1>1. CASE UNCHANGED vars
    BY <1>1 DEF vars, IInv, Types, ReadIsCurrent
<1>2. CASE ClockTick
  <2>1. clock' \in Instants /\ UNCHANGED <<ledger, events, pc, call>>
    BY <1>2 DEF ClockTick, IInv, Types, Instants
  <2> QED BY <2>1 DEF IInv, Types, ReadIsCurrent
<1>3. ASSUME NEW w \in Workers, Ingest(w) PROVE IInv' /\ UNCHANGED events
    BY <1>3, IngestStep DEF Ingest
<1> QED BY <1>1, <1>2, <1>3, ControlSteps, ReadExistingStep, ApplyStep, ExpireStep
       DEF Next, Step

\* The invariant holds at the start.
LEMMA Start == Init => IInv
<1> SUFFICES ASSUME Init PROVE IInv
    OBVIOUS
<1>1. Proofs!WellFormed(ledger)
    BY Proofs!EmptyWellFormed DEF Init
<1>2. clock \in Instants
    BY DEF Init, Instants
<1>3. Types
    BY <1>1, <1>2, EmptyTyped DEF Init, Types, Labels
<1>4. ReadIsCurrent
    BY EmptyTyped DEF Init, ReadIsCurrent, NoCall
<1> QED BY <1>3, <1>4 DEF IInv

-----------------------------------------------------------------------------
(* One replica *)

\* The instant up to which the replica w has looked, or will when its next job ends.
Looked(w) == IF pc[w] = "idle" THEN clock ELSE call[w].cutoff

\* A reading that a load at the cutoff x sees.
Visible(r, x) == r.id <= x /\ r.seen <= x

\* Every event rests on a reading the replica could see; what it found is the newest it
\* could see; no rule has two open events.
Backed(w) ==
    \A k \in DOMAIN events : \E r \in ledger : r.id = events[k].last /\ Visible(r, Looked(w))
FoundNewest(w) ==
    /\ call[w].cutoff <= clock
    /\ pc[w] = "idle" => call[w].found = {}
    /\ \A c \in call[w].found :
          /\ c \in ledger /\ Visible(c, call[w].cutoff)
          /\ \A r \in ledger : Visible(r, call[w].cutoff) => r.id <= c.id
OneOpen ==
    \A k, j \in DOMAIN events :
        Open(events, k) /\ Open(events, j) /\ k.rule = j.rule /\ k.rule \in Stateful => k = j
Alone(w) == DOMAIN print = Workers /\ Backed(w) /\ FoundNewest(w) /\ OneOpen /\ NoStaleOpening

\* A stored reading is at instants.
LEMMA LedgerTyped ==
    ASSUME Types
    PROVE  \A r \in ledger : r.id \in Nat /\ r.seen \in Nat
BY DEF Types, Proofs!WellFormed, Proofs!Row, Instants

\* A batch of one is that one, whatever the limit.
LEMMA BatchOfOne ==
    ASSUME NEW E, NEW j, NEW S, Batch(E, S, {j})
    PROVE  j \in S
<1>1. Cardinality({j}) = 1 /\ Cardinality({}) = 0
    BY FS_Singleton, FS_EmptySet
<1>2. Cardinality(S) # 0
    BY <1>1 DEF Batch
<1> QED BY <1>1, <1>2 DEF Batch

\* What drafts do to a table: an event keeps its evidence or has the draft's, and only a
\* draft's event changes.
LEMMA AfterDraftsLast ==
    ASSUME IInv, NEW w \in Workers, NEW c \in call[w].found
    PROVE  LET E == AfterDrafts(w, c)
           IN  /\ DOMAIN E = DOMAIN events \cup Drafts(c)
               /\ \A k \in DOMAIN E :
                     /\ k \notin Drafts(c) => k \in DOMAIN events /\ E[k] = events[k]
                     /\ \/ E[k].last = c.id
                        \/ k \in DOMAIN events /\ E[k].last = events[k].last
<1> DEFINE E == AfterDrafts(w, c)
<1>1. /\ DOMAIN E = DOMAIN events \cup Drafts(c)
      /\ \A k \in DOMAIN events \cup Drafts(c) :
            E[k] = IF k \notin Drafts(c) THEN events[k]
                   ELSE IF k \in DOMAIN call[w].read THEN Revised(call[w].read[k], c)
                   ELSE IF k \in DOMAIN events THEN events[k]
                   ELSE New(c)
    BY DEF AfterDrafts
<1>2. \A k \in DOMAIN call[w].read : k \in DOMAIN events /\ call[w].read[k] = events[k]
    BY DEF IInv, ReadIsCurrent
<1>3. \A x : Revised(x, c).last \in {x.last, c.id} /\ New(c).last = c.id
    BY DEF Revised, New
<1> HIDE DEF E
<1>4. ASSUME NEW k \in DOMAIN E
      PROVE  /\ k \notin Drafts(c) => k \in DOMAIN events /\ E[k] = events[k]
             /\ \/ E[k].last = c.id
                \/ k \in DOMAIN events /\ E[k].last = events[k].last
    BY <1>1, <1>2, <1>3, <1>4
<1> QED BY <1>1, <1>4 DEF E

\* The only replica writes.
LEMMA AloneApply ==
    ASSUME NEW w, Workers = {w}, IInv, Alone(w), Apply(w)
    PROVE  Alone(w)'
<1>1. PICK c \in call[w].found :
          /\ \E S \in SUBSET DOMAIN AfterDrafts(w, c) :
                /\ \A r \in Rule : Batch(AfterDrafts(w, c), {k \in S : k.rule = r},
                                         Absent(AfterDrafts(w, c), r, c))
                /\ events' = Resolve(AfterDrafts(w, c), S)
          /\ print' = [print EXCEPT ![w] = Fingerprint(c)]
    BY DEF Apply
<1> DEFINE E == AfterDrafts(w, c)
<1>2. PICK S \in SUBSET DOMAIN E :
          /\ \A r \in Rule : Batch(E, {k \in S : k.rule = r}, Absent(E, r, c))
          /\ events' = Resolve(E, S)
    BY <1>1
<1>3. w \in Workers
    OBVIOUS
<1>4. E \in Table
    BY <1>3, AfterDraftsTable
<1>5. /\ DOMAIN E = DOMAIN events \cup Drafts(c)
      /\ \A k \in DOMAIN E :
            /\ k \notin Drafts(c) => k \in DOMAIN events /\ E[k] = events[k]
            /\ \/ E[k].last = c.id
               \/ k \in DOMAIN events /\ E[k].last = events[k].last
    BY <1>3, AfterDraftsLast
<1> HIDE DEF E
<1>6. /\ DOMAIN events' = DOMAIN E
      /\ \A k \in DOMAIN E :
            /\ k \in S => events'[k].status = "resolved"
            /\ k \notin S => events'[k] = E[k]
            /\ events'[k].last = E[k].last
    BY <1>2, <1>4, ResolveTable DEF Resolve
<1>7. /\ c \in ledger /\ Visible(c, call[w].cutoff) /\ c.id \in Nat
      /\ \A r \in ledger : Visible(r, call[w].cutoff) => r.id <= c.id
      /\ call[w].cutoff <= clock
    BY LedgerTyped DEF Alone, FoundNewest, IInv
<1>8. pc[w] = "write" /\ Looked(w) = call[w].cutoff
    BY DEF Apply, Looked
<1>9. /\ pc'[w] = "expire" /\ call'[w].cutoff = call[w].cutoff /\ call'[w].found = {}
      /\ Looked(w)' = call[w].cutoff /\ UNCHANGED <<ledger, clock>>
  <2>1. /\ call' = [call EXCEPT ![w].found = {}, ![w].read = NoEvents, ![w].locked = {}]
        /\ pc' = [pc EXCEPT ![w] = "expire"] /\ UNCHANGED <<ledger, clock>>
    BY DEF Apply, Goto
  <2>2. call \in [Workers -> Call] /\ pc \in [Workers -> Labels] /\ call[w] \in Call
    BY <1>3 DEF IInv, Types
  <2>3. pc'[w] = "expire" /\ call'[w].cutoff = call[w].cutoff /\ call'[w].found = {}
    BY <1>3, <2>1, <2>2 DEF Call
  <2> QED BY <2>1, <2>3 DEF Looked
<1>10. \A k \in DOMAIN events : \E r \in ledger : r.id = events[k].last /\ Visible(r, call[w].cutoff)
    BY <1>8 DEF Alone, Backed
<1>11. \A k \in DOMAIN E : /\ \E r \in ledger : r.id = E[k].last /\ Visible(r, call[w].cutoff)
                           /\ E[k].last <= c.id
    BY <1>5, <1>7, <1>10
<1>12. Backed(w)'
    BY <1>6, <1>9, <1>11 DEF Backed, Visible
<1>13. FoundNewest(w)'
    BY <1>7, <1>9 DEF FoundNewest
\* An open event of a stateful rule without a draft is resolved: it is the only one.
<1>14. ASSUME NEW k \in DOMAIN E, k.rule \in Stateful, Open(E, k), k \notin Drafts(c)
       PROVE  k \in S
  <2>1. k.rule \in Rule /\ k.rule \notin Momentary
    BY <1>14, ObservedEventsAssumption DEF Rule
  <2>2. k \in Absent(E, k.rule, c)
    BY <1>11, <1>14, <2>1 DEF Absent
  <2>3. ASSUME NEW j \in Absent(E, k.rule, c) PROVE j = k
    <3>1. j \in DOMAIN E \ Drafts(c) /\ j.rule = k.rule /\ Open(E, j)
      BY <2>3 DEF Absent
    <3>2. /\ j \in DOMAIN events /\ E[j] = events[j]
          /\ k \in DOMAIN events /\ E[k] = events[k]
      BY <1>5, <1>14, <3>1
    <3>3. Open(events, j) /\ Open(events, k)
      BY <1>14, <3>1, <3>2 DEF Open
    <3> QED BY <1>14, <3>1, <3>2, <3>3 DEF Alone, OneOpen
  <2>4. Absent(E, k.rule, c) = {k}
    BY <2>2, <2>3
  <2>5. Batch(E, {j \in S : j.rule = k.rule}, {k})
    BY <1>2, <2>1, <2>4
  <2> QED BY <2>5, BatchOfOne
<1>15. ASSUME NEW k \in DOMAIN events', Open(events', k), k.rule \in Stateful
       PROVE  k \in Drafts(c)
  <2>1. k \in DOMAIN E /\ k \notin S /\ events'[k] = E[k]
    BY <1>6, <1>15 DEF Open
  <2>2. Open(E, k)
    BY <1>15, <2>1 DEF Open
  <2> QED BY <1>14, <1>15, <2>1, <2>2
<1>16. \A k \in Drafts(c) : k.rule \in Active[c.fact] /\ k = KeyOf(k.rule, c.id)
    BY DEF Drafts, KeyOf
<1>17. OneOpen'
  <2> SUFFICES ASSUME NEW k \in DOMAIN events', NEW j \in DOMAIN events',
                      Open(events', k), Open(events', j), k.rule = j.rule, k.rule \in Stateful
               PROVE  k = j
    BY DEF OneOpen, Open
  <2> QED BY <1>15, <1>16
<1>18. NoStaleOpening'
  <2> SUFFICES ASSUME NEW k \in DOMAIN events', NEW v \in Workers,
                      Open(events', k), k.rule \in Stateful,
                      print'[v].value \in Value, k.rule \notin Active[print'[v].value]
               PROVE  FALSE
    BY DEF NoStaleOpening, Open
  <2>1. v = w
    OBVIOUS
  <2>2. print'[w].value = c.fact
    BY <1>1, <1>3 DEF Fingerprint, Alone
  <2> QED BY <1>15, <1>16, <2>1, <2>2
<1>19. DOMAIN print' = Workers
    BY <1>1 DEF Alone
<1> QED BY <1>12, <1>13, <1>17, <1>18, <1>19 DEF Alone

\* Steps that change neither readings, events nor fingerprints, but for what a crash
\* forgets, and after which the replica has looked as far as before or further.
LEMMA AloneQuiet ==
    ASSUME NEW w, Workers = {w}, IInv, Alone(w), UNCHANGED <<ledger, events>>,
           FoundNewest(w)', Looked(w) <= Looked(w)', Looked(w) \in Nat, Looked(w)' \in Nat,
           UNCHANGED print \/ print' = [print EXCEPT ![w] = NoPrint]
    PROVE  Alone(w)'
<1>1. DOMAIN print' = Workers
    BY DEF Alone
<1>2. \A r \in ledger : r.id \in Nat /\ r.seen \in Nat
    BY LedgerTyped DEF IInv
<1>3. Backed(w)'
    BY <1>2 DEF Alone, Backed, Visible
<1>4. OneOpen'
    BY DEF Alone, OneOpen, Open
<1>5. NoStaleOpening'
  <2>1. CASE UNCHANGED print
    BY <2>1 DEF Alone, NoStaleOpening, Open
  <2>2. CASE print' = [print EXCEPT ![w] = NoPrint]
    <3>1. \A v \in Workers : print'[v].value = NoFact
      BY <2>2 DEF Alone, NoPrint
    <3> QED BY <3>1, ObservedEventsAssumption DEF NoStaleOpening
  <2> QED BY <2>1, <2>2
<1> QED BY <1>1, <1>3, <1>4, <1>5 DEF Alone

\* A job of the only replica ends, and may have stored a reading.
LEMMA AloneIngest ==
    ASSUME NEW w, Workers = {w}, IInv, Alone(w), Ingest(w)
    PROVE  Alone(w)'
<1>1. w \in Workers /\ clock \in Nat /\ ledger \subseteq ledger' /\ UNCHANGED <<clock, events, print>>
  <2>1. ledger' = ledger \/ \E P : ledger' = ledger \cup P
    BY Zenon DEF Ingest
  <2> QED BY <2>1 DEF Ingest, IInv, Types, Instants
<1>2. /\ pc[w] = "idle" /\ pc'[w] = "succeeded"
      /\ call'[w].cutoff = clock /\ call'[w].found = call[w].found
    BY <1>1 DEF Ingest, Goto, IInv, Types, Call
<1>3. Looked(w) = clock /\ Looked(w)' = clock /\ call[w].found = {}
    BY <1>2 DEF Looked, Alone, FoundNewest
<1>4. Backed(w)'
    BY <1>1, <1>3 DEF Alone, Backed, Visible
<1>5. FoundNewest(w)'
    BY <1>1, <1>2, <1>3 DEF FoundNewest
<1> QED BY <1>1, <1>4, <1>5 DEF Alone, OneOpen, NoStaleOpening, Open

\* The only replica leaves the lock.
LEMMA AloneLeave ==
    ASSUME NEW w, Workers = {w}, IInv, Alone(w), Leave(w), UNCHANGED <<clock, ledger, events>>,
           UNCHANGED print \/ print' = [print EXCEPT ![w] = NoPrint]
    PROVE  Alone(w)'
<1>1. w \in Workers /\ clock \in Nat /\ call[w].cutoff \in Nat
    BY DEF IInv, Types, Call, Instants
<1>2. pc'[w] = "idle" /\ call'[w].cutoff = 0 /\ call'[w].found = {}
    BY <1>1 DEF Leave, Goto, NoCall, IInv, Types
<1>3. FoundNewest(w)'
    BY <1>1, <1>2 DEF FoundNewest
<1>4. Looked(w)' = clock /\ Looked(w) \in {clock, call[w].cutoff} /\ call[w].cutoff <= clock
    BY <1>2 DEF Looked, Alone, FoundNewest
<1> QED BY <1>1, <1>3, <1>4, AloneQuiet

\* Steps inside a pass of the only replica that write nothing.
LEMMA AlonePass ==
    ASSUME NEW w, Workers = {w}, IInv, Alone(w), TryLock(w) \/ Load(w) \/ ReadExisting(w) \/ LoseSession(w)
    PROVE  Alone(w)'
<1>1. w \in Workers /\ clock \in Nat /\ call[w].cutoff \in Nat
    BY DEF IInv, Types, Call, Instants
<1>2. UNCHANGED <<clock, ledger, events, print>>
    BY DEF TryLock, Load, ReadExisting, LoseSession
<1>3. call[w].cutoff <= clock
    BY DEF Alone, FoundNewest
<1>4. CASE TryLock(w)
  <2>1. \/ pc'[w] = "load" /\ call'[w] = call[w]
        \/ pc'[w] = "idle" /\ call'[w] = NoCall
    BY <1>1, <1>4 DEF TryLock, Goto, IInv, Types
  <2>2. pc[w] = "succeeded"
    BY <1>4 DEF TryLock
  <2>3. Looked(w) = call[w].cutoff /\ Looked(w)' \in {clock, call[w].cutoff}
    BY <1>2, <2>1, <2>2 DEF Looked
  <2>4. FoundNewest(w)'
    BY <1>1, <1>2, <2>1 DEF Alone, FoundNewest, NoCall
  <2> QED BY <1>1, <1>2, <1>3, <2>3, <2>4, AloneQuiet
<1>5. CASE Load(w)
  <2>1. /\ pc[w] = "load" /\ pc'[w] \in {"expire", "apply"} /\ call'[w].cutoff = call[w].cutoff
        /\ call'[w].found \subseteq Component(call[w].cutoff)
    BY <1>1, <1>5 DEF Load, Goto, IInv, Types, Call
  <2>2. Looked(w) = call[w].cutoff /\ Looked(w)' = call[w].cutoff
    BY <2>1 DEF Looked
  <2>3. ASSUME NEW c \in Component(call[w].cutoff)
        PROVE  /\ c \in ledger /\ Visible(c, call[w].cutoff)
               /\ \A r \in ledger : Visible(r, call[w].cutoff) => r.id <= c.id
    <3>1. \A r \in ledger : r.id \in Nat
      BY LedgerTyped DEF IInv
    <3> QED BY <3>1 DEF Component, Visible
  <2>4. FoundNewest(w)'
    BY <1>2, <1>3, <2>1, <2>3 DEF FoundNewest
  <2> QED BY <1>1, <1>2, <2>2, <2>4, AloneQuiet
<1>6. CASE ReadExisting(w)
  <2>1. /\ pc[w] = "apply" /\ pc'[w] = "write" /\ call'[w].cutoff = call[w].cutoff
        /\ call'[w].found = call[w].found
    <3>1. \E R, L : call' = [call EXCEPT ![w].read = R, ![w].locked = L]
      BY <1>6, Zenon DEF ReadExisting
    <3>2. call'[w].cutoff = call[w].cutoff /\ call'[w].found = call[w].found
      BY <1>1, <3>1 DEF IInv, Types, Call
    <3>3. pc[w] = "apply" /\ pc'[w] = "write"
      BY <1>1, <1>6 DEF ReadExisting, Goto, IInv, Types
    <3> QED BY <3>2, <3>3
  <2>2. Looked(w) = call[w].cutoff /\ Looked(w)' = call[w].cutoff
    BY <2>1 DEF Looked
  <2>3. FoundNewest(w)'
    BY <1>2, <2>1 DEF Alone, FoundNewest
  <2> QED BY <1>1, <1>2, <2>2, <2>3, AloneQuiet
<1>7. CASE LoseSession(w)
  <2>1. UNCHANGED <<pc, call>>
    BY <1>7 DEF LoseSession
  <2>2. Looked(w)' = Looked(w) /\ Looked(w) \in {clock, call[w].cutoff} /\ FoundNewest(w)'
    BY <1>2, <2>1 DEF Looked, Alone, FoundNewest
  <2> QED BY <1>1, <1>2, <2>2, AloneQuiet
<1> QED BY <1>4, <1>5, <1>6, <1>7

\* Expiry only resolves.
LEMMA AloneExpire ==
    ASSUME NEW w, Workers = {w}, IInv, Alone(w), Expire(w)
    PROVE  Alone(w)'
<1>1. PICK S \in SUBSET DOMAIN events : events' = Resolve(events, S)
    BY DEF Expire
<1>2. /\ DOMAIN events' = DOMAIN events
      /\ \A k \in DOMAIN events : /\ events'[k].last = events[k].last
                                  /\ k \in S => events'[k].status = "resolved"
                                  /\ k \notin S => events'[k] = events[k]
    BY <1>1, ResolveTable DEF IInv, Types, Resolve
<1>3. \A k \in DOMAIN events' : Open(events', k) => Open(events, k)
    BY <1>2 DEF Open
<1>4. /\ UNCHANGED <<clock, ledger, call, print>>
      /\ pc[w] = "expire" /\ pc'[w] = "unlock"
    BY DEF Expire, Goto, IInv, Types
<1>5. Looked(w)' = Looked(w)
    BY <1>4 DEF Looked
<1>6. Backed(w)'
    BY <1>2, <1>4, <1>5 DEF Alone, Backed, Visible
<1>7. FoundNewest(w)'
    BY <1>4 DEF Alone, FoundNewest
<1>8. OneOpen'
    BY <1>2, <1>3 DEF Alone, OneOpen
<1>9. NoStaleOpening'
    BY <1>2, <1>3, <1>4 DEF Alone, NoStaleOpening
<1> QED BY <1>4, <1>6, <1>7, <1>8, <1>9 DEF Alone

\* Every step of a system with one replica.
LEMMA AloneStep ==
    ASSUME NEW w, Workers = {w}, IInv, Alone(w), [Next]_vars
    PROVE  Alone(w)'
<1>1. CASE UNCHANGED vars
    BY <1>1 DEF vars, Alone, Backed, FoundNewest, OneOpen, NoStaleOpening, Open, Looked, Visible
<1>2. CASE ClockTick
  <2>1. clock \in Nat /\ clock' = clock + 1 /\ call[w].cutoff \in Nat
    BY <1>2 DEF ClockTick, IInv, Types, Instants, Call
  <2>2. UNCHANGED <<ledger, events, pc, call, print>>
    BY <1>2 DEF ClockTick
  <2>3. FoundNewest(w)'
    BY <2>1, <2>2 DEF Alone, FoundNewest
  <2>4. Looked(w) <= Looked(w)' /\ Looked(w) \in Nat /\ Looked(w)' \in Nat
    BY <2>1, <2>2 DEF Looked
  <2> QED BY <2>2, <2>3, <2>4, AloneQuiet
<1>3. CASE Unlock(w) \/ PassFails(w) \/ Crash(w)
    BY <1>3, AloneLeave DEF Unlock, PassFails, Crash
<1> QED BY <1>1, <1>2, <1>3, AloneIngest, AlonePass, AloneApply, AloneExpire DEF Next, Step

-----------------------------------------------------------------------------
(* Results *)

\* An event never goes back to older evidence, however many replicas apply
\* their drafts at once and whichever of them has lost the maintenance lock.
THEOREM NeverRegresses == Spec => EvidenceNeverRegresses
<1> DEFINE Goes == \A k \in DOMAIN events : k \in DOMAIN events' /\ events'[k].last >= events[k].last
<1>1. IInv /\ [Next]_vars => IInv' /\ [Goes]_vars
  <2> SUFFICES ASSUME IInv, [Next]_vars PROVE IInv' /\ [Goes]_vars
    OBVIOUS
  <2>1. IInv' /\ (events' # events => Grows(events, events'))
    BY EveryStep
  <2>2. CASE events' = events
    <3>1. \A k \in DOMAIN events : events[k].last \in Nat
      BY TableParts DEF IInv, Types
    <3> QED BY <2>1, <2>2, <3>1
  <2>3. CASE events' # events
    BY <2>1, <2>3 DEF Grows
  <2> QED BY <2>2, <2>3, <2>1
<1> QED BY <1>1, Start, PTL DEF Spec, EvidenceNeverRegresses

\* A version names one piece of evidence: whenever the evidence of an event
\* changes its version grows, with any number of concurrent passes.
THEOREM VersionsNameEvidence == Spec => VersionNamesEvidence
<1> DEFINE Names == \A k \in DOMAIN events : events'[k].checksum # events[k].checksum =>
                        events'[k].version > events[k].version
<1>1. IInv /\ [Next]_vars => IInv' /\ [Names]_vars
    BY EveryStep DEF Grows
<1> QED BY <1>1, Start, PTL DEF Spec, VersionNamesEvidence
\* NoStaleOpening: with one replica, no event of a stateful rule stays open on evidence
\* older than evidence that replica has evaluated and that does not satisfy the rule,
\* whatever fails: its passes look further each time, and the only open event of a rule
\* fits into any batch (persistence/observed_events.py:227).
THEOREM OneReplicaNeverStale ==
    ASSUME NEW w, Workers = {w}
    PROVE  Spec => []NoStaleOpening
<1>1. Init => IInv /\ Alone(w)
  <2> SUFFICES ASSUME Init PROVE IInv /\ Alone(w)
    OBVIOUS
  <2>1. /\ DOMAIN events = {} /\ DOMAIN print = Workers /\ clock = 0
        /\ w \in Workers /\ call[w].found = {} /\ call[w].cutoff = 0
    BY EmptyTyped DEF Init, NoCall
  <2> QED BY <2>1, Start DEF Alone, Backed, FoundNewest, OneOpen, NoStaleOpening
<1>2. IInv /\ Alone(w) /\ [Next]_vars => IInv' /\ Alone(w)'
    BY EveryStep, AloneStep
<1>3. Alone(w) => NoStaleOpening
    BY DEF Alone
<1> QED BY <1>1, <1>2, <1>3, PTL DEF Spec
=============================================================================
