# 50Hz: specifications, model checking and proofs

This directory holds the TLA+ specifications of the 50Hz backend and of the
stateful parts of its iOS app, the TLC configurations that check them on small
instances and the TLAPS proofs about them. Paths below are relative to `src/`,
the root of the repository.

    tlc -workers 2 -config MCIngestion_replicas.cfg MCIngestion
    tlapm IngestionProofs.tla

`PROJECT.json` is the index: the components, the runs, for every property a
plausible slip of the code that breaks it (an operator with the comment *Slip*
before the definition it would replace), the source lines of each definition,
the hazards, the findings and the theorems.

## 1. The system

50Hz collects public data about the British electricity grid, keeps every
revision of it, derives events from it and serves it to an iOS app. The parts
that run are worker replicas (`app/worker`), one-shot operator jobs
(`app/history`, `app/forecast_verification`), API replicas (`app/main.py`) and
the app (`ios`). They share one PostgreSQL database and nothing else.

| Component | State it keeps | Operations | What is hard |
|---|---|---|---|
| Ingestion worker (`worker/scheduler.py`) | nothing between ticks | poll, reconcile, record failure | replicas interleave at every await; checkpoint read before the lock |
| Repository (`persistence/ingestion.py`) | `ingestion_runs`, evidence tables, `source_metadata`, raw payloads | checkpoint, persist_success, record_failure | concurrent revision allocation; several transactions per job |
| Advisory locks (`persistence/locks.py`) | one lock per source, owned by a database session | try, unlock | session lost while the owner works |
| History backfill (`history/backfill.py`) | checkpoints in `ingestion_runs` | run, run a chunk | beside live workers on the same source |
| Source adapters and client (`sources/`, `assets/adapters.py`, `geography/`) | the last register of sites | request, retry, parse, validate | partly readable answers; batches while the source changes; answers that stand for all there is |
| Observed events (`worker/observed_events.py`, `persistence/observed_events.py`, `events/observed.py`) | `detected_events`, fingerprints in memory | load, evaluate, apply, expire | passes overtake each other; corrections; restarts |
| Notice lifecycle (`persistence/event_lifecycle.py`, `events/revisions.py`) | `event_lifecycle_revisions`, deltas | materialize a window, read a history | late, repeated, amended, reordered publications |
| Materialization (`history/materialization_job.py`), forecast verification (`forecast_verification/`) | runs, derived rows, results | run, run a chunk, read | a global and several source locks; forced repetition; corrected inputs |
| Present tables (`persistence/ingestion.py` from line 1134, `outages/`) | incidents, assets, notifications | replace a snapshot, prune, list | a snapshot read page by page; lists and counts read apart |
| Retention (`worker/retention.py`, `persistence/retention.py`) | raw payloads | delete a batch | bounded batches, rows locked by an ingestion |
| Grid, timeline, notice, asset reads (`persistence/reads.py`, `api/`, `assets/service.py`) | a catalogue cache | answer a request | statements with a snapshot each; newest of several revisions; the bucket of the present |
| Explanations and questions (`intelligence/`) | cache by evidence key, daily budget | explain, ask | the event moves on during the model call; one budget for all |
| Rate limits (`rate_limit.py`) | deques of a client and of all | claim | sweeps, discards, refused requests |
| Charging planner (`api/local_windows.py`, `charging/`), prediction game (`game/`, `persistence/game.py`) | results of predictions | plan, resolve | gaps and stale vintages; concurrent resolutions of corrected readings |
| iOS app (`ios/50Hz/App`, `Core/Data`) | view state, disk cache | refresh, load, cancel | answers out of order; two-file cache entries |
| iOS reminders (`ios/50Hz/Features/Mine`, `Features/Today`) | a pending notification and its stored metadata | schedule, cancel, reconcile | the permission sheet stays open; an app ended between two writes |
| Event relevance, metrics registry, domain | none | compute | display only |

How they interact. A worker tick executes its jobs one after another. A job
reads its checkpoint, plans a window, tries the advisory lock of its source,
fetches, and stores evidence and run row in one transaction. That transaction
also extends the notice lifecycles and rewrites the present tables. After the
lock is released, post-ingestion actions run; observed events is one, with a
lock of its own. A backfill runs the same protocol, under the same source lock,
over a list of historical windows. Readers only see committed rows, each
statement its own snapshot of them. The app sees what the API answered, from
memory or from disk.

What makes the parts correct:

- evidence is never lost or rewritten, revisions are numbered without holes and
  each differs from the one before it (ledger);
- what a checkpoint says was stored is stored, live windows leave no unintended
  gap, later revisions are later evidence, and collection survives any failure
  (ingestion);
- every usable row of an answer becomes a fact of the right table, and an answer
  retires or prunes nothing unless it was understood whole (feeds);
- an event does not go back to older evidence, a version names one piece of
  evidence, and every event ends (observed events);
- a lifecycle is always one that its reader accepts, and an end is not missed
  (notice lifecycle);
- inputs of a derivation belong together, what is derived later is derived from
  later evidence, and a result stands for its window (derived jobs, scores);
- the present tables say what the newest deliveries say, and expired raw
  documents go although each cleanup is bounded (present tables, retention);
- an answer shows nothing superseded, labelled with what it is about, whatever
  is delivered between its statements (reads, explanations, game, planner);
- what the app shows answers what was asked last, and nothing stays loading
  (app, reminders).

## 2. Modules

| Module | Models | Checked in |
|---|---|---|
| `RevisionLedger` | the immutable revision table, as an abstract machine | `MCStores`; implemented by `Ingestion`; read by `ObservedEvents` |
| `WindowPlanner` | `PollSchedule` and `WindowPlanner` | extended by `Ingestion` |
| `Ingestion` | workers, backfill operators, locks, runs, ledger | `MCIngestion` |
| `SourceClient` | one request of the HTTP client: attempts, waits, refusals | extended by the two feeds |
| `SourceFeeds` | 13 feeds of observations, forecasts, notices and incidents, from request to row | `MCFeeds` in `MCStores` |
| `SnapshotFeeds` | units, notifications, settled energy and the register of sites | `MCFeeds` in `MCStores` |
| `ObservedEvents` | the observed-event action on several replicas | `MCObservedEvents` |
| `EventLifecycle` | notice lifecycles and their history endpoint | `MCStores` |
| `CurrentTables` | incidents, assets, notifications, and the outage endpoint | `MCStores`, `MCCurrentTables` |
| `Retention` | raw documents and their cleanup | `MCStores` |
| `DerivedJobs` | materialization and verification jobs beside ingestion | `MCDerivedJobs` |
| `ForecastScores` | what a verification computes, stores and serves | `MCReads` in `MCSurface` |
| `HistoryContent` | what a materialization computes and stores, and the comparison with it that the API makes | `MCReads` in `MCSurface` |
| `NoticeReads`, `GridReads`, `Timeline`, `AssetMap` | read models of the API | `MCReads` in `MCSurface` |
| `RateLimit`, `Explanations`, `PredictionGame`, `LocalPlans` | API services with state or a choice | `MCSurface` |
| `AppClient`, `Reminders` | the iOS client | `MCSurface` |
| `RevisionLedgerProofs`, `IngestionProofs` | theorems about the ledger, and about ingestion, its windows and its order | |
| `ObservedProofs`, `DerivedProofs` | theorems about observed events and derived jobs | |
| `StoresProofs` | theorems about present tables, notice lifecycles and feeds | |
| `ReadsProofs`, `SurfaceProofs` | theorems about the reads; about limits, explanations, the game, the planner and the app | |
| `Induction` | lemmas about numbers, finite sets, sums and sequences | |
| `MC...` | constants and compositions for TLC | |

**RevisionLedger.** `ledger` is the set of rows of one evidence table.
`AppendRevisions` is the part of `persist_success` that deduplicates, loads the latest revisions,
allocates and inserts. A fact is what `_factual_signature` compares; `seen` is
the delivery metadata it ignores. This is the abstract specification for
everything that stores evidence: a transaction appends
`Prepared(ledger, payload, delivery)` or nothing.

**Ingestion.** `runs` is table `ingestion_runs`, keyed by idempotency key
(`SameKey`, `Upsert`); `ledger` one immutable observation table of the source;
`rowLock` the transaction that has locked the `source_metadata` row; `lock` and
`session` the owner of `50hz:ingest:<source>` and whether its connection lives;
`pc`, `job`, `call` position and locals of each process; `upstream`, `clock`,
`faults` the source, real time and the failures so far. There is one action for
each stretch of code between two awaits that another process can observe:
`BeginTick`, `SelectPoll` or `SelectChunk`, `AcquireLock` or `SkipLocked`,
`Fetch`, `BeginTransaction`, `Commit`, `RecordFailure`, `Release`, `Unwind`. The
checkpoint is read in `SelectPoll`, before the lock, as in `run_once`.
`BeginTransaction` is the first statement of the transaction (the upsert that
locks `source_metadata`) up to the allocation of revisions; `Commit` is the
insert and the commit, with the rollback on `ImmutableRevisionConflictError`.
The checkpoint read, the fetch, a statement of the transaction and
`record_failure` may fail, the lock session may be lost without its owner
noticing, a process may crash anywhere. One source and one evidence table are
modelled: sources share no row and no lock.

**SourceClient, SourceFeeds, SnapshotFeeds.** What `Ingestion` calls a fetch. A
feed asks one request after another (`call`), each with its attempts, its
backoff, the delay a busy source asks for, and the failures that are repeated or
final. `SourceFeeds` has an operator for each adapter that says which facts a
row becomes (`Generation`, `Flow`, ..., `Incident`), joins the adapter's
validation with the mapping of `persistence/records.py`, and follows a fetch to
the constraints of the table (`Storable`). Numbers are small integers or one of
`None` (absent) and `Odd` (unreadable); texts are `"none"`, `"blank"` or a name.
The source serves another set of messages between the listing of REMIT and its
details. `SnapshotFeeds` is about answers that retire or prune what they do not
hold, with the rows a conflict makes one, the register's choice of a file and of
a row per id, and the copy of the register in the memory of the process.

**ObservedEvents.** One evidence component. A *reading* is the coherent snapshot
at one instant together with what the rules compare it with; `Partial` stands
for a snapshot the component builders refuse. `Active` says which rules a
reading satisfies, so the four rules' arithmetic is a parameter. A rule stands
for one rule with one parameter (a leader, a direction, a threshold), as in the
deterministic key. `print` is the fingerprint a process remembers, lost when it
crashes. `Load` is the loader at the cutoff of the job that succeeded;
`ReadExisting` opens the transaction (`SELECT ... FOR UPDATE`, which locks
existing rows only); `Apply` writes drafts, resolves the scopes in bounded
batches and commits; `Expire` is the second transaction. `Checksum` leaves out
the revision number because the record ids of the Elexon adapters do
(`app/sources/elexon.py:207`, `:292`, `:344`); `Fingerprint` contains it.

**EventLifecycle.** `published` is what the source serves; `Deliver(W)` stores a
window that contained the notices `W`. Within the step the notices are folded,
oldest first, over the chain of their event: `Extends` is the sequence of
`continue` branches of `materialize_reported_notice_rows` and the errors of
`build_reported_notice_revision`. A delivery is one step because the caller's
transaction holds the `source_metadata` row (proved for `Ingestion` as
`NoConflict`) and an event id contains its source. The history endpoint checks
its whole chain before it answers (`EventLifecycleHistory`): `ChainValid` says
that every stored chain passes.

**CurrentTables.** UK Power Networks is read one page a step while its list
changes, and any row of it may be unusable (malformed, or an aggregate of
others): `Parsed` leaves such a row out. `Refreshed` replaces the rows of `distribution_incident_current`. The
asset table is written by two snapshots and by dependents that name a unit no
snapshot has listed yet; notifications are pruned to one settlement period.
`reader` is a request to `/current` between its four statements.

**Retention.** `docs` are the rows of `raw_payloads` in the order of retrieval,
the first `expired` of them past their retention. A poll upserts its document
and holds it to its commit; a pass selects a bounded batch, skipping what is
held, deletes it in a transaction of its own and goes on while batches are full.

**DerivedJobs.** `evidence[s]` counts the changes of what is stored of source
`s`; derived content is represented by the versions it was computed from.
`BeginJob` takes the global lock of a kind of job, `AcquireSource` the source
locks in the order of their names, `Load` reads one input in one statement,
`Unlock` leaves the contexts (as one step: nothing the job does between two
unlocks depends on what others do), `ReadDerived` and `Commit` are the two ends
of `persist_success`. Only the owner of a source's lock stores evidence of it:
that is `LockExclusive` of `Ingestion`, for as long as its session lives.

**ForecastScores.** The content that `DerivedJobs` leaves out: vintages by
publication or by capture, the newest revision of each input, the pairing, the
counts of each bucket of horizons against its thresholds, corrected pairs and
results, and the public read of the newest result.

**HistoryContent.** The same for materialization. `calendar` is a sequence of
half-hours with their London day, time of day and offset, so that a day on which
the clocks change is shorter or longer. `samples` are the revisions of one
series; some are missing at first, and late ones arrive, are corrected or lie
between the stamps of the cadence. `Load` reads what a chunk of completed days
and their baselines need, in one statement; `Persist` computes half-hours
(`Available`), days (`CoverageOf`, `AggregateOf`) and the usual value of each
half-hour (`Rolling`), and appends what differs from its newest revision. A row
contains what its checksum covers: a daily row the raw samples, a baseline the
samples selected, and only its counts when it is withheld. `Context` is the
comparison `/v1/history/context` makes of the current reading. What the model takes
of a calendar is `IsCalendar`: no day is left out, a half-hour is told by its day, time
and offset, and the same time of day so many days before is at most one ordinary day
further back than that. Means are sums:
with at most six samples to a half-hour and 95 % required, a half-hour is
complete or has no value.

**NoticeReads, GridReads, Timeline, AssetMap.** The SQL and the presentation of
four endpoints. `NoticeReads` delivers the publications of notices in any order
and states the two lists with the statements' own prefilters and rankings.
`GridReads` answers one request in seven statements beside deliveries and
derives the two verdicts of freshness. `Timeline` reads, thins out, carries
forward and joins observed samples to forecasts at the present moment.
`AssetMap` reads two catalogues, links sites to units by name, caches the result
without a lock and reads settled energy of the links for each answer.

**RateLimit, Explanations, PredictionGame, LocalPlans.** A claim of a rate limit
holds no await and is one step. `Explanations` is about one topic: a detected
event (read twice and cached by checksum), a notice, or a question with its tool
rounds; all of them claim from one daily budget. `Observations` is what the
tables come to hold: each has the time it is of (observed, published, issued) and
the time it was retrieved. A tool reads those retrieved by now and of its map time
or before (`Readable`), and dates its result by its oldest fact, its newest, or by
when a notice was retrieved (`Dates`); the answer is dated by its oldest result.
`PredictionGame` is the
resolution of one prediction: readings, rule, then the ledger under an advisory
lock. `LocalPlans` chooses the newest fresh capture that holds a whole window
and compares the best start with starting now.

**AppClient, Reminders.** Code of the main actor between two awaits is one step.
`AppClient` follows the loads of one screen through the repository's shared
tasks and the two-file disk cache to a server that answers conditionally; a load
may be cancelled, the screen left, the app ended between two files.
`Reminders` is one reminder: the pending request, its metadata, what is shown.

**MCStores, MCSurface, MCReads, MCFeeds.** Components that share no row, lock or
variable are checked in one run each: a behaviour chooses its component at the
start (`store`, `part`, `reads`, `kind`) and stays with it; the variables of the
others rest. A guard of one never reads a variable of another, so the
behaviours of the composition are those of each component on its own, and an
interleaving of two of them would show nothing that neither shows alone. Where
components do interact (ingestion with its ledger, observed events with the
ledger they read, jobs with the ingestion of their sources, polls with the
cleanup, deliveries with readers, endpoints with their common budget), both sides
are in one module.

## 3. Runs

| Run | Question | Instance |
|---|---|---|
| `replicas` | Do checkpoints, revision order and the lock hold beside a backfill, with a failure of any kind? | 1 worker that polls and reconciles, 1 operator, 2 chunks, 1 slot, 2 facts, 3 instants, 1 failure |
| `two_replicas` | Two owners of the advisory lock at once: does the database alone keep the ledger? Does collection go on, whatever holds the lock? | 2 workers, 1 slot, 2 facts, 3 instants, 2 failures, a lost lock session among them |
| `windows` | Do live windows leave a gap, does a due poll always ask for something new? | 2 workers, one clock ahead, 5 instants, 1 failure, no slots |
| `reconciled` | Is late or corrected data always collected? | 1 worker, 2 failures, 4 instants |
| `events_overlap` | Does an event ever go back to older evidence, are versions unique, also when passes overlap? | 2 replicas, 3 readings, 1 failure, a lost lock session included |
| `events_single` | Does an event stay open against newer evidence, does every event end? | 1 replica, batch limit 1, stateful and momentary rule, 1 failure, 5 instants |
| `derived_jobs` | Do the inputs of a derivation belong together, are derived rows in the order of the evidence, are successes backed and kept, does every job end? | 2 verifications of one target, one forced; a materialization of 2 chunks; 2 sources, 1 change each; 1 failure |
| `stores` | see below | five components, one at a time |
| `surface` | see below | twelve components, one at a time |
| `events_stale`, `events_reopen`, `outage_counts` | findings, section 6 | 2 replicas; 1 replica; 3 incidents and a limit of 2 |

`stores`, property by property:

| Property | What it shows | Instance |
|---|---|---|
| `Contiguous` | numbering without a hole or a duplicate | 2 identities, 3 facts, all payloads |
| `ChainValid`, `EndNotMissed` | chains always acceptable to their reader, only appended to, and closed by a window that holds the end | 2 events (numbered and not), 2 keys each, 4 publications, every window |
| `CurrentIsNewest` | present tables say what the newest deliveries say: present are the incidents served with a usable row | 3 references, usable rows or not, pages of 1, 2 periods, 2 changes, 2 snapshots |
| `BacklogDrains` | every expired document goes | 1 source, 3 contents, batches of 1, 1 batch a pass, 1 failure |
| `FeedHonest` | every usable row of an answer is stored, every listed message asked for | 13 feeds, 2 of up to a dozen kinds of row in an answer, 3 attempts, batches of 2, 1 change |
| `SnapshotsWhole` | nothing is retired or pruned by an answer that was not understood whole | 4 feeds, 2 polls, 2 periods, 2 days, 3 rows at most, a restart |

`surface`, property by property:

| Property | What it shows | Instance |
|---|---|---|
| `ShownIsAsked`, `NoStuckFlag`, `ConfirmedIsServed` | the plan on display answers the request on display; no flag outlives the calls; "not modified" confirms what the server held | 2 loads for 1 or 2 requests, or 1 load with 2 changes of the server and a failure |
| `RemindersAgree` | app and notification center agree when nothing runs | 2 subjects, 4 instants, both coordinators |
| `LimitsHold` | no client and not all of them exceed their limit; Retry-After is true | 2 clients, 2 each and 3 in all, window 3, sweep at 2 keys |
| `ExplanationMatches`, `AnswerGrounded` | a cached explanation is of the evidence of its key; answers claim what their tools read, of their map time or before, within the budget | 2 calls, 2 facts, 2 versions, 3 observations, one of them retrieved late, budget 2, 3 rounds, a midnight |
| `VerdictFair` | results are numbered by evidence, and a request is told its own | 2 requests, 2 feeds, 2 corrected readings |
| `PlanIsBest` | the window is the least of the newest usable capture | captures with gaps, too short or flat; 2 of them, 4 slots |
| `NoticesCurrent` | the notices served are what the source now serves | a REMIT message and a warning, 2 revisions, 2 deliveries in any order |
| `SnapshotHonest` | seven statements beside deliveries show nothing superseded under verdicts that agree | 2 fuels, 1 link, 5 families, 2 deliveries |
| `TimelineExact` | each bucket is given once and holds what was known by its end | all subsets of readings and forecasts on both sides of the present |
| `MapHonest` | links are unique, evidence is of the moment, the catalogue recent | 2 readers, 2 contents of each catalogue, 1 change |
| `ScoreHonest` | what a run stores is what its evidence says, what is served is of the newest window | 2 windows with one end, 2 buckets, 3 changes of evidence, 2 runs |
| `HistoryExact` | what is stored of a day and of the usual value of a half-hour is what all evidence says, in any chunk; the API agrees with it | 6 days of 2 half-hours, one of them with 1 or 3; lookback 3, chunks of 2, 2 late samples of 3 stamps |

Why the bounds are enough. Every property relates at most two actors (two
owners, two writers, a reader and a writer), so two replicas, or a replica and
an operator, show each interleaving; most of them are also
proved for any number (section 4). Two facts give a first
value, a correction and a return to the first value; three readings give those
at one instant, or an older, an equal and a newer one. `Overlap = 1` and
`Cadence = 1` make consecutive windows meet exactly at their border; `windows`
has time for a window, an outage longer than `MaxLookback` and the window after
it. A batch limit of one makes every batch overflow, a page of one makes every
list span pages. Two publications of each of two notices, or four amendments of
one, give each pair of revisions in every order, a correction of the older after
the newer, and an end before its opening. The rows of a feed are one for each
way in which a row can be refused, kept or mistaken for another feed's, and a
fetch sees every pair of them: validation looks at one row at a time, and
deduplication at two. `CalmAfter` leaves the temporal properties an interval
without failures; it bounds the failures, not what the code does. Instances
without slots are those whose property is about windows and locks only.

Deadlock is checked in every run of `MCIngestion`, `MCObservedEvents`,
`MCDerivedJobs` and `MCCurrentTables`: time, ticks or publications remain
possible in each. `stores` and `surface` say `CHECK_DEADLOCK FALSE`: a fetch ends,
a request is answered, a bounded history of publications runs out, and the
components chosen have no further step.

Fairness. `FairSpec` of `Ingestion` and `ObservedEvents` assumes that time passes
and that each process goes on: `run_forever` keeps ticking until it is stopped,
every await of a fetch or statement has a timeout and so returns or fails, and
the platform restarts a process that died. It is weak fairness of a process's
next step only. Nothing is assumed about who gets a lock: acquiring is a
try-lock, and a refused job is skipped. `DerivedJobs` asks even less: the jobs'
own steps are fair, ingestion may keep a source's lock for ever. That this
suffices for collection is what `PollingContinues` shows. In `events_single` a
fair worker also keeps succeeding with its ingestion jobs; without any
successful job the code expires nothing, because expiry is part of the
post-ingestion action. `stores` assumes of `Retention` that the cleanup, which
the worker calls on a schedule of its own, and the transactions of a source keep
taking their steps; failures are bounded. Everything else is safety, without
fairness.

## 4. Proofs

All for every value of the constants allowed by the named assumptions, which TLC
evaluates in the runs: `NoFactAssumption`, `ScheduleAssumption`,
`IngestionAssumption`, `ObservedEventsAssumption`, `JobsAssumption`,
`LimitsAssumption`, and the `...Settings` that `MCStores`, `MCReads` and `MCSurface`
assume of the modules they instantiate. They say that sets of names are finite,
that times and sizes are numbers, that a placeholder is not a value, and little
else. `JobsAssumption` says of the tasks what their keys and rows say in the code
(`SameWork`): tasks with one key derive the same rows, and tasks that derive one
row are of one kind and read the same sources. Two theorems have one more
hypothesis: `EvidenceInOrder` has `OrderedSetting`, `OneReplicaNeverStale` a single
replica.

A theorem about `MCStores`, `MCReads` or `MCSurface` speaks of the specification
the run checks. Its invariant is guarded by the component a behaviour chose
(`CurrentHolds`, `GridHolds`, ...), and its proof is one about the component's own
`Init` and `Next`.

`RevisionLedgerProofs`. `WellFormed(L)` strengthens `Contiguous`: for each
identity the numbers of its rows are exactly `0 .. n-1` with `n` the cardinality
of its rows. `Contiguous` alone is not convenient, because a step numbers with
`Latest`, a CHOOSE: `NextRevIsCount` shows that in a well-formed ledger the next
number is that cardinality. `AppendWellFormed` then gives the step, from which
`LedgerContiguous`, `LedgerNoEmptyRevision`, `LedgerImmutable` and
`PreparedDoesNotConflict` follow.

`IngestionProofs`, ledger and lock. `IInv` is `TypeOK`, well-formedness of the
ledger, `SuccessMeansStored` and `Prepared`: what a process in the middle of its
transaction has prepared is what the *current* ledger would have it prepare,
because it owns `rowLock`. `NoRevisionConflict` is not inductive: it does not say
why another process cannot commit between `BeginTransaction` and `Commit`. The
advisory lock plays no role in it, which is the point: the theorem holds with
`"session"` among the faults. The proof has one step for each group of actions
(`QuietStep` for those that leave the tables alone). Theorems: `TypeCorrect`,
`NoConflict`, `CheckpointSound`, `ImplementsLedger` (each step of the whole
protocol is a ledger transaction or a stutter) and `LockIsExclusive`, from
`LockInv` (who has a live session owns the lock and is inside it).

`IngestionProofs`, windows. `WindowsAdvance` speaks of the step that plans a
window and says nothing about the states before it. `EndsAtTick` does: the window
of every stored live run ends at the tick of that run, and so does the window of
a live poll under way. A due poll compares its tick with the checkpoint's, so its
window ends later. A consequence for the reader of `incremental_window`: the clamp
for a checkpoint in the future (`scheduler.py:112`) does not fire for live polls; a
replica whose clock is behind waits in `is_due` instead.

`NoSilentGap` says nothing about the poll that will write the next run, and
nothing about how an earlier window was chosen. `AllLinked` does: the window of
every live success, and of every live poll under way, is as long as a lookback,
or begins no later than the end of an earlier live success, which ends before
it. A run replaces only a run with its own window, so links are never lost
(`WindowsStay`). Of the windows after an instant that no window holds, the one
that ends first has no link, so it is as long as a lookback: `NothingSkipped`.
Both theorems rest on one lemma about steps, `NextChange`: a step keeps runs and
polls, plans one poll or writes one run.

`IngestionProofs`, order. `RevisionOrder` is true because the fetch happens inside
the advisory lock. `OrderInv` spells that out: whoever is inside the lock still
owns it (`Guarded`), and an answer that is held and not yet stored is at least as
new as everything stored (`Newest`), which the fetch establishes because nothing
is dated in the future (`NotFuture`). A commit then stores its rows above all
others of their slots, with a date that none exceeds, and no other process holds
an answer. Both hypotheses of `OrderedSetting` are needed: with a lost session
two processes fetch and store in either order, and a process whose clock is
behind dates a later answer earlier.

`ObservedProofs`. `ReadIsCurrent`: what a transaction has read of the rows it
locked is what they still hold, and no row is locked twice. It is the row lock
that counts; the maintenance lock appears nowhere in the proof, so the theorems
hold for passes that overlap after their session was lost. `NeverRegresses` and
`VersionsNameEvidence` follow from what a write does to a table (`Grows`).

`NoStaleOpening` is proved for one replica, whatever fails (`OneReplicaNeverStale`);
the run `events_stale` shows it false for two. It is not inductive: it does not
say that the next evidence is newer, nor that a bounded batch resolves enough.
`Alone` does: every event rests on a reading the replica could see at its last
cutoff (`Backed`), so what it finds at a later one is at least as new as all its
events (`FoundNewest`), and a stateful rule has at most one open event (`OneOpen`),
which fits into any batch. That is why `_MAX_LIFECYCLE_TRANSITIONS_PER_SCOPE` does
no harm to stateful rules.

`DerivedProofs`. The invariant has two parts. `Always`: what a job has read was
stored, and what it is about to insert, together with what is there, covers its
task. `SuccessIsStored` needs no more, and so holds when locks are lost: a second
job that allocated the same revisions conflicts instead of being taken for
stored. `WithLocks`, while no session is lost: a job owns its locks, what it has
read of each source is what is stored while it holds the source
(`CoherentInputs`), nothing stored is derived from later evidence than it has
read (`After`), and the run row of a task it has started says so (`Recorded`).
`After` survives the release of the source locks because the global lock of the
kind keeps every other job of that kind from storing; that is `DerivedInOrder`.

`Induction` holds what the others need about data and the library does not offer
in a form the provers can use: the least natural of a set, induction over the
naturals and over finite sets stated of a *set* of numbers or of sets
(`NaturalsFrom`, `FiniteSetsFrom`), recursion on the subsets of a finite set
(`RecursionOnSets`), the last element of a finite set under a total order, and that
a finite set can be listed without repetition (`Enumeration`, `AllListed`). Of the
sum over a finite set it shows that it exists, that any term can be taken out of it
and that it depends on the terms alone (`PartialSums`, `SumFrom`, `SumOfTerms`). An
induction is then a lemma about the set of numbers with a property.

`StoresProofs`, `CurrentTables`. A snapshot is read page by page while the list
changes. `PagesRight`: the rows read so far are the beginning of what is served
unless that changed (`steady`), and what is to be stored is all of it unless it
was cut off at the record limit, and some of it is usable unless nothing is served
(`MembershipKept` carries that to the table). With `SitesListed` (a site of the register is
never a placeholder) the theorem `PresentIsNewest` follows delivery by delivery.

`StoresProofs`, `EventLifecycle`. A delivery folds its notices, oldest first, over
a chain. `WindowFolds` describes that fold by its steps; `StepsHold` carries
`GoodChain` along them: entries are numbered from 1, the first and only the first is
open, nothing follows an end, no notice is repeated, and neither publication times
nor revisions go back. `ChainInv` adds that published notices differ in event or
key and that `deltas` is exactly the steps of the chains (`DeltasOf`),
which `ChainsAccepted` needs for the reader's own checks. `EndsSeen`: the fold only
appends, and the newest publication of an event comes last in it, so that its end
is either in the chain already or appended by the last step.

`StoresProofs`, the feeds. `CallRight` is shared: each wait of a request followed an
attempt and was no longer than the longest delay, and what can be repeated has used
all attempts when it fails. `FeedsHonest`: `FactInv` says that every listed message
has come or is in a batch still to be asked for (`Coming`), which rests on
`BatchesCover`: cut into pieces of any size, a list loses nobody. What a delivery
writes is then a fact of the rows alone (`DeliveredHonest`): each becomes something
its table accepts (`FactSound`), and of the incidents of one reference the newest is
kept (`NewestKept`). `OnlyWholeRetires`: `WholeInv` says that the rows of an answer
not yet refused are all readable, that the days answered so far are all there
(`DaysRead`), and that the file fetched or remembered is the one of the listing
(`FileChosen`).

`ReadsProofs`. `NoticesAreCurrent`: the row of the newest notice told of each id
beats every other row of that id (`OnTop`) in the order in which the statements rank
them, and a briefing held every id whose newest notice was near (`BriefedAll`).
`SnapshotIsHonest`: each of the statements run so far returned, of what was stored
when the request began, nothing older than its newest (`PartHolds`), though rows
arrive between them. `MapIsHonest`: what a reader has, by where it is
(`RequestHas`), and that every figure of an answer was superseded only by rows
stored since its moment (`FigureHolds`). `TimelineIsExact` relates the loop to what a
reader expects: reading at the newest revision, thinning out and choosing by bucket
come to the newest of a bucket's rows (`OfBucketIs`), so what is expected of a bucket
obeys the equation of the loop (`ExpectedStep`), which has one solution because a
first bucket that differs has none before it (`CarriedIs`). That there is one series
each of demand, carbon and frequency, and one length to a forecast period, are
assumptions of the settings (`TimelineAssumption`). `ScoresAreHonest` is about what a
run stores, so it is proved of its step. `ResultsRight`: no two results of a bucket and
window have one revision, and each counts the vintages and pairs it names, so the newest
revision says what the run has computed whether it was appended or found there
(`ResultsAppended`); `PairsAppended` says the same of pairs. Every vintage falls into
one bucket (`OneBucket`), and the pairs of a bucket are as many as its vintages with an
outturn (`PairsCount`). That horizons begin at zero and leave no gap is an assumption of
the settings (`ScoreAssumption`).

`ReadsProofs`, the history. `HistoryIsExact` compares what a run computed of the rows it
had read with what all samples said. `HistoryInv`: what a run has read agrees with the
samples of its moment on every half-hour from `lookback` days before its first day to its
last (`WorkRight`), which the half-hours of calendar days, of whatever length, put in order
(`FirstIs`); and what it has stored is the newest of its key (`StoredRight`), because the
revisions of a key are numbered without a repetition and a new one is above them all
(`TableRight`, `AppendedIs`). The property itself would not do: it says nothing of a run
that has not stored, nor why an unchanged row that is not appended is the newest. The
rest is about one computation. A half-hour is available exactly when it is complete
(`AvailableIs`), as one missing stamp is too many. What is computed of a half-hour depends
on its own rows and those of the same local time before it (`RollingLocal`), so the chunk,
and the day more than the lookback that the API reads (`ContextReaches`), say what all
samples say. Of each earlier day one half-hour counts, the one of the same offset if there
are two (`UsedIsUsual`); the sorted sums rise, so quartiles are in order and between the
least and the greatest (`RankedAre`, `QuantilesRise`, `RollingIs`). A window of `lookback`
days in UTC reaches every half-hour it should because of the last clause of `IsCalendar`.
`RunsAreAccepted` adds that no constraint or unique key of the three tables, each a guard
of `Persist`, ever refuses a run: none of the guards hides a wrong row.

`SurfaceProofs`. `VerdictsFair`: rows are numbered `1..n` by the holder of the
advisory lock, and what a request computed is fair to what it saw from then on
(`GameInv`). `AgreementKept`: between the two writes of a call, app and notification
center differ by what the second is about to write (`HalfWritten`). `DisplayAnswers`,
`FlagsCleared` and `AnswersServed` share `AppInv`: what is right of a task at each of
its awaits, which call owns a shared task, and which call will clear a flag.
`ExplanationsMatch` and `AnswersGrounded` share `ExplainInv`: what a row of the cache
and a call at each of its steps hold. `DatedByFacts` bounds the date of a tool's
result: no later than its map time, or the retrieval of something it found; the
answer takes the least of them (`OldestIsLeast`). `PlansAreBest` relates the walk of the planner,
from point to point, to the sum tick by tick of which the property speaks: until the
end of a point all ticks have its value (`BurdenRun`), so the walk finds a gap or that
sum (`TotalIs`). What is read of a capture holds every window still to come within the
bounds (`RowsAre`), and a capture with such a window is tried, so nothing newer than the
chosen one has any (`AnswerKeepsPromise`); captures are in the order of their times
(`PlanType`), so nothing newer is stale. That a forecast gives finitely many slots an
intensity not below zero is an assumption of the settings (`PlanAssumption`).
`LimitsKept`: `Bounded` is about what was
admitted, the code counts its deques. `DequesFollow` connects them: a deque is the
end of the list of what its bucket admitted, and what it lost, by a discard or a
sweep, is a window old. For the second half of `LimitsHold`, `RefusalsTold`: there is
a moment before which one of the client's two buckets has no room and from which
both have, until another request takes it, and the refusal named the second that
moment falls into.

Only model-checked:

- the liveness properties (`PollingContinues`, `EventuallyReconciled`,
  `EventsEnd`, `JobsEnd`, `BacklogDrains`), which the prover does not reach: they need
  ENABLED and induction on the fairness of steps;
- that the three findings are violations, which a counterexample shows.

Every other property that a run checks is proved. The induction theorems of the library
take an operator as a parameter, which the provers cannot instantiate: `Induction` states
what is needed of sets instead, and relating two different sums needs an induction of its
own for each, as `PlansAreBest` has it. `SortSeq` and what is built on it are opaque to
the provers; where a proof needs an order, the model picks the nth or the greatest
(`Ordered`, `Nth`, `Select`), or a listing that rises (`Rolling`).

## 5. Plan

1. done: the ledger, windows, ingestion and their proofs; observed events, notice
   lifecycles, derived jobs; present tables, retention, feeds; the read models;
   the stateful services; the app and its reminders.
2. done: proofs of every safety property of ingestion, observed events, derived
   jobs, present tables, notice lifecycles, the feeds, rate limits, explanations, the
   game, the planner, the app and its reminders, forecast verification, the four read
   models and the history. What is left of the runs' properties is liveness.
3. The briefing (`api/briefing.py`, `briefing/service.py`) with the relevance of
   events, exports, the regional view and source health: each is a statement or
   two and a pure computation.
4. `HistoryContent` and `ForecastScores` joined to `DerivedJobs`, which now sees
   of their content only the evidence it was computed from.

## 6. Findings

Each is a run whose property a sentence of the repository states and whose
violation TLC finds.

- `events_stale`. `app/persistence/observed_events.py:227`: "A replay at an older
  cutoff must never regress newer evidence." Replica 1's job ends, but before it
  takes the lock replica 2 completes a pass with a newer cutoff whose evidence
  does not satisfy the rule. Replica 1 then loads at its older cutoff and inserts
  an OPEN event: the check at the quoted line is for existing events. With one
  replica this cannot happen (`events_single`, which checks the same property).
- `events_reopen`. `docs/OPERATIONS.md:211`: "corrections append evidence
  versions". A reading satisfies a rule, a correction denies it (the event is
  resolved), a second correction restores the value: the draft has the stored
  checksum, counts as unchanged, and the event stays RESOLVED.
- `outage_counts`. `app/outages/models.py:122`: "total count cannot be below
  returned count". `load_current` reads the list and then the counts, each
  statement with a snapshot of its own. When a poll commits between them and
  incidents leave, the counts are below the list and the request ends in an
  error, although the database is sound.

Differences noted on the way and not counted as findings.

- `_run_chunk` of the materialization records a failure over an existing success
  when the check of an unforced repetition, or the lock of a forced one, raises
  (`materialization_job.py:768`), although "Successful chunks are checkpoints.
  Re-running skips them" (line 8). The derived rows stay; the chunk is merely
  computed again. `_run_target` of the verification has a guard for this, and
  `SuccessKept` is stated for verifications only.
- The docstring of `app/events/lifecycle.py` says that production persists the
  same transitions as the reference it holds. The reference counts a resolution
  as a revision; `_resolve_matching_events` leaves `evidence_version` as it is.

Exceptions that the properties name, because the code does not guard against
them and says nothing to the contrary:

- App. `loadRegion` does not look at its request after its awaits
  (`ShownIsAsked` is about plans and predictions). A load cancelled while the
  plan view is on display leaves its spinner (`PlanView.swift:366`). A cache
  entry ended between its two files is served with the metadata of the other
  body (`ConfirmedIsServed` leaves torn entries out). A removal by
  `PredictionReminderCoordinator.refresh` may run beside a schedule, and an app
  ended between its two writes leaves a reminder without metadata
  (`RemindersAgree`).
- Explanations. The event is read twice, so facts may be of another version than
  the label; the budget is claimed before citations are looked at; an
  explanation from the cache may call an event active that has since been
  resolved, as its key has no status. At a map time the tools filter by when a
  fact was observed, published or issued and not by when it was retrieved, so an
  answer may rest on a correction or a notice that came in later; the active
  events are dated by when a notice was retrieved (`provider.py:310`), so an
  answer may be dated after its map time. `AnswerGrounded` says when.
- Present tables. An incident that is still served, but whose row cannot be read,
  is left out with a warning (`ukpn.py:188`) and marked absent, as the others
  replace the membership (`ingestion.py:1458`); only an answer without any usable
  row is refused (`MembershipTold`). An incident that leaves the list of UK Power Networks between
  two pages shifts the next page, and one that is still served is passed over
  (`ukpn.py:107`). A document expired between the conflict and the read of its
  id makes the transaction fail (`Retention`); it is fetched again.
- Feeds. Of two publications of one observation in one answer one is stored,
  the last of the answer (`_deduplicate_rows`). A blank fuel code is a
  generation series. A row of UK Power Networks without any time is observed
  when it is retrieved, and that time is part of its checksum: each poll makes
  another revision of it. An answer of its map aggregates only is a schema
  error. REMIT details that come back empty although listed are a success with a
  warning. A register row of an active site that cannot be read is left out and
  its site retired. The register's file is taken as immutable under its URL. A
  well-formed empty answer prunes the notifications of its period.
- Reads. The baseline of the change over an hour may be of any age before it
  (`api/routes.py:70`). The catalogue of assets may be replaced by the result of
  an older concurrent load until its life ends (`assets/service.py:304`);
  settled evidence is the newest when it was read.
- History. The service materializes only the last completed day, twice
  (`railway.history.json`): a later correction reaches the rows of older days, and
  the baselines of the days after them, when an operator forces their chunk.
  `HistoryExact` is about what a run stores of its own days.
- Scores. A repeated, unchanged verification of a longer window does not
  displace a later one of a shorter window with the same end. A capture counts
  by when it was retrieved, also when that is after the time it is about.
- Windows. After an outage longer than `max_incremental_lookback` the instants
  before the lookback are left to reconciliation (`NoSilentGap`).

## 7. Not modelled

- Event relevance, the briefing, regional and source-health views, exports, and
  the wording of headlines: pure computations on rows the modelled tables hold.
- The definition row of a metric, means and error statistics as floats, the arithmetic of the four observed rules, the conversion of
  coordinates, settlement days of 46 or 50 periods in the feeds, beyond the bound of a period.
- Dry runs and command lines of the jobs; the second source of one tick (sources
  share no row); the adapter of a postcode; the bands of source status, search
  and bounding boxes of the asset map, the plan of a unit.
- The missions of the game; the snapshot, timeline, briefing, inspection and
  asset loads of the app, which share no task and keep no cache; the notebook,
  one file written whole; views.
- Configuration and process wiring: the schedules it chooses are constants of
  `Ingestion`. Migrations, which run before the processes start.
- The text a language model writes.

A known limit of `EndNotMissed`: a terminal notice that arrives before its
opening is skipped, and the property speaks only of a window that later delivers
both. If no such window comes, the chain stays open although the stored notice
says it ended.
