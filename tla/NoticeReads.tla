----------------------------- MODULE NoticeReads -----------------------------
(***************************************************************************)
(* The table of reported notices and the two lists read from it            *)
(* (app/persistence/reads.py): the notices active now, and those of a      *)
(* briefing, which also looks ahead.  Each list finds the newest revision  *)
(* of a notice in its own way: the first takes candidates by any revision  *)
(* and ranks them afterwards, the second ranks before it filters.          *)
(*                                                                         *)
(* A delivery is one transaction of the ingestion; windows overlap, so it  *)
(* carries any part of what the source serves, old revisions too.          *)
(***************************************************************************)
EXTENDS Integers, FiniteSets, FiniteSetsExt, Sequences, SequencesExt

CONSTANTS
    Remit,         \* mRIDs of REMIT messages
    Warnings,      \* system warnings: their id contains the publication time
    Fresh,         \* warning_fresh_for
    Horizon,       \* upcoming_until - as_of of a briefing
    Cap,           \* MAX_ACTIVE_NOTICE_CANDIDATES
    Windows,       \* event_start and event_end of the REMIT messages; None for no end
    MaxTime, MaxRevisions, MaxPublications, MaxDeliveries

VARIABLES
    now,
    served,        \* what the source serves: one notice for each id and key
    published,     \* publications so far
    rows,          \* table reported_notices
    deliveries,    \* deliveries so far; the retrieval time of the next
    told,          \* history: [id -> the newest notice delivered, in the source's order]
    briefed        \* history: the last briefing, until a delivery

vars == <<now, served, published, rows, deliveries, told, briefed>>

Identity == Remit \cup Warnings
None == -1

NoticeAssumption ==
    /\ Remit \cap Warnings = {}
    /\ Fresh \in Nat /\ Horizon \in Nat /\ Cap \in Nat
    /\ \A w \in Windows : w[1] \in Int /\ w[2] \in Int
Unknown == [rev |-> None]
NoBriefing == [at |-> None, list |-> {}]

\* The key of a REMIT row is its revision number; a warning without a number has the
\* checksum of its text for a key.  `on` is FALSE for a status that says the notice is
\* over, in any spelling.
Notice(i) == [id: {i}, rev: IF i \in Remit THEN 1..MaxRevisions ELSE {0},
              key: 1..MaxRevisions, pub: 0..MaxTime, window: Windows, on: BOOLEAN]

-----------------------------------------------------------------------------
(* The source and the table. *)

\* A REMIT message is revised under the next number or amended under its newest; its
\* window and status may change each time.
PublishRemit(n) ==
    /\ n.id \in Remit /\ n.pub = now /\ n.key = n.rev
    /\ LET last == Cardinality({q \in served : q.id = n.id})
       IN  n.rev \in {last, last + 1} \cap (1..MaxRevisions)
    /\ served' = {q \in served : <<q.id, q.key>> # <<n.id, n.key>>} \cup {n}
    /\ published < MaxPublications /\ published' = published + 1
    /\ UNCHANGED <<now, rows, deliveries, told, briefed>>

\* The text of a warning is corrected under its publication time: the source serves
\* the corrected one alone.
PublishWarning(n) ==
    /\ n.id \in Warnings /\ n.window = <<0, None>> /\ n.on
    /\ LET old == {q \in served : q.id = n.id}
       IN  /\ IF old = {} THEN n.pub = now /\ n.key = 1
              ELSE \A q \in old : n.pub = q.pub /\ n.key = q.key + 1
           /\ served' = (served \ old) \cup {n}
    /\ published < MaxPublications /\ published' = published + 1
    /\ UNCHANGED <<now, rows, deliveries, told, briefed>>

\* _observation_upsert on (source, kind, external id, revision key): the retrieval time
\* always differs, so a row delivered again is written again.
Upserted(W) ==
    {r \in rows : \A n \in W : <<r.notice.id, r.notice.key>> # <<n.id, n.key>>}
      \cup {[notice |-> n, ret |-> deliveries] : n \in W}

Deliver(W) ==
    /\ deliveries < MaxDeliveries /\ deliveries' = deliveries + 1
    /\ rows' = Upserted(W)
    /\ told' = [i \in Identity |->
          LET seen == {n \in W : n.id = i} \cup ({told[i]} \ {Unknown})
              top == {n \in seen : \A q \in seen : q.rev <= n.rev}
          IN  IF seen = {} THEN Unknown
              ELSE IF top \cap W # {} THEN CHOOSE n \in top \cap W : TRUE ELSE told[i]]
    /\ briefed' = NoBriefing
    /\ UNCHANGED <<now, served, published>>

-----------------------------------------------------------------------------
(* The reads. *)

\* The order of the window function notice_rank: number (none is last), publication,
\* retrieval, key.
Ranks(r, q) ==
    LET a == <<r.notice.rev, r.notice.pub, r.ret, r.notice.key>>
        b == <<q.notice.rev, q.notice.pub, q.ret, q.notice.key>>
    IN  \E i \in 1..4 : a[i] > b[i] /\ \A j \in 1..(i - 1) : a[j] = b[j]

Known(i) == {r \in rows : r.notice.id = i /\ r.notice.pub <= now}
First(R) == CHOOSE r \in R : \A q \in R \ {r} : Ranks(r, q)

\* Does the window of the notice, or the freshness of the warning, contain now?
InWindow(n) ==
    IF n.id \in Warnings THEN n.pub >= now - Fresh
    ELSE n.window[1] <= now /\ (n.window[2] # None => n.window[2] > now)

Active(n) == InWindow(n) /\ (n.id \in Remit => n.on)
Upcoming(n) ==
    /\ n.id \in Remit /\ now < n.window[1] /\ n.window[1] <= now + Horizon
    /\ n.window[2] # None => n.window[2] > n.window[1]
    /\ n.on

\* Slip: the rank is taken among the revisions whose window contains now.
CandidatesAlone(i) == {r \in Known(i) : InWindow(r.notice)}

\* candidate_identities joined back to all revisions of the notice.
Candidates(i) == IF \E r \in Known(i) : InWindow(r.notice) THEN Known(i) ELSE {}

\* Warnings come first, then the newest publications, up to the cap.
Listed(n, q) ==
    \/ n.id \in Warnings /\ q.id \in Remit
    \/ (n.id \in Warnings <=> q.id \in Warnings) /\ n.pub > q.pub
Capped(N) == {n \in N : Cardinality({q \in N : Listed(q, n)}) < Cap}

\* get_active_notices.
ActiveNotices ==
    LET newest == {First(Candidates(i)).notice : i \in {j \in Identity : Candidates(j) # {}}}
    IN  Capped({n \in newest : Active(n)})

\* get_briefing_notices: the statement keeps a window of notices, the filter of the
\* answer those that are active or upcoming.
BriefingNotices ==
    LET newest == {First(Known(i)).notice : i \in {j \in Identity : Known(j) # {}}}
        near(n) == IF n.id \in Warnings THEN n.pub >= now - Fresh
                   ELSE n.window[1] <= now + Horizon /\ (n.window[2] # None => n.window[2] > now)
    IN  {n \in newest : near(n) /\ (Active(n) \/ Upcoming(n))}

Brief ==
    /\ briefed = NoBriefing
    /\ briefed' = [at |-> now, list |-> BriefingNotices]
    /\ UNCHANGED <<now, served, published, rows, deliveries, told>>

Tick == now < MaxTime /\ now' = now + 1 /\ UNCHANGED <<served, published, rows, deliveries, told, briefed>>

Init ==
    /\ now = 0 /\ served = {} /\ published = 0 /\ rows = {} /\ deliveries = 0
    /\ told = [i \in Identity |-> Unknown] /\ briefed = NoBriefing

Next ==
    \/ Tick \/ Brief
    \/ \E i \in Identity : \E n \in Notice(i) : PublishRemit(n) \/ PublishWarning(n)
    \/ \E W \in (SUBSET served) \ {{}} : Deliver(W)

Spec == Init /\ [][Next]_vars
-----------------------------------------------------------------------------
(* Properties *)

\* Whatever the order and overlap of the deliveries, the active list holds the newest
\* notice that was delivered, for exactly the ids whose newest notice is on now: an
\* old revision that still matches does not come back after its withdrawal.  Only the
\* cap may leave some out, and then REMIT before warnings, old before new.
ListIsNewest ==
    LET on == {told[i] : i \in {j \in Identity : told[j] # Unknown}}
        due == {n \in on : Active(n)}
    IN  /\ ActiveNotices \subseteq due
        /\ \A n \in due \ ActiveNotices :
              /\ Cardinality(ActiveNotices) >= Cap
              /\ \A q \in ActiveNotices : ~Listed(n, q)

\* A notice that is active now, and began within the horizon of a briefing since which
\* nothing was delivered, was in that briefing.
Foretold ==
    briefed # NoBriefing =>
       \A n \in ActiveNotices \ briefed.list : n.window[1] > briefed.at + Horizon

\* Neither list shows a notice that the source has revised away, nor leaves out one it
\* still serves, and what is active was announced by the briefing before (reads.py:1291).
NoticesCurrent == ListIsNewest /\ Foretold
=============================================================================
