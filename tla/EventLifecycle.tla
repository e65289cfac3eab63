--------------------------- MODULE EventLifecycle ---------------------------
(***************************************************************************)
(* The lifecycle of reported notices (app/persistence/event_lifecycle.py,  *)
(* app/events/revisions.py).  Publications of a notice (REMIT messages,    *)
(* system warnings) reach the service in overlapping windows, so they may  *)
(* come late, again, amended or in the wrong order; each stored window     *)
(* extends the immutable chain of revisions of its events.                 *)
(*                                                                         *)
(* A window is stored in the ingestion transaction, which holds the row    *)
(* lock of its source (Ingestion, BeginTransaction), and an event id       *)
(* contains its source: one delivery is one step.                          *)
(***************************************************************************)
EXTENDS Naturals, FiniteSets, Sequences, SequencesExt

CONSTANTS
    Event,          \* stable event ids
    Key,            \* revision_key, in its order
    Revision,       \* [Event -> [Key -> Nat]], revision_number; all 0 if it has none
    Time,           \* publication times
    Ended,          \* source statuses read as resolved, withdrawn or superseded
    Lively,         \* any other source status
    MaxPublications \* bound: publications and amendments

EventLifecycleAssumption ==
    /\ Key \subseteq Nat /\ Time \subseteq Nat
    /\ Revision \in [Event -> [Key -> Nat]]
    /\ Ended \cap Lively = {} /\ {"open", "updated"} \cap Ended = {}
    /\ MaxPublications \in Nat

VARIABLES
    published,  \* what the source serves: one notice for each event and key at most
    count,      \* publications so far
    chain,      \* [Event -> Seq(Stored)], table event_lifecycle_revisions
    deltas      \* table event_lifecycle_deltas

vars == <<published, count, chain, deltas>>

\* What the code reads of a normalized notice.  Its checksum stands for the rest,
\* so the notice is its own checksum.  A notice is not sound if the domain model
\* refuses it: an end before its start, a negative capacity, a superseded notice
\* without a replacement.
Notice == [event: Event, key: Key, pub: Time, status: Ended \cup Lively, sound: BOOLEAN]

Stored == [number: Nat \ {0}, status: {"open", "updated"} \cup Ended, notice: Notice]
Delta == [event: Event, from: Nat, to: Nat]

RevisionOf(n) == Revision[n.event][n.key]

\* The order of a notice that arrives later than the stored q: source revision,
\* publication time, then the retrieval time, which decides for the newcomer.
OlderThan(n, q) ==
    \/ RevisionOf(n) < RevisionOf(q)
    \/ RevisionOf(n) = RevisionOf(q) /\ n.pub < q.pub

\* Slip: the notices of a window are not sorted by their age.
BeforeByKeyDescending(n, q) == n.key > q.key

\* Within one window the retrieval time is the same and the key decides.
Before(n, q) == OlderThan(n, q) \/ (~OlderThan(q, n) /\ n.key < q.key)

-----------------------------------------------------------------------------
Init ==
    /\ published = {}
    /\ count = 0
    /\ chain = [e \in Event |-> <<>>]
    /\ deltas = {}

\* The source publishes a notice or amends it under the same key.
Publish(n) ==
    /\ count < MaxPublications
    /\ count' = count + 1
    /\ published' = {p \in published : <<p.event, p.key>> # <<n.event, n.key>>} \cup {n}
    /\ UNCHANGED <<chain, deltas>>

Terminal(s) == s # <<>> /\ Last(s).status \in Ended

\* Slip: without the test for older publications.
ExtendsAtAnyAge(s, n) ==
    /\ \A i \in DOMAIN s : s[i].notice # n
    /\ ~Terminal(s)
    /\ s # <<>> => Last(s).notice.pub <= n.pub
    /\ n.sound
    /\ s = <<>> => n.status \notin Ended

\* Does the notice n extend the chain s of its event, or is it unchanged or skipped?
Extends(s, n) ==
    /\ \A i \in DOMAIN s : s[i].notice # n
    /\ \A i \in DOMAIN s : ~OlderThan(n, s[i].notice)
    /\ ~Terminal(s)
    /\ s # <<>> => Last(s).notice.pub <= n.pub
    /\ n.sound
    /\ s = <<>> => n.status \notin Ended

\* build_reported_notice_revision
NextRevision(s, n) ==
    [number |-> Len(s) + 1,
     status |-> IF n.status \in Ended THEN n.status ELSE IF s = <<>> THEN "open" ELSE "updated",
     notice |-> n]

Extended(s, n) == IF Extends(s, n) THEN Append(s, NextRevision(s, n)) ELSE s

\* The notices of one event in a window, oldest first.
OldestFirst(W) == CHOOSE q \in SetToSeqs(W) : \A i, j \in DOMAIN q : i < j => Before(q[i], q[j])

WithWindow(s, W) == FoldLeft(Extended, s, OldestFirst(W))

\* materialize_reported_notice_rows: W is what one window delivers.
Deliver(W) ==
    /\ chain' = [e \in Event |-> WithWindow(chain[e], {n \in W : n.event = e})]
    /\ deltas' = deltas \cup UNION {{[event |-> e, from |-> i - 1, to |-> i] :
                                 i \in (Len(chain[e]) + 1)..Len(chain'[e]) \ {1}} : e \in Event}
    /\ UNCHANGED <<published, count>>

-----------------------------------------------------------------------------
(* A reader's request: GridReadRepository.get_event_lifecycle_history. *)

\* The newest `limit` revisions of an event, each joined with the delta that leads to
\* it, and the bounds of the whole chain.
HistoryRows(e, limit) ==
    LET all == Reverse(chain[e])
        pubs == {all[i].notice.pub : i \in DOMAIN all}
        row(r) == [revision |-> r,
                   deltas |-> {d \in deltas : d.event = e /\ d.to = r.number}]
    IN  [rows |-> [i \in 1..Min({Len(all), limit}) |-> row(all[i])],
         total |-> Len(all), first |-> Min(pubs), latest |-> Max(pubs)]

\* map_event_lifecycle_history_read and EventLifecycleHistoryRead raise otherwise, and
\* the request fails: every revision but the first needs its one delta, the numbers
\* fall, and the bounds are in order.
Accepted(h) ==
    /\ \A i \in DOMAIN h.rows :
          IF h.rows[i].revision.number > 1 THEN Cardinality(h.rows[i].deltas) = 1
                                           ELSE h.rows[i].deltas = {}
    /\ \A i, j \in DOMAIN h.rows : i < j => h.rows[j].revision.number < h.rows[i].revision.number
    /\ Len(h.rows) <= h.total
    /\ h.first <= h.latest

Next ==
    \/ \E n \in Notice : Publish(n)
    \/ \E W \in SUBSET published : Deliver(W)

Spec == Init /\ [][Next]_vars
-----------------------------------------------------------------------------
(* Properties *)

\* Every stored chain is one that a reader accepts (EventLifecycleHistory): it is
\* numbered from one, opens once, has nothing after its end, goes back neither in
\* publication time nor in source revision, holds no evidence twice, and each of
\* its steps has its delta, whatever the order and overlap of the windows; and every
\* request for a history is answered, with the newest revision first and whole.
ChainValid ==
    /\ \A e \in Event : \A i \in DOMAIN chain[e] :
          /\ chain[e][i].number = i
          /\ (chain[e][i].status = "open") = (i = 1)
          /\ chain[e][i].status \in Ended => i = Len(chain[e])
          /\ \A j \in 1..(i - 1) :
                /\ chain[e][j].notice # chain[e][i].notice
                /\ chain[e][j].notice.pub <= chain[e][i].notice.pub
                /\ RevisionOf(chain[e][j].notice) <= RevisionOf(chain[e][i].notice)
    /\ deltas = UNION {{[event |-> e, from |-> i, to |-> i + 1] : i \in 1..(Len(chain[e]) - 1)} : e \in Event}
    /\ \A e \in Event, limit \in 1..2 : chain[e] # <<>> =>
          LET h == HistoryRows(e, limit)
          IN  Accepted(h) /\ h.rows[1].revision = Last(chain[e]) /\ h.latest = Last(chain[e]).notice.pub

\* The newest publication n of its event that anyone has seen says it ended.
SaysEnded(n) ==
    /\ n \in published /\ n.status \in Ended /\ n.sound
    /\ \A q \in published \cup {chain[n.event][i].notice : i \in DOMAIN chain[n.event]} :
          q.event = n.event => (q = n \/ Before(q, n)) /\ q.pub <= n.pub

\* No delivery rewrites or shortens a chain; and whatever was lost, skipped or out of
\* order before, once one window delivers all that the source serves, an event that has a
\* chain and whose newest publication says it ended, has ended (event_lifecycle.py:144-246).
EndSeen ==
    /\ \A e \in Event : IsPrefix(chain[e], chain'[e])
    /\ Deliver(published) =>
          \A n \in published :
             SaysEnded(n) /\ chain'[n.event] # <<>> => Terminal(chain'[n.event])
EndNotMissed == [][EndSeen]_vars
=============================================================================
