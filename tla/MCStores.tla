------------------------------ MODULE MCStores ------------------------------
(***************************************************************************)
(* What the worker takes from its sources and what its transactions leave  *)
(* in its stores, checked by TLC in one run: the feeds (MCFeeds), the      *)
(* revision ledger, the chains of reported notices, the tables of the      *)
(* present, the raw documents.  No guard of one reads another, so a        *)
(* behaviour follows the one it chose at the start, and the variables of   *)
(* the others stay at Unused.                                              *)
(***************************************************************************)
EXTENDS RevisionLedger, MCFeeds

CONSTANTS MaxRev,        \* bound on the revisions of an identity
          Event, Key, Time, Ended, Lively, MaxPublications,
          Tables, Refs, Periods, PageSize, MaxRecords, Limit, MaxChanges, MaxStores,
          Source, Content, BatchSize, MaxBatches, MaxFaults

\* A REMIT message carries a revision number, a system warning may carry none.
Revision == [e \in Event |-> [k \in Key |-> IF e = "remit" THEN k ELSE 0]]

VARIABLES
  store,                                                    \* never changes
  published, count, chain, deltas,                          \* EventLifecycle
  table, served, fetch, incidents, reader, assets, segments,
  newest, changes, stores,                                  \* CurrentTables
  docs, expired, poll, pass, faults                         \* Retention

Notices == INSTANCE EventLifecycle
Current == INSTANCE CurrentTables
Raw == INSTANCE Retention

ASSUME NoticeSettings == Notices!EventLifecycleAssumption
ASSUME CurrentSettings == Current!CurrentAssumption

Unused == "unused"
NoNotices == published = Unused /\ count = Unused /\ chain = Unused /\ deltas = Unused
NoCurrent == /\ table = Unused /\ served = Unused /\ fetch = Unused /\ incidents = Unused
             /\ reader = Unused /\ assets = Unused /\ segments = Unused /\ newest = Unused
             /\ changes = Unused /\ stores = Unused
NoFeeds == /\ kind = Idle /\ call = Idle /\ feed = Idle /\ source = Idle /\ rows = Idle
           /\ outcome = Idle /\ NoFacts /\ NoWhole
NoRaw == docs = Unused /\ expired = Unused /\ poll = Unused /\ pass = Unused /\ faults = Unused

noticeVars == <<published, count, chain, deltas>>
currentVars == <<table, served, fetch, incidents, reader, assets, segments, newest, changes, stores>>
rawVars == <<docs, expired, poll, pass, faults>>
allvars == <<store, ledger, noticeVars, currentVars, rawVars, feedVars>>

StoresInit ==
  \/ store = "ledger" /\ Init /\ NoNotices /\ NoCurrent /\ NoRaw /\ NoFeeds
  \/ store = "notices" /\ ledger = {} /\ Notices!Init /\ NoCurrent /\ NoRaw /\ NoFeeds
  \/ store = "current" /\ ledger = {} /\ NoNotices /\ Current!Init /\ NoRaw /\ NoFeeds
  \/ store = "raw" /\ ledger = {} /\ NoNotices /\ NoCurrent /\ Raw!Init /\ NoFeeds
  \/ store = "feeds" /\ ledger = {} /\ NoNotices /\ NoCurrent /\ NoRaw /\ FeedsInit

StoresNext ==
  \/ /\ store = "ledger" /\ Next /\ \A r \in ledger' : r.rev <= MaxRev
     /\ UNCHANGED <<store, noticeVars, currentVars, rawVars, feedVars>>
  \/ /\ store = "notices" /\ Notices!Next
     /\ UNCHANGED <<store, ledger, currentVars, rawVars, feedVars>>
  \/ /\ store = "current" /\ Current!Next
     /\ UNCHANGED <<store, ledger, noticeVars, rawVars, feedVars>>
  \/ /\ store = "raw" /\ Raw!Next
     /\ UNCHANGED <<store, ledger, noticeVars, currentVars, feedVars>>
  \/ /\ store = "feeds" /\ FeedsNext
     /\ UNCHANGED <<store, ledger, noticeVars, currentVars, rawVars>>

\* Only the raw documents need fairness: see Retention.
NotRaw == <<store, ledger, noticeVars, currentVars, feedVars>>
RawPoll(s) == store = "raw" /\ Raw!Poll(s) /\ UNCHANGED NotRaw
RawPass == store = "raw" /\ Raw!Pass /\ UNCHANGED NotRaw

StoresSpec == /\ StoresInit /\ [][StoresNext]_allvars
              /\ WF_allvars(RawPass) /\ \A s \in Source : WF_allvars(RawPoll(s))

\* EventLifecycle, ChainValid: every chain is one that a reader accepts.
ChainValid == store = "notices" => Notices!ChainValid

\* EventLifecycle, EndNotMissed: chains are only appended to, and an event whose newest
\* publication says it ended has ended, once one window delivers all that the source serves.
EndNotMissed == [][store = "notices" => Notices!EndSeen]_allvars

\* CurrentTables, CurrentIsNewest: the tables of the present say what the newest
\* deliveries say.
CurrentIsNewest == store = "current" => Current!CurrentIsNewest

\* Retention, BacklogDrains: every document past its retention is deleted, or shared
\* by a later transaction.
BacklogDrains ==
  \A d \in Raw!Document :
    (store = "raw" /\ Raw!Overdue(d))
      ~> (store = "raw" => ~Raw!Overdue(d) \/ Raw!Shared(d))
=============================================================================
