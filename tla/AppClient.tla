------------------------------ MODULE AppClient ------------------------------
(***************************************************************************)
(* The iOS client's path from a screen to the server and back: the loads   *)
(* of AppModel (main actor), the shared in-flight tasks of                 *)
(* HTTPGridRepository (an actor), the two-file entries of GridDiskCache    *)
(* (an actor) and the conditional GET that joins them to the server.       *)
(*                                                                         *)
(* One behaviour is about one screen, `screen`, chosen at the start: the   *)
(* screens have their own published fields, task tables and cache keys.    *)
(* Code between two awaits is one step; another actor may run at an await. *)
(***************************************************************************)
EXTENDS Naturals, FiniteSets

CONSTANTS Loads,      \* the calls that may be running at once
          Requests,   \* the requests a screen can make
          Contents,   \* the bodies the server may serve, other than Broken
          Scenarios   \* what a behaviour may hold: screen, keys,
                      \* loads, changes, faults

None == "none"
Broken == "broken"    \* a body outside the app's contract

VARIABLES
  scene,      \* the member of Scenarios the behaviour is in; never changes
  server,     \* what the server holds for each request
  disk,       \* the entry of each request: its body file and its metadata file
  task,       \* the repository's in-flight task of each request
  load,       \* the running calls of AppModel's load functions
  visible,    \* whether the screen is on display
  asked,      \* the request the screen is about
  shown,      \* the answers on display
  phase,      \* the load phase of the screen
  busy,       \* the requests the "is refreshing" flag, or set of dates, stands for
  failed,     \* whether the error message is set
  left,       \* the server changes and faults left to the behaviour
  torn        \* the requests whose entry was once cut between its two files

vars == <<scene, server, disk, task, load, visible, asked, shown, phase, busy,
          failed, left, torn>>

screen == scene.screen
Keys == scene.keys
Idle == [pc |-> "idle"]
NoTask == [pc |-> "none"]
NoEntry == [body |-> None, etag |-> None]

ScenarioAssumption ==
  /\ None \notin Contents /\ Broken \notin Contents
  /\ \A s \in Scenarios : s.screen \in {"windows", "region", "resolution"}
                          /\ s.keys \subseteq Requests /\ s.loads \subseteq Loads

-----------------------------------------------------------------------------
(* The disk cache. *)

\* entry(for:): both files, or nothing.
Entry(r) == IF disk[r].body = None \/ disk[r].etag = None THEN NoEntry ELSE disk[r]

\* Writes the body and then its metadata; Cut leaves the old metadata.
Stored(r, c) == [disk EXCEPT ![r] = [body |-> c, etag |-> c]]
CutStored(r, c) == [disk EXCEPT ![r].body = c]
Removed(r) == [disk EXCEPT ![r] = NoEntry]

-----------------------------------------------------------------------------
(* What a screen's load function assigns. *)

Has(r) == \E s \in shown : s.req = r

\* The screens with one published field replace it; the Notebook holds a result
\* for each date.
Put(r, c, fromCache) ==
  (IF screen = "resolution" THEN {s \in shown : s.req # r} ELSE {})
    \cup {[req |-> r, content |-> c, cached |-> fromCache]}

Cleared(r) == IF screen = "resolution" THEN {s \in shown : s.req # r} ELSE {}

\* The Notebook's results have no phase of their own.
PhaseOr(p) == IF screen = "resolution" THEN phase ELSE p

\* The check after an await: the call was not cancelled and its request is still
\* the one asked for. loadRegion makes no such check, and the Notebook's results
\* are kept by date.
\* Slip: the check looks at cancellation alone.
AliveIfNotCancelled(l) == ~load[l].cancelled
Alive(l) ==
  CASE screen = "windows"    -> ~load[l].cancelled /\ asked = load[l].req
    [] screen = "resolution" -> ~load[l].cancelled
    [] screen = "region"     -> TRUE

\* The defer of each load function.
\* Slip: the flag is cleared by a call that ended, whatever it was for, only if it
\* was not cancelled.
ReleasedUnlessCancelled(l) ==
  IF screen = "windows"
  THEN IF asked = load[l].req /\ ~load[l].cancelled THEN {} ELSE busy
  ELSE busy \ {load[l].req}
Released(l) ==
  IF screen = "windows"
  THEN IF asked = load[l].req THEN {} ELSE busy
  ELSE busy \ {load[l].req}

End(l) == load' = [load EXCEPT ![l] = Idle] /\ busy' = Released(l)

-----------------------------------------------------------------------------
(* The load functions of AppModel. *)

\* A call for request r up to its first await. `auto` is set for a call the view's
\* .task owns, which SwiftUI cancels; a button's call nobody cancels.
Started(r, pc, auto) ==
  [pc |-> pc, req |-> r, got |-> None, auto |-> auto, owner |-> FALSE,
   cancelled |-> FALSE]

BeginWindows(l, r, auto) ==
  /\ asked' = r /\ failed' = FALSE /\ busy' = {r}
  /\ shown' = (IF Has(r) THEN shown ELSE {})
  /\ phase' = (IF Has(r) THEN "loaded" ELSE "loading")
  /\ load' = [load EXCEPT ![l] = Started(r, IF Has(r) THEN "join" ELSE "cache", auto)]

BeginRegion(l, r, auto) ==
  /\ asked' = r /\ failed' = FALSE
  /\ load' = [load EXCEPT ![l] = Started(r, IF Has(r) THEN "join" ELSE "cache", auto)]
  /\ UNCHANGED <<shown, phase, busy>>

BeginResolution(l, r, auto) ==
  /\ r \notin busy
  /\ asked' = r /\ failed' = FALSE /\ busy' = busy \cup {r}
  /\ shown' = (IF Has(r) THEN shown ELSE Cleared(r))
  /\ load' = [load EXCEPT ![l] = Started(r, IF Has(r) THEN "join" ELSE "cache", auto)]
  /\ UNCHANGED phase

Begin(l, r, auto) ==
  /\ load[l] = Idle /\ l \in scene.loads
  /\ CASE screen = "windows"    -> BeginWindows(l, r, auto)
       [] screen = "region"     -> BeginRegion(l, r, auto)
       [] screen = "resolution" -> BeginResolution(l, r, auto)

\* The cached value is read and decoded by the repository; a value that does not
\* match its request is removed.
ReadCached(l) ==
  /\ load[l].pc = "cache"
  /\ LET r == load[l].req
         e == Entry(r)
         good == e # NoEntry /\ e.body # Broken
     IN  /\ load' = [load EXCEPT ![l].pc = "cached",
                                 ![l].got = IF good THEN e.body ELSE None]
         /\ disk' = (IF e # NoEntry /\ e.body = Broken THEN Removed(r) ELSE disk)
  /\ UNCHANGED <<scene, server, task, visible, asked, shown, phase, busy, failed,
                 left, torn>>

\* Back on the main actor with the cached value.
UseCached(l) ==
  /\ load[l].pc = "cached"
  /\ LET r == load[l].req
         c == load[l].got
     IN  IF ~Alive(l)
         THEN End(l) /\ UNCHANGED <<shown, phase>>
         ELSE /\ load' = [load EXCEPT ![l].pc = "join", ![l].got = None]
              /\ shown' = (IF c # None THEN Put(r, c, TRUE)
                           ELSE IF screen = "region" THEN {} ELSE shown)
              /\ phase' = PhaseOr(IF c # None THEN "loaded" ELSE "loading")
              /\ UNCHANGED busy
  /\ UNCHANGED <<scene, server, disk, task, visible, asked, failed, left, torn>>

\* The repository joins the task in flight for the request, or creates it; a
\* cancelled creator cancels it at once.
Join(l) ==
  /\ load[l].pc = "join"
  /\ LET r == load[l].req
     IN  CASE task[r].pc = "none" ->
                /\ task' = [task EXCEPT ![r] =
                     [pc |-> "read", cancelled |-> load[l].cancelled, entry |-> NoEntry,
                      content |-> None, truth |-> None, ok |-> FALSE]]
                /\ load' = [load EXCEPT ![l].pc = "wait", ![l].owner = TRUE]
           [] task[r].pc = "done" ->
                /\ load' = [load EXCEPT ![l].pc = "answered", ![l].got = task[r]]
                /\ UNCHANGED task
           [] OTHER ->
                /\ load' = [load EXCEPT ![l].pc = "wait"]
                /\ UNCHANGED task
  /\ UNCHANGED <<scene, server, disk, visible, asked, shown, phase, busy, failed,
                 left, torn>>

\* The creator's `defer` empties the table entry on its way back.
Leave(l) ==
  /\ load[l].pc = "owner"
  /\ load' = [load EXCEPT ![l].pc = "answered"]
  /\ task' = [task EXCEPT ![load[l].req] = NoTask]
  /\ UNCHANGED <<scene, server, disk, visible, asked, shown, phase, busy, failed,
                 left, torn>>

\* Back on the main actor with the repository's answer or error. A cancelled
\* answer is silent, except in loadRegion when the call itself was not cancelled.
Finish(l) ==
  /\ load[l].pc = "answered"
  /\ LET r == load[l].req
         answer == load[l].got
         silent == \/ ~Alive(l)
                   \/ load[l].cancelled
                   \/ screen # "region" /\ answer.cancelled
     IN  IF answer.ok /\ Alive(l)
         THEN /\ shown' = Put(r, answer.content, FALSE)
              /\ phase' = PhaseOr("loaded")
              /\ failed' = (IF screen = "region" THEN failed ELSE FALSE)
         ELSE IF ~answer.ok /\ ~silent
         THEN /\ failed' = TRUE
              /\ phase' = PhaseOr(IF shown = {} THEN "failed" ELSE "loaded")
              /\ UNCHANGED shown
         ELSE UNCHANGED <<shown, phase, failed>>
  /\ End(l)
  /\ UNCHANGED <<scene, server, disk, task, visible, asked, left, torn>>

-----------------------------------------------------------------------------
(* The repository's task for a request: HTTPGridRepository.fetch and the match *)
(* check of its caller.                                                        *)

\* The task ends with `result`; every call that awaits it is handed the result.
Ended(r, result) ==
  /\ task' = [task EXCEPT ![r] = result]
  /\ load' = [l \in Loads |->
       IF load[l].pc = "wait" /\ load[l].req = r
       THEN [load[l] EXCEPT !.pc = IF load[l].owner THEN "owner" ELSE "answered",
                            !.got = result]
       ELSE load[l]]

Result(ok, content, truth, cancelled) ==
  [pc |-> "done", ok |-> ok, content |-> content, truth |-> truth,
   cancelled |-> cancelled]

Fails(r) == Ended(r, Result(FALSE, None, None, FALSE))

IsCancelled(r) == Ended(r, Result(FALSE, None, None, TRUE))
Answers(r, c) == Ended(r, Result(TRUE, c, task[r].truth, FALSE))

Unchanged == UNCHANGED <<scene, visible, asked, shown, phase, busy, failed>>

\* The entry is read before the request is made.
TaskRead(r) ==
  /\ task[r].pc = "read"
  /\ task' = [task EXCEPT ![r].pc = "send", ![r].entry = Entry(r)]
  /\ UNCHANGED <<load, server, disk, left, torn>> /\ Unchanged

\* ConditionalJSONMiddleware compares If-None-Match with the checksum of the body it
\* would send, and answers 304 without a body when they are equal.
\* Slip: any conditional request is answered 304.
NotModifiedWhenAsked(e, body) == e # NoEntry
NotModified(e, body) == e # NoEntry /\ e.etag = body

TaskSend(r) ==
  /\ task[r].pc = "send" /\ ~task[r].cancelled
  /\ LET e == task[r].entry
         body == IF NotModified(e, server[r]) THEN None ELSE server[r]
     IN  task' = [task EXCEPT ![r].pc = "reply", ![r].content = body,
                              ![r].truth = server[r]]
  /\ UNCHANGED <<load, server, disk, left, torn>> /\ Unchanged

\* No answer, a status that is not a success, or an unreadable one.
TaskTransportFails(r) ==
  /\ task[r].pc = "send" /\ ~task[r].cancelled
  /\ Fails(r)
  /\ UNCHANGED <<server, disk, left, torn>> /\ Unchanged

\* The cancellation checks before and after the request.
TaskCancelled(r) ==
  /\ task[r].pc \in {"send", "reply"} /\ task[r].cancelled
  /\ IsCancelled(r)
  /\ UNCHANGED <<server, disk, left, torn>> /\ Unchanged

\* 304: the entry read before the request is the answer.
TaskNotModified(r) ==
  /\ task[r].pc = "reply" /\ ~task[r].cancelled /\ task[r].content = None
  /\ task' = [task EXCEPT ![r].pc = "match", ![r].content = task[r].entry.body]
  /\ UNCHANGED <<load, server, disk, left, torn>> /\ Unchanged

\* 200: the body is decoded and stored, its metadata after it. A region outside the
\* contract does not decode; the other answers decode and are matched afterwards.
Decodes(c) == ~(screen = "region" /\ c = Broken)

TaskUndecodable(r) ==
  /\ task[r].pc = "reply" /\ ~task[r].cancelled /\ task[r].content # None
  /\ ~Decodes(task[r].content)
  /\ Fails(r)
  /\ UNCHANGED <<server, disk, left, torn>> /\ Unchanged

TaskStore(r) ==
  /\ task[r].pc = "reply" /\ ~task[r].cancelled /\ task[r].content # None
  /\ Decodes(task[r].content)
  /\ disk' = Stored(r, task[r].content)
  /\ task' = [task EXCEPT ![r].pc = "match"]
  /\ UNCHANGED <<load, server, left, torn>> /\ Unchanged

\* The body is written and its metadata is not: the second write throws, and the
\* error takes the place of the answer.
TaskStoreCut(r) ==
  /\ left.faults > 0
  /\ task[r].pc = "reply" /\ ~task[r].cancelled /\ task[r].content # None
  /\ Decodes(task[r].content)
  /\ disk' = CutStored(r, task[r].content)
  /\ torn' = torn \cup {r}
  /\ left' = [left EXCEPT !.faults = @ - 1]
  /\ Fails(r)
  /\ UNCHANGED server /\ Unchanged

\* The answer is matched with its request; a mismatch is removed from the cache.
TaskMatch(r) ==
  /\ task[r].pc = "match"
  /\ IF task[r].content = Broken
     THEN disk' = Removed(r) /\ Fails(r)
     ELSE Answers(r, task[r].content) /\ UNCHANGED disk
  /\ UNCHANGED <<server, left, torn>> /\ Unchanged

Task(r) ==
  \/ TaskRead(r) \/ TaskSend(r) \/ TaskTransportFails(r) \/ TaskCancelled(r)
  \/ TaskNotModified(r) \/ TaskUndecodable(r) \/ TaskStore(r) \/ TaskStoreCut(r)
  \/ TaskMatch(r)

-----------------------------------------------------------------------------
(* The reader, the server and the operating system. *)

\* SwiftUI cancels the calls a view's .task owns; a cancelled creator cancels the
\* repository's task.
CancelAuto ==
  LET stopped == {l \in Loads : load[l] # Idle /\ load[l].auto}
  IN  /\ load' = [l \in Loads |->
            IF l \in stopped THEN [load[l] EXCEPT !.cancelled = TRUE] ELSE load[l]]
      /\ task' = [r \in Requests |->
            IF \E l \in stopped : load[l].req = r /\ load[l].owner /\ load[l].pc = "wait"
            THEN [task[r] EXCEPT !.cancelled = TRUE] ELSE task[r]]

\* The screen comes on display and its .task runs: the Plan screen loads its windows
\* only when none were ever asked for; the Notebook waits until no request for the
\* date is running.
Appear(l, r) ==
  /\ ~visible /\ visible' = TRUE
  /\ screen = "region" /\ asked # None => r = asked
  /\ IF screen = "windows" /\ asked # None
     THEN UNCHANGED <<asked, shown, phase, busy, failed, load>>
     ELSE Begin(l, r, TRUE)
  /\ UNCHANGED <<scene, server, disk, task, left, torn>>

Disappear ==
  /\ visible /\ visible' = FALSE
  /\ CancelAuto
  /\ UNCHANGED <<scene, server, disk, asked, shown, phase, busy, failed, left, torn>>

\* A button or a menu of the screen: the region's retry repeats the request asked
\* for, the planner's controls may ask for another.
Press(l, r) ==
  /\ visible /\ screen \in {"windows", "region"}
  /\ screen = "region" => r = asked
  /\ Begin(l, r, FALSE)
  /\ UNCHANGED <<scene, server, disk, task, visible, left, torn>>

\* The saved postcode changes: .task(id:) cancels its call, and the next one starts.
ChangePostcode ==
  /\ visible /\ screen = "region"
  /\ \E r \in Keys \ {asked} : asked' = r
  /\ visible' = FALSE
  /\ CancelAuto
  /\ UNCHANGED <<scene, server, disk, shown, phase, busy, failed, left, torn>>

ServerChanges ==
  /\ left.changes > 0
  /\ \E r \in Keys, c \in Contents \cup {Broken} :
       c # server[r] /\ server' = [server EXCEPT ![r] = c]
  /\ left' = [left EXCEPT !.changes = @ - 1]
  /\ UNCHANGED <<disk, task, load, torn>> /\ Unchanged

\* iOS ends the app: what was published and in flight is gone, the files remain.
Terminate ==
  /\ left.faults > 0
  /\ left' = [left EXCEPT !.faults = @ - 1]
  /\ task' = [r \in Requests |-> NoTask] /\ load' = [l \in Loads |-> Idle]
  /\ visible' = FALSE /\ asked' = None /\ shown' = {} /\ phase' = "loading"
  /\ busy' = {} /\ failed' = FALSE
  /\ UNCHANGED <<scene, server, disk, torn>>

Init ==
  /\ scene \in Scenarios
  /\ \E c \in Contents : server = [r \in Requests |-> c]
  /\ disk = [r \in Requests |-> NoEntry]
  /\ task = [r \in Requests |-> NoTask]
  /\ load = [l \in Loads |-> Idle]
  /\ visible = FALSE /\ asked = None /\ shown = {} /\ phase = "loading"
  /\ busy = {} /\ failed = FALSE
  /\ left = [changes |-> scene.changes, faults |-> scene.faults]
  /\ torn = {}

Call(l) == ReadCached(l) \/ UseCached(l) \/ Join(l) \/ Leave(l) \/ Finish(l)

User == \/ Disappear \/ ChangePostcode
        \/ \E l \in Loads, r \in Keys : Appear(l, r) \/ Press(l, r)

Next == \/ \E l \in Loads : Call(l)
        \/ \E r \in Keys : Task(r)
        \/ User \/ ServerChanges \/ Terminate

Spec == Init /\ [][Next]_vars

-----------------------------------------------------------------------------
(* Properties. *)

\* The plan on display answers the request on display and respects the contract,
\* whatever calls for other requests are still running, were cancelled, or come back
\* late: loadLocalWindows looks at its request again after every await.
ShownIsAsked ==
  /\ screen = "windows" => \A s \in shown : s.req = asked
  /\ \A s \in shown : s.content # Broken

\* When no call runs, the refreshing flag and the set of loading dates are clear: the
\* call that set the flag, or the one that took it over, cleared it.
NoStuckFlag == (\A l \in Loads : load[l] = Idle) => busy = {}

\* An answer the app takes as confirmed is what the server held when it answered,
\* also when the server said "not modified" and the body came from disk, as long as
\* no write ever cut the entry between its two files.
ConfirmedIsServed ==
  \A l \in Loads :
    load[l].pc = "answered" /\ load[l].got.ok /\ load[l].req \notin torn
      => load[l].got.content = load[l].got.truth
=============================================================================
