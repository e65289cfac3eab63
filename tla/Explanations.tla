---------------------------- MODULE Explanations ----------------------------
(***************************************************************************)
(* The model-backed endpoints of the API: EventExplanationService with its *)
(* cache of validated explanations, OpenRouterAskClient with its bounded   *)
(* tool loop, and the daily call budget they share in one process.         *)
(*                                                                         *)
(* A behaviour is about one `topic`: a detected event, a reported notice,  *)
(* or a question.  The calls run concurrently; another process revises the *)
(* evidence between their awaits.  What a text says is abstracted to the   *)
(* evidence it was validated against.  For a question the version of the   *)
(* evidence is the present moment: the tables hold what was retrieved by   *)
(* then, and an observation is retrieved at or after the time it is of.    *)
(***************************************************************************)
EXTENDS Naturals, Sequences, FiniteSets

CONSTANTS Calls,         \* the requests of a behaviour
          Askers,        \* those of them that may be questions
          Facts,         \* what the evidence of an event can be (its checksum)
          Numbers,       \* the values a question can be about
          Observations,  \* what the tables come to hold: readings, events, notices, forecasts
          DailyLimit,    \* openrouter_daily_call_limit
          MaxRounds,     \* _MAX_TOOL_ROUNDS
          MaxToolCalls,  \* _MAX_TOTAL_TOOL_CALLS
          MaxPerRound,   \* the tool calls one model message may ask for
          MaxVersions,   \* bound on the versions of the evidence
          LastDay        \* bound on the UTC days

\* What the settings say.
ExplanationAssumption ==
  /\ DailyLimit \in Nat /\ MaxRounds \in Nat /\ MaxToolCalls \in Nat /\ MaxPerRound \in Nat
  /\ MaxVersions \in Nat
  /\ \A t \in {"event", "notice", "ask"} : LastDay[t] \in Nat
  /\ Observations \subseteq [number : Numbers, observed : Nat, retrieved : Nat]
  /\ \A o \in Observations : o.observed <= o.retrieved

None == "none"
Live == 0    \* a question without a map time

VARIABLES
  topic,     \* "event", "notice" or "ask"; never changes
  subject,   \* the current evidence: version, facts, whether it is in force
  cache,     \* the stored explanations: evidence key -> what they were validated on
  budget,    \* calls claimed on each day since the process started
  posted,    \* history: calls sent on each day since the process started
  today,     \* the UTC day
  call,      \* the running requests
  crossed    \* history: evidence whose row was filled by a call it changed under

vars == <<topic, subject, cache, budget, posted, today, call, crossed>>

Topics == {"event", "notice", "ask"}
Days == UNION {0..LastDay[t] : t \in Topics}
Idle == [pc |-> "idle"]

\* The cache key: a detected event's evidence checksum, a notice's revision.
\* Slip: one explanation for an event, whatever its evidence.
KeyOfTheEvent(s) == IF topic = "event" THEN None ELSE s.version
Key(s) == IF topic = "event" THEN s.facts ELSE s.version

\* The same evidence of an event; the same revision of a notice.
Same(s, t) == IF topic = "event" THEN s.facts = t.facts ELSE s.version = t.version

-----------------------------------------------------------------------------
(* DailyCallBudget. *)

Claimable == budget[today] < DailyLimit
Claimed == [budget EXCEPT ![today] = @ + 1]
Sent == [posted EXCEPT ![today] = @ + 1]

-----------------------------------------------------------------------------
(* EventExplanationService.explain and OpenRouterExplanationClient.explain. *)

Keeps == UNCHANGED <<topic, subject, today>>
At(c, l) == [call EXCEPT ![c].pc = l]

\* The row, or the active notice, the request is about; without one it ends in 404.
Explain(c) ==
  /\ topic # "ask" /\ call[c] = Idle
  /\ topic = "notice" => subject.live
  /\ call' = [call EXCEPT ![c] = [pc |-> "evidence", of |-> subject, packet |-> subject,
                                  text |-> None, fallback |-> FALSE]]
  /\ Keeps /\ UNCHANGED <<cache, budget, posted, crossed>>

\* get_event_evidence reads the event again; a notice is not read again.
Gather(c) ==
  /\ topic # "ask" /\ call[c].pc = "evidence"
  /\ call' = [call EXCEPT ![c].pc = "lookup",
                          ![c].packet = IF topic = "event" THEN subject ELSE @]
  /\ Keeps /\ UNCHANGED <<cache, budget, posted, crossed>>

Answered(c, text, fallback) ==
  call' = [call EXCEPT ![c].pc = "answered", ![c].text = text, ![c].fallback = fallback]

CacheHit(c) ==
  /\ topic # "ask" /\ call[c].pc = "lookup"
  /\ Key(call[c].of) \in DOMAIN cache
  /\ Answered(c, cache[Key(call[c].of)], FALSE)
  /\ Keeps /\ UNCHANGED <<cache, budget, posted, crossed>>

\* Without a key, a claim or a citation the deterministic text is the answer: the
\* claim is made before the citations are looked at.
FallBack(c) ==
  /\ topic # "ask" /\ call[c].pc = "lookup"
  /\ Key(call[c].of) \notin DOMAIN cache
  /\ Answered(c, call[c].packet, TRUE)
  /\ \/ UNCHANGED budget
     \/ Claimable /\ budget' = Claimed
  /\ Keeps /\ UNCHANGED <<cache, posted, crossed>>

Post(c) ==
  /\ topic # "ask" /\ call[c].pc = "lookup"
  /\ Key(call[c].of) \notin DOMAIN cache /\ Claimable
  /\ budget' = Claimed /\ posted' = Sent
  /\ call' = At(c, "model")
  /\ Keeps /\ UNCHANGED <<cache, crossed>>

\* A text that cites unknown references, names a number the packet does not hold or
\* gives a cause nobody reported is not used; nor is no answer at all.
Rejected(c) ==
  /\ topic # "ask" /\ call[c].pc = "model"
  /\ Answered(c, call[c].packet, TRUE)
  /\ Keeps /\ UNCHANGED <<cache, budget, posted, crossed>>

Validated(c) ==
  /\ topic # "ask" /\ call[c].pc = "model"
  /\ call' = [call EXCEPT ![c].pc = "store", ![c].text = call[c].packet]
  /\ Keeps /\ UNCHANGED <<cache, budget, posted, crossed>>

\* The first of two concurrent explanations is kept: the other INSERT fails on the
\* unique key, is rolled back, and its caller is still answered with its own text.
Store(c) ==
  /\ topic # "ask" /\ call[c].pc = "store"
  /\ LET k == Key(call[c].of)
         new == k \notin DOMAIN cache
     IN  /\ cache' = (IF new THEN [x \in DOMAIN cache \cup {k} |->
                                     IF x = k THEN call[c].text ELSE cache[x]]
                      ELSE cache)
         /\ crossed' = (IF new /\ ~Same(call[c].packet, call[c].of)
                        THEN crossed \cup {call[c].of.facts} ELSE crossed)
  /\ Answered(c, call[c].text, FALSE)
  /\ Keeps /\ UNCHANGED <<budget, posted>>

-----------------------------------------------------------------------------
(* OpenRouterAskClient.ask: a question, with or without a map time. *)

Present == subject.version
Now(c) == IF call[c].mapTime = Live THEN Present ELSE call[c].mapTime

\* A map time may be in the past or in the future.
Ask(c) ==
  /\ topic = "ask" /\ call[c] = Idle /\ c \in Askers
  /\ \E t \in {Live} \cup 1..MaxVersions :
       call' = [call EXCEPT ![c] =
         [pc |-> "round", mapTime |-> t, rounds |-> 0, tools |-> 0, wanted |-> 0,
          gathered |-> {}, claims |-> {}, asOf |-> 0]]
  /\ Keeps /\ UNCHANGED <<cache, budget, posted, crossed>>

\* AskUnavailableError: the route answers 503.
Unavailable(c) == call' = [call EXCEPT ![c].pc = "refused"]

\* Every round trip claims the budget, the last one too.
Round(c) ==
  /\ topic = "ask" /\ call[c].pc = "round"
  /\ IF call[c].rounds < MaxRounds /\ Claimable
     THEN /\ budget' = Claimed /\ posted' = Sent
          /\ call' = [call EXCEPT ![c].pc = "model", ![c].rounds = @ + 1]
     ELSE Unavailable(c) /\ UNCHANGED <<budget, posted>>
  /\ Keeps /\ UNCHANGED <<cache, crossed>>

\* No answer, an unreadable one, an unknown tool or bad arguments, or an answer that
\* is not the JSON asked for.
ModelFails(c) ==
  /\ topic = "ask" /\ call[c].pc \in {"model", "tools"}
  /\ Unavailable(c)
  /\ Keeps /\ UNCHANGED <<cache, budget, posted, crossed>>

\* The calls of one message, and of the question in all.
WithinLimits(c, n) == n <= MaxPerRound /\ call[c].tools + n <= MaxToolCalls

WantsTools(c) ==
  /\ topic = "ask" /\ call[c].pc = "model"
  /\ \E n \in 1..(MaxPerRound + 1) :
       IF WithinLimits(c, n)
       THEN call' = [call EXCEPT ![c].pc = "tools", ![c].tools = @ + n, ![c].wanted = n]
       ELSE Unavailable(c)
  /\ Keeps /\ UNCHANGED <<cache, budget, posted, crossed>>

\* Slip: the map time is not passed on to the tool.
ReadableLive(c) == {o \in Observations : o.retrieved <= Present}

\* The tools filter by the time a fact is of (observed, published, issued), at most the
\* map time, which the model cannot choose.  They do not filter by when it was retrieved.
Readable(c) == {o \in Observations : o.retrieved <= Present /\ o.observed <= Now(c)}

Earliest(T) == {t \in T : \A u \in T : t <= u}
Latest(T) == {t \in T : \A u \in T : u <= t}
Times(facts) == {f.observed : f \in facts}

\* The current state is of its oldest fact.
StateDates(facts) == Earliest(Times(facts))

\* A series, the evidence of an event and a forecast are of their newest fact; of the
\* active events a notice counts by when it was retrieved.
NewestDates(facts) ==
  UNION {Latest(Times(facts \ notices) \cup {f.retrieved : f \in notices}) :
           notices \in SUBSET facts}

\* A result without facts is of the moment it was asked for, or, a forecast too short for
\* the window, of its issue or the cutoff.
EmptyDates(c, facts) ==
  IF facts # {} THEN {}
  ELSE {Now(c)} \cup Earliest({Now(c), Present}) \cup Times(Readable(c))

\* The dates a result may bear.
Dates(c, facts) == StateDates(facts) \cup NewestDates(facts) \cup EmptyDates(c, facts)

\* One tool; what it finds is some of what there is, and what it gives of that is the
\* first 120 facts, at least one.  It is dated by all it found.
Tool(c) ==
  /\ topic = "ask" /\ call[c].pc = "tools"
  /\ \E found, given \in SUBSET Readable(c), cited \in BOOLEAN :
       /\ given \subseteq found /\ (given = {} => found = {})
       /\ \E at \in Dates(c, found) :
            call' = [call EXCEPT
              ![c].gathered = @ \cup {[at |-> at, facts |-> given, cited |-> cited]},
              ![c].wanted = @ - 1,
              ![c].pc = IF call[c].wanted = 1 THEN "round" ELSE "tools"]
  /\ Keeps /\ UNCHANGED <<cache, budget, posted, crossed>>

\* _validate_final: no answer without evidence and a citation, nor one that claims a
\* number no fact holds (in its unit; a magnitude, gigawatts for megawatts and, once a
\* frequency was read, the nominal 50 Hz count as held); it is dated by the oldest result.
Supported(c, claims) ==
  /\ \E e \in call[c].gathered : e.cited
  /\ \A n \in claims : \E e \in call[c].gathered : \E f \in e.facts : f.number = n
Oldest(es) == CHOOSE t \in {e.at : e \in es} : \A e \in es : t <= e.at

Final(c) ==
  /\ topic = "ask" /\ call[c].pc = "model"
  /\ \E claims \in SUBSET Numbers :
       IF Supported(c, claims)
       THEN call' = [call EXCEPT ![c].pc = "answered", ![c].claims = claims,
                                 ![c].asOf = Oldest(call[c].gathered)]
       ELSE Unavailable(c)
  /\ Keeps /\ UNCHANGED <<cache, budget, posted, crossed>>

-----------------------------------------------------------------------------
(* The rest of the system. *)

\* The detector or the ingestion revises the evidence: a correction may bring back
\* what the evidence was, and a checksum it had.
Revise ==
  /\ subject.version < MaxVersions
  /\ \E f \in Facts \ {subject.facts} :
       subject' = [version |-> subject.version + 1, facts |-> f, live |-> TRUE]
  /\ UNCHANGED <<topic, cache, budget, posted, today, call, crossed>>

\* A detected event is resolved without a new version; a notice stops being active.
Resolve ==
  /\ subject.live /\ subject' = [subject EXCEPT !.live = FALSE]
  /\ UNCHANGED <<topic, cache, budget, posted, today, call, crossed>>

Forget(c) ==
  /\ call[c].pc \in {"answered", "refused"}
  /\ call' = [call EXCEPT ![c] = Idle]
  /\ UNCHANGED <<topic, subject, cache, budget, posted, today, crossed>>

Midnight ==
  /\ today < LastDay[topic] /\ today' = today + 1
  /\ UNCHANGED <<topic, subject, cache, budget, posted, call, crossed>>

\* A restart of the process: its counters and its calls are gone, the rows remain.
Restart ==
  /\ budget' = [d \in Days |-> 0] /\ posted' = [d \in Days |-> 0]
  /\ call' = [c \in Calls |-> Idle]
  /\ UNCHANGED <<topic, subject, cache, today, crossed>>

Init ==
  /\ topic \in Topics
  /\ \E f \in Facts : subject = [version |-> 1, facts |-> f, live |-> TRUE]
  /\ cache = [k \in {} |-> None]
  /\ budget = [d \in Days |-> 0] /\ posted = [d \in Days |-> 0] /\ today = 0
  /\ call = [c \in Calls |-> Idle] /\ crossed = {}

Serve(c) ==
  \/ Explain(c) \/ Gather(c) \/ CacheHit(c) \/ FallBack(c) \/ Post(c) \/ Rejected(c)
  \/ Validated(c) \/ Store(c)
  \/ Ask(c) \/ Round(c) \/ ModelFails(c) \/ WantsTools(c) \/ Tool(c) \/ Final(c)
  \/ Forget(c)

Next == (\E c \in Calls : Serve(c)) \/ Revise \/ Resolve \/ Midnight \/ Restart

Spec == Init /\ [][Next]_vars

-----------------------------------------------------------------------------
(* Properties. *)

\* "Detected-event explanations are cached by evidence checksum": what a request is
\* served, from the cache or from the model, was validated on evidence with the key of
\* the version it is labelled with.  Only where the evidence of a detected event
\* changed between the two reads of the call that wrote the row, or of this call, is
\* that not so: the facts are then of another version than the label.  A notice is
\* read once, so its explanation is always of the revision it names.
ExplanationMatches ==
  topic # "ask" =>
    \A c \in Calls : call[c].pc = "answered" =>
      \/ Same(call[c].text, call[c].of)
      \/ topic = "event" /\ \/ call[c].of.facts \in crossed
                            \/ ~Same(call[c].packet, call[c].of)

\* No more model calls leave the process on a day than the limit, whichever endpoint
\* makes them and however they end.  An answer to a question cites a source, claims
\* only numbers its tools read, and is dated no later than any of their results; asked
\* at a map time, each number it claims is of a fact observed, published or issued by
\* then.  The fact may have been retrieved later (a correction, a late notice), and the
\* answer is dated after its map time only when every result it rests on is dated by the
\* retrieval of such a fact, as the active events are by that of a notice.
AnswerGrounded ==
  /\ \A d \in Days : posted[d] <= DailyLimit
  /\ topic = "ask" =>
       \A c \in Calls : call[c].pc = "answered" =>
         /\ call[c].rounds <= MaxRounds /\ call[c].tools <= MaxToolCalls
         /\ \E e \in call[c].gathered : e.cited
         /\ \A n \in call[c].claims : \E e \in call[c].gathered : \E f \in e.facts :
              f.number = n /\ (call[c].mapTime # Live => f.observed <= call[c].mapTime)
         /\ \A e \in call[c].gathered :
              /\ call[c].asOf <= e.at
              /\ call[c].mapTime # Live /\ call[c].asOf > call[c].mapTime =>
                   \E f \in Observations : f.observed <= call[c].mapTime
                                              /\ f.retrieved = e.at
=============================================================================
