------------------------------ MODULE LocalPlans ------------------------------
(***************************************************************************)
(* The Local plan of GET /v1/local/windows: the stored captures of the     *)
(* national carbon forecast are read back as vintages                      *)
(* (app/api/forecast_vintages.py), the newest fresh vintage that can hold  *)
(* a whole window is chosen (app/api/local_windows.py), and the window of  *)
(* least carbon is found and compared with starting now                    *)
(* (app/charging/planner.py).                                              *)
(*                                                                         *)
(* Time is counted in ticks, PerSlot of them to a half-hour; a point of a  *)
(* forecast covers one half-hour (a slot).  An average over a window is    *)
(* compared through its total, all windows of a request being equally      *)
(* long, so the rounding of floats is not modelled.                        *)
(***************************************************************************)
EXTENDS Integers, Sequences, FiniteSets, FiniteSetsExt, Functions

CONSTANTS
    Curves,         \* the forecasts the source may serve: functions from slots to gCO2/kWh
    PerSlot,        \* ticks in a half-hour
    MaxAge, Lookback,               \* MAX_FORECAST_CAPTURE_AGE and FORECAST_VINTAGE_LOOKBACK, in ticks
    DefaultHorizon, MaxHorizon,     \* DEFAULT_SEARCH_HORIZON and MAX_SEARCH_HORIZON, in slots
    Durations,      \* durations asked for, in slots
    Absolute, Percent,              \* what makes a difference meaningful
    LastSlot, MaxTime, MaxCaptures  \* bounds: slots asked for, ticks, captures

\* A forecast gives an intensity, never below zero, to finitely many slots.
PlanAssumption ==
    /\ PerSlot \in Nat \ {0} /\ Durations \subseteq Nat \ {0}
    /\ MaxAge \in Int /\ Lookback \in Int /\ MaxAge <= Lookback
    /\ DefaultHorizon \in Int
    /\ \A c \in Curves : /\ IsFiniteSet(DOMAIN c) /\ DOMAIN c \subseteq Int
                         /\ \A k \in DOMAIN c : c[k] \in Nat

VARIABLES now, captures, answer

vars == <<now, captures, answer>>

Default == <<>>    \* the parameter is omitted; otherwise <<slot>>
NoAnswer == [status |-> "none"]
Refusal(reason, earliest, latest, duration) ==
    [status |-> reason, earliest |-> earliest, latest |-> latest, duration |-> duration]

Slot(t) == t \div PerSlot
NextSlot(t) == (t + PerSlot - 1) \div PerSlot

-----------------------------------------------------------------------------
(* The planner *)

Gap == -1

\* The walk of a window: by the point that covers the cursor, to the end of that point.
Total(points, from, until) ==
    LET walk[cursor \in from..until] ==
            IF cursor = until THEN 0
            ELSE IF Slot(cursor) \notin DOMAIN points THEN Gap
            ELSE LET end == Min({(Slot(cursor) + 1) * PerSlot, until})
                 IN  IF walk[end] = Gap THEN Gap
                     ELSE points[Slot(cursor)] * (end - cursor) + walk[end]
    IN  walk[from]

\* How the recommendation, of total `best', compares with starting now.
Comparison(startNow, best, length) ==
    LET delta == startNow - best
    IN  IF startNow = Gap THEN "found"
        ELSE IF /\ startNow > 0
                /\ delta >= Absolute * length
                /\ delta * 100 >= Percent * startNow
        THEN "lower"
        ELSE "similar"

Plan(vintage, duration, earliest, latest) ==
    LET length == duration * PerSlot
        total[s \in earliest..(latest - duration)] ==
            Total(vintage.points, s * PerSlot, s * PerSlot + length)
        complete == {s \in DOMAIN total : total[s] # Gap}
        best == CHOOSE s \in complete : \A o \in complete :
                    total[s] < total[o] \/ (total[s] = total[o] /\ s <= o)
    IN  IF complete = {}
        THEN Refusal("insufficient", earliest, latest, duration)
        ELSE [status |-> Comparison(Total(vintage.points, now, now + length), total[best], length),
              capture |-> vintage.at, start |-> best,
              earliest |-> earliest, latest |-> latest, duration |-> duration]

-----------------------------------------------------------------------------
(* The vintages *)

HorizonEnd(vintage) == Max(DOMAIN vintage.points) + 1

\* The rows visible at `now', by capture; later captures have higher numbers.
Vintages(latest) ==
    LET read(c) == [at |-> c.at,
                    points |-> Restrict(c.curve, DOMAIN c.curve \cap (Slot(now)..(latest - 1)))]
    IN  [i \in {j \in DOMAIN captures : /\ now - captures[j].at <= Lookback
                                       /\ DOMAIN read(captures[j]).points # {}}
           |-> read(captures[i])]

\* Slip: the newest vintage that reaches far enough, complete or not.
SelectNewest(vintages, duration, earliest, latest, defaulted) ==
    LET finish(v) == IF defaulted THEN Min({latest, HorizonEnd(v)}) ELSE latest
        tried == {i \in DOMAIN vintages : finish(vintages[i]) - earliest >= duration}
        newest == vintages[Max(tried)]
    IN  IF tried = {}
        THEN Refusal("unusable", earliest, latest, duration)
        ELSE Plan(newest, duration, earliest, finish(newest))

\* The newest vintage with a whole window; or else the newest that reaches far enough.
Select(vintages, duration, earliest, latest, defaulted) ==
    LET finish(v) == IF defaulted THEN Min({latest, HorizonEnd(v)}) ELSE latest
        tried == {i \in DOMAIN vintages : finish(vintages[i]) - earliest >= duration}
        plan(i) == Plan(vintages[i], duration, earliest, finish(vintages[i]))
        usable == {i \in tried : plan(i).status # "insufficient"}
    IN  IF tried = {}
        THEN Refusal(IF defaulted THEN "short" ELSE "unusable", earliest, latest, duration)
        ELSE plan(Max(IF usable # {} THEN usable ELSE tried))

Answer(duration, earliest, latest, defaulted) ==
    LET vintages == Vintages(latest)
        fresh == Restrict(vintages, {i \in DOMAIN vintages : now - vintages[i].at <= MaxAge})
    IN  IF DOMAIN vintages = {} THEN Refusal("missing", earliest, latest, duration)
        ELSE IF DOMAIN fresh = {} THEN Refusal("stale", earliest, latest, duration)
        ELSE Select(fresh, duration, earliest, latest, defaulted)

ValidSpan(duration, earliest, latest) ==
    /\ earliest >= NextSlot(now)
    /\ latest > earliest
    /\ latest - earliest >= duration
    /\ latest - earliest <= MaxHorizon

-----------------------------------------------------------------------------
Init ==
    /\ now = 0
    /\ captures = <<>>
    /\ answer = NoAnswer

\* A poll of the national forecast is committed; its rows carry the time of retrieval as
\* their time of issue, so no row of an earlier capture is revised.
Capture(curve) ==
    /\ Len(captures) < MaxCaptures
    /\ \A i \in DOMAIN captures : captures[i].at < now
    /\ captures' = Append(captures, [at |-> now, curve |-> curve])
    /\ answer' = NoAnswer
    /\ UNCHANGED now

Ask(duration, earliest, latest) ==
    LET from == IF earliest = Default THEN NextSlot(now) ELSE earliest[1]
        until == IF latest = Default THEN NextSlot(now) + DefaultHorizon ELSE latest[1]
    IN  /\ answer = NoAnswer      \* an answer leaves nothing that the next one reads
        /\ answer' = IF ValidSpan(duration, from, until)
                     THEN Answer(duration, from, until, latest = Default)
                     ELSE [status |-> "invalid"]
        /\ UNCHANGED <<now, captures>>

Tick ==
    /\ now < MaxTime
    /\ now' = now + 1
    /\ answer' = NoAnswer
    /\ UNCHANGED captures

Bounds == {Default} \cup {<<s>> : s \in 0..LastSlot}

Next ==
    \/ \E c \in Curves : Capture(c)
    \/ \E d \in Durations, e, l \in Bounds : Ask(d, e, l)
    \/ Tick

Spec == Init /\ [][Next]_vars

-----------------------------------------------------------------------------
(* Properties.  They speak of the captures themselves, tick by tick. *)

Carbon(c, from, until) == MapThenSumSet(LAMBDA t : c.curve[Slot(t)], from..(until - 1))

\* The starts, within the bounds, of the windows that capture c covers whole.
Windows(c) ==
    {s \in answer.earliest..(answer.latest - answer.duration) :
        s..(s + answer.duration - 1) \subseteq DOMAIN c.curve}

Of(c, s) == Carbon(c, s * PerSlot, (s + answer.duration) * PerSlot)

Fresh == {i \in DOMAIN captures : now - captures[i].at <= MaxAge}

\* A recommended window comes whole from one capture taken at most MaxAge ago, the newest
\* that has a whole window within the bounds, and no window of that capture within the
\* bounds has less carbon, nor as little and an earlier start; it is called lower only if
\* the same capture covers the appliance from this very moment and the difference is
\* meaningful.  A plan is refused for want of a forecast only when no fresh capture has a
\* whole window within the bounds.
PlanIsBest ==
    /\ answer.status \in {"lower", "similar", "found"} =>
        \E i \in Fresh :
            LET c == captures[i]
                length == answer.duration * PerSlot
                delta == Carbon(c, now, now + length) - Of(c, answer.start)
            IN  /\ c.at = answer.capture
                /\ answer.start \in Windows(c)
                /\ \A s \in Windows(c) :
                        \/ Of(c, answer.start) < Of(c, s)
                        \/ Of(c, answer.start) = Of(c, s) /\ answer.start <= s
                /\ \A j \in (i + 1)..Len(captures) : Windows(captures[j]) = {}
                /\ answer.status = "lower" =>
                        /\ Slot(now)..Slot(now + length - 1) \subseteq DOMAIN c.curve
                        /\ delta >= Absolute * length
                        /\ delta * 100 >= Percent * Carbon(c, now, now + length)
    /\ answer.status \in {"missing", "stale", "short", "unusable", "insufficient"} =>
        \A i \in Fresh : Windows(captures[i]) = {}
=============================================================================
