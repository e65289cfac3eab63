------------------------------ MODULE MCSurface ------------------------------
(***************************************************************************)
(* What the readers of the service meet, checked by TLC in one run: the    *)
(* iOS client's loads and its reminders, the rate limits, explanations     *)
(* and questions, the daily prediction, the charging planner, and the read *)
(* models that MCReads composes.  They share no state with each other: a   *)
(* behaviour follows the part it chose at the start, and the variables of  *)
(* the others stay at Unused.  `now', `call' and `shown' belong to         *)
(* whichever part has a variable of that name.                             *)
(***************************************************************************)
EXTENDS RateLimit, MCReads

CONSTANTS Loads, Requests, Contents,                                  \* AppClient
          Subjects, ReminderTime,                                     \* Reminders
          Calls, Askers, Facts, Numbers, Observations, DailyLimit, MaxRounds,
          MaxToolCalls, MaxPerRound, MaxVersions,                     \* Explanations
          Registries, Feeds, Flows, Band, Target, Reach, MaxReadings,
          GameTime,                                                   \* PredictionGame
          PerSlot, MaxAge, Lookback, DefaultHorizon, MaxHorizon,
          Durations, Absolute, Percent, LastSlot, PlanTime, MaxCaptures  \* LocalPlans

Scene(s, k, n, c, f) == [screen |-> s, keys |-> k, loads |-> 1..n, changes |-> c, faults |-> f]

\* Two requests that overlap, or one while the server and the files change.
Scenarios ==
  {Scene("windows", {"p", "q"}, 2, 0, 0), Scene("windows", {"p"}, 2, 1, 0),
   Scene("windows", {"p"}, 1, 2, 1), Scene("region", {"p", "q"}, 2, 0, 0),
   Scene("region", {"p"}, 1, 1, 1), Scene("resolution", {"p", "q"}, 2, 0, 0),
   Scene("resolution", {"p"}, 2, 1, 1)}

\* A question may see its UTC day end; the other topics need one day.
LastDay == [event |-> 0, notice |-> 0, ask |-> 1]

\* One of each moment retrieved at once, and one retrieved late.
Seen(n, o, r) == [number |-> n, observed |-> o, retrieved |-> r]
ThreeObservations == {Seen("n", 1, 1), Seen("m", 1, 2), Seen("n", 2, 2)}

\* Forecasts with a gap, too short, and flat enough for no difference to count.
Curves == UNION {[S -> {5, 206}] : S \in {1..3, {0, 2, 3}}} \cup [0..2 -> {200, 206}]

TwoEach == [p \in Policies |-> 2]
ThreeInAll == [p \in Policies |-> 3]
OutAndIn == {-60, 40}

VARIABLES
  part,                                                   \* never changes
  shown,                                                  \* AppClient or Reminders
  scene, server, disk, task, load, visible, asked, phase, busy, failed, left, torn,
  coordinator, allowed, pending, stored, pressed, refresh, overlapped,
  call,                                                   \* Explanations or PredictionGame
  topic, subject, cache, budget, posted, today, crossed,
  Connectors, clock, readings, ledger, lock,
  captures, answer

App == INSTANCE AppClient
Reminder == INSTANCE Reminders WITH MaxTime <- ReminderTime
Explaining == INSTANCE Explanations
Game == INSTANCE PredictionGame WITH MaxTime <- GameTime
Plans == INSTANCE LocalPlans WITH MaxTime <- PlanTime

ASSUME AppSettings == App!ScenarioAssumption
ASSUME GameSettings == Game!GameAssumption
ASSUME ReminderSettings == ReminderTime \in Nat
ASSUME ExplanationSettings == Explaining!ExplanationAssumption
ASSUME PlanSettings == Plans!PlanAssumption

Unused == "unused"
appVars == <<scene, server, disk, task, load, visible, asked, phase, busy, failed, left, torn>>
reminderVars == <<coordinator, allowed, pending, stored, pressed, refresh, overlapped>>
limitVars == <<calls, keys, admitted, refusal>>
explainVars == <<topic, subject, cache, budget, posted, today, crossed>>
gameVars == <<Connectors, clock, readings, ledger, lock>>
planVars == <<captures, answer>>
allvars == <<part, now, shown, call, appVars, reminderVars, limitVars, explainVars, gameVars,
             planVars, readVars>>

NoApp == /\ scene = Unused /\ server = Unused /\ disk = Unused /\ task = Unused
         /\ load = Unused /\ visible = Unused /\ asked = Unused /\ phase = Unused
         /\ busy = Unused /\ failed = Unused /\ left = Unused /\ torn = Unused
NoReminder == /\ coordinator = Unused /\ allowed = Unused /\ pending = Unused
              /\ stored = Unused /\ pressed = Unused /\ refresh = Unused
              /\ overlapped = Unused
NoLimit == Init    \* the rate limits stay as they start
NoExplaining == /\ topic = Unused /\ subject = Unused /\ cache = Unused /\ budget = Unused
                /\ posted = Unused /\ today = Unused /\ crossed = Unused
NoGame == /\ Connectors = Unused /\ clock = Unused /\ readings = Unused
          /\ ledger = Unused /\ lock = Unused
NoPlans == captures = Unused /\ answer = Unused

SurfaceInit ==
  \/ /\ part = "app" /\ App!Init /\ call = Unused
     /\ NoReminder /\ NoLimit /\ NoExplaining /\ NoGame /\ NoPlans /\ NoReads
  \/ /\ part = "reminder" /\ Reminder!Init /\ call = Unused
     /\ NoApp /\ NoLimit /\ NoExplaining /\ NoGame /\ NoPlans /\ NoReads
  \/ /\ part = "limits" /\ Init /\ shown = Unused /\ call = Unused
     /\ NoApp /\ NoReminder /\ NoExplaining /\ NoGame /\ NoPlans /\ NoReads
  \/ /\ part = "explanations" /\ Explaining!Init /\ shown = Unused
     /\ NoApp /\ NoReminder /\ NoLimit /\ NoGame /\ NoPlans /\ NoReads
  \/ /\ part = "game" /\ Game!Init /\ shown = Unused
     /\ NoApp /\ NoReminder /\ NoLimit /\ NoExplaining /\ NoPlans /\ NoReads
  \/ /\ part = "plans" /\ Plans!Init /\ shown = Unused /\ call = Unused
     /\ NoApp /\ NoReminder /\ NoLimit /\ NoExplaining /\ NoGame /\ NoReads
  \/ /\ part = "reads" /\ ReadsInit /\ shown = Unused /\ call = Unused
     /\ NoApp /\ NoReminder /\ NoLimit /\ NoExplaining /\ NoGame /\ NoPlans

SurfaceNext ==
  /\ UNCHANGED part
  /\ \/ /\ part = "app" /\ App!Next /\ UNCHANGED <<now, call>>
        /\ UNCHANGED <<reminderVars, limitVars, explainVars, gameVars, planVars, readVars>>
     \/ /\ part = "reminder" /\ Reminder!Next /\ UNCHANGED call
        /\ UNCHANGED <<appVars, limitVars, explainVars, gameVars, planVars, readVars>>
     \/ /\ part = "limits" /\ Next /\ UNCHANGED <<shown, call>>
        /\ UNCHANGED <<appVars, reminderVars, explainVars, gameVars, planVars, readVars>>
     \/ /\ part = "explanations" /\ Explaining!Next /\ UNCHANGED <<now, shown>>
        /\ UNCHANGED <<appVars, reminderVars, limitVars, gameVars, planVars, readVars>>
     \/ /\ part = "game" /\ Game!Next /\ UNCHANGED <<now, shown>>
        /\ UNCHANGED <<appVars, reminderVars, limitVars, explainVars, planVars, readVars>>
     \/ /\ part = "plans" /\ Plans!Next /\ UNCHANGED <<shown, call>>
        /\ UNCHANGED <<appVars, reminderVars, limitVars, explainVars, gameVars, readVars>>
     \/ /\ part = "reads" /\ ReadsNext /\ UNCHANGED <<now, shown, call>>
        /\ UNCHANGED <<appVars, reminderVars, limitVars, explainVars, gameVars, planVars>>

SurfaceSpec == SurfaceInit /\ [][SurfaceNext]_allvars

\* AppClient, ShownIsAsked: what is on display answers the request on display.
ShownIsAsked == part = "app" => App!ShownIsAsked

\* AppClient, NoStuckFlag: no refreshing flag outlives the calls.
NoStuckFlag == part = "app" => App!NoStuckFlag

\* AppClient, ConfirmedIsServed: a confirmed answer is what the server held.
ConfirmedIsServed == part = "app" => App!ConfirmedIsServed

\* Reminders, RemindersAgree: the app shows the reminder that will fire.
RemindersAgree == part = "reminder" => Reminder!RemindersAgree

\* Explanations, ExplanationMatches: a stored explanation is about the evidence of its key.
ExplanationMatches == part = "explanations" => Explaining!ExplanationMatches

\* Explanations, AnswerGrounded: an answer cites what its tools read, within the budget.
AnswerGrounded == part = "explanations" => Explaining!AnswerGrounded

\* PredictionGame, VerdictFair: a resolved prediction follows from the evidence.
VerdictFair == part = "game" => Game!VerdictFair

\* LocalPlans, PlanIsBest: the window shown is the best of a forecast that was published.
PlanIsBest == part = "plans" => Plans!PlanIsBest
=============================================================================
