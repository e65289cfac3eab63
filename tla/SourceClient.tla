---------------------------- MODULE SourceClient ----------------------------
(***************************************************************************)
(* One request of the HTTP client of the source adapters                   *)
(* (app/sources/client.py): attempts, waits and refusals.  A fetch issues  *)
(* one request after another; `call' is the one it awaits.                 *)
(***************************************************************************)
EXTENDS Integers, FiniteSets

CONSTANTS
    MaxAttempts, BaseDelay, MaxDelay,
    RetryAfter          \* delays that a busy source asks for; None asks for none

\* RetryPolicy refuses anything else.
ClientAssumption ==
    /\ MaxAttempts \in Nat \ {0} /\ BaseDelay \in Nat /\ MaxDelay \in Nat
    /\ RetryAfter \subseteq Nat

\* A field that is absent, and one that cannot be read.
None == 1000
Odd == 1001

VARIABLE call

\* `last' is what became of the newest attempt.
Resting == [state |-> "resting", form |-> "json", attempt |-> 0, waited |-> 0, last |-> "none"]
Request(form) ==
    [state |-> "asking", form |-> form, attempt |-> 1, waited |-> 0, last |-> "none"]
Asking == call.state = "asking"

Backoff(n) == IF BaseDelay * 2^(n - 1) < MaxDelay THEN BaseDelay * 2^(n - 1) ELSE MaxDelay
Capped(delay) == IF delay < MaxDelay THEN delay ELSE MaxDelay

Again(delay, why) ==
    call' = [call EXCEPT !.attempt = @ + 1, !.waited = @ + delay, !.last = why]
GaveUp(why) == call' = [call EXCEPT !.state = "failed", !.last = why]

\* No answer: the network failed or took too long.
Lost ==
    /\ Asking
    /\ IF call.attempt < MaxAttempts THEN Again(Backoff(call.attempt), "lost") ELSE GaveUp("lost")

\* 408, 425, 429 and most of 5xx; the source may say when to come back.
Busy ==
    /\ Asking
    /\ \E r \in RetryAfter :
         IF call.attempt < MaxAttempts
         THEN Again(IF r = None THEN Backoff(call.attempt) ELSE Capped(r), "busy")
         ELSE GaveUp("busy")

\* Any other error status is final.
Refused == Asking /\ GaveUp("refused")

\* A body that is no JSON is asked for again; an empty or oversized file is not.
Garbled ==
    /\ Asking
    /\ IF call.form = "json" /\ call.attempt < MaxAttempts
       THEN Again(Backoff(call.attempt), "garbled") ELSE GaveUp("garbled")

\* JSON, but neither an object nor an array.
Scalar == Asking /\ call.form = "json" /\ GaveUp("scalar")

Trouble == Lost \/ Busy \/ Refused \/ Garbled \/ Scalar

\* What can be repeated is repeated to the end, what cannot is not, and no request
\* keeps its job waiting longer than its attempts allow (client.py:26-41, 110-281).
Patient ==
    /\ call.attempt <= MaxAttempts
    /\ call.waited <= (MaxAttempts - 1) * MaxDelay
    /\ /\ call.state = "failed"
       /\ call.last \in {"lost", "busy"} \/ (call.last = "garbled" /\ call.form = "json")
       => call.attempt = MaxAttempts
=============================================================================
