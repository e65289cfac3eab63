------------------------------ MODULE RateLimit ------------------------------
(***************************************************************************)
(* RateLimitMiddleware: the sliding-window limits on the expensive public  *)
(* endpoints, in one API process.                                          *)
(*                                                                         *)
(* The clock counts ticks, TicksPerSecond to the second, because the code  *)
(* compares fractions of a second and answers Retry-After in whole ones.   *)
(* _claim holds no await inside its lock, so a claim is one step.          *)
(***************************************************************************)
EXTENDS Integers, Sequences, FiniteSets

CONSTANTS Policies,         \* the limited routes
          Clients,          \* the client keys
          PerClient,        \* the limit of a policy for each client
          GlobalLimit,      \* the limit of a policy for all clients
          Window,           \* window_seconds in ticks, the same for all policies
          TicksPerSecond,
          MaxKeys,          \* the number of client deques that starts a sweep
          MaxTime           \* bound of the clock

All == "all"     \* the bucket every client of a policy shares
Never == [at |-> -1, retry |-> 0]

\* The policies' values are positive (RateLimitPolicy.__post_init__).
LimitsAssumption ==
  /\ PerClient \in [Policies -> Nat \ {0}] /\ GlobalLimit \in [Policies -> Nat \ {0}]
  /\ Window \in Nat \ {0} /\ TicksPerSecond \in Nat \ {0} /\ MaxKeys \in Nat
  /\ MaxTime \in Nat /\ All \notin Clients
ASSUME LimitsAssumption

Buckets == Policies \X (Clients \cup {All})

VARIABLES
  now,        \* time.monotonic()
  calls,      \* the deques _global and _clients
  keys,       \* the keys of _clients
  admitted,   \* history: when each bucket admitted a request
  refusal     \* history: the last refusal of each client since an admission

vars == <<now, calls, keys, admitted, refusal>>

Limit(b) == IF b[2] = All THEN GlobalLimit[b[1]] ELSE PerClient[b[1]]
Both(p, c) == {<<p, All>>, <<p, c>>}

\* _discard_before: the head is dropped while it is not after the cutoff.
Expired(s, cutoff, n) ==
  /\ \A i \in 1..n : s[i] <= cutoff
  /\ n < Len(s) => s[n + 1] > cutoff
\* Slip: the newest entry is dropped with the expired ones.
LiveButNewest(s, cutoff) == IF s # <<>> /\ s[1] <= cutoff THEN <<>> ELSE s
Live(s, cutoff) ==
  LET n == CHOOSE m \in 0..Len(s) : Expired(s, cutoff, m)
  IN  SubSeq(s, n + 1, Len(s))

\* Above MaxKeys client deques, all of them are swept and the empty ones dropped.
Sweeps == Cardinality(keys) > MaxKeys
Swept(cutoff) ==
  [b \in Buckets |-> IF b[2] # All /\ Sweeps THEN Live(calls[b], cutoff) ELSE calls[b]]

\* The deques as the limits see them: swept, and the two of the request discarded.
Fresh(p, c, cutoff) ==
  [b \in Buckets |-> IF b \in Both(p, c) THEN Live(calls[b], cutoff) ELSE Swept(cutoff)[b]]
KeysFrom(p, c, d) ==
  (IF Sweeps THEN {b \in keys : Swept(now - Window)[b] # <<>>} ELSE keys) \cup {<<p, c>>}

Full(d, b) == Len(d[b]) >= Limit(b)

\* Retry-After: whole seconds until the last of the full buckets has room.
Opens(d, b) == d[b][1] + Window
RetryAt(d, full) == CHOOSE t \in {Opens(d, b) : b \in full} : \A b \in full : Opens(d, b) <= t
Seconds(ticks) == (ticks + TicksPerSecond - 1) \div TicksPerSecond
RetryAfter(d, full) ==
  LET s == Seconds(RetryAt(d, full) - now) IN IF s > 1 THEN s ELSE 1

Admit(p, c) ==
  LET d == Fresh(p, c, now - Window)
  IN  /\ \A b \in Both(p, c) : ~Full(d, b)
      /\ calls' = [b \in Buckets |-> IF b \in Both(p, c) THEN Append(d[b], now) ELSE d[b]]
      /\ keys' = KeysFrom(p, c, d)
      /\ admitted' = [b \in Buckets |-> IF b \in Both(p, c) THEN Append(admitted[b], now)
                                        ELSE admitted[b]]
      /\ refusal' = [b \in Buckets |-> IF b[1] = p THEN Never ELSE refusal[b]]
      /\ UNCHANGED now

Refuse(p, c) ==
  LET d == Fresh(p, c, now - Window)
      full == {b \in Both(p, c) : Full(d, b)}
  IN  /\ full # {}
      /\ calls' = d
      /\ keys' = KeysFrom(p, c, d)
      /\ refusal' = [refusal EXCEPT ![<<p, c>>] = [at |-> now, retry |-> RetryAfter(d, full)]]
      /\ UNCHANGED <<now, admitted>>

Tick == now < MaxTime /\ now' = now + 1 /\ UNCHANGED <<calls, keys, admitted, refusal>>

Init ==
  /\ now = 0
  /\ calls = [b \in Buckets |-> <<>>] /\ keys = {}
  /\ admitted = [b \in Buckets |-> <<>>]
  /\ refusal = [b \in Buckets |-> Never]

Next == Tick \/ \E p \in Policies, c \in Clients : Admit(p, c) \/ Refuse(p, c)

Spec == Init /\ [][Next]_vars

-----------------------------------------------------------------------------
(* Properties. *)

\* In no window of time does a bucket admit more requests than its limit: the
\* request `Limit` places later comes a whole window later, whatever was refused,
\* swept or discarded in between.
Bounded ==
  \A b \in Buckets : \A i \in 1..Len(admitted[b]) :
    i + Limit(b) <= Len(admitted[b]) =>
      admitted[b][i + Limit(b)] >= admitted[b][i] + Window

\* A client that waits the Retry-After it was told, while no other request of the
\* policy is admitted, finds room in both of its buckets; and it was told to wait less
\* than a second longer than it had to.
RetryHonest ==
  \A p \in Policies, c \in Clients :
    LET r == refusal[<<p, c>>]
        d == Fresh(p, c, now - Window)
        room == \A b \in Both(p, c) : ~Full(d, b)
    IN  r # Never =>
          /\ now >= r.at + r.retry * TicksPerSecond => room
          /\ now <= r.at + (r.retry - 1) * TicksPerSecond => ~room

\* The limits hold for the service and for the client that keeps to what it is told.
LimitsHold == Bounded /\ RetryHonest
=============================================================================
