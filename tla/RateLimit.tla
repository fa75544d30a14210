----------------------------- MODULE RateLimit ------------------------------
(***************************************************************************)
(* httpx/middleware/rate_limit.go: one token bucket per client, evicted    *)
(* when idle.  Time is counted in units in which a bucket regains one      *)
(* unit; a request costs Cost units, so RPS is 1/Cost per tick and a full  *)
(* bucket holds Burst * Cost.  A request looks its bucket up and takes its *)
(* token within one tick.                                                  *)
(***************************************************************************)
EXTENDS Integers

CONSTANTS
  Client,
  Burst, Cost,
  IdleTTL,
  MaxTime      \* bound: the clock stops there

VARIABLES
  now,
  limiters,    \* client -> [tokens, last, lastSeen]; a partial function
  lastCleanup,
  spent,       \* history: client -> its ideal bucket, never evicted: [tokens, last]
  lastRequest  \* history: when the last request came in

vars == <<now, limiters, lastCleanup, spent, lastRequest>>

Full == Burst * Cost

\* rate.Limiter: what a bucket holds at time t.
Tokens(b, t) ==
  LET refilled == b.tokens + (t - b.last) IN IF refilled > Full THEN Full ELSE refilled

Allow(b) == Tokens(b, now) >= Cost

Fresh(t) == [tokens |-> Full, last |-> t, lastSeen |-> t]

Init ==
  /\ now = 0 /\ lastCleanup = 0 /\ lastRequest = 0
  /\ limiters = [c \in {} |-> Fresh(0)]
  /\ spent = [c \in Client |-> [tokens |-> Full, last |-> 0]]

\* A fault of swept: the sweep looks at the time of the last one only.
sweptAll ==
  IF now - lastCleanup > IdleTTL THEN [c \in {} |-> Fresh(0)] ELSE limiters

swept ==
  IF now - lastCleanup > IdleTTL
    THEN [c \in {k \in DOMAIN limiters : now - limiters[k].lastSeen <= IdleTTL} |-> limiters[c]]
    ELSE limiters

cleanedAt == IF now - lastCleanup > IdleTTL THEN now ELSE lastCleanup

get(c) ==
  IF c \in DOMAIN swept THEN [swept[c] EXCEPT !.lastSeen = now] ELSE Fresh(now)

\* The middleware: get, then Allow.
Arrive(c) ==
  LET b == get(c)
      allowed == Allow(b)
      after == [b EXCEPT !.tokens = Tokens(b, now) - (IF allowed THEN Cost ELSE 0), !.last = now]
      ideal == Tokens(spent[c], now) - (IF allowed THEN Cost ELSE 0)
  IN  /\ limiters' = [k \in DOMAIN swept \cup {c} |-> IF k = c THEN after ELSE swept[k]]
      /\ lastCleanup' = cleanedAt
      /\ spent' = [spent EXCEPT ![c] = [tokens |-> ideal, last |-> now]]
      /\ lastRequest' = now
      /\ UNCHANGED now

Tick ==
  /\ now < MaxTime
  /\ now' = now + 1
  /\ UNCHANGED <<limiters, lastCleanup, spent, lastRequest>>

Next == Tick \/ \E c \in Client : Arrive(c)

Spec == Init /\ [][Next]_vars

-----------------------------------------------------------------------------
TypeOK ==
  /\ now \in 0..MaxTime /\ lastCleanup \in 0..now /\ lastRequest \in 0..now
  /\ DOMAIN limiters \subseteq Client
  /\ \A c \in DOMAIN limiters :
       /\ limiters[c].tokens \in 0..Full
       /\ limiters[c].last \in 0..now /\ limiters[c].lastSeen \in 0..now
  /\ DOMAIN spent = Client

\* rate_limit.go:25-26: "throttles each client to the configured token-bucket
\* rate": a bucket that is never forgotten would have let through every request
\* that was let through.
WithinRate == \A c \in Client : spent[c].tokens >= 0

\* rate_limit.go:20-22, 83-90: the sweeps are rare and piggybacked on requests,
\* and still no bucket outlives its client by more than two periods.
MemoryBounded == \A c \in DOMAIN limiters : lastRequest - limiters[c].lastSeen <= 2 * IdleTTL

\* rate_limit.go:20-26, 83-90: neither the rate nor the memory is exceeded.
RateKept == TypeOK /\ WithinRate /\ MemoryBounded
=============================================================================
