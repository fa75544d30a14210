----------------------------- MODULE HttpClient -----------------------------
(***************************************************************************)
(* httpx/client.go and httpx/breaker.go: a client that retries and fails   *)
(* fast behind a circuit breaker, shared by concurrent callers.  A caller  *)
(* is admitted by allow, makes attempts without holding the breaker's      *)
(* mutex, and reports the outcome of the last one with record, by which    *)
(* time the breaker may be in any state.                                   *)
(***************************************************************************)
EXTENDS Integers, FiniteSets

CONSTANTS
  Caller,          \* goroutines that call Do
  Method,          \* HTTP methods
  RetryMethods,    \* retryPolicy.methods
  RetryStatuses,   \* retryPolicy.statuses
  MaxRetries,      \* retryPolicy.max
  Status,          \* the statuses an upstream answers with
  Threshold,       \* consecutive failures that trip the breaker
  Cooldown,        \* ticks the breaker stays open
  MayPanic         \* TRUE: application code inside an attempt (a RequestOption, an UnmarshalJSON) may panic

ASSUME ClientAssumption ==
  /\ IsFiniteSet(Caller)
  /\ Method # {} /\ RetryMethods \subseteq Method
  /\ MaxRetries \in Nat
  /\ Status \subseteq 200..599 /\ RetryStatuses \subseteq Status
  /\ Threshold \in Nat \ {0} /\ Cooldown \in Nat \ {0}
  /\ MayPanic \in BOOLEAN

VARIABLES
  state,        \* breakerClosed, breakerOpen, breakerHalfOpen
  failures,     \* consecutive failures
  since,        \* ticks since openedAt, up to Cooldown
  trialActive,  \* a half-open trial is in flight
  pc,           \* where each caller is
  method,       \* the method of its request
  attempt,      \* its attempts before the current one
  status, err,  \* what its last attempt returned; status 0 is a transport failure
  cancelled,    \* its context is done
  trial,        \* it was admitted as the half-open trial
  up,           \* the upstream is well
  streak,       \* failures recorded since the last success was, up to Threshold
  orphaned      \* a trial was unwound by a panic since the last one was admitted

breaker == <<state, failures, since, trialActive>>
call == <<method, attempt, status, err>>
ghost == <<streak, orphaned>>
vars == <<breaker, pc, call, cancelled, trial, up, ghost>>

Closed == "closed"
Open == "open"
HalfOpen == "halfOpen"

AnyMethod == CHOOSE m \in Method : TRUE

Init ==
  /\ state = Closed /\ failures = 0 /\ since = 0 /\ trialActive = FALSE
  /\ pc = [c \in Caller |-> "idle"]
  /\ method = [c \in Caller |-> AnyMethod]
  /\ attempt = [c \in Caller |-> 0]
  /\ status = [c \in Caller |-> 0]
  /\ err = [c \in Caller |-> FALSE]
  /\ cancelled = [c \in Caller |-> FALSE]
  /\ trial = [c \in Caller |-> FALSE]
  /\ up = TRUE
  /\ streak = 0 /\ orphaned = FALSE

-----------------------------------------------------------------------------
(* The breaker.  Each operator is one critical section of its mutex.       *)

CanTry ==
  \/ state = Open /\ since >= Cooldown
  \/ state = HalfOpen /\ ~trialActive

allow(c) ==
  IF state = Closed
    THEN /\ trial' = [trial EXCEPT ![c] = FALSE]
         /\ UNCHANGED <<breaker, orphaned>>
    ELSE /\ CanTry
         /\ state' = HalfOpen
         /\ trialActive' = TRUE
         /\ trial' = [trial EXCEPT ![c] = TRUE]
         /\ orphaned' = FALSE
         /\ UNCHANGED <<failures, since>>

Refuses == state # Closed /\ ~CanTry

RecordSuccess ==
  /\ failures' = 0
  /\ state' = Closed
  /\ trialActive' = FALSE
  /\ UNCHANGED since

RecordFailure ==
  IF state = HalfOpen
    THEN /\ state' = Open
         /\ since' = 0
         /\ trialActive' = FALSE
         /\ UNCHANGED failures
    ELSE /\ failures' = failures + 1
         /\ UNCHANGED trialActive
         /\ IF failures + 1 >= Threshold
              THEN state' = Open /\ since' = 0
              ELSE UNCHANGED <<state, since>>

serverFailed(st, e) == e /\ (st = 0 \/ st >= 500)

Longer == streak' = IF streak < Threshold THEN streak + 1 ELSE streak

\* A fault of record: a success leaves the count of failures standing.
recordKeepsCount(st, e) ==
  IF serverFailed(st, e)
    THEN RecordFailure /\ Longer
    ELSE state' = Closed /\ trialActive' = FALSE /\ streak' = 0 /\ UNCHANGED <<failures, since>>

record(st, e) ==
  IF serverFailed(st, e)
    THEN RecordFailure /\ Longer
    ELSE RecordSuccess /\ streak' = 0

-----------------------------------------------------------------------------
(* Do and attempt                                                          *)

Calling == {c \in Caller : pc[c] \in {"sending", "waiting", "returning"}}

\* Do: admitted, the first attempt begins.
Do(c, m) ==
  /\ c \notin Calling
  /\ allow(c)
  /\ pc' = [pc EXCEPT ![c] = "sending"]
  /\ method' = [method EXCEPT ![c] = m]
  /\ attempt' = [attempt EXCEPT ![c] = 0]
  /\ cancelled' = [cancelled EXCEPT ![c] = FALSE]
  /\ UNCHANGED <<status, err, up, streak>>

\* Do: "upstream circuit breaker is open".
FailFast(c) ==
  /\ c \notin Calling
  /\ Refuses
  /\ pc' = [pc EXCEPT ![c] = "refused"]
  /\ UNCHANGED <<breaker, call, cancelled, trial, up, ghost>>

\* A fault of shouldRetry: the method does not matter.
shouldRetryAnyMethod(m, st) ==
  /\ MaxRetries > 0
  /\ st = 0 \/ st \in RetryStatuses

shouldRetry(m, st) ==
  /\ MaxRetries > 0 /\ m \in RetryMethods
  /\ st = 0 \/ st \in RetryStatuses

\* What one exchange can come to.  A caller that is gone gets a transport
\* error; so does one whose response breaks off in the middle of the body.
\* A 2xx whose body does not decode is an error with that status.
Outcome(c) ==
  [st : {0}, e : {TRUE}] \cup
  IF cancelled[c] THEN {}
  ELSE {o \in [st : Status, e : BOOLEAN] : o.st >= 300 => o.e}

\* An upstream that is well answers, and not with a 5xx.
Healthy(c) == {o \in Outcome(c) : 0 < o.st /\ o.st < 500}

\* doOnce, and what attempt does with its result.
doOnce(c) ==
  /\ pc[c] = "sending"
  /\ \E o \in IF up /\ ~cancelled[c] THEN Healthy(c) ELSE Outcome(c) :
       /\ status' = [status EXCEPT ![c] = o.st]
       /\ err' = [err EXCEPT ![c] = o.e]
       /\ pc' = [pc EXCEPT ![c] =
            IF o.e /\ attempt[c] < MaxRetries /\ shouldRetry(method[c], o.st)
              THEN "waiting" ELSE "returning"]
  /\ UNCHANGED <<breaker, method, attempt, cancelled, trial, up, ghost>>

\* A fault of Retry: the attempt is not counted.
RetryUncounted(c) ==
  /\ pc[c] = "waiting"
  /\ pc' = [pc EXCEPT ![c] = "sending"]
  /\ UNCHANGED <<breaker, call, cancelled, trial, up, ghost>>

\* sleepCtx ran to the end of the backoff.
Retry(c) ==
  /\ pc[c] = "waiting"
  /\ pc' = [pc EXCEPT ![c] = "sending"]
  /\ attempt' = [attempt EXCEPT ![c] = @ + 1]
  /\ UNCHANGED <<breaker, method, status, err, cancelled, trial, up, ghost>>

\* sleepCtx was cut short: the failure that triggered the retry is the result.
GiveUp(c) ==
  /\ pc[c] = "waiting" /\ cancelled[c]
  /\ pc' = [pc EXCEPT ![c] = "returning"]
  /\ UNCHANGED <<breaker, call, cancelled, trial, up, ghost>>

\* Do is left: its variables are gone.
Leave(c) ==
  /\ pc' = [pc EXCEPT ![c] = "idle"]
  /\ method' = [method EXCEPT ![c] = AnyMethod]
  /\ attempt' = [attempt EXCEPT ![c] = 0]
  /\ status' = [status EXCEPT ![c] = 0]
  /\ err' = [err EXCEPT ![c] = FALSE]
  /\ cancelled' = [cancelled EXCEPT ![c] = FALSE]
  /\ trial' = [trial EXCEPT ![c] = FALSE]

\* Do: report the outcome and return it.
Return(c) ==
  /\ pc[c] = "returning"
  /\ record(status[c], err[c])
  /\ Leave(c)
  /\ UNCHANGED <<up, orphaned>>

\* A panic unwinds Do past its call of record.
Panic(c) ==
  /\ MayPanic
  /\ pc[c] = "sending"
  /\ Leave(c)
  /\ orphaned' = (orphaned \/ trial[c])
  /\ UNCHANGED <<breaker, up, streak>>

-----------------------------------------------------------------------------
(* The surroundings                                                        *)

\* The caller's context is cancelled or its deadline passes.
Cancel(c) ==
  /\ c \in Calling /\ ~cancelled[c]
  /\ cancelled' = [cancelled EXCEPT ![c] = TRUE]
  /\ UNCHANGED <<breaker, pc, call, trial, up, ghost>>

UpstreamTurns ==
  /\ up' = ~up
  /\ UNCHANGED <<breaker, pc, call, cancelled, trial, ghost>>

Tick ==
  /\ state = Open /\ since < Cooldown
  /\ since' = since + 1
  /\ UNCHANGED <<state, failures, trialActive, pc, call, cancelled, trial, up, ghost>>

CallerStep(c) ==
  \/ \E m \in Method : Do(c, m)
  \/ FailFast(c) \/ doOnce(c) \/ Retry(c) \/ GiveUp(c) \/ Return(c) \/ Panic(c) \/ Cancel(c)

Next == Tick \/ UpstreamTurns \/ \E c \in Caller : CallerStep(c)

Spec == Init /\ [][Next]_vars

\* Exchanges end because http.Client has a Timeout, backoffs because timers
\* fire; the clock runs; and there is traffic.
Fairness ==
  /\ WF_vars(Tick)
  /\ \A c \in Caller :
       /\ WF_vars(doOnce(c)) /\ WF_vars(Retry(c) \/ GiveUp(c)) /\ WF_vars(Return(c))
       /\ WF_vars(\E m \in Method : Do(c, m))

FairSpec == Spec /\ Fairness

-----------------------------------------------------------------------------
TypeOK ==
  /\ state \in {Closed, Open, HalfOpen}
  /\ failures \in Nat
  /\ since \in 0..Cooldown
  /\ trialActive \in BOOLEAN
  /\ pc \in [Caller -> {"idle", "refused", "sending", "waiting", "returning"}]
  /\ method \in [Caller -> Method]
  /\ attempt \in [Caller -> 0..MaxRetries]
  /\ status \in [Caller -> {0} \cup Status]
  /\ err \in [Caller -> BOOLEAN]
  /\ cancelled \in [Caller -> BOOLEAN]
  /\ trial \in [Caller -> BOOLEAN]
  /\ up \in BOOLEAN
  /\ streak \in 0..Threshold
  /\ orphaned \in BOOLEAN

\* breaker.go:24-25: the breaker is closed exactly while fewer than threshold
\* failures were reported in a row, however the calls that report them overlap
\* and whatever state it was in when they were admitted.
TripsOnStreak == state = Closed <=> streak < Threshold

\* breaker.go:53-97: a half-open breaker waits for a trial that is in flight,
\* unless application code panicked in one.  Were there none, nothing would ever
\* move it again: it refuses every call.
TrialOwned ==
  state = HalfOpen => trialActive /\ (orphaned \/ \E c \in Calling : trial[c])

\* breaker.go:92: calls admitted before the breaker opened keep adding failures
\* to an open breaker, by at most one each: the counter stays bounded.
FailuresBounded == failures < Threshold + Cardinality(Caller)

\* breaker.go:26-97: the breaker opens on a streak of failures and on nothing
\* else, its count is bounded, and half-open it has a trial to wait for.
BreakerConsistent == TypeOK /\ TripsOnStreak /\ FailuresBounded /\ TrialOwned

\* client.go:196-216, 297-305: a request is sent again only when its method may
\* be repeated, and Do gives a failure back only after its last attempt, a
\* failure that is final, or a cancelled context.
RetriesSafely ==
  \A c \in Caller :
    /\ attempt[c] > 0 => method[c] \in RetryMethods
    /\ pc[c] = "returning" /\ err[c] =>
         \/ attempt[c] = MaxRetries
         \/ method[c] \notin RetryMethods
         \/ status[c] \notin RetryStatuses \cup {0}
         \/ cancelled[c]

\* breaker.go:21, 24-28: "a single trial request is allowed".
SingleTrial == Cardinality({c \in Calling : trial[c]}) <= 1

\* client.go:171-216: every admitted call returns.
Answers == \A c \in Caller : c \in Calling ~> c \notin Calling

\* breaker.go:26-28: once the upstream is well for good, and callers stay for
\* the answer, the breaker closes and stays closed.
Recovers ==
  <>[](up /\ \A c \in Calling : ~cancelled[c]) => <>[](state = Closed)
=============================================================================
