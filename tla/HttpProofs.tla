----------------------------- MODULE HttpProofs -----------------------------
(***************************************************************************)
(* The theorems about HTTP and gRPC: the client with its breaker and its   *)
(* retries (HttpClient), the managed servers (HttpServer, GrpcServer) and  *)
(* the Timeout middleware (Timeout).                                       *)
(***************************************************************************)
EXTENDS HttpClient, Sequences, FiniteSetTheorems, TLAPS

(* The breaker counts what was reported.  While it is not closed, a failure  *)
(* that is counted is one of a call that was on its way, and a call that is  *)
(* admitted turns it half-open, where the next failure is not counted.       *)
BreakerInv ==
  /\ state = Closed => failures = streak /\ streak < Threshold
  /\ state # Closed => failures >= Threshold /\ streak = Threshold
  /\ state # Closed =>
       failures + Cardinality(Calling) < Threshold + Cardinality(Caller) + (IF state = HalfOpen THEN 1 ELSE 0)

(* A caller waits for another attempt only where one is due. *)
RetryInv ==
  \A c \in Caller :
    pc[c] = "waiting" =>
      err[c] /\ attempt[c] < MaxRetries /\ method[c] \in RetryMethods /\ status[c] \in RetryStatuses \cup {0}

ClientInv == BreakerConsistent /\ BreakerInv /\ RetriesSafely /\ RetryInv /\ (orphaned => MayPanic)

-----------------------------------------------------------------------------
(* The calls in flight are counted. *)
LEMMA CallingCount ==
  ASSUME TypeOK
  PROVE  /\ Calling \subseteq Caller /\ IsFiniteSet(Calling)
         /\ Cardinality(Calling) \in Nat /\ Cardinality(Caller) \in Nat
         /\ Cardinality(Calling) <= Cardinality(Caller)
<1>1. Calling \subseteq Caller
  BY Zenon DEF Calling
<1> QED
  BY <1>1, ClientAssumption, FS_Subset, FS_CardinalityType

(* Do adds its caller to them, its return takes it away. *)
LEMMA Joins ==
  ASSUME TypeOK, NEW c \in Caller, c \notin Calling, pc' = [pc EXCEPT ![c] = "sending"]
  PROVE  Calling' = Calling \cup {c} /\ Cardinality(Calling') = Cardinality(Calling) + 1
<1>1. Calling' = Calling \cup {c}
  BY Zenon DEF Calling, TypeOK
<1> QED
  BY <1>1, CallingCount, FS_AddElement, Zenon

LEMMA Leaves ==
  ASSUME TypeOK, NEW c \in Calling, pc' = [pc EXCEPT ![c] = "idle"]
  PROVE  Calling' = Calling \ {c} /\ Cardinality(Calling') = Cardinality(Calling) - 1
<1>1. Calling' = Calling \ {c}
  BY Zenon DEF Calling, TypeOK
<1> QED
  BY <1>1, CallingCount, FS_RemoveElement, Zenon

LEMMA Stays ==
  ASSUME TypeOK, NEW c \in Caller, NEW s,
         c \in Calling <=> s \in {"sending", "waiting", "returning"}, pc' = [pc EXCEPT ![c] = s]
  PROVE  Calling' = Calling
BY Zenon DEF Calling, TypeOK

-----------------------------------------------------------------------------
(* What a step leaves of the breaker, for the steps that do not touch it. *)
LEMMA BreakerKept ==
  ASSUME ClientInv, UNCHANGED <<breaker, ghost>>, Calling' = Calling, trial' = trial
  PROVE  /\ (TripsOnStreak /\ FailuresBounded /\ TrialOwned /\ BreakerInv)'
         /\ (orphaned => MayPanic)'
<1>1. /\ UNCHANGED <<state, failures, since, trialActive, streak, orphaned>>
  BY Zenon DEF breaker, ghost
<1>2. (TripsOnStreak /\ FailuresBounded)'
  BY <1>1, Zenon DEF ClientInv, BreakerConsistent, TripsOnStreak, FailuresBounded, Closed
<1>3. TrialOwned'
  BY <1>1, Zenon DEF ClientInv, BreakerConsistent, TrialOwned, HalfOpen
<1>4. BreakerInv'
  BY <1>1, Zenon DEF ClientInv, BreakerInv, Closed, HalfOpen
<1> QED
  BY <1>1, <1>2, <1>3, <1>4, Zenon DEF ClientInv

LEMMA InitInv == Init => ClientInv
<1> SUFFICES ASSUME Init PROVE ClientInv
  BY Zenon
<1>1. TypeOK
  <2>1. AnyMethod \in Method
    BY ClientAssumption, Zenon DEF AnyMethod
  <2>2. err \in [Caller -> BOOLEAN] /\ cancelled \in [Caller -> BOOLEAN] /\ trial \in [Caller -> BOOLEAN]
    BY Zenon DEF Init
  <2>3. method \in [Caller -> Method] /\ attempt \in [Caller -> 0..MaxRetries]
    BY <2>1, ClientAssumption DEF Init
  <2>4. /\ pc \in [Caller -> {"idle", "refused", "sending", "waiting", "returning"}]
        /\ status \in [Caller -> {0} \cup Status]
    BY Zenon DEF Init
  <2>5. trialActive \in BOOLEAN /\ up \in BOOLEAN /\ orphaned \in BOOLEAN
    BY Zenon DEF Init
  <2>6. state \in {Closed, Open, HalfOpen} /\ failures \in Nat /\ since \in 0..Cooldown /\ streak \in 0..Threshold
    BY ClientAssumption DEF Init
  <2> QED
    BY <2>2, <2>3, <2>4, <2>5, <2>6, Zenon DEF TypeOK
<1>2. TripsOnStreak /\ FailuresBounded /\ TrialOwned /\ BreakerInv
  BY <1>1, CallingCount, ClientAssumption
     DEF Init, TripsOnStreak, FailuresBounded, TrialOwned, BreakerInv, Closed, HalfOpen
<1>3. RetriesSafely /\ RetryInv
  BY DEF Init, RetriesSafely, RetryInv
<1> QED
  BY <1>1, <1>2, <1>3, Zenon DEF Init, ClientInv, BreakerConsistent

-----------------------------------------------------------------------------
(* One lemma per kind of step. *)

(* Do admits a call: to a closed breaker, or as a trial. *)
LEMMA DoInv ==
  ASSUME ClientInv, NEW c \in Caller, NEW m \in Method, Do(c, m)
  PROVE  ClientInv'
<1>1. TypeOK /\ BreakerInv /\ FailuresBounded
  BY Zenon DEF ClientInv, BreakerConsistent
<1>2. Calling' = Calling \cup {c} /\ Cardinality(Calling') = Cardinality(Calling) + 1
  BY <1>1, Joins, Zenon DEF Do
<1>3. /\ failures' = failures /\ since' = since /\ streak' = streak
      /\ \/ /\ state = Closed /\ state' = Closed /\ trialActive' = trialActive /\ orphaned' = orphaned
            /\ trial' = [trial EXCEPT ![c] = FALSE]
         \/ /\ state # Closed /\ CanTry /\ state' = HalfOpen /\ trialActive' = TRUE /\ orphaned' = FALSE
            /\ trial' = [trial EXCEPT ![c] = TRUE]
  BY Zenon DEF Do, allow, breaker
<1>4. TypeOK'
  <2>1. trialActive' \in BOOLEAN /\ up' \in BOOLEAN /\ orphaned' \in BOOLEAN
    BY <1>1, <1>3, Zenon DEF Do, TypeOK
  <2>2. trial' \in [Caller -> BOOLEAN] /\ cancelled' \in [Caller -> BOOLEAN] /\ err' \in [Caller -> BOOLEAN]
    BY <1>1, <1>3, Zenon DEF Do, TypeOK
  <2>3. /\ state' \in {Closed, Open, HalfOpen} /\ failures' \in Nat /\ since' \in 0..Cooldown
        /\ streak' \in 0..Threshold
    BY <1>1, <1>3, Zenon DEF TypeOK
  <2>4. /\ pc' \in [Caller -> {"idle", "refused", "sending", "waiting", "returning"}]
        /\ method' \in [Caller -> Method] /\ attempt' \in [Caller -> 0..MaxRetries]
        /\ status' \in [Caller -> {0} \cup Status]
    BY <1>1, ClientAssumption DEF Do, TypeOK
  <2> QED
    BY <2>1, <2>2, <2>3, <2>4, Zenon DEF TypeOK
<1>5. TripsOnStreak' /\ FailuresBounded' /\ (orphaned => MayPanic)'
  BY <1>3 DEF ClientInv, BreakerConsistent, TripsOnStreak, FailuresBounded, BreakerInv, Closed, HalfOpen
<1>6. TrialOwned'
  BY <1>1, <1>2, <1>3, Zenon DEF TypeOK, TrialOwned, Closed, HalfOpen
<1>7. BreakerInv'
  <2>1. CASE state = Closed
    BY <2>1, <1>1, <1>3, Zenon DEF BreakerInv, Closed, HalfOpen
  <2>2. CASE state = Open
    BY <2>2, <1>1, <1>2, <1>3, CallingCount, ClientAssumption DEF BreakerInv, TypeOK, Closed, Open, HalfOpen
  <2>3. CASE state = HalfOpen
    BY <2>3, <1>3, Zenon DEF ClientInv, BreakerConsistent, TrialOwned, CanTry, Closed, Open, HalfOpen
  <2> QED
    BY <2>1, <2>2, <2>3, <1>1, Zenon DEF TypeOK
<1>8. RetriesSafely' /\ RetryInv'
  BY <1>1 DEF ClientInv, Do, RetriesSafely, RetryInv, TypeOK
<1> QED
  BY <1>4, <1>5, <1>6, <1>7, <1>8, Zenon DEF ClientInv, BreakerConsistent

(* A call that goes on, is refused or cancelled leaves the breaker alone. *)
LEMMA CallInv ==
  ASSUME ClientInv, NEW c \in Caller, FailFast(c) \/ doOnce(c) \/ Retry(c) \/ GiveUp(c) \/ Cancel(c)
  PROVE  ClientInv'
<1>1. TypeOK
  BY Zenon DEF ClientInv, BreakerConsistent
<1>2. /\ UNCHANGED <<breaker, ghost>> /\ trial' = trial /\ up' = up
      /\ UNCHANGED <<state, failures, since, trialActive, streak, orphaned>>
  BY Zenon DEF FailFast, doOnce, Retry, GiveUp, Cancel, breaker, ghost
<1>3. Calling' = Calling
  <2>1. CASE FailFast(c)
    BY <1>1, <2>1, Stays, Zenon DEF FailFast
  <2>2. CASE doOnce(c)
    <3>1. c \in Calling /\ \E s \in {"waiting", "returning"} : pc' = [pc EXCEPT ![c] = s]
      BY <2>2, Zenon DEF doOnce, Calling
    <3> QED
      BY <1>1, <3>1, Stays, Zenon
  <2>3. CASE Retry(c)
    BY <1>1, <2>3, Stays, Zenon DEF Retry, Calling
  <2>4. CASE GiveUp(c)
    BY <1>1, <2>4, Stays, Zenon DEF GiveUp, Calling
  <2>5. CASE Cancel(c)
    BY <2>5, Zenon DEF Cancel, Calling
  <2> QED
    BY <2>1, <2>2, <2>3, <2>4, <2>5, Zenon
<1>4. (TripsOnStreak /\ FailuresBounded /\ TrialOwned /\ BreakerInv)' /\ (orphaned => MayPanic)'
  BY <1>2, <1>3, BreakerKept, Zenon
<1>5. TypeOK' /\ RetriesSafely' /\ RetryInv'
  <2>1. CASE FailFast(c)
    BY <1>1, <1>2, <2>1, Zenon DEF ClientInv, FailFast, call, TypeOK, RetriesSafely, RetryInv
  <2>2. CASE doOnce(c)
    <3>1. PICK o \in Outcome(c) :
            /\ status' = [status EXCEPT ![c] = o.st]
            /\ err' = [err EXCEPT ![c] = o.e]
            /\ pc' = [pc EXCEPT ![c] =
                 IF o.e /\ attempt[c] < MaxRetries /\ shouldRetry(method[c], o.st)
                   THEN "waiting" ELSE "returning"]
      BY <2>2, Zenon DEF doOnce, Healthy
    <3>2. o.st \in {0} \cup Status /\ o.e \in BOOLEAN
      BY Zenon DEF Outcome
    <3>3. method' = method /\ attempt' = attempt /\ cancelled' = cancelled
      BY <2>2, Zenon DEF doOnce
    <3>4. TypeOK'
      BY <1>1, <1>2, <3>1, <3>2, <3>3, Zenon DEF TypeOK
    <3>5. RetryInv'
      BY <1>1, <3>1, <3>2, <3>3, Zenon DEF ClientInv, RetryInv, TypeOK, shouldRetry
    <3>6. RetriesSafely'
      BY <1>1, <3>1, <3>2, <3>3, ClientAssumption DEF ClientInv, RetriesSafely, TypeOK, shouldRetry
    <3> QED
      BY <3>4, <3>5, <3>6, Zenon
  <2>3. CASE Retry(c)
    BY <1>1, <1>2, <2>3, ClientAssumption DEF ClientInv, Retry, TypeOK, RetriesSafely, RetryInv
  <2>4. CASE GiveUp(c)
    BY <1>1, <1>2, <2>4, Zenon DEF ClientInv, GiveUp, call, TypeOK, RetriesSafely, RetryInv
  <2>5. CASE Cancel(c)
    BY <1>1, <1>2, <2>5, Zenon DEF ClientInv, Cancel, call, TypeOK, RetriesSafely, RetryInv
  <2> QED
    BY <2>1, <2>2, <2>3, <2>4, <2>5, Zenon
<1> QED
  BY <1>4, <1>5, Zenon DEF ClientInv, BreakerConsistent

(* A call that is left is gone. *)
LEMMA LeaveInv ==
  ASSUME ClientInv, NEW c \in Calling, Leave(c), up' = up,
         state' \in {Closed, Open, HalfOpen}, failures' \in Nat, since' \in 0..Cooldown,
         trialActive' \in BOOLEAN, streak' \in 0..Threshold, orphaned' \in BOOLEAN
  PROVE  /\ TypeOK' /\ RetriesSafely' /\ RetryInv'
         /\ Calling' = Calling \ {c} /\ Cardinality(Calling') = Cardinality(Calling) - 1
         /\ Cardinality(Calling) \in Nat \ {0} /\ Cardinality(Calling) <= Cardinality(Caller)
         /\ Cardinality(Caller) \in Nat
<1>1. TypeOK /\ c \in Caller
  BY Zenon DEF ClientInv, BreakerConsistent, Calling
<1>2. AnyMethod \in Method
  BY ClientAssumption, Zenon DEF AnyMethod
<1>3. /\ method' \in [Caller -> Method] /\ attempt' \in [Caller -> 0..MaxRetries]
      /\ status' \in [Caller -> {0} \cup Status]
      /\ pc' \in [Caller -> {"idle", "refused", "sending", "waiting", "returning"}]
  BY <1>1, <1>2, ClientAssumption DEF Leave, TypeOK
<1>4. err' \in [Caller -> BOOLEAN] /\ cancelled' \in [Caller -> BOOLEAN] /\ trial' \in [Caller -> BOOLEAN]
  BY <1>1, Zenon DEF Leave, TypeOK
<1>5. TypeOK'
  BY <1>1, <1>3, <1>4, Zenon DEF TypeOK
<1>6. RetriesSafely' /\ RetryInv'
  BY <1>1 DEF ClientInv, Leave, TypeOK, RetriesSafely, RetryInv
<1>7. Calling' = Calling \ {c} /\ Cardinality(Calling') = Cardinality(Calling) - 1
  BY <1>1, Leaves, Zenon DEF Leave
<1>8. Cardinality(Calling) \in Nat \ {0}
  BY <1>1, CallingCount, FS_EmptySet, Zenon
<1> QED
  BY <1>1, <1>5, <1>6, <1>7, <1>8, CallingCount, Zenon

(* record: what is reported decides, whatever state the breaker is in. *)
LEMMA ReturnInv ==
  ASSUME ClientInv, NEW c \in Caller, Return(c)
  PROVE  ClientInv'
<1>1. /\ TypeOK /\ BreakerInv /\ FailuresBounded /\ c \in Calling
      /\ Leave(c) /\ up' = up /\ orphaned' = orphaned
      /\ Threshold \in Nat \ {0} /\ Cooldown \in Nat \ {0}
  BY ClientAssumption, Zenon DEF ClientInv, BreakerConsistent, Return, Calling
<1>2. CASE RecordSuccess /\ streak' = 0
  <2>1. /\ TypeOK' /\ RetriesSafely' /\ RetryInv' /\ Cardinality(Caller) \in Nat
    <3>1. trialActive' \in BOOLEAN /\ orphaned' \in BOOLEAN
      BY <1>1, <1>2, Zenon DEF RecordSuccess, TypeOK
    <3>2. /\ state' \in {Closed, Open, HalfOpen} /\ failures' \in Nat /\ since' \in 0..Cooldown
          /\ streak' \in 0..Threshold
      BY <1>1, <1>2 DEF RecordSuccess, TypeOK
    <3> QED
      BY <1>1, <3>1, <3>2, LeaveInv, Zenon
  <2>2. (TripsOnStreak /\ FailuresBounded /\ TrialOwned /\ BreakerInv)' /\ (orphaned => MayPanic)'
    BY <1>1, <1>2, <2>1
       DEF RecordSuccess, ClientInv, TripsOnStreak, FailuresBounded, TrialOwned, BreakerInv, Closed, HalfOpen
  <2> QED
    BY <2>1, <2>2, Zenon DEF ClientInv, BreakerConsistent
<1>3. CASE RecordFailure /\ Longer
  <2>1. /\ state' \in {Closed, Open, HalfOpen} /\ failures' \in Nat /\ since' \in 0..Cooldown
        /\ trialActive' \in BOOLEAN /\ streak' \in 0..Threshold
    <3>1. trialActive' \in BOOLEAN
      BY <1>1, <1>3, Zenon DEF RecordFailure, TypeOK
    <3>2. /\ state' \in {Closed, Open, HalfOpen} /\ failures' \in Nat /\ since' \in 0..Cooldown
          /\ streak' \in 0..Threshold
      BY <1>1, <1>3 DEF RecordFailure, Longer, TypeOK
    <3> QED
      BY <3>1, <3>2, Zenon
  <2>2. /\ TypeOK' /\ RetriesSafely' /\ RetryInv'
        /\ Cardinality(Calling') = Cardinality(Calling) - 1
        /\ Cardinality(Calling) \in Nat \ {0} /\ Cardinality(Calling) <= Cardinality(Caller)
        /\ Cardinality(Caller) \in Nat
    BY <1>1, <2>1, LeaveInv, Zenon DEF TypeOK
  <2>3. BreakerInv' /\ FailuresBounded'
    <3>1. CASE state = HalfOpen
      BY <3>1, <1>1, <1>3, <2>2
         DEF RecordFailure, Longer, TypeOK, BreakerInv, FailuresBounded, Closed, Open, HalfOpen
    <3>2. CASE state = Open
      BY <3>2, <1>1, <1>3, <2>2
         DEF RecordFailure, Longer, TypeOK, BreakerInv, FailuresBounded, Closed, Open, HalfOpen
    <3>3. CASE state = Closed
      BY <3>3, <1>1, <1>3, <2>2
         DEF RecordFailure, Longer, TypeOK, BreakerInv, FailuresBounded, Closed, Open, HalfOpen
    <3> QED
      BY <3>1, <3>2, <3>3, <1>1, Zenon DEF TypeOK
  <2>4. TripsOnStreak'
    BY <1>1, <2>2, <2>3 DEF BreakerInv, TripsOnStreak
  <2>5. TrialOwned'
    BY <1>1, <1>3, Zenon DEF RecordFailure, TrialOwned, Closed, Open, HalfOpen, TypeOK
  <2> QED
    BY <1>1, <2>2, <2>3, <2>4, <2>5, Zenon DEF ClientInv, BreakerConsistent
<1> QED
  BY <1>2, <1>3, Zenon DEF Return, record

LEMMA PanicInv ==
  ASSUME ClientInv, NEW c \in Caller, Panic(c)
  PROVE  ClientInv'
<1>1. /\ TypeOK /\ BreakerInv /\ FailuresBounded /\ c \in Calling
      /\ Leave(c) /\ up' = up /\ UNCHANGED <<state, failures, since, trialActive, streak>>
      /\ orphaned' = (orphaned \/ trial[c]) /\ MayPanic
  BY Zenon DEF ClientInv, BreakerConsistent, Panic, Calling, breaker
<1>2. orphaned' \in BOOLEAN
  BY <1>1, Zenon DEF TypeOK
<1>3. /\ TypeOK' /\ RetriesSafely' /\ RetryInv' /\ Calling' = Calling \ {c}
      /\ Cardinality(Calling') = Cardinality(Calling) - 1
      /\ Cardinality(Calling) \in Nat \ {0} /\ Cardinality(Caller) \in Nat
  BY <1>1, <1>2, LeaveInv, Zenon DEF TypeOK
<1>4. BreakerInv' /\ FailuresBounded' /\ TripsOnStreak'
  BY <1>1, <1>3, ClientAssumption
     DEF ClientInv, BreakerConsistent, BreakerInv, FailuresBounded, TripsOnStreak, TypeOK, Closed, HalfOpen
<1>5. TrialOwned'
  <2>1. CASE trial[c]
    BY <2>1, <1>1, Zenon DEF ClientInv, BreakerConsistent, TrialOwned, HalfOpen
  <2>2. CASE ~trial[c]
    BY <2>2, <1>1, <1>3, Zenon DEF ClientInv, BreakerConsistent, TrialOwned, HalfOpen, Leave, TypeOK, Calling
  <2> QED
    BY <2>1, <2>2, Zenon
<1> QED
  BY <1>1, <1>3, <1>4, <1>5, Zenon DEF ClientInv, BreakerConsistent

(* Time, the upstream, and steps of others. *)
LEMMA OutsideInv ==
  ASSUME ClientInv, Tick \/ UpstreamTurns \/ UNCHANGED vars
  PROVE  ClientInv'
<1>1. TypeOK
  BY Zenon DEF ClientInv, BreakerConsistent
<1>2. /\ UNCHANGED <<state, failures, trialActive, pc, method, attempt, status, err, cancelled, trial, streak, orphaned>>
      /\ Calling' = Calling
  BY Zenon DEF Tick, UpstreamTurns, vars, breaker, call, ghost, Calling
<1>3. since' \in 0..Cooldown /\ up' \in BOOLEAN
  <2>1. since' \in 0..Cooldown
    BY <1>1, ClientAssumption DEF Tick, UpstreamTurns, vars, breaker, TypeOK
  <2>2. up' \in BOOLEAN
    BY <1>1, Zenon DEF Tick, UpstreamTurns, vars, TypeOK
  <2> QED
    BY <2>1, <2>2, Zenon
<1>4. TypeOK'
  BY <1>1, <1>2, <1>3, Zenon DEF TypeOK
<1>5. (TripsOnStreak /\ FailuresBounded /\ TrialOwned /\ BreakerInv)'
  BY <1>2, Zenon DEF ClientInv, BreakerConsistent, TripsOnStreak, FailuresBounded, TrialOwned, BreakerInv, Closed, HalfOpen
<1>6. RetriesSafely' /\ RetryInv'
  BY <1>2, Zenon DEF ClientInv, RetriesSafely, RetryInv
<1> QED
  BY <1>2, <1>4, <1>5, <1>6, Zenon DEF ClientInv, BreakerConsistent

(* breaker.go:53-97, client.go:171-216: the inductive invariant, through every *)
(* overlap of calls, late reports, panics, retries and cancellations.         *)
THEOREM ClientInvariant == Spec => []ClientInv
<1>1. ClientInv /\ [Next]_vars => ClientInv'
  <2> SUFFICES ASSUME ClientInv, [Next]_vars PROVE ClientInv'
    BY Zenon
  <2>1. CASE Tick \/ UpstreamTurns \/ UNCHANGED vars
    BY <2>1, OutsideInv, Zenon
  <2>2. ASSUME NEW c \in Caller, CallerStep(c) PROVE ClientInv'
    <3>1. ASSUME NEW m \in Method, Do(c, m) PROVE ClientInv'
      BY <3>1, DoInv, Zenon
    <3>2. CASE FailFast(c) \/ doOnce(c) \/ Retry(c) \/ GiveUp(c) \/ Cancel(c)
      BY <3>2, CallInv, Zenon
    <3>3. CASE Return(c)
      BY <3>3, ReturnInv, Zenon
    <3>4. CASE Panic(c)
      BY <3>4, PanicInv, Zenon
    <3> QED
      BY <2>2, <3>1, <3>2, <3>3, <3>4, Zenon DEF CallerStep
  <2> QED
    BY <2>1, <2>2, Zenon DEF Next
<1> QED
  BY InitInv, <1>1, PTL DEF Spec

(* breaker.go:26-97: for every threshold, cooldown and number of callers,    *)
(* whatever state a call was admitted in and reports to: the breaker is      *)
(* closed exactly while the streak of failures is short of the threshold,    *)
(* the count stays below the threshold plus the callers, and half-open it    *)
(* waits for a trial in flight unless one was unwound by a panic.            *)
THEOREM BreakerHolds == Spec => []BreakerConsistent
<1>1. ClientInv => BreakerConsistent
  BY Zenon DEF ClientInv
<1> QED
  BY <1>1, ClientInvariant, PTL

(* breaker.go:53-97: where application code does not panic inside an attempt *)
(* there is always a trial in flight to end the half-open state.             *)
THEOREM TrialHeld ==
  ASSUME ~MayPanic
  PROVE  Spec => [](state = HalfOpen => trialActive /\ \E c \in Calling : trial[c])
<1>1. ClientInv => (state = HalfOpen => trialActive /\ \E c \in Calling : trial[c])
  BY Zenon DEF ClientInv, BreakerConsistent, TrialOwned
<1> QED
  BY <1>1, ClientInvariant, PTL

(* client.go:196-216, 297-305: for every retry policy, only a request whose  *)
(* method may be repeated is sent again, and a failure is given back only    *)
(* when no attempt is left or due, or the caller is gone.                    *)
THEOREM RetriesHold == Spec => []RetriesSafely
<1>1. ClientInv => RetriesSafely
  BY Zenon DEF ClientInv
<1> QED
  BY <1>1, ClientInvariant, PTL

-----------------------------------------------------------------------------
CONSTANTS Request, Probe, Unhurried

VARIABLES server, errCh, shutdown, closing, late, backends, request, notReady, sUp, probe

Server == INSTANCE HttpServer WITH up <- sUp

(* module.go:57-59: backends close after the last HTTP handler, when handlers *)
(* keep to the deadline of Close.                                            *)
BackendsLast == Server!BackendsLast

(* The HTTP server.  Once Shutdown is called no request begins; where the    *)
(* handlers keep to the deadline, none runs when it passes.                  *)
ServerInv ==
  /\ Server!TypeOK
  /\ closing # "no" => shutdown
  /\ late => closing # "no"
  /\ backends = "closed" => closing = "returned"
  /\ server # "stopped" => errCh = "empty"
  /\ ~Unhurried /\ (late \/ closing = "returned") => Server!Running = {}

LEMMA ServerStep == ServerInv /\ [Server!Next]_Server!vars => ServerInv'
<1> SUFFICES ASSUME ServerInv, [Server!Next]_Server!vars PROVE ServerInv'
  BY Zenon
<1> USE DEF ServerInv
<1>1. CASE Server!Start
  BY <1>1, Zenon DEF Server!Start, Server!TypeOK, Server!Running
<1>2. CASE Server!serve
  BY <1>2, Zenon DEF Server!serve, Server!TypeOK, Server!Running
<1>3. CASE Server!Close
  BY <1>3, Zenon DEF Server!Close, Server!TypeOK, Server!Running
<1>4. CASE Server!DeadlinePasses
  BY <1>4, Zenon DEF Server!DeadlinePasses, Server!TypeOK, Server!Running
<1>5. CASE Server!Stop
  BY <1>5, Zenon DEF Server!Stop, Server!TypeOK, Server!Running
<1>6. CASE Server!CloseBackends
  BY <1>6, Zenon DEF Server!CloseBackends, Server!TypeOK, Server!Running
<1>7. CASE Server!Dependency \/ \E b \in BOOLEAN : Server!SetReady(b)
  <2>1. notReady' \in BOOLEAN /\ sUp' \in BOOLEAN
    BY <1>7, Zenon DEF Server!Dependency, Server!SetReady, Server!TypeOK
  <2>2. UNCHANGED <<server, errCh, shutdown, closing, late, backends, request, probe>>
    BY <1>7, Zenon DEF Server!Dependency, Server!SetReady
  <2> QED
    BY <2>1, <2>2, Zenon DEF Server!TypeOK, Server!Running
<1>8. ASSUME NEW r \in Request, Server!Begin(r) \/ Server!End(r) PROVE ServerInv'
  BY <1>8 DEF Server!Begin, Server!End, Server!Accepting, Server!TypeOK, Server!Running
<1>9. ASSUME NEW p \in Probe, Server!readyz(p) \/ Server!runReadinessChecks(p) PROVE ServerInv'
  BY <1>9 DEF Server!readyz, Server!runReadinessChecks, Server!Answer, Server!TypeOK, Server!Running
<1>10. CASE UNCHANGED Server!vars
  BY <1>10, Zenon DEF Server!vars, Server!TypeOK, Server!Running
<1> QED
  BY <1>1, <1>2, <1>3, <1>4, <1>5, <1>6, <1>7, <1>8, <1>9, <1>10, Zenon DEF Server!Next

LEMMA ServerInvariant == Server!Spec => []ServerInv
<1>1. Server!Init => ServerInv
  BY Zenon DEF Server!Init, ServerInv, Server!TypeOK, Server!Running
<1> QED
  BY <1>1, ServerStep, PTL DEF Server!Spec

(* module.go:57-59, server.go:271-279: with any number of requests and       *)
(* probes, whenever Close comes and the deadline passes, the backends are    *)
(* closed after the last handler that keeps to the deadline.                 *)
THEOREM BackendsCloseLast == Server!Spec => []BackendsLast
<1>1. ServerInv => BackendsLast
  BY Zenon DEF ServerInv, BackendsLast, Server!BackendsLast, Server!BackendsOutlive
<1> QED
  BY <1>1, ServerInvariant, PTL

-----------------------------------------------------------------------------
CONSTANTS Call, Heedless

VARIABLES gServer, gNotReady, health, gUp, prober, verdict, updater, healthStop, gClosing, gLate, rpc

RpcServer == INSTANCE GrpcServer WITH
  server <- gServer, notReady <- gNotReady, up <- gUp, closing <- gClosing, late <- gLate, call <- rpc

(* grpcx/server.go:92-95, 243-244: gRPC calls are cut only when the time to  *)
(* drain is over, and once readiness is off the health service says          *)
(* NOT_SERVING, late probes or not.                                          *)
RpcsDrained == RpcServer!RpcsDrained

(* The gRPC server.  Its properties are inductive with their types. *)
LEMMA RpcStep == RpcServer!RpcsDrained /\ [RpcServer!Next]_RpcServer!vars => RpcServer!RpcsDrained'
<1> SUFFICES ASSUME RpcServer!RpcsDrained, [RpcServer!Next]_RpcServer!vars PROVE RpcServer!RpcsDrained'
  BY Zenon
<1> USE DEF RpcServer!RpcsDrained, RpcServer!TypeOK, RpcServer!OffIsOff, RpcServer!DrainsFirst, RpcServer!Running
<1>1. CASE RpcServer!InitServer \/ RpcServer!Start
  BY <1>1, Zenon DEF RpcServer!InitServer, RpcServer!Start
<1>2. CASE RpcServer!Check \/ RpcServer!runReadinessChecks
  BY <1>2 DEF RpcServer!Check, RpcServer!runReadinessChecks
<1>3. CASE RpcServer!Publish
  BY <1>3, ZenonT(40) DEF RpcServer!Publish
<1>4. CASE RpcServer!Tick \/ RpcServer!UpdaterStops
  BY <1>4 DEF RpcServer!Tick, RpcServer!UpdaterStops
<1>5. ASSUME NEW b \in BOOLEAN, RpcServer!SetReady(b) PROVE RpcServer!RpcsDrained'
  <2>1. gNotReady' \in BOOLEAN
    BY <1>5, Zenon DEF RpcServer!SetReady
  <2>2. health' \in {"none", "SERVING", "NOT_SERVING"} /\ (gServer # "new" /\ gNotReady' => health' = "NOT_SERVING" \/ b)
    BY <1>5, Zenon DEF RpcServer!SetReady
  <2> QED
    BY <1>5, <2>1, <2>2 DEF RpcServer!SetReady
<1>6. CASE RpcServer!Dependency
  <2>1. gUp' \in BOOLEAN
    BY <1>6, Zenon DEF RpcServer!Dependency
  <2> QED
    BY <1>6, <2>1 DEF RpcServer!Dependency
<1>7. CASE RpcServer!Close \/ RpcServer!DeadlinePasses
  <2>1. healthStop' \in BOOLEAN /\ gLate' \in BOOLEAN /\ (gLate => gLate')
    BY <1>7, Zenon DEF RpcServer!Close, RpcServer!DeadlinePasses
  <2>2. gClosing' \in {"no", "graceful"}
    BY <1>7, Zenon DEF RpcServer!Close, RpcServer!DeadlinePasses
  <2>3. UNCHANGED <<gServer, gNotReady, health, gUp, prober, verdict, updater, rpc>>
    BY <1>7, Zenon DEF RpcServer!Close, RpcServer!DeadlinePasses
  <2> QED
    BY <2>1, <2>2, <2>3
<1>8. CASE RpcServer!Force \/ RpcServer!Return
  BY <1>8 DEF RpcServer!Force, RpcServer!Return
<1>9. ASSUME NEW c \in Call, RpcServer!CallBegins(c) \/ RpcServer!CallEnds(c) PROVE RpcServer!RpcsDrained'
  BY <1>9 DEF RpcServer!CallBegins, RpcServer!CallEnds
<1>10. CASE UNCHANGED RpcServer!vars
  BY <1>10 DEF RpcServer!vars
<1> QED
  BY <1>1, <1>2, <1>3, <1>4, <1>5, <1>6, <1>7, <1>8, <1>9, <1>10, Zenon DEF RpcServer!Next

(* grpcx/server.go:92-95, 203-219, 243-271: with any number of calls, and a  *)
(* probe under way whenever readiness is turned off, a serving server says   *)
(* NOT_SERVING; a call is cut only after the deadline of Close, which comes  *)
(* back, forced or not, with no handler at work.                             *)
THEOREM RpcsDrain == RpcServer!Spec => []RpcsDrained
<1>1. RpcServer!Init => RpcServer!RpcsDrained
  BY Zenon DEF RpcServer!Init, RpcServer!RpcsDrained, RpcServer!TypeOK, RpcServer!OffIsOff, RpcServer!DrainsFirst,
         RpcServer!Running
<1> QED
  BY <1>1, RpcStep, PTL DEF RpcServer!Spec, RpcsDrained

-----------------------------------------------------------------------------
CONSTANTS StatusCode, MaxWrites, MayLeave

VARIABLES tLate, ctx, tState, code, buf, header, real, watcher, main, panicked, expired, chan

Deadline == INSTANCE Timeout WITH Code <- StatusCode, late <- tLate, state <- tState

(* timeout.go:20-23, 60-83: the client never gets a mixture of two           *)
(* responses; in time, late or panicking, the right one goes out, and the    *)
(* watcher is gone by the time it is decided.                                *)
OneRightResponse == Deadline!OneRightResponse

\* Two sequences make one.
LEMMA Joined == ASSUME NEW S, NEW s \in Seq(S), NEW t \in Seq(S) PROVE s \o t \in Seq(S)
OBVIOUS

(* Timeout.  What has gone to the client follows from the state of the       *)
(* timeoutWriter: nothing while it buffers, the 503 once it has timed out,   *)
(* and in passthrough what Settle let through and the middlewares around     *)
(* Timeout added.                                                            *)
Handled == Seq({"handler"})

Passed(b) == \E s \in {<<>>, <<"upstream">>} : real.body = b \o s

WriterInv ==
  /\ tState = "buffering" => ~real.sent /\ real.body = <<>> /\ ~real.header
  /\ tState = "timedOut" => real.status = 503 /\ real.sent /\ real.body = <<"timeout">> /\ ~real.header
  /\ tState = "passthrough" /\ main = "upstream" /\ panicked =>
       ~real.sent /\ real.body = <<>> /\ ~real.header
  /\ tState = "passthrough" /\ main = "upstream" /\ ~panicked =>
       real.body = buf /\ real.header = header /\ real.status = code
  /\ tState = "passthrough" /\ main = "end" /\ panicked =>
       real.body = <<"upstream">> /\ ~real.header /\ real.status = 500
  /\ tState = "passthrough" /\ main = "end" /\ ~panicked =>
       Passed(buf) /\ real.header = header /\ (real.body = buf => real.status = code)

ResponseInv ==
  /\ Deadline!TypeOK /\ Deadline!WatcherRetired /\ WriterInv
  /\ tState = "passthrough" <=> main \in {"upstream", "end"} /\ tState # "timedOut"
  /\ main \in {"settle", "upstream", "end"} /\ expired => tState = "timedOut"

LEMMA ResponseRight == ResponseInv => Deadline!OneRightResponse
<1> SUFFICES ASSUME ResponseInv PROVE Deadline!OneRightResponse
  BY Zenon
<1>1. ASSUME tState = "timedOut" PROVE Deadline!TimedOut
  <2>1. real.body = <<"timeout">>
    BY <1>1, Zenon DEF ResponseInv, WriterInv
  <2> QED
    BY <2>1 DEF Deadline!TimedOut
<1>2. tState # "timedOut" => ~Deadline!TimedOut
  <2>1. CASE tState = "buffering"
    BY <2>1 DEF ResponseInv, WriterInv, Deadline!TimedOut
  <2>2. CASE tState = "passthrough" /\ panicked
    BY <2>2 DEF ResponseInv, WriterInv, Deadline!TimedOut
  <2>3. CASE tState = "passthrough" /\ ~panicked
    <3>1. Passed(buf) /\ buf \in Handled
      <4>1. buf \in Handled
        BY DEF ResponseInv, Deadline!TypeOK, Handled
      <4>2. CASE main = "upstream"
        <5>1. buf = buf \o <<>>
          BY <4>1 DEF Handled
        <5> QED
          BY <4>1, <4>2, <5>1, <2>3, Zenon DEF ResponseInv, WriterInv, Passed
      <4> QED
        BY <4>1, <4>2, <2>3, Zenon DEF ResponseInv, WriterInv
    <3>2. PICK s \in {<<>>, <<"upstream">>} : real.body = buf \o s
      BY <3>1, Zenon DEF Passed
    <3>3. buf \in Seq({"handler", "upstream"}) /\ s \in Seq({"handler", "upstream"})
      <4>1. buf \in Seq({"handler", "upstream"})
        BY <3>1 DEF Handled
      <4>2. CASE s = <<>>
        BY <4>1, <4>2
      <4>3. CASE s = <<"upstream">>
        BY <4>1, <4>3
      <4> QED
        BY <4>1, <4>2, <4>3, Zenon
    <3>4. buf \o s \in Seq({"handler", "upstream"})
      BY <3>3, Joined, Zenon
    <3>5. \A i \in 1..Len(buf \o s) : (buf \o s)[i] # "timeout"
      BY <3>4
    <3> QED
      BY <3>2, <3>5, Zenon DEF Deadline!TimedOut
  <2> QED
    BY <2>1, <2>2, <2>3 DEF ResponseInv, Deadline!TypeOK
<1>3. Deadline!Unmixed
  BY <1>1, <1>2 DEF ResponseInv, WriterInv, Deadline!Unmixed
<1>4. Deadline!RightAnswer
  BY <1>1, <1>2 DEF ResponseInv, WriterInv, Deadline!RightAnswer, Passed
<1> QED
  BY <1>3, <1>4, Zenon DEF ResponseInv, Deadline!OneRightResponse

(* gin's writer. *)
Bodies == Seq({"handler", "timeout", "upstream"})
Written == [status : StatusCode \cup {400, 500, 503}, sent : BOOLEAN, body : Bodies, header : BOOLEAN]

(* A record with two of its fields replaced. *)
LEMMA TwoFields ==
  ASSUME NEW A, NEW B, NEW C, NEW D, NEW w \in [status : A, sent : B, body : C, header : D],
         NEW x \in B, NEW b \in C
  PROVE  /\ [w EXCEPT !.sent = x, !.body = b] \in [status : A, sent : B, body : C, header : D]
         /\ [w EXCEPT !.sent = x, !.body = b].status = w.status
         /\ [w EXCEPT !.sent = x, !.body = b].sent = x
         /\ [w EXCEPT !.sent = x, !.body = b].body = b
         /\ [w EXCEPT !.sent = x, !.body = b].header = w.header
BY Zenon

LEMMA StatusFacts ==
  ASSUME NEW w \in Written, NEW c \in StatusCode \cup {400, 500, 503}
  PROVE  /\ Deadline!RealStatus(w, c) \in Written
         /\ Deadline!RealStatus(w, c).sent = w.sent
         /\ Deadline!RealStatus(w, c).body = w.body
         /\ Deadline!RealStatus(w, c).header = w.header
         /\ Deadline!RealStatus(w, c).status = IF w.sent THEN w.status ELSE c
BY DEF Written, Deadline!RealStatus

Wrote(v, w, s) ==
  /\ v \in Written /\ v.sent = TRUE
  /\ v.body = w.body \o s /\ v.header = w.header /\ v.status = w.status

LEMMA WriteFacts ==
  ASSUME NEW w \in Written, NEW s \in Bodies
  PROVE  Wrote(Deadline!RealWrite(w, s), w, s)
<1> DEFINE A == StatusCode \cup {400, 500, 503}
           B == BOOLEAN
           C == Bodies
           x == TRUE
           b == w.body \o s
<1>1. b \in C /\ x \in B /\ w \in [status : A, sent : B, body : C, header : B]
  BY Joined DEF Written, Bodies
<1>2. Deadline!RealWrite(w, s) = [w EXCEPT !.sent = x, !.body = b]
  BY Zenon DEF Deadline!RealWrite
<1>3. Written = [status : A, sent : B, body : C, header : B]
  BY DEF Written
<1> HIDE DEF A, B, C, b, x
<1>4. /\ [w EXCEPT !.sent = x, !.body = b] \in Written
      /\ [w EXCEPT !.sent = x, !.body = b].status = w.status
      /\ [w EXCEPT !.sent = x, !.body = b].sent = x
      /\ [w EXCEPT !.sent = x, !.body = b].body = b
      /\ [w EXCEPT !.sent = x, !.body = b].header = w.header
  BY <1>1, <1>3, TwoFields, Zenon
<1> QED
  BY <1>2, <1>4, Zenon DEF Wrote, b, x

LEMMA SentFacts ==
  ASSUME NEW w \in Written
  PROVE  /\ [w EXCEPT !.sent = TRUE] \in Written
         /\ [w EXCEPT !.sent = TRUE].status = w.status
         /\ [w EXCEPT !.sent = TRUE].sent = TRUE
         /\ [w EXCEPT !.sent = TRUE].body = w.body
         /\ [w EXCEPT !.sent = TRUE].header = w.header
<1> DEFINE x == TRUE
           B == BOOLEAN
           A == StatusCode \cup {400, 500, 503}
<1>1. x \in B /\ w \in [status : A, sent : B, body : Bodies, header : B]
  BY DEF Written
<1>2. Written = [status : A, sent : B, body : Bodies, header : B]
  BY DEF Written
<1> HIDE DEF x, A, B
<1>3. /\ [w EXCEPT !.sent = x] \in Written
      /\ [w EXCEPT !.sent = x].status = w.status
      /\ [w EXCEPT !.sent = x].sent = x
      /\ [w EXCEPT !.sent = x].body = w.body
      /\ [w EXCEPT !.sent = x].header = w.header
  BY <1>1, <1>2, Zenon
<1> QED
  BY <1>3, Zenon DEF x

(* writeTimeout, before anything was let through. *)
LEMMA TimeoutSent ==
  ASSUME ResponseInv, tState # "passthrough", Deadline!writeTimeout
  PROVE  /\ tState' = "timedOut" /\ code' \in StatusCode \cup {503} /\ UNCHANGED <<buf, header>>
         /\ real' \in Written /\ real'.status = 503 /\ real'.sent = TRUE /\ real'.body = <<"timeout">> /\ ~real'.header
<1>1. real \in Written /\ code \in StatusCode \cup {503}
  BY DEF ResponseInv, Deadline!TypeOK, Written, Bodies
<1>2. CASE tState = "timedOut"
  BY <1>1, <1>2 DEF ResponseInv, WriterInv, Deadline!writeTimeout, Deadline!writer
<1>3. CASE tState = "buffering"
  <2> DEFINE w == Deadline!RealStatus(real, 503)
  <2>1. ~real.sent /\ real.body = <<>> /\ ~real.header
    BY <1>3, Zenon DEF ResponseInv, WriterInv
  <2>2. w \in Written /\ w.body = <<>> /\ ~w.header /\ w.status = 503
    BY <1>1, <2>1, StatusFacts
  <2>3. real' = Deadline!RealWrite(w, <<"timeout">>) /\ tState' = "timedOut" /\ code' = 503 /\ UNCHANGED <<buf, header>>
    BY <1>3 DEF Deadline!writeTimeout
  <2> HIDE DEF w
  <2>4. <<"timeout">> \in Seq({"handler", "timeout", "upstream"}) /\ <<>> \o <<"timeout">> = <<"timeout">>
    OBVIOUS
  <2>5. real' \in Written /\ real'.status = 503 /\ real'.sent = TRUE /\ real'.body = <<"timeout">> /\ ~real'.header
    <3> DEFINE s == <<"timeout">>
               v == Deadline!RealWrite(w, s)
    <3>1. s \in Bodies
      BY <2>4, Zenon DEF Bodies
    <3> HIDE DEF s
    <3>2. Wrote(v, w, s)
      BY <2>2, <3>1, WriteFacts, Zenon
    <3> HIDE DEF v
    <3>3. real' = v
      BY <2>3, Zenon DEF v, s
    <3>4. v.body = <<"timeout">>
      BY <2>2, <2>4, <3>2 DEF s, Wrote
    <3> QED
      BY <2>2, <3>2, <3>3, <3>4, ZenonT(40) DEF Wrote
  <2> QED
    BY <2>3, <2>5, Zenon
<1>4. tState \in {"buffering", "passthrough", "timedOut"}
  BY ZenonT(40) DEF ResponseInv, Deadline!TypeOK
<1> QED
  BY <1>2, <1>3, <1>4, Zenon

(* commit lets the whole buffered response through. *)
LEMMA Committed ==
  ASSUME ResponseInv, tState = "buffering", Deadline!commit
  PROVE  /\ tState' = "passthrough" /\ UNCHANGED <<code, buf, header>>
         /\ real' \in Written /\ real'.body = buf /\ real'.header = header /\ real'.status = code
<1> DEFINE h == [real EXCEPT !.header = header]
           w == Deadline!RealStatus(h, code)
<1>1. real \in Written /\ header \in BOOLEAN /\ code \in StatusCode \cup {400, 500, 503} /\ buf \in Seq({"handler"})
  BY DEF ResponseInv, Deadline!TypeOK, Written, Bodies
<1>2. ~real.sent /\ real.body = <<>>
  BY Zenon DEF ResponseInv, WriterInv
<1>3. h \in Written /\ h.header = header /\ h.sent = real.sent /\ h.body = real.body
  BY <1>1 DEF Written
<1>4. /\ tState' = "passthrough" /\ UNCHANGED <<code, buf, header>>
      /\ real' = IF buf = <<>> THEN w ELSE Deadline!RealWrite(w, buf)
  BY Zenon DEF Deadline!commit
<1> HIDE DEF h
<1>5. w \in Written /\ w.header = header /\ w.body = <<>> /\ w.status = code
  BY <1>1, <1>2, <1>3, StatusFacts
<1> HIDE DEF w
<1>6. buf \in Bodies /\ <<>> \o buf = buf
  BY <1>1 DEF Bodies
<1>7. real' \in Written /\ real'.body = buf /\ real'.header = header /\ real'.status = code
  <2>1. Wrote(Deadline!RealWrite(w, buf), w, buf)
    BY <1>5, <1>6, WriteFacts, Zenon
  <2> QED
    BY <1>4, <1>5, <1>6, <2>1, Zenon DEF Wrote
<1> QED
  BY <1>4, <1>7, Zenon

(* What the middlewares around Timeout write. *)
Added(v, u, c) ==
  /\ v \in Written /\ v.sent = TRUE
  /\ v.body = u.body \o <<"upstream">> /\ v.header = u.header
  /\ v.status = IF u.sent THEN u.status ELSE c

LEMMA AddedUpstream ==
  ASSUME NEW u \in Written, NEW c \in {400, 500}
  PROVE  Added(Deadline!RealWrite(Deadline!RealStatus(u, c), <<"upstream">>), u, c)
<1> DEFINE w == Deadline!RealStatus(u, c)
           s == <<"upstream">>
           v == Deadline!RealWrite(w, s)
<1>1. w \in Written
  BY StatusFacts
<1>2. w.header = u.header /\ w.body = u.body /\ w.status = IF u.sent THEN u.status ELSE c
  BY StatusFacts
<1>3. s \in Bodies
  BY DEF Bodies
<1> HIDE DEF w, s
<1>4. Wrote(v, w, s)
  BY <1>1, <1>3, WriteFacts, Zenon
<1> HIDE DEF v
<1>5. Added(v, u, c)
  BY <1>2, <1>4, ZenonT(40) DEF Wrote, Added, s
<1> QED
  BY <1>5, Zenon DEF v, w, s

LEMMA ResponseStep ==
  ASSUME 200 \in StatusCode, MaxWrites \in Nat, ResponseInv, [Deadline!Next]_Deadline!vars
  PROVE  ResponseInv'
<1>1. /\ Deadline!TypeOK /\ Deadline!WatcherRetired /\ WriterInv
      /\ tState = "passthrough" <=> main \in {"upstream", "end"} /\ tState # "timedOut"
      /\ main \in {"settle", "upstream", "end"} /\ expired => tState = "timedOut"
  BY Zenon DEF ResponseInv
<1>2. real \in Written
  BY <1>1, ZenonT(40) DEF Deadline!TypeOK, Written, Bodies
<1>3. CASE Deadline!HandlerWrites
  <2>1. /\ main = "handler" /\ tState # "passthrough"
        /\ UNCHANGED <<tLate, ctx, tState, watcher, main, panicked, expired, chan>>
    BY <1>1, <1>3, Zenon DEF Deadline!HandlerWrites, Deadline!WriteHeader, Deadline!Write
  <2>2. real' = real /\ code' \in StatusCode \cup {503} /\ buf' \in Seq({"handler"})
    <3>1. buf \o <<"handler">> \in Seq({"handler"})
      BY <1>1 DEF Deadline!TypeOK
    <3>2. code \in StatusCode \cup {503} /\ buf \in Seq({"handler"})
      BY <1>1 DEF Deadline!TypeOK
    <3>3. ASSUME NEW c \in StatusCode, Deadline!WriteHeader(c) PROVE real' = real /\ code' \in StatusCode \cup {503} /\ buf' = buf
      BY <2>1, <3>2, <3>3 DEF Deadline!WriteHeader
    <3>4. ASSUME Deadline!Write(<<"handler">>) PROVE real' = real /\ code' = code /\ buf' \in Seq({"handler"})
      BY <2>1, <3>1, <3>2, <3>4, ZenonT(40) DEF Deadline!Write
    <3> QED
      BY <1>3, <3>2, <3>3, <3>4 DEF Deadline!HandlerWrites
  <2>3. header' \in BOOLEAN
    <3>1. header \in BOOLEAN
      BY <1>1, ZenonT(40) DEF Deadline!TypeOK
    <3>2. ASSUME NEW c \in StatusCode, Deadline!WriteHeader(c) PROVE header' = header
      BY <3>2, Zenon DEF Deadline!WriteHeader
    <3>3. ASSUME Deadline!Write(<<"handler">>) PROVE header' = header
      BY <3>3, Zenon DEF Deadline!Write
    <3>4. header' = header \/ header' = TRUE
      BY <1>3, <3>2, <3>3, Zenon DEF Deadline!HandlerWrites
    <3> QED
      BY <3>1, <3>4, Zenon
  <2>4. Deadline!TypeOK'
    BY <1>1, <2>1, <2>2, <2>3 DEF Deadline!TypeOK
  <2>5. WriterInv'
    BY <1>1, <2>1, <2>2, ZenonT(40) DEF WriterInv
  <2> QED
    BY <1>1, <2>1, <2>4, <2>5, Zenon DEF ResponseInv, Deadline!WatcherRetired
<1>4. ASSUME NEW b \in BOOLEAN, Deadline!HandlerEnds(b) PROVE ResponseInv'
  <2>1. panicked' \in BOOLEAN /\ expired' \in BOOLEAN
    BY <1>1, <1>4 DEF Deadline!HandlerEnds, Deadline!TypeOK
  <2>2. /\ UNCHANGED <<tLate, ctx, tState, code, buf, header, real, watcher, chan>>
        /\ main' = "deferred" /\ tState # "passthrough"
    BY <1>1, <1>4, Zenon DEF Deadline!HandlerEnds, Deadline!writer
  <2>3. Deadline!TypeOK'
    BY <1>1, <2>1, <2>2 DEF Deadline!TypeOK
  <2>4. WriterInv'
    BY <1>1, <2>2, ZenonT(40) DEF WriterInv
  <2> QED
    BY <2>2, <2>3, <2>4, Zenon DEF ResponseInv, Deadline!WatcherRetired
<1>5. CASE Deadline!CloseDone \/ Deadline!Retired
  <2>1. chan' \in BOOLEAN
    BY <1>1, <1>5, ZenonT(40) DEF Deadline!CloseDone, Deadline!Retired, Deadline!TypeOK
  <2>2. /\ UNCHANGED <<tLate, ctx, tState, code, buf, header, real, watcher, panicked, expired>>
        /\ main \in {"deferred", "retire"} /\ (main' = "retire" \/ (main' = "expire" /\ watcher = "gone"))
    <3>1. CASE Deadline!CloseDone
      <4>1. main = "deferred" /\ main' = "retire"
        BY <3>1, Zenon DEF Deadline!CloseDone
      <4>2. UNCHANGED <<tLate, ctx, tState, code, buf, header, real, watcher, panicked, expired>>
        BY <3>1, Zenon DEF Deadline!CloseDone, Deadline!writer
      <4> QED
        BY <4>1, <4>2, Zenon
    <3>2. CASE Deadline!Retired
      BY <3>2, Zenon DEF Deadline!Retired, Deadline!writer
    <3> QED
      BY <1>5, <3>1, <3>2, Zenon
  <2>3. Deadline!TypeOK'
    BY <1>1, <2>1, <2>2 DEF Deadline!TypeOK
  <2>4. WriterInv'
    BY <1>1, <2>2, ZenonT(40) DEF WriterInv
  <2> QED
    BY <1>1, <2>2, <2>3, <2>4, Zenon DEF ResponseInv, Deadline!WatcherRetired
<1>6. CASE Deadline!Expire
  <2>1. /\ main = "expire" /\ main' = "settle" /\ watcher = "gone" /\ tState # "passthrough"
        /\ UNCHANGED <<tLate, ctx, watcher, panicked, expired, chan>>
    BY <1>1, <1>6, Zenon DEF Deadline!Expire, Deadline!WatcherRetired
  <2>2. CASE expired
    <3>1. /\ tState' = "timedOut" /\ code' \in StatusCode \cup {503} /\ UNCHANGED <<buf, header>>
          /\ real' \in Written /\ real'.status = 503 /\ real'.sent = TRUE /\ real'.body = <<"timeout">>
          /\ ~real'.header
      BY <1>6, <2>1, <2>2, TimeoutSent, Zenon DEF Deadline!Expire
    <3>2. Deadline!TypeOK'
      BY <1>1, <2>1, <3>1 DEF Deadline!TypeOK, Written, Bodies
    <3>3. WriterInv'
      BY <3>1 DEF WriterInv
    <3> QED
      BY <2>1, <3>1, <3>2, <3>3, ZenonT(40) DEF ResponseInv, Deadline!WatcherRetired
  <2>3. CASE ~expired
    <3>1. UNCHANGED <<tState, code, buf, header, real>>
      BY <1>6, <2>3, Zenon DEF Deadline!Expire, Deadline!writer
    <3>2. Deadline!TypeOK'
      BY <1>1, <2>1, <3>1 DEF Deadline!TypeOK
    <3>3. WriterInv'
      BY <1>1, <2>1, <3>1, Zenon DEF WriterInv
    <3> QED
      BY <2>1, <2>3, <3>1, <3>2, <3>3, Zenon DEF ResponseInv, Deadline!WatcherRetired
  <2> QED
    BY <2>2, <2>3, Zenon
<1>7. CASE Deadline!Settle
  <2>1. /\ main = "settle" /\ main' = "upstream" /\ ctx' = TRUE /\ tState # "passthrough" /\ watcher = "gone"
        /\ UNCHANGED <<tLate, watcher, panicked, expired, chan>>
    BY <1>1, <1>7, Zenon DEF Deadline!Settle, Deadline!WatcherRetired
  <2>2. CASE tState = "timedOut"
    <3>1. UNCHANGED <<tState, code, buf, header, real>>
      BY <1>7, <2>2, Zenon DEF Deadline!Settle, Deadline!enablePassthrough, Deadline!commit, Deadline!writer
    <3>2. Deadline!TypeOK'
      BY <1>1, <2>1, <3>1 DEF Deadline!TypeOK
    <3>3. WriterInv'
      BY <1>1, <2>2, <3>1, Zenon DEF WriterInv
    <3> QED
      BY <2>1, <2>2, <3>1, <3>2, <3>3, Zenon DEF ResponseInv, Deadline!WatcherRetired
  <2>3. CASE tState = "buffering" /\ panicked
    <3>1. tState' = "passthrough" /\ buf' = <<>> /\ UNCHANGED <<code, header, real>>
      BY <1>7, <2>3, Zenon DEF Deadline!Settle, Deadline!enablePassthrough
    <3>2. Deadline!TypeOK'
      BY <1>1, <2>1, <3>1 DEF Deadline!TypeOK
    <3>3. WriterInv'
      BY <1>1, <2>1, <2>3, <3>1, Zenon DEF WriterInv
    <3> QED
      BY <1>1, <2>1, <2>3, <3>1, <3>2, <3>3, ZenonT(40) DEF ResponseInv, Deadline!WatcherRetired
  <2>4. CASE tState = "buffering" /\ ~panicked
    <3>1. Deadline!commit
      BY <1>7, <2>4, Zenon DEF Deadline!Settle
    <3>2. /\ tState' = "passthrough" /\ UNCHANGED <<code, buf, header>>
          /\ real' \in Written /\ real'.body = buf /\ real'.header = header /\ real'.status = code
      BY <2>4, <3>1, Committed, ZenonT(40)
    <3>3. Deadline!TypeOK'
      BY <1>1, <2>1, <3>2 DEF Deadline!TypeOK, Written, Bodies
    <3>4. WriterInv'
      BY <2>1, <2>4, <3>2, Zenon DEF WriterInv
    <3> QED
      BY <1>1, <2>1, <2>4, <3>2, <3>3, <3>4, ZenonT(40) DEF ResponseInv, Deadline!WatcherRetired
  <2> QED
    BY <1>1, <2>1, <2>2, <2>3, <2>4 DEF Deadline!TypeOK
<1>8. ASSUME NEW b \in BOOLEAN, Deadline!Upstream(b) PROVE ResponseInv'
  <2>1. /\ main = "upstream" /\ main' = "end" /\ watcher = "gone"
        /\ UNCHANGED <<tLate, ctx, tState, code, buf, header, watcher, panicked, expired, chan>>
    BY <1>1, <1>8, Zenon DEF Deadline!Upstream, Deadline!WatcherRetired
  <2>2. /\ real' \in Written /\ WriterInv'
    <3>1. CASE b /\ tState # "passthrough"
      <4>1. real' = real
        BY <1>8, <3>1, Zenon DEF Deadline!Upstream
      <4> QED
        BY <1>1, <1>2, <2>1, <3>1, <4>1, ZenonT(40) DEF WriterInv
    <3>2. CASE ~b
      <4>1. real' = [real EXCEPT !.sent = TRUE] /\ ~panicked
        BY <1>8, <3>2, Zenon DEF Deadline!Upstream
      <4>2. /\ real' \in Written /\ real'.sent = TRUE /\ real'.body = real.body
            /\ real'.header = real.header /\ real'.status = real.status
        BY <1>2, <4>1, SentFacts, Zenon
      <4>3. buf = buf \o <<>>
        BY <1>1 DEF Deadline!TypeOK
      <4> QED
        BY <1>1, <2>1, <4>1, <4>2, <4>3 DEF WriterInv, Passed
    <3>3. CASE b /\ tState = "passthrough"
      <4>1. PICK c \in {400, 500} :
              /\ real' = Deadline!RealWrite(Deadline!RealStatus(real, c), <<"upstream">>)
              /\ panicked => c = 500
        BY <1>8, <3>3 DEF Deadline!Upstream
      <4>2. /\ real' \in Written /\ real'.sent = TRUE
            /\ real'.body = real.body \o <<"upstream">> /\ real'.header = real.header
            /\ real'.status = IF real.sent THEN real.status ELSE c
        <5>1. Added(real', real, c)
          BY <1>2, <4>1, AddedUpstream
        <5> QED
          BY <5>1, ZenonT(40) DEF Added
      <4>3. CASE panicked
        <5>1. ~real.sent /\ real.body = <<>> /\ ~real.header
          BY <1>1, <2>1, <3>3, <4>3, ZenonT(40) DEF WriterInv
        <5>2. <<>> \o <<"upstream">> = <<"upstream">>
          OBVIOUS
        <5>3. real'.body = <<"upstream">>
          BY <4>2, <5>1, <5>2, ZenonT(40)
        <5>4. ~real'.header /\ real'.status = 500
          <6>1. c = 500
            BY <4>1, <4>3, Zenon
          <6> QED
            BY <4>2, <5>1, <6>1, ZenonT(40)
        <5> QED
          BY <2>1, <3>3, <4>2, <4>3, <5>3, <5>4, ZenonT(40) DEF WriterInv
      <4>4. CASE ~panicked
        <5>1. real.body = buf /\ buf \in Seq({"handler"}) /\ real.header = header
          BY <1>1, <2>1, <3>3, <4>4 DEF WriterInv, Deadline!TypeOK
        <5>2. buf \o <<"upstream">> # buf
          BY <5>1
        <5> QED
          BY <2>1, <3>3, <4>2, <4>4, <5>1, <5>2, ZenonT(40) DEF WriterInv, Passed
      <4> QED
        BY <4>2, <4>3, <4>4, ZenonT(40)
    <3> QED
      BY <3>1, <3>2, <3>3, Zenon
  <2>3. Deadline!TypeOK'
    BY <1>1, <2>1, <2>2 DEF Deadline!TypeOK, Written, Bodies
  <2> QED
    BY <1>1, <2>1, <2>2, <2>3, Zenon DEF ResponseInv, Deadline!WatcherRetired
<1>9. CASE Deadline!WatcherSees
  <2>1. /\ UNCHANGED <<tLate, ctx, tState, code, buf, header, real, main, panicked, expired, chan>>
        /\ watcher = "waiting" /\ watcher' \in {"firing", "gone"}
    BY <1>9, Zenon DEF Deadline!WatcherSees, Deadline!writer
  <2>2. Deadline!TypeOK' /\ WriterInv'
    <3>1. Deadline!TypeOK'
      BY <1>1, <2>1 DEF Deadline!TypeOK
    <3>2. WriterInv'
      BY <1>1, <2>1, ZenonT(40) DEF WriterInv, Passed
    <3> QED
      BY <3>1, <3>2, ZenonT(40)
  <2>3. Deadline!WatcherRetired'
    BY <1>1, <2>1, Zenon DEF Deadline!WatcherRetired
  <2> QED
    BY <1>1, <2>1, <2>2, <2>3, Zenon DEF ResponseInv
<1>10. CASE Deadline!WatcherFires
  <2>1. /\ watcher = "firing" /\ watcher' = "gone" /\ main \notin {"expire", "settle", "upstream", "end"}
        /\ tState # "passthrough"
        /\ UNCHANGED <<tLate, ctx, main, panicked, expired, chan>>
    BY <1>1, <1>10, Zenon DEF Deadline!WatcherFires, Deadline!WatcherRetired
  <2>2. /\ tState' = "timedOut" /\ code' \in StatusCode \cup {503} /\ UNCHANGED <<buf, header>>
        /\ real' \in Written /\ real'.status = 503 /\ real'.sent = TRUE /\ real'.body = <<"timeout">>
        /\ ~real'.header
    BY <1>10, <2>1, TimeoutSent, ZenonT(40) DEF Deadline!WatcherFires
  <2>3. Deadline!TypeOK'
    BY <1>1, <2>1, <2>2 DEF Deadline!TypeOK, Written, Bodies
  <2>4. WriterInv'
    BY <2>2 DEF WriterInv
  <2> QED
    BY <2>1, <2>2, <2>3, <2>4, ZenonT(40) DEF ResponseInv, Deadline!WatcherRetired
<1>11. CASE Deadline!DeadlinePasses \/ Deadline!TimerFires \/ Deadline!ClientLeaves \/ UNCHANGED Deadline!vars
  <2>1. tLate' \in BOOLEAN /\ ctx' \in BOOLEAN
    <3>1. tLate \in BOOLEAN /\ ctx \in BOOLEAN
      BY <1>1 DEF Deadline!TypeOK
    <3> QED
      BY <1>11, <3>1, Zenon DEF Deadline!DeadlinePasses, Deadline!TimerFires, Deadline!ClientLeaves, Deadline!vars
  <2>2. UNCHANGED <<tState, code, buf, header, real, watcher, main, panicked, expired, chan>>
    BY <1>11, Zenon DEF Deadline!DeadlinePasses, Deadline!TimerFires, Deadline!ClientLeaves, Deadline!vars, Deadline!writer
  <2>3. Deadline!TypeOK' /\ Deadline!WatcherRetired'
    BY <1>1, <2>1, <2>2, SMTT(30) DEF Deadline!TypeOK, Deadline!WatcherRetired
  <2>4. WriterInv'
    BY <1>1, <2>2 DEF WriterInv, Passed
  <2> QED
    BY <1>1, <2>2, <2>3, <2>4, Zenon DEF ResponseInv
<1> QED
  BY <1>3, <1>4, <1>5, <1>6, <1>7, <1>8, <1>9, <1>10, <1>11, Zenon DEF Deadline!Next, Deadline!Ended

(* timeout.go:20-23, 60-83: however the handler's writes, its return, its    *)
(* panic, the deadline, the timer, the watcher and the client's leaving      *)
(* interleave, the client gets one response and the right one.               *)
THEOREM OneResponse ==
  ASSUME 200 \in StatusCode, MaxWrites \in Nat
  PROVE  Deadline!Spec => []OneRightResponse
<1>1. Deadline!Init => ResponseInv
  <2> SUFFICES ASSUME Deadline!Init PROVE ResponseInv
    BY Zenon
  <2>1. /\ tLate \in BOOLEAN /\ ctx \in BOOLEAN /\ header \in BOOLEAN
        /\ panicked \in BOOLEAN /\ expired \in BOOLEAN /\ chan \in BOOLEAN
    BY Zenon DEF Deadline!Init
  <2>2. /\ real.status = 200 /\ real.sent = FALSE /\ real.body = <<>> /\ real.header = FALSE
        /\ real \in Written
    <3>1. real = [status |-> 200, sent |-> FALSE, body |-> <<>>, header |-> FALSE]
      BY Zenon DEF Deadline!Init
    <3>2. real.status = 200 /\ real.sent = FALSE /\ real.body = <<>> /\ real.header = FALSE
      BY <3>1, Zenon
    <3>3. <<>> \in Bodies
      BY DEF Bodies
    <3>4. real \in Written
      BY <3>1, <3>3, ZenonT(40) DEF Written
    <3> QED
      BY <3>2, <3>4, Zenon
  <2>3. tState = "buffering" /\ code = 200 /\ buf = <<>> /\ watcher = "waiting" /\ main = "handler"
    BY Zenon DEF Deadline!Init
  <2>4. Deadline!TypeOK
    BY <2>1, <2>2, <2>3 DEF Deadline!TypeOK, Written, Bodies
  <2> QED
    BY <2>2, <2>3, <2>4, Zenon DEF ResponseInv, Deadline!WatcherRetired, WriterInv
<1> QED
  BY <1>1, ResponseStep, ResponseRight, PTL DEF Deadline!Spec, OneRightResponse
=============================================================================
