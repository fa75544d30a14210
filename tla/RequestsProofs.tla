--------------------------- MODULE RequestsProofs ---------------------------
(***************************************************************************)
(* The theorems about what stands between a request and its handler: the   *)
(* rate limiter (RateLimit), the idempotency middleware (Idempotency), the *)
(* cache of tenants (TenantCache) and the cache loader (Loader).           *)
(***************************************************************************)
EXTENDS RateLimit, TLAPS

-----------------------------------------------------------------------------
(* The rate limiter: both promises for every burst, rate, number of clients  *)
(* and length of time; MemoryBounded for every IdleTTL, WithinRate for those *)
(* in which an empty bucket refills.                                         *)

\* A bucket kept is no fuller than the ideal one; one forgotten had refilled.
Covered(c) ==
  IF c \in DOMAIN limiters
    THEN /\ limiters[c].last = limiters[c].lastSeen
         /\ spent[c].last = limiters[c].last
         /\ limiters[c].tokens <= spent[c].tokens
    ELSE spent[c].tokens = Full \/ now - spent[c].last > IdleTTL

RateInv ==
  /\ now \in Nat
  /\ limiters \in [DOMAIN limiters -> [tokens : 0..Full, last : 0..now, lastSeen : 0..now]]
  /\ DOMAIN limiters \subseteq Client
  /\ spent \in [Client -> [tokens : 0..Full, last : 0..now]]
  /\ \A c \in Client : Covered(c)

\* rate.Limiter: a bucket holds between nothing and Full, and refills with time.
LEMMA Refilled ==
  ASSUME Full \in Nat, NEW b, b.tokens \in 0..Full, NEW t \in Nat, b.last \in 0..t
  PROVE  /\ Tokens(b, t) \in 0..Full
         /\ b.tokens = Full \/ t - b.last >= Full => Tokens(b, t) = Full
  BY DEF Tokens

\* Of two buckets filled at the same time, the fuller one stays the fuller one.
LEMMA Monotone ==
  ASSUME Full \in Nat, NEW a, NEW b, a.tokens \in 0..Full, b.tokens \in 0..Full,
         NEW t \in Nat, a.last \in 0..t, b.last = a.last, a.tokens <= b.tokens
  PROVE  Tokens(a, t) <= Tokens(b, t)
  BY DEF Tokens

\* The middleware keeps the invariant.
LEMMA ArriveStep ==
  ASSUME Full \in Nat, Cost \in Nat, IdleTTL \in Nat, Full <= IdleTTL + 1,
         RateInv, NEW c \in Client, Arrive(c)
  PROVE  RateInv'
<1> DEFINE Bucket == [tokens : 0..Full, last : 0..now, lastSeen : 0..now]
           b == get(c)
           paid == IF Allow(b) THEN Cost ELSE 0
           left == Tokens(b, now) - paid
           after == [b EXCEPT !.tokens = left, !.last = now]
           ideal == Tokens(spent[c], now) - paid
<1>1. /\ limiters' = [k \in DOMAIN swept \cup {c} |-> IF k = c THEN after ELSE swept[k]]
      /\ now' = now
      /\ spent' = [spent EXCEPT ![c] = [tokens |-> ideal, last |-> now]]
  BY Zenon DEF Arrive
<1>2. /\ DOMAIN swept \subseteq DOMAIN limiters
      /\ \A k \in DOMAIN swept : swept[k] = limiters[k]
      /\ \A k \in DOMAIN limiters \ DOMAIN swept : now - limiters[k].lastSeen > IdleTTL
  BY DEF RateInv, swept
<1>3. b \in Bucket /\ b.lastSeen = now
  BY <1>2 DEF RateInv, get, Fresh
<1>4. Tokens(b, now) \in 0..Full /\ Tokens(spent[c], now) \in 0..Full
  BY <1>3, Refilled, Zenon DEF RateInv
<1>5. Tokens(b, now) <= Tokens(spent[c], now)
  <2>1. CASE c \in DOMAIN swept
    <3>1. b.tokens = limiters[c].tokens /\ b.last = limiters[c].last
      BY <2>1, <1>2, Zenon DEF RateInv, get
    <3>2. spent[c].last = b.last /\ b.tokens <= spent[c].tokens
      BY <3>1, <2>1, <1>2, Zenon DEF RateInv, Covered
    <3> QED BY <3>2, <1>3, Monotone, Zenon DEF RateInv
  <2>2. CASE c \notin DOMAIN swept
    <3>1. spent[c].tokens = Full \/ now - spent[c].last > IdleTTL
      BY <2>2, <1>2, Zenon DEF RateInv, Covered
    <3>2. Tokens(spent[c], now) = Full
      BY <3>1, Refilled DEF RateInv
    <3> QED BY <3>2, <1>4
  <2> QED BY <2>1, <2>2, Zenon
<1>6. paid \in 0..Tokens(b, now)
  BY <1>4 DEF Allow
<1> HIDE DEF b, paid
<1>7. left \in 0..Full /\ ideal \in 0..Full /\ left <= ideal
  BY <1>4, <1>5, <1>6
<1> HIDE DEF left, ideal
<1>8. /\ after \in Bucket /\ after.last = now /\ after.lastSeen = now
      /\ after.tokens <= ideal
  BY <1>3, <1>7, Zenon DEF RateInv
<1> HIDE DEF after
<1>9. limiters' \in [DOMAIN limiters' -> Bucket] /\ DOMAIN limiters' \subseteq Client
  BY <1>1, <1>2, <1>8, Zenon DEF RateInv
<1>10. spent' \in [Client -> [tokens : 0..Full, last : 0..now]]
  BY <1>1, <1>7 DEF RateInv
<1>11. ASSUME NEW k \in Client PROVE Covered(k)'
  <2>1. CASE k = c
    BY <2>1, <1>1, <1>7, <1>8, Zenon DEF Covered, RateInv
  <2>2. CASE k # c /\ k \in DOMAIN swept
    BY <2>2, <1>1, <1>2, Zenon DEF Covered, RateInv
  <2>3. CASE k # c /\ k \notin DOMAIN swept
    BY <2>3, <1>1, <1>2, Zenon DEF Covered, RateInv, Full
  <2> QED BY <2>1, <2>2, <2>3, Zenon
<1> QED BY <1>1, <1>9, <1>10, <1>11, Zenon DEF RateInv, Full

\* The invariant of every behaviour, and why it is inductive.
LEMMA RateInvariant ==
  ASSUME Full \in Nat, Cost \in Nat, IdleTTL \in Nat, Full <= IdleTTL + 1
  PROVE  Spec => []RateInv
<1>1. Init => RateInv
  BY DEF Init, RateInv, Covered, Fresh
<1>2. RateInv /\ [Next]_vars => RateInv'
  <2> SUFFICES ASSUME RateInv, [Next]_vars PROVE RateInv'
    BY Zenon
  <2>1. CASE Tick
    BY <2>1 DEF Tick, RateInv, Covered, Full
  <2>2. ASSUME NEW c \in Client, Arrive(c) PROVE RateInv'
    BY <2>2, ArriveStep, Zenon
  <2>3. CASE UNCHANGED vars
    BY <2>3, Zenon DEF vars, RateInv, Covered, Full
  <2> QED BY <2>1, <2>2, <2>3, Zenon DEF Next
<1> QED BY <1>1, <1>2, PTL DEF Spec

\* rate_limit.go:25-26: when an idle bucket has the time to refill before it may
\* be forgotten, eviction lets no request through, however requests, sweeps and
\* evictions interleave and for every burst, rate and number of clients.
THEOREM RateHolds ==
  ASSUME Full \in Nat, Cost \in Nat, IdleTTL \in Nat, Full <= IdleTTL + 1
  PROVE  Spec => []WithinRate
<1>1. RateInv => WithinRate
  <2> SUFFICES ASSUME RateInv, NEW c \in Client PROVE spent[c].tokens >= 0
    BY Zenon DEF WithinRate
  <2> QED BY DEF RateInv
<1> QED BY <1>1, RateInvariant, PTL

\* The sweeps keep up with the requests, and the buckets with the sweeps.
SweptInTime ==
  /\ now \in Nat /\ lastCleanup \in 0..now /\ lastRequest \in 0..now
  /\ limiters \in [DOMAIN limiters -> [tokens : Int, last : 0..now, lastSeen : 0..now]]
  /\ lastRequest - lastCleanup <= IdleTTL
  /\ \A c \in DOMAIN limiters : lastCleanup - limiters[c].lastSeen <= IdleTTL

\* It is inductive.
LEMMA SweepInvariant ==
  ASSUME Full \in Nat, Cost \in Nat, IdleTTL \in Nat
  PROVE  Spec => []SweptInTime
<1>1. Init => SweptInTime
  BY DEF Init, SweptInTime
<1>2. SweptInTime /\ [Next]_vars => SweptInTime'
  <2> SUFFICES ASSUME SweptInTime, [Next]_vars PROVE SweptInTime'
    BY Zenon
  <2>1. CASE Tick
    BY <2>1 DEF Tick, SweptInTime
  <2>2. ASSUME NEW c \in Client, Arrive(c) PROVE SweptInTime'
    <3> DEFINE Bucket == [tokens : Int, last : 0..now, lastSeen : 0..now]
               b == get(c)
               left == Tokens(b, now) - (IF Allow(b) THEN Cost ELSE 0)
               after == [b EXCEPT !.tokens = left, !.last = now]
    <3>1. /\ limiters' = [k \in DOMAIN swept \cup {c} |-> IF k = c THEN after ELSE swept[k]]
          /\ lastCleanup' = cleanedAt /\ lastRequest' = now /\ now' = now
      BY <2>2, Zenon DEF Arrive
    <3>2. \A k \in DOMAIN swept : k \in DOMAIN limiters /\ swept[k] = limiters[k]
                                 /\ cleanedAt - limiters[k].lastSeen <= IdleTTL
      BY Zenon DEF SweptInTime, swept, cleanedAt
    <3>3. after \in Bucket /\ after.lastSeen = now
      <4>1. b \in Bucket /\ b.lastSeen = now
        BY <3>2 DEF SweptInTime, get, Fresh
      <4> HIDE DEF b
      <4>2. left \in Int
        BY <4>1 DEF SweptInTime, Tokens
      <4> HIDE DEF left
      <4> QED BY <4>1, <4>2, Zenon DEF SweptInTime
    <3> HIDE DEF after
    <3>4. cleanedAt \in 0..now /\ now - cleanedAt <= IdleTTL
      BY DEF SweptInTime, cleanedAt
    <3> QED BY <3>1, <3>2, <3>3, <3>4 DEF SweptInTime
  <2>3. CASE UNCHANGED vars
    BY <2>3, Zenon DEF vars, SweptInTime
  <2> QED BY <2>1, <2>2, <2>3, Zenon DEF Next
<1> QED BY <1>1, <1>2, PTL DEF Spec

\* rate_limit.go:20-22, 83-90: although nothing but a request sweeps, no bucket
\* is kept for more than two periods, for every IdleTTL.
THEOREM MemoryHolds ==
  ASSUME Full \in Nat, Cost \in Nat, IdleTTL \in Nat
  PROVE  Spec => []MemoryBounded
<1>1. SweptInTime => MemoryBounded
  BY DEF SweptInTime, MemoryBounded
<1> QED BY <1>1, SweepInvariant, PTL

\* rate_limit.go:20-26, 83-90: the limiter keeps its rate and its memory, with
\* every bucket between empty and full, for every MaxTime.
THEOREM RateIsKept ==
  ASSUME Full \in Nat, Cost \in Nat, IdleTTL \in Nat, Full <= IdleTTL + 1, MaxTime \in Nat
  PROVE  Spec => []RateKept
<1>1. Init => now <= MaxTime
  BY DEF Init
<1>2. RateInv /\ now <= MaxTime /\ [Next]_vars => (now <= MaxTime)'
  <2>1. [Next]_vars => now' = now \/ (now < MaxTime /\ now' = now + 1)
    BY Zenon DEF Next, Arrive, Tick, vars
  <2> QED BY <2>1 DEF RateInv
<1>3. RateInv /\ SweptInTime /\ now <= MaxTime => TypeOK
  BY DEF RateInv, SweptInTime, TypeOK
<1> QED
  BY <1>1, <1>2, <1>3, RateInvariant, RateHolds, SweepInvariant, MemoryHolds, PTL DEF Spec, RateKept

-----------------------------------------------------------------------------
(* The idempotency middleware. *)

CONSTANTS Request, None, Operation, MayExpire, MayLeave, StoreMinds

VARIABLES pc, store, result, status, ended, expired, answer, before

Retry == INSTANCE Idempotency

(* idempotency.go:91-94, 116-119: a replay is the response to the same       *)
(* operation of the same caller, and a retry after the response does not act *)
(* again, as long as the contexts of the two last.                           *)
RetriesReplay == Retry!RetriesReplay

\* Where a request is says what it has done, and nothing is answered before the end.
Stages ==
  \A r \in Request :
    /\ pc[r] \in {"idle", "lookup", "handler"} => result[r] = "none"
    /\ pc[r] = "status" => result[r] \in {"ok", "error", "5xx"}
    /\ pc[r] # "done" => answer[r] = None
    /\ pc[r] = "save" /\ status[r] = "final" => result[r] = "ok"
    /\ pc[r] = "save" /\ result[r] = "ok" /\ ~expired[r] => status[r] = "final"

\* A stored response is a success under its own key, and an undisturbed success
\* that is over is stored, or what came after it is.
Stored ==
  /\ \A k \in Retry!Keys : store[k] # None =>
       Retry!StoreKey(store[k]) = k /\ result[store[k]] = "ok"
  /\ \A r \in Request :
       pc[r] = "done" /\ result[r] = "ok" /\ Retry!Undisturbed(r) => store[Retry!StoreKey(r)] # None

\* A request that comes in after the success of its like is at the lookup, or over.
Repeats ==
  \A q, r \in Request : q \in before[r] =>
    /\ pc[q] = "done" /\ pc[r] # "idle"
    /\ /\ Operation[q] = Operation[r] /\ Retry!Undisturbed(q) /\ Retry!Undisturbed(r)
       /\ result[q] = "ok"
       => pc[r] \in {"lookup", "done"} /\ result[r] = "none"

RetryInv == Retry!TypeOK /\ Stages /\ Stored /\ Repeats /\ Retry!ReplaysOwn

LEMMA RetryTyped ==
  ASSUME Retry!TypeOK, [Retry!Next]_(Retry!vars)
  PROVE  Retry!TypeOK'
<1>1. ASSUME NEW r \in Request, Retry!Arrive(r) PROVE Retry!TypeOK'
  BY <1>1, Zenon DEF Retry!Arrive, Retry!TypeOK, Retry!Goto
<1>2. ASSUME NEW r \in Request, Retry!Lookup(r) PROVE Retry!TypeOK'
  BY <1>2 DEF Retry!Lookup, Retry!TypeOK, Retry!Goto, Retry!StoreKey, Retry!Keys
<1>3. ASSUME NEW r \in Request, Retry!Handle(r) PROVE Retry!TypeOK'
  BY <1>3 DEF Retry!Handle, Retry!TypeOK, Retry!Goto
<1>4. ASSUME NEW r \in Request, Retry!Status(r) PROVE Retry!TypeOK'
  BY <1>4, Zenon DEF Retry!Status, Retry!TypeOK, Retry!Goto
<1>5. ASSUME NEW r \in Request, Retry!Save(r) PROVE Retry!TypeOK'
  BY <1>5, Zenon DEF Retry!Save, Retry!TypeOK, Retry!Goto
<1>6. ASSUME NEW r \in Request, Retry!Expire(r) PROVE Retry!TypeOK'
  BY <1>6, Zenon DEF Retry!Expire, Retry!TypeOK
<1>7. ASSUME NEW r \in Request, Retry!Leave(r) PROVE Retry!TypeOK'
  BY <1>7, Zenon DEF Retry!Leave, Retry!TypeOK
<1>8. CASE UNCHANGED Retry!vars
  BY <1>8, Zenon DEF Retry!vars, Retry!TypeOK
<1> QED
  BY <1>1, <1>2, <1>3, <1>4, <1>5, <1>6, <1>7, <1>8, Zenon DEF Retry!Next, Retry!Finished

\* Two requests of one key and one body are one operation.
LEMMA SameOperation ==
  ASSUME Retry!RetryAssumption, NEW q \in Request, NEW r \in Request,
         Retry!StoreKey(q) = Retry!StoreKey(r), Operation[q].body = Operation[r].body
  PROVE  Operation[q] = Operation[r]
  BY Zenon DEF Retry!RetryAssumption, Retry!StoreKey, Retry!idempotencyKey

LEMMA RetryStep ==
  ASSUME Retry!RetryAssumption, RetryInv, [Retry!Next]_(Retry!vars)
  PROVE  RetryInv'
<1>0. Retry!TypeOK'
  BY RetryTyped, Zenon DEF RetryInv
<1> USE DEF RetryInv
<1>1. ASSUME NEW r \in Request, Retry!Arrive(r) PROVE RetryInv'
  <2>1. Stages' /\ Stored' /\ Retry!ReplaysOwn'
    BY <1>1 DEF Retry!Arrive, Retry!TypeOK, Retry!Goto, Stages, Stored, Retry!ReplaysOwn, Retry!Undisturbed
  <2>2. Repeats'
    BY <1>1 DEF Retry!Arrive, Retry!TypeOK, Retry!Goto, Stages, Repeats, Retry!Undisturbed
  <2> QED BY <1>0, <2>1, <2>2, Zenon
<1>2. ASSUME NEW r \in Request, Retry!Lookup(r) PROVE RetryInv'
  <2> DEFINE q == IF StoreMinds /\ ended[r] THEN None ELSE store[Retry!StoreKey(r)]
  <2>0. /\ pc[r] = "lookup" /\ result[r] = "none" /\ answer[r] = None
        /\ UNCHANGED <<store, result, status, ended, expired, before>>
        /\ Retry!StoreKey(r) \in Retry!Keys
    BY <1>2, Zenon DEF Retry!Lookup, Stages, Retry!StoreKey, Retry!Keys
  <2>1. CASE q = None
    <3>1. pc' = [pc EXCEPT ![r] = "handler"] /\ answer' = answer
      BY <1>2, <2>1, Zenon DEF Retry!Lookup, Retry!Goto
    <3>2. Stages' /\ Stored' /\ Retry!ReplaysOwn'
      BY <3>1, <2>0 DEF Retry!TypeOK, Stages, Stored, Retry!ReplaysOwn, Retry!Undisturbed
    <3>3. Repeats'
      <4>1. ASSUME NEW p \in Request, p \in before[r], Operation[p] = Operation[r],
                   Retry!Undisturbed(p), Retry!Undisturbed(r), result[p] = "ok"
            PROVE  FALSE
        BY <4>1, <2>1, <2>0, Zenon DEF Repeats, Stored, Retry!Undisturbed, Retry!StoreKey
      <4> QED BY <4>1, <3>1, <2>0 DEF Retry!TypeOK, Repeats, Retry!Undisturbed
    <3> QED BY <1>0, <3>2, <3>3, Zenon
  <2>2. CASE q # None
    <3> DEFINE a == IF expired[r] THEN "timeout"
                    ELSE IF Operation[q].body # Operation[r].body THEN "refused" ELSE q
    <3>1. pc' = [pc EXCEPT ![r] = "done"] /\ answer' = [answer EXCEPT ![r] = a]
      BY <1>2, <2>2, Zenon DEF Retry!Lookup, Retry!Goto
    <3>2. q \in Request /\ Retry!StoreKey(q) = Retry!StoreKey(r) /\ result[q] = "ok"
      BY <2>2, <2>0 DEF Stored, Retry!TypeOK
    <3>3. a \in Request => Operation[a] = Operation[r] /\ result[a] = "ok"
      BY <3>2, SameOperation, Zenon DEF Retry!RetryAssumption
    <3> HIDE DEF a, q
    <3>4. Stages' /\ Stored' /\ Repeats'
      BY <3>1, <2>0 DEF Retry!TypeOK, Stages, Stored, Repeats, Retry!Undisturbed
    <3>5. Retry!ReplaysOwn'
      BY <3>1, <3>3, <2>0 DEF Retry!TypeOK, Retry!ReplaysOwn
    <3> QED BY <1>0, <3>4, <3>5, Zenon
  <2> QED BY <2>1, <2>2, Zenon
<1>3. ASSUME NEW r \in Request, Retry!Handle(r) PROVE RetryInv'
  <2>1. PICK o \in {"ok", "error", "5xx", "panic"} :
          /\ result' = [result EXCEPT ![r] = o]
          /\ IF o = "panic"
               THEN /\ Retry!Goto(r, "done")
                    /\ answer' = [answer EXCEPT ![r] = IF expired[r] THEN "timeout" ELSE "own"]
               ELSE Retry!Goto(r, "status") /\ UNCHANGED answer
    BY <1>3, Zenon DEF Retry!Handle
  <2>2. pc[r] = "handler" /\ result[r] = "none" /\ UNCHANGED <<store, status, ended, expired, before>>
    BY <1>3, Zenon DEF Retry!Handle, Stages
  <2>3. Stages'
    BY <2>1, <2>2 DEF Retry!TypeOK, Retry!Goto, Stages
  <2>4. Stored'
    BY <2>1, <2>2 DEF Retry!TypeOK, Retry!Goto, Stored, Retry!Undisturbed
  <2>5. Repeats'
    BY <2>1, <2>2 DEF Retry!TypeOK, Retry!Goto, Repeats, Retry!Undisturbed
  <2>6. Retry!ReplaysOwn'
    BY <2>1, <2>2 DEF Retry!TypeOK, Retry!Goto, Stages, Retry!ReplaysOwn, Retry!RetryAssumption
  <2> QED BY <1>0, <2>3, <2>4, <2>5, <2>6, Zenon
<1>4. ASSUME NEW r \in Request, Retry!Status(r) PROVE RetryInv'
  <2> DEFINE s == IF expired[r] \/ result[r] = "5xx" THEN "5xx"
                  ELSE IF result[r] = "error" THEN "error" ELSE "final"
  <2>0. /\ pc' = [pc EXCEPT ![r] = "save"] /\ status' = [status EXCEPT ![r] = s]
        /\ UNCHANGED <<result, expired, answer>> /\ pc[r] = "status"
    BY <1>4, Zenon DEF Retry!Status, Retry!Goto
  <2>3. (s = "final" => result[r] = "ok") /\ (result[r] = "ok" /\ ~expired[r] => s = "final")
    BY <2>0, Zenon DEF Stages, Retry!TypeOK
  <2> HIDE DEF s
  <2>1. Stages'
    BY <2>0, <2>3, Zenon DEF Retry!TypeOK, Stages
  <2>2. Stored' /\ Repeats' /\ Retry!ReplaysOwn'
    BY <1>4 DEF Retry!Status, Retry!TypeOK, Retry!Goto, Stored, Repeats, Retry!ReplaysOwn, Retry!Undisturbed
  <2> QED BY <1>0, <2>1, <2>2, Zenon
<1>5. ASSUME NEW r \in Request, Retry!Save(r) PROVE RetryInv'
  <2>0. /\ pc[r] = "save" /\ pc' = [pc EXCEPT ![r] = "done"]
        /\ UNCHANGED <<result, status, ended, expired, before>>
        /\ Retry!StoreKey(r) \in Retry!Keys /\ answer[r] = None
    BY <1>5, Zenon DEF Retry!Save, Retry!Goto, Retry!StoreKey, Retry!Keys, Stages
  <2>1. Stages' /\ Retry!ReplaysOwn'
    BY <1>5, <2>0 DEF Retry!Save, Retry!TypeOK, Stages, Retry!ReplaysOwn, Retry!RetryAssumption
  <2>2. Repeats'
    BY <2>0 DEF Retry!TypeOK, Repeats, Retry!Undisturbed
  <2>3. Stored'
    <3>1. CASE status[r] = "final" /\ ~(StoreMinds /\ ended[r])
      <4>1. store' = [store EXCEPT ![Retry!StoreKey(r)] = r] /\ result[r] = "ok" /\ r # None
        BY <3>1, <1>5, <2>0, Zenon DEF Retry!Save, Stages, Retry!RetryAssumption
      <4> QED BY <4>1, <2>0 DEF Retry!TypeOK, Stored, Retry!Undisturbed
    <3>2. CASE ~(status[r] = "final" /\ ~(StoreMinds /\ ended[r]))
      <4>1. store' = store /\ ~(result[r] = "ok" /\ Retry!Undisturbed(r))
        BY <3>2, <1>5, <2>0, Zenon DEF Retry!Save, Stages, Retry!Undisturbed
      <4> QED BY <4>1, <2>0, Zenon DEF Retry!TypeOK, Stored, Retry!Undisturbed
    <3> QED BY <3>1, <3>2, Zenon
  <2> QED BY <1>0, <2>1, <2>2, <2>3, Zenon
<1>6. ASSUME NEW r \in Request, Retry!Expire(r) PROVE RetryInv'
  BY <1>0, <1>6 DEF Retry!Expire, Retry!TypeOK, Stages, Stored, Repeats, Retry!ReplaysOwn, Retry!Undisturbed
<1>7. ASSUME NEW r \in Request, Retry!Leave(r) PROVE RetryInv'
  BY <1>0, <1>7 DEF Retry!Leave, Retry!TypeOK, Stages, Stored, Repeats, Retry!ReplaysOwn, Retry!Undisturbed
<1>8. CASE UNCHANGED Retry!vars
  BY <1>0, <1>8 DEF Retry!vars, Stages, Stored, Repeats, Retry!ReplaysOwn, Retry!Undisturbed
<1> QED
  BY <1>1, <1>2, <1>3, <1>4, <1>5, <1>6, <1>7, <1>8, Zenon DEF Retry!Next, Retry!Finished

\* idempotency.go:91-119: for any number of requests, however they interleave and
\* whenever their contexts end, a response is replayed only to the operation it
\* answered; and a request that comes in after its like has succeeded does not
\* act again, when neither ran into the deadline or a store that gave up.
THEOREM RetriesReplayed ==
  ASSUME Retry!RetryAssumption
  PROVE  Retry!Spec => []RetriesReplay
<1>1. Retry!Init => RetryInv
  <2> SUFFICES ASSUME Retry!Init PROVE RetryInv
    BY Zenon
  <2>1. Retry!TypeOK
    BY Zenon DEF Retry!Init, Retry!TypeOK
  <2> QED
    BY <2>1, Zenon DEF Retry!Init, RetryInv, Stages, Stored, Repeats, Retry!ReplaysOwn, Retry!RetryAssumption,
       Retry!Keys, Retry!StoreKey
<1>2. RetryInv => Retry!RetriesReplay
  BY Zenon DEF RetryInv, Repeats, Retry!RetriesReplay, Retry!ActsOnce
<1> QED
  BY <1>1, <1>2, RetryStep, PTL DEF Retry!Spec, RetriesReplay

-----------------------------------------------------------------------------
(* The cache of tenants. *)

CONSTANTS Visitor, Id, TenantTTL, AbsentTTL, TenantVersions, Outage

VARIABLES tTruth, tEntry, tPc, id, got, own, tSince, tFloor, tCalm

Tenants == INSTANCE TenantCache WITH
  Request <- Visitor, TTL <- TenantTTL, MaxVersion <- TenantVersions,
  truth <- tTruth, entry <- tEntry, pc <- tPc, since <- tSince, floor <- tFloor, calm <- tCalm

(* cache.go:43-44, 119-123, tenant.go:34-47: a failing store is never        *)
(* remembered; with WithNegativeTTL(0) an absence is news from the store;    *)
(* what is served is a tenant the store has called active, not below the     *)
(* version of an Invalidate that met no answer on its way.                   *)
TenantsTrue == Tenants!TenantsTrue

\* What the cache remembers: an answer of the store not below the version of the
\* last Invalidate that met no request on its way to the cache.
Remembered ==
  \A i \in Id :
    /\ tCalm[i] <= tTruth[i].ver
    /\ tEntry[i] # None =>
         /\ tEntry[i].ans.ver >= tCalm[i]
         /\ AbsentTTL = 0 => tEntry[i].ans.kind \notin Tenants!Absent

\* What a request holds, and what it is about to put into the cache.
Held ==
  \A r \in Visitor :
    /\ tSince[r].calm <= tCalm[id[r]]
    /\ got[r] \in Tenants!Answer => got[r].ver >= tSince[r].calm
    /\ tPc[r] = "remember" => got[r] \in Tenants!Answer /\ got[r].ver >= tCalm[id[r]]
    /\ tPc[r] = "served" => got[r] \in Tenants!Answer /\ got[r].kind = "active"

Entries == [ans : Tenants!Answer, left : 0..(TenantTTL + AbsentTTL)]

TenantInv ==
  /\ Tenants!TypeOK /\ tEntry \in [Id -> {None} \cup Entries]
  /\ Remembered /\ Held
  /\ Tenants!OutagesNotRemembered /\ Tenants!NegativeOff

LEMMA AnswerFields ==
  \A a \in Tenants!Answer : a.ver \in 0..TenantVersions /\ a.kind \in Tenants!Kind
  BY Zenon DEF Tenants!Answer

LEMMA EntryFields ==
  ASSUME Tenants!TenantAssumption
  PROVE  \A e \in Entries :
           /\ e.ans \in Tenants!Answer /\ e.left \in 0..(TenantTTL + AbsentTTL) /\ e # None
           /\ e.left > 0 => /\ [e EXCEPT !.left = @ - 1] \in Entries
                            /\ [e EXCEPT !.left = @ - 1].ans = e.ans
<1> SUFFICES ASSUME NEW e \in Entries
             PROVE  /\ e.ans \in Tenants!Answer /\ e.left \in 0..(TenantTTL + AbsentTTL) /\ e # None
                    /\ e.left > 0 => /\ [e EXCEPT !.left = @ - 1] \in Entries
                                     /\ [e EXCEPT !.left = @ - 1].ans = e.ans
  BY Zenon
<1>1. Entries \subseteq [ans : Tenants!Answer, left : Nat]
  BY DEF Entries, Tenants!TenantAssumption
<1> QED BY <1>1 DEF Entries, Tenants!TenantAssumption

LEMMA TenantArrives ==
  ASSUME Tenants!TenantAssumption, TenantInv, NEW r \in Visitor, NEW i \in Id, Tenants!Arrive(r, i)
  PROVE  TenantInv'
<1> DEFINE s == [floor |-> tFloor[i], calm |-> tCalm[i]]
<1>1. /\ tPc' = [tPc EXCEPT ![r] = "lookup"] /\ id' = [id EXCEPT ![r] = i]
      /\ got' = [got EXCEPT ![r] = None] /\ own' = [own EXCEPT ![r] = FALSE]
      /\ tSince' = [tSince EXCEPT ![r] = s]
      /\ UNCHANGED <<tTruth, tEntry, tFloor, tCalm>>
  BY Zenon DEF Tenants!Arrive, Tenants!Goto
<1>2. s \in [floor : 0..TenantVersions, calm : 0..TenantVersions] /\ s.calm = tCalm[i]
  BY Zenon DEF TenantInv, Tenants!TypeOK
<1> HIDE DEF s
<1>3. Tenants!TypeOK'
  BY <1>1, <1>2, Zenon DEF TenantInv, Tenants!TypeOK
<1>4. Held' /\ Remembered'
  BY <1>1, <1>2 DEF TenantInv, Tenants!TypeOK, Held, Remembered, Tenants!TenantAssumption
<1>5. Tenants!OutagesNotRemembered' /\ Tenants!NegativeOff'
  BY <1>1, Zenon DEF TenantInv, Tenants!TypeOK, Tenants!OutagesNotRemembered, Tenants!NegativeOff, Tenants!TenantAssumption
<1> QED BY <1>1, <1>3, <1>4, <1>5, Zenon DEF TenantInv

\* A step of a request that leaves the cache, or puts there what the store said.
LEMMA TenantRequests ==
  ASSUME Tenants!TenantAssumption, TenantInv, NEW r \in Visitor, Tenants!RequestStep(r)
  PROVE  TenantInv'
<1> DEFINE e == tEntry[id[r]]
<1>0. /\ id[r] \in Id /\ UNCHANGED <<tTruth, id, tSince, tFloor, tCalm>>
      /\ e # None => e \in Entries
  BY Zenon DEF TenantInv, Tenants!TypeOK, Tenants!RequestStep, Tenants!Lookup, Tenants!Drop, Tenants!Ask,
     Tenants!remember, Tenants!Tenant
<1>1. CASE Tenants!Lookup(r) /\ e # None /\ e.left > 0
  <2>1. got' = [got EXCEPT ![r] = e.ans] /\ tPc' = [tPc EXCEPT ![r] = "decide"] /\ UNCHANGED <<tEntry, own>>
    BY <1>1, Zenon DEF Tenants!Lookup, Tenants!Goto
  <2>2. e.ans \in Tenants!Answer /\ e.ans.ver >= tCalm[id[r]] /\ (AbsentTTL = 0 => e.ans.kind \notin Tenants!Absent)
    BY <1>0, <1>1, EntryFields, Zenon DEF TenantInv, Remembered
  <2> DEFINE a == e.ans
  <2>3. a.ver >= tSince[r].calm /\ a # Outage
    BY <1>0, <2>2, AnswerFields DEF TenantInv, Held, Tenants!TypeOK, Tenants!TenantAssumption
  <2> HIDE DEF e
  <2>4. a \in Tenants!Answer /\ (AbsentTTL = 0 => a.kind \notin Tenants!Absent) /\ got' = [got EXCEPT ![r] = a]
    BY <2>1, <2>2, Zenon
  <2> HIDE DEF a
  <2>5. Tenants!TypeOK'
    BY <1>0, <2>1, <2>4 DEF TenantInv, Tenants!TypeOK
  <2>6. Held' /\ Remembered'
    BY <1>0, <2>1, <2>3, <2>4, Zenon DEF TenantInv, Tenants!TypeOK, Held, Remembered
  <2>7. Tenants!OutagesNotRemembered' /\ Tenants!NegativeOff'
    BY <2>1, <2>3, <2>4, Zenon DEF TenantInv, Tenants!TypeOK, Tenants!OutagesNotRemembered, Tenants!NegativeOff
  <2> QED BY <2>1, <2>5, <2>6, <2>7, Zenon DEF TenantInv
<1>2. CASE Tenants!Lookup(r) /\ ~(e # None /\ e.left > 0)
  <2>1. PICK l \in {"ask", "drop"} : tPc' = [tPc EXCEPT ![r] = l]
    BY <1>2, Zenon DEF Tenants!Lookup, Tenants!Goto
  <2>2. UNCHANGED <<got, tEntry, own>>
    BY <1>2, Zenon DEF Tenants!Lookup
  <2>3. Tenants!TypeOK' /\ Held' /\ Remembered'
    BY <1>0, <2>1, <2>2, Zenon DEF TenantInv, Tenants!TypeOK, Held, Remembered
  <2>4. Tenants!OutagesNotRemembered' /\ Tenants!NegativeOff'
    BY <2>2, Zenon DEF TenantInv, Tenants!OutagesNotRemembered, Tenants!NegativeOff
  <2> QED BY <2>2, <2>3, <2>4, Zenon DEF TenantInv
<1>3. CASE Tenants!Drop(r)
  <2>1. tPc' = [tPc EXCEPT ![r] = "ask"] /\ tEntry' = [tEntry EXCEPT ![id[r]] = None] /\ UNCHANGED <<got, own>>
    BY <1>3, Zenon DEF Tenants!Drop, Tenants!Goto
  <2>2. Tenants!TypeOK' /\ tEntry' \in [Id -> {None} \cup Entries]
    BY <1>0, <2>1, Zenon DEF TenantInv, Tenants!TypeOK
  <2>3. Held' /\ Remembered'
    BY <1>0, <2>1, Zenon DEF TenantInv, Tenants!TypeOK, Held, Remembered
  <2>4. Tenants!OutagesNotRemembered' /\ Tenants!NegativeOff'
    BY <2>1, Zenon DEF TenantInv, Tenants!OutagesNotRemembered, Tenants!NegativeOff
  <2> QED BY <2>2, <2>3, <2>4, Zenon DEF TenantInv
<1>4. CASE Tenants!Ask(r)
  <2> DEFINE t == tTruth[id[r]]
  <2>1. /\ own' = [own EXCEPT ![r] = TRUE] /\ tEntry' = tEntry
        /\ \/ got' = [got EXCEPT ![r] = Outage] /\ tPc' = [tPc EXCEPT ![r] = "decide"]
           \/ got' = [got EXCEPT ![r] = t] /\ tPc' = [tPc EXCEPT ![r] = "remember"]
    BY <1>4, Zenon DEF Tenants!Ask, Tenants!Goto
  <2>2. t \in Tenants!Answer /\ t.ver >= tCalm[id[r]] /\ t.ver >= tSince[r].calm
    BY <1>0, AnswerFields DEF TenantInv, Tenants!TypeOK, Remembered, Held
  <2> HIDE DEF t
  <2>3. Tenants!TypeOK'
    BY <1>0, <2>1, <2>2, ZenonT(40) DEF TenantInv, Tenants!TypeOK
  <2>4. Held' /\ Remembered'
    BY <1>0, <2>1, <2>2 DEF TenantInv, Tenants!TypeOK, Held, Remembered, Tenants!TenantAssumption
  <2>5. Tenants!OutagesNotRemembered' /\ Tenants!NegativeOff'
    BY <2>1, <2>2, Zenon DEF TenantInv, Tenants!TypeOK, Tenants!OutagesNotRemembered, Tenants!NegativeOff
  <2> QED BY <2>1, <2>3, <2>4, <2>5, Zenon DEF TenantInv
<1>5. CASE Tenants!remember(r)
  <2> DEFINE n == [ans |-> got[r], left |-> Tenants!ttlOf(got[r])]
  <2>1. /\ tPc[r] = "remember" /\ tPc' = [tPc EXCEPT ![r] = "decide"] /\ UNCHANGED <<got, own>>
        /\ tEntry' = IF Tenants!ttlOf(got[r]) <= 0 THEN tEntry ELSE [tEntry EXCEPT ![id[r]] = n]
    BY <1>5, Zenon DEF Tenants!remember, Tenants!Goto
  <2>2. got[r] \in Tenants!Answer /\ got[r].ver >= tCalm[id[r]]
    BY <2>1, Zenon DEF TenantInv, Held
  <2>3. n.ans = got[r] /\ (Tenants!ttlOf(got[r]) > 0 /\ AbsentTTL = 0 => got[r].kind \notin Tenants!Absent)
    BY <2>2 DEF Tenants!ttlOf
  <2>4. Tenants!ttlOf(got[r]) > 0 => n \in Entries
    BY <2>2 DEF Tenants!ttlOf, Entries, Tenants!TenantAssumption
  <2>5. Tenants!ttlOf(got[r]) \in Nat
    BY Zenon DEF Tenants!ttlOf, Tenants!TenantAssumption
  <2> HIDE DEF n
  <2>6. CASE Tenants!ttlOf(got[r]) > 0
    <3>1. tEntry' = [tEntry EXCEPT ![id[r]] = n] /\ n \in Entries
      BY <2>1, <2>4, <2>5, <2>6
    <3>2. tEntry' \in [Id -> {None} \cup Entries]
      BY <1>0, <3>1, Zenon DEF TenantInv
    <3>3. Tenants!TypeOK'
      BY <1>0, <2>1, <3>1, <3>2, EntryFields, Zenon DEF TenantInv, Tenants!TypeOK
    <3>4. Remembered'
      BY <1>0, <2>1, <2>2, <2>3, <2>6, <3>1, Zenon DEF TenantInv, Tenants!TypeOK, Remembered
    <3>5. Held'
      BY <1>0, <2>1, <2>2, Zenon DEF TenantInv, Tenants!TypeOK, Held
    <3>6. Tenants!OutagesNotRemembered' /\ Tenants!NegativeOff'
      BY <2>1, Zenon DEF TenantInv, Tenants!OutagesNotRemembered, Tenants!NegativeOff
    <3> QED BY <3>2, <3>3, <3>4, <3>5, <3>6, Zenon DEF TenantInv
  <2>7. CASE ~(Tenants!ttlOf(got[r]) > 0)
    <3>1. tEntry' = tEntry
      BY <2>1, <2>5, <2>7
    <3>2. Tenants!TypeOK'
      BY <1>0, <2>1, <3>1, Zenon DEF TenantInv, Tenants!TypeOK
    <3>3. Held' /\ Remembered'
      BY <1>0, <2>1, <2>2, <3>1, Zenon DEF TenantInv, Tenants!TypeOK, Held, Remembered
    <3>4. Tenants!OutagesNotRemembered' /\ Tenants!NegativeOff'
      BY <2>1, Zenon DEF TenantInv, Tenants!OutagesNotRemembered, Tenants!NegativeOff
    <3> QED BY <3>1, <3>2, <3>3, <3>4, Zenon DEF TenantInv
  <2> QED BY <2>6, <2>7, Zenon
<1>6. CASE Tenants!Tenant(r)
  <2>1. PICK l \in {"served", "refused"} :
          /\ tPc' = [tPc EXCEPT ![r] = l] /\ UNCHANGED <<got, own, tEntry>>
          /\ l = "served" => got[r] \in Tenants!Answer /\ got[r].kind = "active"
    BY <1>6, Zenon DEF Tenants!Tenant, Tenants!Goto
  <2>2. Tenants!TypeOK' /\ Held' /\ Remembered'
    BY <1>0, <2>1, Zenon DEF TenantInv, Tenants!TypeOK, Held, Remembered
  <2>3. Tenants!OutagesNotRemembered' /\ Tenants!NegativeOff'
    BY <2>1, Zenon DEF TenantInv, Tenants!OutagesNotRemembered, Tenants!NegativeOff
  <2> QED BY <2>1, <2>2, <2>3, Zenon DEF TenantInv
<1> QED
  BY <1>1, <1>2, <1>3, <1>4, <1>5, <1>6, Zenon DEF Tenants!RequestStep

\* Changes of a tenant, invalidations and the passing of time.
LEMMA TenantWorld ==
  ASSUME Tenants!TenantAssumption, TenantInv
  PROVE  /\ \A i \in Id, k \in Tenants!Kind : Tenants!Change(i, k) => TenantInv'
         /\ \A S \in SUBSET Id : Tenants!Invalidate(S) => TenantInv'
         /\ Tenants!Tick => TenantInv'
<1>0. Tenants!OutagesNotRemembered /\ Tenants!NegativeOff
  BY Zenon DEF TenantInv
<1>1. ASSUME NEW i \in Id, NEW k \in Tenants!Kind, Tenants!Change(i, k) PROVE TenantInv'
  <2> DEFINE t == [kind |-> k, ver |-> tTruth[i].ver + 1]
  <2>1. /\ tTruth' = [tTruth EXCEPT ![i] = t] /\ tTruth[i].ver < TenantVersions
        /\ UNCHANGED <<tEntry, tPc, id, got, own, tSince, tFloor, tCalm>>
    BY <1>1, Zenon DEF Tenants!Change, TenantInv, Tenants!TypeOK
  <2>2. t \in Tenants!Answer /\ t.ver = tTruth[i].ver + 1 /\ tTruth[i].ver \in Nat
    BY <2>1, AnswerFields DEF TenantInv, Tenants!TypeOK, Tenants!Answer, Tenants!TenantAssumption
  <2> HIDE DEF t
  <2>3. Tenants!TypeOK' /\ Held'
    BY <2>1, <2>2, Zenon DEF TenantInv, Tenants!TypeOK, Held
  <2>4. Remembered'
    BY <2>1, <2>2 DEF TenantInv, Tenants!TypeOK, Remembered
  <2>5. Tenants!OutagesNotRemembered' /\ Tenants!NegativeOff'
    BY <1>0, <2>1, Zenon DEF Tenants!OutagesNotRemembered, Tenants!NegativeOff
  <2> QED BY <2>1, <2>3, <2>4, <2>5, Zenon DEF TenantInv
<1>2. ASSUME NEW S \in SUBSET Id, Tenants!Invalidate(S) PROVE TenantInv'
  <2>1. /\ tEntry' = [i \in Id |-> IF i \in S THEN None ELSE tEntry[i]]
        /\ tFloor' = [i \in Id |-> IF i \in S THEN tTruth[i].ver ELSE tFloor[i]]
        /\ tCalm' = [i \in Id |-> IF i \in S /\ Tenants!Asking(i) = {} THEN tTruth[i].ver ELSE tCalm[i]]
        /\ UNCHANGED <<tTruth, tPc, id, got, own, tSince>>
    BY <1>2, Zenon DEF Tenants!Invalidate
  <2>2. \A i \in Id : tTruth[i].ver \in 0..TenantVersions /\ tTruth[i] \in Tenants!Answer
    BY AnswerFields, Zenon DEF TenantInv, Tenants!TypeOK
  <2>3. \A i \in Id : tCalm'[i] \in 0..TenantVersions /\ tCalm[i] <= tCalm'[i] /\ tCalm'[i] <= tTruth[i].ver
    BY <2>1, <2>2 DEF TenantInv, Tenants!TypeOK, Remembered, Tenants!TenantAssumption
  <2>4. Tenants!TypeOK' /\ tEntry' \in [Id -> {None} \cup Entries]
    <3>1. tEntry' \in [Id -> {None} \cup Entries]
      BY <2>1, Zenon DEF TenantInv
    <3>2. tFloor' \in [Id -> 0..TenantVersions] /\ tCalm' \in [Id -> 0..TenantVersions]
      BY <2>1, <2>2, <2>3, Zenon DEF TenantInv, Tenants!TypeOK
    <3> QED BY <2>1, <3>1, <3>2, EntryFields, Zenon DEF TenantInv, Tenants!TypeOK
  <2>5. Remembered'
    BY <2>1, <2>3, Zenon DEF TenantInv, Tenants!TypeOK, Remembered, Tenants!Asking
  <2>6. Held'
    <3> SUFFICES ASSUME NEW r \in Visitor
                 PROVE  /\ tSince[r].calm <= tCalm'[id[r]]
                        /\ tPc[r] = "remember" => got[r].ver >= tCalm'[id[r]]
      BY <2>1, Zenon DEF TenantInv, Held
    <3>1. id[r] \in Id /\ tSince[r].calm \in 0..TenantVersions
      BY Zenon DEF TenantInv, Tenants!TypeOK
    <3>2. tSince[r].calm <= tCalm'[id[r]]
      BY <2>3, <3>1 DEF TenantInv, Held, Tenants!TypeOK, Tenants!TenantAssumption
    <3>3. tPc[r] = "remember" => tCalm'[id[r]] = tCalm[id[r]]
      BY <2>1, <3>1, Zenon DEF Tenants!Asking
    <3> QED BY <3>2, <3>3, Zenon DEF TenantInv, Held
  <2>7. Tenants!OutagesNotRemembered' /\ Tenants!NegativeOff'
    BY <1>0, <2>1, Zenon DEF Tenants!OutagesNotRemembered, Tenants!NegativeOff
  <2> QED BY <2>4, <2>5, <2>6, <2>7, Zenon DEF TenantInv
<1>3. ASSUME Tenants!Tick PROVE TenantInv'
  <2>1. /\ tEntry' = [i \in Id |-> IF tEntry[i] = None \/ tEntry[i].left = 0 THEN tEntry[i]
                                   ELSE [tEntry[i] EXCEPT !.left = @ - 1]]
        /\ UNCHANGED <<tTruth, tPc, id, got, own, tSince, tFloor, tCalm>>
    BY <1>3, Zenon DEF Tenants!Tick
  <2>2. ASSUME NEW i \in Id
        PROVE  /\ tEntry'[i] \in {None} \cup Entries
               /\ tEntry'[i] # None => tEntry[i] # None /\ tEntry'[i].ans = tEntry[i].ans
    <3>1. CASE tEntry[i] = None \/ tEntry[i].left = 0
      BY <2>1, <3>1, Zenon DEF TenantInv
    <3>2. CASE ~(tEntry[i] = None \/ tEntry[i].left = 0)
      <4>1. tEntry'[i] = [tEntry[i] EXCEPT !.left = @ - 1] /\ tEntry[i] \in Entries
        BY <2>1, <3>2, Zenon DEF TenantInv
      <4>2. tEntry[i].left > 0
        BY <3>2, <4>1, EntryFields DEF Tenants!TenantAssumption
      <4> QED BY <3>2, <4>1, <4>2, EntryFields, Zenon
    <3> QED BY <3>1, <3>2, Zenon
  <2>3. tEntry' \in [Id -> {None} \cup Entries]
    BY <2>1, <2>2, Zenon
  <2>4. Tenants!TypeOK' /\ Held'
    BY <2>1, <2>2, EntryFields, Zenon DEF TenantInv, Tenants!TypeOK, Held
  <2>5. Remembered'
    BY <2>1, <2>2, Zenon DEF TenantInv, Remembered
  <2>6. Tenants!OutagesNotRemembered' /\ Tenants!NegativeOff'
    BY <1>0, <2>1, Zenon DEF Tenants!OutagesNotRemembered, Tenants!NegativeOff
  <2> QED BY <2>3, <2>4, <2>5, <2>6, Zenon DEF TenantInv
<1> QED BY <1>1, <1>2, <1>3, Zenon

\* cache.go:43-44, 119-123, tenant.go:34-47: for any number of requests and
\* tenants, any times to live and any interleaving of lookups, answers and
\* invalidations: an outage is never served from the cache, nor is an absence
\* when negative caching is off, and a tenant that is served was active at a
\* version not before the last Invalidate that met no answer on its way.
THEOREM TenantsServedTrue ==
  ASSUME Tenants!TenantAssumption
  PROVE  Tenants!Spec => []TenantsTrue
<1>1. Tenants!Init => TenantInv
  <2> SUFFICES ASSUME Tenants!Init PROVE TenantInv
    BY Zenon
  <2> DEFINE t == [kind |-> "notFound", ver |-> 0]
             s == [floor |-> 0, calm |-> 0]
             first == CHOOSE i \in Id : TRUE
  <2>1. /\ t \in Tenants!Answer /\ t.ver = 0 /\ first \in Id
        /\ s \in [floor : 0..TenantVersions, calm : 0..TenantVersions] /\ s.calm = 0
    BY DEF Tenants!Answer, Tenants!Kind, Tenants!Absent, Tenants!TenantAssumption
  <2>2. /\ tTruth = [i \in Id |-> t] /\ tEntry = [i \in Id |-> None]
        /\ tPc = [r \in Visitor |-> "idle"] /\ id = [r \in Visitor |-> first]
        /\ got = [r \in Visitor |-> None] /\ own = [r \in Visitor |-> FALSE]
        /\ tSince = [r \in Visitor |-> s]
        /\ tFloor = [i \in Id |-> 0] /\ tCalm = [i \in Id |-> 0]
    BY Zenon DEF Tenants!Init
  <2> HIDE DEF t, s, first
  <2>3. Tenants!TypeOK /\ tEntry \in [Id -> {None} \cup Entries]
    BY <2>1, <2>2, Zenon DEF Tenants!TypeOK, Tenants!TenantAssumption
  <2>4. Remembered /\ Held
    BY <2>1, <2>2 DEF Remembered, Held, Tenants!TenantAssumption
  <2>5. Tenants!OutagesNotRemembered /\ Tenants!NegativeOff
    BY <2>2, Zenon DEF Tenants!OutagesNotRemembered, Tenants!NegativeOff, Tenants!TenantAssumption
  <2> QED BY <2>3, <2>4, <2>5, Zenon DEF TenantInv
<1>2. TenantInv /\ [Tenants!Next]_(Tenants!vars) => TenantInv'
  <2> SUFFICES ASSUME TenantInv, [Tenants!Next]_(Tenants!vars) PROVE TenantInv'
    BY Zenon
  <2>1. CASE UNCHANGED Tenants!vars
    BY <2>1, Zenon DEF Tenants!vars, TenantInv, Tenants!TypeOK, Remembered, Held,
       Tenants!OutagesNotRemembered, Tenants!NegativeOff
  <2>2. ASSUME NEW i \in Id, Tenants!Invalidate({i}) PROVE TenantInv'
    BY <2>2, TenantWorld, Zenon
  <2>3. CASE Tenants!Clear
    BY <2>3, TenantWorld, Zenon DEF Tenants!Clear
  <2> QED
    BY <2>1, <2>2, <2>3, TenantArrives, TenantRequests, TenantWorld, Zenon DEF Tenants!Next
<1>3. TenantInv => Tenants!TenantsTrue
  BY Zenon DEF TenantInv, Held, Tenants!TenantsTrue, Tenants!ServedWasActive
<1> QED
  BY <1>1, <1>2, <1>3, PTL DEF Tenants!Spec, TenantsTrue

-----------------------------------------------------------------------------
(* The cache loader. *)

CONSTANTS Caller, Key, TTL, MaxVersion, CacheFails

VARIABLES truth, entry, flight, joined, lPc, key, loaded, since, floor, calm

Cached == INSTANCE Loader WITH pc <- lPc

(* loader.go:90-91, 133: concurrent misses on one key run load once, whoever *)
(* waits, waits for a flight on its way, and an Invalidate that meets no     *)
(* load in flight puts every later Get past the versions before it.  A live  *)
(* entry goes only by Invalidate (memory.go:43-51).                          *)
LoadsShared == Cached!LoadsShared

\* A flight and the callers that wait for it know each other.
Flights ==
  /\ \A k \in Key : flight[k] # None => Cached!Flying(flight[k]) /\ key[flight[k]] = k
  /\ \A c \in Caller : Cached!Flying(c) => flight[key[c]] = c
  /\ \A k \in Key : \A c \in joined[k] : lPc[c] = "wait" /\ key[c] = k
  /\ \A c \in Caller : lPc[c] = "wait" => c \in joined[key[c]] /\ flight[key[c]] # None

\* Nothing in the cache, or on its way there or to a caller, is below the version
\* of the last Invalidate that met no flight.
NothingStale ==
  /\ \A k \in Key : calm[k] <= truth[k] /\ (entry[k] # None => entry[k].v >= calm[k])
  /\ \A c \in Caller :
       /\ since[c].calm <= calm[key[c]]
       /\ lPc[c] = "store" => loaded[c] \in 0..MaxVersion /\ loaded[c] >= calm[key[c]]
       /\ lPc[c] = "land" /\ loaded[c] # None => loaded[c] >= calm[key[c]]
       /\ lPc[c] = "done" /\ loaded[c] # None => loaded[c] >= since[c].calm

LoaderInv == Cached!TypeOK /\ Flights /\ NothingStale

CacheEntry == [v : 0..MaxVersion, age : 0..TTL+1]

LEMMA CacheEntryFields ==
  ASSUME Cached!LoaderAssumption
  PROVE  /\ \A e \in CacheEntry :
              /\ e.v \in 0..MaxVersion /\ e.age \in 0..TTL+1 /\ e # None
              /\ e.age <= TTL => /\ [e EXCEPT !.age = @ + 1] \in CacheEntry
                                 /\ [e EXCEPT !.age = @ + 1].v = e.v
         /\ \A x \in 0..MaxVersion : [v |-> x, age |-> 0] \in CacheEntry /\ [v |-> x, age |-> 0].v = x
<1>1. ASSUME NEW e \in CacheEntry
      PROVE  /\ e.v \in 0..MaxVersion /\ e.age \in 0..TTL+1 /\ e # None
             /\ e.age <= TTL => /\ [e EXCEPT !.age = @ + 1] \in CacheEntry
                                /\ [e EXCEPT !.age = @ + 1].v = e.v
  BY DEF CacheEntry, Cached!LoaderAssumption
<1>2. ASSUME NEW x \in 0..MaxVersion
      PROVE  [v |-> x, age |-> 0] \in CacheEntry /\ [v |-> x, age |-> 0].v = x
  BY DEF CacheEntry, Cached!LoaderAssumption
<1> QED BY <1>1, <1>2, Zenon

\* The types of the loader's state, an entry being opaque.
LEMMA LoaderTypes ==
  Cached!TypeOK <=>
    /\ truth \in [Key -> 0..MaxVersion]
    /\ entry \in [Key -> {None} \cup CacheEntry]
    /\ flight \in [Key -> Caller \cup {None}]
    /\ joined \in [Key -> SUBSET Caller]
    /\ lPc \in [Caller -> {"idle", "first", "second", "evict1", "evict2", "join", "wait",
                           "load", "store", "land", "done"}]
    /\ key \in [Caller -> Key]
    /\ loaded \in [Caller -> 0..MaxVersion \cup {None}]
    /\ since \in [Caller -> [floor : 0..MaxVersion, calm : 0..MaxVersion]]
    /\ floor \in [Key -> 0..MaxVersion] /\ calm \in [Key -> 0..MaxVersion]
  BY Zenon DEF Cached!TypeOK, CacheEntry

LEMMA LoaderGet ==
  ASSUME Cached!LoaderAssumption, LoaderInv, NEW c \in Caller, NEW k \in Key, Cached!Get(c, k)
  PROVE  LoaderInv'
<1> DEFINE s == [floor |-> floor[k], calm |-> calm[k]]
<1>1. /\ lPc[c] \in {"idle", "done"} /\ lPc' = [lPc EXCEPT ![c] = "first"] /\ key' = [key EXCEPT ![c] = k]
      /\ loaded' = [loaded EXCEPT ![c] = None] /\ since' = [since EXCEPT ![c] = s]
      /\ UNCHANGED <<truth, entry, flight, joined, floor, calm>>
  BY Zenon DEF Cached!Get, Cached!Goto
<1>2. s \in [floor : 0..MaxVersion, calm : 0..MaxVersion] /\ s.calm = calm[k]
  BY LoaderTypes, Zenon DEF LoaderInv
<1> HIDE DEF s
<1>3. Cached!TypeOK'
  BY <1>1, <1>2, Zenon DEF LoaderInv, Cached!TypeOK
<1>4. Flights'
  BY <1>1, LoaderTypes DEF LoaderInv, Flights, Cached!Flying
<1>5. NothingStale'
  BY <1>1, <1>2, LoaderTypes DEF LoaderInv, NothingStale, Cached!LoaderAssumption
<1> QED BY <1>3, <1>4, <1>5, Zenon DEF LoaderInv

\* A caller moves on, outside its flight or within it, and may take an entry along.
LEMMA LoaderMoves ==
  ASSUME Cached!LoaderAssumption, LoaderInv, NEW c \in Caller,
         NEW l \in {"done", "land", "evict1", "evict2", "join", "load"},
         lPc[c] \in {"first", "second", "evict1", "evict2"},
         (lPc[c] \in {"first", "evict1"}) <=> (l \in {"done", "evict1", "join"}),
         lPc' = [lPc EXCEPT ![c] = l],
         NEW x \in 0..MaxVersion \cup {None}, loaded' = [loaded EXCEPT ![c] = x],
         x # None => x >= calm[key[c]],
         entry' \in [Key -> {None} \cup CacheEntry],
         \A k \in Key : entry'[k] \in {None, entry[k]},
         UNCHANGED <<truth, flight, joined, key, since, floor, calm>>
  PROVE  LoaderInv'
<1>1. Cached!TypeOK'
  BY LoaderTypes, CacheEntryFields, Zenon DEF LoaderInv, Cached!TypeOK, CacheEntry
<1>2. Flights'
  BY LoaderTypes DEF LoaderInv, Flights, Cached!Flying
<1>3. NothingStale'
  <2>1. x # None => x >= since[c].calm
    BY LoaderTypes DEF LoaderInv, NothingStale, Cached!LoaderAssumption
  <2>2. \A k \in Key : calm'[k] <= truth'[k] /\ (entry'[k] # None => entry'[k].v >= calm'[k])
    BY LoaderTypes, Zenon DEF LoaderInv, NothingStale
  <2> QED BY <2>1, <2>2, LoaderTypes, Zenon DEF LoaderInv, NothingStale
<1> QED BY <1>1, <1>2, <1>3, Zenon DEF LoaderInv

LEMMA LoaderCallers ==
  ASSUME Cached!LoaderAssumption, LoaderInv, NEW c \in Caller, Cached!CallerStep(c)
  PROVE  LoaderInv'
<1> DEFINE k == key[c]
<1>0. /\ k \in Key /\ entry \in [Key -> {None} \cup CacheEntry] /\ entry[k] \in {None} \cup CacheEntry
      /\ loaded = [loaded EXCEPT ![c] = loaded[c]] /\ loaded[c] \in 0..MaxVersion \cup {None}
      /\ UNCHANGED <<truth, key, since, floor, calm>>
  <2>1. UNCHANGED <<truth, key, since, floor, calm>>
    BY Zenon DEF Cached!CallerStep, Cached!Hit, Cached!Miss, Cached!Evict, Cached!Do, Cached!Load, Cached!Store, Cached!Land
  <2> QED BY <2>1, LoaderTypes, Zenon DEF LoaderInv
<1>1. CASE Cached!Hit(c)
  <2> DEFINE x == entry[k].v
             l == IF lPc[c] = "first" THEN "done" ELSE "land"
  <2>1. /\ lPc[c] \in {"first", "second"} /\ entry[k] # None /\ loaded' = [loaded EXCEPT ![c] = x]
        /\ lPc' = [lPc EXCEPT ![c] = l] /\ UNCHANGED <<entry, flight, joined>>
    BY <1>1, Zenon DEF Cached!Hit, Cached!Goto
  <2>2. x \in 0..MaxVersion /\ x >= calm[k]
    BY <1>0, <2>1, CacheEntryFields, Zenon DEF LoaderInv, NothingStale
  <2>3. l \in {"done", "land"} /\ (lPc[c] = "first" <=> l = "done")
    BY <2>1, Zenon
  <2> HIDE DEF x, l
  <2>4. l \in {"done", "land", "evict1", "evict2", "join", "load"} /\ x \in 0..MaxVersion \cup {None}
    BY <2>2, <2>3, Zenon
  <2>5. (lPc[c] \in {"first", "evict1"}) <=> (l \in {"done", "evict1", "join"})
    BY <2>1, <2>3, Zenon
  <2>6. entry' \in [Key -> {None} \cup CacheEntry] /\ \A j \in Key : entry'[j] \in {None, entry[j]}
    BY <1>0, <2>1, Zenon
  <2> QED BY <1>0, <2>1, <2>2, <2>4, <2>5, <2>6, LoaderMoves, Zenon
<1>2. ASSUME Cached!Miss(c) \/ Cached!Evict(c) PROVE LoaderInv'
  <2>1. PICK l \in {"evict1", "evict2", "join", "load"} :
          /\ lPc' = [lPc EXCEPT ![c] = l] /\ lPc[c] \in {"first", "second", "evict1", "evict2"}
          /\ (lPc[c] \in {"first", "evict1"}) <=> (l \in {"done", "evict1", "join"})
    BY <1>2, Zenon DEF Cached!Miss, Cached!Evict, Cached!Goto
  <2>2. UNCHANGED <<flight, joined, loaded>>
    BY <1>2, Zenon DEF Cached!Miss, Cached!Evict
  <2>3. entry' \in [Key -> {None} \cup CacheEntry] /\ \A j \in Key : entry'[j] \in {None, entry[j]}
    BY <1>0, <1>2, Zenon DEF Cached!Miss, Cached!Evict
  <2>4. Cached!TypeOK'
    BY <1>0, <2>1, <2>2, <2>3, CacheEntryFields, Zenon DEF LoaderInv, Cached!TypeOK, CacheEntry
  <2>5. Flights'
    BY <1>0, <2>1, <2>2, LoaderTypes DEF LoaderInv, Flights, Cached!Flying
  <2>6. \A j \in Key : calm'[j] <= truth'[j] /\ (entry'[j] # None => entry'[j].v >= calm'[j])
    BY <1>0, <2>3, Zenon DEF LoaderInv, NothingStale
  <2>7. NothingStale'
    BY <1>0, <2>1, <2>2, <2>6, LoaderTypes, Zenon DEF LoaderInv, NothingStale
  <2> QED BY <2>4, <2>5, <2>7, Zenon DEF LoaderInv
<1>3. CASE Cached!Do(c)
  <2>0. lPc[c] = "join" /\ UNCHANGED <<entry, loaded>>
    BY <1>3, Zenon DEF Cached!Do
  <2>1. CASE flight[k] = None
    <3>1. /\ flight' = [flight EXCEPT ![k] = c] /\ joined' = joined
          /\ lPc' = [lPc EXCEPT ![c] = "second"]
      BY <1>3, <2>1, Zenon DEF Cached!Do, Cached!Goto
    <3>2. Cached!TypeOK'
      BY <1>0, <2>0, <3>1, Zenon DEF LoaderInv, Cached!TypeOK
    <3>3. Flights'
      BY <1>0, <2>0, <2>1, <3>1, LoaderTypes DEF LoaderInv, Flights, Cached!Flying, Cached!LoaderAssumption
    <3>4. NothingStale'
      BY <1>0, <2>0, <3>1, LoaderTypes, Zenon DEF LoaderInv, NothingStale
    <3> QED BY <3>2, <3>3, <3>4, Zenon DEF LoaderInv
  <2>2. CASE flight[k] # None
    <3>1. /\ joined' = [joined EXCEPT ![k] = joined[k] \cup {c}] /\ flight' = flight
          /\ lPc' = [lPc EXCEPT ![c] = "wait"]
      BY <1>3, <2>2, Zenon DEF Cached!Do, Cached!Goto
    <3>2. Cached!TypeOK'
      BY <1>0, <2>0, <3>1 DEF LoaderInv, Cached!TypeOK
    <3>3. Flights'
      BY <1>0, <2>0, <2>2, <3>1, LoaderTypes DEF LoaderInv, Flights, Cached!Flying
    <3>4. NothingStale'
      BY <1>0, <2>0, <3>1, LoaderTypes, Zenon DEF LoaderInv, NothingStale
    <3> QED BY <3>2, <3>3, <3>4, Zenon DEF LoaderInv
  <2> QED BY <2>1, <2>2, Zenon
<1>4. CASE Cached!Load(c)
  <2>1. /\ lPc[c] = "load" /\ UNCHANGED <<entry, flight, joined>>
        /\ \/ loaded' = [loaded EXCEPT ![c] = truth[k]] /\ lPc' = [lPc EXCEPT ![c] = "store"]
           \/ loaded' = [loaded EXCEPT ![c] = None] /\ lPc' = [lPc EXCEPT ![c] = "land"]
    BY <1>4, Zenon DEF Cached!Load, Cached!Goto
  <2>2. truth[k] \in 0..MaxVersion /\ truth[k] >= calm[k]
    BY <1>0, LoaderTypes, Zenon DEF LoaderInv, NothingStale, Cached!LoaderAssumption
  <2>3. Cached!TypeOK'
    BY <1>0, <2>1, <2>2, ZenonT(40) DEF LoaderInv, Cached!TypeOK
  <2>4. Flights'
    BY <1>0, <2>1, LoaderTypes DEF LoaderInv, Flights, Cached!Flying
  <2>5. NothingStale'
    BY <1>0, <2>1, <2>2, LoaderTypes, ZenonT(40) DEF LoaderInv, NothingStale
  <2> QED BY <2>3, <2>4, <2>5, Zenon DEF LoaderInv
<1>5. CASE Cached!Store(c)
  <2> DEFINE e == [v |-> loaded[c], age |-> 0]
  <2>1. /\ lPc[c] = "store" /\ lPc' = [lPc EXCEPT ![c] = "land"] /\ UNCHANGED <<flight, joined, loaded>>
        /\ entry' = [entry EXCEPT ![k] = e] \/ entry' = entry
    BY <1>5, Zenon DEF Cached!Store, Cached!Goto
  <2>2. e \in CacheEntry /\ e.v = loaded[c] /\ e.v >= calm[k] /\ loaded[c] >= calm[k]
    BY <2>1, CacheEntryFields, Zenon DEF LoaderInv, NothingStale
  <2> HIDE DEF e
  <2>3. entry' \in [Key -> {None} \cup CacheEntry]
    BY <1>0, <2>1, <2>2, Zenon
  <2>4. Cached!TypeOK'
    BY <1>0, <2>1, <2>3, Zenon DEF LoaderInv, Cached!TypeOK, CacheEntry
  <2>5. Flights'
    BY <1>0, <2>1, LoaderTypes DEF LoaderInv, Flights, Cached!Flying
  <2>6. \A j \in Key : calm'[j] <= truth'[j] /\ (entry'[j] # None => entry'[j].v >= calm'[j])
    BY <1>0, <2>1, <2>2, Zenon DEF LoaderInv, NothingStale
  <2>7. NothingStale'
    BY <1>0, <2>1, <2>2, <2>6, LoaderTypes, Zenon DEF LoaderInv, NothingStale
  <2> QED BY <2>4, <2>5, <2>7, Zenon DEF LoaderInv
<1>6. CASE Cached!Land(c)
  <2>1. /\ lPc[c] = "land" /\ flight' = [flight EXCEPT ![k] = None] /\ joined' = [joined EXCEPT ![k] = {}]
        /\ lPc' = [d \in Caller |-> IF d = c \/ d \in joined[k] THEN "done" ELSE lPc[d]]
        /\ loaded' = [d \in Caller |-> IF d \in joined[k] THEN loaded[c] ELSE loaded[d]]
        /\ entry' = entry
    BY <1>6, Zenon DEF Cached!Land
  <2>2. Cached!TypeOK'
    BY <1>0, <2>1, Zenon DEF LoaderInv, Cached!TypeOK
  <2>3. Flights'
    BY <1>0, <2>1, LoaderTypes DEF LoaderInv, Flights, Cached!Flying
  <2>4. ASSUME NEW d \in Caller, d = c \/ d \in joined[k], loaded[c] # None
        PROVE  loaded[c] >= since[d].calm
    <3>1. key[d] = k /\ since[d].calm \in Nat /\ since[d].calm <= calm[k]
      BY <1>0, <2>4, LoaderTypes DEF LoaderInv, Flights, NothingStale, Cached!LoaderAssumption
    <3>2. loaded[c] >= calm[k] /\ loaded[c] \in Nat /\ calm[k] \in Nat
      BY <1>0, <2>1, <2>4, LoaderTypes DEF LoaderInv, NothingStale, Cached!LoaderAssumption
    <3> QED BY <3>1, <3>2
  <2>5. NothingStale'
    BY <1>0, <2>1, <2>4, LoaderTypes, Zenon DEF LoaderInv, NothingStale
  <2> QED BY <2>2, <2>3, <2>5, Zenon DEF LoaderInv
<1> QED
  BY <1>1, <1>2, <1>3, <1>4, <1>5, <1>6, Zenon DEF Cached!CallerStep

LEMMA LoaderWorld ==
  ASSUME Cached!LoaderAssumption, LoaderInv
  PROVE  /\ \A k \in Key : Cached!Invalidate(k) \/ Cached!Write(k) => LoaderInv'
         /\ Cached!Tick => LoaderInv'
<1>1. ASSUME NEW k \in Key, Cached!Invalidate(k) PROVE LoaderInv'
  <2> DEFINE n == IF flight[k] = None THEN truth[k] ELSE calm[k]
  <2>1. /\ entry' = [entry EXCEPT ![k] = None] /\ floor' = [floor EXCEPT ![k] = truth[k]]
        /\ calm' = [calm EXCEPT ![k] = n]
        /\ UNCHANGED <<truth, flight, joined, lPc, key, loaded, since>>
    BY <1>1, LoaderTypes, Zenon DEF Cached!Invalidate, LoaderInv
  <2>2. n \in 0..MaxVersion /\ calm[k] <= n /\ n <= truth[k]
    BY LoaderTypes DEF LoaderInv, NothingStale, Cached!LoaderAssumption
  <2>3. \A c \in Caller : lPc[c] \in {"store", "land"} => calm'[key[c]] = calm[key[c]]
    BY <2>1, LoaderTypes DEF LoaderInv, Flights, Cached!Flying, Cached!LoaderAssumption
  <2> HIDE DEF n
  <2>4. Cached!TypeOK'
    BY <2>1, <2>2, LoaderTypes, Zenon DEF LoaderInv, Cached!TypeOK
  <2>5. Flights'
    BY <2>1, Zenon DEF LoaderInv, Flights, Cached!Flying
  <2>6. \A j \in Key : calm'[j] <= truth'[j] /\ (entry'[j] # None => entry'[j].v >= calm'[j])
    BY <2>1, <2>2, LoaderTypes, Zenon DEF LoaderInv, NothingStale
  <2>7. \A c \in Caller : since[c].calm <= calm'[key[c]]
    BY <2>1, <2>2, LoaderTypes DEF LoaderInv, NothingStale, Cached!LoaderAssumption
  <2>8. NothingStale'
    BY <2>1, <2>3, <2>6, <2>7, Zenon DEF LoaderInv, NothingStale
  <2> QED BY <2>4, <2>5, <2>8, Zenon DEF LoaderInv
<1>2. ASSUME NEW k \in Key, Cached!Write(k) PROVE LoaderInv'
  <2>1. /\ truth[k] < MaxVersion /\ truth' = [truth EXCEPT ![k] = truth[k] + 1]
        /\ UNCHANGED <<entry, flight, joined, lPc, key, loaded, since, floor, calm>>
    BY <1>2, Zenon DEF Cached!Write
  <2>2. Cached!TypeOK' /\ Flights'
    BY <2>1, LoaderTypes DEF LoaderInv, Cached!TypeOK, Flights, Cached!Flying, Cached!LoaderAssumption
  <2>3. NothingStale'
    BY <2>1, LoaderTypes DEF LoaderInv, NothingStale, Cached!LoaderAssumption
  <2> QED BY <2>2, <2>3, Zenon DEF LoaderInv
<1>3. ASSUME Cached!Tick PROVE LoaderInv'
  <2>1. /\ entry' = [k \in Key |-> IF entry[k] = None \/ Cached!Expired(k) THEN entry[k]
                                   ELSE [entry[k] EXCEPT !.age = @ + 1]]
        /\ UNCHANGED <<truth, flight, joined, lPc, key, loaded, since, floor, calm>>
        /\ TTL > 0
    BY <1>3, Zenon DEF Cached!Tick
  <2>2. ASSUME NEW k \in Key
        PROVE  /\ entry'[k] \in {None} \cup CacheEntry
               /\ entry'[k] # None => entry[k] # None /\ entry'[k].v = entry[k].v
    <3>1. CASE entry[k] = None \/ Cached!Expired(k)
      BY <2>1, <3>1, LoaderTypes, Zenon DEF LoaderInv
    <3>2. CASE ~(entry[k] = None \/ Cached!Expired(k))
      <4>1. entry'[k] = [entry[k] EXCEPT !.age = @ + 1] /\ entry[k] \in CacheEntry
        BY <2>1, <3>2, LoaderTypes, Zenon DEF LoaderInv
      <4>2. entry[k].age <= TTL
        BY <2>1, <3>2, <4>1, CacheEntryFields DEF Cached!Expired, Cached!LoaderAssumption
      <4> QED BY <3>2, <4>1, <4>2, CacheEntryFields, Zenon
    <3> QED BY <3>1, <3>2, Zenon
  <2>3. entry' \in [Key -> {None} \cup CacheEntry]
    BY <2>1, <2>2, Zenon
  <2>4. Cached!TypeOK' /\ Flights'
    BY <2>1, <2>3, Zenon DEF LoaderInv, Cached!TypeOK, CacheEntry, Flights, Cached!Flying
  <2>5. NothingStale'
    BY <2>1, <2>2, Zenon DEF LoaderInv, NothingStale
  <2> QED BY <2>4, <2>5, Zenon DEF LoaderInv
<1> QED BY <1>1, <1>2, <1>3, Zenon

\* loader.go, memory.go: the invariant of every behaviour of the loader.
LEMMA LoaderInvariant ==
  ASSUME Cached!LoaderAssumption
  PROVE  Cached!Spec => []LoaderInv
<1>1. Cached!Init => LoaderInv
  <2> SUFFICES ASSUME Cached!Init PROVE LoaderInv
    BY Zenon
  <2> DEFINE s == [floor |-> 0, calm |-> 0]
             first == CHOOSE k \in Key : TRUE
  <2>1. first \in Key /\ s \in [floor : 0..MaxVersion, calm : 0..MaxVersion] /\ s.calm = 0
    BY DEF Cached!LoaderAssumption
  <2>2. /\ truth = [k \in Key |-> 0] /\ entry = [k \in Key |-> None] /\ flight = [k \in Key |-> None]
        /\ joined = [k \in Key |-> {}] /\ lPc = [c \in Caller |-> "idle"]
        /\ key = [c \in Caller |-> first] /\ loaded = [c \in Caller |-> None]
        /\ since = [c \in Caller |-> s] /\ floor = [k \in Key |-> 0] /\ calm = [k \in Key |-> 0]
    BY Zenon DEF Cached!Init
  <2> HIDE DEF s, first
  <2>3. Cached!TypeOK
    BY <2>1, <2>2, Zenon DEF Cached!TypeOK, Cached!LoaderAssumption
  <2>4. Flights /\ NothingStale
    BY <2>1, <2>2 DEF Flights, NothingStale, Cached!Flying, Cached!LoaderAssumption
  <2> QED BY <2>3, <2>4, Zenon DEF LoaderInv
<1>2. LoaderInv /\ [Cached!Next]_(Cached!vars) => LoaderInv'
  <2> SUFFICES ASSUME LoaderInv, [Cached!Next]_(Cached!vars) PROVE LoaderInv'
    BY Zenon
  <2>1. CASE UNCHANGED Cached!vars
    BY <2>1, Zenon DEF Cached!vars, LoaderInv, Cached!TypeOK, Flights, NothingStale, Cached!Flying
  <2> QED BY <2>1, LoaderGet, LoaderCallers, LoaderWorld, Zenon DEF Cached!Next
<1> QED BY <1>1, <1>2, PTL DEF Cached!Spec

\* memory.go:43-51: what a step may do to a live entry.
LEMMA LoaderKeepsEntries ==
  ASSUME Cached!LoaderAssumption, LoaderInv, [Cached!Next]_(Cached!vars), NEW k \in Key,
         entry[k] # None, ~Cached!Expired(k), entry'[k] = None
  PROVE  Cached!Invalidate(k)
<1>0. entry \in [Key -> {None} \cup CacheEntry] /\ key \in [Caller -> Key] /\ entry[k] \in CacheEntry
  BY LoaderTypes, Zenon DEF LoaderInv
<1>1. ASSUME NEW c \in Caller, Cached!Store(c) PROVE FALSE
  <2> DEFINE e == [v |-> loaded[c], age |-> 0]
  <2>1. (entry' = [entry EXCEPT ![key[c]] = e] \/ entry' = entry) /\ loaded[c] \in 0..MaxVersion
    BY <1>1, Zenon DEF Cached!Store, LoaderInv, NothingStale
  <2>2. e # None
    BY <2>1, CacheEntryFields, Zenon
  <2> HIDE DEF e
  <2> QED BY <1>0, <2>1, <2>2, Zenon
<1>2. ASSUME NEW c \in Caller, Cached!Evict(c) PROVE FALSE
  BY <1>0, <1>2, Zenon DEF Cached!Evict
<1>3. ASSUME Cached!Tick PROVE FALSE
  <2>1. /\ TTL > 0
        /\ entry'[k] = IF entry[k] = None \/ Cached!Expired(k) THEN entry[k] ELSE [entry[k] EXCEPT !.age = @ + 1]
    BY <1>3, Zenon DEF Cached!Tick
  <2>2. entry[k].age <= TTL
    BY <1>0, <2>1, CacheEntryFields DEF Cached!Expired, Cached!LoaderAssumption
  <2> QED BY <1>0, <2>1, <2>2, CacheEntryFields, Zenon
<1>4. ASSUME NEW j \in Key, Cached!Invalidate(j) PROVE j = k
  BY <1>0, <1>4, Zenon DEF Cached!Invalidate
<1>5. ASSUME entry' = entry PROVE FALSE
  BY <1>5, Zenon
<1> QED
  BY <1>1, <1>2, <1>3, <1>4, <1>5, Zenon DEF Cached!Next, Cached!vars, Cached!CallerStep, Cached!Hit, Cached!Miss,
     Cached!Do, Cached!Load, Cached!Land, Cached!Get, Cached!Write

\* loader.go:90-91, 133, memory.go:43-51: for any number of callers and keys and
\* any time to live, over a cache that may fail or not: at most one load of a key
\* is under way, whoever waits, waits for that one, no Get returns a version from
\* before an Invalidate that met no flight, and only Invalidate drops a live entry.
THEOREM LoadsAreShared ==
  ASSUME Cached!LoaderAssumption
  PROVE  Cached!Spec => LoadsShared
<1>1. LoaderInv => Cached!TypeOK /\ Cached!OneLoad /\ Cached!WaitersHaveFlight /\ Cached!FreshAfterCalmInvalidate
  <2> SUFFICES ASSUME LoaderInv
               PROVE  Cached!OneLoad /\ Cached!WaitersHaveFlight /\ Cached!FreshAfterCalmInvalidate
    BY Zenon DEF LoaderInv
  <2>1. Cached!OneLoad
    BY Zenon DEF LoaderInv, Flights, Cached!OneLoad
  <2>2. Cached!WaitersHaveFlight
    BY LoaderTypes, Zenon DEF LoaderInv, Flights, Cached!WaitersHaveFlight
  <2>3. Cached!FreshAfterCalmInvalidate
    BY Zenon DEF LoaderInv, NothingStale, Cached!FreshAfterCalmInvalidate
  <2> QED BY <2>1, <2>2, <2>3, Zenon
<1>2. LoaderInv /\ [Cached!Next]_(Cached!vars) =>
        [\A k \in Key : entry[k] # None /\ ~Cached!Expired(k) /\ entry'[k] = None
                          => Cached!Invalidate(k)]_(Cached!vars)
  BY LoaderKeepsEntries, Zenon
<1> QED
  BY <1>1, <1>2, LoaderInvariant, PTL DEF Cached!Spec, LoadsShared, Cached!LoadsShared, Cached!NoLostRefresh
=============================================================================
