---------------------------- MODULE KeyedLimiter ----------------------------
(***************************************************************************)
(* core/limitx/keyed.go: a concurrency cap per key.  The table `slots`     *)
(* maps a key to a heap-allocated slot (a buffered channel used as a       *)
(* semaphore, and a reference count).  A caller keeps the POINTER to the   *)
(* slot it reserved while release looks the slot up again by KEY, so the   *)
(* model keeps slot identities apart from keys.                            *)
(***************************************************************************)
EXTENDS Integers, FiniteSets, FiniteSetTheorems, TLAPS

CONSTANTS
  Caller,   \* goroutines that call Acquire
  Key,      \* the keys K
  SlotId,   \* heap addresses of slots; one nobody refers to may be reused
  Limit,    \* the argument of NewKeyed
  NoSlot, NoKey

ASSUME LimiterAssumption ==
  /\ IsFiniteSet(Caller)
  /\ Limit \in Int
  /\ NoSlot \notin SlotId
  /\ NoKey \notin Key

VARIABLES
  slots,  \* slots[k]: the slot the table holds for k, or NoSlot
  sem,    \* sem[s]: tokens in the channel of slot s
  refs,   \* refs[s]: goroutines recorded as holding or awaiting slot s
  pc,     \* where each caller is
  key,    \* the key of its current Acquire
  ptr,    \* the *slot its Acquire reserved
  once,   \* whether the sync.Once of its release function has run
  ctx     \* "live" or "ended": the context of its Acquire

vars == <<slots, sem, refs, pc, key, ptr, once, ctx>>

Stage == {"idle", "reserve", "select", "held", "drop", "abandon", "done"}

NewKeyed == IF Limit < 1 THEN 1 ELSE Limit

Init ==
  /\ slots = [k \in Key |-> NoSlot]
  /\ sem   = [s \in SlotId |-> 0]
  /\ refs  = [s \in SlotId |-> 0]
  /\ pc    = [p \in Caller |-> "idle"]
  /\ key   = [p \in Caller |-> NoKey]
  /\ ptr   = [p \in Caller |-> NoSlot]
  /\ once  = [p \in Caller |-> FALSE]
  /\ ctx   = [p \in Caller |-> "live"]

(* Acquire's first statement: an ended context is refused at once. *)
Acquire(p, k) ==
  /\ pc[p] = "idle"
  /\ ctx[p] = "live"
  /\ pc'  = [pc EXCEPT ![p] = "reserve"]
  /\ key' = [key EXCEPT ![p] = k]
  /\ UNCHANGED <<slots, sem, refs, ptr, once, ctx>>

AcquireRefused(p) ==
  /\ pc[p] = "idle"
  /\ ctx[p] = "ended"
  /\ ctx' = [ctx EXCEPT ![p] = "live"]
  /\ UNCHANGED <<slots, sem, refs, pc, key, ptr, once>>

Unreferenced ==
  {s \in SlotId : (\A k \in Key : slots[k] # s) /\ (\A p \in Caller : ptr[p] # s)}

(* Fault: the waiter is not counted. *)
ReserveUncounted(p) ==
  /\ pc[p] = "reserve"
  /\ pc' = [pc EXCEPT ![p] = "select"]
  /\ \/ /\ slots[key[p]] # NoSlot
        /\ ptr' = [ptr EXCEPT ![p] = slots[key[p]]]
        /\ UNCHANGED <<slots, sem, refs>>
     \/ /\ slots[key[p]] = NoSlot
        /\ \E s \in Unreferenced :
             /\ slots' = [slots EXCEPT ![key[p]] = s]
             /\ sem'   = [sem EXCEPT ![s] = 0]
             /\ refs'  = [refs EXCEPT ![s] = 1]
             /\ ptr'   = [ptr EXCEPT ![p] = s]
  /\ UNCHANGED <<key, once, ctx>>

(* reserve, under mu: find or create the slot and count this goroutine. *)
reserve(p) ==
  /\ pc[p] = "reserve"
  /\ pc' = [pc EXCEPT ![p] = "select"]
  /\ \/ /\ slots[key[p]] # NoSlot
        /\ ptr'  = [ptr EXCEPT ![p] = slots[key[p]]]
        /\ refs' = [refs EXCEPT ![slots[key[p]]] = @ + 1]
        /\ UNCHANGED <<slots, sem>>
     \/ /\ slots[key[p]] = NoSlot
        /\ \E s \in Unreferenced :
             /\ slots' = [slots EXCEPT ![key[p]] = s]
             /\ sem'   = [sem EXCEPT ![s] = 0]
             /\ refs'  = [refs EXCEPT ![s] = 1]
             /\ ptr'   = [ptr EXCEPT ![p] = s]
  /\ UNCHANGED <<key, once, ctx>>

(* Fault: the channel is one longer than the cap. *)
TakeSlotOneMore(p) ==
  /\ pc[p] = "select"
  /\ sem[ptr[p]] < NewKeyed + 1
  /\ sem' = [sem EXCEPT ![ptr[p]] = @ + 1]
  /\ pc'  = [pc EXCEPT ![p] = "held"]
  /\ UNCHANGED <<slots, refs, key, ptr, once, ctx>>

(* The select: a token goes into the channel, or the context is done.  With *)
(* both ready Go picks either.                                              *)
TakeSlot(p) ==
  /\ pc[p] = "select"
  /\ sem[ptr[p]] < NewKeyed
  /\ sem' = [sem EXCEPT ![ptr[p]] = @ + 1]
  /\ pc'  = [pc EXCEPT ![p] = "held"]
  /\ UNCHANGED <<slots, refs, key, ptr, once, ctx>>

(* Fault: the select has no case for the context. *)
GiveUpNever(p) == FALSE

(* Fault: the end of one context ends the wait of all that queue for the key. *)
GiveUpTogether(p) ==
  /\ pc[p] = "select"
  /\ ctx[p] = "ended"
  /\ pc' = [q \in Caller |-> IF pc[q] = "select" /\ key[q] = key[p] THEN "abandon" ELSE pc[q]]
  /\ UNCHANGED <<slots, sem, refs, key, ptr, once, ctx>>

GiveUp(p) ==
  /\ pc[p] = "select"
  /\ ctx[p] = "ended"
  /\ pc' = [pc EXCEPT ![p] = "abandon"]
  /\ UNCHANGED <<slots, sem, refs, key, ptr, once, ctx>>

(* The returned release: its sync.Once lets only the first call through, *)
(* which receives the token and goes on to release(key).                 *)
CallRelease(p) ==
  /\ pc[p] \in {"held", "done"}
  /\ IF once[p]
     THEN UNCHANGED <<sem, pc, once>>
     ELSE /\ sem[ptr[p]] > 0
          /\ sem'  = [sem EXCEPT ![ptr[p]] = @ - 1]
          /\ pc'   = [pc EXCEPT ![p] = "drop"]
          /\ once' = [once EXCEPT ![p] = TRUE]
  /\ UNCHANGED <<slots, refs, key, ptr, ctx>>

(* release(key), under mu: the slot is looked up by key, and the entry is *)
(* deleted when no reference is left.                                     *)
DropRef(k) ==
  IF slots[k] = NoSlot
  THEN UNCHANGED <<slots, refs>>
  ELSE /\ refs'  = [refs EXCEPT ![slots[k]] = @ - 1]
       /\ slots' = IF refs[slots[k]] - 1 <= 0
                   THEN [slots EXCEPT ![k] = NoSlot]
                   ELSE slots

(* release called by the release function, and by a failing Acquire, which *)
(* returns no release function.                                            *)
release(p) ==
  /\ pc[p] \in {"drop", "abandon"}
  /\ DropRef(key[p])
  /\ \/ /\ pc[p] = "drop"
        /\ pc' = [pc EXCEPT ![p] = "done"]
        /\ UNCHANGED <<key, ptr, ctx>>
     \/ /\ pc[p] = "abandon"
        /\ pc'  = [pc EXCEPT ![p] = "idle"]
        /\ key' = [key EXCEPT ![p] = NoKey]
        /\ ptr' = [ptr EXCEPT ![p] = NoSlot]
        /\ ctx' = [ctx EXCEPT ![p] = "live"]
  /\ UNCHANGED <<sem, once>>

(* The caller forgets its release function and may start over. *)
Forget(p) ==
  /\ pc[p] = "done"
  /\ pc'  = [pc EXCEPT ![p] = "idle"]
  /\ key' = [key EXCEPT ![p] = NoKey]
  /\ ptr' = [ptr EXCEPT ![p] = NoSlot]
  /\ ctx' = [ctx EXCEPT ![p] = "live"]
  /\ once' = [once EXCEPT ![p] = FALSE]
  /\ UNCHANGED <<slots, sem, refs>>

CtxEnds(p) ==
  /\ ctx[p] = "live"
  /\ ctx' = [ctx EXCEPT ![p] = "ended"]
  /\ UNCHANGED <<slots, sem, refs, pc, key, ptr, once>>

Next ==
  \E p \in Caller :
    \/ \E k \in Key : Acquire(p, k)
    \/ AcquireRefused(p)
    \/ reserve(p)
    \/ TakeSlot(p)
    \/ GiveUp(p)
    \/ CallRelease(p)
    \/ release(p)
    \/ Forget(p)
    \/ CtxEnds(p)

Spec == Init /\ [][Next]_vars

(* A goroutine inside Acquire or a release is scheduled.  Nothing makes a *)
(* holder call its release function.                                      *)
Fairness ==
  \A p \in Caller :
    WF_vars(reserve(p)) /\ WF_vars(TakeSlot(p)) /\ WF_vars(GiveUp(p)) /\ WF_vars(release(p))

FairSpec == Spec /\ Fairness
-----------------------------------------------------------------------------
Waiters(k) == {p \in Caller : pc[p] = "select" /\ key[p] = k}
Holding(k) == {p \in Caller : pc[p] = "held" /\ key[p] = k}
Counted(k) == {p \in Caller : pc[p] \in {"select", "held", "drop", "abandon"} /\ key[p] = k}

TypeOK ==
  /\ slots \in [Key -> SlotId \cup {NoSlot}]
  /\ sem   \in [SlotId -> Nat]
  /\ refs  \in [SlotId -> Int]
  /\ pc    \in [Caller -> Stage]
  /\ key   \in [Caller -> Key \cup {NoKey}]
  /\ ptr   \in [Caller -> SlotId \cup {NoSlot}]
  /\ once  \in [Caller -> BOOLEAN]
  /\ ctx   \in [Caller -> {"live", "ended"}]

(* keyed.go:13 "Keyed caps concurrent operations per key": no interleaving  *)
(* of reserve, take, give-up and release lets more than the cap hold a key. *)
CapHolds == \A k \in Key : Cardinality(Holding(k)) <= NewKeyed

(* keyed.go:40-42: an entry counts exactly the goroutines that hold or await *)
(* it, and a caller's pointer is the table's current slot for its key.  So   *)
(* nobody queues on a semaphore that was dropped from the table.             *)
RefsExact ==
  \A k \in Key :
    /\ \A p \in Counted(k) : slots[k] = ptr[p] /\ slots[k] # NoSlot
    /\ slots[k] # NoSlot => refs[slots[k]] = Cardinality(Counted(k))

(* keyed.go:29-31 "Keyed holds no state for an idle key". *)
NoIdleEntry == \A k \in Key : slots[k] # NoSlot => Counted(k) # {}

(* keyed.go:82: the receive in a release function never blocks. *)
ReleaseNeverBlocks == \A p \in Caller : pc[p] = "held" => sem[ptr[p]] > 0

(* A caller queueing for a key nobody holds stops queueing unless another    *)
(* caller of that key gets in, even while the holders of other keys never  *)
(* release: keyed.go:18-19 "Capping per key converts that outage into a     *)
(* queue for the key at fault".                                             *)
WaiterServed ==
  \A p \in Caller, k \in Key :
    (p \in Waiters(k) /\ Holding(k) = {}) ~> (p \notin Waiters(k) \/ Holding(k) # {})

(* Acquire returns once its context has ended, whoever holds the slots. *)
CancelledReturns ==
  \A p \in Caller :
    (pc[p] = "select" /\ ctx[p] = "ended") ~> pc[p] \in {"held", "idle"}

(* keyed.go:73-91: a caller that waits for a slot is served when those ahead  *)
(* of it release theirs, and one whose context has ended returns.             *)
CallersReturn == WaiterServed /\ CancelledReturns

(* The inductive invariant.  What each stage of a caller implies: *)
CallerInv ==
  \A p \in Caller :
    /\ pc[p] = "idle" => key[p] = NoKey /\ ptr[p] = NoSlot
    /\ pc[p] = "reserve" => ptr[p] = NoSlot
    /\ pc[p] # "idle" => key[p] \in Key
    /\ pc[p] \in {"select", "held", "drop", "abandon"} => ptr[p] = slots[key[p]] /\ ptr[p] \in SlotId
    /\ once[p] <=> pc[p] \in {"drop", "done"}

(* no slot serves two keys, *)
TableInv ==
  \A j, k \in Key : slots[j] = slots[k] /\ slots[j] # NoSlot => j = k

(* and both counters of an entry are exact. *)
CountInv ==
  \A k \in Key : slots[k] # NoSlot =>
    /\ refs[slots[k]] = Cardinality(Counted(k))
    /\ sem[slots[k]] = Cardinality(Holding(k))
    /\ sem[slots[k]] <= NewKeyed
    /\ Counted(k) # {}

(* keyed.go as a whole: the strengthening under which every step of Acquire *)
(* and release keeps the cap, the reference counts and the table exact.     *)
IInv == TypeOK /\ CallerInv /\ TableInv /\ CountInv

(* The table and its reference counts implement one counting semaphore per key. *)
Semaphore == INSTANCE KeyedSemaphore WITH
  Cap     <- NewKeyed,
  free    <- [k \in Key |-> NewKeyed - Cardinality(Holding(k))],
  waiting <- [p \in Caller |-> IF pc[p] = "select" THEN key[p] ELSE NoKey],
  inside  <- [p \in Caller |-> IF pc[p] = "held" THEN key[p] ELSE NoKey]

(* keyed.go implements the semaphores of KeyedSemaphore. *)
ImplementsSemaphore == Semaphore!SemSpec

-----------------------------------------------------------------------------
(* Theorems, for any number of callers and keys and any limit: IInv is       *)
(* inductive, and what the callers rely on and the refinement of a semaphore *)
(* per key follow from it.                                                   *)

LEMMA CapPositive == NewKeyed \in Nat /\ NewKeyed > 0
BY LimiterAssumption DEF NewKeyed

(* The sets of callers the counts are about are finite. *)
LEMMA CallersFinite ==
  ASSUME NEW k
  PROVE  IsFiniteSet(Counted(k)) /\ IsFiniteSet(Holding(k))
         /\ Cardinality(Counted(k)) \in Nat /\ Cardinality(Holding(k)) \in Nat
<1>1. Counted(k) \subseteq Caller /\ Holding(k) \subseteq Caller
  BY Zenon DEF Counted, Holding
<1>2. IsFiniteSet(Counted(k)) /\ IsFiniteSet(Holding(k))
  BY <1>1, LimiterAssumption, FS_Subset, Zenon
<1> QED
  BY <1>2, FS_CardinalityType, Zenon

(* Init establishes the inductive invariant. *)
LEMMA InitInv == Init => IInv
<1> SUFFICES ASSUME Init PROVE IInv
  BY Zenon
<1>1. TypeOK
  BY DEF Init, TypeOK, Stage
<1>2. CallerInv
  BY Zenon DEF Init, CallerInv
<1>3. TableInv
  BY Zenon DEF Init, TableInv
<1>4. CountInv
  BY Zenon DEF Init, CountInv
<1> QED
  BY <1>1, <1>2, <1>3, <1>4, Zenon DEF IInv

(* Steps that neither move the table nor change who is counted or holding. *)
LEMMA CountsKept ==
  ASSUME CountInv, UNCHANGED <<slots, sem, refs>>,
         \A k \in Key : Counted(k)' = Counted(k) /\ Holding(k)' = Holding(k)
  PROVE  CountInv'
BY Zenon DEF CountInv, NewKeyed

(* Acquire, AcquireRefused, GiveUp, Forget and CtxEnds touch no slot. *)
LEMMA CallerStepsInv ==
  ASSUME IInv, NEW p \in Caller,
         \/ \E k \in Key : Acquire(p, k)
         \/ AcquireRefused(p)
         \/ GiveUp(p)
         \/ Forget(p)
         \/ CtxEnds(p)
  PROVE  IInv'
<1> USE DEF IInv
<1>1. TypeOK'
  <2>1. ASSUME NEW k \in Key, Acquire(p, k) PROVE TypeOK'
    BY <2>1, Zenon DEF TypeOK, Stage, Acquire
  <2>2. CASE AcquireRefused(p) \/ GiveUp(p)
    BY <2>2, Zenon DEF TypeOK, Stage, AcquireRefused, GiveUp
  <2>3. CASE Forget(p)
    BY <2>3, Zenon DEF TypeOK, Stage, Forget
  <2>4. CASE CtxEnds(p)
    BY <2>4, Zenon DEF TypeOK, CtxEnds
  <2> QED
    BY <2>1, <2>2, <2>3, <2>4, Zenon
<1>2. CallerInv'
  BY LimiterAssumption DEF TypeOK, CallerInv, Acquire, AcquireRefused, GiveUp, Forget, CtxEnds
<1>3. TableInv'
  BY Zenon DEF TableInv, Acquire, AcquireRefused, GiveUp, Forget, CtxEnds
<1>4. \A k \in Key : Counted(k)' = Counted(k) /\ Holding(k)' = Holding(k)
  BY DEF TypeOK, Counted, Holding, Acquire, AcquireRefused, GiveUp, Forget, CtxEnds
<1>5. UNCHANGED <<slots, sem, refs>>
  BY Zenon DEF Acquire, AcquireRefused, GiveUp, Forget, CtxEnds
<1>6. CountInv'
  BY <1>4, <1>5, CountsKept, Zenon
<1> QED
  BY <1>1, <1>2, <1>3, <1>6, Zenon

(* reserve counts p at the slot of its key, a fresh slot if there was none. *)
LEMMA ReserveInv ==
  ASSUME IInv, NEW p \in Caller, reserve(p)
  PROVE  IInv'
<1> USE DEF IInv
<1> DEFINE k0 == key[p]
<1>1. k0 \in Key /\ pc[p] = "reserve" /\ ptr[p] = NoSlot
  BY Zenon DEF reserve, CallerInv
<1>2. \A k \in Key : /\ Counted(k)' = IF k = k0 THEN Counted(k) \cup {p} ELSE Counted(k)
                     /\ Holding(k)' = Holding(k)
                     /\ p \notin Counted(k)
  BY <1>1 DEF TypeOK, Counted, Holding, reserve
<1>3. \A k \in Key : /\ Cardinality(Counted(k))' = IF k = k0 THEN Cardinality(Counted(k)) + 1
                                                              ELSE Cardinality(Counted(k))
                     /\ Cardinality(Holding(k))' = Cardinality(Holding(k))
  BY <1>2, CallersFinite, FS_AddElement
<1>4. CASE slots[k0] # NoSlot
  <2>1. slots[k0] \in SlotId /\ UNCHANGED <<slots, sem, key>>
        /\ refs' = [refs EXCEPT ![slots[k0]] = @ + 1]
        /\ ptr' = [ptr EXCEPT ![p] = slots[k0]]
    BY <1>1, <1>4, Zenon DEF reserve, TypeOK
  <2>2. TypeOK'
    BY <2>1 DEF reserve, TypeOK, Stage
  <2>3. CallerInv'
    BY <1>1, <2>1 DEF reserve, TypeOK, CallerInv
  <2>4. TableInv'
    BY <2>1, Zenon DEF TableInv
  <2>5. CountInv'
    BY <1>1, <1>2, <1>3, <2>1 DEF CountInv, TableInv, TypeOK, NewKeyed
  <2> QED
    BY <2>2, <2>3, <2>4, <2>5, Zenon
<1>5. CASE slots[k0] = NoSlot
  <2>1. PICK s \in Unreferenced :
               /\ slots' = [slots EXCEPT ![k0] = s]
               /\ sem'   = [sem EXCEPT ![s] = 0]
               /\ refs'  = [refs EXCEPT ![s] = 1]
               /\ ptr'   = [ptr EXCEPT ![p] = s]
    BY <1>5, Zenon DEF reserve
  <2>2. s \in SlotId /\ s # NoSlot
        /\ (\A k \in Key : slots[k] # s) /\ (\A q \in Caller : ptr[q] # s)
    BY LimiterAssumption, Zenon DEF Unreferenced
  <2>a. pc' = [pc EXCEPT ![p] = "select"] /\ UNCHANGED <<key, once, ctx>>
    BY Zenon DEF reserve
  <2>3. TypeOK'
    BY <1>1, <2>1, <2>2, <2>a DEF TypeOK, Stage
  <2>4. \A q \in Caller : pc[q] \in {"select", "held", "drop", "abandon"} => key[q] # k0
    BY <1>5, LimiterAssumption, Zenon DEF CallerInv
  <2>5. CallerInv'
    <3> SUFFICES ASSUME NEW q \in Caller PROVE CallerInv!(q)'
      BY Zenon DEF CallerInv
    <3>1. CASE q = p
      BY <1>1, <2>1, <2>2, <2>a, <3>1, Zenon DEF TypeOK, CallerInv
    <3>2. CASE q # p
      <4>1. pc'[q] = pc[q] /\ ptr'[q] = ptr[q] /\ key'[q] = key[q] /\ once'[q] = once[q]
        BY <2>1, <2>a, <3>2, Zenon DEF TypeOK
      <4>2. key[q] \in Key /\ key[q] # k0 => slots'[key[q]] = slots[key[q]]
        BY <2>1, Zenon DEF TypeOK
      <4> QED
        BY <2>4, <4>1, <4>2, Zenon DEF CallerInv
    <3> QED
      BY <3>1, <3>2, Zenon
  <2>6. TableInv'
    BY <1>1, <2>1, <2>2, Zenon DEF TypeOK, TableInv
  <2>7. Counted(k0) = {} /\ Holding(k0) = {}
    BY <2>4, Zenon DEF Counted, Holding
  <2>8. Cardinality(Counted(k0)) = 0 /\ Cardinality(Holding(k0)) = 0
    BY <2>7, FS_EmptySet, Zenon
  <2>9. /\ slots'[k0] = s /\ refs'[s] = 1 /\ sem'[s] = 0
        /\ \A k \in Key : k # k0 => slots'[k] = slots[k] /\ slots[k] # s
        /\ \A k \in Key : slots[k] # NoSlot => /\ refs'[slots[k]] = refs[slots[k]]
                                               /\ sem'[slots[k]] = sem[slots[k]]
    BY <1>1, <2>1, <2>2, Zenon DEF TypeOK
  <2>10. CountInv'
    BY <1>2, <1>3, <2>8, <2>9, CapPositive DEF CountInv, NewKeyed
  <2> QED
    BY <2>3, <2>5, <2>6, <2>10, Zenon
<1> QED
  BY <1>4, <1>5, Zenon

(* Taking a token: the channel has room, so the cap still holds. *)
LEMMA TakeSlotInv ==
  ASSUME IInv, NEW p \in Caller, TakeSlot(p)
  PROVE  IInv'
<1> USE DEF IInv
<1> DEFINE k0 == key[p]
<1>1. k0 \in Key /\ pc[p] = "select" /\ ptr[p] = slots[k0] /\ slots[k0] \in SlotId /\ slots[k0] # NoSlot
  BY LimiterAssumption, Zenon DEF TakeSlot, CallerInv
<1>2. \A k \in Key : /\ Holding(k)' = IF k = k0 THEN Holding(k) \cup {p} ELSE Holding(k)
                     /\ Counted(k)' = Counted(k)
                     /\ p \notin Holding(k)
  BY <1>1, Zenon DEF TypeOK, Counted, Holding, TakeSlot
<1>3. \A k \in Key : Cardinality(Holding(k))' = IF k = k0 THEN Cardinality(Holding(k)) + 1
                                                              ELSE Cardinality(Holding(k))
  BY <1>2, CallersFinite, FS_AddElement
<1>4. TypeOK'
  BY <1>1 DEF TakeSlot, TypeOK, Stage
<1>5. CallerInv'
  BY DEF TakeSlot, TypeOK, CallerInv
<1>6. TableInv'
  BY Zenon DEF TakeSlot, TableInv
<1>7. CountInv'
  BY <1>1, <1>2, <1>3, CapPositive DEF TakeSlot, CountInv, TableInv, TypeOK, NewKeyed
<1> QED
  BY <1>4, <1>5, <1>6, <1>7, Zenon

(* The variables of the invariant are those of the specification. *)
LEMMA StutterInv ==
  ASSUME IInv, UNCHANGED vars
  PROVE  IInv'
<1> USE DEF IInv, vars
<1>1. TypeOK'
  BY Zenon DEF TypeOK
<1>2. CallerInv'
  BY Zenon DEF CallerInv
<1>3. TableInv'
  BY Zenon DEF TableInv
<1>4. CountInv'
  BY CountsKept, Zenon DEF Counted, Holding
<1> QED
  BY <1>1, <1>2, <1>3, <1>4, Zenon

(* The release function: the first call gives p's own token back. *)
LEMMA CallReleaseInv ==
  ASSUME IInv, NEW p \in Caller, CallRelease(p)
  PROVE  IInv'
<1> USE DEF IInv
<1>1. CASE once[p]
  <2>1. UNCHANGED vars
    BY <1>1, Zenon DEF CallRelease, vars
  <2> QED
    BY <2>1, StutterInv, Zenon
<1>2. CASE ~once[p]
  <2> DEFINE k0 == key[p]
  <2>1. k0 \in Key /\ pc[p] = "held" /\ ptr[p] = slots[k0] /\ slots[k0] \in SlotId /\ slots[k0] # NoSlot
    BY <1>2, LimiterAssumption, Zenon DEF CallRelease, CallerInv
  <2>2. \A k \in Key : /\ Holding(k)' = IF k = k0 THEN Holding(k) \ {p} ELSE Holding(k)
                       /\ Counted(k)' = Counted(k)
                       /\ p \in Holding(k0)
    BY <1>2, <2>1 DEF TypeOK, Counted, Holding, CallRelease
  <2>3. \A k \in Key : Cardinality(Holding(k))' = IF k = k0 THEN Cardinality(Holding(k)) - 1
                                                                ELSE Cardinality(Holding(k))
    BY <2>1, <2>2, CallersFinite, FS_RemoveElement
  <2>a. /\ sem[slots[k0]] > 0
        /\ sem' = [sem EXCEPT ![slots[k0]] = @ - 1]
        /\ pc' = [pc EXCEPT ![p] = "drop"]
        /\ once' = [once EXCEPT ![p] = TRUE]
        /\ UNCHANGED <<slots, refs, key, ptr, ctx>>
    BY <1>2, <2>1, Zenon DEF CallRelease
  <2>4. TypeOK'
    BY <2>1, <2>a DEF TypeOK, Stage
  <2>5. CallerInv'
    BY <1>2 DEF CallRelease, TypeOK, CallerInv
  <2>6. TableInv'
    BY <1>2, Zenon DEF CallRelease, TableInv
  <2>7. CountInv'
    BY <1>2, <2>1, <2>2, <2>3, CapPositive, CallersFinite
       DEF CallRelease, CountInv, TableInv, TypeOK, NewKeyed
  <2> QED
    BY <2>4, <2>5, <2>6, <2>7, Zenon
<1> QED
  BY <1>1, <1>2, Zenon

(* release looks the slot up by key: it is the one p reserved, and the entry *)
(* is deleted exactly when p was the last goroutine counted.                 *)
LEMMA ReleaseInv ==
  ASSUME IInv, NEW p \in Caller, release(p)
  PROVE  IInv'
<1> USE DEF IInv
<1>1. PICK k0 \in Key, s0 \in SlotId :
             /\ key[p] = k0 /\ pc[p] \in {"drop", "abandon"}
             /\ ptr[p] = s0 /\ slots[k0] = s0 /\ s0 # NoSlot
  BY LimiterAssumption DEF release, CallerInv
<1>2. /\ refs' = [refs EXCEPT ![s0] = @ - 1]
      /\ slots' = IF refs[s0] - 1 <= 0 THEN [slots EXCEPT ![k0] = NoSlot] ELSE slots
      /\ UNCHANGED <<sem, once>>
  BY <1>1, Zenon DEF release, DropRef
<1>3. /\ pc'[p] \in {"done", "idle"}
      /\ pc' = [pc EXCEPT ![p] = pc'[p]]
      /\ \A q \in Caller \ {p} : pc'[q] = pc[q] /\ key'[q] = key[q] /\ ptr'[q] = ptr[q]
  BY <1>1, Zenon DEF release, TypeOK
<1>4. \A k \in Key : /\ Counted(k)' = IF k = k0 THEN Counted(k) \ {p} ELSE Counted(k)
                     /\ Holding(k)' = Holding(k)
                     /\ p \in Counted(k0)
  BY <1>1, <1>3 DEF TypeOK, Counted, Holding
<1>5. \A k \in Key : Cardinality(Counted(k))' = IF k = k0 THEN Cardinality(Counted(k)) - 1
                                                           ELSE Cardinality(Counted(k))
  BY <1>1, <1>4, CallersFinite, FS_RemoveElement
<1>6. refs[s0] = Cardinality(Counted(k0)) /\ Cardinality(Counted(k0)) \in Nat
  BY <1>1, CallersFinite, Zenon DEF CountInv
<1>7. refs[s0] - 1 <= 0 <=> Counted(k0)' = {}
  <2>1. Cardinality(Counted(k0))' \in Nat
        /\ (Cardinality(Counted(k0))' = 0 <=> Counted(k0)' = {})
    <3>1. IsFiniteSet(Counted(k0) \ {p})
      BY CallersFinite, FS_RemoveElement, Zenon
    <3>2. Counted(k0)' = Counted(k0) \ {p}
      BY <1>1, <1>4, Zenon
    <3> QED
      BY <3>1, <3>2, FS_CardinalityType, FS_EmptySet, Zenon
  <2> QED
    BY <1>1, <1>5, <1>6, <2>1
<1>8. TypeOK'
  BY <1>1, <1>2 DEF release, TypeOK, Stage
<1>9. CallerInv'
  <2> SUFFICES ASSUME NEW q \in Caller PROVE CallerInv!(q)'
    BY Zenon DEF CallerInv
  <2>1. CASE q = p
    BY <1>1, <1>2, <2>1 DEF release, TypeOK, CallerInv
  <2>2. CASE q # p
    <3>1. pc'[q] = pc[q] /\ ptr'[q] = ptr[q] /\ key'[q] = key[q] /\ once'[q] = once[q]
      BY <1>2, <1>3, <2>2, Zenon
    <3>2. ASSUME pc[q] \in {"select", "held", "drop", "abandon"}
          PROVE  slots'[key[q]] = slots[key[q]]
      <4>1. key[q] \in Key
        BY <3>2, Zenon DEF CallerInv
      <4>2. key[q] = k0 => q \in Counted(k0)'
        BY <2>2, <3>1, <3>2, Zenon DEF Counted
      <4> QED
        BY <1>1, <1>2, <1>7, <4>1, <4>2, Zenon DEF TypeOK
    <3> QED
      BY <3>1, <3>2, Zenon DEF CallerInv
  <2> QED
    BY <2>1, <2>2, Zenon
<1>10. TableInv'
  BY <1>1, <1>2, Zenon DEF TypeOK, TableInv
<1>11. CountInv'
  <2> SUFFICES ASSUME NEW k \in Key, slots'[k] # NoSlot PROVE CountInv!(k)!2'
    BY Zenon DEF CountInv
  <2>1. slots'[k] = slots[k] /\ sem' = sem
    BY <1>1, <1>2, Zenon DEF TypeOK
  <2>2. CASE k = k0
    BY <1>1, <1>2, <1>4, <1>5, <1>6, <1>7, <2>1, <2>2 DEF TypeOK, CountInv, NewKeyed
  <2>3. CASE k # k0
    <3>1. slots[k] # s0 /\ slots[k] \in SlotId
      BY <1>1, <2>1, <2>3, Zenon DEF TypeOK, TableInv
    <3> QED
      BY <1>1, <1>2, <1>4, <1>5, <2>1, <2>3, <3>1, Zenon DEF TypeOK, CountInv, NewKeyed
  <2> QED
    BY <2>2, <2>3, Zenon
<1> QED
  BY <1>8, <1>9, <1>10, <1>11, Zenon

(* Every step of the limiter preserves the inductive invariant. *)
LEMMA NextInv == IInv /\ [Next]_vars => IInv'
<1> SUFFICES ASSUME IInv, [Next]_vars PROVE IInv'
  BY Zenon
<1>1. CASE UNCHANGED vars
  BY <1>1, StutterInv, Zenon
<1>2. ASSUME NEW p \in Caller,
             \/ \E k \in Key : Acquire(p, k)
             \/ AcquireRefused(p) \/ GiveUp(p) \/ Forget(p) \/ CtxEnds(p)
      PROVE  IInv'
  BY <1>2, CallerStepsInv, Zenon
<1>3. ASSUME NEW p \in Caller, reserve(p) PROVE IInv'
  BY <1>3, ReserveInv, Zenon
<1>4. ASSUME NEW p \in Caller, TakeSlot(p) PROVE IInv'
  BY <1>4, TakeSlotInv, Zenon
<1>5. ASSUME NEW p \in Caller, CallRelease(p) PROVE IInv'
  BY <1>5, CallReleaseInv, Zenon
<1>6. ASSUME NEW p \in Caller, release(p) PROVE IInv'
  BY <1>6, ReleaseInv, Zenon
<1> QED
  BY <1>1, <1>2, <1>3, <1>4, <1>5, <1>6, Zenon DEF Next

(* The inductive invariant holds in every reachable state of the limiter. *)
THEOREM LimiterInvariant == Spec => []IInv
BY InitInv, NextInv, PTL DEF Spec

(* The properties the runs check follow from the inductive invariant. *)
LEMMA InvSafety == IInv => CapHolds /\ RefsExact /\ NoIdleEntry /\ ReleaseNeverBlocks
<1> SUFFICES ASSUME IInv PROVE CapHolds /\ RefsExact /\ NoIdleEntry /\ ReleaseNeverBlocks
  BY Zenon
<1> USE DEF IInv
<1>1. CapHolds
  <2> SUFFICES ASSUME NEW k \in Key PROVE Cardinality(Holding(k)) <= NewKeyed
    BY Zenon DEF CapHolds
  <2>1. CASE slots[k] # NoSlot
    BY <2>1, Zenon DEF CountInv
  <2>2. CASE slots[k] = NoSlot
    <3>1. Holding(k) = {}
      BY <2>2, LimiterAssumption, Zenon DEF Holding, CallerInv
    <3> QED
      BY <3>1, FS_EmptySet, CapPositive
  <2> QED
    BY <2>1, <2>2, Zenon
<1>2. RefsExact
  BY LimiterAssumption DEF RefsExact, CountInv, CallerInv, Counted
<1>3. NoIdleEntry
  BY Zenon DEF NoIdleEntry, CountInv
<1>4. ReleaseNeverBlocks
  <2> SUFFICES ASSUME NEW p \in Caller, pc[p] = "held" PROVE sem[ptr[p]] > 0
    BY Zenon DEF ReleaseNeverBlocks
  <2>1. /\ key[p] \in Key /\ ptr[p] = slots[key[p]] /\ slots[key[p]] # NoSlot
        /\ p \in Holding(key[p])
    BY LimiterAssumption, Zenon DEF CallerInv, Holding
  <2>2. Cardinality(Holding(key[p])) \in Nat /\ Cardinality(Holding(key[p])) # 0
    BY <2>1, CallersFinite, FS_EmptySet, Zenon
  <2> QED
    BY <2>1, <2>2 DEF CountInv
<1> QED
  BY <1>1, <1>2, <1>3, <1>4, Zenon

(* keyed.go:13 for every number of callers, keys and every limit: no more than *)
(* the cap hold a key at once.                                                 *)
THEOREM LimiterCap == Spec => []CapHolds
BY LimiterInvariant, InvSafety, PTL

(* keyed.go:40-42: the reference count of an entry is exact and nobody waits on *)
(* a slot that has left the table.                                              *)
THEOREM LimiterRefs == Spec => []RefsExact
BY LimiterInvariant, InvSafety, PTL

(* keyed.go:29-31: a key nobody holds or awaits has no entry. *)
THEOREM LimiterNoIdleEntry == Spec => []NoIdleEntry
BY LimiterInvariant, InvSafety, PTL

(* keyed.go:82: a release function never blocks on its receive. *)
THEOREM LimiterReleaseNeverBlocks == Spec => []ReleaseNeverBlocks
BY LimiterInvariant, InvSafety, PTL
-----------------------------------------------------------------------------
(* Each step of the limiter is a step of the per-key semaphores or a stutter. *)
LEMMA StepRefines == IInv /\ [Next]_vars => [Semaphore!SemNext]_(Semaphore!semVars)
<1> SUFFICES ASSUME IInv, [Next]_vars PROVE [Semaphore!SemNext]_(Semaphore!semVars)
  BY Zenon
<1> USE DEF IInv
<1> DEFINE F == [k \in Key |-> NewKeyed - Cardinality(Holding(k))]
           W == [p \in Caller |-> IF pc[p] = "select" THEN key[p] ELSE NoKey]
           H == [p \in Caller |-> IF pc[p] = "held" THEN key[p] ELSE NoKey]
<1>n. NewKeyed' = NewKeyed
  BY Zenon DEF NewKeyed
<1>h. ASSUME \A k \in Key : Holding(k)' = Holding(k) PROVE F' = F
  BY <1>h, Zenon DEF NewKeyed
<1>1. CASE UNCHANGED vars
  BY <1>1, Zenon DEF vars, Semaphore!semVars, Holding, NewKeyed
<1>2. ASSUME NEW p \in Caller,
             \/ \E k \in Key : Acquire(p, k)
             \/ AcquireRefused(p) \/ Forget(p) \/ CtxEnds(p) \/ release(p)
      PROVE  UNCHANGED Semaphore!semVars
  <2>1. \A q \in Caller : \/ pc'[q] = pc[q] /\ key'[q] = key[q]
                          \/ {pc[q], pc'[q]} \cap {"select", "held"} = {}
    BY <1>2, Zenon DEF Acquire, AcquireRefused, Forget, CtxEnds, release, TypeOK
  <2>2. UNCHANGED W /\ UNCHANGED H
    BY <2>1, Zenon
  <2>3. \A k \in Key : Holding(k)' = Holding(k)
    BY <2>1, Zenon DEF Holding
  <2> QED
    BY <2>2, <2>3, <1>h, Zenon DEF Semaphore!semVars
<1>3. ASSUME NEW p \in Caller, reserve(p) PROVE Semaphore!SemNext
  <2>1. PICK k \in Key : /\ key[p] = k /\ pc[p] = "reserve"
                         /\ pc' = [pc EXCEPT ![p] = "select"] /\ key' = key
    BY <1>3, LimiterAssumption, Zenon DEF reserve, CallerInv
  <2>2. W[p] = NoKey /\ H[p] = NoKey /\ W' = [W EXCEPT ![p] = k] /\ H' = H
    BY <2>1, Zenon DEF TypeOK
  <2>3. F' = F
    BY <2>1, <1>h, Zenon DEF Holding, TypeOK
  <2>4. Semaphore!Queue(p, k)
    BY <2>2, <2>3, Zenon DEF Semaphore!Queue
  <2> QED
    BY <2>1, <2>4, Zenon DEF Semaphore!SemNext
<1>4. ASSUME NEW p \in Caller, TakeSlot(p) PROVE Semaphore!SemNext
  <2>1. PICK k \in Key :
               /\ key[p] = k /\ k # NoKey /\ pc[p] = "select"
               /\ pc' = [pc EXCEPT ![p] = "held"] /\ key' = key
               /\ ptr[p] = slots[k] /\ slots[k] # NoSlot /\ sem[ptr[p]] < NewKeyed
    BY <1>4, LimiterAssumption, Zenon DEF TakeSlot, CallerInv
  <2>2. W[p] = k /\ W' = [W EXCEPT ![p] = NoKey] /\ H' = [H EXCEPT ![p] = k]
    BY <2>1, Zenon DEF TypeOK
  <2>3. F[k] > 0
    BY <2>1, CapPositive, CallersFinite DEF CountInv
  <2>4. \A j \in Key : /\ Holding(j)' = IF j = k THEN Holding(j) \cup {p} ELSE Holding(j)
                       /\ p \notin Holding(j)
    BY <2>1, Zenon DEF Holding, TypeOK
  <2>5. \A j \in Key : Cardinality(Holding(j))' = IF j = k THEN Cardinality(Holding(j)) + 1
                                                           ELSE Cardinality(Holding(j))
    BY <2>4, CallersFinite, FS_AddElement
  <2>6. F' = [F EXCEPT ![k] = @ - 1]
    <3>1. \A j \in Key : Cardinality(Holding(j)) \in Nat
      BY CallersFinite, Zenon
    <3>2. \A j \in Key : F'[j] = IF j = k THEN F[j] - 1 ELSE F[j]
      BY <2>5, <3>1, <1>n, CapPositive
    <3> QED
      BY <3>2, Zenon
  <2>7. Semaphore!EnterKey(p, k)
    BY <2>2, <2>3, <2>6, Zenon DEF Semaphore!EnterKey
  <2> QED
    BY <2>7, Zenon DEF Semaphore!SemNext
<1>5. ASSUME NEW p \in Caller, GiveUp(p) PROVE Semaphore!SemNext
  <2>1. key[p] # NoKey /\ pc[p] = "select" /\ pc' = [pc EXCEPT ![p] = "abandon"] /\ key' = key
    BY <1>5, LimiterAssumption, Zenon DEF GiveUp, CallerInv
  <2>2. W[p] = key[p] /\ W' = [W EXCEPT ![p] = NoKey] /\ H' = H
    BY <2>1, Zenon DEF TypeOK
  <2>3. F' = F
    BY <2>1, <1>h, Zenon DEF Holding, TypeOK
  <2>4. Semaphore!StopQueueing(p)
    BY <2>1, <2>2, <2>3, Zenon DEF Semaphore!StopQueueing
  <2> QED
    BY <2>4, Zenon DEF Semaphore!SemNext
<1>6. ASSUME NEW p \in Caller, CallRelease(p) PROVE [Semaphore!SemNext]_(Semaphore!semVars)
  <2>1. CASE once[p]
    BY <1>6, <2>1, Zenon DEF CallRelease, Semaphore!semVars, Holding, NewKeyed
  <2>2. CASE ~once[p]
    <3>1. PICK k \in Key : /\ key[p] = k /\ k # NoKey /\ pc[p] = "held"
                           /\ pc' = [pc EXCEPT ![p] = "drop"] /\ key' = key
      BY <1>6, <2>2, LimiterAssumption, Zenon DEF CallRelease, CallerInv
    <3>2. H[p] = k /\ H' = [H EXCEPT ![p] = NoKey] /\ W' = W
      BY <3>1, Zenon DEF TypeOK
    <3>3. /\ \A j \in Key : Holding(j)' = IF j = k THEN Holding(j) \ {p} ELSE Holding(j)
          /\ p \in Holding(k)
      BY <3>1, Zenon DEF Holding, TypeOK
    <3>4. \A j \in Key : Cardinality(Holding(j))' = IF j = k THEN Cardinality(Holding(j)) - 1
                                                             ELSE Cardinality(Holding(j))
      BY <3>3, CallersFinite, FS_RemoveElement, Zenon
    <3>5. F' = [F EXCEPT ![k] = @ + 1]
      <4>1. \A j \in Key : Cardinality(Holding(j)) \in Nat
        BY CallersFinite, Zenon
      <4>2. \A j \in Key : F'[j] = IF j = k THEN F[j] + 1 ELSE F[j]
        BY <3>4, <4>1, <1>n, CapPositive
      <4> QED
        BY <4>2, Zenon
    <3>6. Semaphore!LeaveKey(p, k)
      BY <3>2, <3>5, Zenon DEF Semaphore!LeaveKey
    <3> QED
      BY <3>6, Zenon DEF Semaphore!SemNext
  <2> QED
    BY <2>1, <2>2, Zenon
<1> QED
  BY <1>1, <1>2, <1>3, <1>4, <1>5, <1>6, Zenon DEF Next

(* keyed.go implements one counting semaphore per key: its slot table, pointers *)
(* and reference counts are never visible to its callers.                       *)
THEOREM LimiterRefinement == Spec => ImplementsSemaphore
<1>1. Init => Semaphore!SemInit
  <2> SUFFICES ASSUME Init PROVE Semaphore!SemInit
    BY Zenon
  <2>1. \A k \in Key : Holding(k) = {}
    BY Zenon DEF Init, Holding
  <2>2. \A k \in Key : NewKeyed - Cardinality(Holding(k)) = NewKeyed
    BY <2>1, FS_EmptySet, CapPositive
  <2> QED
    BY <2>2, Zenon DEF Init, Semaphore!SemInit
<1> QED
  BY <1>1, LimiterInvariant, StepRefines, PTL DEF Spec, ImplementsSemaphore, Semaphore!SemSpec
=============================================================================
