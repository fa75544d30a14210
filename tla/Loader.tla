------------------------------- MODULE Loader -------------------------------
(***************************************************************************)
(* cache/loader.go over cache/memory.go (or a cache that may fail, like    *)
(* cache/redis.go): callers of Loader.Get look a key up, join or lead a    *)
(* singleflight on a miss, and the leader looks again, loads and stores.   *)
(* The source of truth is a version number per key that writers advance    *)
(* before they call Invalidate.                                            *)
(***************************************************************************)
EXTENDS Integers, FiniteSets

CONSTANTS
  Caller, Key,
  TTL,         \* ticks an entry lives, 0: for ever
  MaxVersion,  \* bound: writes per key
  CacheFails,  \* TRUE: the cache may fail a Get or a Set
  None

\* What the theorems ask of the constants.
LoaderAssumption ==
  /\ TTL \in Nat /\ MaxVersion \in Nat /\ Key # {}
  /\ None \notin Caller /\ None \notin [v : 0..MaxVersion, age : 0..TTL+1]

VARIABLES
  truth,    \* truth[k]: the version the source holds
  entry,    \* entry[k]: the cached version and its age, or None
  flight,   \* flight[k]: the caller that leads the flight, or None
  joined,   \* joined[k]: the callers that wait for it
  pc, key,  \* where each caller is, and its key
  loaded,   \* what a leader has loaded; what a caller has been given
  since,    \* the floor of its key when the caller began
  floor,    \* floor[k]: the truth at the last Invalidate of k
  calm      \* calm[k]: the same, for an Invalidate that met no flight

vars == <<truth, entry, flight, joined, pc, key, loaded, since, floor, calm>>

Init ==
  /\ truth = [k \in Key |-> 0]
  /\ entry = [k \in Key |-> None]
  /\ flight = [k \in Key |-> None]
  /\ joined = [k \in Key |-> {}]
  /\ pc = [c \in Caller |-> "idle"]
  /\ key = [c \in Caller |-> CHOOSE k \in Key : TRUE]
  /\ loaded = [c \in Caller |-> None]
  /\ since = [c \in Caller |-> [floor |-> 0, calm |-> 0]]
  /\ floor = [k \in Key |-> 0] /\ calm = [k \in Key |-> 0]

Expired(k) == TTL > 0 /\ entry[k] # None /\ entry[k].age > TTL

Goto(c, stage) == pc' = [pc EXCEPT ![c] = stage]

-----------------------------------------------------------------------------
(* Get                                                                     *)

Get(c, k) ==
  /\ pc[c] \in {"idle", "done"}
  /\ Goto(c, "first")
  /\ key' = [key EXCEPT ![c] = k]
  /\ loaded' = [loaded EXCEPT ![c] = None]
  /\ since' = [since EXCEPT ![c] = [floor |-> floor[k], calm |-> calm[k]]]
  /\ UNCHANGED <<truth, entry, flight, joined, floor, calm>>

\* A lookup that finds a live entry ends the call, or the flight.
Hit(c) ==
  /\ pc[c] \in {"first", "second"}
  /\ entry[key[c]] # None /\ ~Expired(key[c])
  /\ loaded' = [loaded EXCEPT ![c] = entry[key[c]].v]
  /\ Goto(c, IF pc[c] = "first" THEN "done" ELSE "land")
  /\ UNCHANGED <<truth, entry, flight, joined, key, since, floor, calm>>

Miss(c) ==
  /\ pc[c] \in {"first", "second"}
  /\ entry[key[c]] = None \/ Expired(key[c]) \/ CacheFails
  /\ Goto(c, IF Expired(key[c]) THEN (IF pc[c] = "first" THEN "evict1" ELSE "evict2")
             ELSE IF pc[c] = "first" THEN "join" ELSE "load")
  /\ UNCHANGED <<truth, entry, flight, joined, key, loaded, since, floor, calm>>

\* A fault of Evict: no second look under the write lock.
EvictBlindly(c) ==
  /\ pc[c] \in {"evict1", "evict2"}
  /\ entry' = [entry EXCEPT ![key[c]] = None]
  /\ Goto(c, IF pc[c] = "evict1" THEN "join" ELSE "load")
  /\ UNCHANGED <<truth, flight, joined, key, loaded, since, floor, calm>>

\* MemoryCache.get, under the write lock: the entry may be a fresh one by now.
Evict(c) ==
  /\ pc[c] \in {"evict1", "evict2"}
  /\ entry' = [entry EXCEPT ![key[c]] = IF Expired(key[c]) THEN None ELSE @]
  /\ Goto(c, IF pc[c] = "evict1" THEN "join" ELSE "load")
  /\ UNCHANGED <<truth, flight, joined, key, loaded, since, floor, calm>>

\* singleflight.Do: lead a flight, or wait for the one there is.
Do(c) ==
  LET k == key[c] IN
  /\ pc[c] = "join"
  /\ IF flight[k] = None
       THEN /\ flight' = [flight EXCEPT ![k] = c]
            /\ Goto(c, "second")
            /\ UNCHANGED joined
       ELSE /\ joined' = [joined EXCEPT ![k] = @ \cup {c}]
            /\ Goto(c, "wait")
            /\ UNCHANGED flight
  /\ UNCHANGED <<truth, entry, key, loaded, since, floor, calm>>

\* load reads the source, or fails (the leader's context may be cancelled).
Load(c) ==
  /\ pc[c] = "load"
  /\ \/ loaded' = [loaded EXCEPT ![c] = truth[key[c]]] /\ Goto(c, "store")
     \/ loaded' = [loaded EXCEPT ![c] = None] /\ Goto(c, "land")
  /\ UNCHANGED <<truth, entry, flight, joined, key, since, floor, calm>>

\* The value goes out even when storing it fails.
Store(c) ==
  /\ pc[c] = "store"
  /\ \/ entry' = [entry EXCEPT ![key[c]] = [v |-> loaded[c], age |-> 0]]
     \/ CacheFails /\ UNCHANGED entry
  /\ Goto(c, "land")
  /\ UNCHANGED <<truth, flight, joined, key, loaded, since, floor, calm>>

\* A fault of Land: the callers that wait are not told.
LandAlone(c) ==
  /\ pc[c] = "land"
  /\ flight' = [flight EXCEPT ![key[c]] = None]
  /\ Goto(c, "done")
  /\ UNCHANGED <<truth, entry, joined, key, loaded, since, floor, calm>>

\* The flight ends: its result is everybody's who waited.
Land(c) ==
  LET k == key[c] IN
  /\ pc[c] = "land"
  /\ flight' = [flight EXCEPT ![k] = None]
  /\ joined' = [joined EXCEPT ![k] = {}]
  /\ pc' = [d \in Caller |-> IF d = c \/ d \in joined[k] THEN "done" ELSE pc[d]]
  /\ loaded' = [d \in Caller |-> IF d \in joined[k] THEN loaded[c] ELSE loaded[d]]
  /\ UNCHANGED <<truth, entry, key, since, floor, calm>>

-----------------------------------------------------------------------------
Invalidate(k) ==
  /\ entry' = [entry EXCEPT ![k] = None]
  /\ floor' = [floor EXCEPT ![k] = truth[k]]
  /\ calm' = [calm EXCEPT ![k] = IF flight[k] = None THEN truth[k] ELSE @]
  /\ UNCHANGED <<truth, flight, joined, pc, key, loaded, since>>

\* The source changes.
Write(k) ==
  /\ truth[k] < MaxVersion
  /\ truth' = [truth EXCEPT ![k] = @ + 1]
  /\ UNCHANGED <<entry, flight, joined, pc, key, loaded, since, floor, calm>>

Tick ==
  /\ TTL > 0
  /\ \E k \in Key : entry[k] # None /\ ~Expired(k)
  /\ entry' = [k \in Key |-> IF entry[k] = None \/ Expired(k) THEN entry[k]
                             ELSE [entry[k] EXCEPT !.age = @ + 1]]
  /\ UNCHANGED <<truth, flight, joined, pc, key, loaded, since, floor, calm>>

CallerStep(c) ==
  Hit(c) \/ Miss(c) \/ Evict(c) \/ Do(c) \/ Load(c) \/ Store(c) \/ Land(c)

Next ==
  \/ \E c \in Caller : CallerStep(c) \/ \E k \in Key : Get(c, k)
  \/ \E k \in Key : Invalidate(k) \/ Write(k)
  \/ Tick

Spec == Init /\ [][Next]_vars

-----------------------------------------------------------------------------
TypeOK ==
  /\ truth \in [Key -> 0..MaxVersion]
  /\ entry \in [Key -> {None} \cup [v : 0..MaxVersion, age : 0..TTL+1]]
  /\ flight \in [Key -> Caller \cup {None}]
  /\ joined \in [Key -> SUBSET Caller]
  /\ pc \in [Caller -> {"idle", "first", "second", "evict1", "evict2", "join", "wait",
                        "load", "store", "land", "done"}]
  /\ key \in [Caller -> Key]
  /\ loaded \in [Caller -> 0..MaxVersion \cup {None}]
  /\ since \in [Caller -> [floor : 0..MaxVersion, calm : 0..MaxVersion]]
  /\ floor \in [Key -> 0..MaxVersion] /\ calm \in [Key -> 0..MaxVersion]

Flying(c) == pc[c] \in {"second", "evict2", "load", "store", "land"}

\* loader.go:90-91: "Concurrent misses on one key run load once".
OneLoad ==
  \A c, d \in Caller : Flying(c) /\ Flying(d) /\ key[c] = key[d] => c = d

\* loader.go:90-91, singleflight: whoever waits, waits for a flight that is on
\* its way and for its own key.
WaitersHaveFlight ==
  \A c \in Caller : pc[c] = "wait" => 
    \E k \in Key : k = key[c] /\ c \in joined[k] /\ flight[k] # None /\ Flying(flight[k])

\* memory.go:43-51: a caller that met an expired entry never throws away the
\* fresh one that has replaced it since: a live entry goes only by Invalidate.
NoLostRefresh ==
  [][\A k \in Key : entry[k] # None /\ ~Expired(k) /\ entry'[k] = None => Invalidate(k)]_vars

\* loader.go:133: "Invalidate drops the entry for key so the next Get reloads
\* it": a Get that begins after Invalidate does not return what was there before.
FreshAfterInvalidate ==
  \A c \in Caller : pc[c] = "done" /\ loaded[c] # None => loaded[c] >= since[c].floor

\* The part of it that holds: an Invalidate that meets no load in flight does
\* put every later Get past the versions before it.
FreshAfterCalmInvalidate ==
  \A c \in Caller : pc[c] = "done" /\ loaded[c] # None => loaded[c] >= since[c].calm

\* loader.go:90-91, 133, memory.go:43-51: concurrent misses on one key run load
\* once, whoever waits, waits for a flight on its way, an Invalidate that meets no
\* load in flight puts every later Get past the versions before it, and a live
\* entry goes only by Invalidate.
LoadsShared ==
  /\ [](TypeOK /\ OneLoad /\ WaitersHaveFlight /\ FreshAfterCalmInvalidate)
  /\ NoLostRefresh
=============================================================================
