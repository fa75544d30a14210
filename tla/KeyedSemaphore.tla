--------------------------- MODULE KeyedSemaphore ---------------------------
(***************************************************************************)
(* What limitx.Keyed promises, without the slot table: one counting        *)
(* semaphore per key.  A caller queues for a key, enters when a permit of  *)
(* that key is free, and gives it back.  It may stop queueing.             *)
(***************************************************************************)
EXTENDS Integers

CONSTANTS Caller, Key, Cap, NoKey

VARIABLES free,     \* free[k]: permits of k nobody holds
          waiting,  \* waiting[p]: the key p queues for, or NoKey
          inside    \* inside[p]: the key whose permit p holds, or NoKey

semVars == <<free, waiting, inside>>

SemInit ==
  /\ free    = [k \in Key |-> Cap]
  /\ waiting = [p \in Caller |-> NoKey]
  /\ inside  = [p \in Caller |-> NoKey]

Queue(p, k) ==
  /\ waiting[p] = NoKey /\ inside[p] = NoKey
  /\ waiting' = [waiting EXCEPT ![p] = k]
  /\ UNCHANGED <<free, inside>>

StopQueueing(p) ==
  /\ waiting[p] # NoKey
  /\ waiting' = [waiting EXCEPT ![p] = NoKey]
  /\ UNCHANGED <<free, inside>>

EnterKey(p, k) ==
  /\ waiting[p] = k
  /\ free[k] > 0
  /\ free'    = [free EXCEPT ![k] = @ - 1]
  /\ inside'  = [inside EXCEPT ![p] = k]
  /\ waiting' = [waiting EXCEPT ![p] = NoKey]

LeaveKey(p, k) ==
  /\ inside[p] = k
  /\ free'   = [free EXCEPT ![k] = @ + 1]
  /\ inside' = [inside EXCEPT ![p] = NoKey]
  /\ UNCHANGED waiting

SemNext ==
  \E p \in Caller :
    \/ StopQueueing(p)
    \/ \E k \in Key : Queue(p, k) \/ EnterKey(p, k) \/ LeaveKey(p, k)

SemSpec == SemInit /\ [][SemNext]_semVars
=============================================================================
