------------------------------- MODULE Outbox -------------------------------
(***************************************************************************)
(* outbox/: Enqueue writes a row in the caller's transaction and nudges    *)
(* the relay of its process; each relay drains pending rows to the broker, *)
(* marks them published, counts failures and quarantines, and prunes.      *)
(* Locking selects the path of PublishPending: one transaction per pass    *)
(* with FOR UPDATE SKIP LOCKED, or autocommitted single writes.            *)
(*                                                                         *)
(* Faults (crashes, failing database calls, broker errors of healthy       *)
(* messages, worker shutdowns) are bounded by MaxFaults.                   *)
(***************************************************************************)
EXTENDS Integers, FiniteSets

CONSTANTS
  Relay,        \* processes, each with an Enqueuer and a relay worker
  MaxId,        \* bound: rows ever enqueued; ids are 1..MaxId
  BatchSize,    \* WithBatchSize
  MaxAttempts,  \* WithMaxAttempts; 0 retries forever
  Retention,    \* TRUE when WithRetention is set
  Locking,      \* dialectSupportsLocking
  Poison,       \* ids whose publish always fails
  MaxFaults,    \* bound on faults
  CountCap      \* attempts and failures are counted up to this bound

Id == 1..MaxId

ASSUME OutboxAssumption ==
  /\ MaxId \in Nat
  /\ BatchSize \in Nat \ {0}
  /\ MaxAttempts \in Nat
  /\ CountCap \in Nat \ {0} /\ CountCap >= MaxAttempts
  /\ Retention \in BOOLEAN /\ Locking \in BOOLEAN
  /\ Poison \subseteq Id
  /\ MaxFaults \in Nat
  \* relay.go:27-29: without SKIP LOCKED only one relay may run
  /\ ~Locking => \A q, r \in Relay : q = r

VARIABLES
  \* the table, as committed
  nextId,    \* the next autoincrement value
  st,        \* st[i]: "none", "open" (inserted, not committed), "aborted",
             \*        "pending", "published", "failed", "gone" (pruned)
  attempts,  \* the Attempts column
  aged,      \* rows published longer ago than the retention
  \* the broker
  copies,    \* copies[i]: times the broker stored message i
  \* each relay process
  pc,        \* where the worker is
  notify,    \* notify[r]: the depth-1 wake-up channel holds a token
  stopping,  \* stopping[r]: the worker's context is cancelled
  claim,     \* claim[r]: rows of the current pass, locked if Locking
  todo,      \* todo[r]: rows of the pass not handled yet
  seen,      \* seen[r][i]: Attempts as read by the pass
  marked,    \* marked[r]: uncommitted published_at writes
  recorded,  \* recorded[r]: uncommitted failure records
  \* history
  failures,  \* failures[i]: publish calls for i that returned an error
  excuse,    \* excuse[i]: copies whose mark was lost, or whose publish
             \*            stored the message and still returned an error
  faults

table == <<nextId, st, attempts, aged>>
pass  == <<claim, todo, seen, marked, recorded>>
ghost == <<failures, excuse>>
vars  == <<table, copies, pc, notify, stopping, pass, ghost, faults>>

Stage == {"pass", "drain", "mark", "record", "commit", "prune", "wait", "stopped"}

Bump(n) == IF n < CountCap THEN n + 1 ELSE n

Init ==
  /\ nextId = 1
  /\ st = [i \in Id |-> "none"]
  /\ attempts = [i \in Id |-> 0]
  /\ aged = {}
  /\ copies = [i \in Id |-> 0]
  /\ pc = [r \in Relay |-> "pass"]
  /\ notify = [r \in Relay |-> FALSE]
  /\ stopping = [r \in Relay |-> FALSE]
  /\ claim = [r \in Relay |-> {}]
  /\ todo = [r \in Relay |-> {}]
  /\ seen = [r \in Relay |-> [i \in Id |-> 0]]
  /\ marked = [r \in Relay |-> {}]
  /\ recorded = [r \in Relay |-> {}]
  /\ failures = [i \in Id |-> 0]
  /\ excuse = [i \in Id |-> 0]
  /\ faults = 0

(* A call that fails: because it had to, or as one more fault. *)
Failing(hadTo) ==
  IF hadTo THEN UNCHANGED faults
           ELSE faults < MaxFaults /\ faults' = faults + 1
-----------------------------------------------------------------------------
(* Enqueue: the row is inserted in the caller's transaction, and the relay *)
(* of this process is nudged before that transaction commits.              *)
Enqueue(r) ==
  /\ nextId \in Id
  /\ nextId' = nextId + 1
  /\ st' = [st EXCEPT ![nextId] = "open"]
  /\ notify' = [notify EXCEPT ![r] = TRUE]
  /\ UNCHANGED <<attempts, aged, copies, pc, stopping, pass, ghost, faults>>

TxCommit(i) ==
  /\ st[i] = "open"
  /\ st' = [st EXCEPT ![i] = "pending"]
  /\ UNCHANGED <<nextId, attempts, aged, copies, pc, notify, stopping, pass, ghost, faults>>

TxAbort(i) ==
  /\ st[i] = "open"
  /\ st' = [st EXCEPT ![i] = "aborted"]
  /\ UNCHANGED <<nextId, attempts, aged, copies, pc, notify, stopping, pass, ghost, faults>>
-----------------------------------------------------------------------------
Claimed == UNION {claim[q] : q \in Relay}

(* The BatchSize smallest ids of S. *)
Oldest(S) == {i \in S : Cardinality({j \in S : j < i}) < BatchSize}

(* Fault: the row locks of other relays are not skipped. *)
PendingIgnoringLocks == {i \in Id : st[i] = "pending"}

(* The WHERE clause of pendingRows, with SKIP LOCKED on the locking path. *)
Pending == {i \in Id : st[i] = "pending" /\ (Locking => i \notin Claimed)}

pendingRows(r) ==
  /\ pc[r] = "pass"
  /\ ~stopping[r]
  /\ pc' = [pc EXCEPT ![r] = "drain"]
  /\ claim' = [claim EXCEPT ![r] = Oldest(Pending)]
  /\ todo' = [todo EXCEPT ![r] = Oldest(Pending)]
  /\ seen' = [seen EXCEPT ![r] = attempts]
  /\ UNCHANGED <<table, copies, notify, stopping, marked, recorded, ghost, faults>>

pendingRowsFails(r) ==
  /\ pc[r] = "pass"
  /\ Failing(stopping[r])
  /\ pc' = [pc EXCEPT ![r] = "prune"]
  /\ UNCHANGED <<table, copies, notify, stopping, pass, ghost>>

Current(r) == CHOOSE i \in todo[r] : \A j \in todo[r] : i <= j

(* publishOne: the three ways Publisher.Publish can end, the message being *)
(* stored or not when it reports an error.                                 *)
PublishOk(r) ==
  /\ pc[r] = "drain" /\ todo[r] # {} /\ ~stopping[r]
  /\ Current(r) \notin Poison
  /\ copies' = [copies EXCEPT ![Current(r)] = @ + 1]
  /\ pc' = [pc EXCEPT ![r] = "mark"]
  /\ UNCHANGED <<table, notify, stopping, pass, ghost, faults>>

PublishErr(r) ==
  /\ pc[r] = "drain" /\ todo[r] # {} /\ ~stopping[r]
  /\ Failing(Current(r) \in Poison)
  /\ failures' = [failures EXCEPT ![Current(r)] = Bump(@)]
  /\ pc' = [pc EXCEPT ![r] = "record"]
  /\ UNCHANGED <<table, copies, notify, stopping, pass, excuse>>

PublishUnsure(r) ==
  /\ pc[r] = "drain" /\ todo[r] # {} /\ ~stopping[r]
  /\ Failing(FALSE)
  /\ copies' = [copies EXCEPT ![Current(r)] = @ + 1]
  /\ failures' = [failures EXCEPT ![Current(r)] = Bump(@)]
  /\ excuse' = [excuse EXCEPT ![Current(r)] = @ + 1]
  /\ pc' = [pc EXCEPT ![r] = "record"]
  /\ UNCHANGED <<table, notify, stopping, pass>>

Handled(r) == todo' = [todo EXCEPT ![r] = @ \ {Current(r)}]

(* The published_at write: inside the transaction, or at once. *)
MarkPublished(r) ==
  /\ pc[r] = "mark" /\ ~stopping[r]
  /\ Handled(r)
  /\ pc' = [pc EXCEPT ![r] = "drain"]
  /\ IF Locking
     THEN marked' = [marked EXCEPT ![r] = @ \cup {Current(r)}] /\ UNCHANGED st
     ELSE st' = [st EXCEPT ![Current(r)] = "published"] /\ UNCHANGED marked
  /\ UNCHANGED <<nextId, attempts, aged, copies, notify, stopping, claim, seen, recorded, ghost, faults>>

(* Fault: the limit is taken as one attempt less. *)
QuarantineEarly(n) == MaxAttempts > 0 /\ n + 1 >= MaxAttempts

(* Fault: the limit is never enforced. *)
QuarantineNever(n) == FALSE

Quarantine(n) == MaxAttempts > 0 /\ n >= MaxAttempts

recordFailure(r) ==
  /\ pc[r] = "record" /\ ~stopping[r]
  /\ Handled(r)
  /\ pc' = [pc EXCEPT ![r] = "drain"]
  /\ LET i == Current(r)
         n == Bump(seen[r][i])
     IN IF Locking
        THEN /\ recorded' = [recorded EXCEPT ![r] = @ \cup {i}]
             /\ UNCHANGED <<attempts, st>>
        ELSE /\ attempts' = [attempts EXCEPT ![i] = n]
             /\ st' = IF Quarantine(n) THEN [st EXCEPT ![i] = "failed"] ELSE st
             /\ UNCHANGED recorded
  /\ UNCHANGED <<nextId, aged, copies, notify, stopping, claim, seen, marked, ghost, faults>>

(* The end of a pass, committed or rolled back: rows unlocked, reads forgotten. *)
EndPass(r) ==
  /\ claim' = [claim EXCEPT ![r] = {}]
  /\ todo' = [todo EXCEPT ![r] = {}]
  /\ seen' = [seen EXCEPT ![r] = [i \in Id |-> 0]]
  /\ marked' = [marked EXCEPT ![r] = {}]
  /\ recorded' = [recorded EXCEPT ![r] = {}]

(* Copies the broker holds for r's pass whose mark is lost with it. *)
Unmarked(r) == marked[r] \cup IF pc[r] = "mark" THEN {Current(r)} ELSE {}

ExcuseAll(S) == excuse' = [i \in Id |-> IF i \in S THEN excuse[i] + 1 ELSE excuse[i]]

(* A failing write: drain rolls the pass back, or goes on to the next row. *)
WriteFails(r) ==
  /\ pc[r] \in {"mark", "record"}
  /\ Failing(stopping[r])
  /\ ExcuseAll(Unmarked(r))
  /\ IF Locking
     THEN EndPass(r) /\ pc' = [pc EXCEPT ![r] = "prune"]
     ELSE /\ Handled(r)
          /\ pc' = [pc EXCEPT ![r] = "drain"]
          /\ UNCHANGED <<claim, seen, marked, recorded>>
  /\ UNCHANGED <<table, copies, notify, stopping, failures>>

(* drain's own context check: the pass ends with an error. *)
DrainCancelled(r) ==
  /\ pc[r] = "drain" /\ todo[r] # {} /\ stopping[r]
  /\ ExcuseAll(Unmarked(r))
  /\ EndPass(r)
  /\ pc' = [pc EXCEPT ![r] = "prune"]
  /\ UNCHANGED <<table, copies, notify, stopping, failures, faults>>

DrainDone(r) ==
  /\ pc[r] = "drain" /\ todo[r] = {}
  /\ IF Locking
     THEN pc' = [pc EXCEPT ![r] = "commit"] /\ UNCHANGED pass
     ELSE pc' = [pc EXCEPT ![r] = "prune"] /\ EndPass(r)
  /\ UNCHANGED <<table, copies, notify, stopping, ghost, faults>>

(* The pass's transaction commits all its marks and failure records at once. *)
CommitPass(r) ==
  /\ pc[r] = "commit" /\ ~stopping[r]
  /\ LET n(i) == Bump(seen[r][i])
     IN /\ attempts' = [i \in Id |-> IF i \in recorded[r] THEN n(i) ELSE attempts[i]]
        /\ st' = [i \in Id |-> IF i \in marked[r] THEN "published"
                               ELSE IF i \in recorded[r] /\ Quarantine(n(i)) THEN "failed"
                               ELSE st[i]]
  /\ EndPass(r)
  /\ pc' = [pc EXCEPT ![r] = "prune"]
  /\ UNCHANGED <<nextId, aged, copies, notify, stopping, ghost, faults>>

CommitFails(r) ==
  /\ pc[r] = "commit"
  /\ Failing(stopping[r])
  /\ ExcuseAll(Unmarked(r))
  /\ EndPass(r)
  /\ pc' = [pc EXCEPT ![r] = "prune"]
  /\ UNCHANGED <<table, copies, notify, stopping, failures>>
-----------------------------------------------------------------------------
(* Fault: unpublished rows are pruned too. *)
PrunableAny == {i \in Id : st[i] \in {"pending", "published"}}

Prunable == IF Retention THEN aged ELSE {}

(* PrunePublished, whose failure is only logged, ends the pass. *)
PrunePublished(r) ==
  /\ pc[r] = "prune"
  /\ pc' = [pc EXCEPT ![r] = "wait"]
  /\ \/ /\ ~stopping[r]
        /\ st' = [i \in Id |-> IF i \in Prunable THEN "gone" ELSE st[i]]
        /\ aged' = aged \ Prunable
        /\ UNCHANGED faults
     \/ /\ Failing(stopping[r])
        /\ UNCHANGED <<st, aged>>
  /\ UNCHANGED <<nextId, attempts, copies, notify, stopping, pass, ghost>>

Age(i) ==
  /\ Retention
  /\ st[i] = "published" /\ i \notin aged
  /\ aged' = aged \cup {i}
  /\ UNCHANGED <<nextId, st, attempts, copies, pc, notify, stopping, pass, ghost, faults>>

(* run's select between passes: the ticker, the wake-up, the context. *)
Tick(r) ==
  /\ pc[r] = "wait"
  /\ pc' = [pc EXCEPT ![r] = "pass"]
  /\ UNCHANGED <<table, copies, notify, stopping, pass, ghost, faults>>

Notified(r) ==
  /\ pc[r] = "wait" /\ notify[r]
  /\ notify' = [notify EXCEPT ![r] = FALSE]
  /\ pc' = [pc EXCEPT ![r] = "pass"]
  /\ UNCHANGED <<table, copies, stopping, pass, ghost, faults>>

Stop(r) ==
  /\ pc[r] = "wait" /\ stopping[r]
  /\ pc' = [pc EXCEPT ![r] = "stopped"]
  /\ stopping' = [stopping EXCEPT ![r] = FALSE]
  /\ notify' = [notify EXCEPT ![r] = FALSE]
  /\ UNCHANGED <<table, copies, pass, ghost, faults>>

Cancel(r) ==
  /\ pc[r] # "stopped" /\ ~stopping[r]
  /\ Failing(FALSE)
  /\ stopping' = [stopping EXCEPT ![r] = TRUE]
  /\ UNCHANGED <<table, copies, pc, notify, pass, ghost>>

(* The process dies; the database rolls its transaction back. *)
Crash(r) ==
  /\ pc[r] # "stopped"
  /\ Failing(FALSE)
  /\ ExcuseAll(Unmarked(r))
  /\ EndPass(r)
  /\ pc' = [pc EXCEPT ![r] = "stopped"]
  /\ stopping' = [stopping EXCEPT ![r] = FALSE]
  /\ notify' = [notify EXCEPT ![r] = FALSE]
  /\ UNCHANGED <<table, copies, failures>>

Restart(r) ==
  /\ pc[r] = "stopped"
  /\ pc' = [pc EXCEPT ![r] = "pass"]
  /\ UNCHANGED <<table, copies, notify, stopping, pass, ghost, faults>>
-----------------------------------------------------------------------------
WorkerStep(r) ==
  \/ pendingRows(r) \/ pendingRowsFails(r)
  \/ PublishOk(r) \/ PublishErr(r) \/ PublishUnsure(r)
  \/ MarkPublished(r) \/ recordFailure(r) \/ WriteFails(r)
  \/ DrainCancelled(r) \/ DrainDone(r) \/ CommitPass(r) \/ CommitFails(r)
  \/ PrunePublished(r)
  \/ Tick(r) \/ Notified(r) \/ Stop(r)

Next ==
  \/ \E r \in Relay : Enqueue(r) \/ WorkerStep(r) \/ Cancel(r) \/ Crash(r) \/ Restart(r)
  \/ \E i \in Id : TxCommit(i) \/ TxAbort(i) \/ Age(i)

Spec == Init /\ [][Next]_vars

(* The worker goroutine runs and its ticker fires; the select picks among  *)
(* ready cases at random, so a cancelled worker stops; a stopped process   *)
(* is started again.  Writers owe nothing.                                 *)
FairSpec ==
  /\ Spec
  /\ \A r \in Relay : WF_vars(WorkerStep(r)) /\ SF_vars(Stop(r)) /\ WF_vars(Restart(r))
-----------------------------------------------------------------------------
TypeOK ==
  /\ nextId \in 1..MaxId + 1
  /\ st \in [Id -> {"none", "open", "aborted", "pending", "published", "failed", "gone"}]
  /\ attempts \in [Id -> 0..CountCap]
  /\ aged \subseteq Id
  /\ copies \in [Id -> Nat]
  /\ pc \in [Relay -> Stage]
  /\ notify \in [Relay -> BOOLEAN]
  /\ stopping \in [Relay -> BOOLEAN]
  /\ claim \in [Relay -> SUBSET Id]
  /\ todo \in [Relay -> SUBSET Id]
  /\ seen \in [Relay -> [Id -> 0..CountCap]]
  /\ marked \in [Relay -> SUBSET Id]
  /\ recorded \in [Relay -> SUBSET Id]
  /\ failures \in [Id -> 0..CountCap]
  /\ excuse \in [Id -> Nat]
  /\ faults \in 0..MaxFaults

(* outbox.go:4-6 "a crash between commit and publish never loses (or        *)
(* fabricates) an event": what the broker holds was committed, and what the *)
(* table calls published reached the broker.                                *)
NeverLostNorFabricated ==
  \A i \in Id :
    /\ copies[i] > 0 => st[i] \in {"pending", "published", "failed", "gone"}
    /\ st[i] = "published" => copies[i] > 0

(* relay.go:23-26: relays partition the pending set, so a message is sent   *)
(* twice only if an earlier mark was lost or a publish reported an error    *)
(* although the broker had stored the message.                              *)
DuplicatesExcused == \A i \in Id : copies[i] <= excuse[i] + 1

(* relay.go:82-85: a message is quarantined only after MaxAttempts real     *)
(* publish failures; rolled-back passes never inflate the counter.          *)
QuarantineEarned ==
  \A i \in Id :
    /\ attempts[i] <= failures[i]
    /\ st[i] = "failed" => MaxAttempts > 0 /\ failures[i] >= MaxAttempts

(* relay.go:136-276: a message reaches the broker only once its transaction *)
(* has committed and is marked published only when it did, and it is        *)
(* quarantined only after MaxAttempts failures.                             *)
RowsAccounted == TypeOK /\ NeverLostNorFabricated /\ QuarantineEarned

(* What a step never does to a row: un-publish it, publish what was         *)
(* quarantined, prune what was not published (relay.go:277-280).            *)
RowsMoveForward ==
  [][\A i \in Id :
       /\ st[i] = "published" => st'[i] \in {"published", "gone"}
       /\ st[i] \in {"failed", "gone", "aborted"} => st'[i] = st[i]
       /\ st[i] = "pending" => st'[i] \in {"pending", "published", "failed"}]_vars

(* Every committed event is published or quarantined in the end, however    *)
(* passes fail and whichever relay dies, the wake-up lost or not.           *)
EventuallySettled == \A i \in Id : st[i] = "pending" ~> st[i] # "pending"

(* relay.go:136-137 "the relay continues with the rest of the batch rather  *)
(* than blocking on one bad message": a healthy event is published in the   *)
(* end whatever other rows do.                                              *)
HealthySettled == \A i \in Id \ Poison : st[i] = "pending" ~> st[i] # "pending"

(* The inductive invariant.  The rows of a pass are pending until it ends,  *)
(* each relay has its own, and the marks and failure records it has written *)
(* are about rows it has handled:                                           *)
PassOf(r) ==
  /\ todo[r] \subseteq claim[r]
  /\ marked[r] \cup recorded[r] \subseteq claim[r] \ todo[r]
  /\ marked[r] \cap recorded[r] = {}
  /\ pc[r] \in {"mark", "record"} => todo[r] # {}
  /\ pc[r] \notin {"drain", "mark", "record", "commit"} => claim[r] = {}
  /\ pc[r] = "commit" => Locking
  /\ Locking => \A i \in claim[r] : st[i] = "pending" /\ seen[r][i] = attempts[i]
  /\ \A i \in todo[r] : st[i] = "pending" /\ seen[r][i] = attempts[i]
  /\ ~Locking => marked[r] \cup recorded[r] = {}

PassInv ==
  \A r \in Relay : PassOf(r) /\ \A q \in Relay : q # r => claim[q] \cap claim[r] = {}

(* Rows a relay has published but not marked for good, or has failed to publish. *)
Recording(r) == recorded[r] \cup IF pc[r] = "record" THEN {Current(r)} ELSE {}

(* what the table says of a row is backed by what happened to it; *)
RowInv ==
  \A i \in Id :
    /\ copies[i] > 0 => st[i] \in {"pending", "published", "failed", "gone"}
    /\ st[i] \in {"published", "gone"} => copies[i] > 0
    /\ \A r \in Relay : i \in Unmarked(r) => copies[i] > 0
    /\ i \in aged => st[i] = "published"
    /\ i >= nextId => st[i] = "none"
    /\ attempts[i] <= failures[i]
    /\ \A r \in Relay : i \in Recording(r) => Bump(attempts[i]) <= failures[i]
    /\ st[i] = "failed" => MaxAttempts > 0 /\ failures[i] >= MaxAttempts

(* and one copy of a message is accounted for, the others have an excuse. *)
CopyInv ==
  \A i \in Id :
    IF st[i] \in {"published", "gone"} \/ \E r \in Relay : i \in Unmarked(r)
    THEN copies[i] <= excuse[i] + 1
    ELSE copies[i] <= excuse[i]

(* relay.go as a whole: the strengthening every step of Enqueue, of a pass  *)
(* and of its failures preserves.                                           *)
IInv == TypeOK /\ PassInv /\ RowInv /\ CopyInv

(* What the state of a row means to the promise. *)
PhaseOf(s) ==
  CASE s = "none" -> "none"
    [] s = "open" -> "recorded"
    [] s = "aborted" -> "aborted"
    [] s = "pending" -> "accepted"
    [] s \in {"published", "gone"} -> "settled"
    [] OTHER -> "dead"

Promised == INSTANCE AtLeastOnce WITH
  Event <- Id,
  phase <- [i \in Id |-> PhaseOf(st[i])],
  sent  <- copies

(* The outbox implements at-least-once delivery of committed events. *)
ImplementsAtLeastOnce == Promised!Promise
=============================================================================
