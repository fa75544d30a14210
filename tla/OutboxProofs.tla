---------------------------- MODULE OutboxProofs ----------------------------
(***************************************************************************)
(* The safety of the outbox for any number of relays, rows and faults, on  *)
(* both paths of PublishPending.  The inductive invariant holds at the     *)
(* start; it is kept by writers, by time, and by the beginning and the     *)
(* failing end of a pass; then by publishing a row, by its mark or failure *)
(* record, and by the commit of a pass.  What the runs check, and the      *)
(* refinement, follow from it.                                             *)
(***************************************************************************)
EXTENDS Outbox, TLAPS

LEMMA Numbers ==
  /\ MaxId \in Nat /\ BatchSize \in Nat /\ MaxAttempts \in Nat /\ CountCap \in Nat /\ MaxFaults \in Nat
  /\ Id = 1..MaxId /\ Id \subseteq Nat
BY OutboxAssumption DEF Id

LEMMA FailingType ==
  ASSUME faults \in 0..MaxFaults, NEW b, Failing(b)
  PROVE  faults' \in 0..MaxFaults
BY Numbers DEF Failing

(* The next row of a pass is a row of the pass.  That a set of rows has a   *)
(* first one is proved at the end (CurrentExists); the steps assume it.     *)
CurrentFits == \A r \in Relay : todo[r] # {} => Current(r) \in todo[r]

LEMMA CurrentInTodo ==
  ASSUME TypeOK, CurrentFits, NEW r \in Relay, todo[r] # {}
  PROVE  Current(r) \in todo[r] /\ Current(r) \in Id
BY Zenon DEF TypeOK, CurrentFits

(* A relay whose own variables do not change is owed the same. *)
LEMMA SamePass ==
  ASSUME NEW r, pc'[r] = pc[r], todo'[r] = todo[r], marked'[r] = marked[r], recorded'[r] = recorded[r]
  PROVE  Current(r)' = Current(r) /\ Unmarked(r)' = Unmarked(r) /\ Recording(r)' = Recording(r)
BY Zenon DEF Current, Unmarked, Recording

LEMMA BumpFacts ==
  ASSUME NEW m \in 0..CountCap, NEW n \in 0..CountCap
  PROVE  /\ Bump(m) \in 0..CountCap /\ m <= Bump(m)
         /\ m <= n => Bump(m) <= Bump(n)
BY OutboxAssumption DEF Bump

LEMMA InitInv == Init => IInv
<1> SUFFICES ASSUME Init PROVE IInv
  BY Zenon
<1>1. TypeOK
  BY OutboxAssumption DEF Init, TypeOK, Stage, Id
<1>2. PassInv
  BY Zenon DEF Init, PassInv, PassOf
<1>3. \A r \in Relay : Unmarked(r) = {} /\ Recording(r) = {}
  BY Zenon DEF Init, Unmarked, Recording
<1>4. RowInv
  BY <1>3 DEF Init, RowInv
<1>5. CopyInv
  BY <1>3 DEF Init, CopyInv
<1> QED
  BY <1>1, <1>2, <1>4, <1>5, Zenon DEF IInv

(* Steps of writers, of time, and of the select between passes. *)
Quiet ==
  \/ \E r \in Relay : \/ Enqueue(r) \/ pendingRowsFails(r) \/ Tick(r) \/ Notified(r)
                      \/ Stop(r) \/ Cancel(r) \/ Restart(r)
  \/ \E i \in Id : TxCommit(i) \/ TxAbort(i) \/ Age(i)

LEMMA QuietType ==
  ASSUME TypeOK, Quiet
  PROVE  TypeOK'
<1> USE DEF table, pass, ghost, TypeOK, Stage
<1>1. ASSUME NEW r \in Relay, Enqueue(r) PROVE TypeOK'
  <2>1. nextId' \in 1..MaxId + 1
    BY <1>1, Numbers DEF Enqueue
  <2> QED
    BY <1>1, <2>1, Zenon DEF Enqueue
<1>2. ASSUME NEW r \in Relay, pendingRowsFails(r) PROVE TypeOK'
  BY <1>2, FailingType, Zenon DEF pendingRowsFails
<1>3. ASSUME NEW r \in Relay, Tick(r) \/ Notified(r) \/ Restart(r) PROVE TypeOK'
  <2>1. CASE Tick(r)
    BY <2>1, Zenon DEF Tick
  <2>2. CASE Notified(r)
    BY <2>2, Zenon DEF Notified
  <2>3. CASE Restart(r)
    BY <2>3, Zenon DEF Restart
  <2> QED
    BY <1>3, <2>1, <2>2, <2>3, Zenon
<1>4. ASSUME NEW r \in Relay, Stop(r) PROVE TypeOK'
  BY <1>4, Zenon DEF Stop
<1>5. ASSUME NEW r \in Relay, Cancel(r) PROVE TypeOK'
  BY <1>5, FailingType, Zenon DEF Cancel
<1>6. ASSUME NEW i \in Id, TxCommit(i) \/ TxAbort(i) \/ Age(i) PROVE TypeOK'
  <2>1. CASE TxCommit(i)
    BY <2>1, Zenon DEF TxCommit
  <2>2. CASE TxAbort(i)
    BY <2>2, Zenon DEF TxAbort
  <2>3. CASE Age(i)
    BY <2>3, Zenon DEF Age
  <2> QED
    BY <1>6, <2>1, <2>2, <2>3, Zenon
<1> QED
  BY <1>1, <1>2, <1>3, <1>4, <1>5, <1>6, Zenon DEF Quiet

(* What Quiet steps do to rows and to the stage of a relay. *)
QuietEffect ==
  /\ UNCHANGED <<attempts, copies, claim, todo, seen, marked, recorded, failures, excuse>>
  /\ \A i \in Id : \/ st'[i] = st[i]
                   \/ i = nextId /\ st[i] = "none" /\ st'[i] = "open" /\ nextId' = nextId + 1
                   \/ st[i] = "open" /\ st'[i] \in {"pending", "aborted"}
  /\ nextId' \in {nextId, nextId + 1}
  /\ \A i \in aged' : i \in aged \/ st'[i] = "published"
  /\ \A r \in Relay : \/ pc'[r] = pc[r]
                      \/ {pc[r], pc'[r]} \subseteq {"pass", "prune", "wait", "stopped"}

LEMMA QuietFacts ==
  ASSUME TypeOK, RowInv, Quiet
  PROVE  QuietEffect
<1> USE DEF table, pass, ghost, QuietEffect
<1>1. ASSUME NEW r \in Relay, Enqueue(r) PROVE QuietEffect
  <2>1. nextId \in Id /\ nextId \in Nat /\ st[nextId] = "none"
    BY <1>1, Numbers DEF Enqueue, RowInv, TypeOK
  <2> QED
    BY <1>1, <2>1, Zenon DEF Enqueue, TypeOK
<1>2. ASSUME NEW r \in Relay, pendingRowsFails(r) \/ Tick(r) \/ Notified(r) \/ Stop(r) \/ Cancel(r) \/ Restart(r)
      PROVE  QuietEffect
  BY <1>2, Zenon DEF pendingRowsFails, Tick, Notified, Stop, Cancel, Restart, TypeOK
<1>3. ASSUME NEW i \in Id, TxCommit(i) \/ TxAbort(i) \/ Age(i) PROVE QuietEffect
  BY <1>3, Zenon DEF TxCommit, TxAbort, Age, TypeOK
<1> QED
  BY <1>1, <1>2, <1>3, Zenon DEF Quiet

LEMMA QuietInv ==
  ASSUME IInv, Quiet
  PROVE  IInv'
<1> USE DEF IInv
<1>1. TypeOK'
  BY QuietType, Zenon
<1>2. QuietEffect
  BY QuietFacts, Zenon
<1>3. \A i \in Id : st[i] \in {"pending", "published", "failed", "gone", "aborted"} => st'[i] = st[i]
  BY <1>2, Zenon DEF QuietEffect
<1>4. PassInv'
  <2>1. ASSUME NEW r \in Relay PROVE PassOf(r)'
    <3>1. PassOf(r) /\ claim[r] \subseteq Id /\ todo[r] \subseteq Id
      BY Zenon DEF PassInv, TypeOK
    <3> QED
      BY <1>2, <1>3, <3>1 DEF QuietEffect, PassOf
  <2> QED
    BY <1>2, <2>1, Zenon DEF QuietEffect, PassInv
<1>5. \A r \in Relay : Unmarked(r)' = Unmarked(r) /\ Recording(r)' = Recording(r)
  BY <1>2, Zenon DEF QuietEffect, Unmarked, Recording, Current
<1>6. RowInv'
  <2> SUFFICES ASSUME NEW i \in Id PROVE RowInv!(i)'
    BY Zenon DEF RowInv
  <2>1. RowInv!(i)
    BY Zenon DEF RowInv
  <2>2. i \in Nat /\ nextId \in Nat /\ copies[i] \in Nat
    BY Numbers DEF TypeOK
  <2>3. \A r \in Relay : i \in Unmarked(r)' => copies'[i] > 0
    BY <1>2, <1>5, <2>1, Zenon DEF QuietEffect
  <2>4. \A r \in Relay : i \in Recording(r)' => Bump(attempts[i])' <= failures'[i]
    BY <1>2, <1>5, <2>1, Zenon DEF QuietEffect, Bump
  <2>5. i >= nextId' => st'[i] = "none"
    BY <1>2, <2>1, <2>2 DEF QuietEffect
  <2>6. i \in aged' => st'[i] = "published"
    BY <1>2, <2>1, Zenon DEF QuietEffect
  <2>7. /\ copies'[i] > 0 => st'[i] \in {"pending", "published", "failed", "gone"}
        /\ st'[i] \in {"published", "gone"} => copies'[i] > 0
        /\ attempts'[i] <= failures'[i]
        /\ st'[i] = "failed" => MaxAttempts > 0 /\ failures'[i] >= MaxAttempts
    BY <1>2, <2>1, Zenon DEF QuietEffect
  <2> QED
    BY <2>3, <2>4, <2>5, <2>6, <2>7, Zenon
<1>7. CopyInv'
  BY <1>2, <1>5, Zenon DEF QuietEffect, CopyInv
<1> QED
  BY <1>1, <1>4, <1>6, <1>7, Zenon
-----------------------------------------------------------------------------
(* A step of relay r leaves what the other relays are doing alone. *)
Others(r) ==
  \A q \in Relay \ {r} : /\ pc'[q] = pc[q] /\ claim'[q] = claim[q] /\ todo'[q] = todo[q]
                         /\ seen'[q] = seen[q] /\ marked'[q] = marked[q] /\ recorded'[q] = recorded[q]

(* What a relay holds in its hands it has claimed. *)
LEMMA HeldIsClaimed ==
  ASSUME TypeOK, CurrentFits, PassInv, NEW r \in Relay
  PROVE  /\ Unmarked(r) \subseteq claim[r] /\ Recording(r) \subseteq claim[r] /\ claim[r] \subseteq Id
         /\ \A q \in Relay \ {r} : /\ claim[q] \cap claim[r] = {}
                                   /\ Unmarked(q) \cap claim[r] = {} /\ Recording(q) \cap claim[r] = {}
<1>1. ASSUME NEW q \in Relay PROVE Unmarked(q) \subseteq claim[q] /\ Recording(q) \subseteq claim[q]
  <2>1. PassOf(q)
    BY Zenon DEF PassInv
  <2>2. pc[q] \in {"mark", "record"} => Current(q) \in claim[q]
    BY <2>1, CurrentInTodo, Zenon DEF PassOf
  <2> QED
    BY <2>1, <2>2, Zenon DEF PassOf, Unmarked, Recording
<1>2. \A q \in Relay \ {r} : claim[q] \cap claim[r] = {}
  BY Zenon DEF PassInv
<1>3. claim[r] \subseteq Id
  BY Zenon DEF TypeOK
<1> QED
  BY <1>1, <1>2, <1>3, Zenon

(* PassInv after a step of r that only touches rows it has claimed. *)
LEMMA PassStep ==
  ASSUME TypeOK, PassInv, NEW r \in Relay, Others(r), PassOf(r)',
         \A q \in Relay \ {r} : claim[q] \cap claim'[r] = {},
         \A i \in Id \ claim[r] : /\ st[i] = "pending" => st'[i] = "pending"
                                  /\ attempts'[i] = attempts[i]
  PROVE  PassInv'
<1>1. ASSUME NEW q \in Relay, q # r PROVE PassOf(q)'
  <2>1. PassOf(q) /\ claim[q] \subseteq Id \ claim[r] /\ todo[q] \subseteq claim[q]
    BY <1>1, Zenon DEF PassInv, PassOf, TypeOK
  <2>2. \A i \in claim[q] : /\ st[i] = "pending" => st'[i] = "pending"
                            /\ attempts'[i] = attempts[i]
    BY <2>1, Zenon
  <2> QED
    BY <1>1, <2>1, <2>2 DEF PassOf, Others
<1>2. ASSUME NEW q \in Relay, NEW p \in Relay, p # q PROVE claim'[p] \cap claim'[q] = {}
  BY <1>2 DEF PassInv, Others
<1> QED
  BY <1>1, <1>2, Zenon DEF PassInv

LEMMA OthersHold ==
  ASSUME NEW r \in Relay, Others(r)
  PROVE  \A q \in Relay \ {r} : Unmarked(q)' = Unmarked(q) /\ Recording(q)' = Recording(q)
BY SamePass, Zenon DEF Others
-----------------------------------------------------------------------------
(* A pass begins: it claims pending rows nobody else has claimed. *)
LEMMA ReadInv ==
  ASSUME IInv, NEW r \in Relay, pendingRows(r)
  PROVE  IInv'
<1> DEFINE C == Oldest(Pending)
<1>1. TypeOK /\ PassInv /\ RowInv /\ CopyInv
  BY Zenon DEF IInv
<1>2. /\ C \subseteq Id /\ \A i \in C : st[i] = "pending"
      /\ \A q \in Relay \ {r} : claim[q] \cap C = {}
  <2>1. C \subseteq Pending
    BY Zenon DEF Oldest
  <2>2. ASSUME Locking PROVE \A q \in Relay \ {r} : claim[q] \cap C = {}
    BY <2>1, <2>2, Zenon DEF Pending, Claimed
  <2>3. ASSUME ~Locking PROVE \A q \in Relay \ {r} : claim[q] \cap C = {}
    BY <2>3, OutboxAssumption, Zenon
  <2> QED
    BY <2>1, <2>2, <2>3, Zenon DEF Pending
<1> HIDE DEF C
<1>3. /\ pc[r] = "pass" /\ pc' = [pc EXCEPT ![r] = "drain"]
      /\ claim' = [claim EXCEPT ![r] = C] /\ todo' = [todo EXCEPT ![r] = C]
      /\ seen' = [seen EXCEPT ![r] = attempts]
      /\ UNCHANGED <<nextId, st, attempts, aged, copies, notify, stopping, marked, recorded, failures, excuse, faults>>
  BY Zenon DEF pendingRows, table, ghost, C
<1>4. TypeOK'
  BY <1>1, <1>2, <1>3, Zenon DEF TypeOK, Stage
<1>5. Others(r)
  BY <1>1, <1>3, Zenon DEF Others, TypeOK
<1>6. marked[r] = {} /\ recorded[r] = {}
  BY <1>1, <1>3, Zenon DEF PassInv, PassOf
<1>7. PassOf(r)'
  BY <1>1, <1>2, <1>3, <1>6, SMTT(30) DEF PassOf, TypeOK
<1>8. PassInv'
  <2>1. claim'[r] = C
    BY <1>1, <1>3, Zenon DEF TypeOK
  <2> QED
    BY <1>1, <1>2, <1>3, <1>5, <1>7, <2>1, PassStep, Zenon
<1>9. \A q \in Relay : Unmarked(q)' = Unmarked(q) /\ Recording(q)' = Recording(q)
  <2>1. Unmarked(r)' = {} /\ Unmarked(r) = {} /\ Recording(r)' = {} /\ Recording(r) = {}
    BY <1>1, <1>3, <1>6, Zenon DEF Unmarked, Recording, TypeOK
  <2> QED
    BY <1>5, <2>1, OthersHold, Zenon
<1>10. RowInv'
  BY <1>1, <1>3, <1>9, Zenon DEF RowInv, Bump
<1>11. CopyInv'
  BY <1>1, <1>3, <1>9, Zenon DEF CopyInv
<1> QED
  BY <1>4, <1>8, <1>10, <1>11, Zenon DEF IInv

(* A pass is given up: its marks are lost, which excuses their copies. *)
GiveUp(r) ==
  /\ Others(r)
  /\ pc'[r] \in {"prune", "stopped"}
  /\ claim'[r] = {} /\ todo'[r] = {} /\ marked'[r] = {} /\ recorded'[r] = {}
  /\ UNCHANGED <<nextId, st, attempts, aged, copies, failures>>
  /\ \A i \in Id : excuse'[i] = IF i \in Unmarked(r) THEN excuse[i] + 1 ELSE excuse[i]

LEMMA GiveUpInv ==
  ASSUME IInv, TypeOK', NEW r \in Relay, GiveUp(r)
  PROVE  IInv'
<1>1. TypeOK /\ PassInv /\ RowInv /\ CopyInv
  BY Zenon DEF IInv
<1>2. PassOf(r)'
  BY ZenonT(40) DEF PassOf, GiveUp
<1>3. PassInv'
  BY <1>1, <1>2, PassStep, Zenon DEF GiveUp
<1>4. Unmarked(r)' = {} /\ Recording(r)' = {}
  BY Zenon DEF Unmarked, Recording, GiveUp
<1>5. \A q \in Relay : Unmarked(q)' \subseteq Unmarked(q) /\ Recording(q)' \subseteq Recording(q)
  BY <1>4, OthersHold, Zenon DEF GiveUp
<1>6. RowInv'
  BY <1>1, <1>5, Zenon DEF RowInv, Bump, GiveUp
<1>7. CopyInv'
  <2> SUFFICES ASSUME NEW i \in Id PROVE CopyInv!(i)'
    BY Zenon DEF CopyInv
  <2>1. CopyInv!(i) /\ copies[i] \in Nat /\ excuse[i] \in Nat
    BY <1>1, Zenon DEF CopyInv, TypeOK
  <2>2. CASE i \in Unmarked(r)
    <3>1. copies'[i] <= excuse'[i]
      BY <2>1, <2>2, Zenon DEF GiveUp
    <3>2. excuse'[i] \in Nat /\ copies'[i] \in Nat
      BY Zenon DEF TypeOK
    <3> QED
      BY <3>1, <3>2
  <2>3. CASE i \notin Unmarked(r)
    <3>1. (\E q \in Relay : i \in Unmarked(q)) <=> (\E q \in Relay : i \in Unmarked(q)')
      BY <2>3, <1>4, OthersHold, Zenon DEF GiveUp
    <3> QED
      BY <2>1, <2>3, <3>1, SMTT(30) DEF GiveUp
  <2> QED
    BY <2>2, <2>3, Zenon
<1> QED
  BY <1>3, <1>6, <1>7, Zenon DEF IInv
LEMMA ExcuseType ==
  ASSUME TypeOK, NEW S, ExcuseAll(S)
  PROVE  /\ excuse' \in [Id -> Nat]
         /\ \A i \in Id : excuse'[i] = IF i \in S THEN excuse[i] + 1 ELSE excuse[i]
BY DEF TypeOK, ExcuseAll

LEMMA EndPassType ==
  ASSUME TypeOK, NEW r \in Relay, EndPass(r)
  PROVE  /\ claim' \in [Relay -> SUBSET Id] /\ todo' \in [Relay -> SUBSET Id]
         /\ seen' \in [Relay -> [Id -> 0..CountCap]]
         /\ marked' \in [Relay -> SUBSET Id] /\ recorded' \in [Relay -> SUBSET Id]
         /\ claim'[r] = {} /\ todo'[r] = {} /\ marked'[r] = {} /\ recorded'[r] = {}
         /\ \A q \in Relay \ {r} : /\ claim'[q] = claim[q] /\ todo'[q] = todo[q] /\ seen'[q] = seen[q]
                                   /\ marked'[q] = marked[q] /\ recorded'[q] = recorded[q]
<1>1. [i \in Id |-> 0] \in [Id -> 0..CountCap]
  BY Numbers
<1> QED
  BY <1>1, Zenon DEF TypeOK, EndPass

LEMMA RollbackInv ==
  ASSUME IInv, NEW r \in Relay, EndPass(r), ExcuseAll(Unmarked(r)),
         NEW s \in {"prune", "stopped"}, pc' = [pc EXCEPT ![r] = s],
         notify' \in [Relay -> BOOLEAN], stopping' \in [Relay -> BOOLEAN], faults' \in 0..MaxFaults,
         UNCHANGED <<table, copies, failures>>
  PROVE  IInv'
<1>1. TypeOK
  BY SMTT(30) DEF IInv
<1>2. TypeOK'
  BY <1>1, ExcuseType, EndPassType, SMTT(30) DEF TypeOK, table, Stage
<1>3. GiveUp(r)
  <2>1. Others(r)
    BY <1>1, EndPassType, ZenonT(40) DEF Others, TypeOK
  <2>2. pc'[r] \in {"prune", "stopped"}
    BY <1>1, Zenon DEF TypeOK
  <2>3. claim'[r] = {} /\ todo'[r] = {} /\ marked'[r] = {} /\ recorded'[r] = {}
    BY <1>1, EndPassType, Zenon
  <2>4. \A i \in Id : excuse'[i] = IF i \in Unmarked(r) THEN excuse[i] + 1 ELSE excuse[i]
    BY <1>1, ExcuseType, Zenon
  <2> QED
    BY <2>1, <2>2, <2>3, <2>4, ZenonT(40) DEF GiveUp, table
<1> QED
  BY <1>2, <1>3, GiveUpInv, Zenon

LEMMA FailedPassInv ==
  ASSUME IInv, NEW r \in Relay,
         \/ WriteFails(r) /\ Locking
         \/ DrainCancelled(r)
         \/ DrainDone(r) /\ ~Locking
         \/ CommitFails(r)
         \/ Crash(r)
  PROVE  IInv'
<1>1. TypeOK /\ PassOf(r) /\ faults \in 0..MaxFaults
  BY Zenon DEF IInv, PassInv, TypeOK
<1>2. ASSUME WriteFails(r), Locking PROVE IInv'
  BY <1>1, <1>2, FailingType, RollbackInv, Zenon DEF WriteFails, TypeOK
<1>3. ASSUME DrainCancelled(r) PROVE IInv'
  BY <1>1, <1>3, RollbackInv, Zenon DEF DrainCancelled, TypeOK
<1>4. ASSUME DrainDone(r), ~Locking PROVE IInv'
  <2>1. Unmarked(r) = {}
    BY <1>1, <1>4, Zenon DEF DrainDone, PassOf, Unmarked
  <2>2. ExcuseAll(Unmarked(r))
    <3>1. excuse' = excuse
      BY <1>4, Zenon DEF DrainDone, ghost
    <3> QED
      BY <1>1, <2>1, <3>1, Zenon DEF ExcuseAll, TypeOK
  <2> QED
    BY <1>1, <1>4, <2>2, RollbackInv, ZenonT(40) DEF DrainDone, TypeOK, ghost
<1>5. ASSUME CommitFails(r) PROVE IInv'
  BY <1>1, <1>5, FailingType, RollbackInv, Zenon DEF CommitFails, TypeOK
<1>6. ASSUME Crash(r) PROVE IInv'
  BY <1>1, <1>6, FailingType, RollbackInv, ZenonT(40) DEF Crash, TypeOK
<1> QED
  BY <1>2, <1>3, <1>4, <1>5, <1>6, Zenon

LEMMA PruneInv ==
  ASSUME IInv, NEW r \in Relay, PrunePublished(r)
  PROVE  IInv'
<1>1. TypeOK /\ PassInv /\ RowInv /\ CopyInv
  BY Zenon DEF IInv
<1>2. /\ pc[r] = "prune" /\ pc' = [pc EXCEPT ![r] = "wait"]
      /\ UNCHANGED <<nextId, attempts, copies, notify, stopping, claim, todo, seen, marked, recorded, failures, excuse>>
      /\ faults' \in 0..MaxFaults
      /\ aged' \subseteq aged
  BY <1>1, FailingType, Zenon DEF PrunePublished, pass, ghost, TypeOK
<1>3. /\ st' \in [Id -> {"none", "open", "aborted", "pending", "published", "failed", "gone"}]
      /\ \A i \in Id : \/ st'[i] = st[i]
                       \/ st[i] = "published" /\ st'[i] = "gone" /\ i \notin aged'
  BY <1>1, Zenon DEF PrunePublished, Prunable, RowInv, TypeOK
<1>4. TypeOK'
  BY <1>1, <1>2, <1>3, Zenon DEF TypeOK, Stage
<1>5. Others(r)
  BY <1>1, <1>2, Zenon DEF Others, TypeOK
<1>6. PassOf(r)'
  <2>1. PassOf(r) /\ claim[r] = {} /\ pc'[r] = "wait"
    <3>1. PassOf(r)
      BY <1>1, Zenon DEF PassInv
    <3>2. claim[r] = {}
      BY <1>2, <3>1, Zenon DEF PassOf
    <3>3. pc'[r] = "wait"
      BY <1>1, <1>2, Zenon DEF TypeOK
    <3> QED
      BY <3>1, <3>2, <3>3, Zenon
  <2> QED
    BY <1>2, <2>1, Zenon DEF PassOf
<1>7. PassInv'
  <2>1. claim'[r] = claim[r] /\ \A q \in Relay \ {r} : claim[q] \cap claim[r] = {}
    BY <1>1, <1>2, Zenon DEF PassInv
  <2> QED
    BY <1>1, <1>2, <1>3, <1>5, <1>6, <2>1, PassStep, Zenon
<1>8. \A q \in Relay : Unmarked(q)' = Unmarked(q) /\ Recording(q)' = Recording(q)
  <2>1. Unmarked(r)' = Unmarked(r) /\ Recording(r)' = Recording(r)
    BY <1>1, <1>2, Zenon DEF Unmarked, Recording, TypeOK
  <2> QED
    BY <1>5, <2>1, OthersHold, Zenon
<1>9. RowInv'
  BY <1>1, <1>2, <1>3, <1>8, SMTT(30) DEF RowInv, Bump
<1>10. CopyInv'
  BY <1>1, <1>2, <1>3, <1>8, Zenon DEF CopyInv
<1> QED
  BY <1>4, <1>7, <1>9, <1>10, Zenon DEF IInv
-----------------------------------------------------------------------------

-----------------------------------------------------------------------------
(* Publishing a row, recording the outcome, and the commit. *)

(* One call of Publish: the message may be stored, and may be reported as failed. *)
Published(r, i, s, dc, de) ==
  /\ pc' = [pc EXCEPT ![r] = s]
  /\ copies' = [copies EXCEPT ![i] = @ + dc]
  /\ excuse' = [excuse EXCEPT ![i] = @ + de]
  /\ failures' = IF s = "record" THEN [failures EXCEPT ![i] = Bump(@)] ELSE failures
  /\ UNCHANGED <<nextId, st, attempts, aged, notify, stopping, claim, todo, seen, marked, recorded>>

LEMMA PublishInv ==
  ASSUME IInv, CurrentFits, NEW r \in Relay, pc[r] = "drain", todo[r] # {}, faults' \in 0..MaxFaults,
         NEW i \in Id, i = Current(r), NEW s, NEW dc, NEW de, Published(r, i, s, dc, de),
         \/ s = "mark" /\ dc = 1 /\ de = 0
         \/ s = "record" /\ dc \in {0, 1} /\ de = dc
  PROVE  IInv'
<1>1. TypeOK /\ PassInv /\ RowInv /\ CopyInv
  BY Zenon DEF IInv
<1>2. failures' \in [Id -> 0..CountCap] /\ \A j \in Id : failures[j] <= failures'[j]
  <2>1. \A n \in 0..CountCap : Bump(n) \in 0..CountCap /\ n <= Bump(n) /\ n <= n
    BY BumpFacts, Numbers
  <2> QED
    BY <1>1, <2>1, Zenon DEF Published, TypeOK
<1>3. TypeOK'
  <2>1. copies' \in [Id -> Nat] /\ excuse' \in [Id -> Nat]
    BY <1>1 DEF Published, TypeOK
  <2> QED
    BY <1>1, <1>2, <2>1, Zenon DEF Published, TypeOK, Stage
<1>4. Others(r)
  BY <1>1, Zenon DEF Others, Published, TypeOK
<1>5. pc'[r] = s /\ todo'[r] = todo[r] /\ claim'[r] = claim[r]
  BY <1>1, Zenon DEF Published, TypeOK
<1>6. PassOf(r)'
  <2>1. PassOf(r)
    BY <1>1, Zenon DEF PassInv
  <2> QED
    BY <1>5, <2>1, Zenon DEF PassOf, Published
<1>7. PassInv'
  <2>1. \A q \in Relay \ {r} : claim[q] \cap claim'[r] = {}
    BY <1>1, <1>5, Zenon DEF PassInv
  <2> QED
    BY <1>1, <1>4, <1>6, <2>1, PassStep, Zenon DEF Published
<1>8. i \in todo[r] /\ st[i] = "pending" /\ i \in claim[r]
  BY <1>1, CurrentInTodo DEF PassInv, PassOf
<1>9. /\ \A q \in Relay : i \notin Unmarked(q)
      /\ \A q \in Relay : i \notin Recording(q)
  <2>1. i \notin marked[r] /\ i \notin recorded[r]
    BY <1>1, <1>8, Zenon DEF PassInv, PassOf
  <2> QED
    BY <1>1, <1>8, <2>1, HeldIsClaimed, Zenon DEF Unmarked, Recording
<1>10. Current(r)' = i
  BY <1>5, Zenon DEF Current
<1>11. /\ Unmarked(r)' = IF s = "mark" THEN Unmarked(r) \cup {i} ELSE Unmarked(r)
       /\ Recording(r)' = IF s = "record" THEN Recording(r) \cup {i} ELSE Recording(r)
  BY <1>5, <1>10, Zenon DEF Unmarked, Recording, Published
<1>12. \A q \in Relay \ {r} : Unmarked(q)' = Unmarked(q) /\ Recording(q)' = Recording(q)
  BY <1>4, OthersHold, Zenon
<1>13. RowInv'
  <2> SUFFICES ASSUME NEW j \in Id PROVE RowInv!(j)'
    BY Zenon DEF RowInv
  <2>1. RowInv!(j) /\ copies[j] \in Nat /\ attempts[j] \in 0..CountCap /\ failures[j] \in 0..CountCap
        /\ failures'[j] \in 0..CountCap /\ failures[j] <= failures'[j] /\ copies'[j] \in Nat
    BY <1>1, <1>2, <1>3, Zenon DEF RowInv, TypeOK
  <2>2. /\ copies'[j] >= copies[j] /\ (j # i => copies'[j] = copies[j])
        /\ (s = "mark" /\ j = i => copies'[j] > 0)
    BY <1>1, <2>1 DEF Published, TypeOK
  <2>3. /\ copies'[j] > 0 => st'[j] \in {"pending", "published", "failed", "gone"}
        /\ st'[j] \in {"published", "gone"} => copies'[j] > 0
        /\ j \in aged' => st'[j] = "published"
        /\ j >= nextId' => st'[j] = "none"
    BY <1>8, <2>1, <2>2, Zenon DEF Published
  <2>4. ASSUME NEW q \in Relay, j \in Unmarked(q)' PROVE copies'[j] > 0
    <3>1. CASE j \in Unmarked(q)
      <4>1. copies[j] > 0
        BY <2>1, <3>1, Zenon
      <4> QED
        BY <2>1, <2>2, <4>1, SMTT(60)
    <3>2. CASE j \notin Unmarked(q)
      <4>1. j = i /\ s = "mark"
        BY <1>11, <1>12, <2>4, <3>2, Zenon
      <4> QED
        BY <2>2, <4>1, Zenon
    <3> QED
      BY <3>1, <3>2, Zenon
  <2>5. attempts'[j] <= failures'[j]
    BY <2>1, Numbers DEF Published
  <2>6. st'[j] = "failed" => MaxAttempts > 0 /\ failures'[j] >= MaxAttempts
    BY <2>1, Numbers DEF Published
  <2>7. Bump(attempts[j])' = Bump(attempts[j]) /\ Bump(attempts[j]) \in 0..CountCap
    BY <2>1, BumpFacts, Zenon DEF Published, Bump
  <2>8. s = "record" => Bump(attempts[i]) <= failures'[i]
    <3>1. attempts[i] \in 0..CountCap /\ failures[i] \in 0..CountCap /\ attempts[i] <= failures[i]
      BY <1>1, Zenon DEF TypeOK, RowInv
    <3>2. Bump(attempts[i]) <= Bump(failures[i])
      BY <3>1, BumpFacts, Zenon
    <3> QED
      BY <1>1, <3>2, Zenon DEF Published, TypeOK
  <2>9. \A q \in Relay : j \in Recording(q)' => Bump(attempts[j])' <= failures'[j]
    <3>1. ASSUME j = i, s = "record" PROVE Bump(attempts[j])' <= failures'[j]
      BY <2>7, <2>8, <3>1, Zenon
    <3>2. ASSUME NEW q \in Relay, j \in Recording(q) PROVE Bump(attempts[j])' <= failures'[j]
      BY <2>1, <2>7, <3>2, Numbers, SMTT(60)
    <3> QED
      BY <1>11, <1>12, <3>1, <3>2, Zenon
  <2> QED
    BY <2>3, <2>4, <2>5, <2>6, <2>9, Zenon
<1>14. CopyInv'
  <2> SUFFICES ASSUME NEW j \in Id PROVE CopyInv!(j)'
    BY Zenon DEF CopyInv
  <2>1. CopyInv!(j) /\ copies[j] \in Nat /\ excuse[j] \in Nat /\ st'[j] = st[j]
    BY <1>1, Zenon DEF CopyInv, TypeOK, Published
  <2>2. CASE j = i
    <3>1. copies[i] <= excuse[i]
      BY <1>8, <1>9, <2>1, <2>2, Zenon
    <3>2. copies'[i] = copies[i] + dc /\ excuse'[i] = excuse[i] + de
      BY <1>1, Zenon DEF Published, TypeOK
    <3>3. CASE s = "mark"
      <4>1. i \in Unmarked(r)'
        BY <1>11, <3>3, Zenon
      <4>2. copies'[i] <= excuse'[i] + 1
        BY <2>1, <2>2, <3>1, <3>2, <3>3
      <4> QED
        BY <2>2, <4>1, <4>2, Zenon
    <3>4. CASE s = "record"
      <4>1. copies'[i] <= excuse'[i] /\ copies'[i] <= excuse'[i] + 1
        BY <2>1, <2>2, <3>1, <3>2, <3>4
      <4> QED
        BY <2>2, <4>1, Zenon
    <3> QED
      BY <3>3, <3>4, Zenon
  <2>3. CASE j # i
    <3>1. copies'[j] = copies[j] /\ excuse'[j] = excuse[j]
      BY <1>1, <2>3, Zenon DEF Published, TypeOK
    <3>2. \A q \in Relay : j \in Unmarked(q)' <=> j \in Unmarked(q)
      BY <1>11, <1>12, <2>3, Zenon
    <3> QED
      BY <2>1, <3>1, <3>2, Zenon
  <2> QED
    BY <2>2, <2>3, Zenon
<1> QED
  BY <1>3, <1>7, <1>13, <1>14, Zenon DEF IInv
LEMMA PublishStepInv ==
  ASSUME IInv, CurrentFits, NEW r \in Relay, PublishOk(r) \/ PublishErr(r) \/ PublishUnsure(r)
  PROVE  IInv'
<1>1. TypeOK /\ pc[r] = "drain" /\ todo[r] # {}
  BY Zenon DEF IInv, PublishOk, PublishErr, PublishUnsure
<1>2. PICK i \in Id : i = Current(r)
  BY <1>1, CurrentInTodo, Zenon
<1>3. /\ copies = [copies EXCEPT ![i] = @ + 0]
      /\ excuse = [excuse EXCEPT ![i] = @ + 0]
  BY <1>1 DEF TypeOK
<1>4. faults \in 0..MaxFaults
  BY <1>1, Zenon DEF TypeOK
<1> USE DEF table, pass, ghost
<1>5. ASSUME PublishOk(r) PROVE IInv'
  <2>1. Published(r, i, "mark", 1, 0) /\ faults' \in 0..MaxFaults
    BY <1>2, <1>3, <1>4, <1>5, Zenon DEF PublishOk, Published
  <2> QED
    BY <1>1, <1>2, <2>1, PublishInv, Zenon
<1>6. ASSUME PublishErr(r) PROVE IInv'
  <2>1. Published(r, i, "record", 0, 0)
    BY <1>2, <1>3, <1>6, Zenon DEF PublishErr, Published
  <2>2. faults' \in 0..MaxFaults
    BY <1>4, <1>6, FailingType, Zenon DEF PublishErr
  <2> QED
    BY <1>1, <1>2, <2>1, <2>2, PublishInv, Zenon
<1>7. ASSUME PublishUnsure(r) PROVE IInv'
  <2>1. Published(r, i, "record", 1, 1)
    BY <1>2, <1>7, Zenon DEF PublishUnsure, Published
  <2>2. faults' \in 0..MaxFaults
    BY <1>4, <1>7, FailingType, Zenon DEF PublishUnsure
  <2> QED
    BY <1>1, <1>2, <2>1, <2>2, PublishInv, Zenon
<1> QED
  BY <1>5, <1>6, <1>7, Zenon

(* The transaction's writes wait for its commit: they change nothing yet. *)
LEMMA WriteInTxInv ==
  ASSUME IInv, CurrentFits, NEW r \in Relay, Locking, MarkPublished(r) \/ recordFailure(r)
  PROVE  IInv'
<1>1. TypeOK /\ PassInv /\ RowInv /\ CopyInv
  BY Zenon DEF IInv
<1>2. PassOf(r) /\ todo[r] # {} /\ pc[r] \in {"mark", "record"}
  BY <1>1, Zenon DEF PassInv, PassOf, MarkPublished, recordFailure
<1>3. PICK i \in Id : i = Current(r) /\ i \in todo[r]
  BY <1>1, <1>2, CurrentInTodo, Zenon
<1>4. /\ pc' = [pc EXCEPT ![r] = "drain"] /\ todo' = [todo EXCEPT ![r] = @ \ {i}]
      /\ UNCHANGED <<nextId, st, attempts, aged, copies, notify, stopping, claim, seen, failures, excuse, faults>>
      /\ \/ /\ pc[r] = "mark"
            /\ marked' = [marked EXCEPT ![r] = @ \cup {i}] /\ recorded' = recorded
         \/ /\ pc[r] = "record"
            /\ recorded' = [recorded EXCEPT ![r] = @ \cup {i}] /\ marked' = marked
  BY <1>3, Zenon DEF MarkPublished, recordFailure, Handled, ghost
<1>5. TypeOK'
  <2>1. todo' \in [Relay -> SUBSET Id]
    BY <1>1, <1>4, Zenon DEF TypeOK
  <2>3. ASSUME NEW f \in [Relay -> SUBSET Id] PROVE [f EXCEPT ![r] = @ \cup {i}] \in [Relay -> SUBSET Id]
    <3>1. f[r] \cup {i} \in SUBSET Id
      BY Zenon
    <3> QED
      BY <3>1, Zenon
  <2>4. marked' \in [Relay -> SUBSET Id] /\ recorded' \in [Relay -> SUBSET Id]
    <3>1. marked \in [Relay -> SUBSET Id] /\ recorded \in [Relay -> SUBSET Id]
      BY <1>1, Zenon DEF TypeOK
    <3>2. /\ [marked EXCEPT ![r] = @ \cup {i}] \in [Relay -> SUBSET Id]
          /\ [recorded EXCEPT ![r] = @ \cup {i}] \in [Relay -> SUBSET Id]
      BY <2>3, <3>1, Zenon
    <3> QED
      BY <1>4, <3>1, <3>2, Zenon
  <2>2. pc' \in [Relay -> Stage]
    BY <1>1, <1>4, Zenon DEF TypeOK, Stage
  <2> QED
    BY <1>1, <1>4, <2>1, <2>2, <2>4, Zenon DEF TypeOK
<1>6. Others(r)
  BY <1>1, <1>4, Zenon DEF Others, TypeOK
<1>7. /\ pc'[r] = "drain" /\ todo'[r] = todo[r] \ {i} /\ claim'[r] = claim[r]
      /\ \/ pc[r] = "mark" /\ marked'[r] = marked[r] \cup {i} /\ recorded'[r] = recorded[r]
         \/ pc[r] = "record" /\ recorded'[r] = recorded[r] \cup {i} /\ marked'[r] = marked[r]
  BY <1>1, <1>4, SMTT(30) DEF TypeOK
<1>8. PassOf(r)'
  <2>1. /\ todo'[r] \subseteq claim'[r]
        /\ marked'[r] \cup recorded'[r] \subseteq claim'[r] \ todo'[r]
        /\ marked'[r] \cap recorded'[r] = {}
    <3>1. /\ todo[r] \subseteq claim[r] /\ marked[r] \cup recorded[r] \subseteq claim[r] \ todo[r]
          /\ marked[r] \cap recorded[r] = {}
      BY <1>2, Zenon DEF PassOf
    <3> QED
      BY <1>3, <1>7, <3>1
  <2>2. /\ \A j \in claim'[r] : st'[j] = "pending" /\ seen'[r][j] = attempts'[j]
        /\ \A j \in todo'[r] : st'[j] = "pending" /\ seen'[r][j] = attempts'[j]
    BY <1>2, <1>4, <1>7, <2>1, Zenon DEF PassOf
  <2> QED
    BY <1>7, <2>1, <2>2, Zenon DEF PassOf
<1>9. PassInv'
  <2>1. \A q \in Relay \ {r} : claim[q] \cap claim'[r] = {}
    BY <1>1, <1>7, Zenon DEF PassInv
  <2> QED
    BY <1>1, <1>4, <1>6, <1>8, <2>1, PassStep, Zenon
<1>10. \A q \in Relay : Unmarked(q)' = Unmarked(q) /\ Recording(q)' = Recording(q)
  <2>1. Unmarked(r)' = Unmarked(r) /\ Recording(r)' = Recording(r)
    BY <1>3, <1>7, Zenon DEF Unmarked, Recording
  <2> QED
    BY <1>6, <2>1, OthersHold, Zenon
<1>11. RowInv'
  BY <1>1, <1>4, <1>10 DEF RowInv, Bump
<1>12. CopyInv'
  BY <1>1, <1>4, <1>10, Zenon DEF CopyInv
<1> QED
  BY <1>5, <1>9, <1>11, <1>12, Zenon DEF IInv

LEMMA DrainDoneInv ==
  ASSUME IInv, NEW r \in Relay, Locking, DrainDone(r)
  PROVE  IInv'
<1>1. TypeOK /\ PassInv /\ RowInv /\ CopyInv
  BY Zenon DEF IInv
<1>2. /\ pc[r] = "drain" /\ pc' = [pc EXCEPT ![r] = "commit"]
      /\ UNCHANGED <<nextId, st, attempts, aged, copies, notify, stopping, claim, todo, seen, marked, recorded,
                     failures, excuse, faults>>
  BY Zenon DEF DrainDone, table, pass, ghost
<1>3. TypeOK'
  BY <1>1, <1>2, Zenon DEF TypeOK, Stage
<1>4. Others(r) /\ pc'[r] = "commit"
  BY <1>1, <1>2, Zenon DEF Others, TypeOK
<1>5. PassOf(r)'
  <2>1. PassOf(r)
    BY <1>1, Zenon DEF PassInv
  <2> QED
    BY <1>2, <1>4, <2>1, Zenon DEF PassOf
<1>6. PassInv'
  <2>1. \A q \in Relay \ {r} : claim[q] \cap claim'[r] = {}
    BY <1>1, <1>2, Zenon DEF PassInv
  <2> QED
    BY <1>1, <1>2, <1>4, <1>5, <2>1, PassStep, Zenon
<1>7. \A q \in Relay : Unmarked(q)' = Unmarked(q) /\ Recording(q)' = Recording(q)
  <2>1. Unmarked(r)' = Unmarked(r) /\ Recording(r)' = Recording(r)
    BY <1>2, <1>4, Zenon DEF Unmarked, Recording
  <2> QED
    BY <1>4, <2>1, OthersHold, Zenon
<1>8. RowInv'
  BY <1>1, <1>2, <1>7, Zenon DEF RowInv, Bump
<1>9. CopyInv'
  BY <1>1, <1>2, <1>7, Zenon DEF CopyInv
<1> QED
  BY <1>3, <1>6, <1>8, <1>9, Zenon DEF IInv
(* Without locking every write is its own transaction, and there is one relay. *)
LEMMA WriteAloneInv ==
  ASSUME IInv, CurrentFits, NEW r \in Relay, ~Locking, MarkPublished(r) \/ recordFailure(r) \/ WriteFails(r)
  PROVE  IInv'
<1>1. TypeOK /\ PassInv /\ RowInv /\ CopyInv
  BY Zenon DEF IInv
<1>2. PassOf(r) /\ todo[r] # {} /\ pc[r] \in {"mark", "record"} /\ marked[r] = {} /\ recorded[r] = {}
  BY <1>1, Zenon DEF PassInv, PassOf, MarkPublished, recordFailure, WriteFails
<1>3. PICK i \in Id : i = Current(r) /\ i \in todo[r]
  BY <1>1, <1>2, CurrentInTodo, Zenon
<1>4. /\ st[i] = "pending" /\ seen[r][i] = attempts[i]
      /\ attempts[i] \in 0..CountCap /\ failures[i] \in 0..CountCap /\ attempts[i] <= failures[i]
      /\ copies[i] \in Nat /\ excuse[i] \in Nat
      /\ \A q \in Relay : q = r
  BY <1>1, <1>2, <1>3, OutboxAssumption, Zenon DEF PassOf, TypeOK, RowInv
<1>5. /\ Unmarked(r) = IF pc[r] = "mark" THEN {i} ELSE {}
      /\ Recording(r) = IF pc[r] = "record" THEN {i} ELSE {}
  BY <1>2, <1>3, Zenon DEF Unmarked, Recording
<1> DEFINE n == Bump(attempts[i])
<1>6. n \in 0..CountCap
  BY <1>4, BumpFacts, Zenon
<1> DEFINE Moved ==
      /\ pc' = [pc EXCEPT ![r] = "drain"] /\ todo' = [todo EXCEPT ![r] = @ \ {i}]
      /\ UNCHANGED <<nextId, aged, copies, notify, stopping, claim, seen, marked, recorded, failures>>
      /\ faults' \in 0..MaxFaults
<1>7. Moved
  <2>1. ASSUME MarkPublished(r) \/ recordFailure(r) PROVE Moved
    BY <1>1, <1>3, <2>1, ZenonT(40) DEF MarkPublished, recordFailure, Handled, ghost, TypeOK
  <2>2. ASSUME WriteFails(r) PROVE Moved
    BY <1>1, <1>3, <2>2, FailingType, Zenon DEF WriteFails, Handled, table, TypeOK
  <2> QED
    BY <2>1, <2>2, Zenon
<1> DEFINE Wrote ==
      \/ /\ pc[r] = "mark" /\ st' = [st EXCEPT ![i] = "published"]
         /\ UNCHANGED <<attempts, excuse>>
      \/ /\ pc[r] = "record" /\ attempts' = [attempts EXCEPT ![i] = n]
         /\ st' = IF Quarantine(n) THEN [st EXCEPT ![i] = "failed"] ELSE st
         /\ UNCHANGED excuse
      \/ /\ UNCHANGED <<st, attempts>>
         /\ ExcuseAll(Unmarked(r))
<1>8. Wrote
  <2>1. ASSUME MarkPublished(r) PROVE Wrote
    BY <1>3, <2>1, Zenon DEF MarkPublished, ghost
  <2>2. ASSUME recordFailure(r) PROVE Wrote
    BY <1>3, <1>4, <2>2, Zenon DEF recordFailure, ghost
  <2>3. ASSUME WriteFails(r) PROVE Wrote
    BY <2>3, Zenon DEF WriteFails, table
  <2> QED
    BY <2>1, <2>2, <2>3, Zenon
<1> HIDE DEF n
<1> DEFINE RowsAfter ==
      /\ st' \in [Id -> {"none", "open", "aborted", "pending", "published", "failed", "gone"}]
      /\ attempts' \in [Id -> 0..CountCap] /\ excuse' \in [Id -> Nat]
      /\ \A j \in Id \ {i} : st'[j] = st[j] /\ attempts'[j] = attempts[j] /\ excuse'[j] = excuse[j]
      /\ \/ pc[r] = "mark" /\ st'[i] = "published" /\ attempts'[i] = attempts[i] /\ excuse'[i] = excuse[i]
         \/ /\ pc[r] = "record" /\ attempts'[i] = n /\ excuse'[i] = excuse[i]
            /\ st'[i] = IF Quarantine(n) THEN "failed" ELSE "pending"
         \/ /\ st'[i] = "pending" /\ attempts'[i] = attempts[i]
            /\ excuse'[i] = IF pc[r] = "mark" THEN excuse[i] + 1 ELSE excuse[i]
<1>9. RowsAfter
  <2>1. ASSUME ExcuseAll(Unmarked(r)), UNCHANGED <<st, attempts>> PROVE RowsAfter
    BY <1>1, <1>4, <1>5, <2>1, ExcuseType DEF TypeOK
  <2>2. ASSUME pc[r] = "mark", st' = [st EXCEPT ![i] = "published"], UNCHANGED <<attempts, excuse>> PROVE RowsAfter
    BY <1>1, <2>2, Zenon DEF TypeOK
  <2>3. ASSUME pc[r] = "record", attempts' = [attempts EXCEPT ![i] = n],
               st' = IF Quarantine(n) THEN [st EXCEPT ![i] = "failed"] ELSE st, UNCHANGED excuse
        PROVE  RowsAfter
    BY <1>1, <1>4, <1>6, <2>3, Zenon DEF TypeOK
  <2> QED
    BY <1>8, <2>1, <2>2, <2>3, Zenon
<1>10. TypeOK'
  <2>1. todo' \in [Relay -> SUBSET Id] /\ pc' \in [Relay -> Stage]
    BY <1>1, <1>7, Zenon DEF TypeOK, Stage
  <2> QED
    BY <1>1, <1>7, <1>9, <2>1, Zenon DEF TypeOK
<1>11. pc'[r] = "drain" /\ todo'[r] = todo[r] \ {i} /\ todo[r] \subseteq Id
  BY <1>1, <1>7, Zenon DEF TypeOK
<1>12. PassInv'
  <2>1. PassOf(r)'
    BY <1>2, <1>7, <1>9, <1>11, ZenonT(40) DEF PassOf
  <2> QED
    BY <1>4, <2>1, ZenonT(40) DEF PassInv
<1>13. Unmarked(r)' = {} /\ Recording(r)' = {}
  BY <1>2, <1>7, <1>11, Zenon DEF Unmarked, Recording
<1>14. RowInv'
  <2> SUFFICES ASSUME NEW j \in Id PROVE RowInv!(j)'
    BY Zenon DEF RowInv
  <2>1. RowInv!(j)
    BY <1>1, Zenon DEF RowInv
  <2>2. /\ \A q \in Relay : j \in Unmarked(q)' => copies'[j] > 0
        /\ \A q \in Relay : j \in Recording(q)' => Bump(attempts[j])' <= failures'[j]
    BY <1>4, <1>13, Zenon
  <2>3. CASE j # i
    BY <1>7, <1>9, <2>1, <2>2, <2>3, Zenon
  <2>4. CASE j = i
    <3>1. pc[r] = "mark" => copies[i] > 0
      BY <1>5, <2>1, <2>4, Zenon
    <3>2. pc[r] = "record" => n <= failures[i]
      BY <1>5, <2>1, <2>4, SMTT(30) DEF n
    <3>3. n \in Nat /\ failures[i] \in Nat /\ MaxAttempts \in Nat
      BY <1>4, <1>6, Numbers, SMTT(30)
    <3>4. attempts'[i] <= failures'[i]
      BY <1>4, <1>7, <1>9, <3>2, SMTT(90)
    <3>5. st'[i] = "failed" => MaxAttempts > 0 /\ failures'[i] >= MaxAttempts
      BY <1>7, <1>9, <3>2, <3>3, SMTT(30) DEF Quarantine
    <3>6. i \notin aged /\ ~(i >= nextId)
      BY <1>4, <2>1, <2>4, Zenon
    <3>7. /\ st'[i] \in {"pending", "published", "failed"}
          /\ st'[i] = "published" => copies[i] > 0
      BY <1>9, <3>1, Zenon
    <3> QED
      BY <1>7, <2>2, <2>4, <3>4, <3>5, <3>6, <3>7, Zenon
  <2> QED
    BY <2>3, <2>4, Zenon
<1>15. CopyInv'
  <2> SUFFICES ASSUME NEW j \in Id PROVE CopyInv!(j)'
    BY Zenon DEF CopyInv
  <2>1. CopyInv!(j)
    BY <1>1, Zenon DEF CopyInv
  <2>2. \A q \in Relay : j \notin Unmarked(q)'
    BY <1>4, <1>13, SMTT(30)
  <2>3. CASE j # i
    <3>1. \A q \in Relay : j \notin Unmarked(q)
      BY <1>4, <1>5, <2>3, Zenon
    <3> QED
      BY <1>7, <1>9, <2>1, <2>2, <2>3, <3>1, SMTT(30)
  <2>4. CASE j = i
    <3>1. pc[r] # "mark" => copies[i] <= excuse[i]
      BY <1>4, <1>5, <2>1, <2>4, Zenon
    <3>2. copies[i] <= excuse[i] + 1
      BY <1>4, <2>1, <2>4
    <3>3. st'[i] \in {"published", "gone"} => copies'[i] <= excuse'[i] + 1
      BY <1>4, <1>7, <1>9, <3>2, Zenon
    <3>4. st'[i] \notin {"published", "gone"} => copies'[i] <= excuse'[i]
      BY <1>4, <1>7, <1>9, <3>1, <3>2, Zenon
    <3> QED
      BY <2>2, <2>4, <3>3, <3>4, Zenon
  <2> QED
    BY <2>3, <2>4, ZenonT(40)
<1> QED
  BY <1>10, <1>12, <1>14, <1>15, Zenon DEF IInv
(* The pass's transaction commits: its marks and failure records take effect. *)
LEMMA CommitInv ==
  ASSUME IInv, CurrentFits, NEW r \in Relay, CommitPass(r)
  PROVE  IInv'
<1>1. TypeOK /\ PassInv /\ RowInv /\ CopyInv
  BY Zenon DEF IInv
<1>2. /\ pc[r] = "commit" /\ pc' = [pc EXCEPT ![r] = "prune"] /\ EndPass(r)
      /\ UNCHANGED <<nextId, aged, copies, notify, stopping, failures, excuse, faults>>
      /\ attempts' = [i \in Id |-> IF i \in recorded[r] THEN Bump(seen[r][i]) ELSE attempts[i]]
      /\ st' = [i \in Id |-> IF i \in marked[r] THEN "published"
                             ELSE IF i \in recorded[r] /\ Quarantine(Bump(seen[r][i])) THEN "failed"
                             ELSE st[i]]
  BY Zenon DEF CommitPass, ghost
<1>3. PassOf(r) /\ Locking /\ Unmarked(r) = marked[r] /\ Recording(r) = recorded[r]
  BY <1>1, <1>2, Zenon DEF PassInv, PassOf, Unmarked, Recording
<1>4. \A i \in marked[r] \cup recorded[r] : i \in claim[r] /\ st[i] = "pending" /\ seen[r][i] = attempts[i]
  BY <1>3, Zenon DEF PassOf
<1>5. \A i \in Id : attempts'[i] = IF i \in recorded[r] THEN Bump(attempts[i]) ELSE attempts[i]
  BY <1>2, <1>4, Zenon
<1>6. \A i \in Id : /\ i \in marked[r] => st[i] = "pending" /\ st'[i] = "published"
                    /\ i \in recorded[r] => /\ st[i] = "pending"
                                            /\ st'[i] = IF Quarantine(Bump(attempts[i])) THEN "failed" ELSE "pending"
                    /\ i \notin marked[r] \cup recorded[r] => st'[i] = st[i]
  <2>1. marked[r] \cap recorded[r] = {}
    BY <1>3, Zenon DEF PassOf
  <2> QED
    BY <1>2, <1>4, <2>1, Zenon
<1>7. TypeOK'
  <2>1. attempts' \in [Id -> 0..CountCap]
    <3>1. ASSUME NEW i \in Id PROVE attempts'[i] \in 0..CountCap
      BY <1>1, <1>5, BumpFacts, Zenon DEF TypeOK
    <3> QED
      BY <1>2, <3>1, Zenon
  <2>2. st' \in [Id -> {"none", "open", "aborted", "pending", "published", "failed", "gone"}]
    BY <1>1, <1>2, Zenon DEF TypeOK
  <2>3. pc' \in [Relay -> Stage]
    BY <1>1, <1>2, SMTT(30) DEF TypeOK, Stage
  <2> QED
    BY <1>1, <1>2, <2>1, <2>2, <2>3, EndPassType, Zenon DEF TypeOK
<1>8. Others(r) /\ pc'[r] = "prune" /\ claim'[r] = {} /\ todo'[r] = {} /\ marked'[r] = {} /\ recorded'[r] = {}
  BY <1>1, <1>2, EndPassType, ZenonT(40) DEF Others, TypeOK
<1>9. PassInv'
  <2>1. PassOf(r)'
    BY <1>8, ZenonT(40) DEF PassOf
  <2> QED
    BY <1>1, <1>4, <1>5, <1>6, <1>8, <2>1, PassStep, ZenonT(40)
<1>10. Unmarked(r)' = {} /\ Recording(r)' = {}
  BY <1>8, Zenon DEF Unmarked, Recording
<1>11. \A q \in Relay \ {r} : Unmarked(q)' = Unmarked(q) /\ Recording(q)' = Recording(q)
  BY <1>8, OthersHold, Zenon
<1>12. \A q \in Relay \ {r} : /\ Unmarked(q) \cap (marked[r] \cup recorded[r]) = {}
                              /\ Recording(q) \cap (marked[r] \cup recorded[r]) = {}
  BY <1>1, <1>4, HeldIsClaimed, Zenon
<1>13. RowInv'
  <2> SUFFICES ASSUME NEW i \in Id PROVE RowInv!(i)'
    BY Zenon DEF RowInv
  <2>1. RowInv!(i) /\ attempts[i] \in 0..CountCap /\ failures[i] \in 0..CountCap
    BY <1>1, Zenon DEF RowInv, TypeOK
  <2>2. i \in marked[r] => copies[i] > 0
    BY <1>3, <2>1, Zenon
  <2>3. i \in recorded[r] => Bump(attempts[i]) <= failures[i]
    BY <1>3, <2>1, SMTT(30)
  <2>4. \A q \in Relay : i \in Unmarked(q)' => copies'[i] > 0
    BY <1>2, <1>10, <1>11, <2>1, Zenon
  <2>5. \A q \in Relay : i \in Recording(q)' => Bump(attempts[i])' <= failures'[i]
    <3>1. ASSUME NEW q \in Relay, i \in Recording(q)' PROVE Bump(attempts[i])' <= failures'[i]
      <4>1. q # r /\ i \in Recording(q) /\ i \notin recorded[r]
        BY <1>10, <1>11, <1>12, <3>1, Zenon
      <4> QED
        BY <1>2, <1>5, <2>1, <4>1, Zenon DEF Bump
    <3> QED
      BY <3>1, SMTT(30)
  <2>6. attempts'[i] <= failures'[i]
    BY <1>2, <1>5, <2>1, <2>3, Zenon
  <2>7. st'[i] = "failed" => MaxAttempts > 0 /\ failures'[i] >= MaxAttempts
    <3>1. CASE i \in recorded[r]
      <4>1. Bump(attempts[i]) \in Nat /\ failures[i] \in Nat /\ MaxAttempts \in Nat
        BY <2>1, BumpFacts, Numbers, SMTT(30)
      <4> QED
        BY <1>2, <1>6, <2>3, <3>1, <4>1 DEF Quarantine
    <3>2. CASE i \notin recorded[r]
      BY <1>2, <1>6, <2>1, <3>2, SMTT(90)
    <3> QED
      BY <3>1, <3>2, SMTT(30)
  <2>8. /\ copies'[i] > 0 => st'[i] \in {"pending", "published", "failed", "gone"}
        /\ st'[i] \in {"published", "gone"} => copies'[i] > 0
        /\ i \in aged' => st'[i] = "published"
        /\ i >= nextId' => st'[i] = "none"
    BY <1>2, <1>6, <2>1, <2>2, Zenon
  <2> QED
    BY <2>4, <2>5, <2>6, <2>7, <2>8, Zenon
<1>14. CopyInv'
  <2> SUFFICES ASSUME NEW i \in Id PROVE CopyInv!(i)'
    BY Zenon DEF CopyInv
  <2>1. CopyInv!(i) /\ copies[i] \in Nat /\ excuse[i] \in Nat
    BY <1>1, Zenon DEF CopyInv, TypeOK
  <2>2. CASE i \in marked[r]
    <3>1. copies[i] <= excuse[i] + 1
      BY <1>3, <2>1, <2>2, ZenonT(40)
    <3> QED
      BY <1>2, <1>6, <2>2, <3>1, Zenon
  <2>3. CASE i \notin marked[r]
    <3>1. (\E q \in Relay : i \in Unmarked(q)) <=> (\E q \in Relay : i \in Unmarked(q)')
      BY <1>3, <1>10, <1>11, <2>3, Zenon
    <3>2. st'[i] \in {"published", "gone"} <=> st[i] \in {"published", "gone"}
      BY <1>6, <2>3, Zenon
    <3> QED
      BY <1>2, <2>1, <3>1, <3>2, SMTT(90)
  <2> QED
    BY <2>2, <2>3, Zenon
<1> QED
  BY <1>7, <1>9, <1>13, <1>14, Zenon DEF IInv

-----------------------------------------------------------------------------
(* Every step. *)

LEMMA StutterInv ==
  ASSUME IInv, UNCHANGED vars
  PROVE  IInv'
<1>1. UNCHANGED <<nextId, st, attempts, aged, copies, pc, notify, stopping, claim, todo, seen, marked, recorded,
                  failures, excuse, faults>>
  BY Zenon DEF vars, table, pass, ghost
<1>2. TypeOK' /\ PassInv'
  BY <1>1 DEF IInv, TypeOK, PassInv, PassOf
<1>3. \A r \in Relay : Unmarked(r)' = Unmarked(r) /\ Recording(r)' = Recording(r)
  BY <1>1, Zenon DEF Unmarked, Recording, Current
<1>4. RowInv'
  BY <1>1, <1>3 DEF IInv, RowInv, Bump
<1>5. CopyInv'
  BY <1>1, <1>3, Zenon DEF IInv, CopyInv
<1> QED
  BY <1>2, <1>4, <1>5, Zenon DEF IInv

-----------------------------------------------------------------------------
(* The first row of a pass exists: the rows are numbered, and a set of      *)
(* numbers has a least one.                                                 *)
INSTANCE WellFoundedInduction

LEMMA CurrentExists == TypeOK => CurrentFits
<1> SUFFICES ASSUME TypeOK, NEW r \in Relay, todo[r] # {} PROVE Current(r) \in todo[r]
  BY Zenon DEF CurrentFits
<1> DEFINE Below == {ss \in Nat \X Nat : ss[1] < ss[2]}
<1>2. todo[r] \subseteq Id /\ todo[r] \subseteq Nat
  BY Numbers, Zenon DEF TypeOK
<1>3. IsWellFoundedOn(Below, Nat)
  BY NatLessThanWellFounded, Zenon DEF OpToRel
<1>4. \E i \in todo[r] : \A j \in todo[r] : ~(<<j, i>> \in Below)
  <2> HIDE DEF Below
  <2> QED
    BY <1>2, <1>3, WFMin, Zenon
<1>5. \E i \in todo[r] : \A j \in todo[r] : i <= j
  <2>1. PICK i \in todo[r] : \A j \in todo[r] : ~(<<j, i>> \in Below)
    BY <1>4, Zenon
  <2>2. ASSUME NEW j \in todo[r] PROVE i <= j
    <3>1. i \in Nat /\ j \in Nat /\ ~(<<j, i>> \in Below)
      BY <1>2, <2>1, Zenon
    <3>2. ~(j < i)
      BY <3>1, Zenon
    <3> QED
      BY <3>1, <3>2
  <2> QED
    BY <2>2, Zenon
<1> QED
  BY <1>5, Zenon DEF Current

LEMMA NextInv == IInv /\ [Next]_vars => IInv'
<1> SUFFICES ASSUME IInv, CurrentFits, [Next]_vars PROVE IInv'
  BY CurrentExists, Zenon DEF IInv
<1>1. ASSUME NEW r \in Relay, WorkerStep(r) PROVE IInv'
  <2>1. CASE pendingRowsFails(r) \/ Tick(r) \/ Notified(r) \/ Stop(r)
    BY <2>1, QuietInv, Zenon DEF Quiet
  <2>2. CASE pendingRows(r)
    BY <2>2, ReadInv, Zenon
  <2>3. CASE PublishOk(r) \/ PublishErr(r) \/ PublishUnsure(r)
    BY <2>3, PublishStepInv, Zenon
  <2>4. CASE MarkPublished(r) \/ recordFailure(r)
    BY <2>4, WriteInTxInv, WriteAloneInv, Zenon
  <2>5. CASE WriteFails(r)
    BY <2>5, FailedPassInv, WriteAloneInv, Zenon
  <2>6. CASE DrainDone(r)
    BY <2>6, FailedPassInv, DrainDoneInv, Zenon
  <2>7. CASE DrainCancelled(r) \/ CommitFails(r)
    BY <2>7, FailedPassInv, Zenon
  <2>8. CASE CommitPass(r)
    BY <2>8, CommitInv, Zenon
  <2>9. CASE PrunePublished(r)
    BY <2>9, PruneInv, Zenon
  <2> QED
    BY <1>1, <2>1, <2>2, <2>3, <2>4, <2>5, <2>6, <2>7, <2>8, <2>9, Zenon DEF WorkerStep
<1>2. ASSUME NEW r \in Relay, Enqueue(r) \/ Cancel(r) \/ Restart(r) PROVE IInv'
  BY <1>2, QuietInv, Zenon DEF Quiet
<1>3. ASSUME NEW r \in Relay, Crash(r) PROVE IInv'
  BY <1>3, FailedPassInv, Zenon
<1>4. ASSUME NEW i \in Id, TxCommit(i) \/ TxAbort(i) \/ Age(i) PROVE IInv'
  BY <1>4, QuietInv, Zenon DEF Quiet
<1>5. CASE UNCHANGED vars
  BY <1>5, StutterInv, Zenon
<1> QED
  BY <1>1, <1>2, <1>3, <1>4, <1>5, Zenon DEF Next
-----------------------------------------------------------------------------
(* Whatever relays, rows and faults there are, IInv holds in every state    *)
(* the outbox (Enqueue, PublishPending, PrunePublished) can reach.          *)
THEOREM OutboxInvariant == Spec => []IInv
<1>1. Init => IInv
  BY InitInv, Zenon
<1>2. IInv /\ [Next]_vars => IInv'
  BY NextInv, Zenon
<1> QED
  BY <1>1, <1>2, PTL DEF Spec

(* Enqueue with PublishPending: the broker only ever holds committed events, *)
(* and a row is marked published only once the broker has it.                *)
THEOREM OutboxNeverLost == Spec => []NeverLostNorFabricated
<1>1. IInv => NeverLostNorFabricated
  BY Zenon DEF IInv, RowInv, NeverLostNorFabricated
<1> QED
  BY <1>1, OutboxInvariant, PTL

(* PublishPending under SKIP LOCKED: no event is sent twice unless a mark   *)
(* was lost to a crash or a failed commit, or Publish reported an error for *)
(* a message the broker stored.                                             *)
THEOREM OutboxDuplicates == Spec => []DuplicatesExcused
<1>1. IInv => DuplicatesExcused
  <2> SUFFICES ASSUME IInv, NEW i \in Id PROVE copies[i] <= excuse[i] + 1
    BY Zenon DEF DuplicatesExcused
  <2>1. copies[i] \in Nat /\ excuse[i] \in Nat
    BY Zenon DEF IInv, TypeOK
  <2>2. copies[i] <= excuse[i] + 1 \/ copies[i] <= excuse[i]
    BY Zenon DEF IInv, CopyInv
  <2> QED
    BY <2>1, <2>2
<1> QED
  BY <1>1, OutboxInvariant, PTL

(* recordFailure: a row is quarantined only after MaxAttempts publish calls *)
(* for it really failed.                                                    *)
THEOREM OutboxQuarantine == Spec => []QuarantineEarned
<1>1. IInv => QuarantineEarned
  BY Zenon DEF IInv, RowInv, QuarantineEarned
<1> QED
  BY <1>1, OutboxInvariant, PTL

(* relay.go:136-276: the books of the outbox, on both paths: what is marked  *)
(* was published, what was published is a committed message, and what is     *)
(* quarantined failed MaxAttempts times.                                     *)
THEOREM OutboxRows == Spec => []RowsAccounted
<1>1. IInv => TypeOK
  BY Zenon DEF IInv
<1> QED
  BY <1>1, OutboxInvariant, OutboxNeverLost, OutboxQuarantine, PTL DEF RowsAccounted

(* What a step may do to the rows and to the broker. *)
Opened(i) == st[i] = "none" /\ st' = [st EXCEPT ![i] = "open"] /\ copies' = copies
Closed(i, s) == st[i] = "open" /\ st' = [st EXCEPT ![i] = s] /\ copies' = copies
Sent(i) == st[i] = "pending" /\ st' = st /\ copies' = [copies EXCEPT ![i] = @ + 1]
Decided(S, D) ==
  /\ \A i \in S \cup D : st[i] = "pending"
  /\ \A i \in S : copies[i] > 0
  /\ st' = [i \in Id |-> IF i \in S THEN "published" ELSE IF i \in D THEN "failed" ELSE st[i]]
  /\ copies' = copies
Swept(S) ==
  /\ \A i \in S : st[i] = "published"
  /\ st' = [i \in Id |-> IF i \in S THEN "gone" ELSE st[i]]
  /\ copies' = copies
Idle == st' = st /\ copies' = copies

Effect ==
  \/ Idle
  \/ \E i \in Id : Opened(i) \/ Closed(i, "pending") \/ Closed(i, "aborted") \/ Sent(i)
  \/ \E S, D \in SUBSET Id : Decided(S, D)
  \/ \E S \in SUBSET Id : Swept(S)

LEMMA WorkerEffect ==
  ASSUME IInv, CurrentFits, NEW r \in Relay, WorkerStep(r)
  PROVE  Effect
<1>1. TypeOK /\ PassInv /\ RowInv /\ PassOf(r)
  BY Zenon DEF IInv, PassInv
<1>2. todo[r] # {} => /\ Current(r) \in Id /\ Current(r) \in todo[r]
                      /\ st[Current(r)] = "pending" /\ seen[r][Current(r)] = attempts[Current(r)]
  BY <1>1, CurrentInTodo, Zenon DEF PassOf
<1>3. CASE pendingRows(r) \/ pendingRowsFails(r) \/ WriteFails(r) \/ DrainCancelled(r) \/ DrainDone(r)
           \/ CommitFails(r) \/ Tick(r) \/ Notified(r) \/ Stop(r) \/ PublishErr(r)
  <2>1. Idle
    BY <1>3, Zenon DEF pendingRows, pendingRowsFails, WriteFails, DrainCancelled, DrainDone, CommitFails, Tick, Notified,
                Stop, PublishErr, Idle, table
  <2> QED
    BY <2>1, Zenon DEF Effect
<1>4. CASE PublishOk(r) \/ PublishUnsure(r)
  <2>1. todo[r] # {} /\ Sent(Current(r))
    BY <1>2, <1>4, Zenon DEF PublishOk, PublishUnsure, Sent, table
  <2> QED
    BY <1>2, <2>1, Zenon DEF Effect
<1>5. CASE MarkPublished(r)
  <2>1. todo[r] # {} /\ Current(r) \in Unmarked(r) /\ copies' = copies
    BY <1>1, <1>5, Zenon DEF MarkPublished, PassOf, Unmarked
  <2>2. CASE Locking
    BY <1>5, <2>1, <2>2, Zenon DEF MarkPublished, Effect, Idle
  <2>3. CASE ~Locking
    <3>1. PICK i \in Id : i = Current(r)
      BY <1>2, <2>1, Zenon
    <3>2. st' = [st EXCEPT ![i] = "published"] /\ st[i] = "pending" /\ copies[i] > 0
      BY <1>1, <1>2, <1>5, <2>1, <2>3, <3>1, Zenon DEF MarkPublished, RowInv
    <3>3. Decided({i}, {})
      BY <1>1, <2>1, <3>2, Zenon DEF Decided, TypeOK
    <3> QED
      BY <3>3, Zenon DEF Effect
  <2> QED
    BY <2>2, <2>3, Zenon
<1>6. CASE recordFailure(r)
  <2>1. todo[r] # {} /\ copies' = copies
    BY <1>1, <1>6, Zenon DEF recordFailure, PassOf
  <2>2. PICK i \in Id : i = Current(r)
    BY <1>2, <2>1, Zenon
  <2>3. st' = st \/ (st[i] = "pending" /\ st' = [st EXCEPT ![i] = "failed"])
    BY <1>2, <1>6, <2>1, <2>2, Zenon DEF recordFailure
  <2>4. CASE st' = st
    BY <2>1, <2>4, Zenon DEF Effect, Idle
  <2>5. CASE st[i] = "pending" /\ st' = [st EXCEPT ![i] = "failed"]
    <3>1. Decided({}, {i})
      BY <1>1, <2>1, <2>5, Zenon DEF Decided, TypeOK
    <3> QED
      BY <3>1, Zenon DEF Effect
  <2> QED
    BY <2>3, <2>4, <2>5, Zenon
<1>7. CASE CommitPass(r)
  <2> DEFINE D == {i \in recorded[r] : Quarantine(Bump(seen[r][i]))}
  <2>1. marked[r] \in SUBSET Id /\ D \in SUBSET Id /\ Locking
    BY <1>1, <1>7, Zenon DEF TypeOK, PassOf, CommitPass
  <2>2. \A i \in marked[r] \cup D : st[i] = "pending"
    BY <1>1, <2>1, Zenon DEF PassOf
  <2>3. \A i \in marked[r] : copies[i] > 0
    BY <1>1, <2>1, Zenon DEF RowInv, Unmarked
  <2>4. Decided(marked[r], D)
    BY <1>7, <2>2, <2>3, Zenon DEF Decided, CommitPass
  <2> QED
    BY <2>1, <2>4, Zenon DEF Effect
<1>8. CASE PrunePublished(r)
  <2>1. copies' = copies /\ Prunable \in SUBSET Id /\ \A i \in Prunable : st[i] = "published"
    BY <1>1, <1>8, Zenon DEF PrunePublished, Prunable, TypeOK, RowInv
  <2>2. st' = st \/ st' = [i \in Id |-> IF i \in Prunable THEN "gone" ELSE st[i]]
    BY <1>8, Zenon DEF PrunePublished
  <2>3. Idle \/ Swept(Prunable)
    BY <2>1, <2>2, Zenon DEF Swept, Idle
  <2> QED
    BY <2>1, <2>3, Zenon DEF Effect
<1> QED
  BY <1>3, <1>4, <1>5, <1>6, <1>7, <1>8, Zenon DEF WorkerStep

LEMMA NextEffect ==
  ASSUME IInv, CurrentFits, [Next]_vars
  PROVE  Effect
<1>1. ASSUME NEW r \in Relay, Enqueue(r) PROVE Effect
  <2>1. nextId \in Id /\ st[nextId] = "none" /\ Opened(nextId)
    BY <1>1, Numbers DEF Enqueue, IInv, RowInv, Opened
  <2> QED
    BY <2>1, Zenon DEF Effect
<1>2. ASSUME NEW r \in Relay, Cancel(r) \/ Crash(r) \/ Restart(r) PROVE Effect
  BY <1>2, Zenon DEF Cancel, Crash, Restart, Effect, Idle, table
<1>3. ASSUME NEW i \in Id, TxCommit(i) \/ TxAbort(i) \/ Age(i) PROVE Effect
  BY <1>3, Zenon DEF TxCommit, TxAbort, Age, Effect, Idle, Closed
<1>4. CASE UNCHANGED vars
  BY <1>4, Zenon DEF vars, table, Effect, Idle
<1> QED
  BY <1>1, <1>2, <1>3, <1>4, WorkerEffect, Zenon DEF Next
RowsForward ==
  \A i \in Id :
    /\ st[i] = "published" => st'[i] \in {"published", "gone"}
    /\ st[i] \in {"failed", "gone", "aborted"} => st'[i] = st[i]
    /\ st[i] = "pending" => st'[i] \in {"pending", "published", "failed"}

(* PublishPending, recordFailure and PrunePublished: no step un-publishes a *)
(* row, revives a quarantined one, or prunes one that was not published.    *)
THEOREM OutboxRowsForward == Spec => RowsMoveForward
<1>1. IInv /\ [Next]_vars => [RowsForward]_vars
  <2> SUFFICES ASSUME IInv, [Next]_vars PROVE RowsForward
    BY Zenon
  <2>1. Effect /\ st \in [Id -> {"none", "open", "aborted", "pending", "published", "failed", "gone"}]
    BY NextEffect, CurrentExists, Zenon DEF IInv, TypeOK
  <2>2. CASE Idle
    BY <2>2, Zenon DEF Idle, RowsForward
  <2>3. ASSUME NEW i \in Id, Opened(i) \/ Closed(i, "pending") \/ Closed(i, "aborted") \/ Sent(i) PROVE RowsForward
    BY <2>1, <2>3, Zenon DEF Opened, Closed, Sent, RowsForward
  <2>4. ASSUME NEW S \in SUBSET Id, NEW D \in SUBSET Id, Decided(S, D) PROVE RowsForward
    BY <2>4, Zenon DEF Decided, RowsForward
  <2>5. ASSUME NEW S \in SUBSET Id, Swept(S) PROVE RowsForward
    BY <2>5, Zenon DEF Swept, RowsForward
  <2> QED
    BY <2>1, <2>2, <2>3, <2>4, <2>5, Zenon DEF Effect
<1>2. RowsMoveForward <=> [][RowsForward]_vars
  BY PTL DEF RowsMoveForward, RowsForward
<1> QED
  BY <1>1, <1>2, OutboxInvariant, PTL DEF Spec

(* The outbox (Enqueue, relays, faults) implements at-least-once delivery   *)
(* of committed events: every step is a step of the promise or a stutter.   *)
THEOREM OutboxRefinement == Spec => ImplementsAtLeastOnce
<1>1. Init => Promised!PromiseInit
  BY Zenon DEF Init, Promised!PromiseInit, PhaseOf
<1>2. IInv /\ [Next]_vars => [Promised!PromiseNext]_Promised!promiseVars
  <2> SUFFICES ASSUME IInv, [Next]_vars PROVE [Promised!PromiseNext]_Promised!promiseVars
    BY Zenon
  <2>1. Effect /\ st \in [Id -> {"none", "open", "aborted", "pending", "published", "failed", "gone"}]
    BY NextEffect, CurrentExists, Zenon DEF IInv, TypeOK
  <2>2. CASE Idle
    <3>1. Promised!promiseVars' = Promised!promiseVars
      BY <2>2, Zenon DEF Idle, Promised!promiseVars
    <3> QED
      BY <3>1, Zenon
  <2>3. ASSUME NEW i \in Id, Opened(i) PROVE Promised!Record(i)
    BY <2>1, <2>3, Zenon DEF Opened, Promised!Record, Promised!Move, PhaseOf
  <2>4. ASSUME NEW i \in Id, Closed(i, "pending") PROVE Promised!Accept(i)
    BY <2>1, <2>4, Zenon DEF Closed, Promised!Accept, Promised!Move, PhaseOf
  <2>5. ASSUME NEW i \in Id, Closed(i, "aborted") PROVE Promised!AbortEvent(i)
    BY <2>1, <2>5, Zenon DEF Closed, Promised!AbortEvent, Promised!Move, PhaseOf
  <2>6. ASSUME NEW i \in Id, Sent(i) PROVE Promised!Deliver(i)
    BY <2>1, <2>6, Zenon DEF Sent, Promised!Deliver, PhaseOf
  <2>7. ASSUME NEW S \in SUBSET Id, NEW D \in SUBSET Id, Decided(S, D) PROVE Promised!Settle(S, D)
    BY <2>1, <2>7, Zenon DEF Decided, Promised!Settle, PhaseOf
  <2>8. ASSUME NEW S \in SUBSET Id, Swept(S) PROVE Promised!promiseVars' = Promised!promiseVars
    BY <2>1, <2>8, Zenon DEF Swept, Promised!promiseVars, PhaseOf
  <2> QED
    BY <2>1, <2>2, <2>3, <2>4, <2>5, <2>6, <2>7, <2>8, Zenon DEF Effect, Promised!PromiseNext
<1> QED
  BY <1>1, <1>2, OutboxInvariant, PTL DEF Spec, ImplementsAtLeastOnce, Promised!Promise

-----------------------------------------------------------------------------
(* What TLC checks: two relays that lock the rows of their passes; or, where *)
(* the database has no locks, one of them alone, the other not running.      *)

CONSTANT Single     \* the relay that runs alone

VARIABLE mode       \* "locking" or "single", the same for good

Alone == INSTANCE Outbox WITH Relay <- {Single}, Locking <- FALSE

MCInit == Init /\ mode \in {"locking", "single"}

MCNext ==
  /\ \/ mode = "locking" /\ Next
     \/ mode = "single" /\ Alone!Next
  /\ UNCHANGED mode

Worker(r) ==
  \/ mode = "locking" /\ WorkerStep(r)
  \/ mode = "single" /\ r = Single /\ Alone!WorkerStep(r)

\* The fairness of Outbox; Stop and Restart are the same in both modes.
MCSpec ==
  /\ MCInit /\ [][MCNext]_<<vars, mode>>
  /\ \A r \in Relay : WF_vars(Worker(r)) /\ SF_vars(Stop(r)) /\ WF_vars(Restart(r))

(* relay.go:169-300: a row only moves forward, and every committed message   *)
(* is in the end published or quarantined.                                   *)
RowsAdvance == RowsMoveForward /\ EventuallySettled
=============================================================================
