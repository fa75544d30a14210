------------------------------ MODULE RowUpdate -----------------------------
(***************************************************************************)
(* gormx's two ways to change a row from its present value: read it with   *)
(* LockForUpdate in RunTx, compute, and Update; or one guarded UpdateMap.  *)
(* Several workers change one number of one row, on an engine with row     *)
(* locks or on SQLite, which drops the locking clause and serialises       *)
(* writers.                                                                *)
(***************************************************************************)
EXTENDS Integers, FiniteSetsExt

CONSTANTS
  Worker,
  Change,      \* what each worker adds
  Guarded,     \* the workers that use UpdateMap
  Start, Capacity,
  SQLite,      \* BOOLEAN
  None

VARIABLES
  balance,     \* the committed value
  version,     \* how often it has been committed
  holder,      \* who has the row lock, or SQLite's write lock, or None
  pc,          \* per worker
  seen,        \* what it has read, [value, version]
  pending      \* what it has written in its transaction

vars == <<balance, version, holder, pc, seen, pending>>

Init ==
  /\ balance = Start /\ version = 0 /\ holder = None
  /\ pc = [w \in Worker |-> IF w \in Guarded THEN "guarded" ELSE "read"]
  /\ seen = [w \in Worker |-> [value |-> Start, version |-> 0]]
  /\ pending = [w \in Worker |-> Start]

\* LockForUpdate emits FOR UPDATE, and the SQLite driver drops it.
Locks == ~SQLite

\* LockForUpdate().Get: waits for the lock, then reads what is committed.
Read(w) ==
  /\ pc[w] = "read"
  /\ IF Locks THEN holder = None /\ holder' = w ELSE UNCHANGED holder
  /\ seen' = [seen EXCEPT ![w] = [value |-> balance, version |-> version]]
  /\ pc' = [pc EXCEPT ![w] = "update"]
  /\ UNCHANGED <<balance, version, pending>>

\* Update(item) writes the non-zero fields only.
Written(new) == IF new = 0 THEN balance ELSE new

\* A fault of Stale: SQLite lets any transaction write when nobody else does.
StaleNever(w) == FALSE

\* What the transaction has read is no longer what is committed.
Stale(w) == seen[w].version # version

\* Update: on SQLite the transaction that has read an older version cannot write.
Update(w) ==
  /\ pc[w] = "update"
  /\ IF SQLite /\ (holder # None \/ Stale(w))
       THEN pc' = [pc EXCEPT ![w] = "failed"] /\ UNCHANGED <<holder, pending>>
       ELSE /\ holder \in {None, w} /\ holder' = w
            /\ pending' = [pending EXCEPT ![w] = Written(seen[w].value + Change[w])]
            /\ pc' = [pc EXCEPT ![w] = "commit"]
  /\ UNCHANGED <<balance, version, seen>>

\* The WHERE clause of the guarded update.
Admits(w) == balance + Change[w] \in 0..Capacity

\* UpdateMap with an Expr: one statement, on the row as it is; no rows when the guard
\* rejects it.
UpdateMap(w) ==
  /\ pc[w] = "guarded"
  /\ IF SQLite /\ holder # None
       THEN pc' = [pc EXCEPT ![w] = "failed"] /\ UNCHANGED <<holder, pending>>
       ELSE /\ holder = None
            /\ IF Admits(w)
                 THEN /\ holder' = w
                      /\ pending' = [pending EXCEPT ![w] = balance + Change[w]]
                      /\ pc' = [pc EXCEPT ![w] = "commit"]
                 ELSE pc' = [pc EXCEPT ![w] = "refused"] /\ UNCHANGED <<holder, pending>>
  /\ UNCHANGED <<balance, version, seen>>

\* The transaction ends well: its lock goes with it.
Commit(w) ==
  /\ pc[w] = "commit"
  /\ balance' = pending[w] /\ version' = version + 1
  /\ holder' = None
  /\ pc' = [pc EXCEPT ![w] = "committed"]
  /\ UNCHANGED <<seen, pending>>

\* op returns an error, or its connection is lost: rolled back.
Rollback(w) ==
  /\ pc[w] \in {"update", "commit"}
  /\ holder' = IF holder = w THEN None ELSE holder
  /\ pc' = [pc EXCEPT ![w] = "failed"]
  /\ UNCHANGED <<balance, version, seen, pending>>

Done == {w \in Worker : pc[w] \in {"committed", "failed", "refused"}}

AllDone == Done = Worker /\ UNCHANGED vars

Next ==
  \/ AllDone
  \/ \E w \in Worker : Read(w) \/ Update(w) \/ UpdateMap(w) \/ Commit(w) \/ Rollback(w)

Spec == Init /\ [][Next]_vars

-----------------------------------------------------------------------------
Committed == {w \in Worker : pc[w] = "committed"}

TypeOK ==
  /\ balance \in Int /\ version \in 0..Cardinality(Worker)
  /\ holder \in Worker \cup {None}
  /\ pc \in [Worker -> {"read", "update", "guarded", "commit", "committed", "failed", "refused"}]
  /\ holder # None => pc[holder] \in {"update", "commit"}

\* table.go:340-353, 469-477: no change is lost: the row holds exactly the sum of the
\* changes that were committed.
NoLostUpdate ==
  balance = Start + MapThenSumSet(LAMBDA w : Change[w], Committed)

\* table.go:464-477: guarded updates keep the row within its bounds, whoever runs.
WithinCapacity == balance \in 0..Capacity
=============================================================================
