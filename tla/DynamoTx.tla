------------------------------ MODULE DynamoTx ------------------------------
(***************************************************************************)
(* aws/dynamo: TransactWrite over items of several types, built by PutTx,  *)
(* DeleteTx, UpdateTx and ConditionCheckTx.  Clients register and remove   *)
(* members while a second item counts them: a member is put on condition   *)
(* that it is absent and deleted on condition that it exists, the count is *)
(* set from the one the client read, on condition that it still is that,   *)
(* and a third item, which closes the group, is only checked.  DynamoDB    *)
(* may cancel a transaction for a conflict, and its answer may be lost.    *)
(***************************************************************************)
EXTENDS Naturals, FiniteSets

CONSTANTS
  Client,
  Member,
  maxTransactItems,
  MaxCalls      \* bound: calls of TransactWrite per client

VARIABLES
  members,      \* the stored member items
  count,        \* the count in the stored count item
  closed,       \* the group is marked closed: nobody may join
  seen,         \* per client, the count it has read, or Unread
  told,         \* per client, the outcome of its last call
  applied,      \* history: per client, that call was applied
  late,         \* history: a member joined after the group was closed
  calls

vars == <<members, count, closed, seen, told, applied, late, calls>>

Unread == Cardinality(Member) + 1

Init ==
  /\ members = {} /\ count = 0 /\ closed = FALSE /\ late = FALSE
  /\ seen = [c \in Client |-> Unread]
  /\ told = [c \in Client |-> "none"]
  /\ applied = [c \in Client |-> FALSE]
  /\ calls = [c \in Client |-> 0]

Get(c) ==
  /\ calls[c] < MaxCalls
  /\ seen' = [seen EXCEPT ![c] = count]
  /\ UNCHANGED <<members, count, closed, told, applied, late, calls>>

-----------------------------------------------------------------------------
\* Transaction items: what each requires of the stored items.
PutTx(m) == [kind |-> "put", member |-> {m}, holds |-> m \notin members]
DeleteTx(m) == [kind |-> "delete", member |-> {m}, holds |-> m \in members]

\* A fault of UpdateTx: the condition of the spec is not sent.
UpdateTxAlways(c) == [kind |-> "count", member |-> {}, holds |-> TRUE]

UpdateTx(c) == [kind |-> "count", member |-> {}, holds |-> count = seen[c]]

ConditionCheckTx == [kind |-> "check", member |-> {}, holds |-> ~closed]

\* DynamoDB cancels a transaction if any of its items does not hold.
Cancels(items) == \E i \in items : ~i.holds

\* ErrConditionFailed, or an internal error.
mapWriteError(answer) ==
  CASE answer = "ok" -> "ok"
    [] answer = "condition" -> "condition"
    [] answer \in {"conflict", "lost"} -> "internal"

\* The writes of those items that hold.
Applied(items, delta) ==
  LET done == {i \in items : i.holds}
      puts == UNION {i.member : i \in {j \in done : j.kind = "put"}}
      dels == UNION {i.member : i \in {j \in done : j.kind = "delete"}}
  IN  /\ members' = (members \cup puts) \ dels
      /\ count' = IF \E i \in done : i.kind = "count" THEN delta ELSE count
      /\ late' = (late \/ (closed /\ puts # {}))

TransactWrite(c, items, delta) ==
  /\ seen[c] # Unread /\ calls[c] < MaxCalls
  /\ calls' = [calls EXCEPT ![c] = @ + 1]
  /\ UNCHANGED <<closed, seen>>
  /\ IF Cardinality(items) > maxTransactItems THEN
       /\ told' = [told EXCEPT ![c] = "bad request"]
       /\ applied' = [applied EXCEPT ![c] = FALSE]
       /\ UNCHANGED <<members, count, late>>
     ELSE \E answer \in IF Cancels(items) THEN {"condition", "conflict"} ELSE {"ok", "lost", "conflict"} :
       /\ told' = [told EXCEPT ![c] = mapWriteError(answer)]
       /\ applied' = [applied EXCEPT ![c] = answer \in {"ok", "lost"}]
       /\ IF answer \in {"ok", "lost"} THEN Applied(items, delta) ELSE UNCHANGED <<members, count, late>>

\* Members M join, or leave, and the count follows.
Join(c, M) ==
  TransactWrite(c, {PutTx(m) : m \in M} \cup {UpdateTx(c), ConditionCheckTx}, seen[c] + Cardinality(M))

Leave(c, m) == TransactWrite(c, {DeleteTx(m), UpdateTx(c)}, seen[c] - 1)

\* Somebody closes the group.
Close ==
  /\ ~closed /\ closed' = TRUE
  /\ UNCHANGED <<members, count, seen, told, applied, late, calls>>

Next ==
  \/ Close
  \/ \E c \in Client :
       \/ Get(c)
       \/ \E M \in SUBSET Member \ {{}} : Join(c, M)
       \/ \E m \in Member : Leave(c, m)

Spec == Init /\ [][Next]_vars

-----------------------------------------------------------------------------
TypeOK ==
  /\ members \subseteq Member /\ count \in 0 .. Cardinality(Member)
  /\ closed \in BOOLEAN /\ late \in BOOLEAN
  /\ seen \in [Client -> 0 .. Unread] /\ calls \in [Client -> 0 .. MaxCalls]
  /\ told \in [Client -> {"none", "ok", "condition", "internal", "bad request"}]
  /\ applied \in [Client -> BOOLEAN]

\* The count is the number of members after any transactions of any clients, with
\* stale counts, cancelled transactions and lost answers: TransactWrite is
\* all-or-nothing and its conditions guard against what changed since the read.
CountsMembers == count = Cardinality(members)

\* A client told ok has written, and one told that a condition failed, or that the
\* request was bad, has not: only an internal error leaves that open.
ToldTrue ==
  \A c \in Client :
    /\ told[c] = "ok" => applied[c]
    /\ told[c] \in {"condition", "bad request"} => ~applied[c]

\* Nobody joins after the group is closed: an item that is only checked guards
\* the writes of others.
NoLateJoin == ~late

\* transaction.go:77-139: all three, after any calls of any clients.
GroupConsistent == TypeOK /\ CountsMembers /\ ToldTrue /\ NoLateJoin

\* What the theorem asks of the constants.
GroupAssumption == IsFiniteSet(Member) /\ MaxCalls \in Nat /\ maxTransactItems \in Nat
=============================================================================
