---------------------------- MODULE StoresProofs ----------------------------
(***************************************************************************)
(* The theorems about the stores: keyset pages (Pages) and DynamoDB        *)
(* transactions (DynamoTx).                                                *)
(***************************************************************************)
EXTENDS Pages, FiniteSetTheorems, TLAPS

-----------------------------------------------------------------------------
(* Pages: for every table, page size and direction a walk lists no row       *)
(* twice, and, when the cursor column is unique, misses none that stays.     *)
(* The inductive invariant says where the token stands: what is listed is    *)
(* not beyond it, and what is beyond it holds every row that stays and is    *)
(* not listed.                                                               *)

\* The precondition the walk needs of the cursor column.
UniqueCursor == \A r, s \in Row : Cursor[r] = Cursor[s] => r = s

Behind ==
  walk = "walking" =>
    \A r \in listed : token # None /\ ~Before(token, Cursor[r])

Ahead == walk = "walking" => stable \ listed \subseteq Eligible

IInv == TypeOK /\ Behind /\ NoRepeats

GapInv == TypeOK /\ Ahead /\ NoGaps

\* The type invariant and the token's place behind what is listed are kept by
\* every step, so no page repeats a row.
THEOREM PagesRepeatInv == Spec => []IInv
<1>1. Init => IInv
  BY PagesAssumption, Zenon DEF Init, IInv, TypeOK, Behind, NoRepeats
<1>2. IInv /\ [Next]_vars => IInv'
  <2> SUFFICES ASSUME IInv, [Next]_vars PROVE IInv'
    BY Zenon
  <2> USE PagesAssumption DEF IInv, TypeOK, Behind, NoRepeats
  <2>1. CASE List
    <3>1. PICK size \in checkedPageSize, P \in SUBSET rows : List!2!(size)!(P)
      BY <2>1, Zenon DEF List
    <3>2. P \subseteq Eligible /\ P \subseteq Row
      BY <3>1, Zenon DEF Picked
    <3>3. listed \cap P = {}
      BY <2>1, <3>2, Zenon DEF List, Eligible
    <3>4. UNCHANGED <<rows, used, stable>> /\ walk = "walking"
      BY <2>1, Zenon DEF List
    <3>5. CASE Cardinality(P) > size
      <4>1. PICK extra \in P :
              /\ listed' = listed \cup (P \ {extra})
              /\ twice' = twice \cup (listed \cap (P \ {extra}))
              /\ token' \in NextToken(P \ {extra}, extra)
              /\ UNCHANGED walk
        BY <3>1, <3>5, Zenon
      <4>2. PICK last \in P \ {extra} :
              /\ token' = Cursor[last]
              /\ \A y \in P \ {extra} : ~Before(Cursor[last], Cursor[y])
        BY <4>1, Zenon DEF NextToken
      <4>3. TypeOK' /\ NoRepeats'
        BY <3>2, <3>3, <3>4, <4>1, <4>2, Zenon
      <4>4. Cursor[last] \in Int /\ token' # None
        BY <3>2, <4>2, Zenon
      <4>5. ASSUME NEW r \in listed PROVE ~Before(token', Cursor[r])
        <5>1. token \in Int /\ ~Before(token, Cursor[r]) /\ Cursor[r] \in Int
          BY <3>4, <4>5, Zenon
        <5>2. Before(token, Cursor[last])
          BY <3>2, <5>1, Zenon DEF Eligible
        <5> QED BY <4>2, <4>4, <5>1, <5>2 DEF Before
      <4>6. Behind'
        BY <4>1, <4>2, <4>4, <4>5, Zenon
      <4> QED BY <4>3, <4>6, Zenon
    <3>6. CASE ~(Cardinality(P) > size)
      <4>1. listed' = listed \cup P /\ twice' = twice \cup (listed \cap P)
            /\ walk' = "over" /\ token' = token
        BY <3>1, <3>6, Zenon
      <4> QED BY <3>2, <3>3, <3>4, <4>1, Zenon
    <3> QED BY <3>5, <3>6, Zenon
  <2>2. ASSUME NEW r \in Row, Insert(r) PROVE IInv'
    BY <2>2, Zenon DEF Insert
  <2>3. ASSUME NEW r \in Row, Delete(r) PROVE IInv'
    BY <2>3, Zenon DEF Delete
  <2>4. CASE UNCHANGED vars
    BY <2>4, Zenon DEF vars
  <2> QED BY <2>1, <2>2, <2>3, <2>4, Zenon DEF Next, Over
<1> QED BY <1>1, <1>2, PTL DEF Spec

\* No row is listed twice, whatever the cursor column and whatever comes and goes.
THEOREM PagesNoRepeats == Spec => []NoRepeats
<1>1. IInv => NoRepeats
  BY Zenon DEF IInv
<1> QED BY <1>1, PagesRepeatInv, PTL

\* With a unique cursor column, every row that stays is listed by the end.
THEOREM PagesNoGaps == ASSUME UniqueCursor PROVE Spec => []NoGaps
<1> USE PagesAssumption
<1>1. Init => GapInv
  BY Zenon DEF Init, GapInv, TypeOK, Ahead, NoGaps, Eligible
<1>2. GapInv /\ IInv /\ IInv' /\ [Next]_vars => GapInv'
  <2> SUFFICES ASSUME GapInv, IInv, IInv', [Next]_vars PROVE Ahead' /\ NoGaps'
    BY Zenon DEF GapInv, IInv
  <2> USE DEF GapInv, TypeOK, NoGaps, Ahead
  <2>1. CASE List
    <3>1. PICK size \in checkedPageSize, P \in SUBSET rows : List!2!(size)!(P)
      BY <2>1, Zenon DEF List
    <3>2. P \subseteq Eligible /\ P \subseteq Row /\ Eligible \subseteq Row
      BY <3>1, Zenon DEF Picked, Eligible
    <3>3. UNCHANGED <<rows, used, stable>> /\ walk = "walking"
      BY <2>1, Zenon DEF List
    <3>4. size \in Int
      BY DEF checkedPageSize
    <3>5. CASE Cardinality(P) > size
      <4>1. PICK extra \in P :
              /\ \A p \in P : ~Before(Cursor[extra], Cursor[p])
              /\ listed' = listed \cup (P \ {extra})
              /\ token' \in NextToken(P \ {extra}, extra)
              /\ UNCHANGED walk
        BY <3>1, <3>5, Zenon
      <4>2. PICK last \in P \ {extra} : token' = Cursor[last]
        BY <4>1, Zenon DEF NextToken
      <4>3. ASSUME NEW q \in stable, q \notin listed'
            PROVE  q \in rows /\ Before(token', Cursor[q])
        <5>1. q \in Eligible /\ q \in Row /\ last \in Row /\ q # last
          BY <3>2, <3>3, <4>1, <4>3, Zenon
        <5>2. ~Before(Cursor[q], Cursor[last])
          <6>1. CASE q \in P
            BY <4>1, <4>2, <4>3, <6>1, Zenon
          <6>2. CASE q \notin P
            BY <3>1, <4>2, <5>1, <6>2, Zenon DEF Picked
          <6> QED BY <6>1, <6>2, Zenon
        <5>3. Cursor[q] # Cursor[last] /\ Cursor[q] \in Int /\ Cursor[last] \in Int
          BY <5>1, Zenon DEF UniqueCursor
        <5> QED BY <4>2, <5>2, <5>3 DEF Before
      <4> QED BY <3>3, <4>1, <4>3, Zenon DEF Eligible
    <3>6. CASE ~(Cardinality(P) > size)
      <4>1. listed' = listed \cup P /\ walk' = "over"
        BY <3>1, <3>6, Zenon
      <4>2. P = Eligible
        BY <3>1, <3>4, <3>6 DEF Picked
      <4> QED BY <3>3, <4>1, <4>2, Zenon
    <3> QED BY <3>5, <3>6, Zenon
  <2>2. ASSUME NEW r \in Row, Insert(r) PROVE Ahead' /\ NoGaps'
    BY <2>2, Zenon DEF Insert, Eligible
  <2>3. ASSUME NEW r \in Row, Delete(r) PROVE Ahead' /\ NoGaps'
    BY <2>3, Zenon DEF Delete, Eligible
  <2>4. CASE UNCHANGED vars
    BY <2>4, Zenon DEF vars, Eligible
  <2> QED BY <2>1, <2>2, <2>3, <2>4, Zenon DEF Next, Over
<1>3. GapInv => NoGaps
  BY Zenon DEF GapInv
<1> QED BY <1>1, <1>2, <1>3, PagesRepeatInv, PTL DEF Spec

\* With a unique cursor column, a walk lists every row that stays exactly once.
THEOREM PagesWalkExact == ASSUME UniqueCursor PROVE Spec => []WalkExact
<1>1. Spec => []NoGaps
  BY PagesNoGaps, Zenon
<1>2. IInv /\ NoGaps => WalkExact
  BY Zenon DEF IInv, WalkExact
<1> QED BY <1>1, <1>2, PagesRepeatInv, PTL

-----------------------------------------------------------------------------
(* DynamoDB transactions, on a group with a count of its members. *)

CONSTANTS Client, Member, maxTransactItems, MaxCalls

VARIABLES members, count, closed, gSeen, told, applied, late, calls

Group == INSTANCE DynamoTx WITH seen <- gSeen

(* transaction.go: the count is the number of members after any              *)
(* transactions, with stale counts, cancellations and lost answers; only an  *)
(* internal error leaves open whether it was applied; an item that is only   *)
(* checked guards the writes of others.                                      *)
GroupConsistent == Group!GroupConsistent

\* Finite sets and their sizes, as DynamoTx has them.
LEMMA Counting ==
  /\ Group!IsFiniteSet({}) /\ Group!Cardinality({}) = 0
  /\ \A S : Group!IsFiniteSet(S) =>
       /\ Group!Cardinality(S) \in Nat
       /\ \A T \in SUBSET S : Group!IsFiniteSet(T) /\ Group!Cardinality(T) <= Group!Cardinality(S)
       /\ \A x \in S : Group!Cardinality(S \ {x}) = Group!Cardinality(S) - 1
       /\ \A T : Group!IsFiniteSet(T) /\ S \cap T = {} =>
            Group!Cardinality(S \cup T) = Group!Cardinality(S) + Group!Cardinality(T)
<1>1. \A S : Group!IsFiniteSet(S) <=> IsFiniteSet(S)
  BY Zenon DEF Group!IsFiniteSet, IsFiniteSet
<1>2. \A S : Group!Cardinality(S) = Cardinality(S)
  BY Zenon DEF Group!Cardinality, Cardinality
<1>3. Group!IsFiniteSet({}) /\ Group!Cardinality({}) = 0
  BY <1>1, <1>2, FS_EmptySet, Zenon
<1>4. ASSUME NEW S, Group!IsFiniteSet(S)
      PROVE  /\ Group!Cardinality(S) \in Nat
             /\ \A T \in SUBSET S : Group!IsFiniteSet(T) /\ Group!Cardinality(T) <= Group!Cardinality(S)
             /\ \A x \in S : Group!Cardinality(S \ {x}) = Group!Cardinality(S) - 1
             /\ \A T : Group!IsFiniteSet(T) /\ S \cap T = {} =>
                  Group!Cardinality(S \cup T) = Group!Cardinality(S) + Group!Cardinality(T)
  <2>1. IsFiniteSet(S) /\ Cardinality(S) \in Nat
    BY <1>1, <1>4, FS_CardinalityType, Zenon
  <2>2. \A T \in SUBSET S : IsFiniteSet(T) /\ Cardinality(T) <= Cardinality(S)
    BY <2>1, FS_Subset, Zenon
  <2>3. \A x \in S : Cardinality(S \ {x}) = Cardinality(S) - 1
    BY <2>1, FS_RemoveElement, Zenon
  <2>4. ASSUME NEW T, IsFiniteSet(T), S \cap T = {} PROVE Cardinality(S \cup T) = Cardinality(S) + Cardinality(T)
    <3>1. Cardinality(S \cup T) = Cardinality(S) + Cardinality(T) - Cardinality(S \cap T)
      BY <2>1, <2>4, FS_Union, Zenon
    <3>2. Cardinality(S \cap T) = 0 /\ Cardinality(T) \in Nat
      BY <2>4, FS_EmptySet, FS_CardinalityType, Zenon
    <3> QED BY <2>1, <3>1, <3>2
  <2> QED BY <1>1, <1>2, <2>1, <2>2, <2>3, <2>4, Zenon
<1> QED BY <1>3, <1>4, Zenon

(* What a transaction that is not cancelled does: all of its writes. *)
LEMMA JoinApplied ==
  ASSUME NEW c \in Client, NEW M \in SUBSET Member, NEW delta,
         ~Group!Cancels({Group!PutTx(m) : m \in M} \cup {Group!UpdateTx(c), Group!ConditionCheckTx}),
         Group!Applied({Group!PutTx(m) : m \in M} \cup {Group!UpdateTx(c), Group!ConditionCheckTx}, delta)
  PROVE  /\ members' = members \cup M /\ members \cap M = {}
         /\ count = gSeen[c] /\ count' = delta
         /\ ~closed /\ late' \in BOOLEAN /\ (late' <=> late)
<1> DEFINE items == {Group!PutTx(m) : m \in M} \cup {Group!UpdateTx(c), Group!ConditionCheckTx}
           done == {i \in items : i.holds}
           puts == UNION {i.member : i \in {j \in done : j.kind = "put"}}
           dels == UNION {i.member : i \in {j \in done : j.kind = "delete"}}
<1>1. \A i \in items : i.holds
  BY Zenon DEF Group!Cancels
<1>2. \A m \in M : m \notin members
  <2> SUFFICES ASSUME NEW m \in M PROVE m \notin members
    BY Zenon
  <2>1. Group!PutTx(m).holds
    BY <1>1, Zenon
  <2> QED BY <2>1, Zenon DEF Group!PutTx
<1>3. count = gSeen[c]
  <2>1. Group!UpdateTx(c).holds
    BY <1>1, Zenon
  <2> QED BY <2>1, Zenon DEF Group!UpdateTx
<1>4. ~closed
  <2>1. Group!ConditionCheckTx.holds
    BY <1>1, Zenon
  <2> QED BY <2>1, Zenon DEF Group!ConditionCheckTx
<1>5. done = items
  BY <1>1, Zenon
<1>6. puts = M
  <2>1. \A i \in items : i.kind = "put" => \E m \in M : i.member = {m}
    BY DEF Group!PutTx, Group!UpdateTx, Group!ConditionCheckTx
  <2>2. \A m \in M : Group!PutTx(m) \in items /\ Group!PutTx(m).kind = "put" /\ Group!PutTx(m).member = {m}
    BY Zenon DEF Group!PutTx
  <2> HIDE DEF items
  <2>3. puts \subseteq M
    BY <1>5, <2>1
  <2>4. M \subseteq puts
    BY <1>5, <2>2, Zenon
  <2> QED BY <2>3, <2>4, Zenon
<1>7. dels = {}
  <2>1. \A i \in items : i.kind # "delete"
    BY DEF Group!PutTx, Group!UpdateTx, Group!ConditionCheckTx
  <2> HIDE DEF items
  <2> QED BY <1>5, <2>1, Zenon
<1>8. \E i \in done : i.kind = "count"
  <2>1. Group!UpdateTx(c) \in items /\ Group!UpdateTx(c).kind = "count"
    BY Zenon DEF Group!UpdateTx
  <2> HIDE DEF items
  <2> QED BY <1>5, <2>1, Zenon
<1>9. /\ members' = (members \cup puts) \ dels
      /\ count' = IF \E i \in done : i.kind = "count" THEN delta ELSE count
      /\ late' = (late \/ (closed /\ puts # {}))
  BY Zenon DEF Group!Applied
<1> HIDE DEF items, done, puts, dels
<1> QED BY <1>2, <1>3, <1>4, <1>6, <1>7, <1>8, <1>9, Zenon

LEMMA LeaveApplied ==
  ASSUME NEW c \in Client, NEW m \in Member, NEW delta,
         ~Group!Cancels({Group!DeleteTx(m), Group!UpdateTx(c)}),
         Group!Applied({Group!DeleteTx(m), Group!UpdateTx(c)}, delta)
  PROVE  /\ members' = members \ {m} /\ m \in members
         /\ count = gSeen[c] /\ count' = delta /\ late' \in BOOLEAN /\ (late' <=> late)
<1> DEFINE items == {Group!DeleteTx(m), Group!UpdateTx(c)}
           done == {i \in items : i.holds}
           puts == UNION {i.member : i \in {j \in done : j.kind = "put"}}
           dels == UNION {i.member : i \in {j \in done : j.kind = "delete"}}
<1>1. m \in members /\ count = gSeen[c]
  <2>1. Group!DeleteTx(m).holds /\ Group!UpdateTx(c).holds
    BY Zenon DEF Group!Cancels
  <2> QED BY <2>1, Zenon DEF Group!DeleteTx, Group!UpdateTx
<1>2. done = items
  BY Zenon DEF Group!Cancels
<1>3. \A i \in items : i.kind # "put"
  BY DEF Group!DeleteTx, Group!UpdateTx
<1>4. \A i \in items : i.kind = "delete" => i.member = {m}
  BY DEF Group!DeleteTx, Group!UpdateTx
<1>5. Group!DeleteTx(m) \in items /\ Group!DeleteTx(m).kind = "delete" /\ Group!DeleteTx(m).member = {m}
  BY Zenon DEF Group!DeleteTx
<1>6. \E i \in items : i.kind = "count"
  BY Zenon DEF Group!UpdateTx
<1>9. /\ members' = (members \cup puts) \ dels
      /\ count' = IF \E i \in done : i.kind = "count" THEN delta ELSE count
      /\ late' = (late \/ (closed /\ puts # {}))
  BY Zenon DEF Group!Applied
<1> HIDE DEF items
<1>7. puts = {}
  BY <1>2, <1>3, Zenon
<1>8. dels = {m}
  BY <1>2, <1>4, <1>5, Zenon
<1> HIDE DEF done, puts, dels
<1> QED BY <1>1, <1>2, <1>6, <1>7, <1>8, <1>9, Zenon

(* What every call of TransactWrite leaves in order, applied or not. *)
LEMMA CallTold ==
  ASSUME Group!GroupAssumption, Group!GroupConsistent,
         NEW c \in Client, NEW items, NEW delta, Group!TransactWrite(c, items, delta)
  PROVE  /\ UNCHANGED <<closed, gSeen>> /\ gSeen[c] \in 0 .. Group!Cardinality(Member)
         /\ calls' \in [Client -> 0 .. MaxCalls]
         /\ told' \in [Client -> {"none", "ok", "condition", "internal", "bad request"}]
         /\ applied' \in [Client -> BOOLEAN] /\ Group!ToldTrue'
         /\ \/ UNCHANGED <<members, count, late>>
            \/ ~Group!Cancels(items) /\ Group!Applied(items, delta)
<1>1. /\ gSeen \in [Client -> 0 .. Group!Unread] /\ calls \in [Client -> 0 .. MaxCalls]
      /\ told \in [Client -> {"none", "ok", "condition", "internal", "bad request"}]
      /\ applied \in [Client -> BOOLEAN] /\ Group!ToldTrue
  BY Zenon DEF Group!GroupConsistent, Group!TypeOK
<1>0. /\ UNCHANGED <<closed, gSeen>> /\ gSeen[c] # Group!Unread
      /\ calls[c] < MaxCalls /\ calls' = [calls EXCEPT ![c] = @ + 1]
  BY Zenon DEF Group!TransactWrite
<1>2. gSeen[c] \in 0 .. Group!Cardinality(Member)
  <2>1. PICK n \in Nat : n = Group!Cardinality(Member)
    BY Counting, Zenon DEF Group!GroupAssumption
  <2>2. gSeen \in [Client -> 0 .. n + 1] /\ gSeen[c] # n + 1
    BY <1>0, <1>1, <2>1, Zenon DEF Group!Unread
  <2>3. gSeen[c] \in 0 .. n
    BY <2>2
  <2> QED BY <2>1, <2>3, Zenon
<1>3. UNCHANGED <<closed, gSeen>> /\ calls' \in [Client -> 0 .. MaxCalls]
  <2>1. MaxCalls \in Nat
    BY Zenon DEF Group!GroupAssumption
  <2>2. calls' \in [Client -> 0 .. MaxCalls]
    <3>1. calls \in [Client -> 0 .. MaxCalls] /\ calls[c] < MaxCalls /\ calls' = [calls EXCEPT ![c] = @ + 1]
      BY <1>0, <1>1, Zenon
    <3> QED BY <2>1, <3>1, SMT
  <2> QED BY <1>0, <2>2, Zenon
<1>4. CASE Group!Cardinality(items) > maxTransactItems
  <2>1. /\ told' = [told EXCEPT ![c] = "bad request"] /\ applied' = [applied EXCEPT ![c] = FALSE]
        /\ UNCHANGED <<members, count, late>>
    BY <1>4, Zenon DEF Group!TransactWrite
  <2> QED BY <1>1, <1>2, <1>3, <2>1, Zenon DEF Group!ToldTrue
<1>5. CASE ~(Group!Cardinality(items) > maxTransactItems)
  <2>1. PICK answer \in (IF Group!Cancels(items) THEN {"condition", "conflict"} ELSE {"ok", "lost", "conflict"}) :
          /\ told' = [told EXCEPT ![c] = Group!mapWriteError(answer)]
          /\ applied' = [applied EXCEPT ![c] = answer \in {"ok", "lost"}]
          /\ IF answer \in {"ok", "lost"} THEN Group!Applied(items, delta) ELSE UNCHANGED <<members, count, late>>
    BY <1>5, Zenon DEF Group!TransactWrite
  <2>2. answer \in {"ok", "lost"} => ~Group!Cancels(items)
    BY <2>1, Zenon
  <2>3. answer \in {"condition", "conflict", "ok", "lost"}
    BY <2>1, Zenon
  <2>4. /\ Group!mapWriteError(answer) \in {"ok", "condition", "internal"}
        /\ Group!mapWriteError(answer) = "ok" => answer \in {"ok", "lost"}
        /\ Group!mapWriteError(answer) = "condition" => answer \notin {"ok", "lost"}
    BY <2>3, Zenon DEF Group!mapWriteError
  <2>5. PICK e : e = Group!mapWriteError(answer)
    BY Zenon
  <2>6. PICK b \in BOOLEAN : b <=> answer \in {"ok", "lost"}
    BY Zenon
  <2>7. told' = [told EXCEPT ![c] = e] /\ applied' = [applied EXCEPT ![c] = b]
    BY <2>1, <2>5, <2>6, Zenon
  <2>8. Group!ToldTrue' /\ applied' \in [Client -> BOOLEAN]
        /\ told' \in [Client -> {"none", "ok", "condition", "internal", "bad request"}]
    BY <1>1, <2>4, <2>5, <2>6, <2>7, Zenon DEF Group!ToldTrue
  <2> QED BY <1>2, <1>3, <2>1, <2>2, <2>8, Zenon
<1> QED BY <1>4, <1>5, Zenon

(* transaction.go:77-139: for any clients and members, with stale counts,    *)
(* cancellations and lost answers, the count is the number of members; a     *)
(* client that is told ok or refused is told the truth; and nobody joins a   *)
(* group that is closed.                                                     *)
THEOREM GroupsConsistent ==
  ASSUME Group!GroupAssumption
  PROVE  Group!Spec => []GroupConsistent
<1> USE DEF Group!GroupAssumption
<1>0. Group!Cardinality(Member) \in Nat
  BY Counting, Zenon
<1>1. ASSUME Group!Init PROVE Group!GroupConsistent
  <2>1. Group!CountsMembers /\ Group!NoLateJoin
    BY <1>1, Counting, Zenon DEF Group!Init, Group!CountsMembers, Group!NoLateJoin
  <2>2. PICK n \in Nat : n = Group!Cardinality(Member)
    BY <1>0, Zenon
  <2>3. count \in 0 .. n /\ gSeen \in [Client -> 0 .. n + 1]
    BY <1>1, <2>2 DEF Group!Init, Group!Unread
  <2>4. calls \in [Client -> 0 .. MaxCalls]
    BY <1>1 DEF Group!Init
  <2>5. /\ members \subseteq Member /\ closed \in BOOLEAN /\ late \in BOOLEAN /\ applied \in [Client -> BOOLEAN]
        /\ told \in [Client -> {"none", "ok", "condition", "internal", "bad request"}]
    BY <1>1, Zenon DEF Group!Init
  <2>6. Group!ToldTrue
    BY <1>1, Zenon DEF Group!Init, Group!ToldTrue
  <2>7. Group!TypeOK
    BY <2>2, <2>3, <2>4, <2>5, Zenon DEF Group!TypeOK, Group!Unread
  <2> QED BY <2>1, <2>6, <2>7, Zenon DEF Group!GroupConsistent
<1>2. ASSUME Group!GroupConsistent, [Group!Next]_(Group!vars) PROVE Group!GroupConsistent'
  <2>1. /\ members \subseteq Member /\ Group!IsFiniteSet(members) /\ count = Group!Cardinality(members)
        /\ count \in 0 .. Group!Cardinality(Member) /\ ~late /\ closed \in BOOLEAN /\ gSeen \in [Client -> 0 .. Group!Unread]
    BY <1>2, Counting, Zenon DEF Group!GroupConsistent, Group!TypeOK, Group!CountsMembers, Group!NoLateJoin
  <2>2. ASSUME NEW c \in Client, NEW M \in SUBSET Member, Group!Join(c, M) PROVE Group!GroupConsistent'
    <3> DEFINE items == {Group!PutTx(m) : m \in M} \cup {Group!UpdateTx(c), Group!ConditionCheckTx}
    <3>1. Group!TransactWrite(c, items, gSeen[c] + Group!Cardinality(M))
      BY <2>2, Zenon DEF Group!Join
    <3>2. Group!IsFiniteSet(M) /\ Group!Cardinality(M) \in Nat
      BY Counting, Zenon
    <3>3. CASE UNCHANGED <<members, count, late>>
      BY <1>2, <2>1, <3>1, <3>3, CallTold, Zenon
         DEF Group!GroupConsistent, Group!TypeOK, Group!CountsMembers, Group!NoLateJoin, Group!Unread
    <3>4. CASE ~Group!Cancels(items) /\ Group!Applied(items, gSeen[c] + Group!Cardinality(M))
      <4>1. /\ members' = members \cup M /\ members \cap M = {}
            /\ count = gSeen[c] /\ count' = gSeen[c] + Group!Cardinality(M) /\ late' \in BOOLEAN /\ (late' <=> late)
        BY <3>4, JoinApplied
      <4>2. Group!Cardinality(members \cup M) = Group!Cardinality(members) + Group!Cardinality(M)
        BY <2>1, <3>2, <4>1, Counting, Zenon
      <4>3. count' = Group!Cardinality(members') /\ members' \subseteq Member /\ count' \in 0 .. Group!Cardinality(Member)
        BY <1>0, <2>1, <3>2, <4>1, <4>2, Counting
      <4>4. ~late'
        BY <2>1, <4>1, Zenon
      <4> HIDE DEF items
      <4>5. /\ closed' = closed /\ gSeen' = gSeen /\ calls' \in [Client -> 0 .. MaxCalls]
            /\ told' \in [Client -> {"none", "ok", "condition", "internal", "bad request"}]
            /\ applied' \in [Client -> BOOLEAN] /\ Group!ToldTrue'
        BY <1>2, <3>1, CallTold, Zenon
      <4>6. late' \in BOOLEAN /\ closed' \in BOOLEAN /\ gSeen' \in [Client -> 0 .. Group!Unread]
        BY <2>1, <4>1, <4>5, Zenon
      <4>7. Group!TypeOK'
        BY <4>3, <4>5, <4>6, Zenon DEF Group!TypeOK, Group!Unread
      <4> QED BY <4>3, <4>4, <4>5, <4>7, Zenon DEF Group!GroupConsistent, Group!CountsMembers, Group!NoLateJoin
    <3> HIDE DEF items
    <3> QED BY <1>2, <3>1, <3>3, <3>4, CallTold, Zenon
  <2>3. ASSUME NEW c \in Client, NEW m \in Member, Group!Leave(c, m) PROVE Group!GroupConsistent'
    <3> DEFINE items == {Group!DeleteTx(m), Group!UpdateTx(c)}
    <3>1. Group!TransactWrite(c, items, gSeen[c] - 1)
      BY <2>3, Zenon DEF Group!Leave
    <3>3. CASE UNCHANGED <<members, count, late>>
      BY <1>2, <2>1, <3>1, <3>3, CallTold, Zenon
         DEF Group!GroupConsistent, Group!TypeOK, Group!CountsMembers, Group!NoLateJoin, Group!Unread
    <3>4. CASE ~Group!Cancels(items) /\ Group!Applied(items, gSeen[c] - 1)
      <4>1. members' = members \ {m} /\ m \in members /\ count = gSeen[c] /\ count' = gSeen[c] - 1 /\ late' \in BOOLEAN /\ (late' <=> late)
        BY <3>4, LeaveApplied, Zenon
      <4>2. Group!Cardinality(members \ {m}) = Group!Cardinality(members) - 1 /\ Group!IsFiniteSet(members \ {m})
        BY <2>1, <4>1, Counting, Zenon
      <4>3. count' = Group!Cardinality(members') /\ members' \subseteq Member /\ count' \in 0 .. Group!Cardinality(Member)
        BY <1>0, <2>1, <4>1, <4>2, Counting
      <4>4. ~late'
        BY <2>1, <4>1, Zenon
      <4> HIDE DEF items
      <4>5. /\ closed' = closed /\ gSeen' = gSeen /\ calls' \in [Client -> 0 .. MaxCalls]
            /\ told' \in [Client -> {"none", "ok", "condition", "internal", "bad request"}]
            /\ applied' \in [Client -> BOOLEAN] /\ Group!ToldTrue'
        BY <1>2, <3>1, CallTold, Zenon
      <4>6. late' \in BOOLEAN /\ closed' \in BOOLEAN /\ gSeen' \in [Client -> 0 .. Group!Unread]
        BY <2>1, <4>1, <4>5, Zenon
      <4>7. Group!TypeOK'
        BY <4>3, <4>5, <4>6, Zenon DEF Group!TypeOK, Group!Unread
      <4> QED BY <4>3, <4>4, <4>5, <4>7, Zenon DEF Group!GroupConsistent, Group!CountsMembers, Group!NoLateJoin
    <3> HIDE DEF items
    <3> QED BY <1>2, <3>1, <3>3, <3>4, CallTold, Zenon
  <2>4. ASSUME NEW c \in Client, Group!Get(c) PROVE Group!GroupConsistent'
    <3>1. /\ gSeen' = [gSeen EXCEPT ![c] = count] /\ members' = members /\ count' = count /\ closed' = closed
          /\ told' = told /\ applied' = applied /\ late' = late /\ calls' = calls
      BY <2>4, Zenon DEF Group!Get
    <3>2. PICK n \in Nat : n = Group!Cardinality(Member)
      BY <1>0, Zenon
    <3>3. gSeen' \in [Client -> 0 .. n + 1]
      <4>1. gSeen \in [Client -> 0 .. n + 1] /\ count \in 0 .. n
        BY <2>1, <3>2, Zenon DEF Group!Unread
      <4>2. gSeen' = [gSeen EXCEPT ![c] = count]
        BY <3>1, Zenon
      <4> QED BY <4>1, <4>2
    <3>4. Group!TypeOK'
      BY <1>2, <3>1, <3>2, <3>3, Zenon DEF Group!GroupConsistent, Group!TypeOK, Group!Unread
    <3> QED BY <1>2, <3>1, <3>4, Zenon
         DEF Group!GroupConsistent, Group!CountsMembers, Group!NoLateJoin, Group!ToldTrue
  <2>5. CASE Group!Close
    BY <1>2, <2>1, <2>5, Zenon DEF Group!Close, Group!GroupConsistent, Group!TypeOK, Group!CountsMembers, Group!NoLateJoin,
       Group!ToldTrue, Group!Unread
  <2>6. CASE UNCHANGED Group!vars
    BY <1>2, <2>1, <2>6, Zenon DEF Group!vars, Group!GroupConsistent, Group!TypeOK, Group!CountsMembers, Group!NoLateJoin,
       Group!ToldTrue, Group!Unread
  <2> QED BY <1>2, <2>2, <2>3, <2>4, <2>5, <2>6, Zenon DEF Group!Next
<1> QED BY <1>1, <1>2, PTL DEF Group!Spec, GroupConsistent
=============================================================================
