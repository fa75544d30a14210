----------------------------- MODULE DynamoQuery -----------------------------
(***************************************************************************)
(* aws/dynamo: reads that take several requests, while others write to the *)
(* partition: following the tokens of QueryPage (or QueryGSIPage) until    *)
(* there is none, Count (CountGSI) with its ceiling, and BatchGet, which   *)
(* asks in chunks and asks again for what was left unprocessed.  An item   *)
(* is its sort key.                                                        *)
(***************************************************************************)
EXTENDS Integers, Sequences, FiniteSets, SequencesExt

CONSTANTS
  N,            \* sort keys are 1 .. N
  Match,        \* the items that pass the filter
  PageSize,     \* Limit of a page of a walk
  MaxItems,     \* WithMaxItems; 0 is no ceiling
  batchSize,    \* keys in a chunk of BatchGet
  MaxWrites     \* bound: writes by others

SK == 1 .. N

VARIABLES
  kind,         \* the read: "walk", "count" or "batch"
  descending,
  table,        \* the stored items
  always, ever, \* history: those stored all along, and at some time, since it began
  token,        \* ExclusiveStartKey, or 0
  more,         \* there is another request to make
  result,       \* the items returned
  total,        \* the items counted
  todo,         \* the keys of the chunks to come
  requestItems, \* the keys of this chunk not yet processed
  failed,       \* the read returned an error
  writes

vars == <<kind, descending, table, always, ever, token, more, result, total, todo, requestItems, failed, writes>>

Init ==
  /\ kind \in {"walk", "count", "batch"}
  /\ descending \in (IF kind = "walk" THEN BOOLEAN ELSE {FALSE})
  /\ table \in SUBSET SK
  /\ always = table /\ ever = table
  /\ token = 0 /\ more = TRUE /\ result = <<>> /\ total = 0
  /\ todo = (IF kind = "batch" THEN [i \in SK |-> i] ELSE <<>>)
  /\ requestItems = {} /\ failed = FALSE /\ writes = 0

-----------------------------------------------------------------------------
\* Somebody puts or deletes an item.
Write(k) ==
  /\ writes < MaxWrites /\ writes' = writes + 1
  /\ \/ table' = table \cup {k} /\ k \notin table
     \/ table' = table \ {k} /\ k \in table
  /\ always' = always \cap table' /\ ever' = ever \cup table'
  /\ UNCHANGED <<kind, descending, token, more, result, total, todo, requestItems, failed>>

\* DynamoDB's Query: the items after the start key, in order.
After(k) ==
  LET S == {j \in table : k = 0 \/ (IF descending THEN j < k ELSE j > k)}
  IN  SetToSortSeq(S, LAMBDA a, b : IF descending THEN a > b ELSE a < b)

\* A page evaluates at most Limit items, or stops before for its size, and then
\* filters them; LastEvaluatedKey is missing when it came to the end.
Pages(k, limit) ==
  LET S == After(k)
  IN  {[items |-> SelectSeq(SubSeq(S, 1, m), LAMBDA j : j \in Match),
        last |-> IF m = Len(S) /\ m < limit THEN 0 ELSE S[m]] :
         m \in IF S = <<>> THEN {0} ELSE 1 .. (IF Len(S) < limit THEN Len(S) ELSE limit)}

\* The next token of a page: none without a LastEvaluatedKey.
queryPage(page) == page.last

QueryPage ==
  /\ kind = "walk" /\ more
  /\ \E page \in Pages(token, PageSize) :
       /\ result' = result \o page.items
       /\ token' = queryPage(page)
       /\ more' = (queryPage(page) # 0)
  /\ UNCHANGED <<kind, descending, table, always, ever, total, todo, requestItems, failed, writes>>

\* Count's result when it stops at the ceiling, and the sum so far otherwise.
Counted(sum) == IF MaxItems > 0 /\ sum >= MaxItems THEN MaxItems ELSE sum

countItems ==
  /\ kind = "count" /\ more
  /\ \E page \in Pages(token, N + 1) :
       LET sum == total + Len(page.items)
       IN  /\ total' = Counted(sum)
           /\ token' = page.last
           /\ more' = (page.last # 0 /\ ~(MaxItems > 0 /\ sum >= MaxItems))
  /\ UNCHANGED <<kind, descending, table, always, ever, result, todo, requestItems, failed, writes>>

\* The next chunk of keys.
NextChunk ==
  /\ kind = "batch" /\ more /\ requestItems = {}
  /\ LET n == IF Len(todo) < batchSize THEN Len(todo) ELSE batchSize
     IN  /\ requestItems' = ToSet(SubSeq(todo, 1, n))
         /\ todo' = SubSeq(todo, n + 1, Len(todo))
         /\ more' = (todo # <<>>)
  /\ UNCHANGED <<kind, descending, table, always, ever, token, result, total, failed, writes>>

\* A fault of Unprocessed: everything is asked for again.
UnprocessedAll(done) == IF done = requestItems THEN {} ELSE requestItems

Unprocessed(done) == requestItems \ done

\* DynamoDB processes some of the keys; at least one, or the request fails.
BatchGetItem ==
  /\ kind = "batch" /\ requestItems # {}
  /\ \E done \in SUBSET requestItems \ {{}} :
       /\ result' = result \o SetToSeq(done \cap table)
       /\ requestItems' = Unprocessed(done)
  /\ UNCHANGED <<kind, descending, table, always, ever, token, more, total, todo, failed, writes>>

\* A request fails.  Count and BatchGet return the error; a walk can be taken up
\* again with the token it had, as if nothing had happened.
Fail ==
  /\ kind # "walk" /\ (more \/ requestItems # {})
  /\ failed' = TRUE /\ more' = FALSE /\ requestItems' = {}
  /\ result' = <<>> /\ total' = 0
  /\ UNCHANGED <<kind, descending, table, always, ever, token, todo, writes>>

Done == ~more /\ requestItems = {}

Rest == Done /\ UNCHANGED vars

Read == QueryPage \/ countItems \/ NextChunk \/ BatchGetItem

Next == Read \/ Fail \/ Rest \/ \E k \in SK : Write(k)

Spec == Init /\ [][Next]_vars

-----------------------------------------------------------------------------
TypeOK ==
  /\ table \subseteq SK /\ always \subseteq table /\ table \subseteq ever
  /\ token \in 0 .. N /\ more \in BOOLEAN /\ failed \in BOOLEAN /\ total \in 0 .. N
  /\ result \in Seq(SK) /\ Len(result) <= N
  /\ ToSet(todo) \cup requestItems \subseteq SK

\* What the read is meant to return.
Wanted(S) == IF kind = "batch" THEN S ELSE S \cap Match

\* No item is returned twice, whatever is written between the requests, and only
\* items that were stored and asked for are returned.
NoneTwice ==
  /\ \A m, n \in 1 .. Len(result) : result[m] = result[n] => m = n
  /\ ToSet(result) \subseteq Wanted(ever)

\* When the tokens have ended, or BatchGet has returned, every item that was
\* stored all along has been returned, past filtered, short and empty pages and
\* keys that DynamoDB had left unprocessed.
NoneMissed == (Done /\ ~failed /\ kind # "count") => Wanted(always) \subseteq ToSet(result)

\* Count's total is the number of matching items up to the ceiling: not below
\* those there all along, not above those there at some time, never above it.
CountTrue ==
  (Done /\ ~failed /\ kind = "count") =>
    LET capped(n) == IF MaxItems > 0 /\ n > MaxItems THEN MaxItems ELSE n
    IN  /\ total >= capped(Cardinality(Wanted(always)))
        /\ total <= capped(Cardinality(Wanted(ever)))
=============================================================================
