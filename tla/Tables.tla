------------------------------- MODULE Tables -------------------------------
(* gormx/table.go: Tables derived from one another by Where, Order, Preload  *)
(* and the like, and page numbers.  A Table is a pair of Go slices, its      *)
(* query scopes and its preloads; clone shares the arrays beneath them, so   *)
(* two Tables may look at one array.  A client walks a listing by page       *)
(* number, as PageRequest's Offset has it, where every page takes two        *)
(* queries, the count and the rows, and rows come and go at any time.        *)
EXTENDS Integers, SequencesExt, FiniteSetsExt

CONSTANTS
  Row,          \* primary keys
  Column,       \* Column[r]: what row r has in the column the request orders by
  Tagged,       \* the rows the clause "tagged" selects
  Clause,       \* scopes: "tagged" (Where), "desc" (Order, by that column), or one that changes no read
  Page,         \* the page numbers a client may ask for
  PageSize,     \* rows of a page, after checkedPageSize
  MaxInt,       \* the largest int
  MaxTables, MaxWrites,
  None

VARIABLES
  heap,     \* heap[a]: the array a, as long as its capacity
  tables,   \* tables[t]: the slices of Table t, [arr, len] each, and what was asked of it
  rows,     \* the rows stored
  list,     \* the call of List in progress
  walk,     \* the client: its Table, next page and what it got
  writes    \* writes so far

vars == <<heap, tables, rows, list, walk, writes>>

-----------------------------------------------------------------------------
Slot == {"scopes", "preloads"}
Elements(s) == SubSeq(heap[s.arr], 1, s.len)

Derived(t, f, s, x) ==
  Append(tables, [tables[t] EXCEPT ![f] = s, !.asked = [@ EXCEPT ![f] = Append(@, x)]])

\* A fault of withScope: append without the copy.
withScopeInPlace(t, f, x, spare) ==
  LET s == tables[t][f]
      roomy == s.len < Len(heap[s.arr])
  IN  /\ heap' = IF roomy THEN [heap EXCEPT ![s.arr][s.len + 1] = x]
                 ELSE Append(heap, Append(Elements(s), x) \o [i \in 1..spare |-> None])
      /\ tables' = Derived(t, f, [arr |-> IF roomy THEN s.arr ELSE Len(heap) + 1, len |-> s.len + 1], x)

\* append(append([]T{}, old...), x): a new array, perhaps with room to spare.
withScope(t, f, x, spare) ==
  LET s == tables[t][f]
  IN  /\ heap' = Append(heap, Append(Elements(s), x) \o [i \in 1..spare |-> None])
      /\ tables' = Derived(t, f, [arr |-> Len(heap) + 1, len |-> s.len + 1], x)

\* Where, Order, ... , LockForUpdate append a scope, Preload a preload.
Derive(t) ==
  /\ Len(tables) < MaxTables
  /\ \E f \in Slot, x \in Clause, spare \in 0..1 : withScope(t, f, x, spare)
  /\ UNCHANGED <<rows, list, walk, writes>>

\* db(ctx): the rows of R a query of Table t selects.
Selected(t, R) ==
  IF "tagged" \in Range(Elements(tables[t].scopes)) THEN R \cap Tagged ELSE R

\* Order(req.OrderBy()), which an Order of the Table itself precedes.
Before(t, a, b) ==
  IF "desc" \in Range(Elements(tables[t].scopes)) THEN Column[a] > Column[b] ELSE Column[a] < Column[b]

\* The orders in which the engine may return the rows: those equal in the column
\* come in any order, in another one at every query.
Listings(t) ==
  {s \in SetToSeqs(Selected(t, rows)) : \A i, j \in DOMAIN s : i < j => ~Before(t, s[j], s[i])}

-----------------------------------------------------------------------------
\* A fault of Offset: the product wraps around.
OffsetUnchecked(page, size) ==
  LET product == (Max({page, 1}) - 1) * size
  IN  ((product + MaxInt + 1) % (2 * (MaxInt + 1))) - (MaxInt + 1)

\* PageRequest.Offset: -1 for an offset that is no int.
Offset(page, size) ==
  IF Max({page, 1}) - 1 > MaxInt \div size THEN -1 ELSE (Max({page, 1}) - 1) * size

NoList == [st |-> "none", page |-> 0, offset |-> 0, total |-> 0, torn |-> FALSE]
NoWalk == [table |-> 0, next |-> 1, got |-> <<>>, kept |-> {}, deleted |-> {}, inserted |-> {},
           torn |-> FALSE, over |-> FALSE]

Init ==
  /\ heap = <<<<>>>>
  /\ tables = <<[scopes |-> [arr |-> 1, len |-> 0], preloads |-> [arr |-> 1, len |-> 0],
                 asked |-> [f \in Slot |-> <<>>]]>>
  /\ rows \in SUBSET Row
  /\ list = NoList /\ walk = NoWalk /\ writes = 0

\* List with a page number.  A client begins with the page it likes and, if that is
\* the first, asks for the ones that follow.
CallList(t) ==
  /\ list.st = "none" /\ ~walk.over /\ walk.table \in {0, t}
  /\ \E page \in IF walk.table = 0 THEN Page ELSE {walk.next} :
       LET off == Offset(page, PageSize)
       IN  /\ list' = [NoList EXCEPT !.st = IF off < 0 THEN "refused" ELSE "count",
                                     !.page = page, !.offset = off]
           /\ walk' = [walk EXCEPT !.table = t, !.over = off < 0,
                                   !.kept = IF walk.table = 0 THEN rows ELSE @]
  /\ UNCHANGED <<heap, tables, rows, writes>>

CountRows ==
  /\ list.st = "count"
  /\ list' = [list EXCEPT !.st = "fetch", !.total = Cardinality(Selected(walk.table, rows))]
  /\ UNCHANGED <<heap, tables, rows, walk, writes>>

\* The rows of the page; the client is done when the total promises no more.
FetchRows ==
  /\ list.st = "fetch"
  /\ \E found \in Listings(walk.table) :
       LET items == SubSeq(found, list.offset + 1, Min({list.offset + PageSize, Len(found)}))
           last == list.page # walk.next \/ list.page * PageSize >= list.total
       IN /\ list' = IF last THEN [list EXCEPT !.st = "done"] ELSE NoList
          /\ walk' = [walk EXCEPT !.got = @ \o items, !.torn = list.torn,
                                  !.over = last, !.next = IF last THEN @ ELSE @ + 1]
  /\ UNCHANGED <<heap, tables, rows, writes>>

\* Other clients write while the walk goes on.
Create(r) ==
  /\ walk.table # 0 /\ ~walk.over /\ writes < MaxWrites /\ writes' = writes + 1
  /\ r \in Row \ rows /\ rows' = rows \cup {r}
  /\ walk' = [walk EXCEPT !.inserted = @ \cup {r}]
  /\ list' = [list EXCEPT !.torn = @ \/ list.st = "fetch"]
  /\ UNCHANGED <<heap, tables>>

Delete(r) ==
  /\ walk.table # 0 /\ ~walk.over /\ writes < MaxWrites /\ writes' = writes + 1
  /\ r \in rows /\ rows' = rows \ {r}
  /\ walk' = [walk EXCEPT !.kept = @ \ {r}, !.deleted = @ \cup {r}]
  /\ UNCHANGED <<heap, tables, list>>

Next ==
  \/ \E t \in DOMAIN tables : Derive(t) \/ CallList(t)
  \/ CountRows \/ FetchRows
  \/ \E r \in Row : Create(r) \/ Delete(r)
  \/ walk.over /\ UNCHANGED vars

Spec == Init /\ [][Next]_vars

-----------------------------------------------------------------------------
TypeOK ==
  /\ rows \subseteq Row /\ writes \in 0..MaxWrites
  /\ walk.table \in 0..Len(tables) /\ Range(walk.got) \subseteq Row
  /\ list.st \in {"none", "count", "fetch", "done", "refused"} /\ list.offset \in -1..MaxInt
  /\ \A t \in DOMAIN tables, f \in Slot : tables[t][f].len \in 0..Len(heap[tables[t][f].arr])

(* table.go:184-211: chained calls never change the Table they start from,   *)
(* nor any other derived from it: every Table has the scopes and preloads    *)
(* that were asked of it, in their order, and no others.                     *)
Isolated ==
  \A t \in DOMAIN tables, f \in Slot : Elements(tables[t][f]) = tables[t].asked[f]

(* pagination.go:69-82, table.go:818-827: page p has the rows of ranks       *)
(* (p-1)*size+1 to p*size, counted without bound, of a listing in the order  *)
(* of the column; pages below the first are the first, and one whose offset  *)
(* is no int is refused.                                                     *)
JumpExact ==
  walk.over /\ list.page # walk.next =>
    LET p == Max({list.page, 1})
    IN  IF (p - 1) * PageSize > MaxInt THEN list.st = "refused"
        ELSE \E found \in Listings(walk.table) :
               walk.got = SubSeq(found, (p - 1) * PageSize + 1, Min({p * PageSize, Len(found)}))

(* table.go:881-904: a client that walks a listing by page numbers until the *)
(* total is reached gets every row that was stored all along exactly once;   *)
(* it misses one only when a row before it was deleted meanwhile, when a row *)
(* was created between the two queries of the last page, or when another row *)
(* of the listing is equal to it in the column; it gets one twice only when  *)
(* a row before it was created meanwhile, or another is equal to it.         *)
WalkExcused ==
  walk.over /\ list.page = walk.next =>
    LET t == walk.table
        of(R) == Selected(t, R)
        tied(r) == \E q \in of(walk.kept \cup walk.inserted \cup walk.deleted) \ {r} : Column[q] = Column[r]
        times(r) == Cardinality({i \in DOMAIN walk.got : walk.got[i] = r})
    IN  \A r \in of(walk.kept) :
          /\ times(r) = 0 => walk.torn \/ tied(r) \/ \E d \in of(walk.deleted) : Before(t, d, r)
          /\ times(r) > 1 => tied(r) \/ \E i \in of(walk.inserted) : Before(t, i, r)

(* table.go:881-884: a walk nobody disturbs gets every row exactly once: so  *)
(* it does only where no two rows are equal in the column.                   *)
WalkUndisturbed ==
  walk.over /\ list.page = walk.next /\ walk.deleted \cup walk.inserted = {} =>
    \A r \in Selected(walk.table, walk.kept) :
      Cardinality({i \in DOMAIN walk.got : walk.got[i] = r}) = 1
=============================================================================
