------------------------------- MODULE Pages --------------------------------
(***************************************************************************)
(* gormx/pagination.go and Table.List in cursor mode: a client walks a     *)
(* listing page by page, handing each NextPageToken back, while others     *)
(* insert and delete rows.  A row is its id; Cursor[r] is the value of its *)
(* cursor column, which does not change.  Rows with equal values come in   *)
(* whatever order the database likes.                                      *)
(***************************************************************************)
EXTENDS Integers, FiniteSets

CONSTANTS
  Row, Cursor,
  Desc,            \* OrderDesc()
  Requested,       \* the page sizes the client asks for; 0 asks for the default
  DefaultPageSize, MaxPageSize,
  None

ASSUME PagesAssumption ==
  /\ Cursor \in [Row -> Int] /\ None \notin Int
  /\ Desc \in BOOLEAN
  /\ Requested \subseteq Int
  /\ DefaultPageSize \in Nat \ {0} /\ MaxPageSize \in Nat

VARIABLES
  rows,     \* in the table
  used,     \* ids that have been in the table: they are not used again
  token,    \* the client's: a cursor value, or None for the first page
  walk,     \* "walking" or "over"
  listed,   \* rows listed so far
  twice,    \* history: rows listed more than once
  stable    \* history: rows in the table all along

vars == <<rows, used, token, walk, listed, twice, stable>>

Init ==
  /\ rows \in SUBSET Row
  /\ used = rows /\ stable = rows
  /\ token = None /\ walk = "walking"
  /\ listed = {} /\ twice = {}

\* checkedPageSize: zero becomes the default, and a call with another size outside
\* 1..MaxPageSize is refused, which changes nothing.
checkedPageSize ==
  {IF n = 0 THEN DefaultPageSize ELSE n : n \in Requested \cap 0..MaxPageSize}

Before(a, b) == IF Desc THEN b < a ELSE a < b

\* CurrentPageData: rows strictly beyond the token.
Eligible == {r \in rows : token # None => Before(token, Cursor[r])}

\* What a LIMIT of n may pick: a smallest part of the order, ties broken anyhow.
Picked(P, n) ==
  /\ P \subseteq Eligible
  /\ P = Eligible \/ Cardinality(P) = n
  /\ \A p \in P, q \in Eligible \ P : ~Before(Cursor[q], Cursor[p])

\* A fault of NextToken: it is taken from the extra row.
NextTokenExtra(items, extra) == {Cursor[extra]}

\* CreateNextPageToken: the cursor value of the page's last row.
NextToken(items, extra) ==
  {Cursor[r] : r \in {x \in items : \A y \in items : ~Before(Cursor[x], Cursor[y])}}

\* One call of List: fetch one row more than the page holds, cut it off, and make
\* a token if it was there.
List ==
  /\ walk = "walking"
  /\ \E size \in checkedPageSize : \E P \in SUBSET rows :
       /\ Picked(P, size + 1)
       /\ IF Cardinality(P) > size
            THEN \E extra \in P :
                   /\ \A p \in P : ~Before(Cursor[extra], Cursor[p])
                   /\ listed' = listed \cup (P \ {extra})
                   /\ twice' = twice \cup (listed \cap (P \ {extra}))
                   /\ token' \in NextToken(P \ {extra}, extra)
                   /\ UNCHANGED walk
            ELSE /\ listed' = listed \cup P
                 /\ twice' = twice \cup (listed \cap P)
                 /\ walk' = "over" /\ UNCHANGED token
  /\ UNCHANGED <<rows, used, stable>>

Insert(r) ==
  /\ r \notin used
  /\ rows' = rows \cup {r} /\ used' = used \cup {r}
  /\ UNCHANGED <<token, walk, listed, twice, stable>>

Delete(r) ==
  /\ r \in rows
  /\ rows' = rows \ {r} /\ stable' = stable \ {r}
  /\ UNCHANGED <<used, token, walk, listed, twice>>

Over == walk = "over" /\ UNCHANGED vars

Next == List \/ Over \/ \E r \in Row : Insert(r) \/ Delete(r)

Spec == Init /\ [][Next]_vars

-----------------------------------------------------------------------------
TypeOK ==
  /\ rows \subseteq Row /\ used \subseteq Row /\ rows \subseteq used
  /\ token \in {None} \cup {Cursor[r] : r \in Row}
  /\ walk \in {"walking", "over"}
  /\ listed \subseteq Row /\ twice \subseteq Row
  /\ stable \subseteq rows

\* pagination.go:84-97, table.go:853-861: a walk lists no row twice, whatever is
\* inserted and deleted meanwhile.
NoRepeats == twice = {}

\* pagination.go:13-14, 33-34: a walk that is over has listed every row that was
\* there all along.
NoGaps == walk = "over" => stable \subseteq listed

\* table.go:843-861: a walk lists every row that stays exactly once.
WalkExact == TypeOK /\ NoRepeats /\ NoGaps
=============================================================================
