------------------------------- MODULE MCStores -----------------------------
(* gormx and aws/dynamo.  The components share no state: `scene` is the one  *)
(* that moves.  Pages are walked up and down; rows are changed on an engine  *)
(* with row locks, on SQLite, and by guarded updates only; Tables are        *)
(* derived ("derive") and listed by page numbers ("pages").                  *)
EXTENDS StoresProofs, TLC

VARIABLES
  scene,
  ctx, stack, tx, leaked, write, failed, stored, roots, undone, unsure,  \* Tx
  balance, version, holder, pc, seen, pending,                   \* RowUpdate
  heap, tables, tRows, list, tWalk, tWrites,                     \* Tables
  now, item, read, dirty, row, births, winners, honest,          \* DynamoItem
  kind, descending, table, always, ever, qToken, more, result, total, todo,
  requestItems, qFailed, writes,                                 \* DynamoQuery
  formats, kStored, put                                          \* KeyFormat

\* Five rows with cursor values of their own; page sizes that change from page to
\* page, two of them out of range.
MCRow == 1..5
MCCursor == [r \in MCRow |-> r]
MCRequested == {-1, 0, 1, 4}
Down == INSTANCE Pages WITH Desc <- TRUE

\* Two databases: a transaction in a transaction, of the same and the other.
Txs == INSTANCE Tx WITH Db <- {"d1", "d2"}, MaxDepth <- 3, MaxTx <- 3, MaxWrites <- 2

Mixed == "w1" :> 1 @@ "w2" :> 2 @@ "w3" :> -1 @@ "w4" :> 3
Ones == [w \in DOMAIN Mixed |-> 1]
Locked == INSTANCE RowUpdate WITH
  Worker <- DOMAIN Mixed, Change <- Mixed, Guarded <- {"w3"}, Start <- 2, Capacity <- 9, SQLite <- FALSE
Lite == INSTANCE RowUpdate WITH
  Worker <- DOMAIN Mixed, Change <- Mixed, Guarded <- {"w3"}, Start <- 2, Capacity <- 9, SQLite <- TRUE
Guards == INSTANCE RowUpdate WITH
  Worker <- DOMAIN Mixed, Change <- Ones, Guarded <- DOMAIN Mixed, Start <- 0, Capacity <- 2, SQLite <- FALSE

\* Four Tables of an empty database; one derived Table over four rows, two of
\* them equal in the column of the order, with page numbers below the first, in
\* between, and with an offset that is no int.
Derive == INSTANCE Tables WITH
  Row <- {}, Column <- <<>>, Tagged <- {}, Clause <- {"tagged", "desc"}, Page <- {1}, PageSize <- 2, MaxInt <- 7,
  MaxTables <- 4, MaxWrites <- 0, rows <- tRows, walk <- tWalk, writes <- tWrites
Numbered == INSTANCE Tables WITH
  Row <- 1..4, Column <- <<1, 2, 2, 3>>, Tagged <- {1, 3}, Clause <- {"tagged", "desc"},
  Page <- {-1, 1, 3, 9}, PageSize <- 2, MaxInt <- 7, MaxTables <- 2, MaxWrites <- 2, rows <- tRows, walk <- tWalk, writes <- tWrites

\* The item has an index key built from a field.  Every update of the field names
\* the index key too, or removes the field.
IndexKey == "GSI1PK"
MCUpdates == {[set |-> {"Status", IndexKey}, remove |-> {}],
              [set |-> {"Status"}, remove |-> {"Status"}],
              [set |-> {}, remove |-> {IndexKey}]}
Item == INSTANCE DynamoItem WITH
  Plain <- {"Status"}, derivedFields <- <<IndexKey>>, Source <- IndexKey :> {"Status"},
  OmitEmpty <- {}, Updates <- MCUpdates, Guarded <- TRUE, MaxTime <- 4

ASSUME StoresAssumption == UniqueCursor /\ Group!GroupAssumption

\* Five items of which some pass the filter.
Reader == INSTANCE DynamoQuery WITH
  N <- 5, Match <- {2, 3, 5}, PageSize <- 2, MaxItems <- 2, batchSize <- 2, MaxWrites <- 2,
  token <- qToken, failed <- qFailed

\* Strings over a letter and a separator; composite keys with one- and
\* two-character separators, a trailing literal, a prefix and a constant.
Constant == <<<<"C">>, <<"Name", "#", "#", "Other">>>>
Texts == UNION {[1..n -> {"x", "#"}] : n \in 0..2}
Keys == INSTANCE KeyFormat WITH
  Field <- {"Name", "Other", "Owner"}, IDField <- {"Owner"}, ID <- {<<"i">>, <<"j">>},
  Text <- Texts, Careful <- TRUE, MaxPuts <- 2, stored <- kStored,
  Pattern <- {<<<<"T", "Owner">>, <<"U", "Name", "#", "Other">>>>, Constant,
              <<<<"Owner", "#", "Name", "#">>, <<"Owner", "#", "Other">>>>}

txVars == <<ctx, stack, tx, leaked, write, failed, stored, roots, undone, unsure>>
rowVars == <<balance, version, holder, pc, seen, pending>>
tableVars == <<heap, tables, tRows, list, tWalk, tWrites>>
itemVars == <<now, item, read, dirty, row, births, winners, honest>>
groupVars == <<members, count, closed, gSeen, told, applied, late, calls>>
readerVars ==
  <<kind, descending, table, always, ever, qToken, more, result, total, todo, requestItems, qFailed, writes>>
keyVars == <<formats, kStored, put>>
sqlVars == <<vars, txVars, rowVars, tableVars>>
dynamoVars == <<itemVars, groupVars, readerVars, keyVars>>
mcVars == <<scene, sqlVars, dynamoVars>>

MCInit ==
  /\ scene \in {"up", "down", "tx", "locked", "lite", "guards", "derive", "pages",
                "item", "group", "reader", "keys"}
  /\ Init /\ (scene \notin {"up", "down"} => rows = {})
  /\ Txs!Init
  /\ IF scene = "guards" THEN Guards!Init ELSE Locked!Init
  /\ Numbered!Init /\ (scene # "pages" => tRows = {})
  /\ Item!Init /\ Group!Init /\ Reader!Init /\ Keys!Init
  /\ scene # "reader" => kind = "count" /\ table = {}
  /\ scene # "keys" => formats.pk = Keys!parseKeyFormat(Constant[1])

\* The goroutine has left its last RunTx; every client has made its calls.
CallsMade ==
  \/ scene = "tx" /\ stack = <<>>
  \/ scene = "group" /\ \A c \in Client : calls[c] = MaxCalls

MCNext ==
  \/ /\ \/ scene = "up" /\ Next
        \/ scene = "down" /\ Down!Next
     /\ UNCHANGED <<scene, txVars, rowVars, tableVars, dynamoVars>>
  \/ scene = "tx" /\ Txs!Next /\ UNCHANGED <<scene, vars, rowVars, tableVars, dynamoVars>>
  \/ /\ \/ scene = "locked" /\ Locked!Next
        \/ scene = "lite" /\ Lite!Next
        \/ scene = "guards" /\ Guards!Next
     /\ UNCHANGED <<scene, vars, txVars, tableVars, dynamoVars>>
  \/ /\ \/ scene = "derive" /\ Derive!Next
        \/ scene = "pages" /\ Numbered!Next
     /\ UNCHANGED <<scene, vars, txVars, rowVars, dynamoVars>>
  \/ scene = "item" /\ Item!Next /\ UNCHANGED <<scene, sqlVars, groupVars, readerVars, keyVars>>
  \/ scene = "group" /\ Group!Next /\ UNCHANGED <<scene, sqlVars, itemVars, readerVars, keyVars>>
  \/ scene = "reader" /\ Reader!Next /\ UNCHANGED <<scene, sqlVars, itemVars, groupVars, keyVars>>
  \/ scene = "keys" /\ Keys!Next /\ UNCHANGED <<scene, sqlVars, itemVars, groupVars, readerVars>>
  \/ CallsMade /\ UNCHANGED mcVars

MCSpec == MCInit /\ [][MCNext]_mcVars

Symm == Permutations(Client)

-----------------------------------------------------------------------------
(* table.go:15-18, 69-81, 340-402, 464-477: what is written to a database    *)
(* within one outermost RunTx is stored as a whole or not at all: all of it  *)
(* when that RunTx has returned nil, nothing when its op has failed, and     *)
(* either when only the commit has; a row holds the sum of the changes that  *)
(* were committed, with row locks and on SQLite, and guarded updates keep it *)
(* within its bounds.                                                        *)
WritesExact ==
  /\ Txs!TypeOK /\ Txs!AllOrNothing /\ Txs!ErrorUndoes /\ Txs!NilStores /\ Txs!NoneAstray
  /\ Locked!TypeOK
  /\ IF scene = "guards" THEN Guards!NoLostUpdate ELSE Locked!NoLostUpdate
  /\ scene = "guards" => Guards!WithinCapacity

(* update.go:49-130, tag.go:325-376: derived attributes agree with their     *)
(* sources, CreatedAt stays the time of birth, of several creators one wins, *)
(* and a write that returns nil has stored what it names.                    *)
ItemConsistent ==
  Item!TypeOK /\ Item!NoDrift /\ Item!KeepsBirth /\ Item!OneCreator /\ Item!DoneMeansStored

(* gormx table.go:184-211, 818-904, pagination.go:69-82: a Table reads with  *)
(* the scopes and preloads that were asked of it, whatever else was derived  *)
(* from the same Table; a page number selects its rows or is refused, and a  *)
(* walk by page numbers gets every row that was stored all along exactly     *)
(* once, unless rows were created or deleted where it hurts, or another row  *)
(* is equal to it in the column of the order.  aws/dynamo                    *)
(* table.go:283-480, tag.go: no item is returned twice, every item that was  *)
(* stored all along is returned, and Count's total is the number of matching *)
(* items up to the ceiling; the table lists exactly the items that were put  *)
(* and not deleted, each with the key field values it was put with.          *)
ReadsExact ==
  /\ Numbered!TypeOK /\ Numbered!Isolated /\ Numbered!JumpExact /\ Numbered!WalkExcused
  /\ Reader!TypeOK /\ Reader!NoneTwice /\ Reader!NoneMissed /\ Reader!CountTrue
  /\ Keys!TypeOK /\ Keys!ReadsBack
=============================================================================
