--------------------------------- MODULE Tx ---------------------------------
(***************************************************************************)
(* gormx RunTx: transactions carried in the context.  A goroutine nests    *)
(* calls of RunTx on several databases; a write goes through the           *)
(* transaction its context holds for its database, or straight to it.  A   *)
(* second goroutine may keep a context beyond the RunTx that made it.      *)
(***************************************************************************)
EXTENDS Naturals, Sequences, SequencesExt, FiniteSets

CONSTANTS
  Db,
  MaxDepth,    \* of nested calls
  MaxTx,       \* transactions opened
  MaxWrites,
  None

VARIABLES
  ctx,        \* the running goroutine's context: per database a transaction or None
  stack,      \* its calls of RunTx, outermost first
  tx,         \* transactions: [db, state, writes]
  leaked,     \* the context another goroutine holds
  write,      \* history: [db, root], root the outermost RunTx on db around it or 0
  failed,     \* writes that returned an error
  stored,     \* per database, the writes that are durable
  roots,      \* outermost calls of RunTx that have been made, all databases
  undone,     \* history: outermost calls whose op returned an error or panicked
  unsure      \* history: outermost calls that returned the error of their commit

vars == <<ctx, stack, tx, leaked, write, failed, stored, roots, undone, unsure>>

TxId == 1..MaxTx
WriteId == 1..MaxWrites
Empty == [d \in Db |-> None]

Init ==
  /\ ctx = Empty /\ stack = <<>> /\ tx = <<>> /\ leaked = Empty
  /\ write = <<>> /\ failed = {} /\ stored = [d \in Db |-> {}]
  /\ roots = 0 /\ undone = {} /\ unsure = {}

\* ctx.Value(txKey): the transaction the context carries for the database.
Carried(c, d) == c[d]

\* The outermost call of RunTx on d that is running, or 0.
Root(d) ==
  IF \E i \in DOMAIN stack : stack[i].db = d
    THEN stack[CHOOSE i \in DOMAIN stack :
                 stack[i].db = d /\ \A j \in 1..(i - 1) : stack[j].db # d].root
    ELSE 0

\* RunTx: join the transaction of the context, or begin one and put it there.
RunTx(d) ==
  /\ Len(stack) < MaxDepth
  /\ LET root == IF Root(d) = 0 THEN roots + 1 ELSE Root(d)
     IN /\ roots' = IF Root(d) = 0 THEN root ELSE roots
        /\ IF Carried(ctx, d) # None
             THEN /\ stack' = Append(stack, [db |-> d, opened |-> 0, root |-> root, ctx |-> ctx])
                  /\ UNCHANGED <<ctx, tx>>
             ELSE /\ Len(tx) < MaxTx
                  /\ tx' = Append(tx, [db |-> d, state |-> "open", writes |-> {}])
                  /\ ctx' = [ctx EXCEPT ![d] = Len(tx) + 1]
                  /\ stack' = Append(stack, [db |-> d, opened |-> Len(tx) + 1, root |-> root, ctx |-> ctx])
  /\ UNCHANGED <<leaked, write, failed, stored, undone, unsure>>

\* Commit or roll back transaction t.
Finish(t, ok) ==
  /\ tx' = [tx EXCEPT ![t].state = IF ok THEN "committed" ELSE "rolled back"]
  /\ stored' = [stored EXCEPT ![tx[t].db] = IF ok THEN @ \cup tx[t].writes ELSE @]

\* A fault of Owned: an inner call ends the transaction it has joined.
OwnedByAny(frame) == frame.ctx[frame.db] # None \/ frame.opened # 0

\* Only the call that opened a transaction ends it.
Owned(frame) == frame.opened # 0

Outermost(f) == \A i \in 1..(Len(stack) - 1) : stack[i].db # f.db

\* op returns, with an error ("failed") or without: then the call that owns the
\* transaction commits it, and returns the error of the commit.  A commit may be
\* "done", "refused", or "lost": it took effect and its answer did not arrive.  What
\* a caller makes of an error is its own business: it may return nil all the same.
Return(outcome) ==
  /\ stack # <<>>
  /\ LET f == Last(stack)
         t == IF f.opened # 0 THEN f.opened ELSE f.ctx[f.db]
     IN /\ Owned(f) \/ outcome \in {"done", "failed"}
        /\ IF Owned(f) THEN Finish(t, outcome \in {"done", "lost"}) ELSE UNCHANGED <<tx, stored>>
        /\ ctx' = f.ctx
        /\ undone' = undone \cup IF outcome = "failed" /\ Outermost(f) THEN {f.root} ELSE {}
        /\ unsure' = unsure \cup IF outcome \in {"refused", "lost"} /\ Outermost(f) THEN {f.root} ELSE {}
  /\ stack' = Front(stack)
  /\ UNCHANGED <<leaked, write, failed, roots>>

\* op panics: gorm rolls back every transaction on the way up.
Panic ==
  /\ stack # <<>>
  /\ LET opened == {stack[i].opened : i \in DOMAIN stack}
     IN tx' = [t \in DOMAIN tx |-> IF t \in opened THEN [tx[t] EXCEPT !.state = "rolled back"] ELSE tx[t]]
  /\ undone' = undone \cup {stack[i].root : i \in DOMAIN stack}
  /\ ctx' = Empty /\ stack' = <<>>
  /\ UNCHANGED <<leaked, write, failed, stored, roots, unsure>>

\* Table.db and a writing statement: a transaction that has ended refuses it.
Statement(c, d, root) ==
  /\ Len(write) < MaxWrites
  /\ write' = Append(write, [db |-> d, root |-> root])
  /\ LET w == Len(write) + 1
         t == Carried(c, d)
     IN IF t = None
          THEN stored' = [stored EXCEPT ![d] = @ \cup {w}] /\ UNCHANGED <<tx, failed>>
          ELSE IF tx[t].state = "open"
                 THEN tx' = [tx EXCEPT ![t].writes = @ \cup {w}] /\ UNCHANGED <<stored, failed>>
                 ELSE failed' = failed \cup {w} /\ UNCHANGED <<stored, tx>>
  /\ UNCHANGED <<ctx, stack, leaked, roots, undone, unsure>>

Write(d) == Statement(ctx, d, Root(d))

\* op hands its context to another goroutine.
Leak ==
  /\ stack # <<>> /\ leaked # ctx
  /\ leaked' = ctx
  /\ UNCHANGED <<ctx, stack, tx, write, failed, stored, roots, undone, unsure>>

\* That goroutine writes with it.
LateWrite(d) ==
  /\ leaked[d] # None
  /\ Statement(leaked, d, 0)

Next ==
  \/ Panic \/ Leak
  \/ \E outcome \in {"done", "failed", "refused", "lost"} : Return(outcome)
  \/ \E d \in Db : RunTx(d) \/ Write(d) \/ LateWrite(d)

Spec == Init /\ [][Next]_vars

-----------------------------------------------------------------------------
AllStored == UNION {stored[d] : d \in Db}

Running(root) == \E i \in DOMAIN stack : stack[i].root = root

TypeOK ==
  /\ ctx \in [Db -> TxId \cup {None}] /\ leaked \in [Db -> TxId \cup {None}]
  /\ tx \in Seq([db : Db, state : {"open", "committed", "rolled back"}, writes : SUBSET WriteId])
  /\ stack \in Seq([db : Db, opened : 0..MaxTx, root : Nat, ctx : [Db -> TxId \cup {None}]])
  /\ \A d \in Db : stored[d] \subseteq {w \in DOMAIN write : write[w].db = d}
  /\ failed \subseteq DOMAIN write

\* table.go:15-18, 69-81: what is written to a database within one outermost RunTx,
\* nested calls included, is stored as a whole or not at all, and none of it before
\* that call returns: neither an inner call nor a transaction on another database
\* ends it.
AllOrNothing ==
  \A v, w \in DOMAIN write :
    write[v].root # 0 /\ write[v].root = write[w].root
      => /\ v \in AllStored <=> w \in AllStored
         /\ Running(write[v].root) => v \notin AllStored

\* table.go:69, 78-80: once the op of the outermost RunTx has returned an error or
\* panicked, nothing written within it is stored.  After an error of the commit the
\* caller knows only AllOrNothing.
ErrorUndoes ==
  \A w \in DOMAIN write : write[w].root \in undone => w \notin AllStored

\* table.go:69-81: once the outermost RunTx has returned nil, every write within it
\* that was accepted is stored, whatever inner calls returned.
NilStores ==
  \A w \in DOMAIN write \ failed :
    write[w].root # 0 /\ ~Running(write[w].root) /\ write[w].root \notin undone \cup unsure
      => w \in AllStored

\* table.go:69-70: "rolling back on any error".
AnyErrorUndoes ==
  \A w \in DOMAIN write : write[w].root \in undone \cup unsure => w \notin AllStored

\* table.go:396-402: a write that has returned nil is stored or in a transaction of its
\* own database; one through a context whose transaction has ended is an error, never
\* a write past the transaction.
NoneAstray ==
  \A w \in DOMAIN write :
    \/ w \in failed /\ w \notin AllStored
    \/ w \in stored[write[w].db]
    \/ \E t \in DOMAIN tx : w \in tx[t].writes /\ tx[t].db = write[w].db
=============================================================================
