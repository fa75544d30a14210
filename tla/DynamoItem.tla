----------------------------- MODULE DynamoItem -----------------------------
(***************************************************************************)
(* aws/dynamo: one item of a table, written by clients that each hold a    *)
(* struct of it.  A write stamps the struct's auto_create and auto_update  *)
(* fields and recomputes its derived attributes, in the order of their     *)
(* declaration, before it is marshalled; an update sends the attributes it *)
(* names.  The value of a derived attribute is the function of the values  *)
(* it was built from.  DynamoDB applies a request at once, and its answer  *)
(* may be lost.                                                            *)
(***************************************************************************)
EXTENDS Naturals, Sequences, FiniteSets, SequencesExt

CONSTANTS
  Client,
  Plain,        \* plain attributes
  derivedFields,\* the derived attributes, in struct order
  Source,       \* derived attribute -> the attributes in its pattern
  OmitEmpty,    \* plain attributes tagged omitempty
  Updates,      \* the updates the program makes: [set, remove]
  Guarded,      \* BOOLEAN: updates and overwrites require the item to exist
  MaxTime,      \* bound: writes
  None

Derived == ToSet(derivedFields)
Attr == Plain \cup Derived

Zero == 0                  \* the zero value of a plain field, and of a time
PlainValue == {Zero, 1}

VARIABLES
  now,          \* the clock, one tick a write
  item,         \* per client, its struct: attribute -> value, "created", "updated"
  read,         \* clients whose struct is of the stored item: read, or created
  dirty,        \* per client, the fields it changed since
  row,          \* the stored attributes, or None
  births,       \* history: times of successful creations
  winners,      \* history: clients told that they created the stored item
  honest        \* history: the last write told ok did what it was asked

vars == <<now, item, read, dirty, row, births, winners, honest>>

Names == Attr \cup {"created", "updated"}
ZeroItem == [a \in Names |-> IF a \in Derived THEN None ELSE Zero]

Init ==
  /\ now = 1
  /\ item = [c \in Client |-> ZeroItem]
  /\ read = {} /\ dirty = [c \in Client |-> {}] /\ row = None /\ births = {} /\ winners = {} /\ honest = TRUE

-----------------------------------------------------------------------------
\* A fault of applyDerived: an attribute that has a value is left alone.
applyDerivedOnce(it) ==
  [a \in Names |-> IF a \in Derived /\ it[a] = None THEN [s \in Source[a] |-> it[s]] ELSE it[a]]

applyTimestamps(it, isUpdate) ==
  [it EXCEPT !["created"] = IF ~isUpdate /\ @ = Zero THEN now ELSE @, !["updated"] = now]

applyDerived(it) ==
  LET compute(i, d) == [i EXCEPT ![d] = [s \in Source[d] |-> i[s]]]
  IN  FoldLeft(compute, it, derivedFields)

\* attributevalue.MarshalMap: what of a struct is sent.
MarshalMap(it) == {a \in Names : ~(a \in OmitEmpty /\ it[a] = Zero)}

\* attributevalue.UnmarshalMap: attributes that are absent stay zero.
UnmarshalMap(r) == [a \in Names |-> IF a \in DOMAIN r THEN r[a] ELSE ZeroItem[a]]

\* Outcomes of a request: applied and answered, applied and the answer lost,
\* or not applied.
Answer == {"ok", "lost", "failed"}

\* The client begins with a new struct.
Make(c, v) ==
  /\ item' = [item EXCEPT ![c] = [a \in Names |-> IF a \in Plain THEN v[a] ELSE ZeroItem[a]]]
  /\ read' = read \ {c} /\ dirty' = [dirty EXCEPT ![c] = {}]
  /\ UNCHANGED <<now, row, births, winners, honest>>

Get(c) ==
  /\ row # None
  /\ item' = [item EXCEPT ![c] = UnmarshalMap(row)]
  /\ read' = read \cup {c} /\ dirty' = [dirty EXCEPT ![c] = {}]
  /\ UNCHANGED <<now, row, births, winners, honest>>

\* The program changes a field of its struct.
Edit(c, a, v) ==
  /\ item[c][a] # v
  /\ item' = [item EXCEPT ![c][a] = v]
  /\ dirty' = [dirty EXCEPT ![c] = @ \cup {a}]
  /\ UNCHANGED <<now, read, row, births, winners, honest>>

marshalItem(it) == applyDerived(applyTimestamps(it, FALSE))

\* The ConditionExpression of a write, evaluated by DynamoDB.
Holds(cond) ==
  CASE cond = "absent" -> row = None
    [] cond = "exists" -> row # None
    [] cond = "none" -> TRUE

\* A struct the program made is put on condition that the key is absent; one that
\* was read is put without a condition, or on condition that the item exists.
PutTx(c) ==
  LET it == marshalItem(item[c])
      cond == IF c \notin read THEN "absent" ELSE IF Guarded THEN "exists" ELSE "none"
  IN  \E ans \in Answer :
        /\ now < MaxTime
        /\ now' = now + 1
        /\ item' = [item EXCEPT ![c] = it]
        /\ IF ans = "failed" \/ ~Holds(cond) THEN
             UNCHANGED <<read, dirty, row, births, winners, honest>>
           ELSE
             /\ read' = IF ans = "ok" THEN read \cup {c} ELSE read
             /\ dirty' = IF ans = "ok" THEN [dirty EXCEPT ![c] = {}] ELSE dirty
             /\ row' = [a \in MarshalMap(it) |-> it[a]]
             /\ births' = IF c \in read THEN births ELSE births \cup {it["created"]}
             /\ winners' = IF c \notin read /\ ans = "ok" THEN winners \cup {c} ELSE winners
             /\ honest' = TRUE

\* The attributes an update sets: the named and the auto_update ones that the
\* struct is marshalled with.
buildUpdate(it, spec) == (spec.set \cup {"updated"}) \cap MarshalMap(it)

\* The program updates items that it has read or created, and names what it
\* changed.
UpdateWith(c, spec) ==
  LET it == applyDerived(applyTimestamps(item[c], TRUE))
      set == buildUpdate(it, spec)
      old == IF row = None THEN <<>> ELSE row
      new == [a \in (DOMAIN old \cup set) \ spec.remove |-> IF a \in set THEN it[a] ELSE old[a]]
  IN  \E ans \in Answer :
        /\ c \in read /\ dirty[c] \subseteq spec.set /\ now < MaxTime
        /\ now' = now + 1
        /\ UNCHANGED <<read, births>>
        /\ IF spec.remove \cap (spec.set \cup {"updated"}) # {} THEN
             UNCHANGED <<item, dirty, row, winners, honest>>      \* a bad request
           ELSE
             /\ item' = [item EXCEPT ![c] = it]
             /\ UNCHANGED winners
             /\ IF ans = "failed" \/ ~Holds(IF Guarded THEN "exists" ELSE "none")
                THEN UNCHANGED <<dirty, row, honest>>
                ELSE /\ row' = new
                     /\ dirty' = IF ans = "ok" THEN [dirty EXCEPT ![c] = {}] ELSE dirty
                     /\ honest' = (ans = "ok" =>
                          \A a \in spec.set \cup {"updated"} : UnmarshalMap(new)[a] = it[a])

Delete(c) ==
  \E ans \in Answer :
    /\ now < MaxTime /\ now' = now + 1
    /\ IF ans = "failed" THEN UNCHANGED <<row, winners>>
       ELSE row' = None /\ winners' = {}
    /\ UNCHANGED <<item, read, dirty, births, honest>>

Next ==
  \E c \in Client :
    \/ \E v \in [Plain -> PlainValue] : Make(c, v)
    \/ Get(c)
    \/ \E a \in Plain, v \in PlainValue : Edit(c, a, v)
    \/ PutTx(c)
    \/ \E spec \in Updates : UpdateWith(c, spec)
    \/ Delete(c)

Spec == Init /\ [][Next]_vars

-----------------------------------------------------------------------------
TypeOK ==
  /\ now \in 1 .. MaxTime
  /\ \A c \in Client : DOMAIN item[c] = Names /\ item[c]["updated"] \in 0 .. MaxTime
  /\ row # None => DOMAIN row \subseteq Names
  /\ read \subseteq Client /\ dirty \in [Client -> SUBSET Plain] /\ births \subseteq 1 .. MaxTime /\ winners \subseteq Client /\ honest \in BOOLEAN

\* A stored derived attribute is what its pattern makes of the attributes stored
\* beside it, after any writes of any clients (table.go: "it cannot drift from
\* the data it is built out of").
NoDrift ==
  row # None =>
    \A d \in Derived \cap DOMAIN row :
      row[d] = [s \in Source[d] |-> IF s \in DOMAIN row THEN row[s] ELSE ZeroItem[s]]

\* A stored item has been created by a Put and still has its creation time: an
\* update or a late overwrite never brings a deleted item back half empty, and
\* writing what was read never renews the creation time (auto_create).
KeepsBirth == row # None => ("created" \in DOMAIN row /\ row["created"] \in births)

\* At most one of the clients that create the same item is told that it did.
OneCreator == Cardinality(winners) <= 1

\* An update that returned nil has stored every attribute that it named, and the
\* auto_update one, as they are in the caller's struct (UpdateSpec.Set:
\* "attribute names to SET from the item").
DoneMeansStored == honest
=============================================================================
