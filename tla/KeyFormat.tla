------------------------------ MODULE KeyFormat ------------------------------
(***************************************************************************)
(* aws/dynamo: the partition and sort keys of an item are text built from  *)
(* patterns of literals and field placeholders (tag.go).  Put stores the   *)
(* item under the encoded keys without its key fields; Get and the queries *)
(* decode the fields back out of the keys.  Text is a sequence of          *)
(* characters; a pattern is a sequence of characters and fields.           *)
(***************************************************************************)
EXTENDS Naturals, Sequences, FiniteSets, SequencesExt

CONSTANTS
  Field,        \* fields that the patterns may name
  IDField,      \* those of type uuid.UUID; the others are strings
  ID,           \* the texts of identifiers
  Text,         \* the texts of strings
  Pattern,      \* pairs <<pk pattern, sk pattern>>
  Careful,      \* BOOLEAN: items are only put when Separable
  MaxPuts       \* bound: items in the table

Value(f) == IF f \in IDField THEN ID ELSE Text

Item == {i \in [Field -> ID \cup Text] : \A f \in Field : i[f] \in Value(f)}

VARIABLES
  formats,      \* the parsed pk and sk patterns of the item type
  stored,       \* set of [pk, sk]: the keys in the table
  put           \* history: the items that were put and not deleted

vars == <<formats, stored, put>>

-----------------------------------------------------------------------------
Literal(t) == [literal |-> t, field |-> {}]
Reference(f) == [literal |-> <<>>, field |-> {f}]
IsLiteral(seg) == seg.field = {}

\* Runs of characters become one literal, placeholders become references.
parseKeyFormat(pattern) ==
  LET add(segs, tok) ==
        IF tok \in Field THEN Append(segs, Reference(tok))
        ELSE IF segs # <<>> /\ IsLiteral(Last(segs))
             THEN Front(segs) \o <<Literal(Last(segs).literal \o <<tok>>)>>
             ELSE Append(segs, Literal(<<tok>>))
  IN  FoldLeft(add, <<>>, pattern)

Named(fmt) == UNION {fmt[n].field : n \in DOMAIN fmt}

encode(fmt, item) ==
  LET add(text, seg) ==
        text \o (IF IsLiteral(seg) THEN seg.literal ELSE item[CHOOSE f \in seg.field : TRUE])
  IN  FoldLeft(add, <<>>, fmt)

\* Where lit occurs in text, as offsets.
Occurs(text, lit) ==
  {n \in 0 .. Len(text) - Len(lit) : SubSeq(text, n + 1, n + Len(lit)) = lit}

\* The first literal at or after segment n, or no text.
nextLiteral(fmt, n) ==
  LET L == {m \in n .. Len(fmt) : IsLiteral(fmt[m])}
  IN  IF L = {} THEN <<>> ELSE fmt[CHOOSE m \in L : \A k \in L : m <= k].literal

\* A fault of Cut: the last occurrence of the separator.
CutLast(text, lit) == {n \in Occurs(text, lit) : \A m \in Occurs(text, lit) : m <= n}

\* strings.Index: where a field's value ends, if it ends.
Cut(text, lit) == {n \in Occurs(text, lit) : \A m \in Occurs(text, lit) : n <= m}

Failed == [ok |-> FALSE, rest |-> <<>>, item |-> <<>>]

\* setFieldFromString: an identifier has to parse.
Assign(st, f, value, rest) ==
  IF f \in IDField /\ value \notin ID THEN Failed
  ELSE [ok |-> TRUE, rest |-> rest, item |-> [st.item EXCEPT ![f] = value]]

\* Literals are matched and dropped; a field extends to the next literal.
decode(fmt, raw, item) ==
  LET step(st, n) ==
        LET seg == fmt[n]
            lit == IF IsLiteral(seg) THEN seg.literal ELSE nextLiteral(fmt, n + 1)
            cut == Cut(st.rest, lit)
            Tail_(k) == SubSeq(st.rest, k + 1, Len(st.rest))
        IN  CASE ~st.ok -> st
              [] st.ok /\ IsLiteral(seg) ->
                   IF IsPrefix(lit, st.rest) THEN [st EXCEPT !.rest = Tail_(Len(lit))] ELSE Failed
              [] st.ok /\ ~IsLiteral(seg) ->
                   LET f == CHOOSE g \in seg.field : TRUE
                   IN  IF lit = <<>> THEN Assign(st, f, st.rest, <<>>)
                       ELSE IF cut = {} THEN Failed
                       ELSE LET k == CHOOSE c \in cut : TRUE
                            IN  Assign(st, f, SubSeq(st.rest, 1, k), Tail_(k))
  IN  FoldLeftDomain(step, [ok |-> TRUE, rest |-> raw, item |-> item], fmt)

buildKey(item) == [pk |-> encode(formats.pk, item), sk |-> encode(formats.sk, item)]

\* The zero value of the struct that the key fields are decoded into.
Zero == [f \in Field |-> <<>>]

injectKeys(key) ==
  LET pk == decode(formats.pk, key.pk, Zero)
  IN  IF pk.ok THEN decode(formats.sk, key.sk, pk.item) ELSE Failed

-----------------------------------------------------------------------------
KeyFields == Named(formats.pk) \cup Named(formats.sk)
Identity(item) == [f \in KeyFields |-> item[f]]

\* A value does not end in, contain, or with the separator after it make up,
\* an earlier separator; and every value but the last has a separator.
SeparableIn(fmt, item) ==
  \A n \in DOMAIN fmt : (~IsLiteral(fmt[n]) /\ n < Len(fmt)) =>
    /\ IsLiteral(fmt[n + 1])
    /\ LET v == item[CHOOSE f \in fmt[n].field : TRUE]
           lit == fmt[n + 1].literal
       IN  Occurs(v \o lit, lit) = {Len(v)}

Separable(item) == SeparableIn(formats.pk, item) /\ SeparableIn(formats.sk, item)

Init ==
  /\ \E p \in Pattern : formats = [pk |-> parseKeyFormat(p[1]), sk |-> parseKeyFormat(p[2])]
  /\ stored = {} /\ put = {}

Put(item) ==
  /\ Cardinality(put) < MaxPuts
  /\ Careful => Separable(item)
  /\ stored' = stored \cup {buildKey(item)}
  /\ put' = put \cup {Identity(item)}
  /\ UNCHANGED formats

Delete(item) ==
  /\ put # {}
  /\ Careful => Separable(item)
  /\ stored' = stored \ {buildKey(item)}
  /\ put' = put \ {Identity(item)}
  /\ UNCHANGED formats

Next == \E item \in Item : Put(item) \/ Delete(item)

Spec == Init /\ [][Next]_vars

-----------------------------------------------------------------------------
TypeOK ==
  /\ put \subseteq [KeyFields -> ID \cup Text]
  /\ \A key \in stored : DOMAIN key = {"pk", "sk"}

\* What a query of the whole table returns, keys decoded.
Listed == {injectKeys(key) : key \in stored}

\* The table lists exactly the items that were put and not deleted, each with
\* the key field values it was put with: no key decodes to other values or fails
\* to decode, and no two items share a key (table.go: "Every field a key pattern
\* references is encoded on write and decoded back on read").
ReadsBack ==
  /\ \A r \in Listed : r.ok
  /\ {Identity(r.item) : r \in Listed} = put
=============================================================================
