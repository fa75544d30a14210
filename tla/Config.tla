------------------------------- MODULE Config -------------------------------
(***************************************************************************)
(* core/configx: one reader, shared by every Configurable, over four       *)
(* layers: overrides, the environment, the config files and defaults.      *)
(* Viper's Get of a section returns the section of the first layer that    *)
(* has any of it, so a read first promotes every resolved key of the       *)
(* section into the overrides, where they stay.  A key is a section and a  *)
(* leaf of it; a value is named for where it came from, and a default has  *)
(* one of several.                                                         *)
(***************************************************************************)
EXTENDS Naturals, FiniteSets

CONSTANTS
  Key,          \* pairs of a section and a leaf
  Mixed,        \* sections that their readers spell with capitals
  FromMap,      \* BOOLEAN: NewMapReader, which has no environment
  Defaults,     \* Defaults[k]: the values SetDefault is called with for k
  None

Section == {k[1] : k \in Key}

VARIABLES
  override, env, file, default,   \* the layers, Key -> Value or None
  bound,        \* keys with a bound environment variable
  claimed,      \* names of sections read, as spelled
  claimedAll,
  set,          \* history: what Set was called with
  read,         \* history: sections read
  first,        \* history: the default a key had when a read first promoted it
  last          \* history: the last read, whether it returned what it is said to

vars == <<override, env, file, default, bound, claimed, claimedAll, set, read, first, last>>

DefaultValue == UNION {Defaults[k] : k \in Key}
Layer == [Key -> {None, "set", "env", "file"} \cup DefaultValue]
Holding(K, v) == [k \in Key |-> IF k \in K THEN v ELSE None]
Nothing == Holding({}, None)

\* What the files, or the map given to NewMapReader, may hold.
Seeded == {Holding(K, "file") : K \in SUBSET Key}

Init ==
  /\ override = Nothing /\ default = Nothing /\ bound = {}
  /\ env \in {Holding(K, "env") : K \in SUBSET Key}
  /\ file \in Seeded
  /\ claimed = {} /\ claimedAll = FALSE
  /\ set = Nothing /\ read = {} /\ first = Nothing
  /\ last = [kind |-> "none", right |-> TRUE, bare |-> TRUE]

\* The first layer that has the key.
First4(a, b, c, d) == IF a # None THEN a ELSE IF b # None THEN b ELSE IF c # None THEN c ELSE d

\* The environment as this reader sees it: AutomaticEnv.
Env(k) == IF FromMap THEN None ELSE env[k]

\* viper's Get of a leaf.
Resolved(k) == First4(override[k], Env(k), file[k], default[k])

\* AllKeys: what any layer holds, and the bound variables.
AllKeys(b) ==
  {k \in Key : override[k] # None \/ file[k] # None \/ default[k] # None \/ k \in b}

\* viper keeps its keys in lower case; a name compared with them is as it was spelled.
Spelled(s) == <<s, s \in Mixed>>
Under(k, s) == Spelled(s) = <<k[1], FALSE>>

\* A fault of promoteResolved: a key no file or default has is passed over.
promoteFiled(s, b) ==
  [k \in Key |-> IF k \in AllKeys({}) /\ Under(k, s) THEN Resolved(k) ELSE override[k]]

\* promoteResolved: the overrides after the section's keys are copied into them.
promoteResolved(s, b) ==
  [k \in Key |-> IF k \in AllKeys(b) /\ Under(k, s) THEN Resolved(k) ELSE override[k]]

Has(layer, s) == \E k \in Key : k[1] = s /\ layer[k] # None

\* viper's Get of a section: the first layer that has any of it, alone.
Table(over, s) ==
  LET layer == IF Has(over, s) THEN over ELSE IF Has(file, s) THEN file ELSE default
  IN [k \in Key |-> IF k[1] = s THEN layer[k] ELSE None]

\* The default that counts: a read keeps the one it met, a later one comes too late.
Kept(k) == IF first[k] # None THEN first[k] ELSE default[k]
Keeping(S) == [k \in Key |-> IF k[1] \in S THEN Kept(k) ELSE first[k]]

\* What a read of the sections is to return.
Want(S, e) ==
  [k \in Key |-> IF k[1] \in S THEN First4(set[k], e[k], file[k], Kept(k)) ELSE None]
Wanted(S) == Want(S, [k \in Key |-> Env(k)])

SetDefault(k, v) ==
  /\ default' = [default EXCEPT ![k] = v]
  /\ UNCHANGED <<override, env, file, bound, claimed, claimedAll, set, read, first, last>>

Set(k) ==
  /\ override' = [override EXCEPT ![k] = "set"]
  /\ set' = [set EXCEPT ![k] = "set"]
  /\ UNCHANGED <<env, file, default, bound, claimed, claimedAll, read, first, last>>

\* bindEnvLeaves: a variable for every leaf of the sections; a map reader has none.
bindEnvLeaves(S) == IF FromMap THEN bound ELSE bound \cup {k \in Key : k[1] \in S}

\* Read: claim, bind a variable for every leaf of the destination, promote, unmarshal.
Read(s) ==
  LET b == bindEnvLeaves({s})
  IN /\ claimed' = claimed \cup {Spelled(s)} /\ read' = read \cup {s}
     /\ bound' = b
     /\ override' = promoteResolved(s, b) /\ first' = Keeping({s})
     /\ last' = [kind |-> "read", bare |-> TRUE,
                 right |-> Table(promoteResolved(s, b), s) = Wanted({s})]
     /\ UNCHANGED <<env, file, default, claimedAll, set>>

\* ReadMap: the same, without a destination to bind variables for.
ReadMap(s) ==
  /\ claimed' = claimed \cup {Spelled(s)} /\ read' = read \cup {s}
  /\ override' = promoteResolved(s, bound) /\ first' = Keeping({s})
  /\ last' = [kind |-> "map", right |-> TRUE,
              bare |-> Table(promoteResolved(s, bound), s) = Want({s}, Nothing)]
  /\ UNCHANGED <<env, file, default, bound, claimedAll, set>>

\* ReadAll: Unmarshal merges the layers key by key; section "" promotes every key.
ReadAll ==
  LET b == bindEnvLeaves(Section)
      all == [k \in Key |-> IF k \in AllKeys(b) THEN Resolved(k) ELSE override[k]]
  IN /\ claimedAll' = TRUE /\ read' = Section
     /\ bound' = b
     /\ override' = IF FromMap THEN override ELSE all
     /\ first' = IF FromMap THEN first ELSE Keeping(Section)
     /\ last' = [kind |-> "all", right |-> all = Wanted(Section), bare |-> TRUE]
     /\ UNCHANGED <<env, file, default, claimed, set>>

Next ==
  \/ \E k \in Key : Set(k) \/ \E v \in Defaults[k] : SetDefault(k, v)
  \/ \E s \in Section : Read(s) \/ ReadMap(s)
  \/ ReadAll

Spec == Init /\ [][Next]_vars

\* UnusedSections: sections of the files that nobody has claimed.
UnusedSections ==
  IF claimedAll THEN {}
  ELSE {s \in Section : Has(file, s) /\ <<s, FALSE>> \notin claimed}

-----------------------------------------------------------------------------
TypeOK ==
  /\ override \in Layer /\ env \in Layer /\ file \in Layer /\ default \in Layer /\ first \in Layer
  /\ bound \subseteq Key /\ claimed \subseteq Section \X BOOLEAN /\ read \subseteq Section
  /\ \A k \in Key : set[k] # None => override[k] = set[k]

\* viper.go:58-60, 98-107, map.go:44-47: whatever was read and set before, a read
\* returns for every key the override, else the environment, else the files, else the
\* default, and loses no key of the section.  The default is the latest when the
\* section is read for the first time, and that one ever after: promoting changes
\* nothing else.
Precedence == last.kind \in {"read", "all"} => last.right

\* viper.go:159-162: exactly the sections of the files that nobody has read.
UnusedExact == UnusedSections = {s \in Section : Has(file, s)} \ read

\* viper.go:58-60, 98-107, 159-162: both, after any reads, Sets and SetDefaults.
ConfigLayered == TypeOK /\ Precedence /\ UnusedExact

\* What the theorem asks of the constants: nobody spells a section with capitals.
ConfigAssumption ==
  Mixed \cap Section = {} /\ FromMap \in BOOLEAN /\ None \notin {"set", "env", "file"} \cup DefaultValue

\* viper.go:44-48: "SetDefault registers a default value", in force whenever it is called.
LatestDefault == \A k \in Key : Resolved(k) = First4(set[k], Env(k), file[k], default[k])

\* viper.go:69-71: "environment variables are not" included by ReadMap.
MapWithoutEnv == last.kind = "map" => last.bare
=============================================================================
