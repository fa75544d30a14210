------------------------------- MODULE Secrets -------------------------------
(***************************************************************************)
(* The secret stores of core/secretx, for one name: SecretStore over AWS   *)
(* Secrets Manager, which creates a secret and, if it exists, adds a       *)
(* version in a second request; ParameterStore, which overwrites in one;   *)
(* and Static in memory.  A Secrets Manager reference is the ARN of one    *)
(* creation of the name, a parameter's or a static one is the name.        *)
(***************************************************************************)
EXTENDS Naturals, FiniteSets

CONSTANTS
  Client, Value, None,
  Kind,         \* "secrets", "parameters" or "static"
  force,        \* BOOLEAN: WithForceDelete
  MaxBirths     \* bound: creations of the name

VARIABLES
  state,        \* of the name: "none", "live", "scheduled" for deletion
  val,          \* its value
  births,       \* how often the name was created
  arg,          \* per client, the value it stores after "exists", or None
  issued,       \* the references returned: [ref, birth], birth being history
  answer,       \* per client, what its last call returned
  blind,        \* history: a Resolve reached the store, found no secret, and did not say so
  stray         \* history: a Delete removed a secret created after its reference

vars == <<state, val, births, arg, issued, answer, blind, stray>>

Init ==
  /\ state = "none" /\ val = None /\ births = 0
  /\ arg = [c \in Client |-> None] /\ issued = {}
  /\ answer = [c \in Client |-> None] /\ blind = FALSE /\ stray = FALSE

Idle(c) == arg[c] = None
Told(c, a, v) == answer' = [answer EXCEPT ![c] = <<a, v>>]

\* The reference to the secret created at birth b.
Ref(b) == IF Kind = "secrets" THEN b ELSE 0
Names(ref) == state # "none" /\ (ref = 0 \/ ref = births)

\* The value v is stored at birth b: the call says so, or its answer is lost,
\* an error after the fact.
Stored(c, v, b) ==
  /\ \/ Told(c, "stored", v) /\ issued' = issued \cup {[ref |-> Ref(b), birth |-> b]}
     \/ Kind # "static" /\ Told(c, "internal", None) /\ UNCHANGED issued
  /\ UNCHANGED <<blind, stray>>

\* The request does not reach the service, or is refused.
Unreached(c) ==
  /\ Kind # "static" /\ Told(c, "internal", None)
  /\ UNCHANGED <<state, val, births, issued, blind, stray>>

-----------------------------------------------------------------------------
Created(c, v) ==
  /\ births < MaxBirths /\ births' = births + 1
  /\ state' = "live" /\ val' = v
  /\ Stored(c, v, births + 1)

Replaced(c, v) ==
  /\ state = "live" /\ val' = v /\ UNCHANGED <<state, births>>
  /\ Stored(c, v, births)

\* Store of a SecretStore: CreateSecret.  A name scheduled for deletion cannot
\* be created.
CreateSecret(c, v) ==
  /\ Kind = "secrets" /\ Idle(c)
  /\ \/ state = "none" /\ Created(c, v) /\ UNCHANGED arg
     \/ state = "live" /\ arg' = [arg EXCEPT ![c] = v]
        /\ UNCHANGED <<state, val, births, issued, answer, blind, stray>>
     \/ state = "scheduled" /\ Unreached(c) /\ UNCHANGED arg
     \/ Unreached(c) /\ UNCHANGED arg

\* A fault of PutSecretValue: an error is passed over.
PutSecretValueDeaf(c) ==
  /\ arg[c] # None /\ arg' = [arg EXCEPT ![c] = None]
  /\ \/ Replaced(c, arg[c])
     \/ state # "live" /\ Stored(c, arg[c], births) /\ UNCHANGED <<state, val, births>>

\* Its second request, after CreateSecret said that the secret exists.
PutSecretValue(c) ==
  /\ arg[c] # None /\ arg' = [arg EXCEPT ![c] = None]
  /\ Replaced(c, arg[c]) \/ Unreached(c)

\* Store of a ParameterStore: one request, which overwrites.
PutParameter(c, v) ==
  /\ Kind = "parameters" /\ UNCHANGED arg
  /\ (state = "none" /\ Created(c, v)) \/ Replaced(c, v) \/ Unreached(c)

\* A fault of Static's Store: a name that is taken keeps its value.
StaticStoreOnce(c, v) ==
  /\ Kind = "static" /\ UNCHANGED arg
  /\ \/ state = "none" /\ Created(c, v)
     \/ state = "live" /\ Stored(c, v, births) /\ UNCHANGED <<state, val, births>>

\* Store of a Static, under its lock.
StaticStore(c, v) ==
  /\ Kind = "static" /\ UNCHANGED arg
  /\ (state = "none" /\ Created(c, v)) \/ Replaced(c, v)

\* The service's answer is its not-found error.
NotFound(ref) == ~Names(ref)

Resolve(c, ref) ==
  /\ Idle(c) /\ UNCHANGED <<state, val, births, arg, issued, stray>>
  /\ \/ Names(ref) /\ state = "live" /\ Told(c, "resolved", val) /\ UNCHANGED blind
     \/ NotFound(ref) /\ Told(c, "not found", None) /\ UNCHANGED blind
     \/ ~(Names(ref) /\ state = "live") /\ ~NotFound(ref)
        /\ Told(c, "internal", None) /\ blind' = TRUE
     \/ Kind # "static" /\ Told(c, "internal", None) /\ UNCHANGED blind

\* A fault of Delete's target: the reference is taken for the name of the secret.
TargetName(ref) == state # "none"

Target(ref) == Names(ref)

Removed == IF Kind = "secrets" /\ ~force THEN "scheduled" ELSE "none"

\* Delete of a reference i; one that names nothing is not an error.
Delete(c, i) ==
  /\ Idle(c) /\ UNCHANGED <<births, arg, issued, blind>>
  /\ \/ /\ Target(i.ref) /\ state = "live"
        /\ state' = Removed
        /\ val' = None
        /\ stray' = (stray \/ i.birth # births)
        /\ Told(c, "deleted", None) \/ (Kind # "static" /\ Told(c, "internal", None))
     \/ ~Target(i.ref) /\ Told(c, "deleted", None) /\ UNCHANGED <<state, val, stray>>
     \/ /\ Kind # "static" /\ Told(c, "internal", None)
        /\ UNCHANGED <<state, val, stray>>

\* The recovery window of a scheduled deletion ends.
Elapse ==
  /\ state = "scheduled" /\ state' = "none"
  /\ UNCHANGED <<val, births, arg, issued, answer, blind, stray>>

Next ==
  \/ Elapse
  \/ \E c \in Client :
       \/ \E v \in Value : CreateSecret(c, v) \/ PutParameter(c, v) \/ StaticStore(c, v)
       \/ PutSecretValue(c)
       \/ \E i \in issued : Resolve(c, i.ref) \/ Delete(c, i)

Spec == Init /\ [][Next]_vars

-----------------------------------------------------------------------------
TypeOK ==
  /\ state \in {"none", "live", "scheduled"} /\ (state = "scheduled" => ~force)
  /\ val \in Value \cup {None} /\ births \in 0 .. MaxBirths
  /\ arg \in [Client -> Value \cup {None}]
  /\ issued \subseteq [ref : 0 .. MaxBirths, birth : 1 .. MaxBirths]

\* What secretx promises of a call of c, whichever the store: a Store that returns
\* no error has replaced the value at one moment, a Delete has removed it, and a
\* Resolve tells the value there was, or that there was none or the reference is
\* to no secret of this name; a call that fails may have been done or not.
Promised(c) ==
  \/ \E v \in Value : val' = v /\ (Told(c, "stored", v) \/ Told(c, "internal", None))
  \/ val' = None /\ (Told(c, "deleted", None) \/ Told(c, "internal", None))
  \/ val # None /\ Told(c, "resolved", val) /\ UNCHANGED val
  \/ (\E a \in {"deleted", "not found", "internal"} : Told(c, a, None)) /\ UNCHANGED val

\* Every store keeps the contract of secretx: a Store that returns no error has
\* replaced the value, even when it takes two requests and the secret is deleted
\* or created anew between them; a failed one leaves a value somebody stored.
KeepsContract ==
  /\ val = None /\ answer = [c \in Client |-> None]
  /\ [][\E c \in Client : Promised(c)]_<<val, answer>>

\* A Resolve that reaches the store and finds no secret says "not found", which
\* callers treat as a misconfiguration and not as worth retrying.
SaysNotFound == ~blind

\* A Delete removes only the secret that its reference was returned for, not one
\* that was created under the same name since: cleaning up twice is safe.
CleansOwn == ~stray

\* Where nothing waits for deletion, and where a reference is an ARN.
UsesRight ==
  /\ Kind # "secrets" \/ force => SaysNotFound
  /\ Kind = "secrets" => CleansOwn

-----------------------------------------------------------------------------
\* What the theorems ask of the constants, and their inductive invariant: only
\* values are stored, there is one while the secret is live, a name is scheduled
\* for deletion only by a store that does so, and an ARN is that of one creation.
SecretAssumption == None \notin Value

SecretInv ==
  /\ val \in Value \cup {None} /\ (state = "live" => val # None)
  /\ arg \in [Client -> Value \cup {None}] /\ births \in Nat /\ (state # "none" => births # 0)
  /\ state \in {"none", "live"} \/ (state = "scheduled" /\ Kind = "secrets" /\ ~force)
  /\ issued \subseteq [ref : Nat, birth : Nat]
  /\ \A i \in issued : i.ref = Ref(i.birth) /\ i.birth \in 1 .. births
  /\ stray \in BOOLEAN
=============================================================================
