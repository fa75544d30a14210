---------------------------- MODULE TenantCache -----------------------------
(***************************************************************************)
(* core/tenant/cache.go and httpx/middleware/tenant.go: requests resolve   *)
(* their tenant through a cache that remembers presence and absence, each  *)
(* for its own time, and never a failure of the store.  Load, Delete,      *)
(* the store's lookup and the final Store are separate steps: nothing      *)
(* holds a lock across them.                                               *)
(***************************************************************************)
EXTENDS Integers, FiniteSets

CONSTANTS
  Request, Id,
  TTL, AbsentTTL,  \* ticks; AbsentTTL is what absentTTL() returns
  MaxVersion,      \* bound: changes of a tenant
  None, Outage

\* The two spellings of an absent tenant, and what a present one can be.
Absent == {"nil", "notFound"}
Kind == Absent \cup {"active", "inactive"}
Answer == [kind : Kind, ver : 0..MaxVersion]

\* What the theorems ask of the constants.
TenantAssumption ==
  /\ TTL \in Nat /\ AbsentTTL \in Nat /\ MaxVersion \in Nat /\ Id # {}
  /\ None \notin Answer /\ None \notin [ans : Answer, left : Nat]
  /\ Outage \notin Answer /\ Outage # None

VARIABLES
  truth,   \* truth[id]: what the store would answer
  entry,   \* entry[id]: what the cache remembers and the ticks it has left, or None
  pc, id,  \* where each request is, and its tenant
  got,     \* the answer it has
  own,     \* it asked the store itself
  since,   \* the version below which it should not go, as of its beginning
  floor,   \* floor[id]: the version at the last Invalidate
  calm     \* the same, for an Invalidate that met no answer on its way to the cache

vars == <<truth, entry, pc, id, got, own, since, floor, calm>>

Init ==
  /\ truth = [i \in Id |-> [kind |-> "notFound", ver |-> 0]]
  /\ entry = [i \in Id |-> None]
  /\ pc = [r \in Request |-> "idle"]
  /\ id = [r \in Request |-> CHOOSE i \in Id : TRUE]
  /\ got = [r \in Request |-> None]
  /\ own = [r \in Request |-> FALSE]
  /\ since = [r \in Request |-> [floor |-> 0, calm |-> 0]]
  /\ floor = [i \in Id |-> 0] /\ calm = [i \in Id |-> 0]

Goto(r, stage) == pc' = [pc EXCEPT ![r] = stage]

-----------------------------------------------------------------------------
\* A request whose tenant id parses.
Arrive(r, i) ==
  /\ pc[r] \in {"idle", "served", "refused"}
  /\ Goto(r, "lookup")
  /\ id' = [id EXCEPT ![r] = i]
  /\ got' = [got EXCEPT ![r] = None]
  /\ own' = [own EXCEPT ![r] = FALSE]
  /\ since' = [since EXCEPT ![r] = [floor |-> floor[i], calm |-> calm[i]]]
  /\ UNCHANGED <<truth, entry, floor, calm>>

\* FindTenant: cache.Load.
Lookup(r) ==
  LET e == entry[id[r]] IN
  /\ pc[r] = "lookup"
  /\ IF e # None /\ e.left > 0
       THEN got' = [got EXCEPT ![r] = e.ans] /\ Goto(r, "decide")
       ELSE UNCHANGED got /\ Goto(r, IF e = None THEN "ask" ELSE "drop")
  /\ UNCHANGED <<truth, entry, id, own, since, floor, calm>>

\* cache.Delete of the entry that had expired, whatever is there now.
Drop(r) ==
  /\ pc[r] = "drop"
  /\ entry' = [entry EXCEPT ![id[r]] = None]
  /\ Goto(r, "ask")
  /\ UNCHANGED <<truth, id, got, own, since, floor, calm>>

\* store.FindTenant, which may fail.
Ask(r) ==
  /\ pc[r] = "ask"
  /\ own' = [own EXCEPT ![r] = TRUE]
  /\ \/ got' = [got EXCEPT ![r] = Outage] /\ Goto(r, "decide")
     \/ got' = [got EXCEPT ![r] = truth[id[r]]] /\ Goto(r, "remember")
  /\ UNCHANGED <<truth, entry, id, since, floor, calm>>

ttlOf(a) == IF a \in Answer /\ a.kind \in Absent THEN AbsentTTL ELSE TTL

remember(r) ==
  /\ pc[r] = "remember"
  /\ entry' = IF ttlOf(got[r]) <= 0 THEN entry
              ELSE [entry EXCEPT ![id[r]] = [ans |-> got[r], left |-> ttlOf(got[r])]]
  /\ Goto(r, "decide")
  /\ UNCHANGED <<truth, id, got, own, since, floor, calm>>

\* middleware.Tenant: an error, an absent or an inactive tenant ends the request.
Tenant(r) ==
  /\ pc[r] = "decide"
  /\ Goto(r, IF got[r] \in Answer /\ got[r].kind = "active" THEN "served" ELSE "refused")
  /\ UNCHANGED <<truth, entry, id, got, own, since, floor, calm>>

-----------------------------------------------------------------------------
\* The tenant is created, changed or removed.
Change(i, k) ==
  /\ truth[i].ver < MaxVersion
  /\ truth' = [truth EXCEPT ![i] = [kind |-> k, ver |-> @.ver + 1]]
  /\ UNCHANGED <<entry, pc, id, got, own, since, floor, calm>>

\* Requests that hold an answer they have yet to put into the cache.
Asking(i) == {r \in Request : id[r] = i /\ pc[r] = "remember"}

\* A fault of Invalidate: an entry that is about to expire is left to do so.
InvalidateLate(S) ==
  /\ entry' = [i \in Id |-> IF i \in S /\ entry[i] # None /\ entry[i].left > 1 THEN None ELSE entry[i]]
  /\ floor' = [i \in Id |-> IF i \in S THEN truth[i].ver ELSE floor[i]]
  /\ calm' = [i \in Id |-> IF i \in S /\ Asking(i) = {} THEN truth[i].ver ELSE calm[i]]
  /\ UNCHANGED <<truth, pc, id, got, own, since>>

\* Invalidate of every id of S: one id, or all of them for Clear.
Invalidate(S) ==
  /\ entry' = [i \in Id |-> IF i \in S THEN None ELSE entry[i]]
  /\ floor' = [i \in Id |-> IF i \in S THEN truth[i].ver ELSE floor[i]]
  /\ calm' = [i \in Id |-> IF i \in S /\ Asking(i) = {} THEN truth[i].ver ELSE calm[i]]
  /\ UNCHANGED <<truth, pc, id, got, own, since>>

Clear == Invalidate(Id)

Tick ==
  /\ \E i \in Id : entry[i] # None /\ entry[i].left > 0
  /\ entry' = [i \in Id |-> IF entry[i] = None \/ entry[i].left = 0 THEN entry[i]
                            ELSE [entry[i] EXCEPT !.left = @ - 1]]
  /\ UNCHANGED <<truth, pc, id, got, own, since, floor, calm>>

RequestStep(r) == Lookup(r) \/ Drop(r) \/ Ask(r) \/ remember(r) \/ Tenant(r)

Next ==
  \/ \E r \in Request : RequestStep(r) \/ \E i \in Id : Arrive(r, i)
  \/ \E i \in Id : Invalidate({i}) \/ \E k \in Kind : Change(i, k)
  \/ Clear \/ Tick

Spec == Init /\ [][Next]_vars

-----------------------------------------------------------------------------
TypeOK ==
  /\ truth \in [Id -> Answer]
  /\ \A i \in Id : entry[i] # None => entry[i].ans \in Answer /\ entry[i].left \in 0..(TTL + AbsentTTL)
  /\ pc \in [Request -> {"idle", "lookup", "drop", "ask", "remember", "decide", "served", "refused"}]
  /\ id \in [Request -> Id]
  /\ got \in [Request -> Answer \cup {Outage, None}]
  /\ own \in [Request -> BOOLEAN]
  /\ since \in [Request -> [floor : 0..MaxVersion, calm : 0..MaxVersion]]
  /\ floor \in [Id -> 0..MaxVersion] /\ calm \in [Id -> 0..MaxVersion]

\* cache.go:119-123: a failing store is never remembered: a request refused for
\* an outage has met it itself.
OutagesNotRemembered == \A r \in Request : got[r] = Outage => own[r]

\* cache.go:43-44: WithNegativeTTL(0) switches negative caching off: an absence
\* is always news from the store.
NegativeOff ==
  AbsentTTL = 0 => \A r \in Request : got[r] \in Answer /\ got[r].kind \in Absent => own[r]

\* tenant.go:34-47: what is served is a tenant the store has called active, not
\* below the version of an Invalidate that met no answer on its way to the cache.
ServedWasActive ==
  \A r \in Request : pc[r] = "served" =>
    /\ got[r].kind = "active"
    /\ got[r].ver >= since[r].calm

\* cache.go:43-44, 119-123, tenant.go:34-47: a request is served or refused on
\* what the store has said, and says still where that was promised.
TenantsTrue == TypeOK /\ OutagesNotRemembered /\ NegativeOff /\ ServedWasActive

\* cache.go:154-155: Invalidate forces "the next FindTenant to consult the
\* wrapped store": nothing older than the invalidated version is seen again.
FreshAfterInvalidate ==
  \A r \in Request : got[r] \in Answer => got[r].ver >= since[r].floor
=============================================================================
