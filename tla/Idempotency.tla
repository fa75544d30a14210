---------------------------- MODULE Idempotency -----------------------------
(***************************************************************************)
(* httpx/middleware/idempotency.go: requests that carry an idempotency key *)
(* run side by side over one store.  Request r is of operation             *)
(* Operation[r], a record of the caller, the resource (method and URI),    *)
(* the client's key and the body; two requests of equal operations are a   *)
(* request and its retry.  The Timeout middleware may be installed, and a  *)
(* client may leave; both end the context the store is called with.        *)
(***************************************************************************)
EXTENDS Naturals

CONSTANTS
  Request, Operation,
  None,
  MayExpire,   \* TRUE: the route is under the Timeout middleware
  MayLeave,    \* TRUE: clients may disconnect
  StoreMinds   \* TRUE: the store gives up when its context has ended (Redis); FALSE: in memory

VARIABLES
  pc,       \* where the request is
  store,    \* store key -> the request whose response is stored, or None
  result,   \* what the handler has done: "none", "ok", "error" (c.Error), "5xx", "panic"
  status,   \* what c.Writer.Status() said when the handler was through
  ended,    \* the request's context has ended
  expired,  \* Timeout has answered the request with its 503
  answer,   \* what the client got: None, "own", "timeout", "refused", or the replayed request
  before    \* history: the requests that were over when this one came in

vars == <<pc, store, result, status, ended, expired, answer, before>>

\* A fault of idempotencyKey: the scope of the caller is left out.
idempotencyKeyUnscoped(o) == <<o.resource, o.key>>

\* defaultIdempotencyScope and idempotencyKey: injective in its parts.
idempotencyKey(o) == <<o.caller, o.resource, o.key>>

Keys == {idempotencyKey(Operation[r]) : r \in Request}
StoreKey(r) == idempotencyKey(Operation[r])

\* What the theorems ask of the constants.
RetryAssumption ==
  /\ \A r \in Request :
       Operation[r] = [caller |-> Operation[r].caller, resource |-> Operation[r].resource,
                       key |-> Operation[r].key, body |-> Operation[r].body]
  /\ {None, "own", "timeout", "refused"} \cap Request = {}

Init ==
  /\ pc = [r \in Request |-> "idle"]
  /\ store = [k \in Keys |-> None]
  /\ result = [r \in Request |-> "none"]
  /\ status = [r \in Request |-> "none"]
  /\ ended = [r \in Request |-> FALSE]
  /\ expired = [r \in Request |-> FALSE]
  /\ answer = [r \in Request |-> None]
  /\ before = [r \in Request |-> {}]

Goto(r, l) == pc' = [pc EXCEPT ![r] = l]

Arrive(r) ==
  /\ pc[r] = "idle"
  /\ Goto(r, "lookup")
  /\ before' = [before EXCEPT ![r] = {q \in Request : pc[q] = "done"}]
  /\ UNCHANGED <<store, result, status, ended, expired, answer>>

\* A fault of Lookup: another body under the key runs the handler.
LookupAnyBody(r) ==
  /\ pc[r] = "lookup"
  /\ LET q == IF StoreMinds /\ ended[r] THEN None ELSE store[StoreKey(r)]
     IN  IF q = None \/ Operation[q].body # Operation[r].body
           THEN Goto(r, "handler") /\ UNCHANGED answer
           ELSE Goto(r, "done") /\ answer' = [answer EXCEPT ![r] = q]
  /\ UNCHANGED <<store, result, status, ended, expired, before>>

\* A store that fails counts as one that has nothing.
Lookup(r) ==
  /\ pc[r] = "lookup"
  /\ LET q == IF StoreMinds /\ ended[r] THEN None ELSE store[StoreKey(r)]
     IN  IF q = None
           THEN Goto(r, "handler") /\ UNCHANGED answer
           ELSE /\ Goto(r, "done")
                /\ answer' = [answer EXCEPT ![r] =
                     IF expired[r] THEN "timeout"
                     ELSE IF Operation[q].body # Operation[r].body THEN "refused" ELSE q]
  /\ UNCHANGED <<store, result, status, ended, expired, before>>

\* c.Next(): the handler acts, or fails in one of its ways.
Handle(r) ==
  /\ pc[r] = "handler"
  /\ \E o \in {"ok", "error", "5xx", "panic"} :
       /\ result' = [result EXCEPT ![r] = o]
       /\ IF o = "panic"
            THEN /\ Goto(r, "done")
                 /\ answer' = [answer EXCEPT ![r] = IF expired[r] THEN "timeout" ELSE "own"]
            ELSE Goto(r, "status") /\ UNCHANGED answer
  /\ UNCHANGED <<store, status, ended, expired, before>>

\* c.Writer is the timeoutWriter, or wraps it: after the 503 the status is 503.
Status(r) ==
  /\ pc[r] = "status"
  /\ status' = [status EXCEPT ![r] =
       IF expired[r] \/ result[r] = "5xx" THEN "5xx"
       ELSE IF result[r] = "error" THEN "error" ELSE "final"]
  /\ Goto(r, "save")
  /\ UNCHANGED <<store, result, ended, expired, answer, before>>

\* A failing SetBytes is ignored.
Save(r) ==
  /\ pc[r] = "save"
  /\ store' = IF status[r] = "final" /\ ~(StoreMinds /\ ended[r])
                THEN [store EXCEPT ![StoreKey(r)] = r] ELSE store
  /\ answer' = [answer EXCEPT ![r] = IF expired[r] THEN "timeout" ELSE "own"]
  /\ Goto(r, "done")
  /\ UNCHANGED <<result, status, ended, expired, before>>

\* The deadline of Timeout passes while the request is inside.
Expire(r) ==
  /\ MayExpire /\ pc[r] \notin {"idle", "done"} /\ ~expired[r]
  /\ expired' = [expired EXCEPT ![r] = TRUE]
  /\ ended' = [ended EXCEPT ![r] = TRUE]
  /\ UNCHANGED <<pc, store, result, status, answer, before>>

Leave(r) ==
  /\ MayLeave /\ pc[r] \notin {"idle", "done"} /\ ~ended[r]
  /\ ended' = [ended EXCEPT ![r] = TRUE]
  /\ UNCHANGED <<pc, store, result, status, expired, answer, before>>

Finished == (\A r \in Request : pc[r] = "done") /\ UNCHANGED vars

Next ==
  \/ \E r \in Request :
       Arrive(r) \/ Lookup(r) \/ Handle(r) \/ Status(r) \/ Save(r) \/ Expire(r) \/ Leave(r)
  \/ Finished

Spec == Init /\ [][Next]_vars

-----------------------------------------------------------------------------
TypeOK ==
  /\ pc \in [Request -> {"idle", "lookup", "handler", "status", "save", "done"}]
  /\ store \in [Keys -> Request \cup {None}]
  /\ result \in [Request -> {"none", "ok", "error", "5xx", "panic"}]
  /\ status \in [Request -> {"none", "final", "error", "5xx"}]
  /\ ended \in [Request -> BOOLEAN] /\ expired \in [Request -> BOOLEAN]
  /\ answer \in [Request -> Request \cup {None, "own", "timeout", "refused"}]
  /\ before \in [Request -> SUBSET Request]

\* idempotency.go:95-110: a stored response is replayed only to the same request
\* of the same caller, and it is one its handler meant: neither transient nor an
\* error that is rendered elsewhere.
ReplaysOwn ==
  \A r \in Request : answer[r] \in Request =>
    /\ Operation[answer[r]] = Operation[r]
    /\ result[answer[r]] = "ok"
    /\ result[r] = "none"

\* Timeout did not answer the request, and the store did what it was asked.
Undisturbed(r) == ~expired[r] /\ (StoreMinds => ~ended[r])

\* idempotency.go:91-94, 116-119: "a client that retries a non-safe request (after
\* a timeout or network blip) gets the original outcome instead of acting twice";
\* only requests that overlap may both act, and those under a context that ended.
ActsOnce ==
  \A q, r \in Request :
    /\ q \in before[r] /\ Operation[q] = Operation[r]
    /\ Undisturbed(q) /\ Undisturbed(r)
    /\ result[q] = "ok"
    => result[r] = "none"

\* idempotency.go:91-119: a replay is the response to the same operation of the
\* same caller, and a retry after the response does not act again.
RetriesReplay == TypeOK /\ ReplaysOwn /\ ActsOnce
=============================================================================
