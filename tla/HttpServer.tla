----------------------------- MODULE HttpServer -----------------------------
(***************************************************************************)
(* httpx/server.go: the life of a managed HTTP server.  Start spawns the   *)
(* goroutine that binds and serves; /readyz reads notReady and then runs   *)
(* the readiness checks; Close shuts the server down under a deadline and  *)
(* the host then closes the backends the handlers use.                     *)
(***************************************************************************)
EXTENDS Naturals

CONSTANTS
  Request,    \* requests for the application's handlers
  Probe,      \* requests for /readyz
  Unhurried   \* TRUE: a handler may outlast the deadline of Close

VARIABLES
  server,    \* the goroutine of Start: "none", "binding", "serving", "stopped"
  errCh,     \* "empty", "nil", "error"
  shutdown,  \* httpServer.Shutdown has been called
  closing,   \* Close: "no", "draining", "returned"
  late,      \* its deadline has passed
  backends,  \* "open", "closed"
  request,   \* Request -> "idle", "running", "done"
  notReady, up,
  probe      \* Probe -> "idle", "checking", "200", "503"

vars == <<server, errCh, shutdown, closing, late, backends, request, notReady, up, probe>>

Init ==
  /\ server = "none" /\ errCh = "empty" /\ shutdown = FALSE
  /\ closing = "no" /\ late = FALSE /\ backends = "open"
  /\ request = [r \in Request |-> "idle"]
  /\ notReady = FALSE /\ up = TRUE
  /\ probe = [p \in Probe |-> "idle"]

Start ==
  /\ server = "none" /\ closing = "no"
  /\ server' = "binding"
  /\ UNCHANGED <<errCh, shutdown, closing, late, backends, request, notReady, up, probe>>

\* ListenAndServe binds; fails to bind or to accept; or ends because Shutdown
\* was called, before it bound or after.
serve ==
  /\ \/ server = "binding" /\ ~shutdown /\ server' = "serving" /\ UNCHANGED errCh
     \/ /\ server = "binding" \/ (server = "serving" /\ ~shutdown)
        /\ server' = "stopped" /\ errCh' = "error"
     \/ server \in {"binding", "serving"} /\ shutdown /\ server' = "stopped" /\ errCh' = "nil"
  /\ UNCHANGED <<shutdown, closing, late, backends, request, notReady, up, probe>>

Accepting == server = "serving" /\ ~shutdown
Running == {r \in Request : request[r] = "running"}
Checking == {p \in Probe : probe[p] = "checking"}

Begin(r) ==
  /\ Accepting /\ request[r] = "idle"
  /\ request' = [request EXCEPT ![r] = "running"]
  /\ UNCHANGED <<server, errCh, shutdown, closing, late, backends, notReady, up, probe>>

End(r) ==
  /\ request[r] = "running"
  /\ request' = [request EXCEPT ![r] = "done"]
  /\ UNCHANGED <<server, errCh, shutdown, closing, late, backends, notReady, up, probe>>

-----------------------------------------------------------------------------
(* Readiness                                                               *)

SetReady(ready) ==
  /\ notReady' = ~ready
  /\ UNCHANGED <<server, errCh, shutdown, closing, late, backends, request, up, probe>>

Dependency ==
  /\ up' = ~up
  /\ UNCHANGED <<server, errCh, shutdown, closing, late, backends, request, notReady, probe>>

Answer(p, status) == probe' = [probe EXCEPT ![p] = status]

readyz(p) ==
  /\ Accepting /\ probe[p] # "checking"
  /\ Answer(p, IF notReady THEN "503" ELSE "checking")
  /\ UNCHANGED <<server, errCh, shutdown, closing, late, backends, request, notReady, up>>

runReadinessChecks(p) ==
  /\ probe[p] = "checking"
  /\ Answer(p, IF up THEN "200" ELSE "503")
  /\ UNCHANGED <<server, errCh, shutdown, closing, late, backends, request, notReady, up>>

-----------------------------------------------------------------------------
(* Close, and the host behind it                                           *)

Close ==
  /\ closing = "no"
  /\ shutdown' = TRUE /\ closing' = "draining"
  /\ UNCHANGED <<server, errCh, late, backends, request, notReady, up, probe>>

DeadlinePasses ==
  /\ closing = "draining" /\ ~late
  /\ Unhurried \/ Running = {}
  /\ late' = TRUE
  /\ UNCHANGED <<server, errCh, shutdown, closing, backends, request, notReady, up, probe>>

\* A fault of Stop: it does not wait.
StopAtOnce ==
  /\ closing = "draining"
  /\ closing' = "returned"
  /\ UNCHANGED <<server, errCh, shutdown, late, backends, request, notReady, up, probe>>

\* Shutdown returns when every connection is idle, or with the context's error.
Stop ==
  /\ closing = "draining"
  /\ (Running = {} /\ Checking = {}) \/ late
  /\ closing' = "returned"
  /\ UNCHANGED <<server, errCh, shutdown, late, backends, request, notReady, up, probe>>

CloseBackends ==
  /\ closing = "returned" /\ backends = "open"
  /\ backends' = "closed"
  /\ UNCHANGED <<server, errCh, shutdown, closing, late, request, notReady, up, probe>>

Next ==
  \/ Start \/ serve \/ Close \/ DeadlinePasses \/ Stop \/ CloseBackends \/ Dependency
  \/ \E b \in BOOLEAN : SetReady(b)
  \/ \E r \in Request : Begin(r) \/ End(r)
  \/ \E p \in Probe : readyz(p) \/ runReadinessChecks(p)

Spec == Init /\ [][Next]_vars

\* Goroutines run, timers fire, and the checks end with their own deadline.
\* Nothing makes a handler return.
Fairness ==
  /\ WF_vars(serve) /\ WF_vars(DeadlinePasses) /\ WF_vars(Stop)
  /\ \A p \in Probe : WF_vars(runReadinessChecks(p))

FairSpec == Spec /\ Fairness

-----------------------------------------------------------------------------
TypeOK ==
  /\ server \in {"none", "binding", "serving", "stopped"}
  /\ errCh \in {"empty", "nil", "error"}
  /\ shutdown \in BOOLEAN /\ late \in BOOLEAN /\ notReady \in BOOLEAN /\ up \in BOOLEAN
  /\ closing \in {"no", "draining", "returned"} /\ backends \in {"open", "closed"}
  /\ request \in [Request -> {"idle", "running", "done"}]
  /\ probe \in [Probe -> {"idle", "checking", "200", "503"}]

\* module.go:57-59: the server "drains in-flight requests before the backends those
\* handlers use (database, cache, broker) are torn down".
BackendsOutlive == backends = "closed" => Running = {}

\* module.go:57-59: so it does when handlers keep to the deadline of Close.
BackendsLast == TypeOK /\ (Unhurried \/ BackendsOutlive)

\* server.go:89-94: "When set to false, /readyz returns 503".
ReadyzOff ==
  [][notReady => \A p \in Probe : probe[p] # "200" => probe'[p] # "200"]_vars

\* server.go:271-279: Close returns although a handler hangs, and the outcome of a
\* server that was started is reported.
CloseReturns ==
  /\ [](closing = "draining" => <>(closing = "returned"))
  /\ [](server # "none" /\ shutdown => <>(errCh # "empty"))
=============================================================================
