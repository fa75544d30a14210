----------------------------- MODULE GrpcServer -----------------------------
(***************************************************************************)
(* grpcx/server.go: the life of a managed gRPC server.  updateHealth runs  *)
(* the readiness checks without a lock and publishes under healthMu; it is *)
(* called once by Start and then by the updater goroutine.  SetReady runs  *)
(* on other goroutines.  Close drains the calls in flight; when its        *)
(* deadline passes it closes their connections, and waits for the handlers *)
(* all the same.                                                           *)
(***************************************************************************)
EXTENDS Naturals

CONSTANTS
  Call,      \* RPCs
  Heedless   \* those whose handler ignores that its context is cancelled

VARIABLES
  server,     \* "new", "inited", "starting", "serving", "failed"
  notReady,
  health,     \* the status the health service reports
  up,         \* whether the readiness checks would pass
  prober,     \* updateHealth: "none", "check", "probing", "publish"
  verdict,    \* its local status
  updater,    \* the goroutine: "none", "running", "gone"
  healthStop, \* the channel is closed
  closing,    \* Close: "no", "graceful", "forced", "returned"
  late,       \* the deadline of Close has passed
  call        \* Call -> "idle", "running", "done"; "cut": its connection is closed while
              \* its handler runs, and "dropped" once that handler has ended

vars == <<server, notReady, health, up, prober, verdict, updater, healthStop, closing, late, call>>

Init ==
  /\ server = "new" /\ notReady = FALSE /\ health = "none" /\ up = TRUE
  /\ prober = "none" /\ verdict = "none" /\ updater = "none"
  /\ healthStop = FALSE /\ closing = "no" /\ late = FALSE
  /\ call = [c \in Call |-> "idle"]

\* health.NewServer() starts out SERVING.
InitServer ==
  /\ server = "new"
  /\ server' = "inited" /\ health' = "SERVING"
  /\ UNCHANGED <<notReady, up, prober, verdict, updater, healthStop, closing, late, call>>

\* Start binds the listener, which may fail, and calls updateHealth.
Start ==
  /\ server = "inited" /\ closing = "no"
  /\ \/ server' = "failed" /\ UNCHANGED prober
     \/ server' = "starting" /\ prober' = "check"
  /\ UNCHANGED <<notReady, health, up, verdict, updater, healthStop, closing, late, call>>

-----------------------------------------------------------------------------
(* updateHealth                                                            *)

Check ==
  /\ prober = "check"
  /\ IF notReady THEN prober' = "publish" /\ verdict' = "NOT_SERVING"
                 ELSE prober' = "probing" /\ UNCHANGED verdict
  /\ UNCHANGED <<server, notReady, health, up, updater, healthStop, closing, late, call>>

runReadinessChecks ==
  /\ prober = "probing"
  /\ verdict' = IF up THEN "SERVING" ELSE "NOT_SERVING"
  /\ prober' = "publish"
  /\ UNCHANGED <<server, notReady, health, up, updater, healthStop, closing, late, call>>

\* A fault of Publish: readiness is not looked at again.
PublishBlindly ==
  /\ prober = "publish"
  /\ health' = verdict
  /\ prober' = "none" /\ verdict' = "none"
  /\ IF server = "starting" THEN server' = "serving" /\ updater' = "running"
                            ELSE UNCHANGED <<server, updater>>
  /\ UNCHANGED <<notReady, up, healthStop, closing, late, call>>

\* Under healthMu; the call from Start then starts the goroutines.
Publish ==
  /\ prober = "publish"
  /\ health' = IF notReady THEN "NOT_SERVING" ELSE verdict
  /\ prober' = "none" /\ verdict' = "none"
  /\ IF server = "starting" THEN server' = "serving" /\ updater' = "running"
                            ELSE UNCHANGED <<server, updater>>
  /\ UNCHANGED <<notReady, up, healthStop, closing, late, call>>

\* runHealthUpdater: a tick, or the end.  select picks either when both are due.
Tick ==
  /\ updater = "running" /\ prober = "none"
  /\ prober' = "check"
  /\ UNCHANGED <<server, notReady, health, up, verdict, updater, healthStop, closing, late, call>>

UpdaterStops ==
  /\ updater = "running" /\ prober = "none" /\ healthStop
  /\ updater' = "gone"
  /\ UNCHANGED <<server, notReady, health, up, prober, verdict, healthStop, closing, late, call>>

-----------------------------------------------------------------------------
SetReady(ready) ==
  /\ notReady' = ~ready
  /\ health' = IF ~ready /\ server # "new" THEN "NOT_SERVING" ELSE health
  /\ UNCHANGED <<server, up, prober, verdict, updater, healthStop, closing, late, call>>

Dependency ==
  /\ up' = ~up
  /\ UNCHANGED <<server, notReady, health, prober, verdict, updater, healthStop, closing, late, call>>

\* The handlers at work, which GracefulStop waits for (handlersWG).
Running == {c \in Call : call[c] \in {"running", "cut"}}

CallBegins(c) ==
  /\ server = "serving" /\ closing = "no" /\ call[c] = "idle"
  /\ call' = [call EXCEPT ![c] = "running"]
  /\ UNCHANGED <<server, notReady, health, up, prober, verdict, updater, healthStop, closing, late>>

CallEnds(c) ==
  /\ c \in Running
  /\ call' = [call EXCEPT ![c] = IF @ = "running" THEN "done" ELSE "dropped"]
  /\ UNCHANGED <<server, notReady, health, up, prober, verdict, updater, healthStop, closing, late>>

\* The host closes after a Start that returned, and once.
Close ==
  /\ server \in {"inited", "serving", "failed"} /\ closing = "no"
  /\ healthStop' = TRUE /\ closing' = "graceful"
  /\ UNCHANGED <<server, notReady, health, up, prober, verdict, updater, late, call>>

DeadlinePasses ==
  /\ closing = "graceful" /\ ~late
  /\ late' = TRUE
  /\ UNCHANGED <<server, notReady, health, up, prober, verdict, updater, healthStop, closing, call>>

\* grpcServer.Stop() closes the connections, which cancels the contexts of the calls;
\* it ends no handler.
Force ==
  /\ closing = "graceful" /\ late
  /\ closing' = "forced"
  /\ call' = [c \in Call |-> IF call[c] = "running" THEN "cut" ELSE call[c]]
  /\ UNCHANGED <<server, notReady, health, up, prober, verdict, updater, healthStop, late>>

\* A fault of Return: once it has forced the stop, Close does not wait for done.
ReturnForced ==
  /\ closing = "forced" \/ (closing = "graceful" /\ Running = {})
  /\ closing' = "returned"
  /\ UNCHANGED <<server, notReady, health, up, prober, verdict, updater, healthStop, late, call>>

\* <-done: GracefulStop has come back, forced or not, which takes every handler to end.
Return ==
  /\ closing \in {"graceful", "forced"} /\ Running = {}
  /\ closing' = "returned"
  /\ UNCHANGED <<server, notReady, health, up, prober, verdict, updater, healthStop, late, call>>

Next ==
  \/ InitServer \/ Start \/ Check \/ runReadinessChecks \/ Publish \/ Tick \/ UpdaterStops
  \/ \E b \in BOOLEAN : SetReady(b)
  \/ Dependency \/ Close \/ DeadlinePasses \/ Force \/ Return
  \/ \E c \in Call : CallBegins(c) \/ CallEnds(c)

Spec == Init /\ [][Next]_vars

\* Goroutines run and timers fire.  The readiness checks return: they run under
\* a context of five seconds.  Nothing makes a call end but its cancelled context,
\* which a handler that is not Heedless obeys.
Fairness ==
  /\ WF_vars(Check) /\ WF_vars(runReadinessChecks) /\ WF_vars(Publish) /\ WF_vars(Tick)
  /\ SF_vars(UpdaterStops)
  /\ WF_vars(DeadlinePasses) /\ WF_vars(Force) /\ WF_vars(Return)
  /\ \A c \in Call \ Heedless : WF_vars(call[c] = "cut" /\ CallEnds(c))

FairSpec == Spec /\ Fairness

-----------------------------------------------------------------------------
TypeOK ==
  /\ server \in {"new", "inited", "starting", "serving", "failed"}
  /\ notReady \in BOOLEAN /\ up \in BOOLEAN /\ healthStop \in BOOLEAN /\ late \in BOOLEAN
  /\ health \in {"none", "SERVING", "NOT_SERVING"}
  /\ prober \in {"none", "check", "probing", "publish"}
  /\ verdict \in {"none", "SERVING", "NOT_SERVING"}
  /\ updater \in {"none", "running", "gone"}
  /\ closing \in {"no", "graceful", "forced", "returned"}
  /\ call \in [Call -> {"idle", "running", "done", "cut", "dropped"}]

\* server.go:92-95, 218-219: once readiness is off no client of a serving server
\* is told SERVING, whatever a probe that was under way found.
OffIsOff == server = "serving" /\ notReady => health = "NOT_SERVING"

\* server.go:243-244: a call is cut only when the time to drain is over, and
\* Close comes back with no handler at work, so that what handlers use may be closed next.
DrainsFirst ==
  /\ (\E c \in Call : call[c] \in {"cut", "dropped"}) => late
  /\ closing = "returned" => Running = {}

\* server.go:92-95, 243-244: both, through every probe, drain and deadline.
RpcsDrained == TypeOK /\ OffIsOff /\ DrainsFirst

\* server.go:203-216: while the server serves, the status settles on what the
\* readiness checks say.
HealthFollows ==
  /\ <>[](server = "serving" /\ ~healthStop /\ up /\ ~notReady) => <>[](health = "SERVING")
  /\ <>[](server = "serving" /\ ~healthStop /\ ~up) => <>[](health = "NOT_SERVING")

\* server.go:243-244: "bounded by a timeout after which it stops forcefully".
CloseBounded == [](closing = "graceful" => <>(closing = "returned"))

\* server.go:243-271: Close returns, even when a call hangs, unless a handler that
\* ignores its context runs on for ever; and the updater ends in any case.
CloseReturns ==
  /\ CloseBounded \/ <>[](\E c \in Heedless : call[c] = "cut")
  /\ [](healthStop /\ updater = "running" => <>(updater = "gone"))
=============================================================================
