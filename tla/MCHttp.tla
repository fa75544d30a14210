-------------------------------- MODULE MCHttp ------------------------------
(* httpx and grpcx: the outgoing client, the managed servers, the Timeout    *)
(* middleware and the layers a request passes.  They share no state: `scene` *)
(* is the one that moves, the others stay as they began.  Application code   *)
(* inside an attempt of the client panics in "panicky" only; handlers        *)
(* outlast the deadline of Close in "slow" only.                             *)
EXTENDS HttpProofs

CONSTANT None

VARIABLES
  scene,
  \* the HTTP server of "slow"
  wServer, wErrCh, wShutdown, wClosing, wLate, wBackends, wRequest, wNotReady, wUp, wProbe,
  \* Layers
  boot, config, section, floor, passing

Panicky == INSTANCE HttpClient WITH MayPanic <- TRUE
SlowServer == INSTANCE HttpServer WITH
  Unhurried <- TRUE, server <- wServer, errCh <- wErrCh, shutdown <- wShutdown, closing <- wClosing,
  late <- wLate, backends <- wBackends, request <- wRequest, notReady <- wNotReady, up <- wUp, probe <- wProbe

\* One HTTP request with any traits; two gRPC calls, of which one may be made by
\* the handler of the other.
Http == INSTANCE Layers WITH
  Call <- {"r1"}, Grpc <- FALSE, Extra <- <<"BodyLimit", "CORS", "JWT">>, call <- passing,
  Trait <- SUBSET {"long", "anonymous", "preflight", "foreign", "unrouted"}
Rpc == INSTANCE Layers WITH
  Call <- {"r1", "r2"}, Grpc <- TRUE, Extra <- <<>>, call <- passing, Trait <- {{}}

serverVars == <<server, errCh, shutdown, closing, late, backends, request, notReady, sUp, probe>>
slowVars ==
  <<wServer, wErrCh, wShutdown, wClosing, wLate, wBackends, wRequest, wNotReady, wUp, wProbe>>
grpcVars ==
  <<gServer, gNotReady, health, gUp, prober, verdict, updater, healthStop, gClosing, gLate, rpc>>
timeoutVars ==
  <<tLate, ctx, tState, code, buf, header, real, watcher, main, panicked, expired, chan>>
layerVars == <<boot, config, section, floor, passing>>

mcVars == <<scene, vars, serverVars, slowVars, grpcVars, timeoutVars, layerVars>>

MCInit ==
  /\ scene \in {"client", "panicky", "server", "slow", "grpc", "timeout", "http", "rpc"}
  /\ Init /\ Server!Init /\ SlowServer!Init /\ RpcServer!Init /\ Deadline!Init
  /\ IF scene = "rpc" THEN Rpc!Init ELSE Http!Init
  /\ scene \notin {"http", "rpc"} => config = Rpc!Unset /\ section = None

MCNext ==
  /\ UNCHANGED scene
  /\ \/ /\ \/ scene = "client" /\ Next
           \/ scene = "panicky" /\ Panicky!Next
        /\ UNCHANGED <<serverVars, slowVars, grpcVars, timeoutVars, layerVars>>
     \/ /\ \/ scene = "server" /\ Server!Next /\ UNCHANGED slowVars
           \/ scene = "slow" /\ SlowServer!Next /\ UNCHANGED serverVars
        /\ UNCHANGED <<vars, grpcVars, timeoutVars, layerVars>>
     \/ /\ scene = "grpc" /\ RpcServer!Next
        /\ UNCHANGED <<vars, serverVars, slowVars, timeoutVars, layerVars>>
     \/ /\ scene = "timeout" /\ Deadline!Next
        /\ UNCHANGED <<vars, serverVars, slowVars, grpcVars, layerVars>>
     \/ /\ \/ scene = "http" /\ Http!Next
           \/ scene = "rpc" /\ Rpc!Next
        /\ UNCHANGED <<vars, serverVars, slowVars, grpcVars, timeoutVars>>

\* A server that is not started owes nothing; handlers of "server" end in time.
\* What is owed to a call of the client, and to a request with a deadline, is
\* stated with what it gives, in Responsive.
MCSpec == MCInit /\ [][MCNext]_mcVars /\ SlowServer!Fairness /\ RpcServer!Fairness

\* A server made by httpx.Module, which passes no level to NewServer.
ModuleSpec ==
  /\ MCInit /\ scene = "http" /\ config = Http!Unset
  /\ [][scene = "http" /\ MCNext]_mcVars

-----------------------------------------------------------------------------
(* client.go:171-216, breaker.go:26-28, server.go:268-279, grpcx/server.go:  *)
(* 203-271, timeout.go:14-16: every call the client admits returns, and once *)
(* the upstream is well for good, and callers stay for the answer, the       *)
(* breaker closes and stays closed; Close of the HTTP server returns         *)
(* although a handler hangs, and of the gRPC server unless a handler ignores *)
(* its context for ever; the health status settles on what the checks say;   *)
(* the 503 goes out at the deadline though the handler hangs.                *)
Responsive ==
  /\ scene = "client" /\ Fairness => Answers /\ Recovers
  /\ scene = "slow" => SlowServer!CloseReturns
  /\ scene = "grpc" => RpcServer!HealthFollows /\ RpcServer!CloseReturns
  /\ scene = "timeout" /\ Deadline!Fairness => Deadline!Prompt

(* middleware/logger.go:12-15, error.go:50-54, 81-89, interceptors/logging.go: *)
(* 15-18, client.go:11-14: a client is told the refusal, the answer, the     *)
(* panic or the last error that decided its request, and through a nested    *)
(* call the id and the failure travel unchanged; a request that is over has  *)
(* left one access line with the status and the id its client got, whatever  *)
(* was written, failed or panicked on the way, and every error of an HTTP    *)
(* request is in the log with that id.                                       *)
RequestsTraced ==
  IF scene = "rpc" THEN Rpc!TypeOK /\ Rpc!OneLine /\ Rpc!AnswersRight /\ Rpc!Correlated
                   ELSE Http!TypeOK /\ Http!OneLine /\ Http!ErrorsLogged /\ Http!AnswersRight

(* httpx/server.go:49-55: the logLevel of the [http] section sets the floor  *)
(* of the access log.                                                        *)
FloorHonoured == Http!FloorHonoured
=============================================================================
