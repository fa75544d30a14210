------------------------------- MODULE Layers -------------------------------
(* What a request passes on its way to a handler and back: the middlewares  *)
(* of the HTTP server (httpx/server.go, httpx/middleware) or, with Grpc, the *)
(* interceptors of the gRPC server (grpcx/server.go, grpcx/interceptors).    *)
(* A request goes in through the layers of Chain, outermost first, runs the  *)
(* handler and comes out through them again.  A layer may refuse it, which   *)
(* turns it back, and a panic unwinds it, layer by layer, until one recovers.*)
(* A handler of a gRPC server may make a call of its own to the next server. *)
EXTENDS Naturals, Sequences, FiniteSetsExt

CONSTANTS
  Call,      \* requests
  Grpc,      \* which of the two servers
  Extra,     \* HTTP: the middlewares the application adds, outermost first
  Trait,     \* the sets of traits a request may have
  None

\* An unset log level, and the levels of access lines.
Unset == 0
Info == 1
Warn == 2
Error == 3

\* What an error may be: of an errorx category, or plain.  An error that carries a
\* gRPC status comes from a nested call.
Errors == {[as |-> "errorx", code |-> "not_found"], [as |-> "errorx", code |-> "internal"],
           [as |-> "plain", code |-> "unknown"]}

VARIABLES
  boot,      \* "new", "built", "configured", "ready": how far the server is
  config,    \* the log level in the server's ServerConfig
  section,   \* the log level in its section of the config file
  floor,     \* the level the access log was built with
  call       \* call[r]: where r is and what has become of it

vars == <<boot, config, section, floor, call>>

\* A fault of HttpChain: errors are rendered outside the log.
HttpChainErrorOutside == <<"RequestID", "Tracing", "Error", "Metrics", "Logger", "Recovery">>

\* Outermost first.
HttpChain == <<"RequestID", "Tracing", "Metrics", "Logger", "Error", "Recovery">>
GrpcChain == <<"Recovery", "RequestID", "Logger", "Error">>
Chain == IF Grpc THEN GrpcChain ELSE HttpChain \o Extra

\* The code a client gets for an error.
Code(e) == IF e.as = "plain" THEN "internal" ELSE e.code

\* The level of the access line for an answer.
Level(a) ==
  CASE a \in {"ok", "no_content"} -> Info
    [] a = "internal" \/ Grpc -> Error
    [] OTHER -> Warn

Idle == [st |-> "idle", at |-> 0, given |-> None, traits |-> {}, from |-> None,
         ctx |-> None, echo |-> None, logger |-> None, span |-> "none", ran |-> FALSE,
         answer |-> "ok", written |-> FALSE, wrote |-> FALSE, panicked |-> FALSE,
         errs |-> <<>>, access |-> <<>>, errlog |-> <<>>, counted |-> <<>>]

Init ==
  /\ boot = "new" /\ floor = Unset
  /\ config \in {Unset, Error} /\ section \in {None, Warn, Error}
  /\ call = [r \in Call |-> Idle]

-----------------------------------------------------------------------------
\* The HTTP server builds its layers, the access log among them, when it is made
\* from the ServerConfig it is given; httpx.Module gives one without a level.
NewServer ==
  /\ boot = "new" /\ boot' = "built"
  /\ floor' = IF Grpc THEN floor ELSE config
  /\ UNCHANGED <<config, section, call>>

\* The section of the file, where it has a level, replaces the one of config.
ReadConfig ==
  /\ boot = "built" /\ boot' = "configured"
  /\ config' = IF section = None THEN config ELSE section
  /\ UNCHANGED <<section, floor, call>>

\* The gRPC server builds its layers only now.
InitServer ==
  /\ boot = "configured" /\ boot' = "ready"
  /\ floor' = IF Grpc THEN config ELSE floor
  /\ UNCHANGED <<config, section, call>>

-----------------------------------------------------------------------------
Becomes(r, c) == call' = [call EXCEPT ![r] = c] /\ UNCHANGED <<boot, config, section, floor>>

\* r enters, or leaves, layer l.
Enters(r, l) == call[r].st = "in" /\ Chain[call[r].at] = l
Leaves(r, l) == call[r].st = "out" /\ Chain[call[r].at] = l

\* On to the next layer or the handler; back to the layer outside.
Inward(c) == [c EXCEPT !.at = @ + 1, !.st = IF c.at = Len(Chain) THEN "handler" ELSE "in"]
Outward(c) == [c EXCEPT !.at = @ - 1, !.st = IF c.at = 1 THEN "end" ELSE "out"]

\* Only the first status written goes out.
Write(c, a) == IF c.written THEN c ELSE [c EXCEPT !.answer = a, !.written = TRUE]

Started(id, t, from) ==
  [Idle EXCEPT !.st = "in", !.at = 1, !.given = id, !.traits = t, !.from = from,
               !.answer = IF "unrouted" \in t THEN "not_found" ELSE "ok"]

\* A request from outside, with an id of its own or without.
Arrive(r) ==
  /\ boot = "ready" /\ call[r].st = "idle"
  /\ \E id \in {None, <<"client", r>>}, t \in Trait : Becomes(r, Started(id, t, None))

\* The id the caller sent, or a new one.
withRequestID(r) == IF call[r].given = None THEN <<"new", r>> ELSE call[r].given

RequestID(r) ==
  /\ Enters(r, "RequestID")
  /\ Becomes(r, Inward([call[r] EXCEPT !.ctx = withRequestID(r), !.echo = withRequestID(r)]))

Tracing(r) ==
  Enters(r, "Tracing") /\ Becomes(r, Inward([call[r] EXCEPT !.span = "open"]))

\* The logger of the request carries the id the context has by now.
Logger(r) ==
  Enters(r, "Logger") /\ Becomes(r, Inward([call[r] EXCEPT !.logger = call[r].ctx]))

\* Layers that do nothing on the way in.
Pass(r) == \E l \in {"Metrics", "Error", "Recovery"} : Enters(r, l) /\ Becomes(r, Inward(call[r]))

BodyLimit(r) ==
  /\ Enters(r, "BodyLimit")
  /\ Becomes(r, IF "long" \in call[r].traits THEN Outward(Write(call[r], "too_large"))
                ELSE Inward(call[r]))

\* A preflight is answered here; any other request of a foreign origin goes on.
CORS(r) ==
  /\ Enters(r, "CORS")
  /\ LET t == call[r].traits
     IN  Becomes(r, IF "preflight" \in t
                    THEN Outward(Write(call[r], IF "foreign" \in t THEN "forbidden" ELSE "no_content"))
                    ELSE Inward(call[r]))

Unauthorized == [as |-> "errorx", code |-> "unauthorized"]
JWT(r) ==
  /\ Enters(r, "JWT")
  /\ Becomes(r, IF "anonymous" \in call[r].traits
                THEN Outward([call[r] EXCEPT !.errs = Append(@, Unauthorized)])
                ELSE Inward(call[r]))

-----------------------------------------------------------------------------
InHandler(r) == call[r].st = "handler" /\ "unrouted" \notin call[r].traits

\* A route that matches nothing has the layers and no handler.
Unrouted(r) ==
  /\ call[r].st = "handler" /\ "unrouted" \in call[r].traits
  /\ Becomes(r, Outward(call[r]))

HandlerWrites(r) ==
  /\ InHandler(r) /\ ~Grpc /\ ~call[r].written
  /\ Becomes(r, [Write(call[r], "ok") EXCEPT !.ran = TRUE, !.wrote = TRUE])

\* Several errors may be attached to one HTTP request; a gRPC handler returns one.
HandlerFails(r) ==
  /\ InHandler(r) /\ Len(call[r].errs) < IF Grpc THEN 1 ELSE 2
  /\ \E e \in Errors :
       LET c == [call[r] EXCEPT !.ran = TRUE, !.errs = Append(@, e)]
       IN  Becomes(r, IF Grpc THEN Outward(c) ELSE c)

HandlerReturns(r) ==
  InHandler(r) /\ Becomes(r, Outward([call[r] EXCEPT !.ran = TRUE]))

HandlerPanics(r) ==
  /\ InHandler(r)
  /\ Becomes(r, [call[r] EXCEPT !.ran = TRUE, !.panicked = TRUE, !.st = "panic", !.at = @ - 1])

\* A fault of Calls: the client has no interceptor.
CallsAnonymously(r, q) ==
  /\ Grpc /\ InHandler(r) /\ call[r].from = None /\ call[q].st = "idle"
  /\ call' = [call EXCEPT ![r].st = "waiting", ![q] = Started(None, {}, r)]
  /\ UNCHANGED <<boot, config, section, floor>>

\* The handler of r calls the next server, the client interceptor passing the id on.
Calls(r, q) ==
  /\ Grpc /\ InHandler(r) /\ call[r].from = None /\ call[q].st = "idle"
  /\ call' = [call EXCEPT ![r].st = "waiting", ![q] = Started(call[r].ctx, {}, r)]
  /\ UNCHANGED <<boot, config, section, floor>>

\* The nested call is over; its error, a status, is returned as it is.
Resumes(r, q) ==
  /\ call[r].st = "waiting" /\ call[q].from = r /\ call[q].st = "end"
  /\ LET c == [call[r] EXCEPT !.st = "handler", !.ran = TRUE]
     IN  Becomes(r, Outward(IF call[q].answer = "ok" THEN c
                            ELSE [c EXCEPT !.errs = <<[as |-> "status", code |-> call[q].answer]>>]))

-----------------------------------------------------------------------------
\* The last error is rendered unless something was written; HTTP logs all of them.
ErrorOut(r) ==
  /\ Leaves(r, "Error")
  /\ LET c == call[r]
         logged == [c EXCEPT !.errlog = IF Grpc THEN @ ELSE [i \in DOMAIN c.errs |-> c.logger]]
     IN  Becomes(r, Outward(IF c.errs = <<>> THEN c ELSE Write(logged, Code(c.errs[Len(c.errs)]))))

LoggerOut(r) ==
  /\ Leaves(r, "Logger")
  /\ LET c == call[r]
     IN  Becomes(r, Outward(IF Level(c.answer) < floor THEN c
           ELSE [c EXCEPT !.access = Append(@, [id |-> c.logger, answer |-> c.answer])]))

MetricsOut(r) ==
  Leaves(r, "Metrics") /\ Becomes(r, Outward([call[r] EXCEPT !.counted = Append(@, call[r].answer)]))

TracingOut(r) ==
  /\ Leaves(r, "Tracing")
  /\ Becomes(r, Outward([call[r] EXCEPT !.span = IF call[r].answer = "internal" THEN "error" ELSE "ended"]))

PassOut(r) ==
  \E l \in {"RequestID", "Recovery", "BodyLimit", "CORS", "JWT"} :
    Leaves(r, l) /\ Becomes(r, Outward(call[r]))

\* A panic passes every layer by but the one that recovers.
Unwind(r) ==
  /\ call[r].st = "panic" /\ Chain[call[r].at] # "Recovery"
  /\ Becomes(r, [call[r] EXCEPT !.at = @ - 1, !.st = IF call[r].at = 1 THEN "crashed" ELSE "panic"])

Recovery(r) ==
  /\ call[r].st = "panic" /\ Chain[call[r].at] = "Recovery"
  /\ Becomes(r, Outward(Write(call[r], "internal")))

Layer(r) ==
  \/ RequestID(r) \/ Tracing(r) \/ Logger(r) \/ Pass(r) \/ BodyLimit(r) \/ CORS(r) \/ JWT(r)
  \/ ErrorOut(r) \/ LoggerOut(r) \/ MetricsOut(r) \/ TracingOut(r) \/ PassOut(r)
  \/ Unwind(r) \/ Recovery(r)

Handler(r) ==
  \/ Unrouted(r) \/ HandlerWrites(r) \/ HandlerFails(r) \/ HandlerReturns(r) \/ HandlerPanics(r)
  \/ \E q \in Call : Calls(r, q) \/ Resumes(r, q)

Done == \A r \in Call : call[r].st = "end"

Next ==
  \/ NewServer \/ ReadConfig \/ InitServer
  \/ \E r \in Call : Arrive(r) \/ Layer(r) \/ Handler(r)
  \/ Done /\ UNCHANGED vars

Spec == Init /\ [][Next]_vars

-----------------------------------------------------------------------------
Ended(r) == call[r].st = "end"

TypeOK ==
  /\ boot \in {"new", "built", "configured", "ready"}
  /\ config \in Unset..Error /\ section \in {None, Warn, Error} /\ floor \in Unset..Error
  /\ \A r \in Call :
       /\ call[r].st \in {"idle", "in", "handler", "waiting", "out", "panic", "end"}
       /\ call[r].at \in 0..(Len(Chain) + 1)

(* middleware/logger.go:12-15, metrics.go:48-51, tracing.go:47-51 and        *)
(* interceptors/logging.go:15-18: a request that is over has left one access *)
(* line, with the id that was echoed to the client and the status the client *)
(* got, unless the level of the log forbids it; on the HTTP server it is     *)
(* counted once under that status, and its span is an error exactly when     *)
(* that is a 500.  On the gRPC server this leaves out calls that panic.      *)
OneLine ==
  \A r \in Call : Ended(r) /\ ~(Grpc /\ call[r].panicked) =>
    LET c == call[r]
    IN  /\ c.access = IF Level(c.answer) < floor THEN <<>>
                      ELSE <<[id |-> c.echo, answer |-> c.answer]>>
        /\ ~Grpc => /\ c.counted = <<c.answer>>
                    /\ c.span = IF c.answer = "internal" THEN "error" ELSE "ended"

(* middleware/error.go:81-89, logger.go:14-15: whatever the level of the     *)
(* access log, and even when the handler panics after it failed, every error *)
(* of an HTTP request is logged once, with the id that was echoed.           *)
ErrorsLogged ==
  \A r \in Call : Ended(r) /\ ~Grpc =>
    call[r].errlog = [i \in DOMAIN call[r].errs |-> call[r].echo]

(* What a client is told: the refusal of the layer that turned its request   *)
(* back, with the handler never run; what the handler wrote, if it wrote;    *)
(* an internal error after a panic; the last error; and success otherwise.   *)
AnswersRight ==
  \A r \in Call : Ended(r) =>
    LET c == call[r]
        has(t) == t \in c.traits
        refusals == {i \in DOMAIN Chain :
                       \/ Chain[i] = "BodyLimit" /\ has("long")
                       \/ Chain[i] = "CORS" /\ has("preflight")
                       \/ Chain[i] = "JWT" /\ has("anonymous")}
        refusal == Chain[Min(refusals)]
    IN  IF refusals # {}
        THEN /\ ~c.ran
             /\ c.answer = CASE refusal = "BodyLimit" -> "too_large"
                             [] refusal = "JWT" -> "unauthorized"
                             [] OTHER -> IF has("foreign") THEN "forbidden" ELSE "no_content"
        ELSE c.answer = CASE has("unrouted") -> "not_found"
                          [] c.panicked /\ ~c.wrote -> "internal"
                          [] c.errs # <<>> /\ ~c.wrote /\ ~c.panicked -> Code(c.errs[Len(c.errs)])
                          [] OTHER -> "ok"

(* interceptors/request_id.go:18-22, client.go:11-14, error.go:50-54: a call *)
(* made by a handler has the id of the request it is made for, from the      *)
(* edge on, and its failure comes out at the edge with the same code.        *)
Correlated ==
  \A q \in Call : call[q].from # None /\ call[q].ctx # None =>
    LET r == call[q].from
    IN  /\ call[q].ctx = call[r].ctx
        /\ call[r].given # None => call[q].echo = call[r].given
        /\ Ended(r) /\ ~call[r].panicked => call[r].answer = call[q].answer

(* httpx/server.go:49-55: the [http] section's logLevel set to "warn" keeps  *)
(* the access lines of requests that succeed out of the log.                 *)
FloorHonoured ==
  \A r \in Call : Ended(r) /\ section # None /\ Level(call[r].answer) < section =>
    call[r].access = <<>>
=============================================================================
