------------------------------ MODULE Lineage -------------------------------
(***************************************************************************)
(* What a message says of the request that caused it: messaging/           *)
(* propagation.go and headers.go, as the NATS and JetStream clients, the   *)
(* outbox and its relay call them.  A service that installs no tracer has  *)
(* OpenTelemetry's no-op tracer and propagator.  A message stays on the    *)
(* broker and may be delivered again; a header map is written by its owner *)
(* only.                                                                   *)
(***************************************************************************)
EXTENDS Naturals, FiniteSets

CONSTANTS
  Cause,      \* what causes work; each but Background has a correlation id
  Background, \* a job of the service's own: no correlation id, no span
  Service,
  Traced,     \* the services with a tracer (otelx)
  MaxTraces, MaxWork, MaxWire,  \* bounds: traces begun, contexts, messages
  None

VARIABLES
  work,   \* the contexts of requests and handlers
  wire,   \* the messages published
  rows,   \* the outbox rows not marked as published
  traces  \* the number of traces begun; a trace is a number

vars == <<work, wire, rows, traces>>

\* What the theorems ask of the constants.
StoryAssumption == None \notin Cause /\ None \notin Nat

\* Messages, contexts and rows have a head, what they say, and a story, what is true
\* of them: the request and the trace they go back to, whether a service without a
\* tracer is in between, or the relay.
NoHeaders == [corr |-> None, trace |-> None]

Init == work = {} /\ wire = {} /\ rows = {} /\ traces = 0

\* otel.Tracer(..).Start in svc: the trace of ctx goes on, or a new one begins.
Start(svc, trace) ==
  IF svc \notin Traced THEN None ELSE IF trace # None THEN trace ELSE traces + 1

Begun(trace) ==
  /\ traces' = IF trace = traces + 1 THEN traces + 1 ELSE traces
  /\ traces' <= MaxTraces

\* The correlation id in the headers stays; the trace is overwritten.
InjectContext(svc, corr, trace, headers) ==
  [corr |-> IF headers.corr # None THEN headers.corr ELSE corr,
   trace |-> IF svc \in Traced /\ trace # None THEN trace ELSE headers.trace]

ExtractContext(svc, headers) ==
  [corr |-> headers.corr, trace |-> IF svc \in Traced THEN headers.trace ELSE None]

\* The middlewares (RequestID, Tracing) give a request its context.
Begin(r, svc) ==
  /\ Cardinality(work) < MaxWork
  /\ LET trace == IF r = Background THEN None ELSE Start(svc, None)
     IN /\ Begun(trace)
        /\ work' = work \union
             {[svc |-> svc, msg |-> None,
               head |-> [corr |-> IF r = Background THEN None ELSE r, trace |-> trace],
               story |-> [root |-> r, first |-> trace, plain |-> svc \notin Traced, relayed |-> FALSE]]}
  /\ UNCHANGED <<wire, rows>>

\* The headers a handler may send on: none of its own, or those it was sent.
Own(c) == {NoHeaders} \union IF c.msg = None THEN {} ELSE {c.msg.head}

Send(m) == Cardinality(wire \union {m}) <= MaxWire /\ wire' = wire \union {m}

\* Publish and Request of either client.
Publish(c, headers) ==
  LET trace == Start(c.svc, c.head.trace)
  IN /\ Begun(trace)
     /\ Send([dead |-> FALSE, head |-> InjectContext(c.svc, c.head.corr, trace, headers), story |-> c.story])
     /\ UNCHANGED <<work, rows>>

\* A fault of Enqueue: the headers are stored as they were given.
EnqueueBare(c, headers) ==
  /\ rows' = rows \union {[svc |-> c.svc, head |-> headers, story |-> c.story]}
  /\ UNCHANGED <<work, wire, traces>>

\* The row takes the caller's context; no span is started.
Enqueue(c, headers) ==
  /\ rows' = rows \union {[svc |-> c.svc, story |-> c.story,
                           head |-> InjectContext(c.svc, c.head.corr, c.head.trace, headers)]}
  /\ UNCHANGED <<work, wire, traces>>

\* publishOne, with the context of the worker; `marked` says whether the row was.
Relay(row, marked) ==
  LET trace == Start(row.svc, None)
  IN /\ Begun(trace)
     /\ Send([dead |-> FALSE, head |-> InjectContext(row.svc, None, trace, row.head),
              story |-> [row.story EXCEPT !.relayed = TRUE]])
     /\ rows' = IF marked THEN rows \ {row} ELSE rows
     /\ UNCHANGED work

\* A client of svc hands m to its handler.
Deliver(m, svc) ==
  LET ctx == ExtractContext(svc, m.head)
      trace == Start(svc, ctx.trace)
      c == [svc |-> svc, msg |-> m, head |-> [corr |-> ctx.corr, trace |-> trace],
            story |-> [m.story EXCEPT !.plain = @ \/ svc \notin Traced]]
  IN /\ Begun(trace)
     /\ Cardinality(work \union {c}) <= MaxWork
     /\ work' = work \union {c}
     /\ UNCHANGED <<wire, rows>>

\* The deliveries of m are used up: a copy goes to the dead-letter subject.
deadLetter(m) ==
  /\ \E c \in work : c.msg = m
  /\ ~m.dead
  /\ Send([dead |-> TRUE, head |-> m.head, story |-> m.story])
  /\ UNCHANGED <<work, rows, traces>>

Next ==
  \/ \E r \in Cause, svc \in Service : Begin(r, svc)
  \/ \E c \in work : \E headers \in Own(c) : Publish(c, headers) \/ Enqueue(c, headers)
  \/ \E row \in rows, marked \in BOOLEAN : Relay(row, marked)
  \/ \E m \in wire : deadLetter(m) \/ \E svc \in Service : Deliver(m, svc)

Spec == Init /\ [][Next]_vars

-----------------------------------------------------------------------------
(* Ids are requests, traces are numbers that have been given out. *)
TypeOK ==
  \A x \in work \union wire \union rows :
    x.head.corr \in Cause \union {None} /\ x.head.trace \in (1..traces) \union {None}

(* headers.go:5-8 "so a request id flows uniformly http -> messaging ->      *)
(* http": every context and message carries the id of the request it goes    *)
(* back to, over any number of publishes, deliveries, dead letters and the   *)
(* outbox, with or without tracers on the way.                               *)
CorrelationKept ==
  \A x \in work \union wire \union rows :
    x.head.corr = IF x.story.root = Background THEN None ELSE x.story.root

(* nats.go:138-140, 230-235: what was published and handled by services with *)
(* a tracer, and not by the relay, is in the trace of its request.           *)
TraceKept ==
  \A x \in work \union wire :
    ~x.story.plain /\ ~x.story.relayed /\ x.story.root # Background => x.head.trace = x.story.first

(* headers.go:5-8, nats.go:138-140, 230-235: a message carries the id of its *)
(* request wherever it goes, and its trace over services that trace.         *)
LineageKept == TypeOK /\ CorrelationKept /\ TraceKept

(* outbox.go:78-80 "The caller's trace context and correlation id are        *)
(* captured into the stored headers, so the event keeps its lineage when the *)
(* relay publishes it later".                                                *)
EventKeepsLineage ==
  \A m \in wire :
    m.story.relayed /\ ~m.story.plain /\ m.story.root # Background => m.head.trace = m.story.first
=============================================================================
