------------------------------ MODULE CoreNats ------------------------------
(***************************************************************************)
(* messaging/nats/nats.go, and the request-reply half of jetstream.go,     *)
(* which is the same code over the same connection: one subject, its       *)
(* subscriptions in one client, plain or of a queue group, and requests    *)
(* answered through reply inboxes.  A subscription runs its handler on one *)
(* message at a time, in order.  Core NATS forgets a message nobody is     *)
(* subscribed to.                                                          *)
(***************************************************************************)
EXTENDS Naturals, Sequences

CONSTANTS
  Sub, Group,  \* subscriptions; Group[s] is a queue group, or None for a plain one
  Msg,         \* published messages
  Req,         \* requests; a request is a message with a reply inbox of its own
  None

VARIABLES
  conn,     \* the connection: "open", "draining", "closed"; "expired": closed by
            \* the library's time limit on draining
  closed,   \* Disconnect has returned
  sub,      \* Sub -> "off", "on", "gone"
  queue,    \* Sub -> messages pending
  busy,     \* Sub -> the message its handler is at, or None
  handled,  \* Sub -> messages handled, in order
  sent,     \* Msg and Req -> has been sent
  inbox,    \* Req -> replies that have reached its inbox, in order
  result    \* Req -> "none", "waiting", a responder, "ErrTimeout", "deadline"

vars == <<conn, closed, sub, queue, busy, handled, sent, inbox, result>>

Message == Msg \cup Req

\* What the theorems ask of the constants.
NatsAssumption ==
  None \notin Message /\ Sub \cap {"none", "waiting", "ErrTimeout", "deadline"} = {}

Init ==
  /\ conn = "open" /\ closed = FALSE
  /\ sub = [s \in Sub |-> "off"]
  /\ queue = [s \in Sub |-> <<>>]
  /\ busy = [s \in Sub |-> None]
  /\ handled = [s \in Sub |-> <<>>]
  /\ sent = [m \in Message |-> FALSE]
  /\ inbox = [q \in Req |-> <<>>]
  /\ result = [q \in Req |-> "none"]

\* Subscribe, QueueSubscribe, Respond, QueueRespond
Subscribe(s) ==
  /\ conn = "open" /\ sub[s] = "off"
  /\ sub' = [sub EXCEPT ![s] = "on"]
  /\ UNCHANGED <<conn, closed, queue, busy, handled, sent, inbox, result>>

\* What is pending is dropped; a handler under way is not waited for.
Unsubscribe(s) ==
  /\ conn = "open" /\ sub[s] = "on"
  /\ sub' = [sub EXCEPT ![s] = "gone"]
  /\ queue' = [queue EXCEPT ![s] = <<>>]
  /\ UNCHANGED <<conn, closed, busy, handled, sent, inbox, result>>

Interested == {s \in Sub : sub[s] = "on"}

\* Every plain subscription and one member of every group.
Receivers(R) ==
  /\ R \subseteq Interested
  /\ \A s \in Interested : Group[s] = None => s \in R
  /\ \A g \in {Group[s] : s \in Interested} \ {None} :
       \E s \in R : Group[s] = g /\ \A t \in R : Group[t] = g => t = s

Send(m) ==
  /\ \E R \in SUBSET Sub :
       /\ Receivers(R)
       /\ queue' = [s \in Sub |-> IF s \in R THEN Append(queue[s], m) ELSE queue[s]]
  /\ sent' = [sent EXCEPT ![m] = TRUE]

\* The server, or a broken connection, may lose the message: at most once.
Publish(m) ==
  /\ conn = "open" /\ ~sent[m]
  /\ \/ Send(m)
     \/ sent' = [sent EXCEPT ![m] = TRUE] /\ UNCHANGED queue
  /\ UNCHANGED <<conn, closed, sub, busy, handled, inbox, result>>

\* Request: no responders is told at once.
Request(q) ==
  /\ conn = "open" /\ ~sent[q]
  /\ IF Interested = {}
       THEN /\ result' = [result EXCEPT ![q] = "ErrTimeout"]
            /\ sent' = [sent EXCEPT ![q] = TRUE] /\ UNCHANGED queue
       ELSE /\ Send(q)
            /\ result' = [result EXCEPT ![q] = "waiting"]
  /\ UNCHANGED <<conn, closed, sub, busy, handled, inbox>>

Dispatch(s) ==
  /\ busy[s] = None /\ queue[s] # <<>>
  /\ busy' = [busy EXCEPT ![s] = Head(queue[s])]
  /\ queue' = [queue EXCEPT ![s] = Tail(queue[s])]
  /\ UNCHANGED <<conn, closed, sub, handled, sent, inbox, result>>

\* A fault of Inbox: the requests of a client share an inbox.
InboxShared(m) == {q \in Req : result[q] = "waiting"}

\* m.Reply: the inbox of this request.
Inbox(m) == {m} \cap Req

\* messageCallback and requestCallback: a handler that fails, or returns no
\* response, leaves the request unanswered.
Handle(s) ==
  /\ busy[s] # None
  /\ \/ inbox' = [q \in Req |-> IF q \in Inbox(busy[s]) /\ conn \in {"open", "draining"}
                                  THEN Append(inbox[q], s) ELSE inbox[q]]
     \/ UNCHANGED inbox
  /\ handled' = [handled EXCEPT ![s] = Append(@, busy[s])]
  /\ busy' = [busy EXCEPT ![s] = None]
  /\ UNCHANGED <<conn, closed, sub, queue, sent, result>>

\* The first reply answers; the rest go to an inbox nobody reads any more.
Answered(q) ==
  /\ result[q] = "waiting" /\ inbox[q] # <<>>
  /\ result' = [result EXCEPT ![q] = Head(inbox[q])]
  /\ UNCHANGED <<conn, closed, sub, queue, busy, handled, sent, inbox>>

\* A fault of Deadline: the caller's context is not passed on.
DeadlineIgnored(q) == FALSE /\ result[q] = "waiting" /\ UNCHANGED vars

\* RequestMsgWithContext returns the context's own error.
Deadline(q) ==
  /\ result[q] = "waiting"
  /\ result' = [result EXCEPT ![q] = "deadline"]
  /\ UNCHANGED <<conn, closed, sub, queue, busy, handled, sent, inbox>>

NoSubscriptions == [s \in Sub |-> IF sub[s] = "on" THEN "gone" ELSE sub[s]]

\* Disconnect: Drain starts the draining and returns; when it fails, as it does
\* while the library reconnects, Close drops what is pending.
Disconnect ==
  /\ conn = "open"
  /\ \/ conn' = "draining" /\ UNCHANGED <<sub, queue>>
     \/ conn' = "closed" /\ sub' = NoSubscriptions /\ queue' = [s \in Sub |-> <<>>]
  /\ closed' = TRUE
  /\ UNCHANGED <<busy, handled, sent, inbox, result>>

Drained ==
  /\ conn = "draining"
  /\ \A s \in Sub : queue[s] = <<>> /\ busy[s] = None
  /\ conn' = "closed"
  /\ sub' = NoSubscriptions
  /\ UNCHANGED <<closed, queue, busy, handled, sent, inbox, result>>

\* The library gives up on handlers that take too long and drops what is pending.
DrainTimesOut ==
  /\ conn = "draining"
  /\ conn' = "expired" /\ sub' = NoSubscriptions /\ queue' = [s \in Sub |-> <<>>]
  /\ UNCHANGED <<closed, busy, handled, sent, inbox, result>>

Over == conn \in {"closed", "expired"} /\ UNCHANGED vars

Next ==
  \/ \E s \in Sub : Subscribe(s) \/ Unsubscribe(s) \/ Dispatch(s) \/ Handle(s)
  \/ \E m \in Msg : Publish(m)
  \/ \E q \in Req : Request(q) \/ Answered(q) \/ Deadline(q)
  \/ Disconnect \/ Drained \/ DrainTimesOut \/ Over

Spec == Init /\ [][Next]_vars

\* The library delivers and drains, handlers return, and every request is made
\* under a context that has a deadline.
Fairness ==
  /\ \A s \in Sub : WF_vars(Dispatch(s)) /\ WF_vars(Handle(s))
  /\ \A q \in Req : WF_vars(Answered(q)) /\ WF_vars(Deadline(q))
  /\ WF_vars(Drained)

FairSpec == Spec /\ Fairness

-----------------------------------------------------------------------------
TypeOK ==
  /\ conn \in {"open", "draining", "closed", "expired"} /\ closed \in BOOLEAN
  /\ sub \in [Sub -> {"off", "on", "gone"}]
  /\ queue \in [Sub -> Seq(Message)] /\ handled \in [Sub -> Seq(Message)]
  /\ busy \in [Sub -> Message \cup {None}]
  /\ sent \in [Message -> BOOLEAN]
  /\ inbox \in [Req -> Seq(Sub)]
  /\ result \in [Req -> Sub \cup {"none", "waiting", "ErrTimeout", "deadline"}]

Has(s, m) == m = busy[s] \/ \E i \in 1..Len(handled[s]) : handled[s][i] = m

\* nats.go:171-172, 222-223: at most once, and within a queue group by one member only,
\* while members come and go.
AtMostOnce ==
  /\ \A s \in Sub : \A i, j \in 1..Len(handled[s]) : handled[s][i] = handled[s][j] => i = j
  /\ \A s, t \in Sub, m \in Message :
       s # t /\ Has(s, m) /\ Has(t, m) => Group[s] = None \/ Group[s] # Group[t]

\* nats.go:181-183, 255-258: a request is answered by a responder that has handled this
\* request; a late or a second reply answers nothing else.
AnsweredByHandler ==
  \A q \in Req : result[q] \in Sub => q \in {handled[result[q]][i] : i \in 1..Len(handled[result[q]])}

\* nats.go:171-183, 222-223, 255-258: both.
ExchangesMatch == TypeOK /\ AtMostOnce /\ AnsweredByHandler

\* nats.go:109-111: unless the library's time for draining is up first, a connection
\* that drains gets every message that waits for a subscription to its handler: none is
\* dropped, and eventually none waits and no handler runs.
DrainHandles ==
  /\ [][\A s \in Sub, m \in Message :
          conn = "draining" /\ (\E i \in 1..Len(queue[s]) : queue[s][i] = m)
            => \/ (\E i \in 1..Len(queue'[s]) : queue'[s][i] = m) \/ busy'[s] = m
               \/ conn' = "expired"]_vars
  /\ [](conn = "draining" => <>(conn = "expired" \/ \A s \in Sub : queue[s] = <<>> /\ busy[s] = None))

\* errors.go:5-8: "ErrTimeout is returned by Requester.Request when a reply is not
\* received in time."
LateIsErrTimeout == \A q \in Req : result[q] # "deadline"

\* nats.go:106, 109-111: Close, "draining and closing the NATS connection", has let
\* the handlers finish when it returns.
DrainedOnDisconnect == closed => \A s \in Sub : queue[s] = <<>> /\ busy[s] = None

\* nats.go:181-183: every request returns.
RequestReturns == \A q \in Req : [](result[q] = "waiting" => <>(result[q] # "waiting"))
=============================================================================
