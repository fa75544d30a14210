----------------------------- MODULE JetStream ------------------------------
(***************************************************************************)
(* messaging/jetstream and messaging/subscriber.go: replicas of a service  *)
(* consume one subject through a shared durable consumer.  The server (a   *)
(* stream and the consumer's delivery state) is external and modelled from *)
(* how the driver uses it: explicit acks, redelivery after AckWait or a    *)
(* Nak, no delivery after MaxDeliver.  Each replica runs its handler on    *)
(* one message at a time and may be closed, or die, at any point of it.    *)
(***************************************************************************)
EXTENDS Integers, Sequences, FiniteSets

CONSTANTS
  Msg, Replica,
  MaxDeliver,     \* 0: unlimited
  MaxAckPending,
  DeadLetterSet,  \* TRUE: a DeadLetterSubject is configured
  MayStop,        \* TRUE: a replica may be shut down, and started again
  MayCrash,       \* TRUE: a replica may die at any moment
  Slow,           \* TRUE: AckWait may run out while the handler works
  MayLose,        \* TRUE: what a replica sends to the server may get lost
  None

VARIABLES
  pub,        \* pub[m]: what Publish returned: "none" (not called), "ok", "err"
  srv,        \* srv[m]: the server's view of m
  delivered,  \* delivered[m]: NumDelivered
  sub,        \* sub[r]: "down", "up", "closed" (unsubscribed), "gone" (disconnected)
  buf,        \* buf[r]: deliveries waiting for the callback
  cur,        \* cur[r]: the delivery in the callback
  pc,         \* pc[r]: where handleMessage is
  handled,    \* messages a handler has returned nil for
  hopeless,   \* messages a handler has failed on their last delivery
  dlq         \* messages copied to the dead-letter subject

server == <<srv, delivered>>
replica == <<sub, buf, cur, pc>>
vars == <<pub, server, replica, handled, hopeless, dlq>>

Delivery == [m : Msg, n : Nat]
Settled == {"acked", "termed", "exhausted"}

\* What the theorems ask of the constants.
JetAssumption == MaxDeliver \in Nat /\ None \notin Delivery

Init ==
  /\ pub = [m \in Msg |-> "none"]
  /\ srv = [m \in Msg |-> "absent"]
  /\ delivered = [m \in Msg |-> 0]
  /\ sub = [r \in Replica |-> "down"]
  /\ buf = [r \in Replica |-> <<>>]
  /\ cur = [r \in Replica |-> None]
  /\ pc = [r \in Replica |-> "idle"]
  /\ handled = {} /\ hopeless = {} /\ dlq = {}

-----------------------------------------------------------------------------
(* The server                                                              *)

Last(m) == MaxDeliver > 0 /\ delivered[m] >= MaxDeliver

Pending == {m \in Msg : srv[m] = "pending"}

Deliver(r, m) ==
  /\ sub[r] = "up" /\ srv[m] = "ready"
  /\ Cardinality(Pending) < MaxAckPending
  /\ srv' = [srv EXCEPT ![m] = "pending"]
  /\ delivered' = [delivered EXCEPT ![m] = @ + 1]
  /\ buf' = [buf EXCEPT ![r] = Append(@, [m |-> m, n |-> delivered[m] + 1])]
  /\ UNCHANGED <<pub, sub, cur, pc, handled, hopeless, dlq>>

\* What the server does with a message it is to deliver again.
Again(m) == srv' = [srv EXCEPT ![m] = IF Last(m) THEN "exhausted" ELSE "ready"]

\* A replica that still holds a delivery of m.
Held(m) ==
  \E r \in Replica :
    \/ cur[r] # None /\ cur[r].m = m
    \/ \E i \in 1..Len(buf[r]) : buf[r][i].m = m

AckWaitExpires(m) ==
  /\ srv[m] = "pending"
  /\ Slow \/ ~Held(m)
  /\ Again(m)
  /\ UNCHANGED <<pub, delivered, replica, handled, hopeless, dlq>>

Settle(m, verdict) ==
  srv' = [srv EXCEPT ![m] = IF @ \in {"pending", "ready"} THEN verdict ELSE @]

\* A reply of replica r reaches the server, or does not.
Sent(r, effect) ==
  \/ effect
  \/ (MayLose \/ sub[r] = "gone") /\ UNCHANGED srv

-----------------------------------------------------------------------------
(* The driver                                                              *)

\* Publish waits for the PubAck, which may get lost after the message is stored.
Publish(m) ==
  /\ pub[m] = "none"
  /\ \/ pub' = [pub EXCEPT ![m] = "ok"] /\ srv' = [srv EXCEPT ![m] = "ready"]
     \/ /\ pub' = [pub EXCEPT ![m] = "err"]
        /\ srv' \in {srv, [srv EXCEPT ![m] = "ready"]}
  /\ UNCHANGED <<delivered, replica, handled, hopeless, dlq>>

\* consumerService.Start: create or update the durable consumer and consume.
Start(r) ==
  /\ sub[r] = "down"
  /\ sub' = [sub EXCEPT ![r] = "up"]
  /\ UNCHANGED <<pub, server, buf, cur, pc, handled, hopeless, dlq>>

\* The callback: handleMessage enters the handler.
handleMessage(r) ==
  /\ pc[r] = "idle" /\ buf[r] # <<>>
  /\ cur' = [cur EXCEPT ![r] = Head(buf[r])]
  /\ buf' = [buf EXCEPT ![r] = Tail(@)]
  /\ pc' = [pc EXCEPT ![r] = "handling"]
  /\ UNCHANGED <<pub, server, sub, handled, hopeless, dlq>>

HandlerOk(r) ==
  /\ pc[r] = "handling"
  /\ pc' = [pc EXCEPT ![r] = "ack"]
  /\ handled' = handled \cup {cur[r].m}
  /\ UNCHANGED <<pub, server, sub, buf, cur, hopeless, dlq>>

\* deliveryCount(m) >= max
Exhausts(d) == MaxDeliver > 0 /\ d.n >= MaxDeliver

nakOrTerminate(r) ==
  /\ pc[r] = "handling"
  /\ pc' = [pc EXCEPT ![r] = IF Exhausts(cur[r]) THEN "deadLetter" ELSE "nak"]
  /\ hopeless' = IF MaxDeliver > 0 /\ cur[r].n = MaxDeliver THEN hopeless \cup {cur[r].m} ELSE hopeless
  /\ UNCHANGED <<pub, server, sub, buf, cur, handled, dlq>>

\* handleMessage returns: the callback is free.
Finished(r) ==
  /\ cur' = [cur EXCEPT ![r] = None]
  /\ pc' = [pc EXCEPT ![r] = "idle"]

Ack(r) ==
  /\ pc[r] = "ack"
  /\ Sent(r, Settle(cur[r].m, "acked"))
  /\ Finished(r)
  /\ UNCHANGED <<pub, delivered, sub, buf, handled, hopeless, dlq>>

Nak(r) ==
  /\ pc[r] = "nak"
  /\ Sent(r, IF srv[cur[r].m] = "pending" THEN Again(cur[r].m) ELSE UNCHANGED srv)
  /\ Finished(r)
  /\ UNCHANGED <<pub, delivered, sub, buf, handled, hopeless, dlq>>

\* deadLetter: a plain publish whose failure is only logged.
deadLetter(r) ==
  /\ pc[r] = "deadLetter"
  /\ pc' = [pc EXCEPT ![r] = "term"]
  /\ \/ DeadLetterSet /\ dlq' = dlq \cup {cur[r].m}
     \/ (~DeadLetterSet \/ MayLose \/ sub[r] = "gone") /\ UNCHANGED dlq
  /\ UNCHANGED <<pub, server, sub, buf, cur, handled, hopeless>>

Term(r) ==
  /\ pc[r] = "term"
  /\ Sent(r, Settle(cur[r].m, "termed"))
  /\ Finished(r)
  /\ UNCHANGED <<pub, delivered, sub, buf, handled, hopeless, dlq>>

-----------------------------------------------------------------------------
(* The end of a replica                                                    *)

\* A fault of Close: the message in a handler is given back before it is done.
CloseGivesBack(r) ==
  /\ MayStop /\ sub[r] = "up"
  /\ sub' = [sub EXCEPT ![r] = "closed"]
  /\ buf' = [buf EXCEPT ![r] = <<>>]
  /\ srv' = [m \in DOMAIN srv |->
       IF cur[r] # None /\ cur[r].m = m /\ srv[m] = "pending" THEN "ready" ELSE srv[m]]
  /\ UNCHANGED <<pub, delivered, cur, pc, handled, hopeless, dlq>>

\* consumerService.Close: cancel the handlers' context and Unsubscribe, which
\* drops what waits for the callback and leaves a running handler to itself.
Close(r) ==
  /\ MayStop /\ sub[r] = "up"
  /\ sub' = [sub EXCEPT ![r] = "closed"]
  /\ buf' = [buf EXCEPT ![r] = <<>>]
  /\ UNCHANGED <<pub, server, cur, pc, handled, hopeless, dlq>>

\* Client.Close: drain the connection.
Disconnect(r) ==
  /\ sub[r] = "closed"
  /\ sub' = [sub EXCEPT ![r] = "gone"]
  /\ UNCHANGED <<pub, server, buf, cur, pc, handled, hopeless, dlq>>

\* The process exits after Disconnect, or dies before.
Exit(r) ==
  /\ sub[r] = "gone" \/ (MayCrash /\ sub[r] # "down")
  /\ sub' = [sub EXCEPT ![r] = "down"]
  /\ buf' = [buf EXCEPT ![r] = <<>>]
  /\ cur' = [cur EXCEPT ![r] = None]
  /\ pc' = [pc EXCEPT ![r] = "idle"]
  /\ UNCHANGED <<pub, server, handled, hopeless, dlq>>

ReplicaStep(r) ==
  \/ Start(r) \/ handleMessage(r) \/ HandlerOk(r) \/ nakOrTerminate(r)
  \/ Ack(r) \/ Nak(r) \/ deadLetter(r) \/ Term(r)
  \/ Close(r) \/ Disconnect(r) \/ Exit(r)
  \/ \E m \in Msg : Deliver(r, m)

Next ==
  \/ \E m \in Msg : Publish(m) \/ AckWaitExpires(m)
  \/ \E r \in Replica : ReplicaStep(r)

Spec == Init /\ [][Next]_vars

\* The server delivers and redelivers, replicas come up again, handlers return.
Fairness ==
  /\ \A m \in Msg : WF_vars(AckWaitExpires(m)) /\ SF_vars(\E r \in Replica : Deliver(r, m))
  /\ \A r \in Replica :
       /\ WF_vars(Start(r)) /\ WF_vars(Disconnect(r)) /\ WF_vars(sub[r] = "gone" /\ Exit(r))
       /\ WF_vars(handleMessage(r)) /\ WF_vars(HandlerOk(r) \/ nakOrTerminate(r))
       /\ WF_vars(Ack(r) \/ Nak(r) \/ deadLetter(r) \/ Term(r))

FairSpec == Spec /\ Fairness

-----------------------------------------------------------------------------
TypeOK ==
  /\ pub \in [Msg -> {"none", "ok", "err"}]
  /\ srv \in [Msg -> {"absent", "ready", "pending"} \cup Settled]
  /\ delivered \in [Msg -> Nat]
  /\ sub \in [Replica -> {"down", "up", "closed", "gone"}]
  /\ buf \in [Replica -> Seq(Delivery)]
  /\ cur \in [Replica -> Delivery \cup {None}]
  /\ pc \in [Replica -> {"idle", "handling", "ack", "nak", "deadLetter", "term"}]
  /\ handled \subseteq Msg /\ hopeless \subseteq Msg /\ dlq \subseteq Msg

\* consumer.go:64-87: a message leaves the consumer as done only when some
\* handler has returned nil for it, and is given up (terminated or copied to
\* the dead-letter subject) only when its MaxDeliver-th delivery has failed.
SettledForCause ==
  \A m \in Msg :
    /\ srv[m] = "acked" => m \in handled
    /\ (srv[m] = "termed" \/ m \in dlq) => m \in hopeless
    /\ pub[m] = "ok" => srv[m] # "absent"

\* consumer.go:26-28: replicas share the work.  While handlers keep within
\* AckWait no message is in the hands of two of them.
OneAtATime ==
  ~Slow => \A r, s \in Replica :
    cur[r] # None /\ cur[s] # None /\ cur[r].m = cur[s].m => r = s

\* config.go:27-28: the dead-letter subject "receives a copy of any message
\* that exhausts MaxDeliver".
ExhaustedIsCopied ==
  DeadLetterSet => \A m \in Msg : srv[m] \in {"termed", "exhausted"} => m \in dlq

Faultless == ~MayStop /\ ~MayCrash /\ ~MayLose /\ ~Slow

\* consumer.go:26-28, 64-106, config.go:27-28: a message is settled only for cause;
\* while handlers keep within AckWait it is in the hands of one replica; without
\* faults one that exhausts MaxDeliver is copied to the dead-letter subject.
DeliveriesAccounted ==
  TypeOK /\ SettledForCause /\ OneAtATime /\ (Faultless => ExhaustedIsCopied)

\* subscriber.go:60-62: the subscriber "unsubscribes and drains in-flight
\* handlers before the broker and the backends those handlers use are torn down".
DrainedOnClose == \A r \in Replica : sub[r] \in {"closed", "gone"} => pc[r] = "idle"

\* jetstream.go:1-6: a stored message is never stuck: deliveries go on until it
\* is acknowledged or its deliveries are used up, through crashes and closes.
NeverStuck == \A m \in Msg : srv[m] = "ready" ~> srv[m] \in Settled
=============================================================================
