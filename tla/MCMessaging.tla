----------------------------- MODULE MCMessaging ----------------------------
(* The JetStream driver, core NATS, the durables of subscriptions and what   *)
(* messages carry of their request.  They share no state: `scene` is the one *)
(* that moves.  JetStream runs in three: "share", two messages and every     *)
(* fault but slow handlers; and with variables of their own "faulty", one    *)
(* message and every fault, and "calm", two messages and no fault.           *)
EXTENDS MessagingProofs, TLC

VARIABLES
  scene,
  \* JetStream in "faulty" and "calm"
  oPub, oSrv, oDelivered, oSub, oBuf, oCur, oPc, oHandled, oHopeless, oDlq

Faulty == INSTANCE JetStream WITH
  Msg <- {"m1"}, Slow <- TRUE,
  pub <- oPub, srv <- oSrv, delivered <- oDelivered, sub <- oSub, buf <- oBuf, cur <- oCur, pc <- oPc,
  handled <- oHandled, hopeless <- oHopeless, dlq <- oDlq
Calm == INSTANCE JetStream WITH
  MayStop <- FALSE, MayCrash <- FALSE, MayLose <- FALSE,
  pub <- oPub, srv <- oSrv, delivered <- oDelivered, sub <- oSub, buf <- oBuf, cur <- oCur, pc <- oPc,
  handled <- oHandled, hopeless <- oHopeless, dlq <- oDlq

\* One plain subscription and a queue group of two.
MCGroup == [s \in Sub |-> IF s = "s1" THEN None ELSE "g"]

\* Two services, three subjects in two streams and one in none; at "mail" a queue
\* name serves two subjects of one stream.
Created == <<"orders", ".", "created">>
Paid == <<"orders", ".", "paid">>
Login == <<"users", ".", "login">>
Orphan == <<"audit">>
MCSubject == {Created, Paid, Login, Orphan}
MCStreamOf == Orphan :> "none" @@ Created :> "ORDERS" @@ Paid :> "ORDERS" @@ Login :> "USERS"
MCPrefix == [s \in Service |-> IF s = "mail" THEN <<"mail">> ELSE <<"bill", ".", "eu">>]
MCGroups ==
  [s \in Service |->
     {<<Created, <<>>>>, <<Paid, <<>>>>, <<Paid, <<"paid">>>>, <<Orphan, <<>>>>, <<Login, <<"paid">>>>}
       \union IF s = "mail" THEN {<<Created, <<"paid">>>>} ELSE {}]

ASSUME ScenesAssumption ==
  /\ Jet!JetAssumption /\ Faulty!JetAssumption /\ Calm!JetAssumption
  /\ Nats!NatsAssumption /\ Names!PrefixesApart /\ StoryAssumption

streamVars == <<pub, srv, delivered, sub, buf, cur, pc, handled, hopeless, dlq>>
otherVars == <<oPub, oSrv, oDelivered, oSub, oBuf, oCur, oPc, oHandled, oHopeless, oDlq>>
natsVars == <<conn, closed, nSub, queue, busy, nHandled, sent, inbox, result>>
namesVars == <<filter, bound>>
mcVars == <<scene, streamVars, otherVars, natsVars, namesVars, vars>>

MCInit ==
  /\ scene \in {"share", "faulty", "calm", "nats", "names", "story"}
  /\ Jet!Init /\ (IF scene = "faulty" THEN Faulty!Init ELSE Calm!Init)
  /\ Nats!Init /\ Names!Init /\ Init

\* Without faults the replicas come to rest once every message is settled; a story
\* ends at its bound of traces.
Rest ==
  \/ scene = "calm" /\ \A m \in Msg : oSrv[m] \in Calm!Settled \/ oPub[m] = "err"
  \/ scene = "story" /\ traces = MaxTraces

MCNext ==
  \/ scene = "share" /\ Jet!Next /\ UNCHANGED <<scene, otherVars, natsVars, namesVars, vars>>
  \/ /\ \/ scene = "faulty" /\ Faulty!Next
        \/ scene = "calm" /\ Calm!Next
     /\ UNCHANGED <<scene, streamVars, natsVars, namesVars, vars>>
  \/ scene = "nats" /\ Nats!Next /\ UNCHANGED <<scene, streamVars, otherVars, namesVars, vars>>
  \/ scene = "names" /\ Names!Next /\ UNCHANGED <<scene, streamVars, otherVars, natsVars, vars>>
  \/ scene = "story" /\ Next /\ UNCHANGED <<scene, streamVars, otherVars, natsVars, namesVars>>
  \/ Rest /\ UNCHANGED mcVars

\* A client of core NATS that nobody has called owes nothing; what the replicas
\* owe is stated with what it gives, in EverythingArrives.
MCSpec == MCInit /\ [][MCNext]_mcVars /\ Nats!Fairness

-----------------------------------------------------------------------------
(* jetstream.go:1-6, nats.go:109-111, 181-183: through crashes, closes,      *)
(* losses and slow handlers a stored message is delivered until it is        *)
(* settled, for cause only, and without faults never given up uncopied; what *)
(* was delivered when a connection drains is handled, within the time the    *)
(* library gives it; every request returns.                                  *)
EverythingArrives ==
  /\ scene = "faulty" /\ Faulty!Fairness => Faulty!NeverStuck
  /\ [](scene = "faulty" => Faulty!DeliveriesAccounted)
  /\ [](scene = "calm" => Calm!DeliveriesAccounted)
  /\ Nats!DrainHandles /\ Nats!RequestReturns
=============================================================================
