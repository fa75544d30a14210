------------------------------- MODULE MCHost -------------------------------
(* A database, an outbox relay and an HTTP server; one of them registers    *)
(* another from its Init, and a setup handler registers a fourth service.   *)
(* In a "calm" life closing is quick.  Two lives have variables of their    *)
(* own: in a "slow" one closing may outlast its timeout, in a "hasty" one   *)
(* Shutdown may come while Start still runs (with one worker).  In "build"  *)
(* an App is put together out of modules.                                   *)
EXTENDS HostProofs, TLC

VARIABLES
  life,
  \* the App of a slow or hasty life
  oReg, oLogged, oConfigured, oInitialized, oSetUp, oStarted, oStartedLive, oBoot, oWalk,
  oProgressed, oSetups, oDepth, oErr, oWorkerCancel, oWorkerWg, oCancelled, oRunning, oFatal, oWait,
  oStop, oExpired, oShutdownErr, oNotReady, oClose, oCloseRet, oCloseQ, oClosed

MCService == {"db", "relay", "http", "late"}
MCHandler == {"routes", "more"}
MCBuiltIn == <<"db", "http">>
MCQueued == <<"routes">>
MCProvides == [x \in MCService \cup MCHandler |->
                 CASE x = "http" -> <<"relay">> [] x = "routes" -> <<"late">> [] OTHER -> <<>>]
MCEnqueues == [x \in MCService \cup MCHandler |-> IF x = "routes" THEN <<"more">> ELSE <<>>]
MCBand == [s \in MCService |-> CASE s = "http" -> 0 [] s = "db" -> 100 [] OTHER -> 50]

Slow == INSTANCE Host WITH
  SlowClose <- TRUE,
  reg <- oReg, logged <- oLogged, configured <- oConfigured, initialized <- oInitialized,
  setUp <- oSetUp, started <- oStarted, startedLive <- oStartedLive, boot <- oBoot, walk <- oWalk,
  progressed <- oProgressed, setups <- oSetups, depth <- oDepth, err <- oErr,
  workerCancel <- oWorkerCancel, workerWg <- oWorkerWg, cancelled <- oCancelled, running <- oRunning,
  fatal <- oFatal, wait <- oWait, stop <- oStop, expired <- oExpired, shutdownErr <- oShutdownErr,
  notReady <- oNotReady, close <- oClose, closeRet <- oCloseRet, closeQ <- oCloseQ, closed <- oClosed
Hasty == INSTANCE Host WITH
  Worker <- {"w1"}, Stubborn <- {}, EarlyStop <- TRUE,
  reg <- oReg, logged <- oLogged, configured <- oConfigured, initialized <- oInitialized,
  setUp <- oSetUp, started <- oStarted, startedLive <- oStartedLive, boot <- oBoot, walk <- oWalk,
  progressed <- oProgressed, setups <- oSetups, depth <- oDepth, err <- oErr,
  workerCancel <- oWorkerCancel, workerWg <- oWorkerWg, cancelled <- oCancelled, running <- oRunning,
  fatal <- oFatal, wait <- oWait, stop <- oStop, expired <- oExpired, shutdownErr <- oShutdownErr,
  notReady <- oNotReady, close <- oClose, closeRet <- oCloseRet, closeQ <- oCloseQ, closed <- oClosed

ASSUME LivesAssumption == App!HostAssumption /\ Slow!HostAssumption /\ Hasty!HostAssumption

\* The default database in both spellings, a broker, and two modules that import
\* up to two of the others each, or one another, or a subscription.
MCMod == {"db", "db2", "broker", "orders", "users", "onOrder"}
MCSlot == "db" :> "gormx.DB" @@ "db2" :> "gormx.DB" @@ "broker" :> "messaging.Client" @@
          "orders" :> "orders" @@ "users" :> "users" @@ "onOrder" :> "none"
MCImports == UNION {[1..n -> MCMod \ {"broker"}] : n \in 0..2}
MCSteps(o, u) ==
  "orders" :> Append(o, "provide") @@ "users" :> <<"provide">> \o u @@
  "onOrder" :> <<"bind">> @@ [m \in MCMod |-> <<"provide">>]
MCName == [m \in MCMod |-> IF m = "db2" THEN "default" ELSE ""]
MCProgram == {[roots |-> <<"orders", "broker", "users">>, steps |-> MCSteps(o, u)] : o, u \in MCImports}
MCFaulty == MCMod \ {"orders"}

ASSUME ProgramsAssumption == \A p \in Program : Mods!WellFormed(p)

appVars ==
  <<reg, logged, configured, initialized, setUp, started, startedLive, boot, walk, progressed,
    setups, depth, err, workerCancel, workerWg, cancelled, running, fatal, wait, stop, expired,
    shutdownErr, notReady, close, closeRet, closeQ, closed>>
otherVars ==
  <<oReg, oLogged, oConfigured, oInitialized, oSetUp, oStarted, oStartedLive, oBoot, oWalk,
    oProgressed, oSetups, oDepth, oErr, oWorkerCancel, oWorkerWg, oCancelled, oRunning, oFatal,
    oWait, oStop, oExpired, oShutdownErr, oNotReady, oClose, oCloseRet, oCloseQ, oClosed>>
moduleVars == <<app, stack, installed, ran, mErr, container, keys, bindings, phase, subs>>
mcVars == <<life, appVars, otherVars, moduleVars>>

MCInit ==
  /\ App!Init /\ Slow!Init /\ Mods!Init
  /\ life \in {"calm", "slow", "hasty", "build"}
  /\ life # "calm" => ~err
  /\ life \notin {"slow", "hasty"} => ~oErr
  /\ life # "build" => app.steps = MCSteps(<<>>, <<>>)

MCNext ==
  /\ UNCHANGED life
  /\ \/ life = "calm" /\ App!Next /\ UNCHANGED <<otherVars, moduleVars>>
     \/ /\ \/ life = "slow" /\ Slow!Next
           \/ life = "hasty" /\ Hasty!Next
        /\ UNCHANGED <<appVars, moduleVars>>
     \/ life = "build" /\ Mods!Next /\ UNCHANGED <<appVars, otherVars>>

\* What the scheduler owes to a life is stated with what it gives, in CallsReturn
\* and ModulesOnce.
MCSpec == MCInit /\ [][MCNext]_mcVars

\* Hasty lives only.
HastySpec == MCInit /\ life = "hasty" /\ [][MCNext]_mcVars

(* runtime.go:20-136: Start settles, Wait returns when a listener dies, and  *)
(* Shutdown, given a deadline, ends, in an app that is not shut down while   *)
(* it starts; and slow and hasty lives boot and stop in order as well.       *)
CallsReturn ==
  /\ life = "calm" /\ App!Fairness => App!StartSettles /\ App!FatalStopsApp /\ App!ShutdownEnds
  /\ life = "slow" /\ Slow!Fairness => Slow!StartSettles /\ Slow!FatalStopsApp /\ Slow!ShutdownEnds
  /\ [](life = "slow" => Slow!BootsInOrder /\ Slow!StopsForGood)
  /\ [](life = "hasty" => Hasty!BootsInOrder /\ Hasty!StopsForGood)

(* runtime.go:91-97: when Shutdown returns nil the app has stopped: no       *)
(* worker runs and no started service is left open.                          *)
StoppedMeansStopped == Hasty!StoppedMeansStopped

(* module.go:41-48, 67-99, subscriber.go:17-79: over diamonds, cycles and    *)
(* failures WithModules returns, runs no key's Register twice and none after *)
(* an error, replaces no service, leaves nothing out of an App without an    *)
(* error, and every subscription is made once and ended.                     *)
ModulesOnce ==
  /\ [](Mods!TypeOK /\ Mods!OncePerKey /\ Mods!AllInstalled /\ Mods!SubscribedAll)
  /\ Mods!NeverClobbers /\ Mods!ErrorStops
  /\ life = "build" /\ Mods!Fairness => Mods!BuildEnds
=============================================================================
