-------------------------------- MODULE Host --------------------------------
(***************************************************************************)
(* host/: the container of services and the life of an App.  Start walks   *)
(* the registered services through config, Init, Setup, the queued setup   *)
(* handlers and Start, then launches the workers; Wait observes the end;   *)
(* Shutdown flips readiness, drains, stops the workers and closes the      *)
(* services.  One process calls Start, one Wait, one Shutdown; closing     *)
(* runs in a goroutine of its own; workers and listeners end when they     *)
(* like.  Services, handlers and workers are code of the application: what *)
(* they register, and whether a hook fails, is given or left open.         *)
(***************************************************************************)
EXTENDS Integers, Sequences, Functions

CONSTANTS
  Service,    \* container keys
  Handler,    \* setup handlers
  Worker,     \* worker goroutines
  BuiltIn,    \* Seq(Service): registered while the App is built, each key once
  Queued,     \* Seq(Handler): queued while the App is built
  Provides,   \* Provides[x]: Seq(Service) that the Init of service x, or handler x, registers, each once
  Enqueues,   \* Enqueues[x]: Seq(Handler) that handler x, or the Setup of service x, passes to App.Setup
  Band,       \* Band[s]: CloseOrder
  Toggler,    \* services that are core.ReadinessTogglers
  Listener,   \* services that are ErrSources
  Stubborn,   \* workers that ignore the cancellation of their context
  EarlyStop,  \* TRUE: Shutdown may be called before Start has returned
  Deadline,   \* TRUE: the context passed to Shutdown may expire
  SlowClose   \* TRUE: closing may take longer than WithCloseTimeout

HostAssumption ==
  /\ BuiltIn \in Seq(Service) /\ Queued \in Seq(Handler)
  /\ Provides \in [Service \cup Handler -> Seq(Service)]
  /\ Enqueues \in [Service \cup Handler -> Seq(Handler)]
  /\ IsInjective(BuiltIn) /\ \A x \in Service \cup Handler : IsInjective(Provides[x])
  /\ Band \in [Service -> Int]
  /\ Toggler \subseteq Service /\ Listener \subseteq Service /\ Stubborn \subseteq Worker
  /\ EarlyStop \in BOOLEAN /\ Deadline \in BOOLEAN /\ SlowClose \in BOOLEAN

VARIABLES
  reg,         \* reg[s]: the place of s in the registration-order log, 0: not registered
  logged,      \* the places given out
  configured, initialized, setUp, started,  \* services whose hook has run
  startedLive, \* services started and not closed
  boot,        \* where Start is
  walk,        \* services the current orderedRange has yet to visit, in the order of reg
  progressed,  \* the flag of initServices
  setups,      \* the queue of setup handlers
  depth,       \* calls of App.Setup we are inside of
  err,         \* App.err is set
  workerCancel, workerWg,   \* whether these fields are set
  cancelled,   \* the worker context is cancelled
  running,     \* workers running
  fatal,       \* what the merged ErrSource channel holds: "none", "nil", "err"
  wait,        \* where Wait is
  stop,        \* where Shutdown is
  expired,     \* Shutdown's context has expired
  shutdownErr, \* what Shutdown returns is an error
  notReady,    \* togglers switched to not ready
  close,       \* the goroutine of App.close: "no", "begin", "walk", "done"
  closeRet,    \* closeOnce.Do has returned
  closeQ,      \* services closeServices has yet to close
  closed       \* services closed, in order

hooks     == <<configured, initialized, setUp, started, startedLive>>
starting  == <<boot, walk, progressed, setups, depth, err>>
workers   == <<workerCancel, workerWg, cancelled, running>>
stopping  == <<stop, expired, shutdownErr, notReady>>
closing   == <<close, closeRet, closeQ, closed>>
log       == <<reg, logged>>
vars == <<log, hooks, starting, workers, fatal, wait, stopping, closing>>

\* storeKey, for each of ks: a key that is already there keeps its place.
Stored(old, n, ks) ==
  [s \in Service |-> IF old[s] = 0 /\ s \in Range(ks) THEN n + CHOOSE i \in DOMAIN ks : ks[i] = s ELSE old[s]]

storeKeys(ks) ==
  /\ reg' = Stored(reg, logged, ks)
  /\ logged' = logged + Len(ks)

Init ==
  /\ reg = Stored([s \in Service |-> 0], 0, BuiltIn) /\ logged = Len(BuiltIn)
  /\ configured = {} /\ initialized = {} /\ setUp = {} /\ started = {} /\ startedLive = {}
  /\ boot = "idle" /\ walk = {} /\ progressed = FALSE
  /\ setups = Queued /\ depth = 0
  /\ err \in BOOLEAN
  /\ workerCancel = FALSE /\ workerWg = FALSE /\ cancelled = FALSE /\ running = {}
  /\ fatal = "none" /\ wait = "idle"
  /\ stop = "idle" /\ expired = FALSE /\ shutdownErr = FALSE /\ notReady = {}
  /\ close = "no" /\ closeRet = FALSE /\ closeQ = {} /\ closed = <<>>

Registered == {s \in Service : reg[s] > 0}

\* orderedRange: the services of S in registration order.
First(S) == {s \in S : \A t \in S : reg[s] <= reg[t]}

BootUnchanged == UNCHANGED <<workers, fatal, wait, stopping, closing>>
-----------------------------------------------------------------------------
(* Start: a build error closes the app at once. *)
CallStart ==
  /\ boot = "idle"
  /\ boot' = IF err THEN "closing" ELSE "config"
  /\ walk' = IF err THEN {} ELSE Registered
  /\ UNCHANGED <<log, hooks, progressed, setups, depth, err>>
  /\ BootUnchanged

(* A hook returned an error: Start closes the app. *)
HookFails ==
  /\ boot \in {"config", "init", "setup", "start"} /\ walk # {} /\ depth = 0
  /\ boot' = "closing"
  /\ walk' = {}
  /\ UNCHANGED <<log, hooks, progressed, setups, depth, err>>
  /\ BootUnchanged

(* initServices: passes of config and Init until one finds nothing new. *)
ReadConfig ==
  /\ boot = "config"
  /\ \E s \in First(walk) : configured' = configured \cup {s} /\ walk' = walk \ {s}
  /\ progressed' = TRUE
  /\ UNCHANGED <<log, initialized, setUp, started, startedLive, boot, setups, depth, err>>
  /\ BootUnchanged

ConfigDone ==
  /\ boot = "config" /\ walk = {}
  /\ boot' = "init"
  /\ walk' = (Registered \ initialized) \cap configured
  /\ UNCHANGED <<log, hooks, progressed, setups, depth, err>>
  /\ BootUnchanged

InitService ==
  /\ boot = "init"
  /\ \E s \in First(walk) :
       initialized' = initialized \cup {s} /\ walk' = walk \ {s} /\ storeKeys(Provides[s])
  /\ progressed' = TRUE
  /\ UNCHANGED <<configured, setUp, started, startedLive, boot, setups, depth, err>>
  /\ BootUnchanged

(* Fault: one pass is taken to be enough. *)
OnePass ==
  /\ boot = "init" /\ walk = {}
  /\ progressed' = FALSE
  /\ boot' = "setup" /\ walk' = Registered
  /\ UNCHANGED <<log, hooks, setups, depth, err>>
  /\ BootUnchanged

InitDone ==
  /\ boot = "init" /\ walk = {}
  /\ progressed' = FALSE
  /\ IF progressed
     THEN boot' = "config" /\ walk' = Registered \ configured
     ELSE boot' = "setup" /\ walk' = Registered
  /\ UNCHANGED <<log, hooks, setups, depth, err>>
  /\ BootUnchanged

(* App.Setup once services are initialized: it queues hs and drains the    *)
(* queue inside the call.  A no-op when the app has failed already.        *)
Setup(queue, hs) ==
  IF err \/ hs = <<>> THEN setups' = queue /\ UNCHANGED depth
                      ELSE setups' = queue \o hs /\ depth' = depth + 1

SetupService ==
  /\ boot = "setup" /\ depth = 0
  /\ \E s \in First(walk) :
       setUp' = setUp \cup {s} /\ walk' = walk \ {s} /\ Setup(setups, Enqueues[s])
  /\ UNCHANGED <<log, configured, initialized, started, startedLive, boot, progressed, err>>
  /\ BootUnchanged

SetupDone ==
  /\ boot = "setup" /\ walk = {} /\ depth = 0
  /\ boot' = "handlers"
  /\ UNCHANGED <<log, hooks, walk, progressed, setups, depth, err>>
  /\ BootUnchanged

Draining == setups # <<>> /\ (depth > 0 \/ boot = "handlers")

(* runSetups: one queued handler. *)
RunHandler ==
  /\ Draining
  /\ storeKeys(Provides[Head(setups)])
  /\ Setup(Tail(setups), Enqueues[Head(setups)])
  /\ UNCHANGED <<hooks, boot, walk, progressed, err>>
  /\ BootUnchanged

(* Its error ends the innermost runSetups: start's own returns it, that of  *)
(* a nested App.Setup records it in App.err and returns to its caller.      *)
HandlerFails ==
  /\ Draining
  /\ setups' = Tail(setups)
  /\ IF depth = 0 THEN boot' = "closing" /\ UNCHANGED <<depth, err>>
                  ELSE depth' = depth - 1 /\ err' = TRUE /\ UNCHANGED boot
  /\ UNCHANGED <<log, hooks, walk, progressed>>
  /\ BootUnchanged

(* A drained queue returns through every nested App.Setup. *)
NestedReturn ==
  /\ depth > 0 /\ setups = <<>>
  /\ depth' = 0
  /\ UNCHANGED <<log, hooks, boot, walk, progressed, setups, err>>
  /\ BootUnchanged

HandlersDone ==
  /\ boot = "handlers" /\ setups = <<>> /\ depth = 0
  /\ boot' = "start" /\ walk' = Registered
  /\ UNCHANGED <<log, hooks, progressed, setups, depth, err>>
  /\ BootUnchanged

StartService ==
  /\ boot = "start"
  /\ \E s \in First(walk) :
       started' = started \cup {s} /\ startedLive' = startedLive \cup {s} /\ walk' = walk \ {s}
  /\ UNCHANGED <<log, configured, initialized, setUp, boot, progressed, setups, depth, err>>
  /\ BootUnchanged

(* The worker context is made; its parent may be cancelled already. *)
MakeWorkerCtx ==
  /\ boot = "start" /\ walk = {}
  /\ boot' = "launch"
  /\ workerCancel' = TRUE
  /\ cancelled' \in BOOLEAN
  /\ UNCHANGED <<log, hooks, walk, progressed, setups, depth, err, workerWg, running, fatal, wait, stopping, closing>>

startWorkers ==
  /\ boot = "launch"
  /\ boot' = "up"
  /\ running' = Worker
  /\ workerWg' = TRUE
  /\ UNCHANGED <<log, hooks, walk, progressed, setups, depth, err, workerCancel, cancelled, fatal, wait, stopping, closing>>

StartFailed ==
  /\ boot = "closing" /\ closeRet
  /\ boot' = "failed"
  /\ UNCHANGED <<log, hooks, walk, progressed, setups, depth, err>>
  /\ BootUnchanged
-----------------------------------------------------------------------------
(* The worker's own end, an error or a panic that safeRun recovered. *)
WorkerEnds(w) ==
  /\ w \in running
  /\ running' = running \ {w}
  /\ UNCHANGED <<log, hooks, starting, workerCancel, workerWg, cancelled, fatal, wait, stopping, closing>>

WorkerObeys(w) == cancelled /\ w \notin Stubborn /\ WorkerEnds(w)

(* The context given to Start is cancelled. *)
ParentCancelled ==
  /\ workerCancel /\ ~cancelled
  /\ cancelled' = TRUE
  /\ UNCHANGED <<log, hooks, starting, workerCancel, workerWg, running, fatal, wait, stopping, closing>>

(* A service's background loop ends, with or without an error. *)
ListenerExits ==
  /\ startedLive \cap Listener # {} /\ fatal = "none"
  /\ fatal' \in {"nil", "err"}
  /\ UNCHANGED <<log, hooks, starting, workers, wait, stopping, closing>>

(* Wait blocks on the channels that exist when it is called. *)
CallWait ==
  /\ wait = "idle"
  /\ EarlyStop \/ boot = "up"
  /\ wait' = IF boot = "up" THEN "all" ELSE IF workerCancel THEN "noFatal" ELSE "shutdownOnly"
  /\ UNCHANGED <<log, hooks, starting, workers, fatal, stopping, closing>>

(* Fault: the merged error channel is left out of the select. *)
WaitIgnoresFatal ==
  /\ wait \in {"all", "noFatal", "shutdownOnly"}
  /\ \/ wait # "shutdownOnly" /\ cancelled /\ wait' = "nil"
     \/ stop # "idle" /\ wait' = "nil"
  /\ UNCHANGED <<log, hooks, starting, workers, fatal, stopping, closing>>

WaitReturns ==
  /\ wait \in {"all", "noFatal", "shutdownOnly"}
  /\ \/ wait # "shutdownOnly" /\ cancelled /\ wait' = "nil"
     \/ stop # "idle" /\ wait' = "nil"
     \/ wait = "all" /\ fatal # "none" /\ wait' = fatal
  /\ UNCHANGED <<log, hooks, starting, workers, fatal, stopping, closing>>
-----------------------------------------------------------------------------
ShutdownUnchanged == UNCHANGED <<log, hooks, starting, fatal, wait>>

(* Shutdown, by Run after a signal or after Wait, or by an embedding caller. *)
Shutdown ==
  /\ stop = "idle"
  /\ EarlyStop \/ boot \in {"up", "failed"}
  /\ stop' = "begin"
  /\ UNCHANGED <<expired, shutdownErr, notReady, workers, closing>>
  /\ ShutdownUnchanged

(* beginShutdown: flip every toggler, then drain for a while. *)
beginShutdown ==
  /\ stop = "begin"
  /\ notReady' = Toggler \cap Registered
  /\ stop' = IF notReady' = {} THEN "cancel" ELSE "drain"
  /\ UNCHANGED <<expired, shutdownErr, workers, closing>>
  /\ ShutdownUnchanged

Drained ==
  /\ stop = "drain"
  /\ stop' = "cancel"
  /\ UNCHANGED <<expired, shutdownErr, notReady, workers, closing>>
  /\ ShutdownUnchanged

CancelWorkers ==
  /\ stop = "cancel"
  /\ stop' = "workers"
  /\ cancelled' = (cancelled \/ workerCancel)
  /\ UNCHANGED <<expired, shutdownErr, notReady, workerCancel, workerWg, running, closing>>
  /\ ShutdownUnchanged

waitWorkers ==
  /\ stop = "workers"
  /\ stop' = "close"
  /\ \/ (~workerWg \/ running = {}) /\ UNCHANGED shutdownErr
     \/ workerWg /\ expired /\ shutdownErr' = TRUE
  /\ UNCHANGED <<expired, notReady, workers, closing>>
  /\ ShutdownUnchanged

Expire ==
  /\ Deadline /\ stop \notin {"idle", "done"} /\ ~expired
  /\ expired' = TRUE
  /\ UNCHANGED <<stop, shutdownErr, notReady, workers, closing>>
  /\ ShutdownUnchanged

ShutdownReturns ==
  /\ stop = "close" /\ closeRet
  /\ stop' = "done"
  /\ UNCHANGED <<expired, shutdownErr, notReady, workers, closing>>
  /\ ShutdownUnchanged
-----------------------------------------------------------------------------
(* Close: the first caller starts closeServices; later ones wait for it. *)
Close ==
  /\ boot = "closing" \/ stop = "close"
  /\ close = "no"
  /\ close' = "begin"
  /\ UNCHANGED <<log, hooks, starting, workers, fatal, wait, stopping, closeRet, closeQ, closed>>

(* Fault: bands are closed in registration order. *)
ClosesBeforeForward(s, t) ==
  Band[s] < Band[t] \/ (Band[s] = Band[t] /\ reg[s] < reg[t])

(* Reversed, then stably sorted by band. *)
ClosesBefore(s, t) ==
  Band[s] < Band[t] \/ (Band[s] = Band[t] /\ reg[s] > reg[t])

(* Fault: only services that were initialized are closed. *)
closeInitialized ==
  /\ close = "begin"
  /\ close' = "walk"
  /\ closeQ' = initialized
  /\ UNCHANGED <<log, hooks, starting, workers, fatal, wait, stopping, closeRet, closed>>

closeServices ==
  /\ close = "begin"
  /\ close' = "walk"
  /\ closeQ' = Registered
  /\ UNCHANGED <<log, hooks, starting, workers, fatal, wait, stopping, closeRet, closed>>

(* One Close hook; its error is only logged. *)
CloseService ==
  /\ close = "walk"
  /\ \E s \in closeQ :
       /\ \A t \in closeQ \ {s} : ClosesBefore(s, t)
       /\ closed' = Append(closed, s)
       /\ startedLive' = startedLive \ {s}
       /\ closeQ' = closeQ \ {s}
  /\ UNCHANGED <<log, configured, initialized, setUp, started, starting, workers, fatal, wait, stopping, close, closeRet>>

CloseDone ==
  /\ close = "walk" /\ closeQ = {}
  /\ close' = "done"
  /\ UNCHANGED <<log, hooks, starting, workers, fatal, wait, stopping, closeRet, closeQ, closed>>

(* close returns when the goroutine is done, or at its timeout. *)
CloseReturns ==
  /\ ~closeRet
  /\ close = "done" \/ (SlowClose /\ close # "no")
  /\ closeRet' = TRUE
  /\ UNCHANGED <<log, hooks, starting, workers, fatal, wait, stopping, close, closeQ, closed>>

(* The app has ended: nothing is left to do. *)
Ended ==
  /\ boot \in {"up", "failed"} /\ stop = "done" /\ close = "done"
  /\ UNCHANGED vars
-----------------------------------------------------------------------------
StartStep ==
  \/ CallStart \/ ReadConfig \/ ConfigDone \/ InitService \/ InitDone
  \/ SetupService \/ SetupDone \/ RunHandler \/ NestedReturn \/ HandlersDone
  \/ StartService \/ MakeWorkerCtx \/ startWorkers \/ StartFailed

ShutdownStep ==
  \/ beginShutdown \/ Drained \/ CancelWorkers \/ waitWorkers \/ ShutdownReturns

CloseStep == Close \/ closeServices \/ CloseService \/ CloseDone \/ CloseReturns

Next ==
  \/ StartStep \/ HookFails \/ HandlerFails
  \/ \E w \in Worker : WorkerEnds(w)
  \/ ParentCancelled \/ ListenerExits
  \/ CallWait \/ WaitReturns
  \/ Shutdown \/ ShutdownStep \/ Expire
  \/ CloseStep
  \/ Ended

Spec == Init /\ [][Next]_vars

(* Run: Start, Wait and Shutdown are called one after the other, each     *)
(* goroutine is scheduled, a deadline passes, and workers that heed their *)
(* context return once it is cancelled.                                   *)
Fairness ==
  /\ WF_vars(StartStep) /\ WF_vars(ShutdownStep) /\ WF_vars(CloseStep)
  /\ WF_vars(CallWait) /\ WF_vars(WaitReturns) /\ WF_vars(wait \in {"nil", "err"} /\ Shutdown)
  /\ WF_vars(Expire)
  /\ \A w \in Worker : WF_vars(WorkerObeys(w))

FairSpec == Spec /\ Fairness
-----------------------------------------------------------------------------
TypeOK ==
  /\ reg \in [Service -> Nat] /\ logged \in Nat /\ closed \in Seq(Service)
  /\ walk \subseteq Service /\ closeQ \subseteq Service /\ notReady \subseteq Service
  /\ configured \subseteq Service /\ initialized \subseteq Service
  /\ setUp \subseteq Service /\ started \subseteq Service /\ startedLive \subseteq Service
  /\ boot \in {"idle", "config", "init", "setup", "handlers", "start", "launch", "up", "closing", "failed"}
  /\ setups \in Seq(Handler) /\ depth \in Nat
  /\ progressed \in BOOLEAN /\ err \in BOOLEAN
  /\ workerCancel \in BOOLEAN /\ workerWg \in BOOLEAN /\ cancelled \in BOOLEAN
  /\ expired \in BOOLEAN /\ shutdownErr \in BOOLEAN /\ closeRet \in BOOLEAN
  /\ running \subseteq Worker
  /\ fatal \in {"none", "nil", "err"}
  /\ wait \in {"idle", "all", "noFatal", "shutdownOnly", "nil", "err"}
  /\ stop \in {"idle", "begin", "drain", "cancel", "workers", "close", "done"}
  /\ close \in {"no", "begin", "walk", "done"}

(* Services registered by setup handlers come too late for initServices. *)
Late == UNION {Range(Provides[h]) : h \in Handler}

(* service.go:217-223: however deep services register services from their   *)
(* Init, each is configured and initialized before any Setup hook or setup  *)
(* handler runs, and nothing starts before all of that is over.             *)
ReadyBeforeServing ==
  /\ initialized \subseteq configured
  /\ setUp # {} \/ boot \in {"setup", "handlers", "start", "launch", "up"}
       => Registered \ Late \subseteq initialized
  /\ started # {} => Registered \ Late \subseteq setUp /\ depth = 0 /\ setups = <<>>

(* service.go:217-264, runtime.go:26-62: no hook runs before the ones it     *)
(* builds on, for every service, however deep it was registered.             *)
BootsInOrder == TypeOK /\ ReadyBeforeServing

(* service.go:424-430 and host.go:345: whoever closes, after a failed start *)
(* or a shutdown, each service is closed once, edges before backends and    *)
(* the last registered first within a band.                                 *)
ClosedInOrder ==
  \A i, j \in DOMAIN closed :
    i < j => /\ closed[i] # closed[j]
             /\ Band[closed[i]] <= Band[closed[j]]
             /\ Band[closed[i]] = Band[closed[j]] => reg[closed[i]] > reg[closed[j]]

(* runtime.go:91-97: a started app closes no service before readiness is    *)
(* off everywhere and every worker has returned, unless Shutdown's deadline *)
(* cut the wait short.                                                      *)
DrainedBeforeClosing ==
  boot = "up" /\ closed # <<>> =>
    /\ Toggler \cap Registered \subseteq notReady
    /\ running = {} \/ shutdownErr

(* runtime.go:91-97: when Shutdown returns nil the app has stopped: no      *)
(* worker runs and no started service is left open.                         *)
StoppedMeansStopped ==
  stop = "done" /\ ~shutdownErr => running = {} /\ startedLive = {}

(* runtime.go:91-136: where Shutdown waits for Start, no service is closed   *)
(* under a worker that runs or an edge that is ready, unless the deadline    *)
(* cut the wait short; and where nothing hurries or delays it, a Shutdown    *)
(* that returns nil has stopped every worker and closed every service.       *)
(* Services close in the order of their bands and against their order of     *)
(* registration.                                                             *)
StopsForGood ==
  /\ ClosedInOrder
  /\ ~EarlyStop => DrainedBeforeClosing
  /\ ~EarlyStop /\ ~SlowClose => StoppedMeansStopped

(* What the passes of initServices and the walks of start keep: a walk goes *)
(* over registered services, a pass of config leaves none unconfigured, and *)
(* a pass of Init that made no progress left none uninitialized.            *)
BootInv ==
  /\ walk \subseteq Registered /\ startedLive \subseteq Registered /\ initialized \subseteq configured
  /\ boot = "config" => Registered \subseteq configured \cup walk
  /\ boot = "init" => walk \subseteq configured
  /\ boot = "init" /\ ~progressed => Registered \subseteq initialized \cup walk
  /\ boot \in {"idle", "config", "init"} => setUp = {}
  /\ boot = "setup" => Registered \ Late \subseteq setUp \cup walk
  /\ boot \in {"handlers", "start", "launch", "up"} => Registered \ Late \subseteq setUp
  /\ boot \in {"start", "launch", "up"} => setups = <<>>
  /\ depth > 0 => boot \in {"setup", "handlers"}
  /\ started # {} => boot \in {"start", "launch", "up", "closing", "failed"}
  /\ ReadyBeforeServing

(* What is closed comes before all that is still to be closed. *)
CloseInv ==
  /\ closeQ \subseteq Registered /\ \A i \in DOMAIN closed : closed[i] \in Registered
  /\ close \in {"no", "begin"} => closed = <<>>
  /\ close # "walk" => closeQ = {}
  /\ \A i \in DOMAIN closed : \A t \in closeQ : ClosesBefore(closed[i], t)
  /\ ClosedInOrder

(* Where Shutdown waits for Start: how far Shutdown is says who may close   *)
(* and what is off by then.                                                 *)
StopInv ==
  /\ stop # "idle" => boot \in {"up", "failed"}
  /\ close # "no" => boot \in {"closing", "failed"} \/ stop \in {"close", "done"}
  /\ boot = "up" => workerWg
  /\ boot # "up" => running = {}
  /\ boot = "up" /\ stop \in {"drain", "cancel", "workers", "close", "done"} => Toggler \cap Registered \subseteq notReady
  /\ boot = "up" /\ stop \in {"close", "done"} => running = {} \/ shutdownErr
  /\ close \in {"walk", "done"} => startedLive \subseteq closeQ
  /\ stop = "done" => closeRet
  /\ ~SlowClose /\ closeRet => close = "done"

HostInv == TypeOK /\ BootInv /\ CloseInv /\ (~EarlyStop => StopInv)

(* host.go:214 "Errors are deferred and surfaced by Run/MustRun/Err": Start *)
(* does not succeed over a setup error.                                     *)
SetupErrorSurfaces == boot = "up" => ~err

(* Start gets to an answer, up or failed with everything closed. *)
StartSettles == boot = "config" ~> boot = "up" \/ (boot = "failed" /\ startedLive = {})

(* runtime.go:64-81, host.go:262-270: once the app is up, the death of a    *)
(* service brings the whole app down, if Shutdown is given a deadline or    *)
(* every worker minds its context.  Run gives it none.                      *)
FatalStopsApp == fatal # "none" /\ boot = "up" ~> stop = "done" /\ closeRet

(* runtime.go:113-115: a worker that ignores cancellation cannot hang a     *)
(* Shutdown that has a deadline.                                            *)
ShutdownEnds == stop = "begin" ~> stop = "done"
=============================================================================
