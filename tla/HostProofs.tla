----------------------------- MODULE HostProofs -----------------------------
(***************************************************************************)
(* The theorems about an App: its life (Host), and how it is built out of  *)
(* modules (Modules).                                                      *)
(***************************************************************************)
EXTENDS Integers, Sequences, TLAPS

-----------------------------------------------------------------------------
(* The life of an App, for any services, handlers and workers, whatever they *)
(* register and whoever fails.                                               *)

CONSTANTS
  Service, Handler, Worker, BuiltIn, Queued, Provides, Enqueues, Band, Toggler, Listener, Stubborn,
  EarlyStop, Deadline, SlowClose

VARIABLES
  reg, logged, configured, initialized, setUp, started, startedLive, boot, walk, progressed, setups, depth, err,
  workerCancel, workerWg, cancelled, running, fatal, wait, stop, expired, shutdownErr, notReady,
  close, closeRet, closeQ, closed

App == INSTANCE Host

(* service.go:217-264, runtime.go:26-62: no hook runs before the ones it     *)
(* builds on, for every service, however deep it was registered.             *)
BootsInOrder == App!BootsInOrder

(* runtime.go:91-136: where Shutdown waits for Start, no service is closed   *)
(* under a worker that runs or an edge that is ready, unless the deadline    *)
(* cut the wait short; and where nothing hurries or delays it, a Shutdown    *)
(* that returns nil has stopped every worker and closed every service.       *)
(* Services close in the order of their bands and against their order of     *)
(* registration.                                                             *)
StopsForGood == App!StopsForGood

(* The actions that leave the log of registrations alone, as one step. *)
Quiet ==
  \/ App!CallStart \/ App!HookFails \/ App!ReadConfig \/ App!ConfigDone \/ App!InitDone
  \/ App!SetupService \/ App!SetupDone \/ App!HandlerFails \/ App!NestedReturn \/ App!HandlersDone
  \/ App!StartService \/ App!MakeWorkerCtx \/ App!startWorkers \/ App!StartFailed
  \/ (\E w \in Worker : App!WorkerEnds(w))
  \/ App!ParentCancelled \/ App!ListenerExits \/ App!CallWait \/ App!WaitReturns
  \/ App!Shutdown \/ App!beginShutdown \/ App!Drained \/ App!CancelWorkers \/ App!waitWorkers
  \/ App!Expire \/ App!ShutdownReturns
  \/ App!Close \/ App!closeServices \/ App!CloseService \/ App!CloseDone \/ App!CloseReturns
  \/ App!Ended \/ UNCHANGED App!vars

LEMMA HostSteps == [App!Next]_(App!vars) <=> Quiet \/ App!InitService \/ App!RunHandler
BY Zenon DEF Quiet, App!Next, App!StartStep, App!ShutdownStep, App!CloseStep

LEMMA QuietLog == ASSUME Quiet PROVE UNCHANGED <<reg, logged>>
BY Zenon DEF Quiet, App!log, App!vars, App!CallStart, App!HookFails, App!ReadConfig, App!ConfigDone, App!InitDone,
  App!SetupService, App!SetupDone, App!HandlerFails, App!NestedReturn, App!HandlersDone, App!StartService,
  App!MakeWorkerCtx, App!startWorkers, App!StartFailed, App!WorkerEnds, App!ParentCancelled,
  App!ListenerExits, App!CallWait, App!WaitReturns, App!Shutdown, App!beginShutdown, App!Drained,
  App!CancelWorkers, App!waitWorkers, App!Expire, App!ShutdownReturns, App!Close, App!closeServices,
  App!CloseService, App!CloseDone, App!CloseReturns, App!Ended, App!ShutdownUnchanged

(* Registering the keys of ks adds them, and moves none that is there. *)
LEMMA KeysStored ==
  ASSUME App!TypeOK, NEW ks \in Seq(Service), App!storeKeys(ks)
  PROVE  /\ reg' \in [Service -> Nat] /\ logged' \in Nat
         /\ App!Registered' = App!Registered \cup App!Range(ks)
         /\ \A s \in App!Registered : reg'[s] = reg[s]
<1>1. \A s \in App!Range(ks) : (CHOOSE i \in DOMAIN ks : ks[i] = s) \in 1..Len(ks)
  <2> SUFFICES ASSUME NEW s \in App!Range(ks) PROVE (CHOOSE i \in DOMAIN ks : ks[i] = s) \in 1..Len(ks)
    BY Zenon
  <2>1. \E i \in DOMAIN ks : ks[i] = s
    BY Zenon DEF App!Range
  <2> QED
    BY <2>1
<1>2. App!Range(ks) \subseteq Service
  BY DEF App!Range
<1>3. /\ reg \in [Service -> Nat] /\ logged \in Nat /\ Len(ks) \in Nat
      /\ reg' = App!Stored(reg, logged, ks) /\ logged' = logged + Len(ks)
  BY DEF App!TypeOK, App!storeKeys
<1>4. \A s \in Service :
        /\ reg[s] = 0 /\ s \in App!Range(ks) => reg'[s] \in Nat /\ reg'[s] > 0
        /\ ~(reg[s] = 0 /\ s \in App!Range(ks)) => reg'[s] = reg[s]
  BY <1>1, <1>3 DEF App!Stored
<1>5. reg' \in [Service -> Nat]
  <2>1. reg' = [s \in Service |-> reg'[s]]
    BY <1>3 DEF App!Stored
  <2>2. \A s \in Service : reg'[s] \in Nat
    BY <1>3, <1>4, Zenon
  <2> QED
    BY <2>1, <2>2, Zenon
<1>6. App!Registered' = App!Registered \cup App!Range(ks)
  BY <1>2, <1>3, <1>4, <1>5 DEF App!Registered
<1>7. \A s \in App!Registered : reg'[s] = reg[s]
  BY <1>3, <1>4 DEF App!Registered
<1> QED
  BY <1>3, <1>5, <1>6, <1>7

(* What a step does to the log: it grows by what an Init hook or a setup     *)
(* handler registers, and no registered key moves.                           *)
LEMMA LogGrows ==
  ASSUME App!HostAssumption, App!TypeOK, [App!Next]_(App!vars)
  PROVE  /\ reg' \in [Service -> Nat] /\ logged' \in Nat
         /\ App!Registered \subseteq App!Registered'
         /\ \A s \in App!Registered : reg'[s] = reg[s]
<1>1. CASE Quiet
  BY <1>1, QuietLog, Zenon DEF App!TypeOK, App!Registered
<1>2. CASE App!InitService
  <2>1. PICK s \in walk : App!storeKeys(Provides[s])
    BY <1>2, Zenon DEF App!InitService, App!First
  <2>2. Provides[s] \in Seq(Service)
    BY <2>1, Zenon DEF App!TypeOK, App!HostAssumption
  <2> QED
    BY <2>1, <2>2, KeysStored, Zenon
<1>3. CASE App!RunHandler
  <2>1. setups \in Seq(Handler) /\ setups # <<>> /\ App!storeKeys(Provides[Head(setups)])
    BY <1>3, Zenon DEF App!RunHandler, App!Draining, App!TypeOK
  <2>2. Head(setups) \in Handler
    BY <2>1
  <2>3. Provides[Head(setups)] \in Seq(Service)
    BY <2>2, Zenon DEF App!HostAssumption
  <2> QED
    BY <2>1, <2>3, KeysStored, Zenon
<1> QED
  BY <1>1, <1>2, <1>3, HostSteps, Zenon

(* Every variable keeps its type. *)
LEMMA HostTypes ==
  ASSUME App!HostAssumption, App!TypeOK, [App!Next]_(App!vars)
  PROVE  App!TypeOK'
<1>1. reg' \in [Service -> Nat] /\ logged' \in Nat
  BY LogGrows, Zenon
<1>2. App!Registered \subseteq Service
  BY Zenon DEF App!Registered
<1>3. CASE App!InitService
  BY <1>1, <1>3 DEF App!TypeOK, App!InitService, App!First, App!BootUnchanged, App!workers, App!stopping,
     App!closing
<1>4. ASSUME NEW q \in Seq(Handler), NEW hs \in Seq(Handler), App!Setup(q, hs)
      PROVE  setups' \in Seq(Handler) /\ depth' \in Nat
  <2>1. q \o hs \in Seq(Handler) /\ depth \in Nat
    BY DEF App!TypeOK
  <2>2. CASE err \/ hs = <<>>
    BY <1>4, <2>1, <2>2, Zenon DEF App!Setup
  <2>3. CASE ~(err \/ hs = <<>>)
    <3>1. setups' = q \o hs /\ depth' = depth + 1
      BY <1>4, <2>3, Zenon DEF App!Setup
    <3> QED
      BY <2>1, <3>1
  <2> QED
    BY <2>2, <2>3, Zenon
<1>5. CASE App!RunHandler
  <2>1. setups \in Seq(Handler) /\ setups # <<>>
    BY <1>5, Zenon DEF App!TypeOK, App!RunHandler, App!Draining
  <2>2. Head(setups) \in Handler /\ Tail(setups) \in Seq(Handler)
    BY <2>1
  <2>3. Enqueues[Head(setups)] \in Seq(Handler)
    BY <2>2, Zenon DEF App!HostAssumption
  <2>4. setups' \in Seq(Handler) /\ depth' \in Nat
    BY <1>4, <1>5, <2>2, <2>3, Zenon DEF App!RunHandler
  <2> QED
    BY <1>1, <1>5, <2>4 DEF App!TypeOK, App!RunHandler, App!hooks, App!BootUnchanged, App!workers, App!stopping,
      App!closing
<1>6. CASE App!SetupService
  <2>1. PICK s \in walk : setUp' = setUp \cup {s} /\ walk' = walk \ {s} /\ App!Setup(setups, Enqueues[s])
    BY <1>6, Zenon DEF App!SetupService, App!First
  <2>2. Enqueues[s] \in Seq(Handler)
    BY <2>1, Zenon DEF App!TypeOK, App!HostAssumption
  <2>3. setups' \in Seq(Handler) /\ depth' \in Nat
    BY <1>4, <2>1, <2>2, Zenon DEF App!TypeOK
  <2> QED
    BY <1>1, <1>6, <2>1, <2>3 DEF App!TypeOK, App!SetupService, App!BootUnchanged, App!workers, App!stopping,
      App!closing
<1>7. CASE App!HandlerFails
  <2>1. setups \in Seq(Handler) /\ setups # <<>>
    BY <1>7, Zenon DEF App!TypeOK, App!HandlerFails, App!Draining
  <2>2. Tail(setups) \in Seq(Handler)
    BY <2>1
  <2>3. depth' \in Nat /\ boot' \in {boot, "closing"}
    BY <1>7 DEF App!TypeOK, App!HandlerFails
  <2>4. err' \in BOOLEAN
    <3>1. CASE depth = 0
      BY <1>7, <3>1, Zenon DEF App!TypeOK, App!HandlerFails
    <3>2. CASE depth # 0
      BY <1>7, <3>2, Zenon DEF App!TypeOK, App!HandlerFails
    <3> QED
      BY <3>1, <3>2, Zenon
  <2> QED
    BY <1>1, <1>7, <2>2, <2>3, <2>4 DEF App!TypeOK, App!HandlerFails, App!hooks, App!BootUnchanged,
       App!workers, App!stopping,
      App!closing
<1>8. CASE App!CloseService
  BY <1>1, <1>8 DEF App!TypeOK, App!CloseService, App!starting, App!workers, App!stopping
<1>9. CASE App!CallStart
  BY <1>1, <1>2, <1>9 DEF App!TypeOK, App!CallStart, App!BootUnchanged,
      App!hooks, App!starting, App!workers, App!stopping, App!closing
<1>10. CASE App!HookFails
  BY <1>1, <1>10 DEF App!TypeOK, App!HookFails, App!BootUnchanged,
      App!hooks, App!starting, App!workers, App!stopping, App!closing
<1>11. CASE App!ReadConfig
  BY <1>1, <1>11 DEF App!TypeOK, App!ReadConfig, App!First, App!BootUnchanged,
      App!hooks, App!starting, App!workers, App!stopping, App!closing
<1>12. CASE App!ConfigDone
  BY <1>1, <1>2, <1>12 DEF App!TypeOK, App!ConfigDone, App!BootUnchanged,
      App!hooks, App!starting, App!workers, App!stopping, App!closing
<1>13. CASE App!InitDone
  <2>1. boot' \in {"config", "setup"} /\ walk' \subseteq Service
    <3>1. CASE progressed
      BY <1>2, <1>13, <3>1, Zenon DEF App!InitDone
    <3>2. CASE ~progressed
      BY <1>2, <1>13, <3>2, Zenon DEF App!InitDone
    <3> QED
      BY <3>1, <3>2, Zenon
  <2>2. UNCHANGED <<setups, depth, err, App!hooks>> /\ App!BootUnchanged /\ progressed' = FALSE
    BY <1>13, Zenon DEF App!InitDone
  <2>3. progressed' \in BOOLEAN /\ boot' \in {"config", "init", "setup"}
    BY <2>1, <2>2, Zenon
  <2> QED
    BY <1>1, <2>1, <2>2, <2>3 DEF App!TypeOK, App!BootUnchanged,
      App!hooks, App!starting, App!workers, App!stopping, App!closing
<1>14. CASE App!SetupDone
  BY <1>1, <1>14 DEF App!TypeOK, App!SetupDone, App!BootUnchanged,
      App!hooks, App!starting, App!workers, App!stopping, App!closing
<1>15. CASE App!NestedReturn
  BY <1>1, <1>15 DEF App!TypeOK, App!NestedReturn, App!BootUnchanged,
      App!hooks, App!starting, App!workers, App!stopping, App!closing
<1>16. CASE App!HandlersDone
  BY <1>1, <1>2, <1>16 DEF App!TypeOK, App!HandlersDone, App!BootUnchanged,
      App!hooks, App!starting, App!workers, App!stopping, App!closing
<1>17. CASE App!StartService
  BY <1>1, <1>17 DEF App!TypeOK, App!StartService, App!First, App!BootUnchanged,
      App!hooks, App!starting, App!workers, App!stopping, App!closing
<1>18. CASE App!MakeWorkerCtx
  BY <1>1, <1>18 DEF App!TypeOK, App!MakeWorkerCtx, App!BootUnchanged,
      App!hooks, App!starting, App!workers, App!stopping, App!closing
<1>19. CASE App!startWorkers
  BY <1>1, <1>19 DEF App!TypeOK, App!startWorkers, App!BootUnchanged,
      App!hooks, App!starting, App!workers, App!stopping, App!closing
<1>20. CASE App!StartFailed
  BY <1>1, <1>20 DEF App!TypeOK, App!StartFailed, App!BootUnchanged,
      App!hooks, App!starting, App!workers, App!stopping, App!closing
<1>21. CASE \E w \in Worker : App!WorkerEnds(w)
  BY <1>1, <1>21 DEF App!TypeOK, App!WorkerEnds,
      App!hooks, App!starting, App!workers, App!stopping, App!closing
<1>22. CASE App!ParentCancelled
  BY <1>1, <1>22 DEF App!TypeOK, App!ParentCancelled,
      App!hooks, App!starting, App!workers, App!stopping, App!closing
<1>23. CASE App!ListenerExits
  BY <1>1, <1>23 DEF App!TypeOK, App!ListenerExits,
      App!hooks, App!starting, App!workers, App!stopping, App!closing
<1>24. CASE App!CallWait
  BY <1>1, <1>24 DEF App!TypeOK, App!CallWait,
      App!hooks, App!starting, App!workers, App!stopping, App!closing
<1>25. CASE App!WaitReturns
  BY <1>1, <1>25 DEF App!TypeOK, App!WaitReturns,
      App!hooks, App!starting, App!workers, App!stopping, App!closing
<1>26. CASE App!Shutdown
  BY <1>1, <1>26 DEF App!TypeOK, App!Shutdown, App!ShutdownUnchanged,
      App!hooks, App!starting, App!workers, App!stopping, App!closing
<1>27. CASE App!beginShutdown
  BY <1>1, <1>2, <1>27 DEF App!TypeOK, App!beginShutdown, App!ShutdownUnchanged,
      App!hooks, App!starting, App!workers, App!stopping, App!closing
<1>28. CASE App!Drained
  BY <1>1, <1>28 DEF App!TypeOK, App!Drained, App!ShutdownUnchanged,
      App!hooks, App!starting, App!workers, App!stopping, App!closing
<1>29. CASE App!CancelWorkers
  BY <1>1, <1>29 DEF App!TypeOK, App!CancelWorkers, App!ShutdownUnchanged,
      App!hooks, App!starting, App!workers, App!stopping, App!closing
<1>30. CASE App!waitWorkers
  <2>1. shutdownErr' = shutdownErr \/ shutdownErr' = TRUE
    BY <1>30, Zenon DEF App!waitWorkers
  <2>2. stop' = "close" /\ UNCHANGED <<expired, notReady, App!workers, App!closing>> /\ App!ShutdownUnchanged
    BY <1>30, Zenon DEF App!waitWorkers
  <2>3. shutdownErr' \in BOOLEAN
    BY <2>1, Zenon DEF App!TypeOK
  <2> QED
    BY <1>1, <2>2, <2>3 DEF App!TypeOK, App!ShutdownUnchanged,
      App!hooks, App!starting, App!workers, App!stopping, App!closing
<1>31. CASE App!Expire
  BY <1>1, <1>31 DEF App!TypeOK, App!Expire, App!ShutdownUnchanged,
      App!hooks, App!starting, App!workers, App!stopping, App!closing
<1>32. CASE App!ShutdownReturns
  BY <1>1, <1>32 DEF App!TypeOK, App!ShutdownReturns, App!ShutdownUnchanged,
      App!hooks, App!starting, App!workers, App!stopping, App!closing
<1>33. CASE App!Close
  BY <1>1, <1>33 DEF App!TypeOK, App!Close,
      App!hooks, App!starting, App!workers, App!stopping, App!closing
<1>34. CASE App!closeServices
  BY <1>1, <1>2, <1>34 DEF App!TypeOK, App!closeServices,
      App!hooks, App!starting, App!workers, App!stopping, App!closing
<1>35. CASE App!CloseDone
  BY <1>1, <1>35 DEF App!TypeOK, App!CloseDone,
      App!hooks, App!starting, App!workers, App!stopping, App!closing
<1>36. CASE App!CloseReturns
  BY <1>1, <1>36 DEF App!TypeOK, App!CloseReturns,
      App!hooks, App!starting, App!workers, App!stopping, App!closing
<1>37. CASE App!Ended
  BY <1>1, <1>37 DEF App!TypeOK, App!Ended, App!vars,
      App!hooks, App!starting, App!workers, App!stopping, App!closing
<1>38. CASE UNCHANGED App!vars
  BY <1>1, <1>38 DEF App!TypeOK, App!vars, App!hooks, App!starting, App!workers, App!stopping, App!closing
<1> QED
  BY HostSteps, <1>3, <1>5, <1>6, <1>7, <1>8, <1>9, <1>10, <1>11, <1>12, <1>13, <1>14, <1>15, <1>16, <1>17,
     <1>18, <1>19, <1>20, <1>21, <1>22, <1>23, <1>24, <1>25, <1>26, <1>27, <1>28, <1>29, <1>30, <1>31, <1>32,
     <1>33, <1>34, <1>35, <1>36, <1>37, <1>38, Zenon DEF Quiet

(* The actions of Wait, Shutdown, the workers and the closing goroutine leave *)
(* Start where it is; only closing takes services off startedLive.            *)
LEMMA OthersKeepStart ==
  ASSUME Quiet
  PROVE  \/ UNCHANGED <<configured, initialized, setUp, started, boot, walk, progressed, setups, depth, err>>
            /\ startedLive' \subseteq startedLive
         \/ App!CallStart \/ App!HookFails \/ App!ReadConfig \/ App!ConfigDone \/ App!InitDone
         \/ App!SetupService \/ App!SetupDone \/ App!HandlerFails \/ App!NestedReturn \/ App!HandlersDone
         \/ App!StartService \/ App!MakeWorkerCtx \/ App!startWorkers \/ App!StartFailed
BY Zenon DEF Quiet, App!vars, App!hooks, App!starting, App!WorkerEnds, App!ParentCancelled,
  App!ListenerExits, App!CallWait, App!WaitReturns, App!Shutdown, App!beginShutdown, App!Drained,
  App!CancelWorkers, App!waitWorkers, App!Expire, App!ShutdownReturns, App!Close, App!closeServices,
  App!CloseService, App!CloseDone, App!CloseReturns, App!Ended, App!ShutdownUnchanged

(* The passes and walks of Start keep their invariant. *)
LEMMA BootKept ==
  ASSUME App!HostAssumption, App!TypeOK, App!BootInv, [App!Next]_(App!vars)
  PROVE  App!BootInv'
<1>1. App!Late' = App!Late
  BY Zenon DEF App!Late
<1>2. CASE App!InitService
  <2>1. PICK s \in walk : initialized' = initialized \cup {s} /\ walk' = walk \ {s} /\ App!storeKeys(Provides[s])
    BY <1>2, Zenon DEF App!InitService, App!First
  <2>2. Provides[s] \in Seq(Service)
    BY <2>1, Zenon DEF App!TypeOK, App!HostAssumption
  <2>3. App!Registered \subseteq App!Registered'
    BY <2>1, <2>2, KeysStored, Zenon
  <2>4. /\ boot = "init" /\ boot' = "init" /\ progressed' = TRUE
        /\ UNCHANGED <<configured, setUp, started, startedLive, depth>>
    BY <1>2, Zenon DEF App!InitService
  <2>5. started = {} /\ setUp = {}
    BY <2>4, Zenon DEF App!BootInv
  <2> QED
    BY <2>1, <2>3, <2>4, <2>5, Zenon DEF App!BootInv, App!ReadyBeforeServing
<1>3. CASE App!RunHandler
  <2>1. setups \in Seq(Handler) /\ setups # <<>> /\ App!storeKeys(Provides[Head(setups)])
    BY <1>3, Zenon DEF App!RunHandler, App!Draining, App!TypeOK
  <2>2. Head(setups) \in Handler
    BY <2>1
  <2>3. Provides[Head(setups)] \in Seq(Service) /\ App!Range(Provides[Head(setups)]) \subseteq App!Late
    BY <2>2, Zenon DEF App!HostAssumption, App!Late
  <2>4. App!Registered \subseteq App!Registered' /\ App!Registered' \ App!Late = App!Registered \ App!Late
    BY <2>1, <2>3, KeysStored, Zenon
  <2>5. boot \in {"setup", "handlers"} /\ started = {}
    BY <1>3, <2>1, Zenon DEF App!RunHandler, App!Draining, App!BootInv
  <2>6. UNCHANGED <<configured, initialized, setUp, started, startedLive, boot, walk, progressed>>
    BY <1>3, Zenon DEF App!RunHandler, App!hooks
  <2> QED
    BY <1>1, <2>4, <2>5, <2>6, Zenon DEF App!BootInv, App!ReadyBeforeServing
<1>4. ASSUME Quiet PROVE App!Registered' = App!Registered
  BY <1>4, QuietLog, Zenon DEF App!Registered
<1>5. CASE UNCHANGED <<configured, initialized, setUp, started, boot, walk, progressed, setups, depth, err>>
           /\ startedLive' \subseteq startedLive /\ Quiet
  BY <1>1, <1>4, <1>5, Zenon DEF App!BootInv, App!ReadyBeforeServing
<1>6. CASE App!CallStart
  BY <1>1, <1>4, <1>6, Zenon DEF Quiet, App!CallStart, App!hooks, App!BootInv, App!ReadyBeforeServing
<1>7. CASE App!HookFails
  BY <1>1, <1>4, <1>7 DEF Quiet, App!HookFails, App!hooks, App!BootInv, App!ReadyBeforeServing
<1>8. CASE App!ReadConfig
  BY <1>1, <1>4, <1>8, Zenon DEF Quiet, App!ReadConfig, App!First, App!BootInv, App!ReadyBeforeServing
<1>9. CASE App!ConfigDone
  BY <1>1, <1>4, <1>9, Zenon DEF Quiet, App!ConfigDone, App!hooks, App!BootInv, App!ReadyBeforeServing
<1>10. CASE App!InitDone
  <2>1. boot = "init" /\ walk = {} /\ UNCHANGED <<App!hooks, setups, depth>> /\ App!Registered' = App!Registered
    BY <1>4, <1>10, Zenon DEF Quiet, App!InitDone
  <2>2. CASE progressed
    <3>1. boot' = "config" /\ walk' = App!Registered \ configured
      BY <1>10, <2>2, Zenon DEF App!InitDone
    <3> QED
      BY <1>1, <2>1, <3>1, Zenon DEF App!hooks, App!BootInv, App!ReadyBeforeServing
  <2>3. CASE ~progressed
    <3>1. boot' = "setup" /\ walk' = App!Registered
      BY <1>10, <2>3, Zenon DEF App!InitDone
    <3> QED
      BY <1>1, <2>1, <2>3, <3>1, Zenon DEF App!hooks, App!BootInv, App!ReadyBeforeServing
  <2> QED
    BY <2>2, <2>3, Zenon
<1>11. CASE App!SetupService
  BY <1>1, <1>4, <1>11, Zenon DEF Quiet, App!SetupService, App!First, App!BootInv, App!ReadyBeforeServing
<1>12. CASE App!SetupDone
  BY <1>1, <1>4, <1>12, Zenon DEF Quiet, App!SetupDone, App!hooks, App!BootInv, App!ReadyBeforeServing
<1>13. CASE App!HandlerFails
  <2>1. App!Draining /\ UNCHANGED <<App!hooks, walk, progressed>> /\ App!Registered' = App!Registered
        /\ setups' = Tail(setups)
    BY <1>4, <1>13, Zenon DEF Quiet, App!HandlerFails
  <2>2. boot \in {"setup", "handlers"} /\ started = {} /\ depth \in Nat
    BY <2>1, Zenon DEF App!Draining, App!BootInv, App!TypeOK
  <2>3. \/ depth = 0 /\ boot' = "closing" /\ depth' = depth
        \/ depth > 0 /\ depth' = depth - 1 /\ boot' = boot
    BY <1>13, <2>2 DEF App!HandlerFails
  <2> QED
    BY <1>1, <2>1, <2>2, <2>3 DEF App!hooks, App!BootInv, App!ReadyBeforeServing
<1>14. CASE App!NestedReturn
  BY <1>1, <1>4, <1>14, Zenon DEF Quiet, App!NestedReturn, App!hooks, App!BootInv, App!ReadyBeforeServing
<1>15. CASE App!HandlersDone
  BY <1>1, <1>4, <1>15 DEF Quiet, App!HandlersDone, App!hooks, App!BootInv, App!ReadyBeforeServing
<1>16. CASE App!StartService
  <2>1. depth \in Nat
    BY Zenon DEF App!TypeOK
  <2> QED
    BY <1>1, <1>4, <1>16, <2>1 DEF Quiet, App!StartService, App!First, App!BootInv, App!ReadyBeforeServing
<1>17. CASE App!MakeWorkerCtx
  BY <1>1, <1>4, <1>17, Zenon DEF Quiet, App!MakeWorkerCtx, App!hooks, App!BootInv, App!ReadyBeforeServing
<1>18. CASE App!startWorkers
  BY <1>1, <1>4, <1>18, Zenon DEF Quiet, App!startWorkers, App!hooks, App!BootInv, App!ReadyBeforeServing
<1>19. CASE App!StartFailed
  BY <1>1, <1>4, <1>19, Zenon DEF Quiet, App!StartFailed, App!hooks, App!BootInv, App!ReadyBeforeServing
<1> QED
  BY HostSteps, OthersKeepStart, <1>2, <1>3, <1>5, <1>6, <1>7, <1>8, <1>9, <1>10, <1>11, <1>12, <1>13, <1>14,
    <1>15, <1>16, <1>17, <1>18, <1>19, Zenon

(* A step closes nothing, or is one of those of the closing goroutine. *)
LEMMA OthersKeepClosing ==
  ASSUME [App!Next]_(App!vars)
  PROVE  \/ UNCHANGED <<close, closeQ, closed>>
         \/ App!Close \/ App!closeServices \/ App!CloseService \/ App!CloseDone
<1>1. CASE Quiet
  BY <1>1, Zenon DEF Quiet, App!vars, App!closing, App!BootUnchanged, App!CallStart, App!HookFails, App!ReadConfig,
    App!ConfigDone, App!InitDone, App!SetupService, App!SetupDone, App!HandlerFails, App!NestedReturn,
    App!HandlersDone, App!StartService, App!MakeWorkerCtx, App!startWorkers, App!StartFailed, App!WorkerEnds,
    App!ParentCancelled, App!ListenerExits, App!CallWait, App!WaitReturns, App!Shutdown, App!beginShutdown,
    App!Drained, App!CancelWorkers, App!waitWorkers, App!Expire, App!ShutdownReturns, App!CloseReturns,
    App!Ended
<1>2. CASE App!InitService \/ App!RunHandler
  BY <1>2, Zenon DEF App!InitService, App!RunHandler, App!BootUnchanged, App!closing
<1> QED
  BY HostSteps, <1>1, <1>2, Zenon

(* The order of closing, given the places r of the services. *)
Ahead(r, s, t) == Band[s] < Band[t] \/ (Band[s] = Band[t] /\ r[s] > r[t])

(* Services leave the queue of closeServices in its order. *)
LEMMA CloseKept ==
  ASSUME App!HostAssumption, App!TypeOK, App!CloseInv, [App!Next]_(App!vars)
  PROVE  App!CloseInv'
<1>1. /\ App!Registered \subseteq App!Registered' /\ App!Registered \subseteq Service
      /\ \A s \in App!Registered : reg'[s] = reg[s]
  BY LogGrows, Zenon DEF App!Registered
<1>2. \A s, t \in App!Registered : Ahead(reg', s, t) <=> Ahead(reg, s, t)
  BY <1>1, Zenon DEF Ahead
<1>3. closed \in Seq(Service)
  BY Zenon DEF App!TypeOK
<1>4. App!ClosedInOrder' <=>
        \A i, j \in DOMAIN closed' :
          i < j => closed'[i] # closed'[j] /\ Ahead(reg', closed'[i], closed'[j])
  <2>1. \A i, j \in DOMAIN closed' : closed'[i] \in Service /\ closed'[j] \in Service
    BY HostTypes DEF App!TypeOK
  <2>2. Band \in [Service -> Int] /\ reg' \in [Service -> Nat]
    BY LogGrows, Zenon DEF App!HostAssumption
  <2>3. \A s, t \in Service :
          (Band[s] <= Band[t] /\ (Band[s] = Band[t] => reg'[s] > reg'[t]))
          <=> (Band[s] < Band[t] \/ (Band[s] = Band[t] /\ reg'[s] > reg'[t]))
    BY <2>2
  <2> QED
    BY <2>1, <2>3, Zenon DEF App!ClosedInOrder, Ahead
<1>5. App!ClosedInOrder <=>
        \A i, j \in DOMAIN closed : i < j => closed[i] # closed[j] /\ Ahead(reg, closed[i], closed[j])
  <2>1. \A i, j \in DOMAIN closed : closed[i] \in Service /\ closed[j] \in Service
    BY <1>3
  <2>2. Band \in [Service -> Int]
    BY Zenon DEF App!HostAssumption
  <2>3. \A s, t \in Service :
          (Band[s] <= Band[t] /\ (Band[s] = Band[t] => reg[s] > reg[t]))
          <=> (Band[s] < Band[t] \/ (Band[s] = Band[t] /\ reg[s] > reg[t]))
    BY <2>2
  <2> QED
    BY <2>1, <2>3, Zenon DEF App!ClosedInOrder, Ahead
<1>6. CASE UNCHANGED <<closeQ, closed>> /\ (UNCHANGED close \/ App!Close \/ App!CloseDone)
  <2>1. App!ClosedInOrder'
    <3>1. \A i, j \in DOMAIN closed :
            i < j => /\ closed[i] # closed[j] /\ Ahead(reg, closed[i], closed[j])
                     /\ closed[i] \in App!Registered /\ closed[j] \in App!Registered
      BY <1>5, Zenon DEF App!CloseInv
    <3>2. closed' = closed
      BY <1>6, Zenon
    <3> QED
      BY <1>2, <1>4, <3>1, <3>2, Zenon
  <2>2. closeQ' \subseteq App!Registered' /\ \A i \in DOMAIN closed' : closed'[i] \in App!Registered'
    BY <1>1, <1>6, Zenon DEF App!CloseInv
  <2>3. \A i \in DOMAIN closed' : \A t \in closeQ' : Ahead(reg', closed'[i], t)
    <3>1. \A i \in DOMAIN closed : \A t \in closeQ :
            Ahead(reg, closed[i], t) /\ closed[i] \in App!Registered /\ t \in App!Registered
      BY Zenon DEF App!CloseInv, App!ClosesBefore, Ahead
    <3> QED
      BY <1>2, <1>6, <3>1, Zenon
  <2>4. /\ close' \in {"no", "begin"} => closed' = <<>>
        /\ close' # "walk" => closeQ' = {}
    BY <1>6, Zenon DEF App!CloseInv, App!Close, App!CloseDone
  <2> QED
    BY <2>1, <2>2, <2>3, <2>4, Zenon DEF App!CloseInv, App!ClosesBefore, Ahead
<1>7. CASE App!closeServices
  <2>1. closed = <<>> /\ closed' = <<>> /\ closeQ' = App!Registered /\ close' = "walk"
    BY <1>7, Zenon DEF App!closeServices, App!CloseInv
  <2>2. App!ClosedInOrder'
    BY <2>1 DEF App!ClosedInOrder
  <2> QED
    BY <1>1, <2>1, <2>2 DEF App!CloseInv
<1>8. CASE App!CloseService
  <2>1. PICK s \in closeQ :
          /\ \A t \in closeQ \ {s} : Ahead(reg, s, t)
          /\ closed' = Append(closed, s) /\ closeQ' = closeQ \ {s}
    BY <1>8, Zenon DEF App!CloseService, App!ClosesBefore, Ahead
  <2>2. /\ close = "walk" /\ close' = "walk" /\ closeQ \subseteq App!Registered
        /\ s \in Service /\ \A i \in DOMAIN closed : closed[i] \in App!Registered
    BY <1>1, <1>8, <2>1, Zenon DEF App!CloseService, App!CloseInv
  <2>3. /\ DOMAIN closed' = 1..Len(closed) + 1 /\ DOMAIN closed = 1..Len(closed) /\ Len(closed) \in Nat
        /\ closed'[Len(closed) + 1] = s
        /\ \A i \in DOMAIN closed : closed'[i] = closed[i]
    BY <1>3, <2>1, <2>2
  <2>4. \A t \in closeQ : ~Ahead(reg, t, t)
    BY <1>1, <2>2 DEF Ahead, App!TypeOK, App!HostAssumption
  <2>5. \A i \in DOMAIN closed : \A t \in closeQ : Ahead(reg, closed[i], t) /\ closed[i] # t
    BY <2>4, Zenon DEF App!CloseInv, App!ClosesBefore, Ahead
  <2>6. App!ClosedInOrder'
    <3> SUFFICES ASSUME NEW i \in DOMAIN closed', NEW j \in DOMAIN closed', i < j
                 PROVE  closed'[i] # closed'[j] /\ Ahead(reg', closed'[i], closed'[j])
      BY <1>4, Zenon
    <3>1. i \in DOMAIN closed /\ closed'[i] = closed[i]
      BY <2>3
    <3>2. CASE j \in DOMAIN closed
      <4>1. closed'[j] = closed[j] /\ closed[i] # closed[j] /\ Ahead(reg, closed[i], closed[j])
        BY <1>5, <2>3, <3>1, <3>2, Zenon DEF App!CloseInv
      <4> QED
        BY <1>2, <2>2, <3>1, <3>2, <4>1, Zenon
    <3>3. CASE j = Len(closed) + 1
      <4>1. closed'[j] = s /\ closed[i] # s /\ Ahead(reg, closed[i], s)
        BY <2>1, <2>3, <2>5, <3>1, <3>3, Zenon
      <4> QED
        BY <1>2, <2>1, <2>2, <3>1, <4>1, Zenon
    <3> QED
      BY <2>3, <3>2, <3>3
  <2>7. closeQ' \subseteq App!Registered' /\ \A i \in DOMAIN closed' : closed'[i] \in App!Registered'
    BY <1>1, <2>1, <2>2, <2>3
  <2>8. \A i \in DOMAIN closed' : \A t \in closeQ' : Ahead(reg', closed'[i], t)
    <3> SUFFICES ASSUME NEW i \in DOMAIN closed', NEW t \in closeQ' PROVE Ahead(reg', closed'[i], t)
      BY Zenon
    <3>1. t \in closeQ /\ t # s
      BY <2>1, Zenon
    <3>2. CASE i \in DOMAIN closed
      BY <1>2, <2>2, <2>3, <2>5, <3>1, <3>2, Zenon
    <3>3. CASE i = Len(closed) + 1
      BY <1>2, <2>1, <2>2, <2>3, <3>1, <3>3, Zenon
    <3> QED
      BY <2>3, <3>2, <3>3
  <2> QED
    BY <2>2, <2>6, <2>7, <2>8, Zenon DEF App!CloseInv, App!ClosesBefore, Ahead
<1> QED
  BY OthersKeepClosing, <1>6, <1>7, <1>8, Zenon DEF App!Close, App!CloseDone

(* Where Shutdown waits for Start: how far it is says who may close, and     *)
(* what is off by then.                                                      *)
LEMMA StopKept ==
  ASSUME App!HostAssumption, App!TypeOK, App!BootInv, App!CloseInv, App!StopInv, ~EarlyStop, [App!Next]_(App!vars)
  PROVE  App!StopInv'
<1>1. ASSUME Quiet PROVE App!Registered' = App!Registered
  BY <1>1, QuietLog, Zenon DEF App!Registered
<1>2. SlowClose \in BOOLEAN /\ startedLive \subseteq App!Registered
  BY Zenon DEF App!HostAssumption, App!BootInv
<1>3. CASE App!InitService \/ App!RunHandler
  <2>1. depth \in Nat
    BY Zenon DEF App!TypeOK
  <2>2. boot \notin {"up", "failed"} /\ boot' = boot /\ startedLive' = startedLive /\ App!BootUnchanged
    BY <1>3, <2>1, Zenon DEF App!InitService, App!RunHandler, App!Draining, App!hooks, App!BootInv
  <2> QED
    BY <2>2, Zenon DEF App!StopInv, App!BootUnchanged, App!workers, App!stopping, App!closing
<1>4. CASE App!CallStart \/ App!HookFails \/ App!ReadConfig \/ App!ConfigDone \/ App!InitDone
           \/ App!SetupService \/ App!SetupDone \/ App!HandlerFails \/ App!NestedReturn \/ App!HandlersDone
  <2>1. depth \in Nat
    BY Zenon DEF App!TypeOK
  <2>2. boot \notin {"up", "closing", "failed"} /\ boot' # "up" /\ startedLive' = startedLive /\ App!BootUnchanged
    BY <1>4, <2>1, Zenon DEF App!CallStart, App!HookFails, App!ReadConfig, App!ConfigDone, App!InitDone,
       App!SetupService,
      App!SetupDone, App!HandlerFails, App!Draining, App!NestedReturn, App!HandlersDone, App!hooks, App!BootInv
  <2>3. stop = "idle" /\ close = "no"
    BY <2>2, Zenon DEF App!StopInv
  <2> QED
    BY <2>2, <2>3, Zenon DEF App!StopInv, App!BootUnchanged, App!workers, App!stopping, App!closing
<1>5. CASE App!StartService
  <2>1. boot = "start" /\ boot' = "start" /\ App!BootUnchanged
    BY <1>5, Zenon DEF App!StartService
  <2>2. stop = "idle" /\ close = "no"
    BY <2>1, Zenon DEF App!StopInv
  <2> QED
    BY <2>1, <2>2, Zenon DEF App!StopInv, App!BootUnchanged, App!workers, App!stopping, App!closing
<1>6. CASE App!MakeWorkerCtx
  BY <1>6, Zenon DEF App!MakeWorkerCtx, App!StopInv, App!hooks, App!stopping, App!closing
<1>7. CASE App!startWorkers
  BY <1>7, Zenon DEF App!startWorkers, App!StopInv, App!hooks, App!stopping, App!closing
<1>8. CASE App!StartFailed
  BY <1>8, Zenon DEF App!StartFailed, App!StopInv, App!BootUnchanged, App!hooks, App!workers, App!stopping, App!closing
<1>9. CASE \E w \in Worker : App!WorkerEnds(w)
  BY <1>1, <1>2, <1>9 DEF Quiet, App!WorkerEnds, App!StopInv, App!hooks,
    App!starting, App!workers, App!stopping, App!closing
<1>10. CASE App!ParentCancelled
  BY <1>1, <1>2, <1>10, Zenon DEF Quiet, App!ParentCancelled, App!StopInv, App!hooks,
    App!starting, App!workers, App!stopping, App!closing
<1>11. CASE App!ListenerExits
  BY <1>1, <1>2, <1>11, Zenon DEF Quiet, App!ListenerExits, App!StopInv, App!hooks,
    App!starting, App!workers, App!stopping, App!closing
<1>12. CASE App!CallWait
  BY <1>1, <1>2, <1>12, Zenon DEF Quiet, App!CallWait, App!StopInv, App!hooks,
    App!starting, App!workers, App!stopping, App!closing
<1>13. CASE App!WaitReturns
  BY <1>1, <1>2, <1>13, Zenon DEF Quiet, App!WaitReturns, App!StopInv, App!hooks,
    App!starting, App!workers, App!stopping, App!closing
<1>14. CASE App!Shutdown
  BY <1>1, <1>2, <1>14, Zenon DEF Quiet, App!Shutdown, App!StopInv, App!ShutdownUnchanged, App!hooks,
    App!starting, App!workers, App!stopping, App!closing
<1>15. CASE App!beginShutdown
  BY <1>1, <1>2, <1>15, Zenon DEF Quiet, App!beginShutdown, App!StopInv, App!ShutdownUnchanged, App!hooks,
    App!starting, App!workers, App!stopping, App!closing
<1>16. CASE App!Drained
  BY <1>1, <1>2, <1>16, Zenon DEF Quiet, App!Drained, App!StopInv, App!ShutdownUnchanged, App!hooks,
    App!starting, App!workers, App!stopping, App!closing
<1>17. CASE App!CancelWorkers
  BY <1>1, <1>2, <1>17, Zenon DEF Quiet, App!CancelWorkers, App!StopInv, App!ShutdownUnchanged, App!hooks,
    App!starting, App!workers, App!stopping, App!closing
<1>18. CASE App!waitWorkers
  BY <1>1, <1>2, <1>18, Zenon DEF Quiet, App!waitWorkers, App!StopInv, App!ShutdownUnchanged, App!hooks,
    App!starting, App!workers, App!stopping, App!closing
<1>19. CASE App!Expire
  BY <1>1, <1>2, <1>19, Zenon DEF Quiet, App!Expire, App!StopInv, App!ShutdownUnchanged, App!hooks,
    App!starting, App!workers, App!stopping, App!closing
<1>20. CASE App!ShutdownReturns
  BY <1>1, <1>2, <1>20, Zenon DEF Quiet, App!ShutdownReturns, App!StopInv, App!ShutdownUnchanged, App!hooks,
    App!starting, App!workers, App!stopping, App!closing
<1>21. CASE App!Close
  BY <1>1, <1>2, <1>21, Zenon DEF Quiet, App!Close, App!StopInv, App!hooks,
    App!starting, App!workers, App!stopping, App!closing
<1>22. CASE App!closeServices
  BY <1>1, <1>2, <1>22, Zenon DEF Quiet, App!closeServices, App!StopInv, App!hooks,
    App!starting, App!workers, App!stopping, App!closing, App!CloseInv
<1>23. CASE App!CloseService
  BY <1>1, <1>2, <1>23, Zenon DEF Quiet, App!CloseService, App!StopInv, App!hooks,
    App!starting, App!workers, App!stopping, App!closing
<1>24. CASE App!CloseDone
  BY <1>1, <1>2, <1>24, Zenon DEF Quiet, App!CloseDone, App!StopInv, App!hooks,
    App!starting, App!workers, App!stopping, App!closing, App!CloseInv
<1>25. CASE App!CloseReturns
  BY <1>1, <1>2, <1>25, Zenon DEF Quiet, App!CloseReturns, App!StopInv, App!hooks,
    App!starting, App!workers, App!stopping, App!closing
<1>26. CASE App!Ended \/ UNCHANGED App!vars
  <2>1. UNCHANGED App!vars /\ Quiet
    BY <1>26, Zenon DEF App!Ended, Quiet
  <2> QED
    BY <1>1, <2>1, Zenon DEF App!vars, App!StopInv, App!hooks, App!starting, App!workers, App!stopping, App!closing
<1> QED
  BY HostSteps, <1>3, <1>4, <1>5, <1>6, <1>7, <1>8, <1>9, <1>10, <1>11, <1>12, <1>13, <1>14, <1>15, <1>16,
     <1>17,
    <1>18, <1>19, <1>20, <1>21, <1>22, <1>23, <1>24, <1>25, <1>26, Zenon DEF Quiet

(* The App as it is built satisfies the invariant. *)
LEMMA HostStarts == ASSUME App!HostAssumption, App!Init PROVE App!HostInv
<1>1. \A s \in App!Range(BuiltIn) : (CHOOSE i \in DOMAIN BuiltIn : BuiltIn[i] = s) \in 1..Len(BuiltIn)
  <2> SUFFICES ASSUME NEW s \in App!Range(BuiltIn)
               PROVE  (CHOOSE i \in DOMAIN BuiltIn : BuiltIn[i] = s) \in 1..Len(BuiltIn)
    BY Zenon
  <2>1. (\E i \in DOMAIN BuiltIn : BuiltIn[i] = s) /\ DOMAIN BuiltIn = 1..Len(BuiltIn)
    BY DEF App!Range, App!HostAssumption
  <2> QED
    BY <2>1, Zenon
<1>2. reg \in [Service -> Nat] /\ logged \in Nat
  <2>1. PICK zero \in [Service -> Nat] : zero = [s \in Service |-> 0]
    BY Zenon
  <2>2. reg = App!Stored(zero, 0, BuiltIn) /\ logged = Len(BuiltIn)
    BY <2>1, Zenon DEF App!Init
  <2>3. Len(BuiltIn) \in Nat
    BY DEF App!HostAssumption
  <2>4. reg = [s \in Service |-> reg[s]]
    BY <2>2 DEF App!Stored
  <2>5. \A s \in Service : reg[s] \in Nat
    BY <1>1, <2>1, <2>2, <2>3 DEF App!Stored
  <2> QED
    BY <2>2, <2>3, <2>4, <2>5, Zenon
<1>3. err \in BOOLEAN /\ setups \in Seq(Handler) /\ closed \in Seq(Service)
  BY DEF App!Init, App!HostAssumption
<1>4. App!TypeOK
  BY <1>2, <1>3, Zenon DEF App!Init, App!TypeOK
<1>5. App!BootInv
  BY DEF App!Init, App!BootInv, App!ReadyBeforeServing
<1>6. App!CloseInv
  BY DEF App!Init, App!CloseInv, App!ClosedInOrder
<1>7. App!StopInv
  BY Zenon DEF App!Init, App!StopInv
<1> QED
  BY <1>4, <1>5, <1>6, <1>7, Zenon DEF App!HostInv

LEMMA HostKept == ASSUME App!HostAssumption, App!HostInv, [App!Next]_(App!vars) PROVE App!HostInv'
<1>1. App!TypeOK' /\ App!BootInv' /\ App!CloseInv'
  BY HostTypes, BootKept, CloseKept, Zenon DEF App!HostInv
<1>2. ~EarlyStop => App!StopInv'
  BY StopKept, Zenon DEF App!HostInv
<1> QED
  BY <1>1, <1>2, Zenon DEF App!HostInv

LEMMA HostSafe == ASSUME App!HostInv PROVE App!BootsInOrder /\ App!StopsForGood
<1>1. ASSUME ~EarlyStop PROVE App!DrainedBeforeClosing
  BY <1>1, Zenon DEF App!HostInv, App!TypeOK, App!CloseInv, App!StopInv, App!DrainedBeforeClosing
<1>2. ASSUME ~EarlyStop, ~SlowClose PROVE App!StoppedMeansStopped
  BY <1>2, Zenon DEF App!HostInv, App!CloseInv, App!StopInv, App!StoppedMeansStopped
<1>3. App!BootsInOrder /\ App!ClosedInOrder
  BY Zenon DEF App!HostInv, App!BootInv, App!CloseInv, App!BootsInOrder
<1> QED
  BY <1>1, <1>2, <1>3, Zenon DEF App!StopsForGood

(* service.go:217-264, runtime.go:26-62: no hook of any service runs before   *)
(* the hooks it builds on, however deep services register services from       *)
(* their Init and whatever setup handlers enqueue.                            *)
THEOREM HostBootsInOrder ==
  ASSUME App!HostAssumption
  PROVE  App!Spec => []BootsInOrder
<1>1. App!Init => App!HostInv
  BY HostStarts, Zenon
<1>2. App!HostInv /\ [App!Next]_(App!vars) => App!HostInv'
  BY HostKept, Zenon
<1>3. App!HostInv => BootsInOrder
  BY HostSafe, Zenon DEF BootsInOrder
<1> QED
  BY <1>1, <1>2, <1>3, PTL DEF App!Spec

(* runtime.go:91-136, service.go:424-468: services close in the order of      *)
(* their bands, last registered first, none twice; none is closed under a     *)
(* running worker or a ready edge unless the deadline cut the wait short, and *)
(* a Shutdown that returns nil has stopped everything, under the conditions   *)
(* StopsForGood states.                                                       *)
THEOREM HostStopsForGood ==
  ASSUME App!HostAssumption
  PROVE  App!Spec => []StopsForGood
<1>1. App!Init => App!HostInv
  BY HostStarts, Zenon
<1>2. App!HostInv /\ [App!Next]_(App!vars) => App!HostInv'
  BY HostKept, Zenon
<1>3. App!HostInv => StopsForGood
  BY HostSafe, Zenon DEF StopsForGood
<1> QED
  BY <1>1, <1>2, <1>3, PTL DEF App!Spec

(* service.go:48-62: a key that was stored again keeps its first place, so    *)
(* no step of the App ever moves a registered service in the order of the     *)
(* walks and of closing.                                                      *)
THEOREM PlacesKept ==
  ASSUME App!HostAssumption
  PROVE  App!Spec => [][\A s \in App!Registered : reg'[s] = reg[s]]_(App!vars)
<1>1. App!Init => App!HostInv
  BY HostStarts, Zenon
<1>2. App!HostInv /\ [App!Next]_(App!vars) => App!HostInv'
  BY HostKept, Zenon
<1>3. App!HostInv /\ [App!Next]_(App!vars) => [\A s \in App!Registered : reg'[s] = reg[s]]_(App!vars)
  BY LogGrows, Zenon DEF App!HostInv
<1> QED
  BY <1>1, <1>2, <1>3, PTL DEF App!Spec

-----------------------------------------------------------------------------
(* How an App is built, for any modules that import any others. *)

CONSTANTS Mod, Slot, Name, Program, Faulty, Provide, Bind, None

VARIABLES app, stack, installed, ran, mErr, container, keys, bindings, phase, subs

Mods == INSTANCE Modules WITH err <- mErr

LEMMA RunStep == Mods!RunInv /\ [Mods!Next]_(Mods!vars) => Mods!RunInv'
<1> SUFFICES ASSUME Mods!RunInv, [Mods!Next]_(Mods!vars) PROVE Mods!RunInv'
  BY Zenon
<1>1. CASE Mods!WithModule
  <2> DEFINE m == Mods!Step
  <2>1. m \in Mod /\ ran' = Append(ran, m) /\ ~Mods!Seen(m) /\ installed \subseteq installed'
        /\ (~Mods!Anonymous(m) => Mods!moduleKey(m) \in installed')
    BY <1>1, Zenon DEF Mods!WithModule
  <2> HIDE DEF m
  <2>2. /\ ran' \in Seq(Mod) /\ DOMAIN ran' = DOMAIN ran \union {Len(ran) + 1}
        /\ \A i \in DOMAIN ran : ran'[i] = ran[i] /\ i # Len(ran) + 1
        /\ ran'[Len(ran) + 1] = m
    BY <2>1, SMTT(30) DEF Mods!RunInv
  <2>3. \A i \in DOMAIN ran' : ~Mods!Anonymous(ran'[i]) => Mods!moduleKey(ran'[i]) \in installed'
    BY <2>1, <2>2, Zenon DEF Mods!RunInv
  <2>4. Mods!OncePerKey'
    <3> SUFFICES ASSUME NEW i \in DOMAIN ran', NEW j \in DOMAIN ran',
                        ~Mods!Anonymous(ran'[i]), ~Mods!Anonymous(ran'[j]), Mods!moduleKey(ran'[i]) = Mods!moduleKey(ran'[j])
                 PROVE  i = j
      BY Zenon DEF Mods!OncePerKey, Mods!Anonymous, Mods!moduleKey
    <3>1. CASE i \in DOMAIN ran /\ j \in DOMAIN ran
      BY <3>1, <2>2, Zenon DEF Mods!RunInv, Mods!OncePerKey
    <3>2. CASE i \in DOMAIN ran /\ j = Len(ran) + 1
      BY <3>2, <2>1, <2>2, Zenon DEF Mods!RunInv, Mods!Seen
    <3>3. CASE i = Len(ran) + 1 /\ j \in DOMAIN ran
      BY <3>3, <2>1, <2>2, Zenon DEF Mods!RunInv, Mods!Seen
    <3> QED BY <3>1, <3>2, <3>3, <2>2, Zenon
  <2> QED BY <2>2, <2>3, <2>4, Zenon DEF Mods!RunInv, Mods!Anonymous, Mods!moduleKey
<1>2. CASE UNCHANGED <<ran, installed>>
  BY <1>2, Zenon DEF Mods!RunInv, Mods!OncePerKey, Mods!Anonymous, Mods!moduleKey
<1> QED
  BY <1>1, <1>2, Zenon DEF Mods!Next, Mods!Build, Mods!WithModuleSkips, Mods!ProvideService, Mods!Subscribe,
     Mods!RegisterReturns,
     Mods!RegisterFails, Mods!StartConsumer, Mods!SubscribeNext, Mods!SubscribeFails, Mods!Started, Mods!Stop,
     Mods!CloseConsumer,
     Mods!vars, Mods!building

(* module.go:72-90: whatever the modules import, in whatever order and with  *)
(* whatever failures, no key has its Register called twice.                  *)
THEOREM KeysRunOnce == Mods!Spec => []Mods!OncePerKey
<1>1. Mods!Init => Mods!RunInv
  BY DEF Mods!Init, Mods!RunInv, Mods!OncePerKey
<1> QED BY <1>1, RunStep, PTL DEF Mods!Spec, Mods!RunInv

(* KeepsServices: the module that provides under a key is the one that did   *)
(* before, since there is only one.                                          *)
LEMMA ContainerStep ==
  ASSUME \A p \in Program : Mods!WellFormed(p), Mods!ContainerInv, [Mods!Next]_(Mods!vars)
  PROVE  Mods!ContainerInv' /\ (UNCHANGED Mods!vars \/ Mods!KeepsServices)
<1> USE DEF Mods!ContainerInv
<1>0. Mods!RunInv' /\ app' \in Program
  BY RunStep, Zenon DEF Mods!Next, Mods!Build, Mods!WithModuleSkips, Mods!WithModule, Mods!ProvideService,
     Mods!Subscribe, Mods!RegisterReturns,
     Mods!RegisterFails, Mods!StartConsumer, Mods!SubscribeNext, Mods!SubscribeFails, Mods!Started, Mods!Stop,
     Mods!CloseConsumer,
     Mods!vars, Mods!building
<1>w. Mods!WellFormed(app)
  BY Zenon
<1>t. ASSUME Mods!MayStep
      PROVE  /\ Mods!Stepped \in Seq(Mods!Frame) /\ DOMAIN Mods!Stepped = DOMAIN stack /\ Len(Mods!Stepped) = Len(stack)
             /\ \A i \in DOMAIN stack :
                  /\ Mods!Stepped[i].mod = stack[i].mod
                  /\ (\E j \in DOMAIN Mods!Stepped[i].steps : Mods!Stepped[i].steps[j] = Provide)
                     => \E j \in DOMAIN stack[i].steps : stack[i].steps[j] = Provide
  <2> DEFINE f == [mod |-> Mods!Top.mod, steps |-> Tail(Mods!Top.steps)]
  <2>1. stack \in Seq(Mods!Frame) /\ Len(stack) \in DOMAIN stack /\ Mods!Top \in Mods!Frame /\ Mods!Top.steps # <<>>
    BY <1>t DEF Mods!FramesEntitled, Mods!MayStep, Mods!Top
  <2>2. f \in Mods!Frame /\ \A j \in DOMAIN f.steps : j + 1 \in DOMAIN Mods!Top.steps /\ f.steps[j] = Mods!Top.steps[j + 1]
    BY <2>1, SMTT(30) DEF Mods!Frame
  <2> HIDE DEF f
  <2>3. Mods!Stepped = [stack EXCEPT ![Len(stack)] = f]
    BY Zenon DEF Mods!Stepped, f
  <2>4. Mods!Stepped \in Seq(Mods!Frame) /\ DOMAIN Mods!Stepped = DOMAIN stack /\ Len(Mods!Stepped) = Len(stack)
    BY <2>1, <2>2, <2>3
  <2>5. \A i \in DOMAIN stack : Mods!Stepped[i] = IF i = Len(stack) THEN f ELSE stack[i]
    BY <2>1, <2>3, Zenon
  <2>6. f.mod = Mods!Top.mod /\ Mods!Top = stack[Len(stack)]
    BY Zenon DEF f, Mods!Top
  <2> QED BY <2>2, <2>4, <2>5, <2>6
<1>s. ASSUME Mods!MayStep, stack' = Mods!Stepped, ran' = ran
      PROVE  Mods!FramesEntitled'
  BY <1>s, <1>t, Zenon DEF Mods!FramesEntitled, Mods!Anonymous
<1>1. CASE Mods!WithModuleSkips
  BY <1>1, <1>0, <1>s, Zenon DEF Mods!WithModuleSkips, Mods!ServicesOwned, Mods!KeepsServices, Mods!Anonymous,
     Mods!moduleKey
<1>2. CASE Mods!WithModule
  <2>1. /\ Mods!Step \in Mod /\ ran' = Append(ran, Mods!Step) /\ Mods!MayStep /\ container' = container
        /\ stack' = Append(Mods!Stepped, [mod |-> Mods!Step, steps |-> app.steps[Mods!Step]])
    BY <1>2, Zenon DEF Mods!WithModule
  <2>2. \A i \in DOMAIN ran : i \in DOMAIN ran' /\ ran'[i] = ran[i]
    BY <2>1 DEF Mods!RunInv
  <2>3. \E j \in DOMAIN ran' : ran'[j] = Mods!Step
    BY <2>1 DEF Mods!RunInv
  <2>4. Mods!ServicesOwned'
    BY <2>1, <2>2 DEF Mods!ServicesOwned, Mods!Anonymous, Mods!moduleKey
  <2>5. Mods!FramesEntitled'
    <3>1. Mods!Stepped \in Seq(Mods!Frame)
      BY <2>1, <1>t, Zenon
    <3>2. [mod |-> Mods!Step, steps |-> app.steps[Mods!Step]] \in Mods!Frame
      BY <2>1, <1>w, Zenon DEF Mods!Frame, Mods!WellFormed
    <3>3. ASSUME NEW i \in DOMAIN Mods!Stepped, \E j \in DOMAIN Mods!Stepped[i].steps : Mods!Stepped[i].steps[j] = Provide
          PROVE  Mods!Stepped[i].mod \in Mod /\ ~Mods!Anonymous(Mods!Stepped[i].mod) /\ \E j \in DOMAIN ran : ran[j] = Mods!Stepped[i].mod
      BY <2>1, <3>3, <1>t, Zenon DEF Mods!FramesEntitled
    <3>4. (\E j \in DOMAIN app.steps[Mods!Step] : app.steps[Mods!Step][j] = Provide) => ~Mods!Anonymous(Mods!Step)
      BY <2>1, <1>w, Zenon DEF Mods!WellFormed
    <3> QED BY <2>1, <2>2, <2>3, <3>1, <3>2, <3>3, <3>4 DEF Mods!FramesEntitled, Mods!Anonymous
  <2> QED BY <1>0, <2>1, <2>4, <2>5, Zenon DEF Mods!KeepsServices
<1>3. CASE Mods!ProvideService
  <2> DEFINE m == Mods!Top.mod
             key == Mods!moduleKey(m)
  <2>1. /\ Mods!MayStep /\ Mods!Step = Provide /\ ran' = ran /\ stack' = Mods!Stepped
        /\ container' = [k \in DOMAIN container \union {key} |-> IF k = key THEN m ELSE container[k]]
    BY <1>3, Zenon DEF Mods!ProvideService, Mods!storeKey
  <2>2. m \in Mod /\ ~Mods!Anonymous(m) /\ \E j \in DOMAIN ran : ran[j] = m
    <3>1. Len(stack) \in DOMAIN stack /\ Mods!Top \in Mods!Frame /\ Mods!Top = stack[Len(stack)]
      BY <2>1 DEF Mods!FramesEntitled, Mods!MayStep, Mods!Top
    <3>2. 1 \in DOMAIN Mods!Top.steps /\ Mods!Top.steps[1] = Provide
      BY <2>1, <3>1 DEF Mods!MayStep, Mods!Step, Mods!Frame
    <3> QED BY <3>1, <3>2, Zenon DEF Mods!FramesEntitled
  <2> HIDE DEF m
  <2>3. key # Mods!Consumer
    BY <2>2, <1>w, Zenon DEF Mods!WellFormed, Mods!moduleKey, Mods!Consumer
  <2>4. key \in DOMAIN container => container[key] = m
    BY <2>2, <2>3 DEF Mods!ServicesOwned, Mods!RunInv, Mods!OncePerKey
  <2>5. Mods!KeepsServices
    BY <2>1, <2>4, Zenon DEF Mods!KeepsServices
  <2>6. Mods!ServicesOwned'
    BY <2>1, <2>2 DEF Mods!ServicesOwned, Mods!Anonymous, Mods!moduleKey
  <2> QED BY <1>0, <1>s, <2>1, <2>5, <2>6, Zenon
<1>4. CASE Mods!Subscribe
  <2>1. Mods!MayStep /\ Mods!Step = Bind /\ ran' = ran /\ stack' = Mods!Stepped
    BY <1>4, Zenon DEF Mods!Subscribe
  <2>2. \/ container' = container
        \/ /\ Mods!Consumer \notin DOMAIN container
           /\ container' = [k \in DOMAIN container \union {Mods!Consumer} |-> IF k = Mods!Consumer THEN Mods!Top.mod ELSE container[k]]
    BY <1>4, Zenon DEF Mods!Subscribe, Mods!storeKey
  <2>3. Mods!KeepsServices
    BY <2>2, Zenon DEF Mods!KeepsServices
  <2>4. \A k \in DOMAIN container' : k # Mods!Consumer => k \in DOMAIN container /\ container'[k] = container[k]
    BY <2>2, Zenon
  <2>5. Mods!ServicesOwned'
    <3> SUFFICES ASSUME NEW k \in DOMAIN container', k # Mods!Consumer
                 PROVE  \E i \in DOMAIN ran : container'[k] = ran[i] /\ ~Mods!Anonymous(ran[i]) /\ k = Mods!moduleKey(ran[i])
      BY <2>1, Zenon DEF Mods!ServicesOwned, Mods!Anonymous, Mods!moduleKey, Mods!Consumer
    <3> QED BY <2>4, Zenon DEF Mods!ServicesOwned
  <2> QED BY <1>0, <1>s, <2>1, <2>3, <2>5, Zenon
<1>5. CASE Mods!RegisterReturns \/ Mods!RegisterFails
  <2>1. stack # <<>> /\ stack' = Mods!Popped /\ ran' = ran /\ container' = container
    BY <1>5, Zenon DEF Mods!RegisterReturns, Mods!RegisterFails
  <2>2. Mods!Popped \in Seq(Mods!Frame) /\ \A i \in DOMAIN Mods!Popped : i \in DOMAIN stack /\ Mods!Popped[i] = stack[i]
    <3>1. stack \in Seq(Mods!Frame) /\ Len(stack) \in Nat \ {0}
      BY <2>1 DEF Mods!FramesEntitled
    <3> QED BY <3>1 DEF Mods!Popped
  <2>3. Mods!FramesEntitled'
    BY <2>1, <2>2 DEF Mods!FramesEntitled, Mods!Anonymous
  <2> QED BY <1>0, <2>1, <2>3, Zenon DEF Mods!ServicesOwned, Mods!KeepsServices, Mods!Anonymous, Mods!moduleKey
<1>6. CASE UNCHANGED Mods!building
  BY <1>6, <1>0, Zenon DEF Mods!building, Mods!FramesEntitled, Mods!ServicesOwned, Mods!KeepsServices, Mods!Anonymous,
     Mods!moduleKey
<1> QED
  BY <1>1, <1>2, <1>3, <1>4, <1>5, <1>6, Zenon DEF Mods!Next, Mods!Build, Mods!StartConsumer, Mods!SubscribeNext,
     Mods!SubscribeFails,
     Mods!Started, Mods!Stop, Mods!CloseConsumer, Mods!vars

(* module.go:41-48, service.go:106-111: in an App of well-formed modules no  *)
(* service is ever replaced by another.                                      *)
THEOREM ServicesStay ==
  ASSUME \A p \in Program : Mods!WellFormed(p)
  PROVE  Mods!Spec => Mods!NeverClobbers
<1>1. Mods!Init => Mods!ContainerInv
  <2> SUFFICES ASSUME Mods!Init PROVE Mods!ContainerInv
    BY Zenon
  <2>1. Mods!WellFormed(app)
    BY Zenon DEF Mods!Init
  <2>2. Mods!FramesEntitled
    BY <2>1 DEF Mods!Init, Mods!FramesEntitled, Mods!Frame, Mods!WellFormed
  <2> QED BY <2>2 DEF Mods!Init, Mods!ContainerInv, Mods!RunInv, Mods!OncePerKey, Mods!ServicesOwned
<1>2. Mods!ContainerInv /\ [Mods!Next]_(Mods!vars) => Mods!ContainerInv' /\ [Mods!KeepsServices]_(Mods!vars)
  BY ContainerStep, Zenon
<1> QED BY <1>1, <1>2, PTL DEF Mods!Spec, Mods!NeverClobbers
=============================================================================
