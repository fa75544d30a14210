------------------------------ MODULE Modules -------------------------------
(***************************************************************************)
(* host/module.go: how an App is built out of modules that import others,  *)
(* with the constructors of the satellite packages, and messaging/         *)
(* subscriber.go, whose anonymous modules share one consumer.  The stack   *)
(* is Go's: the Register hooks that have not returned, below them the      *)
(* chain of WithModules calls.                                             *)
(***************************************************************************)
EXTENDS Naturals, Sequences, TLC

CONSTANTS
  Mod,     \* module values
  Slot,    \* Slot[m]: the slot m fills, or None for a ModuleFunc
  Name,    \* Name[m]: the instance name it was made with
  Program, \* the Apps: [roots, steps], roots the modules passed to WithModules, and
           \* steps[m] what m's Register does: Provide, Bind, or import a module
  Faulty,  \* the modules whose Register may return an error
  Provide, Bind, None

VARIABLES
  app,       \* the App that is built
  stack,     \* frames [mod, steps], the steps still to be taken
  installed, \* a.modules: the keys seen
  ran,       \* the modules whose Register was called, in order
  err,       \* a.err: the module whose error was recorded first
  container, \* the service stored under a key: the module that made it
  keys,      \* a.keys: the keys of the container in order of registration
  bindings,  \* consumerService.bindings, by the module that made each
  phase,     \* of the App, as the consumer sees it
  subs       \* consumerService.subs

building == <<app, stack, installed, ran, err, container, keys, bindings>>
vars == <<building, phase, subs>>

\* The default database has two spellings.
canonicalName(name) == IF name = "default" THEN "" ELSE name

Anonymous(m) == Slot[m] = None
moduleKey(m) == <<Slot[m], canonicalName(Name[m])>>

Consumer == <<"messaging.consumerService", "">>
Client == <<"messaging.Client", "">>

Init ==
  /\ app \in Program
  /\ stack = <<[mod |-> None, steps |-> app.roots]>>
  /\ installed = {} /\ ran = <<>> /\ err = None
  /\ container = <<>> /\ keys = <<>> /\ bindings = <<>>
  /\ phase = "build" /\ subs = <<>>

Top == stack[Len(stack)]
Step == Head(Top.steps)
Stepped == [stack EXCEPT ![Len(stack)] = [mod |-> Top.mod, steps |-> Tail(Top.steps)]]
MayStep == stack # <<>> /\ Top.steps # <<>>
Seen(m) == ~Anonymous(m) /\ moduleKey(m) \in installed

\* WithModule does nothing after an error, nor for a key that was seen.
WithModuleSkips ==
  /\ MayStep /\ Step \in Mod
  /\ err # None \/ Seen(Step)
  /\ stack' = Stepped
  /\ UNCHANGED <<app, installed, ran, err, container, keys, bindings, phase, subs>>

\* A fault of WithModule: the key is stored when Register has returned.
WithModuleLate ==
  /\ MayStep /\ Step \in Mod
  /\ err = None /\ ~Seen(Step)
  /\ installed' = installed
  /\ ran' = Append(ran, Step)
  /\ stack' = Append(Stepped, [mod |-> Step, steps |-> app.steps[Step]])
  /\ UNCHANGED <<app, err, container, keys, bindings, phase, subs>>

\* WithModule stores the key, if there is one, and calls Register.
WithModule ==
  /\ MayStep /\ Step \in Mod
  /\ err = None /\ ~Seen(Step)
  /\ installed' = IF Anonymous(Step) THEN installed ELSE installed \union {moduleKey(Step)}
  /\ ran' = Append(ran, Step)
  /\ stack' = Append(Stepped, [mod |-> Step, steps |-> app.steps[Step]])
  /\ UNCHANGED <<app, err, container, keys, bindings, phase, subs>>

\* A key that is stored again keeps its position.
storeKey(key, m) ==
  /\ container' = [k \in DOMAIN container \union {key} |-> IF k = key THEN m ELSE container[k]]
  /\ keys' = IF key \in DOMAIN container THEN keys ELSE Append(keys, key)

\* ProvideService, which does not look at a.err.
ProvideService ==
  /\ MayStep /\ Step = Provide
  /\ storeKey(moduleKey(Top.mod), Top.mod)
  /\ stack' = Stepped
  /\ UNCHANGED <<app, installed, ran, err, bindings, phase, subs>>

\* The Register of Subscribe: find or provide the consumer, add a binding.
Subscribe ==
  /\ MayStep /\ Step = Bind
  /\ IF Consumer \in DOMAIN container
     THEN UNCHANGED <<container, keys>>
     ELSE storeKey(Consumer, Top.mod)
  /\ bindings' = Append(bindings, Top.mod)
  /\ stack' = Stepped
  /\ UNCHANGED <<app, installed, ran, err, phase, subs>>

Popped == SubSeq(stack, 1, Len(stack) - 1)

RegisterReturns ==
  /\ stack # <<>> /\ Top.steps = <<>>
  /\ stack' = Popped
  /\ UNCHANGED <<app, installed, ran, err, container, keys, bindings, phase, subs>>

\* fail records the first error only; the callers' Registers go on.
RegisterFails ==
  /\ stack # <<>> /\ Top.mod \in Faulty
  /\ stack' = Popped
  /\ err' = IF err = None THEN Top.mod ELSE err
  /\ UNCHANGED <<app, installed, ran, container, keys, bindings, phase, subs>>

\* The start phase reaches the consumer, which needs a client.
StartConsumer ==
  /\ phase = "build" /\ stack = <<>>
  /\ phase' = IF err # None THEN "close"
              ELSE IF Consumer \notin DOMAIN container THEN "up"
              ELSE IF Client \in DOMAIN container THEN "start" ELSE "close"
  /\ UNCHANGED <<building, subs>>

SubscribeNext ==
  /\ phase = "start" /\ Len(subs) < Len(bindings)
  /\ subs' = Append(subs, bindings[Len(subs) + 1])
  /\ UNCHANGED <<building, phase>>

SubscribeFails ==
  /\ phase = "start" /\ Len(subs) < Len(bindings)
  /\ phase' = "close"
  /\ UNCHANGED <<building, subs>>

Started ==
  /\ phase = "start" /\ Len(subs) = Len(bindings)
  /\ phase' = "up"
  /\ UNCHANGED <<building, subs>>

Stop == phase = "up" /\ phase' = "close" /\ UNCHANGED <<building, subs>>

\* An Unsubscribe that fails is logged: the client's own Close ends it.
CloseConsumer ==
  /\ phase = "close"
  /\ phase' = "closed" /\ subs' = <<>>
  /\ UNCHANGED building

Build ==
  WithModuleSkips \/ WithModule \/ ProvideService \/ Subscribe \/ RegisterReturns \/ RegisterFails

Next ==
  \/ Build
  \/ StartConsumer \/ SubscribeNext \/ SubscribeFails \/ Started \/ Stop \/ CloseConsumer
  \/ phase = "closed" /\ UNCHANGED vars

Spec == Init /\ [][Next]_vars

\* Register hooks run on the goroutine that builds the App.
Fairness == WF_vars(Build)

-----------------------------------------------------------------------------
\* What the constructors see to: a Register that provides fills a slot, the
\* consumer's is no module's, and Apps install modules only.
WellFormed(p) ==
  /\ p.roots \in Seq(Mod)
  /\ p.steps \in [Mod -> Seq(Mod \union {Provide, Bind})]
  /\ \A m \in Mod :
       /\ Slot[m] # "messaging.consumerService"
       /\ Anonymous(m) => \A i \in DOMAIN p.steps[m] : p.steps[m][i] # Provide
  /\ Provide \notin Mod /\ None \notin Mod

(* Every service has one position in the order of registration. *)
TypeOK ==
  /\ WellFormed(app)
  /\ DOMAIN container = {keys[i] : i \in DOMAIN keys}
  /\ \A i, j \in DOMAIN keys : keys[i] = keys[j] => i = j
  /\ phase \in {"build", "start", "up", "close", "closed"}

(* module.go:41-46 "installing two modules with the same key runs Register   *)
(* only once": also for one that imports itself through others.              *)
OncePerKey ==
  \A i, j \in DOMAIN ran :
    ~Anonymous(ran[i]) /\ ~Anonymous(ran[j]) /\ moduleKey(ran[i]) = moduleKey(ran[j]) => i = j

(* module.go:44-46 "instead of silently registering a second that clobbers   *)
(* the first": a service that was provided is never replaced by another.     *)
KeepsServices == \A k \in DOMAIN container : k \in DOMAIN container' /\ container'[k] = container[k]
NeverClobbers == [][KeepsServices]_vars

(* module.go:92-93 "short-circuiting on the first error": no Register is     *)
(* called after an error, and the error that Run returns is the first.       *)
ErrorStops == [][err # None => ran' = ran /\ err' = err]_vars

Wanted == {app.roots[i] : i \in DOMAIN app.roots} \union
  UNION {{app.steps[ran[i]][j] : j \in DOMAIN app.steps[ran[i]]} : i \in DOMAIN ran}

(* module.go:67-90: an App that is built without an error has every module   *)
(* its modules import, over diamonds and cycles, and a binding for every     *)
(* Subscribe that ran.                                                       *)
AllInstalled ==
  phase \in {"start", "up"} =>
    /\ \A m \in Wanted \intersect Mod : Seen(m) \/ \E i \in DOMAIN ran : ran[i] = m
    /\ \A i \in DOMAIN ran : app.steps[ran[i]] = <<Bind>> => \E j \in DOMAIN bindings : bindings[j] = ran[i]

(* subscriber.go:17-21, 34-79: an App that is up has subscribed every        *)
(* binding once, and a closed one none, also when a Subscribe failed.        *)
SubscribedAll ==
  /\ phase = "up" => subs = bindings
  /\ phase = "closed" => subs = <<>>

(* WithModules returns: a cycle of modules ends where it began. *)
BuildEnds == <>(stack = <<>>)

-----------------------------------------------------------------------------
\* OncePerKey is kept because a key is stored before its Register is called.
RunInv ==
  /\ ran \in Seq(Mod)
  /\ OncePerKey
  /\ \A i \in DOMAIN ran : ~Anonymous(ran[i]) => moduleKey(ran[i]) \in installed

\* A Register that has still to provide is one that was called, of a keyed module.
Frame == [mod : Mod \union {None}, steps : Seq(Mod \union {Provide, Bind})]
FramesEntitled ==
  /\ stack \in Seq(Frame)
  /\ \A i \in DOMAIN stack : (\E j \in DOMAIN stack[i].steps : stack[i].steps[j] = Provide) =>
       stack[i].mod \in Mod /\ ~Anonymous(stack[i].mod) /\ \E j \in DOMAIN ran : ran[j] = stack[i].mod

\* A service was made by the one module that ran with its key.
ServicesOwned ==
  \A k \in DOMAIN container : k # Consumer =>
    \E i \in DOMAIN ran : container[k] = ran[i] /\ ~Anonymous(ran[i]) /\ k = moduleKey(ran[i])

ContainerInv == app \in Program /\ RunInv /\ FramesEntitled /\ ServicesOwned
=============================================================================
