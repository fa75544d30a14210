# microjet in TLA+

A verification development for microjet, a Go toolkit for building services: a
host that runs services and workers, and the blocks they are made of, which are
HTTP and gRPC servers and clients with their middlewares, messaging over NATS
and JetStream, a transactional outbox, caches, limiters, database and DynamoDB
tables, configuration and secrets.

The modules are TLA+ specifications of that code, the `.cfg` files instantiate
them for TLC, and the `*Proofs` modules and `KeyedLimiter` hold theorems that
TLAPS checks for every value of the constants. `PROJECT.json` lists for every
definition the lines it models, the runs, the hazards, the findings and the
theorems.

## How the system hangs together

The host (`host/`) walks services through configuration, Init, Setup and Start,
launches workers, and on shutdown flips readiness, drains, stops the workers
and closes the services band by band. Servers (`httpx`, `grpcx`), the broker
clients, the outbox relay, databases and tracing are such services. A request
goes through middlewares (timeout, rate limit, idempotency, tenant, errors) to
a handler of the application, which uses tables, caches, limiters and outgoing
clients. A handler that must publish writes an outbox row in its transaction;
the relay sends it to the broker; a durable consumer hands it to a handler of
some replica. Many goroutines do this at once, processes crash, brokers and
databases fail, deadlines pass, and clients retry: that is where this project
looks.

| Part | Its state | Operations | What is hard about it |
| --- | --- | --- | --- |
| host | phases, container, workers, readiness | Start, Wait, Shutdown, Setup, ProvideService | calls in any order, failing hooks, services registering services, deadlines |
| modules | keys seen, container, bindings | WithModule, ProvideService, Subscribe | modules that install one another, fail half-way, or fill one slot twice |
| limiter | slots by key, reference counts | Acquire, release | give-up racing a free slot; a slot dropped while awaited |
| outbox | rows, claims, the broker | Enqueue, PublishPending, PrunePublished | crashes between publish and mark, several relays, poison rows |
| HTTP client | breaker state, attempts | Do, allow, record | late reports, trials, panics, retries that are not safe |
| HTTP, gRPC server | life of the server, readiness, health | Start, SetReady, Close, probes | a stale probe, draining against a deadline |
| layers | a request on its way in and out | the chains of both servers | refusals, errors and panics seen by some layers and not by others; a level read too late |
| middlewares | buffered responses, buckets, stored responses | per request | watcher goroutine, eviction, overlapping retries, ended contexts |
| messaging | subscriptions, durables, deliveries | Publish, Subscribe, Request, Respond, Disconnect | redelivery, lost acks, late replies, shutdown with handlers running |
| lineage | headers, stored rows, contexts | InjectContext, ExtractContext, Enqueue, the relay | ids that must survive storage, redelivery and hops without tracing |
| caches | entries, flights | Get, Invalidate, FindTenant | a load that straddles an invalidation |
| gormx | rows, transactions, page tokens, slices of scopes | List, RunTx, Update, UpdateMap, Where and the like | rows changing between pages and between two queries of one, nesting, lost updates, shared arrays |
| dynamo | items, derived attributes, counts | Put, Update, Query, Count, BatchGet, TransactWrite | stale structs, lost answers, partial batches |
| configuration | layers of keys | Read, ReadMap, SetDefault, Set, Unused | a read rewrites a layer |
| secrets, AWS clients, errors | names and references; configs; chains of errors | Store, Resolve, Delete; AssumeRole, Derive; With..., Is | two-request writes; aliasing between copies |
| loggers, S3 transfers | outputs, derived handlers; temporary and local files | NewLogger, With..., WithMinLevel; S3DownloadFiles, S3UploadFile | arrays shared by derived loggers; failures and death half-way |

## Modules

Each component has a module with its state, one action per operation or step,
and its properties at the end. `MC` modules give the constants values for TLC and
put components that share no state into one run; each extends the proofs module
of its components, `MCHttp` for instance `HttpProofs`. The limiter and the outbox
are run as they are, the outbox from the end of `OutboxProofs`. A name is that of
the source where TLA+ allows it. An operator whose comment starts with "A fault of" or "Fault" is a plausible mistake in the definition
after it; substituted for it, TLC must find the property that is about it
violated.

| Module | Models | Abstract specification |
| --- | --- | --- |
| `Host` | `host/host.go`, `service.go`, `runtime.go` | |
| `Modules` | `host/module.go`, the `Module` constructors, `messaging/subscriber.go` | |
| `KeyedLimiter` | `core/limitx/keyed.go` | `KeyedSemaphore`: a counting semaphore per key |
| `Outbox` | `outbox/` | `AtLeastOnce`: what is committed is sent, once or more |
| `HttpClient` | `httpx/client.go`, `breaker.go` | |
| `HttpServer`, `GrpcServer` | `httpx/server.go`, `grpcx/server.go` | |
| `Layers` | the middleware chain of `httpx` and the interceptor chain of `grpcx`, and when they are built | |
| `Timeout`, `RateLimit`, `Idempotency` | the middlewares of these names | |
| `Errors` | `core/errorx`, the error middleware and interceptor | |
| `JetStream` | `messaging/jetstream` consumers, `messaging/subscriber.go` | |
| `Durables` | names and filters of durable consumers | |
| `CoreNats` | `messaging/nats`, request-reply of both clients | |
| `Lineage` | `messaging/propagation.go` and `headers.go`, over `nats.go`, `consumer.go` and the outbox | |
| `Loader` | `cache/loader.go` over `memory.go` or a cache that fails | |
| `TenantCache` | `core/tenant/cache.go`, the Tenant middleware | |
| `Pages` | cursor pages of `gormx` | |
| `Tables` | derived Tables and pages by number of `gormx` | |
| `Tx`, `RowUpdate` | `RunTx`; locked and guarded updates of `gormx` | |
| `Config` | `core/configx` | |
| `KeyFormat`, `DynamoItem`, `DynamoQuery`, `DynamoTx` | `aws/dynamo` | |
| `Secrets` | `aws/secrets.go`, `parameters.go`, `core/secretx` | `Promised`, in the module: one value, one moment per call |
| `AwsClients` | `aws/aws.go`, `assume_role.go` | |
| `Transfers` | `aws/s3.go` | |
| `LogHandlers` | `core/logx/logger.go` | |

Where components meet they are in one module: `JetStream` holds the consumer
and the host-side subscriber that closes it, `TenantCache` the cache and the
middleware, `Idempotency` the middleware under Timeout, `HttpServer` the server
and the host that closes its backends, `Outbox` the table, the relays and the
broker, `Loader` the loader and the cache beneath it. `Layers` composes the
middlewares around a handler, and the gRPC server with a client of it; `Lineage`
follows a story through HTTP requests, publishes, consumers, dead letters and
the outbox; `Modules` joins the builder of the host with the consumer service
that messaging modules share.

What is external (NATS and JetStream servers, the SQL engine, DynamoDB, Secrets
Manager, viper, `golang.org/x/time/rate`, singleflight) is modelled from how
the code uses it and marked so in the map.

### From code to model

- A region under a mutex is one step. What is read before an unlock, a channel
  operation, a call to a service or an await and used after it is kept in a
  variable of its caller, so that others step in between.
- A call to a service may fail before it took effect, or take effect and lose
  its answer, where the code handles errors of it.
- A crash loses what is in memory and keeps what a database or broker holds.
- What is only text (messages, logs, layout) is left out; keys, names and
  patterns whose text decides something (`Durables`, `KeyFormat`) are sequences
  of tokens or characters, built and taken apart as the code does.
- A variable marked *history* is not in the code: it records what a property
  compares with.
- Bounds are constants named `Max...`, in the guards.

## Runs

`PROJECT.json` lists the runs; each is `tlc -config <cfg> <module>`. Components
that share no state share a run: an MC module declares the variables of all of
them, and a variable `scene`, chosen in the initial state and never changed,
says which one moves. A scene is also how one component is checked under
several settings (with and without faults, say). A property of a run is then a
conjunction, one line of it per component, and where a conjunct is promised
under some settings only, it names the scenes. The conjuncts are defined, each
with the code it is about, at the end of the component's module.

| Run | Instance | States | What it shows |
| --- | --- | --- | --- |
| `limiter` | 3 callers, 2 keys, 3 slot identities, cap 1 | 85,566 | never more than the cap hold a key (`CapHolds`); the table counts exactly holders and waiters, a slot in use is never dropped, an idle one always is (`IInv`); waiters are served and cancelled callers return (`CallersReturn`); the table of slots is a semaphore per key (`ImplementsSemaphore`) |
| `outbox` | 2 messages, one of which never publishes; 2 relays with row locks, or 1 without; 1 crash or lost mark, at most 2 attempts, retention on | 89,445 | a second copy in the broker has a cause (`DuplicatesExcused`); nothing is published that was not committed, nothing is marked that was not published, quarantine is earned (`RowsAccounted`); a row only moves forward and every message is settled (`RowsAdvance`); the whole is at-least-once delivery (`ImplementsAtLeastOnce`) |
| `host` | 4 services in 3 bands, one registered by another's Init, one by a setup handler; 2 handlers, 2 workers, one of which ignores its context. Or 6 modules: diamonds, cycles, two spellings of a name, subscribers | 137,671 | hooks run after what they build on (`BootsInOrder`); bands close in order, reverse registration within one, nothing is closed under workers or a ready edge unless the deadline cut the wait short, and nil from Shutdown means stopped (`StopsForGood`); Start, Wait and Shutdown return (`CallsReturn`); a key registers once, no service is replaced, nothing registers after an error, all that is imported is installed, all bindings are subscribed or given back, building ends (`ModulesOnce`) |
| `http` | client: 2 callers, a retried and an unretried method, 3 statuses, 1 retry, threshold 2, calm or with panics; HTTP server: 2 requests, 1 probe; gRPC server: 2 calls, one of them deaf to its cancellation; Timeout: 2 codes, 2 writes; layers: requests with every combination of traits, nested calls | 135,198 | the breaker trips on a streak and nothing else, and half-open it waits for a call in flight (`BreakerConsistent`); a request is sent again only when its method may be repeated, and a failure is given back only when it is final (`RetriesSafely`); backends outlive handlers that keep the deadline (`BackendsLast`); gRPC calls are cut off at the deadline only, Close comes back with no handler at work, readiness off stays off under late probes (`RpcsDrained`); one unmixed right response (`OneRightResponse`); every request leaves one line with its id and the status the client got, is counted so, every error is logged, refusals keep the handler from running, and the code of a nested failure and the id reach the edge (`RequestsTraced`); admitted calls return, the 503 goes out at the deadline, health settles on what the checks say, Close returns unless a gRPC handler ignores its cancelled context for ever, and the breaker closes for good once the upstream is well (`Responsive`) |
| `messaging` | JetStream: 2 messages, 2 replicas, 2 deliveries; NATS: 1 plain subscription, a group of 2, a message and a request; durables: 2 services, one of them with a queue name for two subjects of a stream; lineage: 2 services, one of them traced | 199,994 | messages are settled for cause, one replica at a time, copied to the dead-letter subject when exhausted (`DeliveriesAccounted`); at most once, one of a group, replies to the right request (`ExchangesMatch`); subscriptions get their own subject or a namesake's, and services do not meet (`SubscriptionsOwn`); the correlation id a story began with is on all its messages and contexts, however it gets there, and a trace is continued where the outbox and untraced services do not come between (`LineageKept`); delivery goes on until settled, a drain gets what waits to its handler unless its time is up, requests return (`EverythingArrives`) |
| `requests` | idempotency: 2 retries of an operation, another body, another caller; loader: 2-3 callers; tenants: 2 requests; rate limit: 2 clients | 798,573 | a replay is one's own and a retry does not act again (`RetriesReplay`); one load for concurrent misses, and sweeping loses no refreshed entry (`LoadsShared`); outages are not remembered, what is served was active (`TenantsTrue`); evicting idle buckets lets nobody exceed the rate (`RateKept`); the same between two callers, with contexts that end, and with absences not remembered (`OtherSettings`) |
| `stores` | 5 rows, page sizes within and out of range, both directions; 4 derived Tables; page numbers up to where the offset overflows, over rows of which two are equal in the ordering column, or none; 2 databases, nesting 2 deep; up to 4 writers of a row. DynamoDB: 2 clients of an item with an index key; a group with a member count; a listing of several requests; 2 key patterns | 700,816 | a walk over changing rows lists what stays exactly once (`WalkExact`); transactions are atomic however nested, swallowed or panicked and whatever becomes of the commit, nil means stored and an error of the operation means not, and no update of a row is lost (`WritesExact`); a derived Table has the scopes it was asked for and no other's, a page by number is the right one, and a walk by number misses or repeats a row only where a write before it or a row equal to it explains it, DynamoDB reads are complete and counts true, keys decode to the fields they encode (`ReadsExact`); derived attributes do not drift, one creator wins (`ItemConsistent`); counts match members after lost answers (`GroupConsistent`) |
| `core` | 3 configuration keys in 2 sections, one with two defaults; 3 errors; 2 clients of a secret; 3 AWS values; all small configurations of two log outputs, 4 derived loggers; 3 downloads by 2 workers into 2 files, and an upload | 345,393 | layers resolve in order whatever was read before, with the default of the first read (`ConfigLayered`); errors keep params, sentinel and verdict (`ErrorsFaithful`); there is an output, levels and floors compose, a line has its own logger's attributes (`LogsFaithful`); a secret store acts in one moment per call, absence is told, cleanup removes its own (`KeepsContract`), and so do the stores with a recovery window, of parameters and in memory (`OtherStores`); derived AWS values disturb none, and a downloaded file is the old one or whole (`AwsExact`) |
| `host_early_shutdown` | `host`, Shutdown during Start | | finding, see below |
| `breaker_two_trials` | 2 callers, threshold 2 | | finding, see below |
| `http_log_level` | the HTTP server of `http`, made by httpx.Module | | finding, see below |
| `outbox_lineage` | 2 services, a request and a worker | | finding, see below |

### Bounds, and why they are enough

A bound is there to keep the state space finite, and is chosen one above what
the hazard needs: a dropped and recreated slot needs a holder, a waiter and a
third identity (three callers, three slots); a duplicate in the outbox needs
one lost mark and two relays; a broken half-open state needs a straggler and a
trial (two callers, threshold two, so that a failure can precede the trip);
redelivery to another replica needs two replicas and two deliveries; a page
that ends in the middle of what changes needs more rows than the largest page;
an invalidation that straddles a load needs two callers and one new version;
two derived Tables or loggers that meet in one array need a parent with room to
spare and two children (four with the root); a cycle that comes back to a module
under another spelling needs three modules; a half-written file needs an object
of two pieces, and a failure that reaches a waiting download three requests; a
default that comes too late needs a key with two of them, and a listing that
changes its order two rows that are equal in its column.
Data is in small sets: versions are counted, not stored; a payload is its
message; a key is a model value except where its text matters. Symmetry is used
only in `stores`, which has no temporal property. Deadlock is checked in every
run; a component that has come to its end has an explicit stuttering step
(`Over`, `Idle` and the like) that says so.

### Fairness

Weak fairness is on steps that a runnable goroutine takes by itself, on timers
and deadlines that pass, on handlers and workers the documentation asks to
return, and on a process that is restarted. Strong fairness is assumed in three
places: a relay that is told to stop notices between batches (`Outbox`), a
message that keeps being redeliverable is delivered (`JetStream`: the server
goes round its pull requests), and the gRPC health updater, a select of two
ready channels, chooses the stop channel some time (`GrpcServer`: Go's select
is uniform). Failures, crashes, panics, disconnects and calls of the
application never are fair: they may or may not happen. Where a handler or
worker may ignore its context (`Stubborn`, `Unhurried`, `Heedless`, a hanging
handler in `Timeout`), no fairness is assumed for it, and the liveness properties
are stated so that they hold all the same, or name it as what they wait for: a
gRPC handler that is not `Heedless` ends once its context is cancelled, and one
that is may keep Close (`CloseReturns`). `CallsReturn` is about a Shutdown that is
given a deadline; `Run` gives it none, as its comment says, and waits for a worker
that ignores its context. There the Close of every service is taken to return,
which that of the gRPC server does under the condition above.

In the runs of several scenes the fairness of a component that would owe steps
already in its initial state cannot be a conjunct of the specification, since it
moves in its own scene only: it is then the premise of what it gives
(`Fairness => Answers /\ Recovers` in `Responsive`, and so in `CallsReturn`,
`EverythingArrives` and `ModulesOnce`). That says the same and spares TLC the
product of the scenes.

## Proofs

Eight modules hold theorems: `KeyedLimiter` at its end, and the `*Proofs` modules.
A proofs module extends one component and instantiates the others, so a
theorem is about the very definitions that the runs check: the MC module of a run
extends the proofs module and gives its constants values. A theorem is for every
value of the constants that meets the assumption it names; TLC evaluates the
same assumptions on the instances of the runs.

Few of the properties are inductive. The pattern is the same everywhere: an
invariant that says what each program point, message or entry refers to, kept
by one lemma per action or group of actions, from which the property follows in
the last step.

| Theorem | Property | Assumed | Inductive invariant |
| --- | --- | --- | --- |
| `LimiterInvariant`, `LimiterCap`, `LimiterRefs`, `LimiterNoIdleEntry`, `LimiterReleaseNeverBlocks`, `LimiterRefinement` | `IInv`, `CapHolds`, `ImplementsSemaphore` | `LimiterAssumption`: finitely many callers, an integer limit, `NoSlot` and `NoKey` that are none | `IInv`, see below |
| `OutboxInvariant`, `OutboxNeverLost`, `OutboxDuplicates`, `OutboxQuarantine`, `OutboxRows`, `OutboxRowsForward`, `OutboxRefinement` | `DuplicatesExcused`, `RowsAccounted`, `ImplementsAtLeastOnce` | `OutboxAssumption`: bounds that are numbers, a batch of at least one row, and what `relay.go` asks of a deployment (without row locks one relay) | `IInv`, see below |
| `HostBootsInOrder`, `HostStopsForGood`, `PlacesKept` | `BootsInOrder`, `StopsForGood` | `HostAssumption`: each hook registers a list of distinct services and handlers | `HostInv`: which phases are over for which services, what the walk still has before it, and how far the closing has come in the registration-order log |
| `KeysRunOnce`, `ServicesStay` | parts of `ModulesOnce` | none; `WellFormed` modules | `RunInv`: a module that ran has its key in `installed`; and for services, what every frame on the stack may still provide and whose every service is |
| `ClientInvariant`, `BreakerHolds`, `TrialHeld`, `RetriesHold` | `BreakerConsistent`, `RetriesSafely` | `ClientAssumption`: finitely many callers, a positive threshold | `ClientInv`: failures are counted up to the calls in flight, a waiting caller is owed another attempt |
| `BackendsCloseLast`, `RpcsDrain` | `BackendsLast`, `RpcsDrained` | none | `ServerInv`: no request begins after Shutdown; `RpcsDrained` is inductive |
| `OneResponse` | `OneRightResponse` | 200 is a status code | `ResponseInv`: what writer, watcher and handler have done by each point of the deferred settlement |
| `LineageHolds` | `LineageKept` | `StoryAssumption`: `None` is no id | `StoryInv`: every context, message and row carries the id of its request and a trace that was begun |
| `SubscriptionsHold` | `SubscriptionsOwn` | `NamesAssumption`: names are of tokens, and different prefixes, sanitized, differ at a place both have (`PrefixesApart`); nothing about queues | `NamesInv`: who is bound has the durable of its group, and its filter is the subject of a namesake. What is needed is that a durable's name tells prefix, stream and sanitized base (`DurableTells`) |
| `DeliveriesHold` | `DeliveriesAccounted` | `JetAssumption` | `JetInv`: what a callback is about to say of its delivery is true (`Callbacks`), deliveries are counted (`Counts`), one replica holds a message (`HeldOnce`), without faults somebody holds a pending one (`NothingDropped`) |
| `ExchangesHold` | `ExchangesMatch` | `NatsAssumption` | `NatsInv`: a message is in one place of a subscription and of a group (`Lines`), replies are from those who handled the request (`Replies`) |
| `RateHolds`, `MemoryHolds`, `RateIsKept` | `RateKept` | an empty bucket refills within `IdleTTL` (not for `MemoryHolds`) | `RateInv`, see below |
| `RetriesReplayed` | `RetriesReplay` | `RetryAssumption` | `RetryInv`: a stored response is a success under its key (`Stored`), a request that comes after the success of its like is at the lookup or over (`Repeats`) |
| `TenantsServedTrue` | `TenantsTrue` | `TenantAssumption` | `TenantInv`: what the cache remembers and what a request is about to put there are not below the version of an Invalidate they did not meet |
| `LoadsAreShared` | `LoadsShared` | `LoaderAssumption` | `LoaderInv`: whoever waits has joined a flight whose loader is on its way (`Flights`), and nothing in the cache or on its way there is below an Invalidate that met no flight (`NothingStale`) |
| `PagesNoRepeats`, `PagesNoGaps`, `PagesWalkExact` | `WalkExact` | `PagesAssumption`; for completeness `UniqueCursor` | listed rows lie behind the cursor, unlisted ones that stayed ahead of it |
| `GroupsConsistent` | `GroupConsistent` | `GroupAssumption`: finitely many members | `GroupConsistent` is inductive; what is needed is how a transaction that is not cancelled changes the size of the member set |
| `LoggersFaithful` | `LogsFaithful` | `LogsAssumption`: configured levels are levels | `LogsInv`: the slice of every logger holds exactly the attributes asked of it |
| `SecretsKeepContract` | `KeepsContract` | `None` is no value | `SecretInv`: a live secret has a value, a reference is that of one creation |
| `ConfigHolds` | `ConfigLayered` | `ConfigAssumption`: no section is spelled with a capital, `None` is no value | `LayersInv`: an override is what Set was called with, or what the layers below would give with the default that the first read met, so promotion by a read changes no later answer but that it keeps that default |
| `AwsClientsExact`, `FilesStayWhole` | `AwsExact` | defaults are not changed in place through a pointer (`InPlace`); at least one worker | `ClientsInv`: whose cells the clients of a value look at; `TransferInv`: a temporary file is its request's own, exists while that is fetching and is whole when it is renamed |

More on those whose invariant is the point:

**The limiter.** `CapHolds` is not inductive: a release that misses its token, or
a slot recreated while a caller still waits on the old one, breaks it only later.
`IInv` is `TypeOK`, `CallerInv` (what a caller at each program point refers to: a
waiter refers to the slot that is in the table under its key, a holder's token is
in it), `TableInv` (no slot under two keys) and `CountInv` (an entry's count is
the number of callers that hold it or wait on it, the tokens in the channel are
the number of holders). `LimiterRefinement` maps the table to one counting
semaphore per key: taking a token is its acquire, returning it its release,
everything else stutters.

**The outbox.** `IInv` is `TypeOK`, `PassInv` (what a relay holds in a pass: rows
claimed by it alone, what it has published so far and not yet marked), `RowInv`
(how a row's state, its attempts and the broker go together) and `CopyInv` (every
copy beyond the first is matched by a lost mark or an ambiguous publish). The
theorems are about both kinds of relay, any batch size, any number of attempts,
faults and crashes; `OutboxRefinement` maps all of it to `AtLeastOnce`.

**Pages.** `UniqueCursor` (no two rows with one cursor value) is needed for
completeness and not for uniqueness: see `NoGaps` below.

**Modules.** LoadOrStore comes before Register, so a cycle that comes back finds
the key: that is `RunInv`. `WellFormed` is what the constructors see to: a Register
that provides fills a slot, and the consumer's slot is no module's.

**The rate limit.** `RateInv` compares every bucket with one that is never
forgotten: one in the table was last used at the same time and holds no more, one
that is not in it belongs to a client whose ideal bucket is full by now
(`Full <= IdleTTL + 1`: a bucket goes when it has been idle for strictly longer).
The code does not see to the assumption; without it the promise fails, see below.

**Loggers.** Derived text handlers append to slices that may share an array.
`LogsInv` holds because `WithAttrs` gives every text handler a new array: one that
another logger looks at is never written.

Out of the prover's reach and left to TLC: liveness and ENABLED (`CallersReturn`,
`RowsAdvance`'s progress, `CallsReturn`, `Responsive`, `EverythingArrives`, the
progress in `ModulesOnce`); what a recursion or a fold computes for every input,
and with it `ErrorsFaithful` (chains of errors), `ReadsExact` (key patterns,
windows of pages by number, batches), `WritesExact` (sums of changes, stacks of
transactions) and `ItemConsistent` (derivation in declaration order);
`RequestsTraced`, whose chains of layers are walked one by one; and the second
settings of a component, `OtherSettings` and `OtherStores`, which are instances of
what `RetriesReplayed`, `TenantsServedTrue` and `SecretsKeepContract` prove.
The inductive invariants were model-checked before they were proved.

## Where documentation and code part

Four disagreements have a run of their own, in which TLC must find the sentence
violated.

- `host_early_shutdown` / `StoppedMeansStopped`: Shutdown called while Start is
  in a phase closes what is registered and returns nil; Start then starts
  services and workers that nothing will stop (`host/runtime.go:103`).
- `breaker_two_trials` / `SingleTrial`: a call admitted before the breaker
  tripped that fails while it is half-open clears `trialActive`, and a second
  trial goes out beside the first (`httpx/breaker.go:85`).
- `http_log_level` / `FloorHonoured`: `logLevel` in `[http]` is read after the
  access log was built from a configuration without it (`httpx/server.go:159`).
- `outbox_lineage` / `EventKeepsLineage`: Publish starts a span under the relay's
  context and writes its traceparent over the one Enqueue stored
  (`outbox/relay.go:243`); the correlation id is kept.

The others are stated as properties or as settings of the modules. The runs
keep to the settings under which the promise holds; the table says what to
change to see TLC refute it.

| Sentence | What the code does | To reproduce |
| --- | --- | --- |
| `outbox/relay.go:136` "continues with the rest of the batch rather than blocking on one bad message" | with MaxAttempts unset, BatchSize failing rows fill every batch | `Outbox`: `HealthySettled` with `MaxAttempts = 0`, `BatchSize = 1`, `Poison = {1}` |
| `host/host.go:214` setup errors are "surfaced by Run/MustRun/Err" | the error of a handler queued by a handler is recorded after Start has looked | `Host`: `SetupErrorSurfaces` |
| `httpx/breaker.go:26` the trial's outcome closes or reopens the breaker | a panic in application code during the trial records nothing; every later call is refused | `HttpClient`: `TrialOwned` with `MayPanic` |
| `jetstream/config.go:27` "a copy of any message that exhausts MaxDeliver" | a last delivery that was buffered or running at shutdown is copied nowhere | `JetStream`: `ExhaustedIsCopied` with `MayStop` |
| `messaging/subscriber.go:60` "drains in-flight handlers" before the backends close | Close cancels and unsubscribes, and does not wait | `JetStream`: `DrainedOnClose` |
| `jetstream/consumer.go:26` the equivalent of a queue group | a queue name used for two subjects of a stream is one durable; the second subject takes the filter over | `Durables`: `ServedOwn`, in the instance of the run |
| `cache/loader.go:133` "the next Get reloads it" | a load under way stores its old value after Invalidate | `Loader`: `FreshAfterInvalidate` |
| `core/tenant/cache.go:154` Invalidate forces "the next FindTenant to consult the wrapped store" | a FindTenant under way remembers its old answer after it | `TenantCache`: `FreshAfterInvalidate` |
| `middleware/timeout.go:52` "Only a real deadline reaches here" | a client that disconnects ends the context as well | `Timeout`: `OnlyDeadlines` with `MayLeave` |
| `middleware/idempotency.go:91` a retry after a timeout does not act twice | under Timeout the status is 503 once late, so nothing is stored | `Idempotency`: `ActsOnce` with `MayExpire` |
| the same, after "a network blip" | the response is stored under the ended context of the request | `Idempotency`: `ActsOnce` with `MayLeave`, `StoreMinds` |
| `middleware/rate_limit.go:25` "throttles each client to the configured token-bucket rate" | an evicted bucket comes back full although it had not refilled | `RateLimit`: `WithinRate` with an `IdleTTL` in which an empty bucket does not refill (`RateHolds` is the other case) |
| `httpx/module.go:57` the server drains before the backends close | handlers that outlast the 15 seconds of Close run on | `HttpServer`: `BackendsOutlive` with `Unhurried` |
| `httpx/server.go:90` not ready means 503 | a probe under way answers 200 after SetReady(false) | `HttpServer`: `ReadyzOff` |
| `grpcx/server.go:243` Close is "bounded by a timeout after which it stops forcefully" | the forced Stop ends no handler, and Close then waits for GracefulStop, which waits for them all | `GrpcServer`: `CloseBounded` with `Heedless` not empty |
| `messaging/errors.go:5` late replies are ErrTimeout | the deadline of the context is returned as it is | `CoreNats`: `LateIsErrTimeout` |
| `nats/nats.go:106` Close drains and closes | Drain starts the draining and returns | `CoreNats`: `DrainedOnDisconnect` |
| `gormx/pagination.go:21` pages by `created_at` | rows that share the last row's value and did not fit are on no page | `Pages`: `NoGaps` with two rows of one cursor value |
| `gormx/table.go:881` "offset pagination: it counts all matching rows for TotalCount, then returns the page at offset" | rows equal in the ordering column may come in another order at every query, so that one is on two pages and another on none | `Tables`: `WalkUndisturbed` with two rows equal in `Column` |
| `gormx/table.go:69` RunTx rolls back "on any error" | an error of the commit whose answer was lost is returned for writes that are stored | `Tx`: `AnyErrorUndoes` |
| `gormx/table.go:342` read, recompute, `Update` | Update skips zero values: a balance of zero is not written | `RowUpdate`: `NoLostUpdate` with changes that sum to `-Start` |
| `configx/viper.go:44` SetDefault registers a default | once the section is read the default it met is an override; a later one is ignored | `Config`: `LatestDefault` with a key of two defaults |
| `configx/viper.go:178` comparisons are case-insensitive | a section spelled with a capital is resolved without environment and defaults | `Config`: `Precedence` with `Mixed` not empty |
| `configx/viper.go:69` ReadMap leaves the environment out | every key that is known is resolved with it | `Config`: `MapWithoutEnv` |
| `dynamo/table.go:43` key fields are decoded back on read | a string that contains the next literal is cut there | `KeyFormat`: `ReadsBack` with `Careful = FALSE` |
| `dynamo/table.go:62` a derived field "cannot drift" | UpdateWith derives from the caller's struct, which may be stale; a derived field built from another is derived in declaration order | `DynamoItem`: `NoDrift` with `Updates` naming one of two sources, or with a chain of `derivedFields` |
| `dynamo/table.go:251` the listed attributes are written | one that is omitempty and zero is skipped | `DynamoItem`: `DoneMeansStored` with `OmitEmpty` |
| `secretx/secretx.go:79` not found is distinguishable | a secret in its recovery window looks like an outage | `Secrets`: `SaysNotFound` with `force = FALSE` |
| `aws/parameters.go:177` cleaning up twice is safe | the second Delete removes a parameter recreated under the name | `Secrets`: `CleansOwn` with `Kind = "parameters"` |
| `aws/assume_role.go:125` defaults are "copied, not shared" | two of them are pointers | `AwsClients`: `[][DefaultsOwn]_vars` with `InPlace` |

Smaller ones met on the way, without a property: the repository's README says
closers run concurrently, `closeServices` runs them one by one;
`gormx/table.go:807` says TotalCount is always -1, offset pages count;
`messaging/messaging.go:11` says a handler's context ends with its subscription,
Unsubscribe does not end it; `UpdateWith` without clauses ignores its Condition;
`grpcx/interceptors/logging.go:15` says one record per RPC, a panic passes the
logging layer by (`OneLine` of `Layers` leaves such calls out);
`core/logx/logger.go:18` lists "info" among the levels an output may override
with, `getLogLevel` takes the general level instead (`LevelsRight` of
`LogHandlers` leaves it out); a text handler prints attributes given before
WithGroup under the group, a JSON handler does not (`AttrsOwn`); an output whose
write fails keeps the record from the ones after it (`NeverSilent` and
`LevelsRight` are about outputs that work).

## Not modelled

`PROJECT.json` lists every part with its reason. What is left has no state
between calls and no order of its own to get wrong, or is somebody else's:

- one call handed on: SQS and SES, migrations (the library's), aggregates,
  projections, Raw and Exec of `Table`, dialling of the gRPC client;
- encodings and formats: JSON and gob values of caches, envelopes and typed
  handlers, query parsing and validation of requests, timestamps as text, money
  (the arithmetic of a decimal library), SecureHeaders;
- wiring and declarations: `config.go` files, drivers and tracing of `gormx`,
  `otelx`, options of constructors; how such services are installed, initialized
  and closed is `Modules` and `Host`;
- the Redis client under the caches: to `Loader` and `Idempotency` it is a store
  that may fail;
- examples, and support for tests (`testx`).

Within modelled parts: cursors made by the caller of ListPage and the
CursorScoper hook are queries of the application; streams of gRPC pass the same
layers as calls; reconnection of the broker clients is a lost message.
