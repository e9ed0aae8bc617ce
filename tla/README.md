# GoOdin (`mox`): a TLA+ verification

The repository is a Go application template: a command-line service with a
supervised master/worker process model, pluggable drivers and lifecycle hooks,
and a sample domain (orders and loyalty points) built on commands, events and
sagas. This directory holds TLA+ models of it, TLC configurations that check
them on small instances, and proofs checked by TLAPS.

Run everything from this directory:

    tlc -workers 2 -config mw_safety.cfg MCMasterWorker
    tlc -workers 2 -config mw_liveness.cfg MCMasterWorker
    tlc -workers 2 -config lifecycle.cfg MCAppLifecycle
    tlc -workers 2 -config services.cfg MCServices
    tlc -workers 2 -config platform.cfg MCPlatform
    tlapm MasterWorkerTypes.tla
    tlapm MasterWorkerProofs.tla
    tlapm MasterWorkerMembership.tla
    tlapm CreditAndPageProofs.tla
    tlapm LifecycleProofs.tla
    tlapm ServicesProofs.tla
    tlapm PlatformProofs.tla
    tlapm LogProofs.tla

## 1. Inventory

| Component | State | Operations | Interacts with | What is hard | What makes it correct |
|---|---|---|---|---|---|
| Worker process (`drivers/worker`, `use_cases/workercore`) | socket, listener descriptor, context | dial, `AcceptHandshake`, `ReceiveMessage`, signal, exit | gateway over a Unix socket | the master may die at any point; Init ignores the context | ends when told to or when the master is gone |
| Worker client (`use_cases/workerclient`) | `status`, socket, mutex | `Start`, `Send`, `Shutdown`, `State` | used by four goroutines of the master | `status` is not under the mutex; a goroutine nobody waits for sends the stop order | gives up only on a worker that has gone |
| IPC gateway (`use_cases/bus/ipc_server.go`) | two listeners, channel `WorkerEvent` of capacity 1, one goroutine per connection | `ListenAndServe`, `processWorker`, `handleHandshake` | workers, registration loop | blocking reads and sends without deadline | every worker that completes the handshake is handed over once |
| Connection registry (`use_cases/mastercore/registry.go`) | map pid -> client | `Add`, `Remove`, `GetAll`, `pingWorkers`, `eliminateWorkers`, `CloseAllConnections` | registration loop, health loop, shutdown | two loops range over the map without the mutex; check and removal are not atomic | holds live, fully started workers, evicts the others |
| Master core (`use_cases/mastercore/master.go`, `drivers/master`) | goroutines, context | `Run`, `Stop`, driver `Close` | all of the above | one failed `Start` ends the registration loop | takes in every worker; ends when cancelled |
| Operator control plane (`use_cases/operation`, orchestrator) | command table | `Register`, `Execute` | event loop of the master | names are normalised in one place only; the loop ends on the first error | a registered command is found |
| Application core (`internal`, `service.go`, `bootstrap`) | context, lazily made managers, hooks | `Bootstrap`, `Stop`, `Shutdown` | every driver | lazy initialisation from several goroutines; stop hooks run twice | drivers are closed once, hooks run in order |
| Hooks, driver managers (`pkg/hooks`, `pkg/driver`) | list of handlers / drivers | `Add`, `Execute*`; `RunDriver`, `CloseAllDriver` | application core | v1 keeps a driver whose `Init` failed | what was opened is closed |
| Loyalty crediting (`use_cases/loyalty/command`, `event`, `repositories`) | accounts, idempotency keys | `CreditLoyaltyHandler.Handle`, `OnOrderCompletedHandler.Handle` | event bus, database | five writes without a transaction, redelivery, concurrent deliveries | an order is credited once, and its events tell the truth |
| Fulfilment saga (`use_cases/loyalty/saga`) | saga row per order | `Handle` | event bus, database | read-modify-write by concurrent handlers; saved before published | completion is announced once both steps are done |
| Event buses (`drivers/watermill*`) | topics, subscriptions | `Publish`, `Subscribe` | use cases | ack, nack, redelivery, two backends | an event is handled or redelivered |
| Orders, NATS (`use_cases/orders`, `drivers/messaging`) | orders, stream, circuit breaker | `CreateOrder`, `SaveOrder`, listeners | NATS, database | handler slower than `AckWait`; order saved in two statements | an order is complete or absent |
| Log batching (`tools/logs`) | slice of records, mutex | `Handle`, `WriteAll` | any goroutine that logs | check after unlock, write outside the lock | no record is lost or written twice |
| Data sources (`pkg/datamanager`, `adapters`) | map of connections | `Set`, `Get`, `Close` | repositories | one adapter object for every source of a kind | a name gives its own connection |
| HTTP, monitoring, configuration, helpers | mostly none of their own | request mapping, set-up | buses, libraries | `os.Exit` from a goroutine | |

`PROJECT.json` lists the components with their status, and the hazards at the
lines where they bite.

## 2. Modules and runs

| Part | Modules | Checked by | Proved in |
|---|---|---|---|
| Supervision of workers | `UnixSocket`, `WorkerProcess`, `WorkerClient`, `IPCServerGateway`, `ConnectionRegistry`, composed by `MasterWorker`; abstract: `Membership` | `mw_*` (`MCMasterWorker`) | `MasterWorkerTypes`, `MasterWorkerProofs`, `MasterWorkerMembership` |
| Loyalty crediting | `LoyaltyCredit`; abstract: `CreditLedger` | `platform`, `lc_*` (`MCLoyaltyCredit`) | `CreditAndPageProofs` |
| Fulfilment saga | `FulfillmentSaga` | `services`, `saga_lost_update_violated` | `ServicesProofs` |
| Application lifecycle | `Hooks`, `DriverManager`, composed by `AppLifecycle` | `lifecycle` (`MCAppLifecycle`) | `LifecycleProofs` |
| Driver managers on their own | `DriverManager` | `platform` | `LifecycleProofs` |
| Event buses | `EventBus` | `services`, `eventbus_decode_violated` (`MCServices`) | `ServicesProofs` |
| Orders and request-reply | `OrderDetail` | `services` | `ServicesProofs` |
| Order stream | `OrderStream` | `platform` (`MCPlatform`) | `PlatformProofs` |
| HTTP driver and routes | `HttpApi` | `platform` | `PlatformProofs` |
| Log batches | `LogBatch` | `platform` | `LogProofs` |
| Log records | `LogRecord` | `platform` | `LogProofs` |
| Data sources, configuration | `DataSources` | `platform` | `PlatformProofs` |
| Operator commands | `OperatorControl` | `platform`, `control_case_violated` | `PlatformProofs` |
| Telemetry | `Monitoring` | `platform` | `PlatformProofs` |
| Pagination and sorting | `Paging` | `platform` | `CreditAndPageProofs` |

The passing runs, with two workers:

| Run | Distinct states | Time |
|---|---|---|
| `mw_safety` | 481,516 | 110 s |
| `mw_liveness` | 38,517 | 50 s |
| `lifecycle` | 59,836 | 12 s |
| `services` | 53,291 | 60 s |
| `platform` | 820,680 | 120 s |

Every safety property of a passing run has a theorem, for any values of the
constants that satisfy the named `ASSUME`s. Section 11 says what is only
model-checked.
A theorem about a component is about that component's own specification
(`HttpSpec`, `BusSpec`, ...), which is the part of the run's specification that
`focus` selects.

`MCServices` and `MCPlatform` check several components that share no state in
one run. A variable `focus`, chosen in the initial state and never changed, says
which component this behaviour is about; the others stay in one fixed initial
state. So the reachable states are those of each component by itself, side by
side, and an invariant or a leads-to that speaks of one component holds of the
run exactly when it holds of that component. In `MCServices` the fairness of each
component is conjoined; for a behaviour about another component its actions are
never enabled, so that it asks nothing.

## 3. Supervision

### How modules correspond to the code

`UnixSocket` is the kernel's stream socket, marked external: a bounded buffer
of lines towards each worker, the one report line towards the master, and the
two ends. A write fails exactly when the other end is gone and blocks when the
buffer is full, since the code sets no write deadline.

`WorkerProcess` is one worker: `proc` is where it is between dialling and
exit, `wstop` the cancelled context, `hasFD` the stored descriptor.
`ReceiveMessage` and the main goroutine (`WorkerExit`) are separate, because
`Init` leaves the former running on its own. `WorkerExit` closes the socket and ends
the process in one step, so "gone" means gone or on its way out of `main`.

`WorkerClient` has `status` and, for `Shutdown`, a count `senders` of the
goroutines that have not sent their message yet.

`IPCServerGateway` has the accepting goroutine (`accept`), one goroutine per
connection (`gw`) and the channel. `AcceptUnix`'s deadline only goes round its
own loop and is not a step.

`ConnectionRegistry` has the map (`conns`), the registration loop (`reg`,
`regW`), the health loop with the copy made by `GetAll` (`pinging`), the client
whose state was read and whose ping is next (`pingW`), the range of
`eliminateWorkers` (`elimKeys`) and the pid it decided to remove (`elimPid`),
and the range of `CloseAllConnections`. `AddLock` and `Add` are two steps, so a
map write has a beginning and an end that the unlocked ranges can meet.
Go's rule for ranging over a map that changes is in `MayProduce`.

`MasterWorker` adds the master's context and the ways its process ends: normal
exit, a kill (or `os.Exit` from the HTTP server goroutine), the nil listener
dereferenced when `net.Listen` fails, and the runtime's fatal error on
concurrent map iteration and map write.

`Membership` is what all this is for: a process becomes ready, joins once,
is dropped only after it has ended, and the whole membership retires or
vanishes with the master.

### Runs

All use `MCMasterWorker`. Deadlock is not checked: every process may really
end, and a state in which all have ended has no successor.

| Run | Specification, instance | Shows |
|---|---|---|
| `mw_safety` | `Spec`, two workers, two pids | `TypeOK`, `DisconnectedIsGone`, `NoWorkerLost`, `EvictsOnlyTheGone`, `ImplementsMembership` |
| `mw_liveness` | `LiveSpec`, two workers, one of which may get stuck | `MasterTerminates`, `OrphansEnd`, `StoppedWorkerEnds`, `GoneIsEvicted`, `AdmittedUnlessLoopDead` |
| `mw_admission_violated` | `ServingSpec`, two workers | the registration loop ends on one failed `Start`; later workers are not admitted |
| `mw_eviction_violated` | `Spec`, two workers, one pid | the unlocked check and `Remove(pid)` take out a live worker |

**Bounds.** Two workers are enough for one worker's failure to affect another and for
a pid to be reused; each worker process dials once, as in the code. `SockCap = 2` lets
the master write to a worker that has not read the previous line yet, and still has
full buffers that block it. With one place a pending PROCEED would fill the buffer,
`Start` could never overtake the worker, and a registration that did not wait for the
pid would go unnoticed. `EventCap = 1` is the code's own capacity. The number of
heartbeats is not bounded: the state space is finite without it. `LiveSpec` bounds the
liveness run: a master that is asked to stop has had one worker (either of the two,
the stuck one included), a master that serves has up to two (`Crowded`).

**Fairness.** Weak fairness of each goroutine and process separately: the Go scheduler
and the operating system run what can run. Starting workers, signals and crashes are
not fair. The workers in `Stuck` are not fair either: such a process may stop at any
point for good with its socket open, suspended or no longer reading. Writes have no
deadline, so once its buffer is full it holds up whoever writes to it. The properties
show what this does and does not spoil: the master still ends, other workers are still
admitted and end when told to, while the health loop, blocked in a ping to the stuck
worker (`BlockedByStuck`), evicts nobody any more. `AcceptLoop \/ NoUnixListener \/
ListenPanic` is one goroutine with three outcomes. `ServingSpec`, of the admission
finding, leaves out the behaviours in which the master is asked to stop.

### Proofs

The proofs are in three modules, each extending the one before:
`MasterWorkerTypes` (types and sockets), `MasterWorkerProofs` (the way to the
registry, the failure detector and the theorems), `MasterWorkerMembership` (what
needs distinct pids, and the refinement). They are kept short because
`tlapm` has five seconds to translate a leaf for its SMT solver, and gets slower
at it with every leaf of the same file. Leaves that need no arithmetic or
sequences cite `Zenon`, which has no such translation.

`MasterWorkerProofs` proves, for any set of workers, any pids and any buffer
sizes, that `Spec` satisfies `TypeOK`, `RegisteredHoldsListener`,
`DisconnectedIsGone`, `StopOrderOnlyWhenClosing` and `HeldOnce`, whether or not
pids are reused; `RegisteredHoldsListener`, `StopOrderOnlyWhenClosing` and
`HeldOnce` are proved only. None of them is inductive. The invariant `IInv` adds

- `Connection`: how a process, the ends of its socket and its gateway goroutine
  go together (an open worker end is a live process, so a failed write means an
  ended process);
- `Stages`: where a client is tells how far it has come (the gateway goroutine
  has it, then the channel, then the registration loop, then the map), with no
  repetition;
- `Detector`: the failure detector's knowledge down to the goroutines
  `Shutdown` has started, which is why a stop order cannot reach a live worker.

`MasterWorkerMembership` assumes `DistinctPids` (no pid is used twice during the
master's life). Its invariant `DInv` adds `Custody` (somebody holds every live
worker's connection) and `InHand` (what the health loop holds is still what is
registered), and gives `NoWorkerLost` and the action property `EvictsOnlyTheGone`. The
assumption is needed: `mw_eviction_violated` is what happens without it.

It also proves that, under the same assumption, `Spec`
implements `Membership!MSpec`: one lemma per group of actions says which
abstract step it is, or that it is a stutter.

Assumptions on constants are the named `ASSUME`s: both capacities are positive,
`PidOf` is a function into `Pids`, `None` is neither a worker nor a pid.

Liveness is checked with TLC only: the prover does not handle fairness.

## 4. Loyalty crediting

`LoyaltyCredit` follows calls of `CreditLoyaltyHandler.Handle` through its six
numbered steps. `pc[r]` is the step call `r` is about to take, `agg[r]` its aggregate
in memory, `account` and `keys` the two tables. A call comes from the API or from
`OnOrderCompletedHandler` (`ByEvent`), which adds the compensation after any error.
`saved`, `credited` and `compensated` record which calls wrote the account and
published which event, and `earned` the points of all saves for a customer; `faults`
whether anything has failed, and `overlap` whether two calls have run at the same
time. Both tables have a unique column (`gorm/models`): a second row for a customer
makes `Save` fail (`SaveRejected`), a second key makes `Mark` fail. Each step is a
statement of its own, because no caller opens the transaction the comments ask for.
`PointsFor` takes whole amounts, for which `int(total * 0.10)` is the integer
quotient; amounts with cents are not modelled.

The event handler is modelled from its contract with the bus, delivery at least
once. As wired today an envelope with a payload does not survive
`json.Unmarshal` into the interface-typed field and is acknowledged unhandled
(`drivers/watermill/event_bus.go:132`), so the API is the only live caller.

| Run | Specification | Shows |
|---|---|---|
| `platform` | `CreditSpec` | always: `AtMostOneSuccess`, `NoPointsFromNowhere` (and the tier fits the balance); while calls have not overlapped: `BalanceIsSum`, and without a fault `CreditedOnceUnlessFault`; and `ImplementsLedger`: the six steps of a call implement the abstract ledger |
| `lc_partial_violated` | `CreditSpec` | a fault after `Save` leaves points without a key |
| `lc_replay_violated` | `CreditSpec` | an event that comes again is compensated, although its points were credited (`ReplayHasNoEffect`) |

Concurrent calls overwrite each other's balance, so `BalanceIsSum` is a property
of calls one at a time; what concurrency leaves is the bound
`NoPointsFromNowhere`.

`CreditLedger` is what a customer and a caller may count on, without steps, rows
and keys. A call posts its points in one step (`Post`), is answered once (`Answer`),
and may then be declared failed (`Undo`). The mapping takes the balance from the
customer's row (0 without one), `posted` from `saved`, `alone` and `sound` from
`overlap` and `faults`. `undone` are the calls whose own failure was compensated
(`Undone`). The compensation of a refused duplicate contradicts a ledger, and is not
mapped to one of its steps: it is a stutter of the ledger and the subject of
`lc_replay_violated`. How much a step promises depends on the last two, because
the code's guarantees do: postings of calls that run alone add up, others only never
exceed what was earned; success always means that the points were posted and no other
call of the event succeeded, a duplicate that another one was posted; an error means
that nothing was posted as long as calls run alone and nothing has failed, and then no
call is declared failed at all. `Crowd` and `Disturb` are where the stronger
promises end.

**Bounds.** Four calls of one customer: two deliveries of one event, a request
without an event id, and a request with no points that names the same event. The
amounts put balances on the thresholds 500 and 2000 or between them. Deadlock is
not checked: all calls end.

**Proofs.** `CreditAndPageProofs` proves `DuplicateIsJustified` and
`OnlyDuplicatesCompensated` (proved only) and the safety properties of crediting
above, for any calls, customers, events and amounts. There are two invariants, both in
`LoyaltyCredit`. `IInv` serves the first two: `Progress` says what a call has done
when it is about to take a step, `Keyed` that a key stands for a call that saved and
published, and that a success stands for a key. A second success would need a key that
is not there yet. `BInv` adds what is needed about points. `Worth`: a balance in the
memory of a call that is about to credit or save is at most what was earned, and its
tier fits it, whatever was overwritten since the call read it; so a late save cannot
bring in points nobody earned. `Serial`: while calls have not overlapped the bound is
an equality. `Undisturbed`: if nothing failed either, the key is there as soon as the
call that saved is over, and not while another call is past the check, and only
refused duplicates are compensated. The points of a customer are kept in `earned`
rather than summed over a set of calls, since a fold over a set needs an induction.

`LedgerKept` is the refinement, `CreditSpec => ImplementsLedger`. It needs `BInv`, and
`Told`, which says that a call is answered exactly when it is over and compensated
only after it was refused. `Save` is the posting (`SavePosts`), where `Serial` and
`BalanceIsSum` give the sum, `Worth` the bound and `Undisturbed` that the event was
not posted before; every `Return` is an answer (`ReturnAnswers`), and one lemma goes
through the eleven steps of a call (`CallImplements`). `LedgerPromises` shows that the
abstract specification says enough: from its steps alone, balances are what was
earned, an event has one success and, undisturbed, one posting, and no credit is
declared failed.

## 5. Fulfilment saga

`FulfillmentSaga` follows the handlers of the saga's two topics: read the row,
save it, save it as completed, publish, acknowledge. Each handler works on its
copy `state[t]` of `row`, which is saved whole. `unacked` counts the messages of
a topic that are still to be handled, `handled` the topics of which `Handle` has
accepted a message. A failed step leaves the message for another delivery; a
crash keeps the row and the messages of `Durable` topics, at most the critical
topics of the bus, which `inventory.stock.reserved` is not among. The repository
is external: the code declares its interface only, and nothing registers the
saga, although its comment says that `register.go` does.

| Run | Instance | Shows |
|---|---|---|
| `services` | `FairSpec` of `MCServices`, 2 messages a topic, 2 faults | while handlers have not overlapped: `CompletedIsAnnounced` (unless a fault hit between the second `Save` and the publication) and, without a fault, `ReadyEventually` |
| `saga_lost_update_violated` | `SagaSpec`, 1 message a topic, no fault | two saves overwrite each other and the order is never announced |

The bus runs the handlers of different topics side by side, so what is said of
handlers that have not overlapped (`~overlap`) speaks of events far enough apart
in time. Two messages of a topic are a prerequisite and its duplicate; two
faults are one for each handler. Fairness is that of the handlers: a message that
can be delivered is, and a handler that runs goes on; publishing a prerequisite
is not fair. Deadlock is not checked: everything may have been handled.

**Proofs.** `ServicesProofs` proves `ReadyOnlyWhenBoth`,
`ReadyAtMostOnce`, `CompletedIsAnnounced` and `CompletedKept` for any number of
messages and faults and any durable topics; no run repeats the first two and the
last. `Provenance` says that a flag, in the
row or in a handler's copy, stands for a published message; it survives every
lost update, which only ever takes flags away. `Turns` says, as long as handlers
have not overlapped, that at most one is busy, and what the row and the
announcements are at its step. `Deliveries` ties a busy handler to a message that
is not acknowledged. The assumption `SagaAssumption` is about the constants only.

## 6. Application lifecycle

`AppLifecycle` is one process from `bootstrap/main.go` to its end. `main` is where
the main goroutine is; beside it run the signal goroutine (`Signal`,
`SignalStops`), drivers' goroutines that stop the application or end the process
(`DriverStops`, `ServerFails`), and HTTP requests (`RequestStep`), which ask for
the driver manager. `Hooks` has the handlers of the three hook points and the
round that is running: `Execute` in any order, since it ranges over a map,
`ExecuteWithExclude` in the order of the keys (`Rank`), both up to the first
failure. `DriverManager` has both managers; `AppLifecycle` uses v2, as
`app.Driver()` does, with its lazy and unlocked creation (`mgr`).

`cmd/commands.go` registers the commands master and worker. The constructors of
http, message-broker and all are in `cmd/` with their registration commented out,
and are modelled as they stand. The http and message-broker commands start their
driver and return at once, so the process shuts down again; only master, worker
and all stay.

The run `lifecycle` has five commands, five drivers, one request, a program's own
handler at every hook point, whose key sorts before the application's, and a
second signal. It shows that an orderly end has closed each started driver once
and no other, and the data sources after them (`ClosedInOrder`); that the stop
handlers run twice and the data sources are closed once all the same, unless a
program's stop handler failed (`StopHooksRun`); that there is one manager
(`OneManager`); that a command reaches its drivers configured in every order of the
hooks (`Configured`). `StopEnds` is liveness: the shutdown, by the context or by
fx, is not held up by a request that waits for the manager's mutex.

**Fairness.** Each goroutine runs when it can. The `Init` of worker, otel and nats
talks to another process and may block for good, so only that of master and echo
is fair. Signals, failures and requests are not. Deadlock is not checked: the
process ends.

**Proofs.** `LifecycleProofs` is about both specifications. Of the manager on its own
(`ManagerSpec`) it proves, for any drivers and number of rounds, that v2 never
forgets a started driver (`NoDriverForgotten`), closes only what started, once
(`ClosedOnceIfStarted`), and finds only open drivers (`LookupFindsOpen`); the run
`platform` checks the second. The invariant is a `Ledger` per driver, which says
where it is between `RunDriver` and `Close`, and `Loop`, what `CloseAllDriver` has
still to visit; the mutex is needed where a driver is appended during a round. v1 has
none of the three properties: it keeps a driver whose `Init` failed and closes
without the mutex.

Of the application (`Spec`) it proves `OneManager`, `ClosedInOrder`, `StopHooksRun`
and `Configured`, for any number of requests, any further keys and drivers, any
ranks of the keys and any subset of the five commands. None is inductive; `LifeInv`
adds

- `ManagersInv`: the manager is made by main before any request can ask for it. This is
  why the check outside the mutex in `app.Driver()` is harmless;
- `DriversInv`: the manager's own invariant, and that no driver but the one main is at
  is between `Init` and the append, so that a round of closing misses none;
- `KeysInv`: which keys each hook point has at each stage, and which of them the
  current round has still to run;
- `DataInv`: the after hooks have still to load the configuration and open the sources,
  or have done so or failed; the handler that closes them exists only in the last
  round;
- `UserInv`: how often a program's own stop handler has run, by where main is.

`LifecycleAssumption` fixes the constants to the names in the code: the three hook
points, the five keys and the five drivers exist, and commands are among the five.

## 7. Buses, orders and request-reply

`EventBus` covers both wirings: the driver (`drivers/watermill`) and the fx module
(`drivers/watermill_fx`). Publish and Subscribe each choose a transport, by topic
and by whether the SQL backend is set. Watermill is external: the go channel hands
a message to the subscriptions that are running, the SQL transport keeps a row
until the group has acknowledged it. A message that does not decode is
acknowledged, one whose handler fails comes again. The events are one with a
payload and one without (`Bare`) on a critical topic, and one on an ordinary
topic; a crash and a failing handler are allowed once each. `NoneLostWhileRunning`
is about what is published while the router runs. If the SQL backend is set after a
`Subscribe` (`lateSql`), the handler listens on the channel while `Publish` writes to
SQL: the event then waits in the table until a restart, and the property says that it
is kept there. Nothing sets the backend today, so that critical events take the channel
as well. `Dispatch` and `Ask` of the command and query buses look a name up in a map
that the wiring has filled; they have no state of their own and are not modelled.

`OrderDetail` has `SaveOrder` statement by statement, the listener that answers from
the same tables, and the two clients of request-reply, each behind a circuit breaker.
`gobreaker` and NATS are external. `ReplyIsComplete` holds because items are written
before the order's row, so that an order that is found has all of them. Which order an
item belongs to is known from the call that writes it: the table `order_items` has no
column for it, and the reply carries no items. A failed save leaves its items behind;
no reply shows them. A missing order is an error to the breaker as well, so asking for
unknown orders opens it. `MaxCount` bounds the breaker's counts and `Attempts` stands
for the fifty attempts of `GetDetailCustomer`, which it makes whether or not one
succeeds. **Fairness**: a caller goes on, timers expire, the breaker's timeout passes,
a message that can be delivered is.

The run `services` checks both, and the saga, with `NoneLostWhileRunning` (and what
is acknowledged was handled or did not decode), `PendingIsSettled`,
`ReplyIsComplete`, `OneFailureTolerated`, `CallReturns`.
`eventbus_decode_violated` is the finding below.

**Proofs.** `ServicesProofs` proves the three safety properties. For the buses the
invariant `BusInv` adds `Routed` (unless the SQL backend came late, a handler listens
where `Publish` sends its topic, and a handler that listens to SQL always does) and
`Owed` (what is owed was published under a running router, by the same route). For
request-reply `DetailInv` adds `RowsComplete`, which carries the order of
`SaveOrder`'s statements to the reply that is on its way, and `Counted`, what the
breaker has counted before the second failure. Events, handlers, topics, orders,
callers and the bounds are arbitrary; `BusAssumption` and `OrderAssumption` give their
types.

## 8. Platform components

The run `platform` checks these with safety properties only. Each module also
states the types of its variables; `TypeOK` of `MCPlatform`, `MCServices`
and `AppLifecycle` holds in their runs' instances and is left
out of the runs, whose properties are about behaviour.

- **Driver managers** (`DriverManager`): both versions, two drivers, two rounds of
  closing.
- **Log batches** (`LogBatch`): slices as Go has them, an array in a heap and a
  length. A handler derived with `WithAttrs` shares the array. `EachRecordOnce`: a
  record is in one place unless a handler was derived over an existing array, and
  whatever is shared, a batch holds records only. Two goroutines, batches of two, five
  records, enough to grow the array, truncate it and write over it.
- **Log records** (`LogRecord`): a handler is derived with groups and attributes, a
  record with attributes of its own and perhaps its source is handled, and `Handle`
  walks back over the derivations one step at a time, with the stack of `tools/stack`,
  from which `PopByLength` takes everything, the last first. `DataAsCollected` says what the
  line that is logged shows: an attribute is under the group it was given in; of two
  groups of one name the first stays; of two calls with one key the later wins, within
  a call the first; the record's own attributes are outside all groups; and nothing
  else shows. Up to four calls, with lists that repeat a key and lists that do not.
- **Data sources** (`DataSources`): validation, connecting up to three databases,
  aliases, the typed lookup of fx, closing. `open` are the handles of
  `database/sql`, not connections to a server; the pgx pool that `Postgres.Connect`
  makes besides, which nothing closes, is not among them. `AliasResolves` holds although an
  adapter serves several databases; `LeakNeedsSharing` says when a handle is left
  open.
- **HTTP** (`HttpApi`): the middleware, five kinds of route, and the error handler,
  for two clients that send one request after another. What is behind a route is
  reduced to what it returns: the balance query finds a row or fails (its cache stores
  nothing in either wiring), a credit succeeds or fails. `ErrorBodies`: in production
  a client reads an internal error's words only about a body of its own that did not
  bind, since the error handler masks status 500 alone, and every error it can read
  carries its request's id. `OnlyLoggerAborts`: the request logger is outside
  `Recover` and dereferences a nil error when the response has an error status and no
  error comes back. That is so when a handler itself replied with such a status, and
  when `Recover` has answered for a handler that panicked, since it answers and
  returns nil; nothing else costs a client its answer.
- **Operator commands** (`OperatorControl`): connections that block on a channel,
  the control loop, and the command table. `LinesInOrder`: no line is lost, doubled
  or overtaken. Registration turns a name to upper case and lookup takes it as typed,
  which `control_case_violated` holds against the comment that calls names
  case-insensitive (`operation/master.go:31`). Nothing starts the listener today.
- **Order stream** (`OrderStream`): `SubscribeEphemeral`, which the driver uses, and
  `SubscribeEventSourcing`. `BackOff` overrides `AckWait`, so the first redelivery
  comes after five seconds; a message behind two others in the buffer exceeds that.
  `DeliveryGuarantee` says what each consumer may count on. `MaxDeliver` is 3 in the
  model and 5 in the code. JetStream is external.
- **Telemetry** (`Monitoring`): three providers, each of which may fail, and
  `Close` under either manager (`EachProviderShutOnce`).
- **Pages** (`Paging`): a walk over the pages while rows are inserted, with the
  limits 3 and 2 for the code's 100 and 10. `WithSort` knows only "descend",
  `WithSortV2` also "desc". The ORDER BY comes from ranging over a map, so sorting
  by two columns gives each page an order of its own; `WalkIsComplete` is about one
  unique column. The helpers discard what `tx.Order` and `tx.Scopes` return, so they
  have an effect only on a statement that is already chained, which the model assumes.
  Nothing in the repository calls them.
- **Crediting** (`LoyaltyCredit`) is the subject of section 4.

**Proofs.** `PlatformProofs` proves seven of these properties, `LogProofs` proves
`EachRecordOnce` and `DataAsCollected`, `CreditAndPageProofs` proves `WalkIsComplete`
(beside crediting, with which paging shares nothing), each from an invariant of its
component:

- `HttpInv`: what is on its way back from a handler (`Outgoing`: which kinds, statuses
  and words an outcome can have, and what `Recover` makes of a panic), and what a client
  has got (`Answered`).
- `OtelInv`: until the cleanups run nothing was shut down and every exporter made is
  behind a registered cleanup (`Registered`), but for the one being built. So a failure
  in the middle of `setupOTelSDK` cleans up what was made, once.
- `StreamInv`: `Accounted` follows a message from the stream over the buffer to the
  callback; `AtMostOnce` says that without acknowledgements the buffer has no message
  twice and none that was received, but for the one in the callback.
- `ControlInv`: a line being sent was typed. `LinesInOrder` is itself inductive once
  it is stated about all lines that were sent, the executed ones and those in the
  channel (`Taken`): they are exactly the lines of each connection so far, without
  repetition, earlier ones first.
- `SourceInv`: `Mapped` says that the maps are those of the databases opened so far (for
  an alias, the last one configured under it), and while closing, that what is open is
  shared or still to be closed.
- `LogInv`: `SlicesSound` (a slice lies within its array), `RecordsKnown` (what is in a
  slice or a batch was accepted; a record still to be appended is nowhere else),
  `ArraysApart` (no two handlers write to one array, unless one was derived over it)
  and `NotCopied`. Without `ArraysApart` an append in one handler could overwrite a
  record of the other, which is what happens once an array is shared. The number of
  goroutines and records and the batch size are arbitrary.
- `RecordInv`: `Placed` (the derivations are a list of groups and of attributes that
  know their place), `OwnPlaced` (so are the record's own), and during the walk
  `Waiting` and `Visited`: the stack holds the attributes met since the last group,
  those that show lowest, and the groups built so far show what `DataAsCollected` asks
  of the part of the list that has been walked. A group that is met takes the stack
  with it, which is why the walk is right from the back and would not be from the
  front. That the attribute which shows is the last of its key is again a
  least-counterexample argument (lemmas `LeastOf`, `Greatest`). Groups, keys, lists
  and the number of calls are arbitrary.
- `PageInv`: all pages before the current one were full, the last one reaches beyond the
  rows there were when the walk began, and what was seen is the beginning of the table in
  the order asked for (`SeenInOrder`), which in descending order an insert spoils. That a
  table sorted by a unique column has only one order, whatever its size, is an induction:
  it is made by looking at the first row that is out of place, with the library's
  theorem that every non-empty set of numbers has a least element (lemmas `Least`,
  `Ascending`, `Descending`).

## 9. Findings

Each is the counterexample of a run.

1. `mw_admission_violated`: a worker that dies after its report and before `Start`
   ends the registration loop (`master.go:95`); the accept loop's own comment
   (`ipc_server.go:179`) says that one failure must not stop the rest.
2. `mw_eviction_violated`: with a reused pid, `eliminateWorkers` can remove the new
   worker (`registry.go:105-115`), although `master.go:37` promises safe additions
   and removals (of the mutex `Master.Mu`, which nothing locks).
3. `lc_partial_violated`: crediting is not atomic (`credit_loyalty_handler.go:109`):
   its comment (`:39`) promises that all steps commit together, and no caller opens
   a transaction.
4. `lc_replay_violated`: an `orders.order.completed` that comes again is refused as a
   duplicate, and `OnOrderCompletedHandler` publishes a credit-failed event for it
   (`on_order_completed_handler.go:97`), although `:40` calls the handler idempotent and
   the repository's README (line 4716) says that a replay has no side effects.
5. `saga_lost_update_violated`: saga handlers that read the row together lose a flag
   (`order_fulfillment_saga.go:77`), against `:35`.
6. `eventbus_decode_violated`: an envelope's payload is an interface, which
   `json.Unmarshal` cannot fill from an object (`drivers/watermill/event_bus.go:132`).
   Events with a payload are acknowledged and never handled, although
   `pkg/cqrs/event.go:24` and `on_order_completed_handler.go:41` have them delivered at
   least once. The models of crediting and of the saga start from handlers that are
   called.
7. `control_case_violated`: "noop", typed as it is registered, is unknown and ends the
   control loop (`operation/master.go:38`), against `:31`.

What the models show besides, without a run of its own:

- the registry's map is ranged over without the mutex (`registry.go:106`, `:134`);
  `MasterWorker` has the runtime's fatal error as the action `MapFatal`, and all
  properties hold with it;
- the saga is saved as completed before its event is published (`:85`); a fault in
  between loses the event for good. `CompletedIsAnnounced` names that moment
  (`interrupted`) as the only one;
- a handler that panics costs its client the answer (`drivers/http/echo.go:69`), and the
  words of a decoding error reach the client in production (`api/loyalty.go:48`).

## 10. What is not modelled

- `InitOld` of the master driver and the handshake it used, replaced by `Init` and
  the gateway; `Worker.Shutdown`, `Send` and `SendPing`, which nothing calls.
- What operator commands do to workers (drain, chat), and `ScaleUp` and
  `ScaleDown`, which are empty. A report that is not a number, which the worker
  command cannot send; more than one master on the same socket path.
- `DebitPoints`, which no handler calls; amounts with cents.
- The bytes of a log message: `LogHandler` writes `l.buf` outside its mutex, a data
  race on the text of a message. Attributes whose value is itself a group.
- The search helpers of `gorm/utils`, which add conditions to a statement;
  creation and deletion of streams and consumers; parsing of the configuration
  file; the migration and version commands.
- The Haproxy daemon and the asynchronous command, which no command runs; the
  stand-alone descriptor-passing sample; generated code and mocks.
- `go.mod` names the module `mox`, while 39 files import `goodin/...` without a
  replacement; the models read these imports as the repository's own packages.
- `internal/base_app.go` declares `ctx` and `cancelFunc` twice in one struct and
  uses `driverv2` without importing it; the model follows the evident intent, one
  context and one manager per process.

## 11. What is only model-checked

- Liveness: `MasterTerminates`, `OrphansEnd`, `StoppedWorkerEnds`, `GoneIsEvicted`,
  `AdmittedUnlessLoopDead`, `StopEnds`, `ReadyEventually`, `PendingIsSettled`,
  `CallReturns`. The prover handles neither fairness nor ENABLED.
- The types of the components (`TypeOK` of the MC modules) are proved as far as an
  inductive invariant needs them; `MasterWorker`'s is a theorem of its own.
