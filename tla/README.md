# TLA+ models of moirae

moirae is a TypeScript framework on NestJS for event-sourced applications: commands, queries and events
travel over publishers to busses, aggregates are rebuilt from event streams, and sagas spread a transaction
over several streams. `src/moirae` holds the framework (core, and its TypeORM, Redis, RabbitMQ and node
packages), `src/demo` an application with accounts, orders and inventories built on it. Paths below are
relative to `src/moirae/core/lib` unless they begin with `src/`.

The models are TLA+ modules checked by TLC and, for the parts named under *Proofs*, proved with TLAPS.
Run them here with `tlc -config X.cfg M` and `tlapm M.tla`. `PROJECT.json` lists every run, the mutated
forms that show that each property can fail, the source lines behind every definition, the hazards and the
disagreements between the code and its documentation.

## The system

| Component | State | Operations | Interacts with |
|---|---|---|---|
| `BasePublisher`, `MemoryPublisher` (`classes/base.publisher.ts`, `publishers/memory.publisher.ts`) | status, queue, response map | bootstrap, publish, subscribe, listen, unsubscribe, acknowledge, shutdown | its `Distributor` calls the bus's handler; the handler's promise acknowledges |
| `Distributor`, `Queue`, `AsyncMap`, `StateTracker` (`classes/`) | subscriptions; linked map; answers; a state | subscribe, publish, clear; enqueue, dequeue; set, waitGet; set, await | one `EventEmitter` shared by all |
| `CommandBus`, `EventBus`, `QueryBus` (`busses/`) | handler maps | execute (local or published), executeLocal, publish, listen | each is the one worker of its publisher; the event bus publishes commands; the command bus asks the saga manager |
| `Saga`, `SagaManager` (`classes/saga*.ts`) | rollback commands per correlation, in the cache | process, rollbackSagas | event bus, command bus, cache |
| `AggregateRoot`, `AggregateFactory` | event history, last committed index, the aggregate's fields | mergeContext, apply, commit, rollback, getAggregatePriorTo, reserveValue, releaseValue | store, cache |
| `MemoryStore`, `TypeORMStore` | streams | appendToStream, readFromStream | publishes what it appends |
| `MemoryCache`, `RedisCache`, `TypeORMCache` | keys, sets | addToSet, removeFromSet, readFromSet, ... | used for reservations and by sagas |
| `RabbitMQPublisher`, `RabbitMQConnection`, `RabbitPubSubEngine` | channels, consumers, active messages | as `BasePublisher`; reconnect | broker, messenger |
| `MessengerService`, `Explorer`, `DomainStore`, `ConstructorStorage`, decorators, node plugin | registries | on, publish; lookups | filled at the start |
| Node plugin (`src/moirae/node-plugin`) | a container of injected handlers, the core's busses | init, inject, teardown | publishers, broker |
| Demo account, order, inventory, saga | projections in a database | command, event and query handlers, filters | all of the above |
| Demo gateway | the web socket's subscriptions | posts of the controllers, subscribe, event | command bus, event bus, clients |

**Execution.** Node runs the code between two `await`s without interruption and interleaves promises at
them. An action of a model is such a block; a value read before an `await` and used after it is kept as
local state of the operation in progress (`Work` in `OrderSaga`, `work` and `eventWork` in `Ledger`, `phase` in `Reservation`, `pc` in
`TypeORMCache`). Emitting on a `Distributor` is synchronous: the block that publishes also starts the handler.

**What is hard here.**
- The publisher's status is written by `advanceBus`, `acknowledgeEvent`, the bootstrap and the shutdown, and
  is all that keeps one message from overtaking another. A message that finds the queue not empty relies on
  somebody else's acknowledgement.
- Handlers decide on a merged copy of a stream. The store checks no version, so a check is only sound if
  something else serialises the handlers.
- A transaction over two streams is held together by rollback commands in a cache and by failures that
  publish commands, which may fail.
- Names are unique through a reservation, a projection that lags and an event to come.
- Answers may overtake the caller that waits for them, or come after its timeout.
- Nodes that share a work queue get messages again when a channel closes; what is acknowledged, and on which
  channel, decides whether one is lost or run twice.
- A cache in a database is not atomic; a cache in memory does not survive a restart.
- Between the save of an event and its publication a process may die; between the reading of an aggregate and
  the saving of its projection another may write; between a client's request and its subscription all may be over.
- A query crosses two queues, and its answer, its timer and the death of a process on either side race.

## Modules

| Module | Models | Lines of code it stands for |
|---|---|---|
| `PublisherCore` | the in-memory publisher as a value: `Advance`, `Enqueue`, `Acknowledge`, `Attach`, `Detach`, `Clear` are functions from publisher to publisher, one per synchronous block | `memory.publisher.ts`, `base.publisher.ts`, `distributor.class.ts` |
| `SerialBus` | abstract: messages are handed over in order, one at a time | |
| `MemoryPublisher` | `PublisherCore` with Nest's lifecycle, any number of publishers' callers, listeners, one worker, rejecting handlers | the same |
| `QueryBus`, `MCQueryBus` | `QueryBus.execute` and `AsyncMap.waitGet` over a `PublisherCore` | `query.bus.ts`, `async-map.class.ts` |
| `OrderTransaction` | abstract: an order is new, refused, open, fulfilled or cancelled | |
| `OrderSaga` | two `PublisherCore`s (commands, events), both busses, the saga, the cache, the store and the demo's handlers for an order | `command.bus.ts`, `event.bus.ts`, `saga*.ts`, `aggregate-root.class.ts`, `src/demo/account`, `src/demo/inventory` |
| `Ledger`, `MCLedger` | an account from the client's post to the event on its web socket, in the monolith and in clusters, over `TypeORMStore` | `src/demo/account`, `src/demo/gateway`, `command.bus.ts`, `event.bus.ts`, `typeorm.store.ts`, `rabbit-pubsub.engine.ts` |
| `Reservation`, `MCReservation` | creation of inventories with unique names, over a cache that may fail | `src/demo/inventory/src/handlers/`, `memory.cache.ts`, `redis.cache.ts` |
| `Aggregate` | an aggregate's history, commits and rollbacks | `aggregate-root.class.ts`, `aggregate.factory.ts` |
| `TypeORMCache` | addToSet and removeFromSet between their awaits | `src/moirae/typeorm/lib/caches/typeorm.cache.ts` |
| `RabbitPublisher` | nodes that consume one work queue, with the broker | `src/moirae/rabbitmq/lib/publishers/rabbitmq.publisher.ts`, `base.publisher.ts`, the close listener of `rabbitmq.connection.ts` |
| `RabbitQuery`, `MCRabbitQuery` | queries between processes: domains, work queues, the response exchange, `AsyncMap` at the asker, the node plugin at the other end | `rabbitmq.publisher.ts`, `query.bus.ts`, `base.publisher.ts`, `src/moirae/node-plugin/lib` |
| `SequenceLemmas` | lemmas on sequences and folds that several proofs cite | |
| `MemoryPublisherProofs`, `CoreProofs`, `OrderSagaProofs`, `ReservationProofs`, `RabbitPublisherProofs`, `RabbitQueryProofs`, `LedgerProofs` | theorems and their proofs | |

`OrderSaga` and `QueryBus` INSTANCE `PublisherCore`, so the publisher that is proved correct in
`MemoryPublisherProofs` is the one they run on. `Ledger` takes of the publishers what `MemoryPublisherProofs` and
`RabbitPublisherProofs` show: one message at a time, or the prefetch as the lock and redelivery after a death.
Definitions called *a mutant* or *mutated form* are not part of a specification: each is the operator after it with
a plausible mistake, and the property listed with it in `PROJECT.json` fails when the mistake replaces the operator.

### MemoryPublisher

State: `pub` (status, queue, the distributor's subscriptions, the handlers attached to the EventEmitter, and
the handler promises not settled), `hook` (Nest's lifecycle), `responses` (keys of `_responseMap`), and the
histories `published`, `delivered`, `acked`. Messages are values; their serialisation is left out. `Queue`, a
linked map, is a sequence.

If `wired` is false the public methods are called in any order; if it is true in the order the
application uses: the bus subscribes when it is bootstrapped, before its publisher, which is transient, and
nothing is published while the bootstrap awaits. The choice is made in `Init`, so one run has both, and the
properties that depend on the order of calls (`NoStall`, `EveryMessageAcknowledged`) ask only of the wired ones.
`Workers` has at most one member, as `interfaces/publisher.interface.ts:29` asks.

### QueryBus

State: the publisher `bus`, the keys `responses` of its response map, and for each query where its `execute`
awaits. `Asks` lets the handler of a query execute another one on the same bus. A timer may
expire at any time.

### OrderSaga

An order is for one unit at price 1, and is its command's `$correlationId`; the streams hold the events after the
creation of the account (`Funds`) and of the inventory (`Stock`). `CreateOrder` is a local command and runs
beside the busses; `RemoveInventory` and `RollbackAccount` go through the command publisher, events through
the store's. Error paths are those of the code: `rollbackSagas`, then the filter, if there is one.
`Failures` are the sets of event types whose handlers the database may fail, one of which is chosen in `Init`. The
query for the price is left out: it reads what no modelled operation changes.

An event has the handlers that a module of the demo provides, and no others. `RollbackFundsWithdrawnHandler` is
declared by none, so nothing saves the account when a compensation puts funds back, and the projection
keeps the balance without them (`order_projection`).

### Ledger

One account, and a client that posts its creation, deposits and withdrawals through the gateway. `Deployments` are
sets of processes with the handlers of the account: the gateway alone (the monolith), another process (the cluster
of the end-to-end tests), or several. `publisherType` is that of all publishers and of the pub/sub engine; a cluster
does not start with in-memory ones.

State: `store` is the stream with, for each event, the request that caused it; `row` how much of the
stream the projection was saved from; `work` where the command of each request is, with the process that handles it
and how much of the stream it merged; `commandQueue`, `eventQueue` and `eventWork` the busses'; `feed` what the
pub/sub engine carries; `subscribed` and `seen` the client's side of the web socket. `patient` is a history: the
requests posted after the client saw the account created. The balance is a fold of the stream, a set with
one number, or none where JavaScript would have `NaN`.

`Save` and `PublishEvent` are the two halves of `TypeORMStore.appendToStream`, and a process may die between them:
`CrashMonolith`, with in-memory publishers, loses what is in memory and the web socket, `CrashAccountant` gives the queue back what the process
held, and the command starts again, its event stored once more. A client that does not wait may have its
deposit stored before the creation, whose event then sets the balance; a redelivered creation sets it again.
The events are handed to the listeners after their handlers; in the cluster the gateway's event bus has no handler to
wait for and is faster than the projection.

The database may reject whatever a handler reads or saves. `CommandRejects`: `BaseBus.executeLocal` catches it, the command
is acknowledged and `failed`, and nobody tells the client; if it was the filter that could not save its event, nothing catches
that, and in a cluster the command is `stuck` with its process (where Node ends the process on an unhandled rejection instead,
that is a crash). `HandlerRejects`: `allSettled` takes it, the event goes on to the
listeners with the row as it was (`rejected`), and nothing but a later event of the account brings the row up to date. A save
that is rejected has saved nothing. `MaxFailures` bounds what the database rejects.

What is kept out: a lost connection, by which a publication itself would reject, and a save whose answer is lost but which was
done; a cache that rejects in `rollbackSagas`, which is asked although no saga concerns these commands; the restart of a
RabbitMQ monolith or of the only process of the account in a cluster, as a process that is started on waiting messages is
`RabbitPublisher`'s subject; the death of the gateway of a cluster; the `x-requestorId` header, which no handler reads.

### Reservation

`phase` is how far each `CreateInventory` and the handling of its event have come, `reserved` the cache's set,
`projected` the rows of the projection. `DatabaseFails` lets queries and saves reject, `CacheFails` the two statements
of which `RedisCache` makes `addToSet` and `removeFromSet` (the set is changed, then its expiration renewed:
`ReserveFails`, `RefuseFails`, `ReleaseFails`), `Restarts` lets the node crash at any point, which ends the handlers in
progress and the in-memory queue, and `CacheSurvives` tells a Redis cache from the in-memory one. With a
persistent store, an in-memory cache and a restart two creations do get one name: TLC finds `UniqueNames` violated
with `CacheSurvives = FALSE`, and the theorem assumes `Restarts => CacheSurvives`.

### Aggregate

One number stands for the aggregate's fields. `Additive = TRUE` is the demo's account (events add, rollbacks
are opposites), `FALSE` is the `TestAggregate` of core's tests, whose rollback asks `getAggregatePriorTo`. The
histories of the aggregate and of the store hold the same event objects, so `commit` writes the correlation into
both. `_lastCommittedIndex` starts undefined, which `slice` treats as the model's 0. `MaxCommits` is how often a handler
may commit an instance: the demo's do so once, the run has them do so twice. The second commit stores the events of the
first again, because `_lastCommittedIndex` stays what it was, although `commit` is documented "Commit all uncommitted
events"; `StoredOnce` says that no other step stores an event again, and the rollbacks and merges that come after such
a commit are among those of `RollbackRestores`.

### TypeORMCache

One value of one set. `root` and `row` are the database's rows, each with the constraints its entity declares;
`pc` is where each caller awaits. A value is removed by who has added it. `dropSet`, which nothing calls, is left out.

### RabbitPublisher

`node[n]` is the publisher of one process: Nest's hook, the status, the work channel, whether it consumes,
`active` (the keys of `_activeInbound`), `running` (handler promises per message), and the broker's and amqplib's part of
the channel: `unacked` and `outgoing`. `queue` is the work queue of one domain, a set, as redelivery keeps no order.
The role is that of commands or of events between nodes with the same domains, where a message goes to one node.
A delivery tag is known to the broker exactly if its message is in `unacked`, because a later delivery of a
message overwrites the earlier one in `_activeInbound`.

Two things follow from the code and are part of the model. The consumer's callback rejects a delivery that comes
before the publisher is IDLE but goes on to handle it; the end of that handler acknowledges a settled delivery, and
the broker closes the channel, so a node started on a queue that is not empty may never consume again. And a lost
connection is not opened again: `crashed` is `!err`, while amqplib gives the close event of a lost connection an error.

### RabbitQuery

State: for each process whether it is `up`, `connected` and `listening` (at the end of `init()`); `bound`, the domains
with a work queue, which outlives the processes; `call`, where each `execute` is; the work queue of each domain, the `jobs`
that the consumers of each process are at, the response queue and the response map of each process; and the histories
`answers`, `acked` and `redelivered`.

A query of a domain of the asker's own is executed there: `throwError` is ignored, only a missing handler rejects.
Any other is published with the asker's node id; its answer, or its error in a `ResponseWrapper`, comes back
through the asker's exclusive queue, and is thrown only with `throwError` and where the class of the error is registered.
A missing handler leaves its message unacknowledged and the consumer of the domain stuck; where Node ends the process
on an unhandled rejection instead, that is a `Crash`. The serving processes are those of the node plugin, whose
`init()` starts the consumers before the busses subscribe: a delivery in between finds no listener and stays in its queue.

A process may die, or lose its connection, which it does not open again. The node id is a static of the
process's configuration, so a late answer may reach the process that took the asker's place. A second answer
comes only after a redelivery.

## Runs

| Run | Question | Bounds | Result |
|---|---|---|---|
| `publisher` | is the publisher a serial FIFO bus under any calls, and is every message acknowledged as Nest wires it? | 3 messages, 2 with an answer, 1 may reject, 1 worker, 1 listener; each published once | holds; only a rejection or the shutdown stops the bus |
| `query_slow` | is an answer lost between publish and wait, do callers settle? | 4 queries, one executed by another's handler, timers at any time | holds |
| `order` | is the transaction kept over both streams, are compensations repeated, do failures end? | 3 orders, funds for 2, stock for 1, without failures; 2 orders with any event handler free to reject | holds |
| `order_overdrawn` | can an account be overdrawn? | 2 orders, funds for 1 | fails |
| `order_projection` | does the projection show the balance after a compensation? | 1 order, no stock | fails |
| `names` | are names unique, is a name given in the end? | 3 creations of one name and 1 of another; failures of the database and of the cache, restarts, a cache that survives | holds |
| `aggregate_account` | does the stream replay to what was decided, what stores an event twice, does a rollback take the right events back? | 5 events, 2 correlations, up to two commits per instance | holds |
| `aggregate_first` | does a rollback by `getAggregatePriorTo` restore the number before? | 4 events | fails |
| `typeorm_holders` | is a value reserved once? | 3 callers, 3 rows | holds |
| `rabbit_queue` | is a message of a work queue lost, run twice, or never handled? | 2 nodes, 2 messages, 1 may reject, 1 interruption (crash, lost connection, shutdown), 2 runs of a message per node | holds |
| `rabbit_query` | has a query one place, what stays in the response map, is a domain served beside a stuck one? | 3 processes (a gateway without domains, one with 1, one with 2), 4 queries (a handler that answers, two that throw, one missing; one asked by the process that serves it), 1 interruption | holds |
| `ledger` | do the stream, the projection and what the client sees agree; is a request lost or carried out twice; can the account be overdrawn? | the monolith with either publisher, a cluster with 1 and with 2 processes; a creation with balance 1, a deposit and two withdrawals of 1, of which a client posts 3 (2 with two processes); 1 crash of the monolith with in-memory publishers or of one of two processes; 1 rejection by the database | holds |

The runs that fail check one statement of a comment or a test each, quoted under "findings" in `PROJECT.json`.
One promise of a comment does not hold in `Ledger` and has no run of its own: `EventBus.listen` is documented
"post-processing", and `src/demo/e2e-testing/tests/account.spec.ts:145` reads the account as soon as the client has seen its
event. In the cluster the gateway hands the event out while the account's process may not have saved the row, and TLC
finds `ListenIsPostProcessing` violated with `Deployments = {{node}}`. `SeenIsProjected` therefore has it for the
monolith only, and for local listeners everywhere.

Other deviations are part of the models, so that the properties that hold allow for them: a handler attached to
the EventEmitter survives `clear()`, a listener alone takes a message, a rejection leaves the publisher ACTIVE
(`MemoryPublisher`); a second `commit()` of an instance stores its events again (`Aggregate`); an event handler that
rejects before the saga has seen the event leaves the funds withdrawn (`OrderSaga`); a query executed
by a handler on its own bus ends by its timer (`QueryBus`); the second of two savers rejects
(`TypeORMCache`); a rejected delivery costs its node the channel, a rejecting handler blocks its node's prefetch
(`RabbitPublisher`). And in `Ledger`: an event whose handler rejected is not handled again, and one that an in-memory process had
saved and not handled when it died is never published (`CaughtUp` says that the projection is behind by these alone); a command that
the database rejected is gone although the client has its answer (`CarriedOutOnce`, `PatientIsServed`); the money of a redelivered command moves twice (`CarriedOutOnce`); a creation
forgets the deposits before it (`WaitingKeepsMoney`); two processes for one account overwrite each other's row and
each withdraw the last funds, as commands in the monolith do (`~Shared` and `~Local` in the properties).

**Why these bounds are enough to be interesting.** Three messages are the least with which one is handled, one
waits and one arrives; `publisher` reaches every combination of lifecycle and status. Three orders for funds
of two and a stock of one make a refusal by the account, a fulfilment and a compensation meet. Three competing
names give a holder, one that is refused for the reservation and one for the projection. Five events allow a
change under each correlation, the rollback of both and a deletion. Two nodes and two messages are the least with which
a message moves from one node to the other while its first handler still runs and another message waits. In
`Ledger` a creation, a deposit and a withdrawal, or two withdrawals of the same funds, meet at every step of one another; in
`RabbitQuery` the process with two domains is stuck with one while it serves the other, and each side of a
query can be the one that dies.
`MaxEvents`, `MaxCommits`, `MaxRows`, `MaxInterruptions`, `MaxRuns`, `MaxPosts`, `MaxPostsShared`, `MaxCrashes`, and `MaxFailures` are the only counters bounded in guards, and `FailingOrders` bounds who orders when handlers may fail; everything else is
bounded by the constants that are sets. The theorems below hold for every value of these bounds.

**Deadlock** is checked in the run of `MemoryPublisher`, whose subscriptions never end. The other systems
really come to rest (all orders placed, all names given, all queries answered, the work queue empty), so their configurations do not
check it; that they rest in a proper state is said by `AllOrNothing`, `EveryQueryReturns`, `NamesAreGiven`,
`EveryMessageHandled`, `DomainsAreServed`, `CaughtUp` and `PatientIsServed`.

**Fairness.** Weak fairness of the code that continues a settled promise, and of handlers and database calls
that come to an end (`Progress`, `HandlerEnds`, `HandleOrder`, `RunCommand`, `RunEvent`, `Create`, `Wait`, `Work`), because Node's
event loop runs every callback that is ready; of timers; of a bootstrap or `init()` that comes to its end (`BootstrapDone`,
`Subscribe`); and of the broker, which hands over what waits. New publications, orders and creations, rejections,
restarts and shutdowns are never fair, nor are the processes of `RabbitQuery` assumed to come up. No strong fairness is used.
`Ledger` states none: what it says of the end it says of the states at rest.

## Proofs

Proved with TLAPS for all values of the constants that satisfy the named assumptions, and any number of crashes:

- `MemoryPublisherProofs`: `TypeCorrect`, `StatusIsALock` (`OneAtATime`), `FirstInFirstOut` (`InOrder`) and
  `Refinement` (the publisher implements `SerialBus`), for any messages, any listeners and any calls, with one worker
  (`OneWorkerAssumption`); `NeverStalls` (`NoStall`) for the wired application. `OneAtATime` alone is not inductive: the
  invariant adds that as long as a message is
  handed over and not acknowledged the status is not IDLE and a promise runs or was rejected, that promises run
  only for the last message handed over, and that the histories fit the queue. The lemma on `Advance` is cited by
  `Publish` and `AcknowledgeEvent` alike, the two that advance the bus. `NoStall` needs to know besides that the worker
  subscribed before the bootstrap and that nothing is published during it (`WiredInv`).
- `CoreProofs`, of two parts that stand alone (the definitions of `QueryBus` begin with `Query` so that both can be extended
  together). `QueryBus`: `AnswersWakeTheirCallers` (`NoLostWakeup`), for any queries that execute any others. `Aggregate`:
  - `TypeCorrect`, for all constants. What is not obvious is `getAggregatePriorTo`: it finds the event it is asked for, so
    what it pushes are events of the history.
  - `RollbacksRestore` (`RollbackRestores`), for `Additive = TRUE` and any number of commits. The number of an aggregate is
    that of its history (`NumberInv`); a history comes to what a correlation has changed plus what the others have
    (`ReplayParts`, by induction over the history); and what a rollback applies comes to the opposite of what it looks at
    (`OppositeReplay`). Without the hypothesis it is false, as `aggregate_first` shows.
  - `EventsAreStoredOnce` (`StoredOnce`) and `CommitsAreReplayed` (`CommittedIsReplay`), for `Additive = TRUE` and any
    number of commits: both are about the first commit of an instance. `StreamInv`: until that commit the stream is the
    history up to `_lastCommittedIndex`, what comes after differs from every other event (though those before may be
    there twice, from a second commit of an earlier instance), and each stored event has a correlation. `Additive` cannot
    go: what `getAggregatePriorTo` pushes is in the shared history a second time.
- `ReservationProofs`: `TypeCorrect`, and `NamesAreUnique`, from `Restarts => CacheSurvives`. The invariant says that a
  name has one creation between its reservation and its release, that the name is in the set as long, and that a
  creation whose query found nothing has no competitor in the projection.
  The same module proves `OneReservation` (`OneHolder`) of `TypeORMCache`, the cache behind these reservations, for any
  number of callers and rows; the invariant ties the row a removal has found to the one that is there. The definitions of
  `TypeORMCache` begin with `Cache` so that both modules can be extended together.
- `SequenceLemmas`: induction over the indices of a sequence, from the well-foundedness of the natural numbers, and over
  sequences (`SequenceInduction`, with a set of sequences in the place of a predicate); from it, that a fold from the left exists, what
  each of its steps does (`FoldExists`, `FoldSteps`) and that a longer sequence is one step more (`StepsGrow`), and how
  messages occur, once and before one another, in tails and concatenations.
- `OrderSagaProofs`, for any orders, funds, stock and failing handlers, from `FundsAssumption`, `CorrelationAssumption` and
  `FailuresAssumption`: `TypeCorrect`, `StockIsNeverOversold` (`NeverOversold`), `RollbacksAreKept` (`WayBackIsKept`) and
  `OrdersAreCompensatedOnce` (`CompensatedOnce`), whatever handlers fail; and, where the choice of `mayReject` is that
  none does, `OrdersAreAllOrNothing` (`AllOrNothing`) and `SagaIsATransaction` (`ImplementsTransaction`, the refinement
  of `OrderTransaction`).
  - A reachable publisher is determined by the sequence of messages it holds (`BusInv`): idle with none, otherwise
    active with the first in hand. Lemmas on this sequence take the place of `PublisherCore` in all that follows:
    publishing a list appends it, the end of a handler takes the first off.
  - The first four theorems rest on `Inv`: beside `BusInv`, only the head of a bus is worked on (`HeadInv`); an event of an
    order is in the account's stream once, and not before the order is placed, and as many units are taken as there are
    events of the inventory, at most `Stock` (`AccountInv`, `InventoryInv`); an event on the bus is in a stream
    (`SourceInv`); every command the saga has answered with, in the queue or about to be, has its rollback command in the cache
    (`WayInv`), which says nothing of an order whose event the saga was never given; and the copy a command's handler has merged is not stale where it matters (`ViewInv`). Nothing in it
    depends on which handlers fail, so it bears any number of rollbacks.
  - Where no handler fails, `Orderly` is added: an order whose funds were withdrawn is at one of five stages (`StageInv`: its
    event waits for the saga, its unit is being removed, it is being cancelled, fulfilled, cancelled); the units taken are those of the
    fulfilled orders, and one is cancelled only when none is left (`UnitInv`); no message is held twice (`OnceInv`); the events of
    an order come in pairs (`PairInv`); what a handler is about to publish is the order's next command (`TodoInv`); the
    tables are behind the streams by the events that are not handled yet (`TableInv`, `BalanceInv`, `FreshViewInv`). This
    invariant was checked with TLC first. Every step is a move of one order or message (`Effects`), so that each
    part has one case per kind of move, and each move is one action of `OrderTransaction` or none.
- `RabbitPublisherProofs`: `TypeCorrect`, `AtLeastOnce` (`NothingLost`), `AtMostOnceUnlessReturned`
  (`OnceUnlessReturned`) and `AcknowledgesWhatIsAwaited` (`ActiveIsUnacked`), for any nodes, consumers, messages and
  number of interruptions. The invariant says that a message is in one place (buffered, queued, held by one node, lost
  or handled), that a node holds at most one, only on an open channel, and that a message that was never returned runs
  only where it is held. Each action has a lemma of its own; the end of a handler has one case per way it meets the
  channel.
- `RabbitQueryProofs`: `TypeCorrect`, `QueriesHaveOnePlace` (`OnePlace`) and `LateAnswersAreAllThatStays`
  (`OnlyLateAnswersStay`). `PlaceInv` says that a query has one copy, in its queue or with one consumer, and a consumer one
  query per domain; `HistoryInv` what an answer and an acknowledgement say of the place; `AgainInv` that a second
  answer needs a redelivery; `AnswerInv` that every answer on its way is one of those given, and who is back from its wait
  with one has taken it. The counts of `Places` are turned into statements about single copies by lemmas on sequences.
- `LedgerProofs`, for any requests, processes, deployments, crashes and rejections by the database, from `RequestsAssumption`, `NodesAssumption` and
  `BoundsAssumption`. Only `OneProcessNeverOverdraws` is about the balance: the others do not expand `Overdraws`.
  - `TypeCorrect`: with `TypeOK`, that whatever points into the stream points at an event of it.
  - `ListenersSeeTheProjection` (`SeenIsProjected`) and `RowsAreInOrder` (`ProjectionNeverGoesBack`), with one process: between
    the reading of the account and the saving of its row nobody else writes the row (`WorkInv`), what was handled shows
    in it unless its handler rejected (`HandledInv`), and in the monolith what the gateway has was handled (`GatewayInv`). In
    the cluster the client may see an event that is not there yet.
  - `WaitingClientsKeepTheirMoney` (`WaitingKeepsMoney`): a queued command is in the queue once (`QueueInv`); as long as
    nobody has died, the account is created once (`CreationInv`) and whoever waited comes after (`PatientInv`).
  - `ProjectionCatchesUp` (`CaughtUp`): every event shows, was rejected, or is about to be published or handled; or a process
    with in-memory publishers has died and the event was not handled before (`RestInv`).
  - `RequestsAreCarriedOutOnce` (`CarriedOutOnce`): each death allows a request one more event, and what has
    still to be stored, or has failed, has one to spare (`OnceInv`).
  - `OneProcessNeverOverdraws` (`SerialNeverOverdrawn`): the balance is a fold of the stream, of which an event adds one step, and
    where commands wait for one another the stream a withdrawal was checked against is still the stream it is added to.
  - `PatientClientsAreServed` (`PatientIsServed`): what a waiting client asked for is on its way to it from the
    publication of its event, unless the command has failed, and the client is there to receive it (`ServedInv`).

Only model-checked: liveness (`BusesComeToRest`, `EveryMessageAcknowledged`, `EveryMessageHandled`, `EveryQueryReturns`,
`NamesAreGiven`, `DomainsAreServed`), which needs fairness. Every other property of a passing run is stated by a theorem, under
the conditions named with it. The selections and replays of `Aggregate` are written as folds, not with `SelectSeq` and
`FlattenSeq`, whose recursion `tlapm` cannot expand; a fold can be taken step by step.

## Not modelled

- `StateTracker.await` and the messenger: nothing but tests calls `await`, and what the connection would announce
  of a reconnection never happens, because a lost connection is not opened again. For the same reason the
  subscriptions that a second reconnection would leave behind are not reached.
- The expiration of Redis sets: it needs the length of a transaction in time. A set that expires takes reservations and
  rollback commands with it.
- `setKey` and the other keys of a cache, `dropSet`, `Queue.clear`, the clear of a cache at bootstrap: nothing in the
  modelled parts calls them, or it comes before everything else.
- Registries, dependency injection, decorators, mixins and serialisation: filled at the start and read afterwards,
  they are constants of the models (`Serves`, `IsRegistered`, `Handled`, `Projects`).
- The tear-down and the command bus of the node plugin repeat the core's. The query handlers of the demo only read; its other
  controllers are the same input and output.
- `Ledger` with a process that is started again on waiting messages: `RabbitPublisher` shows that it may consume
  nothing more, so that the composed system could only be asked about the other processes, as it is with `CrashAccountant`.
- The build scripts under `src/common`, and the setup of the end-to-end tests.

## Plan

1. *Done:* `PublisherCore`, `MemoryPublisher`, `SerialBus`; `OrderSaga` over it; `Reservation`, `Aggregate`, `QueryBus`,
   `TypeORMCache`, `RabbitPublisher`, `RabbitQuery`, `Ledger`, and the proofs above.
2. A RabbitMQ process that is started on a queue with messages, in `Ledger`.
3. `Queue` as a linked map that refines a sequence. `RedisCache`'s expiration against long transactions, with a clock. Lost connections in `Ledger`.
