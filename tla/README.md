# TLA+ models of turbocookedrabbit

turbocookedrabbit is a Go library over `streadway/amqp` that keeps pools of
RabbitMQ connections and channels, recovers them, publishes with confirmations,
and consumes. This directory models **version 2** (`src/v2/pkg/tcr`), the
current one, and the concurrent parts of **version 1** (`src/v1/pkg`), the earlier
design of the same. Files are named below by their base name, those of version 1
with their directory (`pools/channelpool.go`).

## 1. Inventory

| Part | State it keeps | Operations |
|---|---|---|
| **Connection pool** `connectionpool.go` | `connections` (blocking queue of `ConnectionHost`s), `channels` (buffered Go channel of cached ackable `ChannelHost`s), `flaggedConnections`, ID counters | `NewConnectionPool*`, `GetConnection`, `ReturnConnection`, `GetChannelFromPool`, `ReturnChannel`, `GetTransientChannel`, `verifyHealthyConnection`, `triggerConnectionRecovery`, `reconnectChannel`, `createCacheChannel`, flag/unflag, `Shutdown` |
| **Connection host** `connectionhost.go` | the `amqp.Connection`, `Errors` and `Blockers` (capacity 10) that the library writes, `connLock` | `Connect*` (compare, lock, recompare, dial, install), `PauseOnFlowControl` |
| **Channel host** `channelhost.go` | the `amqp.Channel`, `Errors`, `Confirmations` (capacity 100), a pointer to its connection host | `MakeChannel`, `FlushConfirms`, `Close` |
| **Publisher, direct** `publisher.go` | none of its own: a call's channel, timer and receipt | `Publish*`, `PublishWithConfirmation*` (timeout, context, error, transient variants), receipts |
| **Publisher, automatic** `publisher.go` | `letters` (capacity 1000), `autoStop`, `autoStarted`, a semaphore per loop | `StartAutoPublishing`, `QueueLetter(s)`, the loop and `deliverLetters`, `Shutdown` |
| **Consumer** `consumer.go` | `started`, `consumeStop` (1), `receivedMessages`, `errors` (1000 each), `conLock` | `StartConsuming*`, `StopConsuming`, the consume loop, flushes, `Get`, `GetBatch` |
| **Rabbit service** `rabbitservice.go` | `centralErr` (1000), `shutdownSignal` (1), `shutdown`, the consumers | publishing wrappers with payloads, `QueueLetter`, receipts and retries, error collection, `Shutdown` |
| **Topologer** `topologer.go` | none of its own; the broker's exchanges, queues and bindings | `BuildTopology`, strict or ignoring errors; creates, binds, deletes, unbinds, purges |
| **Payload** `json.go`, `compression.go`, `crypto.go` | none | wrap, compress, encrypt, and the way back |
| **Data and utilities** | messages, letters, configuration, TLS, random data | constructors and one-line calls |
| **Version 1: pools** `pools/*.go` | queues of connections, plain and ackable channels, flags, `Initialized`, per connection a count of channels | `Initialize`, `GetChannel`, `GetAckableChannel`, `ReturnChannel`, flags, replacement, `Shutdown` |
| **Version 1: publisher** `publisher/publisher.go` | `letters`, `letterCount`, `autoStop` (1), `autoStarted` | `QueueLetter(s)`, `StartAutoPublish`, `StopAutoPublish`, `Publish`, `PublishWithRetry`, notifications |
| **Version 1: consumer** `consumer/consumer.go` | `started`, `stopImmediate`, `consumeStop` (1), `messages`, `messageGroup`, `conLock` | `StartConsuming`, `StopConsuming`, the loop, `Get`, `GetBatch`, flushes |
| **Version 1: service** `service/rabbitservice.go` | `stopServiceSignal` (1), `stop`, `centralErr` | `StartService`, `StopService`, `Shutdown`, the monitor, two collectors of errors |
| **Version 1: topology** `topology/topologer.go` | none | as version 2, on pooled channels, which it flags |

How they meet. Publishers, consumers, the topologer and the service share one
connection pool by reference. A goroutine takes a connection or a cached channel
out of it, owns it, and gives it back, with a flag saying whether it failed. The
amqp library calls back from goroutines of its own by writing Go channels:
`Errors` of a connection and of a channel (one error, then closed),
`Confirmations`, `Blockers` and deliveries. It writes some of them while it reads
the connection, so a full one stops the connection. The service owns a
publisher and the consumers, reads the publisher's receipts and queues failed
letters again.

What is hard here, and what correctness means:

- **Pool.** A cached channel keeps its pointer to a connection host that somebody
  else may own at the time, so a reconnecting channel recovers a connection
  concurrently with its owner. Retry loops return what they took on many paths.
  Errors arrive through channels that the library closes at a moment of its own.
  *Correct:* no connection or channel is lost or pooled twice; a live connection
  is never dialled over; a flagged one is recovered before use; only completed
  channels are cached; callers get through when outages end.
- **Flow control.** Notifications tell of changes, are buffered, and are read only
  when a connection is taken. *Correct:* pauses exclude each other and end. (That
  the library's reader is not stopped for good is more than the code gives.)
- **Publishing.** A confirmation says which publication it answers, but the code
  reads only its `Ack`, and channels are shared in turn: timeouts, nacks and lost
  channels leave answers for whoever comes next. *Correct:* one receipt per call,
  success only of a letter the broker has taken, the channel back in the cache.
- **Auto-publishing.** Stops are sent by goroutines, at two places of the loop, one
  of which closes `letters`. *Correct:* a queued letter is somewhere until its
  receipt; one loop at a time; a stop ends it.
- **Consumer.** The stop goes through a channel of capacity one sent under the lock
  the loop needs; the subscription outlives the loop; the channel goes back to the
  shared cache. *Correct:* channels conserved, deliveries kept from the user by
  nothing but a stop, `Started` exact, no stop outlives a restart, a stop ends the
  loop, messages get to the user.
- **Service.** Retries go through the queue that shutdown closes; background
  goroutines end at different times. *Correct:* letters settled or still retried,
  retries bounded, `Shutdown` returns.
- **Topologer.** One call after the other with nothing that makes a build whole:
  several processes build the same topology at once, a build stops in the middle,
  answers are lost or not asked for. *Correct:* a strict build has built what it
  got past; what others built of it is no obstacle; building again completes it.
- **Version 1.** Bad channels are replaced by whoever takes them; the flag is set
  after the channel is back in the queue; counts of channels only go up; stops are
  tokens in channels of one; the consumer and the service end goroutines by plain
  flags. *Correct:* nothing is lost from the pools, bad channels are not handed
  out, letters are counted and notified, a graceful stop waits, goroutines end.

`PROJECT.json` ("hazards") lists each of these at its line.

## 2. Modules

| Module | Models | Notes |
|---|---|---|
| `ConnectionPool` | the pool but `Shutdown`; `ConnectionHost.ConnectWithErrorHandler`; `MakeChannel` | one `pc` per goroutine; the amqp library's shutdown of a connection in its steps |
| `ConnectionPoolProofs` | theorems about it | |
| `FlowControl` | `PauseOnFlowControl` | the broker, the library's reader, the pausing goroutines |
| `FlowControlProofs` | its theorem | |
| `ConfirmedPublish` | abstract: what a confirmed publish promises | `Accept`, `Succeed`, `TimeOut` |
| `TransientPublish` | `PublishWithConfirmationTransient` | implements `ConfirmedPublish` |
| `TransientPublishProofs` | theorems about it, the refinement among them | |
| `CachedPublish` | `Publish*`, `PublishWithConfirmation*` on cached channels, with `FlushConfirms` and `ReturnChannel` | |
| `CachedPublishProofs` | theorems about it | |
| `AutoPublisher` | queue, loop, semaphore, start, stop, receipts | a publish is one step with either outcome; run as a part of `RabbitService` |
| `RabbitService` | extends `AutoPublisher`: retries, errors, the monitor, `Shutdown` | a consumer is a source of errors that may be started or not |
| `RabbitServiceProofs` | theorems about both | |
| `Consumer` | starting, stopping, the consume loop | with the broker's queue, subscriptions and redelivery |
| `ConsumerProofs` | theorems about it | |
| `Topologer` | building a topology, the other calls, the broker's answers | |
| `MCTopologer` | a configuration for TLC: two exchanges, a queue, a binding of either kind | the other modules are run as they are |
| `TopologerProofs` | theorems about `Topologer` | |
| `V1Pools` | both pools of version 1 | a host that is not in use is used again, the least one first |
| `V1PoolState` | `poolUp`, all that the next three see of the pools | |
| `V1Publisher`, `V1Consumer` | version 1's publisher and consumer | actions only |
| `V1Service` | extends both: the service, its owner and its goroutines | specification and properties |
| `V1Proofs` | theorems about `V1Pools` and about the four | |

**ConnectionPool.** `connections` and `channels` are sequences of IDs; an amqp
connection is a state of its life (`open`, then in the library's order `closing`,
`notified`, `down`) and `Errors` is what a receiver would see (`quiet`, `erred`,
`closed`). A step is the code between two points where another goroutine may be
observed: a mutex, a queue or channel operation, or an amqp call. `op` is the
exported call a goroutine is in, and where the code has one function with several
callers (`verifyHealthyConnection` from `GetConnection` and from
`reconnectChannel`) the program points are shared and `op` says where to go on.
A connection that is lost between `ch.Connection = amqpConn` and `NotifyClose`
(program point `install`) closes the new `Errors` at once.

**TransientPublish and CachedPublish.** One goroutine per letter. A channel has
the publications in flight and the confirmations delivered. The broker answers in
order, acks or nacks, or not at all; losing a channel leaves open how many of the
publications in flight it had taken. `TransientPublish` has no bounds: its state is
finite as it is. In `CachedPublish` a confirmation keeps the letter it is
about, which no publisher action reads: the properties do.

**AutoPublisher.** `letters` with its closed bit, the stop token and the
goroutines that wait to send one, the loop's place, the letter in its hand, the
goroutines that hold its semaphore, and those of a loop before it, which hold a
semaphore that is gone. `publishNil` is what the code does with the nil letter a
closed channel yields: the process panics.

**RabbitService.** Composes the publisher's actions with the service's goroutines.
`receiptPc` is the goroutine that handles receipts, `failed` the letter in its
hand; `centralErr` is counted. `shutdown` is a plain field that one goroutine writes
and the others read without a lock before each receive: a reader may still find it
false, so each loop is one place where it may end once `shutdown` is set, and may
receive whether it is or not. After the pool was shut down (`PoolOpen`) a publish
may finish but need not.

**Consumer.** The k-th delivery of a message is a pair, so that redeliveries are
distinguished. The queue gives a message to some open subscription, and takes back
what is not acknowledged when the channel is lost, and only then. A receive from
a closed channel of deliveries is `ZeroValue`. A second `Consume` on a channel whose
subscription is alive uses the `ConsumerName` twice: the broker closes the
connection, and with it any of the channels (`consumeTwice`). `twice` records that a
consumer was started while it was started, which leaves two loops, `asked` that a
stop was asked for since the last start. Acknowledgement is manual, `noWait` false.

**Topologer.** The broker is the set of what exists, with the type of each queue,
the one thing of a declaration that the code changes and a broker compares. A
builder has its place in `Plan`, the order of `BuildTopology`; each call is a step
with three outcomes: `answered`, `refused` (the broker's exception, of which
nobody hears with `NoWait`), `lost` (declared or not). Each call is made on a
transient channel of its own, so calls share nothing but the broker. `gone` and
`disturbed` record, for the properties, what was deleted since a build began, and
whether anything but other builds got in its way.

**V1Pools.** A host is a `ChannelHost` in memory; its ID passes to the host that
replaces it, so that a host given back after it was replaced is told apart from its
replacement. `count` is the `channelCount` of a connection host, which nothing
lowers. `open` is the last part of `createChannelHost` with what each of its three
callers does next; `GiveUp` what each does with its error. `ReturnChannel` puts and
flags in two steps, in the order of the code. `Shutdown` empties each queue by
`look` (`Empty()`) and `get` (`Get(Len())`); goroutines that wait on a queue when it
is replaced are `stranded`.

**V1Publisher, V1Consumer, V1Service.** Letters and messages have a place, from new
to done. `starting` is the time between letting the loop loose and setting
`autoStarted`. A publishing goroutine looks at the pool and then waits in
`GetChannel`: one that waits when the pool is shut down is stranded there
(`enterGetChannel`, `getsChannel`, `strandedGoesOn`). The consumer is one loop on one
channel of the pool, whose `entries` in the pool's queue are counted: an ackable
channel stays there while it is used. The loop looks for a stop (`outer`), and then
waits in `GetChannel` without looking (`get`). Its channel is `up`, `cancelled`
(basic.cancel: deliveries closed, no error), `lost` (a close error to be read) or
`closed` (no error to be read: by a `Shutdown`, or because `GetAckableChannel` took
it). `phantoms` counts the messages made of closed deliveries; they fill the buffer
and the wait group like others. `leaks`, `returns`, `losses` and `unseen` keep account
of what each cause has cost, for the properties. The owner
calls the service; others start and stop the consumer, receive messages and read
`CentralErr`. `Enabled` false is a consumer made by `NewConsumer`, which leaves the
field unset, so that it never starts.

**Atomicity.** A step that one mutex or one Go channel operation makes atomic is
one action. Sleeps are not modelled: they only delay, and every order they allow
is explored. A time-out may happen at any moment of its wait.

## 3. Runs

Run a model with `tlc -config X.cfg Module`. Model values are small sets; every
bound is a constant of its module, marked `bound:` there.

| Run | Module | Question | Bounds |
|---|---|---|---|
| `ConnectionPool` | `ConnectionPool` | conservation of connections and channels on all paths, recovery, contention on one host, and the inductive invariant | 1 connection, 2 channels, 2 goroutines, 2 faults |
| `ConnectionPoolFlushLoop` | `ConnectionPool` | *violated:* `GetConnection` returns after the outages | 1 connection, no cached channel, 2 goroutines, 1 fault |
| `TransientPublish` | `TransientPublish` | the promise of a confirmed publish, refinement, receipts | 2 letters; nacks, lost channels and silence without bound |
| `CachedPublish` | `CachedPublish` | what early leavers cost those after them on one shared channel | 3 confirmed and 1 plain letter, 3 timeouts, 1 nack, 1 loss |
| `CachedPublishStale` | `CachedPublish` | *violated:* success only of letters the broker has taken | 2 letters, 1 timeout, 1 nack |
| `RabbitService` | `RabbitService` | letters through queue, retries, starts and a stop | 2 letters, queue of 1, semaphore of 1 (`MaxCacheChannelCount` / 2 + 1), `centralErr` of 1, 1 retry, 2 starts, 1 `Shutdown`, no consumer |
| `RabbitServiceShutdown` | `RabbitService` | `Shutdown` and the collector against a full `centralErr` | 2 callers of `Shutdown`, 1 consumer, no letters |
| `Consumer` | `Consumer` | channel, deliveries, `Started`, stopping, restarting, handling, also with two loops of one consumer | 1 user, 2 loops (one with an action), 2 channels of one connection, 1 message, 2 starts, 3 stops, 1 loss or cancellation, buffers of 1 |
| `FlowControl` | `FlowControl` | pauses, notifications and a lost connection | 2 goroutines, `Blockers` of 2, 4 notifications |
| `Topologer` | `MCTopologer` | partial, repeated and concurrent builds; the inductive invariant | 2 builders, 2 exchanges (one passive and `NoWait`), 1 quorum queue with `NoWait`, 2 bindings, 1 lost answer, 1 call by others |
| `V1Pools` | `V1Pools` | conservation, flags, replacement, progress | 2 connections, 1 plain and 1 ackable channel, 2 goroutines, 2 losses or errors that leave the channel open, 1 extra return or `Shutdown` |
| `V1Service` | `V1Service` | letters, messages, stops and the end of everything | 1 letter or 1 message (not both in one behaviour), 1 retry, 2 starts and 2 stops of the publishing loop, 1 start of the consumer, 2 `StopService`, buffers of 1, 2 events (losses, cancellations, `Qos` errors, calls of `Get`, `GetBatch` and `StopConsuming`), 2 messages of nothing |

Why these bounds. Two goroutines are enough for every race on a host: its owner
and one that reconnects a channel. The invariants of the pool are proved for any
number of connections, channels, goroutines and faults. With two faults a
connection is lost again while, or after, it is recovered. The real capacities
(1000, 100, 10) are replaced by one or two, so that full buffers occur; every
bound of a run is reached in it. With one cached channel each publish of
`CachedPublish` meets what all before it left. One nack there is enough for a
misled letter more, and nacks are finite, so that its `EveryCallReturns` says nothing
of a broker that refuses for ever (`EveryCallReports` of `TransientPublish` does).
In `RabbitService` the semaphore has one slot and there are two letters, so that the
loop waits for a slot; in `Consumer` three stops are what it takes for stops and loop
to wait for each other, and with two channels the next loop need not take the one
that a stop left with its subscription alive. Two callers of `Shutdown` both have
room for their signal, a third would not (see below). Two builders suffice for builds that
meet, and the topology has each kind of thing and each flag that changes a step. In
`V1Pools` two connections and one plain channel give a second connection with room
and then none; six places for hosts are never all in use (`open` would find none
free); and a pool that was shut down is not initialized again, which is a bound of
the model and not of the code. In `V1Service` publisher and consumer meet only in
whether the pool is up,
so that behaviours with both add nothing to those with either. `CHECK_DEADLOCK FALSE`
is used where the system may come to rest: all letters sent, or the users' bounded calls used up.

### What the runs show

Holds, beyond types:

- `ConnectionsConserved`, `ChannelsConserved` (pool): a connection is in the queue
  once or owned by one goroutine; the same of cached channels.
- `DialOnlyWhenClosed`, `NoFlaggedConnectionInUse`, and `IInv`, the invariant of the
  proofs, which contains `CachedChannelsMade`.
- `RecoveryUnlessSpinning`: callers get through once outages end, unless someone
  spins for ever in the flush loop (see below).
- `NoFalseSuccess`, `PromiseSpec`, `EveryCallReports` for the publish on a channel of
  its own (each call reports, with a silent broker too, unless it is nacked or loses
  channels for ever), and its `IInv`, with `OneAnswer`: the buffer of one never blocks the
  library's reader.
- On cached channels `OnlyEarlyLeaversLeaveAnswers` (the answers nobody waits for, on
  all channels together, are no more than the calls that left early, so that
  `Confirmations` never stops the connection before 100 of those; which channel they
  are on is not said) and `FalseSuccessesBounded` (the misled letters
  at any time number at most the early leavers, plus the nacks once there is one;
  none if nobody leaves early); channels conserved (`Safety`); `EveryCallReturns`.
- Service and auto-publishing: `Safety` (an accepted letter is in one place until it
  is settled or given up, and `autoStarted` tells whether a loop runs), `StopEnds`
  (the loop, unless it waits for a slot of the semaphore when the pool is gone, and
  the handler of receipts, unless it waits at a queue or a `centralErr` that nobody
  reads), `SettledUnlessShutdown`, `CollectorEnds`, `ShutdownReachesPool` (of two
  callers, unless one waits at a full `centralErr` or a `StopConsuming` keeps it).
- Consumer: `Safety` (channels are conserved), `NoDeliveryDropped` (a delivery the
  broker counts as out is in a hand, in the buffer of a loop's channel, received, was
  flushed on request, or is parked on a channel that a stop returned with its
  subscription alive, and there are no more of these than stops: nothing but a stop
  keeps a delivery from the user), `StartedIffRunning` unless it was started twice,
  `NoStaleStop` (no stop from before a start is there to end the loop of that start),
  `StopsEnd` (the loop and `StopConsuming`, unless a third stop, with a second on its
  way, waits with the lock for a loop that waits for the lock), `EveryMessageHandled`.
- Flow control: `Safety` (pauses exclude each other), `PauseEnds`.
- Topologer: `BuiltSoFar` (all a strict build got past is there as configured, but
  for what was deleted since and what nobody waited for), `OnlyDisturbedBuildsFail`
  (builds do not collide, and half a build is no obstacle), `RebuildCompletes`, and
  `IInv`, the invariant of the proofs.
- Version 1, pools: `PoolsConserved` (connections and plain channels, through
  replacement, "-1" and return; no connection carries more channels than it has
  counted), `DeadOnlyBeforeFlag` (a dead channel whose error was read is handed out
  only before its flag is set), `GetReturns` (unless replacements have used up all
  room, ackable channels were returned, or the pool was shut down).
- Version 1, service: `Safety` (`letterCount` is exact; whatever is done with was
  notified, but where retries found no channel), `WhenStoppedNothingArrives`,
  `ChannelAccountedFor` (a plain channel is lost only where `Qos` fails, `Get` returns a
  message or `GetBatch` does not fail, once each; each return of an ackable one adds
  an entry), `PhantomsBounded` (one message of nothing for each lost channel, unless
  the pool was shut down, the broker cancelled the subscription or
  `GetAckableChannel` took the error: then there is no bound), `ServiceEnds` (all
  goroutines, but for a publishing loop that waits for a stranded goroutine, and a
  consumer loop that waits in `GetChannel`, for its readers, or with a third stop as
  above).

Does not hold, against what the documentation says ("findings" in `PROJECT.json`):

1. **The flush loop** (`connectionpool.go:181`). It leaves only by `default`; an
   `Errors` channel the library has closed is always ready. A connection lost
   again after it was dialled keeps `GetConnection` turning for ever.
2. **Late confirmations** (`publisher.go:225`). After a timeout the next call on
   the channel takes the late ack for its own and reports success for a letter
   the broker may yet refuse. The transient variant does not have this.

Disagreements without a run of their own, noted at their hazards or here:

- *Auto-publishing.* Letters accepted with `true` stay in `letters` when the loop
  ends (`publisher.go:578`: closed and unread from one stop, open with no reader
  from the other, though line 612 says they "will be consumed by AutoPublish"); a
  start after a stop reads the closed `letters` and panics.
  Once the pool is shut down, a loop that waits for a slot of its semaphore
  (`publisher.go:558`) never reads its stop.
- *Consumer.* What is not acknowledged stays with the returned channel, whose
  subscription is alive, and not with "your next consumer" (`src/README.md:525`), which
  may take another channel; nor does a stop come "after getting all remaining
  deliveries" (`consumer.go:295`). A closed subscription yields zero messages; a third
  `StopConsuming` may block with the lock held; two starts make two loops.
- *Service.* A third `Shutdown` blocks; `collectConsumerErrors` of a service without
  consumers never looks at `shutdown` (its comment says "Prevent leaking goroutine").
- *Others.* `PauseOnFlowControl` returns while the connection is blocked, and nobody
  need ever read `Blockers`, which when full stops the library's reader
  (`connectionhost.go:122`): publishers on cached channels take no connection, and one
  who does waits for an answer from that reader (`connectionpool.go:284`); a broker
  that nacks for ever keeps a confirmed publish from timing out, as each publish
  starts the timer anew (`publisher.go:193`, 448), against `publisher.go:435` ("at
  least until timeout failure occurs"); a quorum queue given `Args` is declared
  without its type (`topologer.go:242`).
- *Version 1.* The room for ackable channels is computed from a comparison of
  `MaxChannelCount` (`pools/connectionpool.go:84`), and with TLS it is never set, so
  that the channel pool cannot be initialized (`pools/connectionhost.go:96`); a failed
  `Initialize` leaves `ackChannels` and counts behind (`pools/channelpool.go:131`);
  `Shutdown` resets `channels` twice and `ackChannels` never (404), and may wait in
  `Get` for an item somebody else took (418); a dead ackable channel has its whole
  connection replaced while the old one stays open (323); error sleeps multiply a
  `Duration` by a millisecond (`publisher/publisher.go:93`); a letter that finds no
  channel is never notified (92); a second loop may be started (122); `Qos` errors,
  a `Get` that returns a message and a `GetBatch` that does not fail, one of an empty
  queue too, lose the channel (`consumer/consumer.go:292`, 151, 197-208); a cancelled
  subscription, or a close error that `GetAckableChannel` took
  (`pools/channelpool.go:313`), leaves the loop making messages of nothing (327); who
  waits in `GetChannel` when `Shutdown` replaces the queue never returns
  (`pools/channelpool.go:404`); a third `StopConsuming` waits for ever with the lock
  (363); `stop` is never reset,
  stop signals are left for later monitors, and the collector of a service without
  consumers never ends (`service/rabbitservice.go:230`, 298, 262).

### Fairness

- *Goroutines run* (`WF` on their steps): the Go scheduler.
- *Waiters are served* (`SF` on taking a mutex, an item of the queue, a value of a
  Go channel): Go wakes waiters in order, and the queue keeps its waiters in a list.
- *Outages end* (`SF` on `dialSucceeds`): what the pool's comment calls "transient
  network outages". Faults are bounded, so they stop.
- *The amqp library finishes a shutdown* it has begun.
- *A wait in a `select` ends* by one of its cases; the timer is one. The broker is
  **not** assumed to answer.
- *In `RabbitService`* what goroutines do a bounded number of times is fair
  together, which asks less than fairness of each; the two loops that may run for
  ever besides are fair in each of their steps.
- *A builder* who builds again and again gets his answers; strictness is free.
- *Version 1*: steps of goroutines, of `V1Pools` strongly fair each (queues serve
  waiters in order, dials succeed in the end, users give back what they took; that
  `Get` of an emptied queue returns
  nothing is possible, never required); of
  `V1Service` the publisher's, the consumer loop's and the service's steps weakly
  fair as groups, which suffices as each group runs out of other work. Somebody
  reads `CentralErr`; nobody need read `Messages`, start, stop or queue, nor return a
  channel to a queue that is gone.
- *Users* of `AutoPublisher` and `Consumer` start them and read what they output,
  as the README asks; queueing, stopping and double starting are free. The broker
  delivers to an open subscription in `Consumer`. In `FlowControl` only goroutines
  that pause are fair: nobody has to take the connection.
- *Endless nacks and losses* are possible in `TransientPublish`, whose property
  exempts them by name.

## 4. Proofs

`tlapm M.tla` checks them, for `M` each of the eight modules named `*Proofs`. Each
states an `IInv`, proves that it holds at first and that every step keeps it, with
one lemma per conjunct or per action, and derives the properties from it
(`V1Proofs` has two, `IInv` of the service and `PoolsInv` of the pools). `IInv`
was model-checked before it was proved: `ConnectionPool`, `TransientPublish` and
`Topologer` define it and their runs check it, the other proof modules define it
themselves.

The assumptions are those of the modules. Apart from what the code checks or fixes
(positive numbers, nil is no ID) they ask that what is counted is finite: the
letters that callers ever queue or publish (`CachedPublish`, `V1Publisher`), the
goroutines of a consumer and the cached channels (`Consumer`), the goroutines and
hosts of `V1Pools`, each of which a process makes one after the other.

**Connection pool**, for any number of connections, cached channels, goroutines
and faults, from `PoolAssumption` alone (a positive number of connections, as the
constructor checks; `Main`, which runs it; nil is no ID). The wanted facts are
not inductive by themselves. `IInv` adds: which calls reach which program points
(`CallAt`), when a goroutine has a connection or channel in hand (`HandsAt`), that
the constructor alone creates channels and nobody else runs meanwhile
(`CreatorAt`), that `connLock` is held exactly between `Lock` and `Unlock`
(`LockHeld`, from which `DialOnlyWhenClosed` follows: only the holder opens a
connection), that a channel in a hand was made unless it is being reconnected
(`ChannelsMade`), and that the owner of a flagged connection has not reached a
point past the check (`FlaggedRecovers`). There is one lemma per conjunct, with
one step per action under it; two lemmas about taking from and putting to a
duplicate-free sequence carry the conservation proofs. Results: `PoolInvariant`,
`TypeCorrect`, `NoConnectionLost`, `NoChannelLost`, `NoLiveConnectionReplaced`,
`FlaggedNotHandedOut`, `OnlyMadeChannelsCached`.

**Transient publish**, for any letters, nacks and faults. `OneAnswer` says that a
channel carries one publication, answered or not, none when its goroutine
publishes again, and that an ack waiting in `confirms` is of a letter that was
taken. Results: `TransientInvariant`, `TypeCorrect`, `SuccessIsTrue`,
`ReaderGoesOn`, and `Refinement`: every step is a step of `ConfirmedPublish` or
leaves its variables alone.

**Topologer**, for any configuration, any state of the broker, any number of
builders, lost answers and meddling calls, from `TopologyConfig` (what is listed
are sequences of exchanges, queues and bindings, and the three kinds differ).
`OnlyDisturbedBuildsFail` is not inductive: `FieldClear` adds that nothing the
broker has is in the way of a build nothing disturbed, and that what it has got past
exists, so that the ends of the bindings to come exist too. That is where the
order of `BuildTopology` is needed: the lemma `PlanOrder` says that exchanges and
queues come before what binds them, and `ClearAccepts` that a broker then accepts
the next thing. A declaration of one build keeps the field clear for all others, as
all declare the same (`DeclareClears`). Results: `TopologyInvariant`,
`NothingSkipped`, `BuildsDoNotCollide`.

**Flow control**, for any number of goroutines and alarms and any capacity of
`Blockers`, from `FlowAssumption`. That two goroutines are not in the loop at once
is not inductive; `HolderPauses` adds that whoever is in it has `connLock`, and who
has `connLock` is in it. Result: `PausingIsSafe`.

**Cached publish**, for any letters, channels, timeouts, nacks, lost channels and
capacity of `Confirmations`. Neither of the two bounds is inductive, for they count
past events and the state has to say which event each count is owed to. `IInv` does
so by charging (`Charged`): there are a set `N` of letters, no more than there were
nacks, and a set `D` of letters whose answer was lost or whose call left early, and
each letter that was misled is in `N` or `D` or owes its success to an answer that
is still on a channel; the answers that nobody waits for (`Stale`), summed over the
channels, and `D` are no more than the calls that left early. `OwnNewest` says that
of the publications on a channel that of its caller is the last, and `CallsOK` and
`DownEmpty` where a call has its channel and that a lost channel carries nothing.
A flush, a late answer, a republish and a loss each move a charge from one place to
another. Results: `Inductive`, `SafetyHolds`, `EarlyLeaversOnly`, `FalseSuccesses`.

**Rabbit service**, with the publisher, for any letters, consumers, callers,
capacities and retries. `LettersAccountedFor` counts the places of a letter: the
queue, the receipts, the loop's hand, those publishing under this loop's semaphore
and the one before, and the hand of the receipt handler. It needs that this last
hand holds a letter exactly where its program point says so (`FailedInHand`), that
a letter ends once and was accepted before (`EndsOnce`, `EndedWereAccepted`), and
for `autoStarted` that stops on their way are no more than stops asked for.
`NilAfterClose` says that only a closed queue yields nil. Results:
`ServiceInvariant`, `LettersSafe`, `OutcomesFinal`, `CrashOnlyAfterClose`.

**Consumer**, for any users, loops, channels, starts, stops and losses. The wanted
facts need each other: a delivery is not dropped only if the loop that has it in
hand is at the one program point that has (`Places`, which ties the channel and the
delivery in a hand to the place in the loop), if a channel that gets a new buffer
had nothing in the old one (`NothingBuffered`: without cancellations only an open
subscription has a buffer), and `Started` is exact only as `conLock` keeps a second
stop out (`StopHoldsLock`). That no more channels are
parked than there were stops needs the stops that have yet to reach a loop
(`StopsPark`: parked channels and pending stops together), and `NoStaleStop` that
one being sent was asked for since the last start, too (`StopsAreAsked`). Results:
`ConsumerInvariant`, `ConsumerSafe`, `DeliveriesKept`,
`StartedTells`, `StopsAreFresh`, `OneStopAtATime`.

**Version 1's service**, for any letters, messages, buffers, starts, stops and
losses, cancellations and calls of `Get`. `Told` adds to the count of letters that
one being published has tries left
or was told of or met the pool down; `OneStop` that, unless a loop was started or
stopped twice, one loop runs and a stop is in one place, a sender, `autoStop` or the
loop that waits; `Waits` that the consumer is started as long as its loop is
anywhere and that only a hasty stop lets it finish while messages are converted;
`ChannelUse` that, while the pool is up and nothing was cancelled or taken from it, a
loop with a channel sees that it is lost before it makes a second message of nothing.
Results: `V1Invariant`,
`PublisherSafe`, `GentleStops`, `ChannelAccounts`, `FewPhantoms`.

**Version 1's pools**, for any numbers of connections, plain and ackable channels,
goroutines and hosts, however many channels and connections are lost and whenever
`Shutdown` is called. What was wanted is not inductive. `Places` says what a
goroutine has in hand and is called for at each program point, `InPlace` that what is
queued or in a hand is a channel of the kind that belongs there, and so not a host
that is used again, and `Phases` what cannot happen before `Initialize` has ended or
`Shutdown` was called. Plain channels are counted by their IDs, which a channel
passes to the one that replaces it (`PlainOnce`, which while `Initialize` runs says
so of the IDs up to `channelID`). `DeadKnown` is what `DeadOnlyBeforeFlag` needs of
every channel that may be taken or given back: if it is dead, its error is still to
be read, its ID is flagged, or somebody is about to flag it. It depends on
`PlainOnce` twice: reading an error, and removing the flag when a channel is
replaced, would hide another channel of the same ID (`Unique`). The steps that make no
channel only make hosts worse (`AllKeep`), so that `open` is a case of its own
(`OpenStep`, `OnceOpen`, `RoomOpen`, `DeadOpen`). Results: `PoolsInvariant`,
`PoolsTypeCorrect`, `PoolsAreConserved`, `DeadChannelsAreFlagged`.

Only model-checked: all liveness properties (`RebuildCompletes` among them), which
need fairness and `ENABLED`. Every invariant and action property that a passing run
checks is proved.

## 5. Not modelled

- `ConnectionPool.Shutdown` of version 2. It empties and replaces the queue of
  connections and leaves the cache of channels: all there would be to say is who is
  left waiting. The same question is modelled in version 1 (`V1Pools`).
- `Consumer.Get` and `GetBatch` of version 2: calls in a row on one channel, with no
  state of the consumer. `GetBatch` acknowledges as it goes and drops the messages
  it took when a later call fails (`consumer.go:140`).
- `PublishWithTransient`: one publish on a channel of its own, no state.
- The payload functions and the calls of both services that use them: sequences of
  library calls without state.
- Version 1: TLS, failing first dials, `RemoveChannel` and `RemoveAckChannel`, which
  nothing calls, returned messages, buffers of errors, `Publisher.Shutdown` (two
  modelled steps in a row), and its topologer beyond its use of channels.
- Rate limits and sleeps, wording of errors, the contents of messages, TLS,
  configuration, logging, random data.
- The error handler a user may give the pool: called with each error, it gives
  nothing back.
- Data races on `shutdown`, `stop` and `stopImmediate`, plain fields that are read
  without a lock by loops that read them again.

## 6. Plan

1. Proofs: action properties of `ConnectionPool`, such as that a connection changes
   owners only through the queue.
2. A pool of version 2 that is shut down, should its behaviour towards goroutines
   that hold or wait for connections be documented.
