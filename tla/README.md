# Formal models of the Hot Wallet App

TLA+ models of the parts of this repository whose correctness depends on the
order in which things happen: the RabbitMQ connection manager with its pools,
dedicated channels, health check and shutdown, the registration of users through
the message bus, the unit of work and the event publisher, the consumption of
events by the subscriber, and what the authentication service keeps in Redis. TLC
checks the models on small instances; TLAPS proves every safety property of the
passing runs, the refinements of the abstract specifications included, for all
numbers of tasks, connections, channels, requests and messages.

    tlc -workers 2 -config connection_pool.cfg MCConnectionPool.tla
    tlapm ConnectionPool_proofs.tla

Paths below are relative to the repository root; `cm` is
`src/adapters/message_broker/connection_manager.py`.

## 1. Inventory

| component | state | operations | talks to |
|---|---|---|---|
| Connection pool (`cm`) | `_connection_pool`, lock, semaphore, metrics | `get_connection()`, cleanup, `close()` | aio_pika, circuit breaker |
| Circuit breaker (`cm`) | failure count, open flag, time of last failure | `check_circuit_breaker()`, `record_success()`, `record_failure()` | called with the pool lock held |
| Channel pool (`cm`) | `_channel_pool`, lock, semaphore, metrics | `get_channel()`, cleanup, `close()` | connection pool |
| Dedicated channels (`cm`) | `_dedicated_channels`, lock | `get_dedicated_channel()`, `close()` | connection pool, subscriber |
| Health and metrics (`cm`, `service_layer/views.py`, `entrypoints/broker_app.py`) | none of their own | `health_check()`, alerts, Prometheus text | connection pool, breaker |
| Publisher (`publisher.py`) | `_closed` | `publish_event()`, `publish_events_batch()`, `close()` | channel pool, broker |
| Subscriber (`subscriber.py`) | `_consuming`, stop event | `start_consuming()`, `_handle_message()`, `stop_consuming()` | dedicated channel, message bus |
| Message bus (`messagebus.py`) | `queue` | `handle()` | unit of work, handlers |
| Unit of work, repository (`unit_of_work.py`, `repository.py`) | session, `users.seen` | `with puow`, `commit()`, `collect_new_events()` | database |
| User aggregate (`domain/model.py`) | fields, `events` | `create()` | |
| Auth service (`auth_service.py`) | Redis counters and blacklist | rate limiter, tokens, `/register` | message bus, Redis |
| User service (`user_service.py`) | none | placeholders | message bus |
| Start and shutdown (`src/main.py`) | the consumer task | `lifespan()` | everything |

Everything of one process runs on one asyncio event loop: a task runs without
interruption between two awaits that suspend it. Concurrency is therefore
between awaits, and between processes. What is hard, and the property that
would notice it going wrong:

- An await under a lock (closing or opening a connection, a channel) lets other
  tasks queue on the lock, fail or be cancelled there. Lock, semaphore, pool
  and metrics must agree afterwards (`PermitAccounting`, `GaugeExact`,
  `NoOrphan`, `RefinesSharedConnection`, `PoolBounded`).
- The cleanup task and `close()` empty the pools under tasks that use their
  entries (`ExclusiveUse`, `SweepsOnlyUnusable`, `ClosedMeansNoConnection`), and
  retire the connection under consumers (`ConsumerKeepsChannel`).
- The `finally` of `get_channel()` awaits (`PermitAccounting`,
  `RefusedOnlyByLeftover`, `LeftoversRemoved`, `RefinesChannelLending`).
- The breaker's flag and count follow the order of failures and successes of
  many tasks (`BreakerAgreement`, `ImplementsConnectionState`).
- A consumer keeps the lock of the dedicated channels while it consumes
  (`CloseReturns`); a health check looks at breaker and connection at several
  moments (`DegradedMeansDown`).
- Connections and channels are robust ones of aio_pika: one that is lost opens again,
  in the pool, under its user, or after the code let it go without a `close()`
  (`NoOrphan`, `RefinesChannelLending`, `LeftoversRemoved`).
- The requests of a process share one queue and one unit of work and cross in
  the publisher (`OkMeansHandled`, `EventsHandledOnce`,
  `PublishedMeansRegistered`).
- Processes check names and commit concurrently (`UniqueUsers`,
  `RefinesAccounts`).
- Messages are lost, confirmed late and repeated; processes crash (the bound on
  copies in `EventsHandledOnce`, `Answered`, `PublishedMeansTried`).
- A channel is lost, or the process ends, while messages are being handled; tasks
  of the old channel go on (`UnackedIsHandled`, `DuplicatesNeedLoss`,
  `RefinesMessageQueue`).
- Messages that fail come back to their place in the queue (`Settled`), and a shutdown closes the parts of the
  application one after the other while messages arrive (`HandledBeforeAcked`).
- The limiter's INCR and EXPIRE are two calls, and a logout works out a time to
  live before the call that sets it, in the time zone of the process (`LimitKept`,
  `WindowEnds`, `LoggedOutTokenRefused`).

The full list, each at its line, is under "hazards" in PROJECT.json.

## 2. Modules

| component | implements | is built on | proofs | instance |
|---|---|---|---|---|
| `ConnectionPool` | `SharedConnection`, `ConnectionState` | | `ConnectionPool_proofs` | `MCConnectionPool` |
| `ChannelPool` | `ChannelLending` | | `ChannelPool_proofs` | `MCChannelPool` |
| `Manager` | | `ConnectionState` | `Manager_proofs` | `MCManager` |
| `Registration` | `Accounts` | | `Registration_proofs` | `MCRegistration` |
| `Delivery` | `MessageQueue` | | `Delivery_proofs` | `MCDelivery` |
| `Auth` | | | `Auth_proofs` | `MCAuth` |

The modules of the second column are abstract specifications: what the component
promises, without locks, permits, retries, tasks or program points. Each component
instantiates its own under a refinement mapping, and the property `Refines...` or
`Implements...` is the abstract specification. `ConnectionState` is at the same time
the interface between two components: `Manager` obtains, retires and loses its
connection with the actions of that module, and `ConnectionPool` implements them.

| abstract module | says | mapping |
|---|---|---|
| `SharedConnection` | one connection in service, given to every task that asks; a new one only when there is none | the pool; each task's connection while it uses it |
| `ConnectionState` | the connection is none, open or lost; an open one is never refused, and obtaining one closes the breaker | empty pool, open entry, dead entry; the breaker's flag |
| `ChannelLending` | a channel is lent open, to one task at a time, to no more tasks than the capacity, less what cancelled tasks used up; it may be lost and open again while it is lent | the local `channel` of each task, the open channels, `lost` |
| `Accounts` | one request is served after the other: the check of the names and the insertion are one step, and answers agree with the users | committed rows, handled events, what each client was told |
| `MessageQueue` | one consumer of a queue: delivery in order and within the prefetch window, at least once; no event is dropped; none acknowledged before it was handled, until a shutdown begins | the broker's status of each message, handled events, whether a shutdown has begun |

A definition whose comment begins with "Mutant:" is a plausible bug of the
definition after it; putting it in that definition's place makes the property
PROJECT.json pairs it with fail.

### ConnectionPool

`get_connection()`, `_acquire_connection()`, `_create_connection()`,
`_release_connection()`, the circuit breaker, the connection half of the
cleanup task and of `close()`.

| variable | code |
|---|---|
| `pool` | the keys of `_connection_pool` |
| `open` | connections whose `is_closed` is False |
| `idle`, `aged` | pooled ones for which `is_expired` is True, `created_at` is older than `_max_connection_age` |
| `breaker`, `failures` | `circuit_breaker_open` and whether its timeout is over; `circuit_breaker_failures` |
| `gauge` | `_metrics.active_connections` |
| `drift`, `leaked` | history: closes that failed or were cancelled before the metric was corrected, and the open connections they left |
| `permits`, `lock` | `_connection_semaphore`, `_connection_pool_lock` |
| `pc`, `conn`, `todo` | program points and locals of the tasks, the cleanup task and `close()` |

A task goes out - permit - lock - scan - (evict - scan)* - connect - use - out.
`Reuse`, `Evict`/`FinishEvict`, `Refuse`, `Connect`, `ConnectOk`, `ConnectFail`
are the branches of `_acquire_connection()`; `Cancel` delivers a
`CancelledError` to a suspended task. `Lose`, `GrowIdle`, `GrowOld`, `CoolDown`
are the broker and the clocks.

Clocks are the answers the code computes from them. The scan meets entries in
any order, which includes that of the dictionary. Obtaining the lock and
scanning are separate steps although the code does not suspend between them;
nobody else can act on what the lock protects in between, except the broker and
the clocks, which the code cannot exclude either.

`SharedConnection` is what the pool promises: one connection in service, which
every task is given, or a task puts a new one in service when there is none.
The code implements it however large `max_connection_pool_size` is: a task
connects only after it has removed every pooled entry, and keeps the lock until
the new one is in. The pool never holds two connections, its message
"Connection pool exhausted" is unreachable, and `max_connection_pool_size` only
bounds how many tasks use the one connection at a time.

`ConnectionState` is what the other parts of the manager see of it. The connection
is a robust one: while it reconnects its `is_closed` is False, the pool hands it out,
and it counts as open. `Lose` is its end, after which it counts as lost until a task
or the cleanup pops it.

### ChannelPool

`get_channel()` with pooling, `_create_channel()`, the channel half of the
cleanup task and of `close()`. The variables are as above, with `reserved` for
`PooledChannel.reserved`. Obtaining a connection and opening a channel on it is
one step that succeeds or raises; it may leave an open channel behind that no
pool knows, when `set_qos()` raises. `Finish` and `GiveBack` are the two halves
of the `finally` clause, between which the task waits for the lock; a `Cancel`
there loses the permit and leaves the mark. The history variable `lost` counts
such permits, so that `PermitAccounting` can say that there is no other way to
lose one. `drift` and `leaked` record in the same way what a failed or cancelled
`close()` or `set_qos()` does to the metric and to open channels, so that
`GaugeExact` and `NoOrphan` are exact in the presence of faults. A channel that is
lost (`Lose`), alone or because its connection reconnects, is `down`: its `is_closed`
is True until aio_pika opens it again (`Restore`), whether the pool, a task or nobody
has it. One that was closed, or whose connection ended (`End`), stays closed. The
cleanup calls `close()` of every channel it pops, so that none of these comes back;
`close()` of the manager passes over those it finds closed, which `leaked` records.
`ChannelLending` ties the parts together: it is
the pool's limit, its marks and its semaphore as the tasks see them.

### Manager

The channels that no pool keeps: `get_dedicated_channel()`, `get_channel()` with
pooling disabled, `health_check()`, and `close()` over all of them. Init chooses
whether pooling is enabled.

| variable | code |
|---|---|
| `connection`, `tripped` | the shared connection (none, open, lost) and the breaker, the variables of `ConnectionState` |
| `open`, `down`, `based` | channels whose `is_closed` is False; lost ones that will open again; those of both kinds on the pooled connection |
| `dedicated`, `transient` | `_dedicated_channels`, by task; the local `channel` of `get_channel()` |
| `gauge` | `_metrics.active_channels`, without the channels of the pool |
| `drift`, `leaked` | history, as above |
| `lock`, `todo` | `_dedicated_channels_lock`; the entries `close()` still has to close |
| `check` | `health_check()`: the breaker it noted, the connection it tests, its temporary channel, its answer |

A consumer goes out - lock - create - consume - out and keeps the lock to the end
(`EndConsume`): the `async with` is open while the generator is suspended. `Renew`
is the branch for an entry that is found closed; nothing is awaited there, since a
dedicated channel is unhealthy only when it is closed, and then `cm:628-632` does not
call its `close()`. A transient channel goes out - open - use - close - out; one that
is closed when its user ends, and one whose `close()` raises, stays in the metric
(`Forget`). `Publishers` are the tasks that ask for these. A channel that is let go
while it is lost opens again later and nobody knows it: `Renew`, `Forget`, `EndTest`
and `Drain` record it in `leaked` (`Abandon`).

`health_check()` goes idle - obtain - test - probe - idle: `connection.channel()`
(`OpenTemp`, `NoTemp`) and the `close()` of what it opened (`EndTest`) are two awaits,
with everything that may happen to connection and channels between them.

`Disconnect` and `LoseChannel` are what robust connections and channels recover from
(`RestoreChannel`); `LoseConnection` is the end of a connection, and `EndChannel` what
happens to the channels of one that the pool has let go. `Retire` is the cleanup
task, or a task that finds the connection expired; `EndConnection` says what that
does to the channels and to a health check that is testing the connection. The
permits of `get_connection()`, which a transient channel keeps, are `ConnectionPool`'s.

`close()` clears the entries before it subtracts their number (`EndDrain`), and
with pooling then sets the metric to zero over channels created in the meantime
(`ZeroGauge`): `drift` goes up, and down, and `GaugeExact` says that nothing else
makes the metric wrong.

### Registration

`MessageBus.handle()`, `handle_command()`, `handle_event()`, the unit of work,
`register_user_handler()`, `email_registration_requested_handler()` and
`publish_event()`, for requests that one or several processes serve.

| variable | code |
|---|---|
| `db` | the committed rows of the table `user` |
| `raised[s]` | users in `puow.users.seen` of process s whose `events` is not empty |
| `queue[s]` | `MessageBus.queue` of process s |
| `pc`, `event`, `tries` | where a request's `handle()` is, the event its handler publishes, the loop variable `attempt` |
| `handled`, `copies` | history: events whose handler returned, messages the broker accepted |

`register_user_handler()` has no await: the guard `Free` keeps the other
requests of its process out between `Create` and the end of the commit; those
of other processes go on. `Commit` includes what follows without a suspension:
new events are collected, and `handle()` takes the next one or returns. `FailEarly` is a lookup or
a value object that raises before there is a user. A commit
raises because the row is refused, or the database fails before or after it
stored the row. An attempt to publish reaches the broker or not and is confirmed
or not; everything else that can fail in it (no channel, the breaker open) is an
attempt that was not taken. `Crash` forgets what a process had in memory.

### Delivery

`EventSubscriber` on one queue, and the part of `lifespan()` that starts it, stops
it and closes what its handlers use.

| variable | code |
|---|---|
| `status` | where the broker has each message; a message is named by its place in the queue |
| `channel` | the dedicated channel with its consumer: none, up, or lost and being restored |
| `at`, `msg` | for each task that runs `_handle_message()`: its next await, its message |
| `live` | the tasks whose message was delivered on the present channel |
| `pc`, `stop` | `start_consuming()`, `_stop_event` |
| `app`, `closed` | `lifespan()`, `_closed` of the publisher |
| `handled`, `dispatched`, `starts`, `losses`, `shutdowns` | history |

`Deliver` runs `_handle_message()` up to its first await, which depends on the kind
of message: an event with a handler is dispatched, one that no registered class
fits is rejected, and one of a registered class that `MessageBus.handle()` does not
know is delayed and requeued. `Settle` is the acknowledgement or rejection; it has
no effect on a channel that is gone, and the task ends with it all the same.
`RetryCount` is the constant 0: the count is written into the local copy of the
message, and the broker delivers a requeued message as it was published. That the
bus raises for `invalid` messages is the one way to `_handle_failure()`, since
`handle_event()` catches what handlers raise.

As committed, `EVENT_REGISTRY` is empty (`subscriber.py:341`), and nothing in the
repository fills it or passes another one (`main.py:45`): every message is `unknown`
and rejected, until somebody adds classes. The model says what the code does with
either. An `invalid` message needs a registered class that is neither a command nor
an event, which the type of the registry excludes and nothing checks at run time. It
never meets `max_retries`: it comes back to its place for ever, and with the
`prefetch_count` of 1 that `main.py:45` leaves in place nothing behind it is delivered.

The broker, external to the repository, gives a requeued message its old place
and takes back what was delivered on a channel that is gone.

### Auth

`rate_limit()`, `/refresh` and `/logout`: the key `rl:<client>` of one client and
the keys `bl:<token>` of access and refresh tokens.

| variable | code |
|---|---|
| `count`, `ttl` | the value of `rl:<client>` and the time it has left |
| `offset` | of the time zone of the process from UTC |
| `life` | the time until the `exp` of each token |
| `entry` | the time `bl:<token>` has left |
| `pc`, `token`, `local` | the await a request is at, the token it holds, and the value it took there with it |
| `passed`, `dropped`, `loggedOut` | history; `loggedOut` are the tokens for which a logout was answered |

Each call of Redis is a step, which may be lost, or executed and not answered.
`Login` is INCR; only the request that gets 1 goes on to EXPIRE (`SetExpiry`), and
the others pass or are refused at once. `Logout` works out `exp - now` and
`WriteEntry` sets it, ticks later perhaps; `Refresh` decodes the token before it
looks at the blacklist. Times are whole ticks of one clock. The code subtracts
`utcnow().timestamp()`, which takes UTC for local time: `TimeToLive` is off by
`offset`, and SETEX refuses what is not positive.

`/logout` writes the entry of whatever valid token it is called with: as
`README.md:100-103` documents it, the access token of the Authorization header.
`/refresh` takes tokens of type `refresh` and looks for their own entry. The model
has both: after a logout with the access token `Refresh` and `Issue` go on, and no
endpoint looks for the entry of an access token.

## 3. Runs

| run | instance | shows |
|---|---|---|
| `connection_pool` | 2 tasks, 3 connections, 2 permits, threshold 2, faults and cancellation | type, permits, breaker, exact metric, no forgotten connection, refinement of `SharedConnection` and `ConnectionState`; requests are answered, `close()` returns |
| `connection_pool_closed` | violation | a connection is opened in the closed manager |
| `channel_pool` | 3 tasks, 4 channels, pool of 2, faults and cancellation | exclusive use, bound of the pool, permits, exact metric, no forgotten channel, who is to blame for a refusal, refinement of `ChannelLending`; channels that are lost open again or end |
| `channel_pool_live` | 2 tasks, 2 channels, pool of 1, 1 task cancellable, faults | requests are answered unless cancelled tasks kept every permit, dead and orphaned entries leave the pool, `close()` returns |
| `channel_pool_sweep` | violation | cleanup closes a channel in use |
| `manager` | 2 tasks, one of which also asks for transient channels, 2 channels, pooling on and off, faults, cancellation, connections that reconnect, end or are retired | exact metric, no forgotten channel, degraded means that there is no connection, `close()` gets past the consumers |
| `manager_retired` | violation | cleanup closes the connection under a consumer |
| `registration` | 3 requests (2 for one name), 2 processes, 2 retries | unique names, OK means handled, refinement of `Accounts`, events handled once and only of requests that tried to commit, requests are answered or crash with their process |
| `registration_leak` | violation | a failed commit's event is published by another request |
| `delivery` | 4 messages, the third invalid, the prefetch of 1 that the application uses, 3 handling tasks, 2 starts, 2 lost channels | one settler per delivery, work before acknowledgement, refinement of `MessageQueue`, repeats need a new channel, messages that no invalid one precedes are settled |
| `delivery_failed` | violation | an event whose handler raised is acknowledged |
| `auth` | 3 attempts and a limit of 2, a window of 2 ticks, an access and a refresh token of up to 2, a refresh and two logouts, a process in UTC and a tick to its east and west, calls cut off anywhere | the limit holds while a key lives, keys expire unless a request was cut off before EXPIRE, a refresh token that was itself logged out is refused, up to what the process is west of UTC |

Bounds. `MaxGauge` stops new connections or channels when the metric, which only
failed closes let drift upwards, reaches it; each run allows at least one more
than can be pooled, so that drift does occur in the runs with faults. `Conns` and
`Channels` are identities, recycled as Python's `id()` is when no live object has
them; one more than the objects that tasks hold and the pool keeps is enough for
every action to find a fresh one. Two tasks show every race for the lock, a third
one makes waiting lines and two holders with a third looking on. Tasks contend
for permits in `channel_pool` and `channel_pool_live`; in `connection_pool` there
is one for each, and the proofs cover the other sizes. A threshold of 2
lets failures and successes alternate before the breaker opens. `MaxCopies` is
where a count of copies saturates, above what `EventsHandledOnce` allows. Three
requests give a conflict between processes and a bystander in the publisher. The
registration runs do not check for deadlock: when all requests are answered the
model rests. Nor do the delivery runs: the application rests when it ended.
`Tags` is two more than the prefetch window, for the tasks of two lost channels.
`MaxDrift` of `manager` stops the tasks that would let the metric drift further.
`Publishers` is one task there: transient channels meet each other only in the
metric, and in `manager` a consumer meets the other task's. In `manager_retired` it is
both. `MaxCount` of `auth` is two above the limit; tokens of two ticks may end before,
with and after the entries that an offset of one tick makes too short or too long.

Fairness. asyncio's `Lock` and `Semaphore` wake waiters first come, first
served, so that a waiter is not overtaken for ever: strong fairness of the
acquisition. Awaits of the broker end (aio_pika's timeouts, `publish_timeout`),
the database answers, and the body of an `async with` ends: weak fairness. No
fairness is assumed of requests, faults, cancellations, clocks or crashes; the
cleanup task's sleep ends where a run is about what it removes.

Fairness of `Delivery`: handlers and delays end, a lost channel is restored, and the
broker delivers the first message of the queue to a consumer that has room, all as
weak fairness. Nothing is assumed of starts and stops.

Fairness of `Manager`: creations end, `close()` gets the lock when it is free often
enough, and a consumer ends. The last is `lifespan()`'s doing: before it calls
`close()` it stops the consumer, waits 30 seconds, and `wait_for()` then cancels it.
Transient users, health checks, cleanup and faults are under no obligation. Fairness
of `Auth`: time passes, and EXPIRE is executed unless the request is cut off, which
`WindowEnds` allows for and the code has no remedy for.

Findings. The five runs marked as violations are disagreements between the code
and what its comments say; PROJECT.json quotes both. The cleanup task takes
`is_healthy`, which is False for a channel in use, for a defect. It also closes the
connection when it is idle or old, although consumers are on it: their dedicated
channels close with it and `start_consuming()` goes on waiting for its stop event.
What an event handler raises never reaches the subscriber's retries, and
`stop_consuming()` leaves the subscription in place; together they lose the events
that arrive between the closing of the publisher and the end of the process.
`ConnectionPool` is opened again by tasks that were waiting when it was closed. A
failed commit leaves its event behind for the next request that collects.

Behaviour that the models show, and that contradicts no sentence of the repository
that a property could state, is not a run of its own. The retries of the subscriber
are not counted, so that `max_retries` rejects nothing and an `invalid` message blocks
the queue: `Settled` promises something only to the messages ahead of it. A logout with
the access token leaves the session's refresh token in use, and west of UTC an entry
ends hours before its token: `LoggedOutTokenRefused` is about the very token, and up to
the offset. Lost channels that are let go come back open: `NoOrphan` names the places.

## 4. Proofs

For all finite sets of tasks, and all sizes, thresholds and bounds the
`ASSUME`s allow (process names are distinct; sizes are positive).

`ConnectionPool_proofs`. The inductive invariant `IInv` joins to `TypeOK` and
`LockOwnership` what the step that adds a connection needs: `EmptyWhileBusy`,
while a task connects the pool is empty, and at other times has one entry at
most; `TodoPooled`, what the cleanup task still has to pop is in the pool; and
`BreakerInv`, how count and flag go together, with a closed breaker while a task
connects. `AtMostOneConnection` alone is not inductive, since nothing in it says
that a task that is about to add a connection has emptied the pool.
`PermitsKept` follows from `IInv` by counting on finite sets; `GaugeAccounted` and
`NothingForgotten` are inductive relative to it, with one step of the account for
each action. `Refinement` maps every step to a step of `SharedConnection` or a
stutter; it uses that identities of connections in use are not recycled.
`ConnectionImplemented` does the same for `ConnectionState`. There the breaker is what
is hard: a failed attempt may count up to the threshold only while the pool is empty,
which is `EmptyWhileBusy` again, so that a tripped breaker never hides a connection
(`BreakerSpares`).

`ChannelPool_proofs`. `IInv` says who owns the lock, that a held channel that is
pooled is marked as reserved, that holders have a channel, and `ExclusiveUse`. A task
reserves unmarked channels only, so that no channel is given twice; a new channel's
identity is fresh. The bound of the pool needs `RoomWhileCreating`: the test of the
size still holds when the entry is added, because the creating task owns the lock.
`RefusalHasLeftover` is a pigeonhole argument: the refused task has a permit itself,
so fewer tasks hold channels than the full pool has entries. The metric and the open
channels are accounted for as in `ConnectionPool_proofs`, with the lost channels among the open
ones, since they open again. `OneBorrower` maps the pool to
`ChannelLending`. That no channel is lent twice follows from `HeldIsReserved` when a
pooled one is reserved and from fresh identities when one is created; that the capacity
is kept is counted (`RoomToLend`): the borrowers are among the holders of permits, a
task that is about to borrow is one of these and not yet a borrower, and
`PermitAccounting` bounds them.

`Manager_proofs`. `Sections` says that the owner of the lock is in the section it
protects, that a task creating its dedicated channel has no entry, that a task
has a transient channel exactly while it uses or closes one, and that the health
check has its channel only while it tests; without these a creation could overwrite a
channel that is open or will be. `Passed` adds what `close()` has left
behind so far, without which clearing the entries could forget open channels.
`GaugeAccounted` counts entries and transient channels over each action.
`DegradedHolds` follows from `BreakerSparesConnection` below: whenever the health check
answers, the breaker is open only if there is no connection. Two theorems join `Manager` to the
connection pool. `OnlyPoolSteps`: what `Manager` does to connection and breaker are steps
of `ConnectionState`. `EveryPoolStep`: every step of `ConnectionState`, with what it does
to the channels on the connection, is a step of `Manager`'s environment in every state in
which the breaker spares the connection, which is every reachable one
(`BreakerSparesConnection`). With `ConnectionImplemented` this means that `Manager` was
checked and proved against all that `ConnectionPool` can do, and not against less.

`Registration_proofs`. The key is what a process has in memory while its tasks are
suspended: the queue is empty (`Quiet`) and the unit of work holds one event at most,
of the request that is committing or of one whose commit raised (`RaisedInv`).
Therefore a commit finds exactly its own event, and a task publishes its own event
first and then at most left-behind ones (`EventInv`), from which `OkMeansHandled`
and `EventsHandledOnce` follow; neither is inductive alone. `OneAtATime` is the
refinement of `Accounts`. The step that registers is the commit: a request that
checked the names in one process commits only if the constraint of the table finds
no clash, which is what makes check and insertion one step; a request that waits for
its publisher is registered already (`OkIsRegistered`), and one whose commit has not
begun, or that was refused, has no row (`Unregistered`).

`Auth_proofs`. `FirstIsAlone`: the request that is about to set the expiry created the
key, is the only one, and has not passed yet, so that its own pass stays within the
limit. `EntryOutlives`: the entry of a token, and the time a logout is about to set,
fall short of what is left of that token by no more than the process is west of UTC
(`Late`), for every offset; `East` bounds how long an entry is written for. A repeated
logout of the token may shorten its entry, and not below that.

`Delivery_proofs`. `IInv` adds to the properties what a task is at in terms of its
message (`WorkMatches`), that the publisher is open and work done before a shutdown
(`WorkDone`), the order of the application's phases (`Phases`), and, for the bound
on duplicates, that an event in the queue of the present channel was not delivered
on it yet (`WaitsForFirst`): `DuplicatesNeedLoss` alone would let a waiting event
have used up the bound. `OneConsumer`, the refinement of `MessageQueue`, needs besides
that what a task is about to reject is no event (`RejectsNoEvent`), because the bus
raises for none, and the prefetch window: every unacknowledged message has a live task
(`LiveDelivery`), so that there are no more of them than live tasks (`UnackedBound`, a
surjection from tasks to messages), which the broker limits.

Only model-checked: liveness under fairness (`RequestAnswered`, `CloseReturns`,
`LeftoversRemoved`, `Answered`, `Settled`, `WindowEnds`), which this prover does not do.
The violations are TLC's too: a counterexample is an instance. The type invariants of
`ChannelPool` and `Delivery`, and the two invariants that the refinements of
`ConnectionState` and `Accounts` say again, are proved and no longer part of a run.

## 5. Not modelled

Reasons for each part are under "components" in PROJECT.json. In short:

- The composition of pools, manager and subscriber in one state space. `Manager` is
  composed with `ConnectionPool` through `ConnectionState`, by proof; `ChannelPool`'s
  connection is an await that succeeds or raises, and channels that may be lost at any
  time; `Delivery` sees the channel's loss however it comes about.
- `publish_events_batch()`, `check_channel_health()` and the repository's `get()`,
  which no service calls.
- The views, alerts and the Prometheus text: functions of one state that change
  nothing. `get_alerts()` compares percentages with 0.8 (`views.py:111`), which an
  example shows as well as a model.
- `/login` behind its limiter and the password endpoints, whose commands have no
  handler, so that every call ends with an exception; `user_service.py`, whose
  endpoints are placeholders.
- An `x-retry-count` header that is not a number (`subscriber.py:169`): no producer of
  the repository sets one.
- What the value objects accept, serialisation, the cipher, configuration, logging and
  correlation ids: data without states. aio_pika, SQLAlchemy, PostgreSQL, Redis and
  RabbitMQ appear only through what the code can observe of them.
