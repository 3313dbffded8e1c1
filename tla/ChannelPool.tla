----------------------------- MODULE ChannelPool -----------------------------
(***************************************************************************)
(* The channel pool of RabbitMQConnectionManager, channel pooling enabled  *)
(* (src/src/adapters/message_broker/connection_manager.py).                *)
(*                                                                         *)
(* A task that enters get_channel() obtains a permit of the channel        *)
(* semaphore, then, under the channel pool lock, reserves a channel of the *)
(* pool or awaits a new one; when its body ends it needs the lock again to *)
(* give the channel back.  The cleanup task and close() take channels out  *)
(* of the pool under the same lock.  What a new channel needs, a           *)
(* connection from ConnectionPool and two calls to the broker, is one      *)
(* await that succeeds or raises.                                          *)
(*                                                                         *)
(* Channels are robust ones of aio_pika: one that is lost, with its        *)
(* connection or by itself, may open again at any later time, in the pool, *)
(* under a task or after everybody forgot it, unless it was close()d or    *)
(* its connection is gone for good.                                        *)
(*                                                                         *)
(* A step goes from one await that suspends the task to the next.          *)
(***************************************************************************)
EXTENDS Integers, FiniteSets

CONSTANTS
  Tasks,               \* the tasks that call get_channel()
  Channels,            \* identities of channel objects
  Cleaner,             \* the task of _pool_cleanup_loop()
  Closer,              \* the task that calls close()
  NoChannel, Nobody,   \* absence of a channel, of an owner of the lock
  MaxChannelPoolSize,  \* max_channel_pool_size
  BrokerMayFail,       \* whether close() and set_qos() may raise
  Cancellable,         \* the tasks that may be cancelled
  MaxGauge             \* bound: largest value of the active_channels metric

ASSUME ProcessAssumption ==
  /\ Cleaner \notin Tasks /\ Closer \notin Tasks /\ Cleaner # Closer
  /\ Nobody \notin Tasks \union {Cleaner, Closer}
  /\ NoChannel \notin Channels
  /\ Cancellable \subseteq Tasks
  /\ BrokerMayFail \in BOOLEAN

ASSUME SizeAssumption ==
  /\ IsFiniteSet(Tasks) /\ IsFiniteSet(Channels)
  /\ MaxChannelPoolSize \in Nat \ {0}
  /\ MaxGauge \in Nat

VARIABLES
  pool,      \* the keys of _channel_pool
  open,      \* the channels whose is_closed is False
  down,      \* the lost channels that aio_pika will open again
  reserved,  \* the pooled channels whose reserved flag is set
  idle,      \* the pooled channels past their idle timeout
  gauge,     \* _metrics.active_channels, without the dedicated ones
  permits,   \* the value of _channel_semaphore
  lost,      \* history: the permits that cancelled tasks kept
  drift,     \* history: sweeps whose close() did not return
  leaked,    \* history: open or lost channels that were abandoned
  lock,      \* the owner of _channel_pool_lock
  pc,        \* where each process is
  chan,      \* the channel a process holds, or has popped and is closing
  todo       \* the channels the cleanup task or close() still has to look at

broker  == <<open, down>>
marks   == <<reserved, idle>>
history == <<drift, leaked>>
vars    == <<pool, broker, reserved, idle, gauge, permits, lost, drift, leaked,
             lock, pc, chan, todo>>

Procs == Tasks \union {Cleaner, Closer}

TaskPC    == {"out", "permit", "lock", "create", "use", "return"}
CleanerPC == {"sleep", "lock", "sweep", "evict", "stopped"}
CloserPC  == {"running", "lock", "drain", "closed"}

\* The program points at which a process owns the lock.
Locked == {"create", "sweep", "evict", "drain"}

\* The program points at which a task has a channel.
Holding == {"use", "return"}

Init ==
  /\ pool = {} /\ open = {} /\ down = {} /\ reserved = {} /\ idle = {}
  /\ gauge = 0
  /\ permits = MaxChannelPoolSize /\ lost = 0
  /\ drift = 0 /\ leaked = {}
  /\ lock = Nobody
  /\ pc = [p \in Procs |-> IF p \in Tasks THEN "out"
                           ELSE IF p = Cleaner THEN "sleep" ELSE "running"]
  /\ chan = [p \in Procs |-> NoChannel]
  /\ todo = {}

Goto(p, at) == pc' = [pc EXCEPT ![p] = at]
Have(p, c)  == chan' = [chan EXCEPT ![p] = c]

\* PooledChannel.is_healthy
Healthy(c) == c \in open /\ c \notin reserved

\* Mutant: expiry only, is_healthy is forgotten.
MutStale(c) == c \in idle

\* What _cleanup_expired_resources() removes: reserved channels are among it.
Stale(c) == c \in idle \/ ~Healthy(c)

(***************************************************************************)
(* get_channel()                                                           *)
(***************************************************************************)
Request(t) ==
  /\ pc[t] = "out"
  /\ Goto(t, "permit")
  /\ UNCHANGED <<history, pool, broker, marks, gauge, permits, lost, lock, chan, todo>>

\* Mutant: one task too many is admitted.
MutPermitFree == permits >= 0

PermitFree == permits > 0

AcquirePermit(t) ==
  /\ pc[t] = "permit"
  /\ PermitFree
  /\ permits' = permits - 1
  /\ Goto(t, "lock")
  /\ UNCHANGED <<history, pool, broker, marks, gauge, lock, chan, todo, lost>>

\* The lock is obtained and the loop over the pool takes place.
Enter(t) == pc[t] = "lock" /\ lock = Nobody

Available == {c \in pool : Healthy(c) /\ c \notin reserved /\ c \notin idle}

Reserve(t, c) ==
  /\ Enter(t)
  /\ c \in Available
  /\ reserved' = reserved \union {c}
  /\ Have(t, c)
  /\ Goto(t, "use")
  /\ UNCHANGED <<history, pool, broker, idle, gauge, permits, lost, lock, todo>>

\* Mutant: off by one.
MutFull == Cardinality(pool) > MaxChannelPoolSize

\* len(self._channel_pool) >= self._max_channel_pool_size
Full == Cardinality(pool) >= MaxChannelPoolSize

\* "Channel pool exhausted"
Refuse(t) ==
  /\ Enter(t)
  /\ Available = {} /\ Full
  /\ permits' = permits + 1
  /\ Goto(t, "out")
  /\ UNCHANGED <<history, pool, broker, marks, gauge, lock, chan, todo, lost>>

\* A connection and a channel on it are awaited, with the lock held.
StartCreate(t) ==
  /\ Enter(t)
  /\ Available = {} /\ ~Full
  /\ lock' = t
  /\ Goto(t, "create")
  /\ UNCHANGED <<history, pool, broker, marks, gauge, permits, lost, chan, todo>>

\* The channels that are open to the broker, or will be again.
Alive == open \union down

\* An identity no live object has.
Fresh(c) == c \notin pool \union Alive \union {chan[p] : p \in Procs}

\* Mutant: a new channel enters the pool unmarked.
MutMarkNew(c) == reserved

\* A new channel enters the pool reserved.
MarkNew(c) == reserved \union {c}

CreateOk(t, c) ==
  /\ pc[t] = "create"
  /\ Fresh(c)
  /\ gauge < MaxGauge
  /\ open' = open \union {c}
  /\ pool' = pool \union {c}
  /\ reserved' = MarkNew(c)
  /\ gauge' = gauge + 1
  /\ Have(t, c)
  /\ Goto(t, "use")
  /\ lock' = Nobody
  /\ UNCHANGED <<history, down, idle, permits, lost, todo>>

\* Mutant: the finally clause gives no permit back when it has no channel.
MutPermitsAfterRaise == permits

\* The finally clause when no channel was obtained.
PermitsAfterRaise == permits + 1

\* Mutant: the lock is not released when the creation raises.
MutLockAfterRaise == lock

LockAfterRaise == Nobody

\* What an abandoned _create_channel() leaves open without pooling it: nothing,
\* or the new channel, when set_qos() does not return.
Leftovers == {{}} \union {{c} : c \in {d \in Channels : Fresh(d)}}

\* No connection, no channel, or set_qos() raises.
CreateFail(t, left) ==
  /\ pc[t] = "create"
  /\ left \in Leftovers
  /\ left = {} \/ BrokerMayFail
  /\ open' = open \union left /\ leaked' = leaked \union left
  /\ permits' = PermitsAfterRaise
  /\ Goto(t, "out")
  /\ lock' = LockAfterRaise
  /\ UNCHANGED <<pool, down, marks, gauge, drift, chan, todo, lost>>

\* The body ends; the finally clause needs the lock.
Finish(t) ==
  /\ pc[t] = "use"
  /\ Goto(t, "return")
  /\ UNCHANGED <<history, pool, broker, marks, gauge, permits, lost, lock, chan, todo>>

\* The channel is available again, and so is the permit.
GiveBack(t) ==
  /\ pc[t] = "return"
  /\ lock = Nobody
  /\ reserved' = reserved \ {chan[t]}
  /\ permits' = permits + 1
  /\ Have(t, NoChannel)
  /\ Goto(t, "out")
  /\ UNCHANGED <<history, pool, broker, idle, gauge, lock, todo, lost>>

\* Mutant: the release is the finally of a try that includes the acquire().
MutPermitsAfterCancel(t) == permits + 1

\* A task that waits for the lock to give its channel back is past the finally
\* that would have released the permit.
PermitsAfterCancel(t) ==
  IF pc[t] \in {"permit", "return"} THEN permits ELSE permits + 1

\* A task is cancelled while it waits.  In the finally clause it leaves its
\* channel reserved and its permit taken.
Cancel(t, left) ==
  /\ t \in Cancellable
  /\ left \in Leftovers
  /\ left = {} \/ pc[t] = "create"
  /\ open' = open \union left /\ leaked' = leaked \union left
  /\ pc[t] \in {"permit", "lock", "create"} \/ (pc[t] = "return" /\ lock # Nobody)
  /\ permits' = PermitsAfterCancel(t)
  /\ lost' = IF pc[t] = "return" THEN lost + 1 ELSE lost
  /\ lock' = IF lock = t THEN Nobody ELSE lock
  /\ Have(t, NoChannel)
  /\ Goto(t, "out")
  /\ UNCHANGED <<pool, down, marks, gauge, drift, todo>>

(***************************************************************************)
(* The second half of _cleanup_expired_resources()                         *)
(***************************************************************************)
ShuttingDown == pc[Closer] # "running"

Wake ==
  /\ pc[Cleaner] = "sleep"
  /\ ~ShuttingDown
  /\ Goto(Cleaner, "lock")
  /\ UNCHANGED <<history, pool, broker, marks, gauge, permits, lost, lock, chan, todo>>

\* The list of the channels to remove is made.
StartSweep ==
  /\ pc[Cleaner] = "lock"
  /\ ~ShuttingDown
  /\ lock = Nobody
  /\ lock' = Cleaner
  /\ todo' = {c \in pool : Stale(c)}
  /\ Goto(Cleaner, "sweep")
  /\ UNCHANGED <<history, pool, broker, marks, gauge, permits, lost, chan>>

\* A channel of the list is popped, and its close() awaited.
Sweep(c) ==
  /\ pc[Cleaner] = "sweep"
  /\ c \in todo
  /\ todo' = todo \ {c}
  /\ pool' = pool \ {c}
  /\ reserved' = reserved \ {c} /\ idle' = idle \ {c}
  /\ Have(Cleaner, c)
  /\ Goto(Cleaner, "evict")
  /\ UNCHANGED <<history, broker, gauge, permits, lost, lock>>

\* Mutant: counted after the try and inside it.
MutGaugeAfterClose(ok) == IF ok THEN gauge - 2 ELSE gauge - 1

\* Only a close() that worked is counted.
GaugeAfterClose(ok) == IF ok THEN gauge - 1 ELSE gauge

\* Mutant: a channel that is_closed is popped without close(), as in close().
MutClosedBySweep(ok) == IF ok THEN {chan[Cleaner]} \cap open ELSE {}

\* The cleanup calls close() of lost channels too: they do not open again.
ClosedBySweep(ok) == IF ok THEN {chan[Cleaner]} ELSE {}

\* The close() of a popped channel raised or was abandoned.
NotClosed ==
  /\ drift' = drift + 1
  /\ leaked' = leaked \union ({chan[Cleaner]} \cap Alive)

FinishSweep(ok) ==
  /\ pc[Cleaner] = "evict"
  /\ ~ShuttingDown
  /\ IF ok THEN UNCHANGED history ELSE BrokerMayFail /\ NotClosed
  /\ open' = open \ ClosedBySweep(ok) /\ down' = down \ ClosedBySweep(ok)
  /\ gauge' = GaugeAfterClose(ok)
  /\ Have(Cleaner, NoChannel)
  /\ Goto(Cleaner, "sweep")
  /\ UNCHANGED <<pool, marks, permits, lost, lock, todo>>

EndSweep ==
  /\ pc[Cleaner] = "sweep"
  /\ todo = {}
  /\ lock' = Nobody
  /\ Goto(Cleaner, "sleep")
  /\ UNCHANGED <<history, pool, broker, marks, gauge, permits, lost, chan, todo>>

\* The cancelled cleanup task abandons what it was doing.
StopCleaner ==
  /\ ShuttingDown
  /\ pc[Cleaner] \in {"sleep", "lock", "evict"}
  /\ IF pc[Cleaner] = "evict" THEN NotClosed ELSE UNCHANGED history
  /\ lock' = IF lock = Cleaner THEN Nobody ELSE lock
  /\ todo' = IF lock = Cleaner THEN {} ELSE todo
  /\ Have(Cleaner, NoChannel)
  /\ Goto(Cleaner, "stopped")
  /\ UNCHANGED <<pool, broker, marks, gauge, permits, lost>>

(***************************************************************************)
(* close(): the pooled channels                                            *)
(***************************************************************************)
StartClose ==
  /\ pc[Closer] = "running"
  /\ Goto(Closer, "lock")
  /\ UNCHANGED <<history, pool, broker, marks, gauge, permits, lost, lock, chan, todo>>

\* The cleanup task has ended.
StartDrain ==
  /\ pc[Closer] = "lock" /\ pc[Cleaner] = "stopped"
  /\ lock = Nobody
  /\ lock' = Closer
  /\ todo' = pool
  /\ Goto(Closer, "drain")
  /\ UNCHANGED <<history, pool, broker, marks, gauge, permits, lost, chan>>

\* A channel that is_closed is passed over, also when it will open again.
Drain(c, ok) ==
  /\ pc[Closer] = "drain"
  /\ c \in todo
  /\ \/ ok /\ c \in open /\ open' = open \ {c} /\ UNCHANGED leaked
     \/ ~ok /\ c \in open /\ BrokerMayFail /\ leaked' = leaked \union {c} /\ UNCHANGED open
     \/ c \notin open /\ leaked' = leaked \union ({c} \cap down) /\ UNCHANGED open
  /\ todo' = todo \ {c}
  /\ UNCHANGED <<pool, down, marks, gauge, drift, permits, lost, lock, pc, chan>>

FinishClose ==
  /\ pc[Closer] = "drain"
  /\ todo = {}
  /\ pool' = {} /\ reserved' = {} /\ idle' = {}
  /\ gauge' = 0 /\ drift' = 0
  /\ lock' = Nobody
  /\ Goto(Closer, "closed")
  /\ UNCHANGED <<broker, leaked, permits, lost, chan, todo>>

(***************************************************************************)
(* The broker and the clock                                                *)
(***************************************************************************)

\* A channel is lost, alone or with its connection.
Lose(c) ==
  /\ c \in open
  /\ open' = open \ {c} /\ down' = down \union {c}
  /\ UNCHANGED <<history, pool, marks, gauge, permits, lost, lock, pc, chan, todo>>

\* aio_pika opens a lost channel again.
Restore(c) ==
  /\ c \in down
  /\ open' = open \union {c} /\ down' = down \ {c}
  /\ UNCHANGED <<history, pool, marks, gauge, permits, lost, lock, pc, chan, todo>>

\* ConnectionPool closes the connection of the channel, for good.
End(c) ==
  /\ c \in Alive
  /\ open' = open \ {c} /\ down' = down \ {c} /\ leaked' = leaked \ {c}
  /\ UNCHANGED <<pool, marks, gauge, drift, permits, lost, lock, pc, chan, todo>>

GrowIdle(c) ==
  /\ c \in pool \ idle
  /\ idle' = idle \union {c}
  /\ UNCHANGED <<history, pool, broker, reserved, gauge, permits, lost, lock, pc, chan, todo>>

(***************************************************************************)
(* The specification                                                       *)
(***************************************************************************)
EnterPool(t) == Refuse(t) \/ StartCreate(t) \/ \E c \in Channels : Reserve(t, c)

EndCreate(t) ==
  \/ \E c \in Channels : CreateOk(t, c)
  \/ \E left \in SUBSET Channels : CreateFail(t, left)

TaskNext(t) ==
  \/ Request(t) \/ AcquirePermit(t) \/ EnterPool(t) \/ EndCreate(t)
  \/ Finish(t) \/ GiveBack(t)
  \/ \E left \in SUBSET Channels : Cancel(t, left)

Sweeping == EndSweep \/ (\E c \in Channels : Sweep(c)) \/ (\E ok \in BOOLEAN : FinishSweep(ok))

CleanerNext == Wake \/ StartSweep \/ Sweeping \/ StopCleaner

Draining == FinishClose \/ \E c \in Channels, ok \in BOOLEAN : Drain(c, ok)

CloserNext == StartClose \/ StartDrain \/ Draining

Environment == \E c \in Channels : Lose(c) \/ Restore(c) \/ End(c) \/ GrowIdle(c)

Next ==
  \/ \E t \in Tasks : TaskNext(t)
  \/ CleanerNext
  \/ CloserNext
  \/ Environment

Spec == Init /\ [][Next]_vars

\* As in ConnectionPool: awaits and bodies end, asyncio's semaphore and lock
\* are first come, first served.  The cleanup task's sleep ends.
Fairness ==
  /\ \A t \in Tasks :
       /\ SF_vars(AcquirePermit(t)) /\ SF_vars(EnterPool(t)) /\ SF_vars(GiveBack(t))
       /\ WF_vars(EndCreate(t)) /\ WF_vars(Finish(t))
  /\ WF_vars(Wake) /\ SF_vars(StartSweep) /\ WF_vars(Sweeping) /\ WF_vars(StopCleaner)
  /\ SF_vars(StartDrain) /\ WF_vars(Draining)

FairSpec == Spec /\ Fairness

(***************************************************************************)
(* Properties                                                              *)
(***************************************************************************)

\* The types of the variables; the marks belong to pooled channels only.
TypeOK ==
  /\ pool \subseteq Channels /\ todo \subseteq Channels
  /\ open \subseteq Channels /\ down \subseteq Channels /\ open \cap down = {}
  /\ reserved \subseteq pool /\ idle \subseteq pool
  /\ gauge \in Int /\ permits \in Nat /\ lost \in Nat
  /\ drift \in Nat /\ leaked \subseteq Channels
  /\ lock \in Procs \union {Nobody}
  /\ pc \in [Procs -> TaskPC \union CleanerPC \union CloserPC]
  /\ \A t \in Tasks : pc[t] \in TaskPC
  /\ pc[Cleaner] \in CleanerPC /\ pc[Closer] \in CloserPC
  /\ chan \in [Procs -> Channels \union {NoChannel}]

\* The lock is owned by the one process inside a section it protects.
LockOwnership ==
  \A p \in Procs : lock = p <=> pc[p] \in Locked

\* Two tasks never hold the same channel, although the cleanup task clears
\* marks, cancelled tasks leave them behind and identities are recycled.
ExclusiveUse ==
  \A t, u \in Tasks :
    pc[t] \in Holding /\ pc[u] \in Holding /\ chan[t] = chan[u] => t = u

\* A pooled channel that a task holds is marked as reserved.
HeldIsReserved ==
  \A t \in Tasks : pc[t] \in Holding /\ chan[t] \in pool => chan[t] \in reserved

\* The pool does not outgrow its limit, although the size is tested before the
\* awaits of the creation and the entry is added after them.
PoolBounded == Cardinality(pool) <= MaxChannelPoolSize

\* The tasks between acquire() and release() of the semaphore.
Inside == {t \in Tasks : pc[t] \notin {"out", "permit"}}

\* Every permit of the semaphore is free, held by one task inside
\* get_channel(), or was kept by a task cancelled in its finally clause: no
\* other path loses one or gives one back twice.
PermitAccounting == permits + Cardinality(Inside) + lost = MaxChannelPoolSize

\* A task that meets a full pool can blame an entry nobody holds: it is never
\* refused because all channels are in use.
RefusedOnlyByLeftover ==
  \A t \in Tasks :
    pc[t] = "lock" /\ Full =>
      \E c \in pool : \A u \in Tasks : pc[u] \in Holding => chan[u] # c

\* The channels that are popped and being closed.
Evicting == IF pc[Cleaner] = "evict" THEN {chan[Cleaner]} ELSE {}

\* The metric is the pool and the channel being closed, and what sweeps whose
\* close() failed or was cancelled left in it: creations that fail half-way,
\* cancelled tasks and close() leave it as it should be.
GaugeExact == gauge = Cardinality(pool) + Cardinality(Evicting) + drift

\* Every channel that is open, or will open again, is in the pool or being closed,
\* unless set_qos() or close() failed or was cancelled, or the manager's close()
\* met it while it was lost: swept channels that tasks still hold are no
\* exception, nor are those that were lost when they were swept.
NoOrphan == Alive \subseteq pool \union Evicting \union leaked

Lending == INSTANCE ChannelLending
  WITH lent <- [t \in Tasks |-> chan[t]], kept <- lost, None <- NoChannel,
       Capacity <- MaxChannelPoolSize

\* The pool implements ChannelLending: a channel that is handed out is open and
\* nobody else's, in use by no more tasks than there are permits.
RefinesChannelLending == Lending!Spec

\* A request ends with a channel or an error, unless cancelled tasks kept all
\* permits.
RequestAnswered ==
  \A t \in Tasks :
    pc[t] = "permit" ~> pc[t] \in Holding \union {"out"} \/ lost = MaxChannelPoolSize

\* A pooled channel no task can get: it is closed, or reserved by nobody.
Leftover(c) ==
  c \in pool /\ (c \notin open \/ (c \in reserved /\ \A t \in Tasks : chan[t] # c))

\* A leftover leaves the pool or, if it was lost, comes back to life, unless the
\* manager is shut down: what blocks the pool does so for a while only.
LeftoversRemoved ==
  \A c \in Channels : Leftover(c) ~> ~Leftover(c) \/ ShuttingDown

\* close() returns.
CloseReturns == pc[Closer] = "lock" ~> pc[Closer] = "closed"

\* The docstring of _cleanup_expired_resources() says what it removes:
\* "expired or unhealthy connections and channels", where HealthChecker calls a
\* channel healthy when it is "not closed".
SweepsOnlyUnusable ==
  [][\A c \in Channels : Sweep(c) => c \in idle \/ c \notin open]_vars

===============================================================================
