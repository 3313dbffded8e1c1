---------------------------- MODULE ConnectionPool ----------------------------
(***************************************************************************)
(* The connection pool of RabbitMQConnectionManager                        *)
(* (src/src/adapters/message_broker/connection_manager.py).                *)
(*                                                                         *)
(* Its processes are asyncio tasks: the tasks that enter get_connection(), *)
(* the background cleanup task and the task that calls close().  A process *)
(* runs without interruption between two awaits that suspend it; a step    *)
(* here goes from one such point to the next, or is a part of that.  The   *)
(* connections themselves belong to aio_pika: opening and closing one is   *)
(* an await that may succeed or raise, and an open one may be lost at any  *)
(* time.  They are robust connections: one that is reconnecting is not     *)
(* is_closed, and is open here; a lost one has ended and stays closed.     *)
(*                                                                         *)
(* Clocks are replaced by the answers the code computes from them: whether *)
(* a connection is past its idle timeout or its maximal age, and whether   *)
(* the circuit breaker's timeout is over.                                  *)
(***************************************************************************)
EXTENDS Integers, FiniteSets

CONSTANTS
  Tasks,             \* the tasks that call get_connection()
  Conns,             \* identities of connection objects
  Cleaner,           \* the task of _pool_cleanup_loop()
  Closer,            \* the task that calls close()
  NoConn, Nobody,    \* absence of a connection, of an owner of the lock
  MaxConnPoolSize,   \* max_connection_pool_size
  Threshold,         \* circuit_breaker_threshold
  CloseMayFail,      \* whether closing a connection may raise
  Cancellable,       \* the tasks that may be cancelled
  MaxGauge           \* bound: largest value of the active_connections metric

ASSUME ProcessAssumption ==
  /\ Cleaner \notin Tasks /\ Closer \notin Tasks /\ Cleaner # Closer
  /\ Nobody \notin Tasks \union {Cleaner, Closer}
  /\ NoConn \notin Conns
  /\ Cancellable \subseteq Tasks
  /\ CloseMayFail \in BOOLEAN

ASSUME SizeAssumption ==
  /\ IsFiniteSet(Tasks)
  /\ MaxConnPoolSize \in Nat \ {0}
  /\ Threshold \in Nat \ {0}
  /\ MaxGauge \in Nat

VARIABLES
  pool,         \* the keys of _connection_pool
  open,         \* the connections whose is_closed is False
  idle, aged,   \* pooled ones past the idle timeout, past max_connection_age
  breaker,      \* CircuitBreaker: "closed", "open", or "cooled": open, and
                \* its timeout is over
  failures,     \* circuit_breaker_failures
  gauge,        \* _metrics.active_connections
  drift,        \* history: evictions whose close() did not return
  leaked,       \* history: open connections whose close() did not return
  permits,      \* the value of _connection_semaphore
  lock,         \* the owner of _connection_pool_lock
  pc,           \* where each process is
  conn,         \* the connection a process uses, or has popped and is closing
  todo          \* the connections the lock's owner still has to look at

clocks  == <<idle, aged>>
circuit == <<breaker, failures>>
history == <<drift, leaked>>
vars    == <<pool, open, idle, aged, breaker, failures, gauge, drift, leaked,
             permits, lock, pc, conn, todo>>

Procs == Tasks \union {Cleaner, Closer}

TaskPC    == {"out", "permit", "lock", "scan", "evict", "connect", "use"}
CleanerPC == {"sleep", "lock", "sweep", "evict", "stopped"}
CloserPC  == {"running", "join", "lock", "drain", "closed"}

\* The program points at which a process owns the pool lock.
Locked == {"scan", "evict", "connect", "sweep", "drain"}

Init ==
  /\ pool = {} /\ open = {} /\ idle = {} /\ aged = {}
  /\ breaker = "closed" /\ failures = 0
  /\ gauge = 0 /\ drift = 0 /\ leaked = {}
  /\ permits = MaxConnPoolSize
  /\ lock = Nobody
  /\ pc = [p \in Procs |-> IF p \in Tasks THEN "out"
                            ELSE IF p = Cleaner THEN "sleep" ELSE "running"]
  /\ conn = [p \in Procs |-> NoConn]
  /\ todo = {}

Goto(p, at) == pc' = [pc EXCEPT ![p] = at]
Have(p, c)  == conn' = [conn EXCEPT ![p] = c]

\* PooledConnection.is_healthy: its state field is CONNECTED throughout.
Healthy(c) == c \in open

\* What _acquire_connection() hands out again.
Usable(c) == Healthy(c) /\ c \notin idle

\* What _cleanup_expired_resources() removes.
Stale(c) == c \in idle \/ ~Healthy(c) \/ c \in aged

\* The entry of c leaves the dictionary, its timestamps with it.
Pop(c) ==
  /\ pool' = pool \ {c}
  /\ idle' = idle \ {c}
  /\ aged' = aged \ {c}

\* CircuitBreaker.check_circuit_breaker() refuses.
BreakerBlocks == breaker = "open"

\* Mutant: the reset forgets to close the breaker.
MutResetBreaker ==
  /\ failures' = IF breaker = "cooled" THEN 0 ELSE failures
  /\ UNCHANGED breaker

\* CircuitBreaker.check_circuit_breaker() resets a breaker whose timeout is over.
ResetBreaker ==
  /\ breaker' = "closed"
  /\ failures' = IF breaker = "cooled" THEN 0 ELSE failures

\* Mutant: the count is lowered below zero.
MutRecordSuccess ==
  /\ failures' = failures - 1
  /\ UNCHANGED breaker

\* CircuitBreaker.record_success()
RecordSuccess ==
  /\ failures' = IF failures > 0 THEN failures - 1 ELSE failures
  /\ UNCHANGED breaker

\* Mutant: the breaker opens one failure late.
MutRecordFailure ==
  /\ failures' = failures + 1
  /\ breaker' = IF failures + 1 > Threshold THEN "open" ELSE breaker

\* CircuitBreaker.record_failure()
RecordFailure ==
  /\ failures' = failures + 1
  /\ breaker' = IF failures + 1 >= Threshold THEN "open" ELSE breaker

(***************************************************************************)
(* get_connection() and _acquire_connection()                              *)
(***************************************************************************)
Request(t) ==
  /\ pc[t] = "out"
  /\ Goto(t, "permit")
  /\ UNCHANGED <<history, pool, open, clocks, circuit, gauge, permits, lock, conn, todo>>

AcquirePermit(t) ==
  /\ pc[t] = "permit"
  /\ permits > 0
  /\ permits' = permits - 1
  /\ Goto(t, "lock")
  /\ UNCHANGED <<history, pool, open, clocks, circuit, gauge, lock, conn, todo>>

EnterPool(t) ==
  /\ pc[t] = "lock"
  /\ lock = Nobody
  /\ lock' = t
  /\ Goto(t, "scan")
  /\ UNCHANGED <<history, pool, open, clocks, circuit, gauge, permits, conn, todo>>

\* The scan meets a usable entry: mark_used(), and the entry is returned.
Reuse(t, c) ==
  /\ pc[t] = "scan"
  /\ c \in pool /\ Usable(c)
  /\ idle' = idle \ {c}
  /\ Have(t, c)
  /\ Goto(t, "use")
  /\ lock' = Nobody
  /\ UNCHANGED <<history, pool, open, aged, circuit, gauge, permits, todo>>

\* Mutant: counted when it is popped, and again when it is closed.
MutGaugeAtPop(c) == gauge - 1

\* An entry that is already closed is only dropped and counted.
GaugeAtPop(c) == IF c \in open THEN gauge ELSE gauge - 1

\* The scan meets an entry that is not usable: it is popped whatever follows,
\* and closed, which suspends the task, if it is still open.
Evict(t, c) ==
  /\ pc[t] = "scan"
  /\ c \in pool /\ ~Usable(c)
  /\ Pop(c)
  /\ gauge' = GaugeAtPop(c)
  /\ IF c \in open THEN Have(t, c) /\ Goto(t, "evict")
                   ELSE UNCHANGED <<pc, conn>>
  /\ UNCHANGED <<history, open, circuit, permits, lock, todo>>

\* Mutant: the popped connection is counted but not closed.
MutEvictionOver(p, ok) ==
  /\ gauge' = gauge - 1
  /\ Have(p, NoConn)
  /\ UNCHANGED <<open, history>>

\* The close() of the connection p has popped raised or was abandoned.
NotClosed(p) ==
  /\ drift' = drift + 1
  /\ leaked' = leaked \union ({conn[p]} \cap open)
  /\ UNCHANGED <<open, gauge>>

\* The await of close() on the popped connection p holds returns (ok) or
\* raises; only a return is counted.
EvictionOver(p, ok) ==
  /\ \/ ok /\ open' = open \ {conn[p]} /\ gauge' = gauge - 1 /\ UNCHANGED history
     \/ ~ok /\ CloseMayFail /\ NotClosed(p)
  /\ Have(p, NoConn)

FinishEvict(t, ok) ==
  /\ pc[t] = "evict"
  /\ EvictionOver(t, ok)
  /\ Goto(t, "scan")
  /\ UNCHANGED <<pool, clocks, circuit, permits, lock, todo>>

\* Mutant: entries that are not usable are skipped and stay in the pool.
MutScanOver == \A c \in pool : ~Usable(c)

\* Every entry was looked at, and none returned: each was popped on the way.
ScanOver == pool = {}

\* len(self._connection_pool) < self._max_conn_pool_size
HasRoom == Cardinality(pool) < MaxConnPoolSize

\* _acquire_connection() raises before it connects: the pool is full, or
\* _create_connection() finds the breaker open.
Refuse(t) ==
  /\ pc[t] = "scan"
  /\ ScanOver
  /\ ~HasRoom \/ BreakerBlocks
  /\ lock' = Nobody
  /\ permits' = permits + 1
  /\ Goto(t, "out")
  /\ UNCHANGED <<history, pool, open, clocks, circuit, gauge, conn, todo>>

\* _create_connection() awaits the factory, with the pool lock held.
Connect(t) ==
  /\ pc[t] = "scan"
  /\ ScanOver
  /\ HasRoom /\ ~BreakerBlocks
  /\ ResetBreaker
  /\ Goto(t, "connect")
  /\ UNCHANGED <<history, pool, open, clocks, gauge, permits, lock, conn, todo>>

\* An identity no live object has.  id() recycles those of collected objects.
Fresh(c) == c \notin pool \union open \union {conn[p] : p \in Procs}

\* The factory returns a connection, which enters the pool and is used.
ConnectOk(t, c) ==
  /\ pc[t] = "connect"
  /\ Fresh(c)
  /\ gauge < MaxGauge
  /\ open' = open \union {c}
  /\ pool' = pool \union {c}
  /\ gauge' = gauge + 1
  /\ RecordSuccess
  /\ Have(t, c)
  /\ Goto(t, "use")
  /\ lock' = Nobody
  /\ UNCHANGED <<history, clocks, permits, todo>>

\* Mutant: the lock is not released when the factory raises.
MutLockAfterFailure == lock

\* The lock after the factory raised.
LockAfterFailure == Nobody

\* The factory raises: the failure is recorded and get_connection() raises.
ConnectFail(t) ==
  /\ pc[t] = "connect"
  /\ RecordFailure
  /\ lock' = LockAfterFailure
  /\ permits' = permits + 1
  /\ Goto(t, "out")
  /\ UNCHANGED <<history, pool, open, clocks, gauge, conn, todo>>

\* The body of the async with ends, normally or not: _release_connection()
\* marks the connection as used, whether it is still pooled or not.
Release(t) ==
  /\ pc[t] = "use"
  /\ idle' = idle \ {conn[t]}
  /\ Have(t, NoConn)
  /\ permits' = permits + 1
  /\ Goto(t, "out")
  /\ UNCHANGED <<history, pool, open, aged, circuit, gauge, lock, todo>>

\* Mutant: the acquire() is inside the try, so that finally gives back a
\* permit that was never obtained.
MutPermitsAfterCancel(t) == permits + 1

\* Mutant: there is no finally, and a cancelled task keeps its permit.
MutPermitsLost(t) == permits

\* The permits after a task was cancelled at an await: the finally clause of
\* get_connection() gives back the one it holds.
PermitsAfterCancel(t) == IF pc[t] = "permit" THEN permits ELSE permits + 1

\* A task is cancelled while it waits.  CancelledError is not an Exception: a
\* popped connection is neither closed nor counted, an attempt to connect is
\* not recorded as a failure; the lock and the permit are given back.
Cancel(t) ==
  /\ t \in Cancellable
  /\ pc[t] \in {"permit", "lock", "evict", "connect"}
  /\ IF pc[t] = "evict" THEN NotClosed(t) ELSE UNCHANGED <<open, gauge, history>>
  /\ lock' = IF pc[t] \in Locked THEN Nobody ELSE lock
  /\ permits' = PermitsAfterCancel(t)
  /\ Have(t, NoConn)
  /\ Goto(t, "out")
  /\ UNCHANGED <<pool, clocks, circuit, todo>>

(***************************************************************************)
(* _pool_cleanup_loop() and the first half of _cleanup_expired_resources() *)
(***************************************************************************)

\* close() has begun: _closed is set and the cleanup task is being cancelled.
ShuttingDown == pc[Closer] # "running"

Wake ==
  /\ pc[Cleaner] = "sleep"
  /\ ~ShuttingDown
  /\ Goto(Cleaner, "lock")
  /\ UNCHANGED <<history, pool, open, clocks, circuit, gauge, permits, lock, conn, todo>>

\* The lock is obtained and the list of the entries to remove is made.
StartSweep ==
  /\ pc[Cleaner] = "lock"
  /\ ~ShuttingDown
  /\ lock = Nobody
  /\ lock' = Cleaner
  /\ todo' = {c \in pool : Stale(c)}
  /\ Goto(Cleaner, "sweep")
  /\ UNCHANGED <<history, pool, open, clocks, circuit, gauge, permits, conn>>

\* One entry of the list is popped and closed, even if it is closed already.
Sweep(c) ==
  /\ pc[Cleaner] = "sweep"
  /\ c \in todo
  /\ todo' = todo \ {c}
  /\ Pop(c)
  /\ Have(Cleaner, c)
  /\ Goto(Cleaner, "evict")
  /\ UNCHANGED <<history, open, circuit, gauge, permits, lock>>

FinishSweep(ok) ==
  /\ pc[Cleaner] = "evict"
  /\ ~ShuttingDown
  /\ EvictionOver(Cleaner, ok)
  /\ Goto(Cleaner, "sweep")
  /\ UNCHANGED <<pool, clocks, circuit, permits, lock, todo>>

EndSweep ==
  /\ pc[Cleaner] = "sweep"
  /\ todo = {}
  /\ lock' = Nobody
  /\ Goto(Cleaner, "sleep")
  /\ UNCHANGED <<history, pool, open, clocks, circuit, gauge, permits, conn, todo>>

\* The cancellation reaches the cleanup task at the await it is suspended in,
\* which abandons a connection that it popped and was closing.
StopCleaner ==
  /\ ShuttingDown
  /\ pc[Cleaner] \in {"sleep", "lock", "evict"}
  /\ IF pc[Cleaner] = "evict" THEN NotClosed(Cleaner) ELSE UNCHANGED <<open, gauge, history>>
  /\ lock' = IF lock = Cleaner THEN Nobody ELSE lock
  /\ todo' = IF lock = Cleaner THEN {} ELSE todo
  /\ Have(Cleaner, NoConn)
  /\ Goto(Cleaner, "stopped")
  /\ UNCHANGED <<pool, clocks, circuit, permits>>

(***************************************************************************)
(* close(), from the cancellation of the cleanup task to the connections   *)
(***************************************************************************)
StartClose ==
  /\ pc[Closer] = "running"
  /\ Goto(Closer, "join")
  /\ UNCHANGED <<history, pool, open, clocks, circuit, gauge, permits, lock, conn, todo>>

\* The cancelled cleanup task is awaited.
JoinCleaner ==
  /\ pc[Closer] = "join"
  /\ pc[Cleaner] = "stopped"
  /\ Goto(Closer, "lock")
  /\ UNCHANGED <<history, pool, open, clocks, circuit, gauge, permits, lock, conn, todo>>

StartDrain ==
  /\ pc[Closer] = "lock"
  /\ lock = Nobody
  /\ lock' = Closer
  /\ todo' = pool
  /\ Goto(Closer, "drain")
  /\ UNCHANGED <<history, pool, open, clocks, circuit, gauge, permits, conn>>

\* An open connection is closed, or raises and is passed over.
Drain(c, ok) ==
  /\ pc[Closer] = "drain"
  /\ c \in todo
  /\ \/ ok /\ open' = open \ {c} /\ UNCHANGED leaked
     \/ ~ok /\ c \in open /\ CloseMayFail /\ leaked' = leaked \union {c} /\ UNCHANGED open
  /\ todo' = todo \ {c}
  /\ UNCHANGED <<pool, clocks, circuit, gauge, drift, permits, lock, pc, conn>>

\* The dictionary and the metric are cleared, whatever close() did.
FinishClose ==
  /\ pc[Closer] = "drain"
  /\ todo = {}
  /\ pool' = {} /\ idle' = {} /\ aged' = {}
  /\ gauge' = 0 /\ drift' = 0
  /\ lock' = Nobody
  /\ Goto(Closer, "closed")
  /\ UNCHANGED <<open, leaked, circuit, permits, conn, todo>>

(***************************************************************************)
(* The broker and the clocks                                               *)
(***************************************************************************)
\* A connection ends: it is is_closed, and does not reconnect.
Lose(c) ==
  /\ c \in open
  /\ open' = open \ {c} /\ leaked' = leaked \ {c}
  /\ UNCHANGED <<pool, clocks, circuit, gauge, drift, permits, lock, pc, conn, todo>>

GrowIdle(c) ==
  /\ c \in pool \ idle
  /\ idle' = idle \union {c}
  /\ UNCHANGED <<history, pool, open, aged, circuit, gauge, permits, lock, pc, conn, todo>>

GrowOld(c) ==
  /\ c \in pool \ aged
  /\ aged' = aged \union {c}
  /\ UNCHANGED <<history, pool, open, idle, circuit, gauge, permits, lock, pc, conn, todo>>

CoolDown ==
  /\ breaker = "open"
  /\ breaker' = "cooled"
  /\ UNCHANGED <<history, pool, open, clocks, failures, gauge, permits, lock, pc, conn, todo>>

(***************************************************************************)
(* The specification                                                       *)
(***************************************************************************)
Scan(t)         == Refuse(t) \/ Connect(t) \/ \E c \in Conns : Reuse(t, c) \/ Evict(t, c)
EndEvict(t)     == \E ok \in BOOLEAN : FinishEvict(t, ok)
EndConnect(t)   == ConnectFail(t) \/ \E c \in Conns : ConnectOk(t, c)

TaskNext(t) ==
  \/ Request(t) \/ AcquirePermit(t) \/ EnterPool(t)
  \/ Scan(t) \/ EndEvict(t) \/ EndConnect(t)
  \/ Release(t) \/ Cancel(t)

EndSweeping == EndSweep \/ (\E c \in Conns : Sweep(c)) \/ (\E ok \in BOOLEAN : FinishSweep(ok))

CleanerNext == Wake \/ StartSweep \/ EndSweeping \/ StopCleaner

EndDraining == FinishClose \/ \E c \in Conns, ok \in BOOLEAN : Drain(c, ok)

CloserNext == StartClose \/ JoinCleaner \/ StartDrain \/ EndDraining

Environment == CoolDown \/ \E c \in Conns : Lose(c) \/ GrowIdle(c) \/ GrowOld(c)

Next ==
  \/ \E t \in Tasks : TaskNext(t)
  \/ CleanerNext
  \/ CloserNext
  \/ Environment

Spec == Init /\ [][Next]_vars

\* What is awaited ends: the factory, a close() and the body of an async with.
\* asyncio's semaphore and lock wake their waiters first come, first served,
\* so that a waiter is not overtaken for ever.
Fairness ==
  /\ \A t \in Tasks :
       /\ SF_vars(AcquirePermit(t)) /\ SF_vars(EnterPool(t))
       /\ WF_vars(Scan(t)) /\ WF_vars(EndEvict(t))
       /\ WF_vars(EndConnect(t)) /\ WF_vars(Release(t))
  /\ WF_vars(EndSweeping) /\ WF_vars(StopCleaner)
  /\ WF_vars(JoinCleaner) /\ SF_vars(StartDrain) /\ WF_vars(EndDraining)

FairSpec == Spec /\ Fairness

(***************************************************************************)
(* Properties                                                              *)
(***************************************************************************)

\* The types of the variables; timestamps belong to pooled connections only.
TypeOK ==
  /\ pool \subseteq Conns /\ open \subseteq Conns /\ todo \subseteq Conns
  /\ idle \subseteq pool /\ aged \subseteq pool
  /\ breaker \in {"closed", "open", "cooled"}
  /\ failures \in Nat /\ gauge \in Int
  /\ drift \in Nat /\ leaked \subseteq Conns
  /\ permits \in Nat
  /\ lock \in Procs \union {Nobody}
  /\ pc \in [Procs -> TaskPC \union CleanerPC \union CloserPC]
  /\ \A t \in Tasks : pc[t] \in TaskPC
  /\ pc[Cleaner] \in CleanerPC /\ pc[Closer] \in CloserPC
  /\ conn \in [Procs -> Conns \union {NoConn}]

\* The pool lock is owned by the one process that is inside a section it
\* protects, whatever was raised or cancelled in such a section.
LockOwnership ==
  \A p \in Procs : lock = p <=> pc[p] \in Locked

\* The tasks between acquire() and release() of the semaphore.
Inside == {t \in Tasks : pc[t] \notin {"out", "permit"}}

\* Every permit of the semaphore is free or held by one task inside
\* get_connection(): none is lost or given back twice by a refusal, a failed
\* connect or a cancellation.
PermitAccounting == permits + Cardinality(Inside) = MaxConnPoolSize

\* However large max_connection_pool_size is, the pool never holds two
\* connections: all tasks share one, since a task connects only after it has
\* removed every pooled connection, and no other task can add one meanwhile.
AtMostOneConnection == \A c, d \in pool : c = d

\* The breaker is open exactly from the Threshold-th failure that no success
\* made up for to its reset, and no failure is counted while it is open.
BreakerAgreement ==
  /\ breaker # "closed" <=> failures = Threshold
  /\ failures <= Threshold

\* While the breaker is open nothing is pooled: the breaker never cuts tasks
\* off from a connection that is still there.
BreakerOpenMeansEmptyPool == breaker # "closed" => pool = {}

\* The processes that have popped a connection and are closing it.
Evicting == {p \in Procs : pc[p] = "evict"}

\* The metric of active connections is the pool and the connection being
\* evicted, and what evictions whose close() failed or was cancelled left in it:
\* nothing else makes it drift, close() and losses included.
GaugeExact ==
  gauge = Cardinality(pool) + Cardinality(Evicting) + drift

\* Every connection that is open to the broker is in the pool or being closed,
\* unless its close() failed or was cancelled: no interleaving of tasks, cleanup
\* and close() forgets one.
NoOrphan ==
  open \subseteq pool \union {conn[p] : p \in Evicting} \union leaked

\* The docstring of close(): it "closes all managed connections".  Once it has
\* returned, the manager has no connection.
ClosedMeansNoConnection == pc[Closer] = "closed" => pool = {}

\* A task that asks for a connection gets one or an error.
RequestAnswered == \A t \in Tasks : pc[t] = "permit" ~> pc[t] \in {"use", "out"}

\* close() returns, whatever the tasks and the cleanup task were doing.
CloseReturns == pc[Closer] = "join" ~> pc[Closer] = "closed"

\* The pool is one shared connection.
Shared == INSTANCE SharedConnection WITH
            service <- pool,
            using   <- [t \in Tasks |-> IF pc[t] = "use" THEN conn[t] ELSE NoConn]

RefinesSharedConnection == Shared!Spec

\* What Manager assumes of its connection is what the pool does: one connection
\* that is open, lost or absent, and a breaker that is closed whenever somebody
\* is given it.
Status == INSTANCE ConnectionState WITH
            connection <- IF pool = {} THEN "none"
                          ELSE IF pool \subseteq open THEN "open" ELSE "lost",
            tripped    <- breaker # "closed"

ImplementsConnectionState == Status!Spec
===============================================================================
