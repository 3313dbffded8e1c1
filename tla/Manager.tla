-------------------------------- MODULE Manager --------------------------------
(***************************************************************************)
(* The channels of RabbitMQConnectionManager that no pool keeps            *)
(* (src/src/adapters/message_broker/connection_manager.py): the dedicated  *)
(* channels of consumers, the transient channels of get_channel() when     *)
(* pooling is disabled, the health check, and close() over all of them.    *)
(*                                                                         *)
(* Below them is the one shared connection that ConnectionPool implements: *)
(* it is open, lost or absent, its breaker is open or not, and when it ends *)
(* the channels on it end with it.  A connection and a channel on it are   *)
(* awaited in one step that succeeds or raises.                            *)
(*                                                                         *)
(* Connection and channels are robust ones of aio_pika.  A connection that *)
(* reconnects is not closed, but its channels are meanwhile; these, and    *)
(* channels that are lost by themselves, open again at some later time,    *)
(* unless they were close()d or their connection has ended.                *)
(***************************************************************************)
EXTENDS Integers, FiniteSets

CONSTANTS
  Tasks,           \* the tasks that ask for channels; each names its own key
  Channels,        \* identities of channel objects
  Checker,         \* the task of health_check()
  Closer,          \* the task that calls close()
  NoChannel, Nobody,
  BrokerMayFail,   \* whether close() and set_qos() may raise
  Cancellable,     \* the tasks that may be cancelled
  Publishers,      \* the tasks that ask for transient channels, too
  MaxGauge,        \* bound: largest value of the active_channels metric
  MaxDrift         \* bound: times a channel may end without being counted

ASSUME ManagerAssumption ==
  /\ IsFiniteSet(Tasks)
  /\ Checker \notin Tasks /\ Closer \notin Tasks /\ Checker # Closer
  /\ Nobody \notin Tasks \union {Closer}
  /\ NoChannel \notin Channels
  /\ Cancellable \subseteq Tasks /\ Publishers \subseteq Tasks
  /\ BrokerMayFail \in BOOLEAN
  /\ MaxGauge \in Nat /\ MaxDrift \in Nat

VARIABLES
  pooling,    \* _enable_channel_pooling
  connection, \* what the pool has: no connection, an open or a lost one
  tripped,    \* circuit_breaker_open
  open,       \* the channels whose is_closed is False
  down,       \* the lost channels that aio_pika will open again
  based,      \* the channels, open or down, of the pooled connection
  dedicated,  \* _dedicated_channels: the channel of each key
  transient,  \* the transient channel of each task
  gauge,      \* _metrics.active_channels, without the pooled ones
  drift,      \* history: what the metric counts too much
  leaked,     \* history: open or lost channels that were abandoned
  lock,       \* the owner of _dedicated_channels_lock
  pc,         \* where each process is
  todo,       \* the keys close() still has to look at
  check       \* of the health check: the breaker it saw, where the connection
              \* it tests is ("orphan": no longer pooled, and open), the
              \* temporary channel, its answer

channels == <<open, down, based>>
broker  == <<connection, tripped, channels>>
metric  == <<gauge, drift>>
entries == <<dedicated, transient>>
vars    == <<pooling, broker, entries, metric, leaked, lock, pc, todo, check>>

Procs == Tasks \union {Checker, Closer}

TaskPC    == {"out", "lock", "create", "consume", "open", "use", "close"}
CheckerPC == {"idle", "obtain", "test", "probe"}
CloserPC  == {"running", "lock", "drain", "pool", "conn", "closed"}

Statuses == {"none", "healthy", "unhealthy", "degraded"}

Init ==
  /\ pooling \in BOOLEAN
  /\ connection = "none" /\ tripped = FALSE
  /\ open = {} /\ down = {} /\ based = {} /\ leaked = {} /\ todo = {}
  /\ dedicated = [t \in Tasks |-> NoChannel]
  /\ transient = [t \in Tasks |-> NoChannel]
  /\ gauge = 0 /\ drift = 0
  /\ lock = Nobody
  /\ pc = [p \in Procs |-> IF p \in Tasks THEN "out"
                           ELSE IF p = Checker THEN "idle" ELSE "running"]
  /\ check = [breaker |-> FALSE, conn |-> "none", temp |-> NoChannel, status |-> "none"]

Goto(p, at) == pc' = [pc EXCEPT ![p] = at]

(***************************************************************************)
(* get_connection(), of which ConnectionPool has the steps, and channels   *)
(***************************************************************************)
Pool == INSTANCE ConnectionState

Known == {dedicated[t] : t \in Tasks} \union {transient[t] : t \in Tasks} \union {check.temp}

\* The channels that are open to the broker, or will be again.
Alive == open \union down

Fresh(c) == c \notin Alive \union Known

\* A channel that channel() opened and that nobody got, because set_qos() did not
\* return.
Leftovers == {{}} \union {{c} : c \in {d \in Channels : Fresh(d)}}

OpenChannels(C) ==
  /\ Pool!Obtain
  /\ open' = open \union C /\ based' = based \union C
  /\ UNCHANGED down

\* The channels of C are close()d: none of them opens again.
CloseChannels(C) == open' = open \ C /\ down' = down \ C /\ based' = based \ C

\* What becomes of a channel that is let go without a close() is not known.
Abandon(c) == leaked' = leaked \union ({c} \cap Alive)

\* _create_channel() on a connection that was obtained.
Create(c) ==
  /\ Fresh(c)
  /\ gauge < MaxGauge
  /\ OpenChannels({c})
  /\ gauge' = gauge + 1
  /\ UNCHANGED <<drift, leaked>>

\* No connection, or no channel that is ready to use.
CreateRaises(left) ==
  /\ \/ Pool!CannotObtain /\ left = {} /\ UNCHANGED channels
     \/ OpenChannels(left)
  /\ leaked' = leaked \union left

(***************************************************************************)
(* get_dedicated_channel()                                                 *)
(***************************************************************************)
RequestDedicated(t) ==
  /\ pc[t] = "out"
  /\ Goto(t, "lock")
  /\ UNCHANGED <<pooling, broker, entries, metric, leaked, lock, todo, check>>

\* The lock is kept for as long as the caller consumes.
Reuse(t) ==
  /\ pc[t] = "lock" /\ lock = Nobody
  /\ dedicated[t] \in open
  /\ lock' = t
  /\ Goto(t, "consume")
  /\ UNCHANGED <<pooling, broker, entries, metric, leaked, todo, check>>

\* Mutant: the removed channel stays in the metric.
MutGaugeAtRenew(t) == gauge

GaugeAtRenew(t) == IF dedicated[t] = NoChannel THEN gauge ELSE gauge - 1

\* An entry that is found is_closed: it is removed, and not close()d, although it
\* may open again.
Renew(t) ==
  /\ pc[t] = "lock" /\ lock = Nobody
  /\ dedicated[t] \notin open
  /\ lock' = t
  /\ dedicated' = [dedicated EXCEPT ![t] = NoChannel]
  /\ gauge' = GaugeAtRenew(t)
  /\ Abandon(dedicated[t])
  /\ Goto(t, "create")
  /\ UNCHANGED <<pooling, broker, transient, drift, todo, check>>

CreateDedicated(t, c) ==
  /\ pc[t] = "create"
  /\ Create(c)
  /\ dedicated' = [dedicated EXCEPT ![t] = c]
  /\ Goto(t, "consume")
  /\ UNCHANGED <<pooling, transient, lock, todo, check>>

\* Mutant: the lock is not released when the creation raises.
MutLockAfterRaise(t) == lock

LockAfterRaise(t) == IF lock = t THEN Nobody ELSE lock

\* The entry outlives the consumer.
EndConsume(t) ==
  /\ pc[t] = "consume"
  /\ lock' = Nobody
  /\ Goto(t, "out")
  /\ UNCHANGED <<pooling, broker, entries, metric, leaked, todo, check>>

(***************************************************************************)
(* get_channel() with pooling disabled                                     *)
(***************************************************************************)
RequestTransient(t) ==
  /\ ~pooling /\ t \in Publishers
  /\ pc[t] = "out"
  /\ Goto(t, "open")
  /\ UNCHANGED <<pooling, broker, entries, metric, leaked, lock, todo, check>>

CreateTransient(t, c) ==
  /\ pc[t] = "open"
  /\ Create(c)
  /\ transient' = [transient EXCEPT ![t] = c]
  /\ Goto(t, "use")
  /\ UNCHANGED <<pooling, dedicated, lock, todo, check>>

\* A creation raises: both kinds of requests end with the exception.
CreateFail(t, left) ==
  /\ pc[t] \in {"create", "open"}
  /\ left \in Leftovers
  /\ left = {} \/ BrokerMayFail
  /\ CreateRaises(left)
  /\ lock' = LockAfterRaise(t)
  /\ Goto(t, "out")
  /\ UNCHANGED <<pooling, entries, metric, todo, check>>

\* The task lets its transient channel go without having counted its end.
Forget(t) ==
  /\ drift < MaxDrift
  /\ drift' = drift + 1
  /\ Abandon(transient[t])
  /\ transient' = [transient EXCEPT ![t] = NoChannel]
  /\ Goto(t, "out")
  /\ UNCHANGED <<channels, gauge>>

\* The body ends.  A channel that is_closed by then is neither counted nor close()d.
EndUse(t) ==
  /\ pc[t] = "use"
  /\ IF transient[t] \in open
     THEN Goto(t, "close") /\ UNCHANGED <<channels, transient, metric, leaked>>
     ELSE Forget(t)
  /\ UNCHANGED <<pooling, connection, tripped, dedicated, lock, todo, check>>

\* Mutant: the channel is counted and left open.
MutClosedAfterUse(t) == {}

ClosedAfterUse(t) == {transient[t]}

\* The close() that the finally clause awaits returns (ok) or raises.
EndClose(t, ok) ==
  /\ pc[t] = "close"
  /\ \/ /\ ok
        /\ CloseChannels(ClosedAfterUse(t))
        /\ gauge' = gauge - 1
        /\ transient' = [transient EXCEPT ![t] = NoChannel]
        /\ Goto(t, "out")
        /\ UNCHANGED <<drift, leaked>>
     \/ ~ok /\ BrokerMayFail /\ Forget(t)
  /\ UNCHANGED <<pooling, connection, tripped, dedicated, lock, todo, check>>

\* A task is cancelled where it waits.
Cancel(t, left) ==
  /\ t \in Cancellable
  /\ left \in Leftovers
  /\ \/ /\ pc[t] \in {"lock", "create", "open"}
        /\ left = {} \/ pc[t] # "lock"
        /\ \/ pc[t] # "lock" /\ OpenChannels(left)
           \/ left = {} /\ UNCHANGED broker
        /\ leaked' = leaked \union left
        /\ Goto(t, "out")
        /\ UNCHANGED <<transient, metric>>
     \/ pc[t] = "close" /\ left = {} /\ Forget(t) /\ UNCHANGED <<connection, tripped>>
  /\ lock' = IF lock = t THEN Nobody ELSE lock
  /\ UNCHANGED <<pooling, dedicated, todo, check>>

(***************************************************************************)
(* health_check()                                                          *)
(***************************************************************************)

\* Mutant: the breaker of the snapshot decides, not the breaker of now.
MutBreakerAtAnswer == check.breaker

\* The breaker is read again when the test is over.
BreakerAtAnswer == tripped'

Answer(tested) ==
  /\ check' = [breaker |-> FALSE, conn |-> "none", temp |-> NoChannel,
               status |-> IF BreakerAtAnswer THEN "degraded" ELSE tested]
  /\ Goto(Checker, "idle")

\* Sizes and breaker are noted before the first await.
StartCheck ==
  /\ pc[Checker] = "idle"
  /\ check' = [breaker |-> tripped, conn |-> "none", temp |-> NoChannel, status |-> "none"]
  /\ Goto(Checker, "obtain")
  /\ UNCHANGED <<pooling, broker, entries, metric, leaked, lock, todo>>

StartTest ==
  /\ pc[Checker] = "obtain"
  /\ Pool!Obtain
  /\ check' = [check EXCEPT !.conn = "pooled"]
  /\ Goto(Checker, "test")
  /\ UNCHANGED <<pooling, channels, entries, metric, leaked, lock, todo>>

NoConnection ==
  /\ pc[Checker] = "obtain"
  /\ Pool!CannotObtain
  /\ Answer("unhealthy")
  /\ UNCHANGED <<pooling, channels, entries, metric, leaked, lock, todo>>

\* channel() opens the temporary channel.
OpenTemp(c) ==
  /\ pc[Checker] = "test"
  /\ check.conn # "none"
  /\ Fresh(c)
  /\ open' = open \union {c}
  /\ based' = IF check.conn = "pooled" THEN based \union {c} ELSE based
  /\ check' = [check EXCEPT !.temp = c]
  /\ Goto(Checker, "probe")
  /\ UNCHANGED <<pooling, connection, tripped, down, entries, metric, leaked, lock, todo>>

\* channel() raises.
NoTemp ==
  /\ pc[Checker] = "test"
  /\ UNCHANGED <<pooling, broker, entries, metric, leaked, lock, todo>>
  /\ Answer("unhealthy")

\* The close() of the temporary channel returns (ok), also if the channel or its
\* connection was lost by then, or raises.
EndTest(ok) ==
  /\ pc[Checker] = "probe"
  /\ \/ ok /\ CloseChannels({check.temp}) /\ UNCHANGED leaked
     \/ /\ ~ok
        /\ BrokerMayFail \/ check.temp \notin open
        /\ Abandon(check.temp) /\ UNCHANGED channels
  /\ UNCHANGED <<connection, tripped>>
  /\ Answer(IF ok THEN "healthy" ELSE "unhealthy")
  /\ UNCHANGED <<pooling, entries, metric, lock, todo>>

(***************************************************************************)
(* close(), after it stopped the cleanup task                              *)
(***************************************************************************)
StartClose ==
  /\ pc[Closer] = "running"
  /\ Goto(Closer, "lock")
  /\ UNCHANGED <<pooling, broker, entries, metric, leaked, lock, todo, check>>

StartDrain ==
  /\ pc[Closer] = "lock" /\ lock = Nobody
  /\ lock' = Closer
  /\ todo' = {t \in Tasks : dedicated[t] # NoChannel}
  /\ Goto(Closer, "drain")
  /\ UNCHANGED <<pooling, broker, entries, metric, leaked, check>>

\* The channel of an entry is close()d (ok); or that raises, or it is_closed and is
\* passed over, also when it will open again.
Drain(t, ok) ==
  /\ pc[Closer] = "drain"
  /\ t \in todo
  /\ todo' = todo \ {t}
  /\ \/ ok /\ dedicated[t] \in open /\ CloseChannels({dedicated[t]}) /\ UNCHANGED leaked
     \/ /\ ~ok
        /\ BrokerMayFail \/ dedicated[t] \notin open
        /\ Abandon(dedicated[t]) /\ UNCHANGED channels
  /\ UNCHANGED <<pooling, connection, tripped, entries, metric, lock, pc, check>>

Entries  == {t \in Tasks : dedicated[t] # NoChannel}
InUse    == {t \in Tasks : transient[t] # NoChannel}

\* The entries are cleared, then their number is taken off the metric: zero.
EndDrain ==
  /\ pc[Closer] = "drain" /\ todo = {}
  /\ dedicated' = [t \in Tasks |-> NoChannel]
  /\ drift' = drift + Cardinality(Entries)
  /\ lock' = Nobody
  /\ Goto(Closer, IF pooling THEN "pool" ELSE "conn")
  /\ UNCHANGED <<pooling, broker, transient, gauge, leaked, todo, check>>

\* Where channels are pooled the metric is set to zero, with whatever has been
\* created since.
ZeroGauge ==
  /\ pc[Closer] = "pool"
  /\ gauge' = 0
  /\ drift' = 0 - Cardinality(Entries) - Cardinality(InUse)
  /\ Goto(Closer, "conn")
  /\ UNCHANGED <<pooling, broker, entries, leaked, lock, todo, check>>

\* Mutant: the channels of a connection that was closed go with it unnoticed.
MutEndConnection(ok) ==
  /\ ok \/ BrokerMayFail
  /\ based' = based
  /\ open' = IF ok THEN open \ based ELSE open
  /\ down' = IF ok THEN down \ based ELSE down
  /\ leaked' = IF ok THEN leaked \ based ELSE leaked
  /\ check' = check

\* A connection ends, or its close() raises; its channels end with it.
EndConnection(ok) ==
  /\ ok \/ BrokerMayFail
  /\ based' = {}
  /\ open' = IF ok THEN open \ based ELSE open
  /\ down' = IF ok THEN down \ based ELSE down
  /\ leaked' = IF ok THEN leaked \ based ELSE leaked
  /\ check' = [check EXCEPT !.conn = IF @ = "pooled" THEN (IF ok THEN "none" ELSE "orphan")
                                    ELSE @]

CloseConnection(ok) ==
  /\ pc[Closer] = "conn"
  /\ connection' = "none"
  /\ EndConnection(ok)
  /\ Goto(Closer, "closed")
  /\ UNCHANGED <<pooling, tripped, entries, metric, lock, todo>>

(***************************************************************************)
(* The other users of the connection pool, and the broker                  *)
(***************************************************************************)

\* The cleanup task, or a task that finds the connection expired, closes it.
Retire(ok) ==
  /\ Pool!Retire
  /\ EndConnection(ok)
  /\ UNCHANGED <<pooling, entries, metric, lock, pc, todo>>

\* get_connection() of a task that is not modelled here.
OtherObtain ==
  /\ connection # "open"
  /\ Pool!Obtain \/ Pool!CannotObtain
  /\ UNCHANGED <<pooling, channels, entries, metric, leaked, lock, pc, todo, check>>

\* The connection has ended by itself and does not reconnect.
LoseConnection ==
  /\ Pool!Lose
  /\ EndConnection(TRUE)
  /\ UNCHANGED <<pooling, entries, metric, lock, pc, todo>>

\* The pooled connection breaks and reconnects: all its channels are lost.
Disconnect ==
  /\ connection = "open"
  /\ open' = open \ based /\ down' = down \union based
  /\ UNCHANGED <<pooling, connection, tripped, based, entries, metric, leaked, lock, pc, todo,
                 check>>

LoseChannel(c) ==
  /\ c \in open
  /\ open' = open \ {c} /\ down' = down \union {c}
  /\ UNCHANGED <<pooling, connection, tripped, based, entries, metric, leaked, lock, pc, todo,
                 check>>

\* aio_pika opens a lost channel again, whoever may have dropped it meanwhile.
RestoreChannel(c) ==
  /\ c \in down
  /\ open' = open \union {c} /\ down' = down \ {c}
  /\ UNCHANGED <<pooling, connection, tripped, based, entries, metric, leaked, lock, pc, todo,
                 check>>

\* A channel of a connection that is no longer pooled ends with it.
EndChannel(c) ==
  /\ c \in Alive \ based
  /\ open' = open \ {c} /\ down' = down \ {c} /\ leaked' = leaked \ {c}
  /\ UNCHANGED <<pooling, connection, tripped, based, entries, metric, lock, pc, todo, check>>

(***************************************************************************)
(* The specification                                                       *)
(***************************************************************************)
EnterDedicated(t) == Reuse(t) \/ Renew(t)

EndCreate(t) ==
  \/ \E c \in Channels : CreateDedicated(t, c) \/ CreateTransient(t, c)
  \/ \E left \in SUBSET Channels : CreateFail(t, left)

EndTransient(t) == EndUse(t) \/ \E ok \in BOOLEAN : EndClose(t, ok)

TaskNext(t) ==
  \/ RequestDedicated(t) \/ RequestTransient(t)
  \/ EnterDedicated(t) \/ EndCreate(t) \/ EndConsume(t) \/ EndTransient(t)
  \/ \E left \in SUBSET Channels : Cancel(t, left)

CheckerNext ==
  \/ StartCheck \/ StartTest \/ NoConnection
  \/ NoTemp \/ (\E c \in Channels : OpenTemp(c)) \/ (\E ok \in BOOLEAN : EndTest(ok))

EndClosing ==
  \/ EndDrain \/ ZeroGauge
  \/ \E t \in Tasks, ok \in BOOLEAN : Drain(t, ok)
  \/ \E ok \in BOOLEAN : CloseConnection(ok)

CloserNext == StartClose \/ StartDrain \/ EndClosing

Environment ==
  \/ \E ok \in BOOLEAN : Retire(ok)
  \/ OtherObtain \/ LoseConnection \/ Disconnect
  \/ \E c \in Channels : LoseChannel(c) \/ RestoreChannel(c) \/ EndChannel(c)

Next == (\E t \in Tasks : TaskNext(t)) \/ CheckerNext \/ CloserNext \/ Environment

Spec == Init /\ [][Next]_vars

\* Awaits end, and asyncio's lock is first come, first served.  A consumer ends
\* because lifespan() calls stop_consuming(), and cancels it after 30 seconds,
\* before it calls close().
Fairness ==
  /\ \A t \in Tasks : WF_vars(EndCreate(t) \/ EndConsume(t))
  /\ SF_vars(StartDrain) /\ WF_vars(EndClosing)

FairSpec == Spec /\ Fairness

(***************************************************************************)
(* Properties                                                              *)
(***************************************************************************)

\* The types of the variables; channels of the pooled connection are alive.
TypeOK ==
  /\ pooling \in BOOLEAN /\ connection \in {"none", "open", "lost"} /\ tripped \in BOOLEAN
  /\ open \subseteq Channels /\ down \subseteq Channels /\ open \cap down = {}
  /\ based \subseteq Alive /\ leaked \subseteq Channels
  /\ dedicated \in [Tasks -> Channels \union {NoChannel}]
  /\ transient \in [Tasks -> Channels \union {NoChannel}]
  /\ gauge \in Int /\ drift \in Int
  /\ lock \in Tasks \union {Closer, Nobody}
  /\ pc \in [Procs -> TaskPC \union CheckerPC \union CloserPC]
  /\ \A t \in Tasks : pc[t] \in TaskPC
  /\ pc[Checker] \in CheckerPC /\ pc[Closer] \in CloserPC
  /\ todo \subseteq Tasks
  /\ check \in [breaker : BOOLEAN, conn : {"none", "pooled", "orphan"},
               temp : Channels \union {NoChannel}, status : Statuses]

\* The metric counts the dedicated entries and the transient channels, and is
\* off only by the transient channels that ended uncounted and by what close()
\* does to it: no creation that fails, renewal or cancellation disturbs it.
GaugeExact == gauge = Cardinality(Entries) + Cardinality(InUse) + drift

\* Every channel that is open, or will open again, is a dedicated, a transient or
\* the health check's one, unless a set_qos() or a close() failed or was cancelled,
\* or the channel was lost when it was dropped: what ends, is renewed, retired or
\* cancelled forgets no open channel.
NoOrphan == Alive \subseteq Known \union leaked

\* A health check that says degraded found no connection to use, or there is none
\* any more: although it looks at the breaker before and after its test, an open
\* connection is never reported behind a breaker that another task opened.
DegradedMeansDown ==
  [][check'.status = "degraded" /\ check.status # "degraded" => connection' = "none"]_vars

\* close() gets the lock that consumers keep while they consume, and returns.
CloseReturns == pc[Closer] = "lock" ~> pc[Closer] = "closed"

\* The docstring of get_dedicated_channel(): channels "are managed separately and
\* persist for the lifetime of the calling task".  The manager itself does not
\* close the channel of a task that consumes.
ConsumerKeepsChannel ==
  [][\A t \in Tasks :
       Retire(TRUE) /\ pc[t] = "consume" /\ dedicated[t] \in open
         => dedicated[t] \in open']_vars
===============================================================================
