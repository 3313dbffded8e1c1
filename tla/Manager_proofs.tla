------------------------------ MODULE Manager_proofs ------------------------------
(***************************************************************************)
(* Proofs about Manager, for all tasks and channels, with failures,        *)
(* cancellations and both settings of channel pooling.                     *)
(***************************************************************************)
EXTENDS Manager, FiniteSetTheorems, TLAPS

\* The lock is owned by the process in a section it protects; a key has no entry
\* while its channel is created; a task has a transient channel while it uses or
\* closes one; the health check has a temporary channel only while it closes it.
Sections ==
  /\ \A t \in Tasks : lock = t <=> pc[t] \in {"create", "consume"}
  /\ lock = Closer <=> pc[Closer] = "drain"
  /\ \A t \in Tasks : pc[t] = "create" => dedicated[t] = NoChannel
  /\ \A t \in Tasks : transient[t] # NoChannel <=> pc[t] \in {"use", "close"}
  /\ pc[Checker] # "probe" => check.temp = NoChannel

\* close() recorded the channels it passed over, the open and the lost ones.
Passed ==
  pc[Closer] = "drain" =>
    \A t \in Tasks \ todo : dedicated[t] \in Alive => dedicated[t] \in leaked

IInv == TypeOK /\ Sections /\ NoOrphan /\ Passed

USE ManagerAssumption
    DEF Procs, TaskPC, CheckerPC, CloserPC, Statuses, broker, channels, metric, entries, Goto

LEMMA InitIInv == Init => IInv
  <1> SUFFICES ASSUME Init PROVE IInv
    OBVIOUS
  <1>1. TypeOK
    <2>1. /\ pooling \in BOOLEAN /\ tripped \in BOOLEAN
          /\ check \in [breaker : BOOLEAN, conn : {"none", "pooled", "orphan"},
                       temp : Channels \union {NoChannel}, status : Statuses]
      BY DEF Init
    <2>2. /\ connection \in {"none", "open", "lost"}
          /\ open \subseteq Channels /\ down \subseteq Channels /\ open \cap down = {}
          /\ based \subseteq Alive /\ leaked \subseteq Channels
          /\ gauge \in Int /\ drift \in Int
          /\ lock \in Tasks \union {Closer, Nobody}
          /\ todo \subseteq Tasks
      BY DEF Init, Alive
    <2>3. /\ dedicated \in [Tasks -> Channels \union {NoChannel}]
          /\ transient \in [Tasks -> Channels \union {NoChannel}]
          /\ pc \in [Procs -> TaskPC \union CheckerPC \union CloserPC]
      BY DEF Init
    <2>4. /\ \A t \in Tasks : pc[t] \in TaskPC
          /\ pc[Checker] \in CheckerPC /\ pc[Closer] \in CloserPC
      BY DEF Init
    <2> QED BY <2>1, <2>2, <2>3, <2>4 DEF TypeOK
  <1>2. Sections /\ NoOrphan /\ Passed
    BY DEF Init, Sections, NoOrphan, Passed, Alive
  <1> QED BY <1>1, <1>2 DEF IInv

\* Every step keeps the variables in their types.
LEMMA TypeStep ==
  ASSUME TypeOK, [Next]_vars
  PROVE  TypeOK'
  <1> USE DEF TypeOK, Alive
  <1>1. ASSUME NEW t \in Tasks, RequestDedicated(t) \/ Reuse(t)
        PROVE  TypeOK'
    BY <1>1 DEF RequestDedicated, Reuse
  <1>2. ASSUME NEW t \in Tasks, Renew(t)
        PROVE  TypeOK'
    BY <1>2 DEF Renew, GaugeAtRenew, Abandon
  <1>3. ASSUME NEW t \in Tasks, EndConsume(t) \/ RequestTransient(t)
        PROVE  TypeOK'
    BY <1>3 DEF EndConsume, RequestTransient
  <1>4. ASSUME NEW t \in Tasks, NEW c \in Channels, CreateDedicated(t, c)
        PROVE  TypeOK'
    <2>1. /\ open' \subseteq Channels /\ down' \subseteq Channels /\ open' \cap down' = {}
          /\ based' \subseteq Alive'
          /\ dedicated' \in [Tasks -> Channels \union {NoChannel}]
      BY <1>4 DEF CreateDedicated, Create, OpenChannels, Fresh
    <2>2. pc' \in [Procs -> TaskPC \union CheckerPC \union CloserPC] /\ gauge' \in Int
      BY <1>4 DEF CreateDedicated, Create, Goto, TaskPC
    <2>3. /\ \A u \in Tasks : pc'[u] \in TaskPC
          /\ pc'[Checker] \in CheckerPC /\ pc'[Closer] \in CloserPC
      BY <1>4, ManagerAssumption DEF CreateDedicated, Goto, TaskPC, Procs
    <2>4. connection' \in {"none", "open", "lost"} /\ tripped' \in BOOLEAN
      BY <1>4 DEF CreateDedicated, Create, OpenChannels, Pool!Obtain
    <2>5. UNCHANGED <<pooling, leaked, transient, drift, lock, todo, check>>
      BY <1>4 DEF CreateDedicated, Create
    <2> QED BY <2>1, <2>2, <2>3, <2>4, <2>5
  <1>5. ASSUME NEW t \in Tasks, NEW c \in Channels, CreateTransient(t, c)
        PROVE  TypeOK'
    <2>1. /\ open' \subseteq Channels /\ down' \subseteq Channels /\ open' \cap down' = {}
          /\ based' \subseteq Alive'
          /\ transient' \in [Tasks -> Channels \union {NoChannel}]
      BY <1>5 DEF CreateTransient, Create, OpenChannels, Fresh
    <2>2. pc' \in [Procs -> TaskPC \union CheckerPC \union CloserPC] /\ gauge' \in Int
      BY <1>5 DEF CreateTransient, Create, Goto, TaskPC
    <2>3. /\ \A u \in Tasks : pc'[u] \in TaskPC
          /\ pc'[Checker] \in CheckerPC /\ pc'[Closer] \in CloserPC
      BY <1>5, ManagerAssumption DEF CreateTransient, Goto, TaskPC, Procs
    <2>4. connection' \in {"none", "open", "lost"} /\ tripped' \in BOOLEAN
      BY <1>5 DEF CreateTransient, Create, OpenChannels, Pool!Obtain
    <2>5. UNCHANGED <<pooling, leaked, dedicated, drift, lock, todo, check>>
      BY <1>5 DEF CreateTransient, Create
    <2> QED BY <2>1, <2>2, <2>3, <2>4, <2>5
  <1>6. ASSUME NEW t \in Tasks, NEW left \in SUBSET Channels, CreateFail(t, left)
        PROVE  TypeOK'
    <2>1. /\ open' \subseteq Channels /\ down' \subseteq Channels /\ open' \cap down' = {}
          /\ based' \subseteq Alive' /\ leaked' \subseteq Channels
      BY <1>6 DEF CreateFail, CreateRaises, OpenChannels, Leftovers, Fresh
    <2>2. connection' \in {"none", "open", "lost"} /\ tripped' \in BOOLEAN
      BY <1>6 DEF CreateFail, CreateRaises, OpenChannels, Pool!Obtain, Pool!CannotObtain
    <2>3. pc' \in [Procs -> TaskPC \union CheckerPC \union CloserPC]
      BY <1>6 DEF CreateFail
    <2>4. /\ \A u \in Tasks : pc'[u] \in TaskPC
          /\ pc'[Checker] \in CheckerPC /\ pc'[Closer] \in CloserPC
      BY <1>6 DEF CreateFail
    <2>5. lock' \in Tasks \union {Closer, Nobody}
      BY <1>6 DEF CreateFail, LockAfterRaise
    <2>6. UNCHANGED <<pooling, entries, metric, todo, check>>
      BY <1>6 DEF CreateFail
    <2> QED BY <2>1, <2>2, <2>3, <2>4, <2>5, <2>6
  <1>7. ASSUME NEW t \in Tasks, EndUse(t)
        PROVE  TypeOK'
    BY <1>7 DEF EndUse, Forget, Abandon
  <1>8. ASSUME NEW t \in Tasks, NEW ok \in BOOLEAN, EndClose(t, ok)
        PROVE  TypeOK'
    BY <1>8 DEF EndClose, ClosedAfterUse, CloseChannels, Forget, Abandon
  <1>9. ASSUME NEW t \in Tasks, NEW left \in SUBSET Channels, Cancel(t, left)
        PROVE  TypeOK'
    <2>1. /\ open' \subseteq Channels /\ down' \subseteq Channels /\ open' \cap down' = {}
          /\ based' \subseteq Alive' /\ leaked' \subseteq Channels
      BY <1>9 DEF Cancel, OpenChannels, Forget, Abandon, Leftovers, Fresh
    <2>2. transient' \in [Tasks -> Channels \union {NoChannel}]
      BY <1>9 DEF Cancel, Forget, Abandon
    <2>3. pc' \in [Procs -> TaskPC \union CheckerPC \union CloserPC]
      BY <1>9 DEF Cancel, Forget, Abandon, Goto, TaskPC
    <2>4. /\ \A u \in Tasks : pc'[u] \in TaskPC
          /\ pc'[Checker] \in CheckerPC /\ pc'[Closer] \in CloserPC
      BY <1>9, ManagerAssumption DEF Cancel, Forget, Abandon, Goto, TaskPC, Procs
    <2>5. gauge' \in Int /\ drift' \in Int
      BY <1>9 DEF Cancel, Forget, Abandon, metric
    <2>6. connection' \in {"none", "open", "lost"} /\ tripped' \in BOOLEAN
      BY <1>9 DEF Cancel, OpenChannels, Pool!Obtain, broker
    <2>7. lock' \in Tasks \union {Closer, Nobody}
      BY <1>9 DEF Cancel
    <2>8. UNCHANGED <<pooling, dedicated, todo, check>>
      BY <1>9 DEF Cancel
    <2> QED BY <2>1, <2>2, <2>3, <2>4, <2>5, <2>6, <2>7, <2>8
  <1>10. CASE StartCheck \/ StartTest
    <2>1. check' \in [breaker : BOOLEAN, conn : {"none", "pooled", "orphan"},
                       temp : Channels \union {NoChannel}, status : Statuses]
      BY <1>10 DEF StartCheck, StartTest, Statuses
    <2>2. pc' \in [Procs -> TaskPC \union CheckerPC \union CloserPC]
      BY <1>10 DEF StartCheck, StartTest, Goto, CheckerPC
    <2>3. /\ \A u \in Tasks : pc'[u] \in TaskPC
          /\ pc'[Checker] \in CheckerPC /\ pc'[Closer] \in CloserPC
      BY <1>10, ManagerAssumption DEF StartCheck, StartTest, Goto, CheckerPC, Procs
    <2>4. connection' \in {"none", "open", "lost"} /\ tripped' \in BOOLEAN
      BY <1>10 DEF StartCheck, StartTest, Pool!Obtain, broker
    <2>5. UNCHANGED <<pooling, channels, entries, metric, leaked, lock, todo>>
      BY <1>10 DEF StartCheck, StartTest
    <2> QED BY <2>1, <2>2, <2>3, <2>4, <2>5 DEF entries, metric
  <1>11. CASE NoConnection \/ NoTemp
    <2>1. CASE NoConnection
      BY <2>1 DEF NoConnection, Pool!CannotObtain, Answer, BreakerAtAnswer
    <2>2. CASE NoTemp
      BY <2>2 DEF NoTemp, Answer, BreakerAtAnswer
    <2> QED BY <1>11, <2>1, <2>2
  <1>12. ASSUME NEW ok \in BOOLEAN, EndTest(ok)
        PROVE  TypeOK'
    BY <1>12 DEF EndTest, CloseChannels, Abandon, Answer, BreakerAtAnswer
  <1>13. CASE StartClose \/ StartDrain
    BY <1>13 DEF StartClose, StartDrain
  <1>14. ASSUME NEW t \in Tasks, NEW ok \in BOOLEAN, Drain(t, ok)
        PROVE  TypeOK'
    BY <1>14 DEF Drain, CloseChannels, Abandon
  <1>15. CASE EndDrain
    <2>1. Cardinality(Entries) \in Nat
      BY FS_Subset, FS_CardinalityType DEF Entries
    <2> QED BY <1>15, <2>1 DEF EndDrain
  <1>16. CASE ZeroGauge
    <2>1. Cardinality(Entries) \in Nat /\ Cardinality(InUse) \in Nat
      BY FS_Subset, FS_CardinalityType DEF Entries, InUse
    <2>2. drift' \in Int /\ gauge' \in Int
      BY <1>16, <2>1 DEF ZeroGauge
    <2> QED BY <1>16, <2>2 DEF ZeroGauge
  <1>17. ASSUME NEW ok \in BOOLEAN, CloseConnection(ok)
        PROVE  TypeOK'
    BY <1>17 DEF CloseConnection, EndConnection
  <1>18. ASSUME NEW ok \in BOOLEAN, Retire(ok)
        PROVE  TypeOK'
    BY <1>18 DEF Retire, Pool!Retire, EndConnection
  <1>19. CASE OtherObtain
    <2>1. connection' \in {"none", "open", "lost"} /\ tripped' \in BOOLEAN
      BY <1>19 DEF OtherObtain, Pool!Obtain, Pool!CannotObtain
    <2> QED BY <1>19, <2>1 DEF OtherObtain
  <1>20. CASE LoseConnection
    BY <1>20 DEF LoseConnection, Pool!Lose, EndConnection
  <1>21. ASSUME NEW c \in Channels, LoseChannel(c) \/ RestoreChannel(c) \/ EndChannel(c)
        PROVE  TypeOK'
    BY <1>21 DEF LoseChannel, RestoreChannel, EndChannel
  <1>22. ASSUME NEW c \in Channels, OpenTemp(c)
        PROVE  TypeOK'
    BY <1>22 DEF OpenTemp, Fresh
  <1>23. CASE Disconnect
    BY <1>23 DEF Disconnect
  <1>24. CASE UNCHANGED vars
    BY <1>24 DEF vars
  <1> QED
    BY <1>1, <1>2, <1>3, <1>4, <1>5, <1>6, <1>7, <1>8, <1>9, <1>10, <1>11,
       <1>12, <1>13, <1>14, <1>15, <1>16, <1>17, <1>18, <1>19, <1>20, <1>21, <1>22, <1>23, <1>24
    DEF Next, TaskNext, EnterDedicated, EndCreate, EndTransient, CheckerNext, CloserNext,
        EndClosing, Environment

\* Sections are entered with the lock and left without it.
LEMMA SectionsStep ==
  ASSUME TypeOK, Sections, [Next]_vars
  PROVE  Sections'
  <1> USE DEF TypeOK, Sections
  <1>1. ASSUME NEW t \in Tasks, RequestDedicated(t) \/ Reuse(t)
        PROVE  Sections'
    BY <1>1 DEF RequestDedicated, Reuse
  <1>2. ASSUME NEW t \in Tasks, Renew(t)
        PROVE  Sections'
    BY <1>2 DEF Renew, GaugeAtRenew, Abandon
  <1>3. ASSUME NEW t \in Tasks, EndConsume(t) \/ RequestTransient(t)
        PROVE  Sections'
    BY <1>3 DEF EndConsume, RequestTransient
  <1>4. ASSUME NEW t \in Tasks, NEW c \in Channels, CreateDedicated(t, c)
        PROVE  Sections'
    BY <1>4 DEF CreateDedicated, Create, OpenChannels, Pool!Obtain, Fresh, Alive
  <1>5. ASSUME NEW t \in Tasks, NEW c \in Channels, CreateTransient(t, c)
        PROVE  Sections'
    BY <1>5 DEF CreateTransient, Create, OpenChannels, Pool!Obtain, Fresh, Alive
  <1>6. ASSUME NEW t \in Tasks, NEW left \in SUBSET Channels, CreateFail(t, left)
        PROVE  Sections'
    BY <1>6
    DEF CreateFail, CreateRaises, Pool!CannotObtain, OpenChannels, Pool!Obtain, LockAfterRaise,
        Leftovers, Fresh
  <1>7. ASSUME NEW t \in Tasks, EndUse(t)
        PROVE  Sections'
    BY <1>7 DEF EndUse, Forget, Abandon
  <1>8. ASSUME NEW t \in Tasks, NEW ok \in BOOLEAN, EndClose(t, ok)
        PROVE  Sections'
    BY <1>8 DEF EndClose, ClosedAfterUse, CloseChannels, Forget, Abandon
  <1>9. ASSUME NEW t \in Tasks, NEW left \in SUBSET Channels, Cancel(t, left)
        PROVE  Sections'
    BY <1>9 DEF Cancel, OpenChannels, Pool!Obtain, Forget, Abandon
  <1>10. CASE StartCheck \/ StartTest
    BY <1>10 DEF StartCheck, StartTest, Pool!Obtain
  <1>11. CASE NoConnection \/ NoTemp
    BY <1>11 DEF NoConnection, NoTemp, Pool!CannotObtain, Answer, BreakerAtAnswer
  <1>12. ASSUME NEW ok \in BOOLEAN, EndTest(ok)
        PROVE  Sections'
    BY <1>12 DEF EndTest, CloseChannels, Abandon, Answer, BreakerAtAnswer
  <1>13. CASE StartClose \/ StartDrain
    BY <1>13 DEF StartClose, StartDrain
  <1>14. ASSUME NEW t \in Tasks, NEW ok \in BOOLEAN, Drain(t, ok)
        PROVE  Sections'
    BY <1>14 DEF Drain, CloseChannels, Abandon
  <1>15. CASE EndDrain
    BY <1>15 DEF EndDrain
  <1>16. CASE ZeroGauge
    BY <1>16 DEF ZeroGauge
  <1>17. ASSUME NEW ok \in BOOLEAN, CloseConnection(ok)
        PROVE  Sections'
    BY <1>17 DEF CloseConnection, EndConnection
  <1>18. ASSUME NEW ok \in BOOLEAN, Retire(ok)
        PROVE  Sections'
    BY <1>18 DEF Retire, Pool!Retire, EndConnection
  <1>19. CASE OtherObtain
    BY <1>19 DEF OtherObtain, Pool!Obtain, Pool!CannotObtain
  <1>20. CASE LoseConnection
    BY <1>20 DEF LoseConnection, Pool!Lose, EndConnection
  <1>21. ASSUME NEW c \in Channels, LoseChannel(c) \/ RestoreChannel(c) \/ EndChannel(c)
        PROVE  Sections'
    BY <1>21 DEF LoseChannel, RestoreChannel, EndChannel
  <1>22. ASSUME NEW c \in Channels, OpenTemp(c)
        PROVE  Sections'
    BY <1>22 DEF OpenTemp, Fresh
  <1>23. CASE Disconnect
    BY <1>23 DEF Disconnect
  <1>24. CASE UNCHANGED vars
    BY <1>24 DEF vars
  <1> QED
    BY <1>1, <1>2, <1>3, <1>4, <1>5, <1>6, <1>7, <1>8, <1>9, <1>10, <1>11,
       <1>12, <1>13, <1>14, <1>15, <1>16, <1>17, <1>18, <1>19, <1>20, <1>21, <1>22, <1>23, <1>24
    DEF Next, TaskNext, EnterDedicated, EndCreate, EndTransient, CheckerNext, CloserNext,
        EndClosing, Environment

\* No step takes an open channel out of sight without recording it.
LEMMA OrphanStep ==
  ASSUME IInv, [Next]_vars
  PROVE  NoOrphan' /\ Passed'
  <1> USE DEF IInv, TypeOK, Sections, NoOrphan, Passed, Known, Alive
  <1>1. ASSUME NEW t \in Tasks, RequestDedicated(t) \/ Reuse(t)
        PROVE  NoOrphan' /\ Passed'
    BY <1>1 DEF RequestDedicated, Reuse
  <1>2. ASSUME NEW t \in Tasks, Renew(t)
        PROVE  NoOrphan' /\ Passed'
    BY <1>2 DEF Renew, GaugeAtRenew, Abandon
  <1>3. ASSUME NEW t \in Tasks, EndConsume(t) \/ RequestTransient(t)
        PROVE  NoOrphan' /\ Passed'
    BY <1>3 DEF EndConsume, RequestTransient
  <1>4. ASSUME NEW t \in Tasks, NEW c \in Channels, CreateDedicated(t, c)
        PROVE  NoOrphan' /\ Passed'
    BY <1>4 DEF CreateDedicated, Create, OpenChannels, Pool!Obtain, Fresh, Alive
  <1>5. ASSUME NEW t \in Tasks, NEW c \in Channels, CreateTransient(t, c)
        PROVE  NoOrphan' /\ Passed'
    BY <1>5 DEF CreateTransient, Create, OpenChannels, Pool!Obtain, Fresh, Alive
  <1>6. ASSUME NEW t \in Tasks, NEW left \in SUBSET Channels, CreateFail(t, left)
        PROVE  NoOrphan' /\ Passed'
    BY <1>6
    DEF CreateFail, CreateRaises, Pool!CannotObtain, OpenChannels, Pool!Obtain, LockAfterRaise,
        Leftovers, Fresh
  <1>7. ASSUME NEW t \in Tasks, EndUse(t)
        PROVE  NoOrphan' /\ Passed'
    BY <1>7 DEF EndUse, Forget, Abandon
  <1>8. ASSUME NEW t \in Tasks, NEW ok \in BOOLEAN, EndClose(t, ok)
        PROVE  NoOrphan' /\ Passed'
    BY <1>8 DEF EndClose, ClosedAfterUse, CloseChannels, Forget, Abandon
  <1>9. ASSUME NEW t \in Tasks, NEW left \in SUBSET Channels, Cancel(t, left)
        PROVE  NoOrphan' /\ Passed'
    BY <1>9 DEF Cancel, OpenChannels, Pool!Obtain, Forget, Abandon
  <1>10. CASE StartCheck \/ StartTest
    BY <1>10 DEF StartCheck, StartTest, Pool!Obtain
  <1>11. CASE NoConnection \/ NoTemp
    BY <1>11 DEF NoConnection, NoTemp, Pool!CannotObtain, Answer, BreakerAtAnswer
  <1>12. ASSUME NEW ok \in BOOLEAN, EndTest(ok)
        PROVE  NoOrphan' /\ Passed'
    BY <1>12 DEF EndTest, CloseChannels, Abandon, Answer, BreakerAtAnswer
  <1>13. CASE StartClose \/ StartDrain
    BY <1>13 DEF StartClose, StartDrain
  <1>14. ASSUME NEW t \in Tasks, NEW ok \in BOOLEAN, Drain(t, ok)
        PROVE  NoOrphan' /\ Passed'
    BY <1>14 DEF Drain, CloseChannels, Abandon
  <1>15. CASE EndDrain
    BY <1>15 DEF EndDrain
  <1>16. CASE ZeroGauge
    BY <1>16 DEF ZeroGauge
  <1>17. ASSUME NEW ok \in BOOLEAN, CloseConnection(ok)
        PROVE  NoOrphan' /\ Passed'
    BY <1>17 DEF CloseConnection, EndConnection
  <1>18. ASSUME NEW ok \in BOOLEAN, Retire(ok)
        PROVE  NoOrphan' /\ Passed'
    BY <1>18 DEF Retire, Pool!Retire, EndConnection
  <1>19. CASE OtherObtain
    BY <1>19 DEF OtherObtain, Pool!Obtain, Pool!CannotObtain
  <1>20. CASE LoseConnection
    BY <1>20 DEF LoseConnection, Pool!Lose, EndConnection
  <1>21. ASSUME NEW c \in Channels, LoseChannel(c) \/ RestoreChannel(c) \/ EndChannel(c)
        PROVE  NoOrphan' /\ Passed'
    BY <1>21 DEF LoseChannel, RestoreChannel, EndChannel
  <1>22. ASSUME NEW c \in Channels, OpenTemp(c)
        PROVE  NoOrphan' /\ Passed'
    BY <1>22 DEF OpenTemp, Fresh
  <1>23. CASE Disconnect
    BY <1>23 DEF Disconnect
  <1>24. CASE UNCHANGED vars
    BY <1>24 DEF vars
  <1> QED
    BY <1>1, <1>2, <1>3, <1>4, <1>5, <1>6, <1>7, <1>8, <1>9, <1>10, <1>11,
       <1>12, <1>13, <1>14, <1>15, <1>16, <1>17, <1>18, <1>19, <1>20, <1>21, <1>22, <1>23, <1>24
    DEF Next, TaskNext, EnterDedicated, EndCreate, EndTransient, CheckerNext, CloserNext,
        EndClosing, Environment

THEOREM Inductive == Spec => []IInv
  <1>1. IInv /\ [Next]_vars => IInv'
    BY TypeStep, SectionsStep, OrphanStep DEF IInv
  <1> QED BY InitIInv, <1>1, PTL DEF Spec

\* Type correctness of entries, channels, metric, lock and health check.
THEOREM TypeCorrect == Spec => []TypeOK
  <1>1. IInv => TypeOK
    BY DEF IInv
  <1> QED BY Inductive, <1>1, PTL

\* No channel outside the pool is forgotten, except by a set_qos() or a close()
\* that failed or was cancelled.
THEOREM NothingForgotten == Spec => []NoOrphan
  <1>1. IInv => NoOrphan
    BY DEF IInv
  <1> QED BY Inductive, <1>1, PTL

(***************************************************************************)
(* The metric of active channels                                           *)
(***************************************************************************)
LEMMA GaugeStep ==
  ASSUME IInv, GaugeExact, [Next]_vars
  PROVE  GaugeExact'
  <1> USE DEF IInv, TypeOK, Sections, GaugeExact
  <1>0. /\ IsFiniteSet(Entries) /\ Cardinality(Entries) \in Nat
        /\ IsFiniteSet(InUse) /\ Cardinality(InUse) \in Nat
    BY FS_Subset, FS_CardinalityType DEF Entries, InUse
  <1>same. ASSUME UNCHANGED <<gauge, drift>>, Entries' = Entries, InUse' = InUse
           PROVE  GaugeExact'
    BY <1>same
  <1>fewer. ASSUME NEW t \in InUse, InUse' = InUse \ {t}, Entries' = Entries,
                   NEW g \in Int, gauge' = g, NEW d \in Int, drift' = d,
                   g - d = gauge - drift - 1
            PROVE  GaugeExact'
    <2>1. Cardinality(InUse') = Cardinality(InUse) - 1
      BY <1>0, <1>fewer, FS_RemoveElement
    <2> QED BY <1>0, <1>fewer, <2>1
  <1>forget. ASSUME NEW t \in Tasks, Forget(t), dedicated' = dedicated,
                    pc[t] \in {"use", "close"}
             PROVE  GaugeExact'
    <2>1. t \in InUse /\ InUse' = InUse \ {t} /\ Entries' = Entries
      BY <1>forget DEF Forget, InUse, Entries
    <2>2. gauge' = gauge /\ drift' = drift + 1
      BY <1>forget DEF Forget
    <2>3. gauge' \in Int /\ drift' \in Int /\ gauge' - drift' = gauge - drift - 1
      BY <2>2
    <2> QED BY <1>fewer, <2>1, <2>3
  <1>1. ASSUME NEW t \in Tasks, RequestDedicated(t) \/ Reuse(t)
        PROVE  GaugeExact'
    <2>1. UNCHANGED <<gauge, drift>> /\ Entries' = Entries /\ InUse' = InUse
      BY <1>1 DEF RequestDedicated, Reuse, Entries, InUse
    <2> QED BY <1>same, <2>1
  <1>2. ASSUME NEW t \in Tasks, Renew(t)
        PROVE  GaugeExact'
    <2>1. CASE dedicated[t] = NoChannel
      <3>1. UNCHANGED <<gauge, drift>> /\ Entries' = Entries /\ InUse' = InUse
        BY <1>2, <2>1 DEF Renew, GaugeAtRenew, Abandon, Entries, InUse
      <3> QED BY <1>same, <3>1
    <2>2. CASE dedicated[t] # NoChannel
      <3>1. t \in Entries /\ Entries' = Entries \ {t} /\ InUse' = InUse
        BY <1>2, <2>2 DEF Renew, Entries, InUse
      <3>2. Cardinality(Entries') = Cardinality(Entries) - 1
        BY <1>0, <3>1, FS_RemoveElement
      <3>3. gauge' = gauge - 1 /\ drift' = drift
        BY <1>2, <2>2 DEF Renew, GaugeAtRenew, Abandon
      <3> QED BY <1>0, <3>1, <3>2, <3>3
    <2> QED BY <2>1, <2>2
  <1>3. ASSUME NEW t \in Tasks, EndConsume(t) \/ RequestTransient(t)
        PROVE  GaugeExact'
    <2>1. UNCHANGED <<gauge, drift>> /\ Entries' = Entries /\ InUse' = InUse
      BY <1>3 DEF EndConsume, RequestTransient, Entries, InUse
    <2> QED BY <1>same, <2>1
  <1>4. ASSUME NEW t \in Tasks, NEW c \in Channels, CreateDedicated(t, c)
        PROVE  GaugeExact'
    <2>1. t \notin Entries /\ Entries' = Entries \union {t} /\ InUse' = InUse
      BY <1>4 DEF CreateDedicated, Entries, InUse
    <2>2. Cardinality(Entries') = Cardinality(Entries) + 1
      BY <1>0, <2>1, FS_AddElement
    <2>3. gauge' = gauge + 1 /\ drift' = drift
      BY <1>4 DEF CreateDedicated, Create
    <2> QED BY <1>0, <2>1, <2>2, <2>3
  <1>5. ASSUME NEW t \in Tasks, NEW c \in Channels, CreateTransient(t, c)
        PROVE  GaugeExact'
    <2>1. t \notin InUse /\ InUse' = InUse \union {t} /\ Entries' = Entries
      BY <1>5 DEF CreateTransient, Entries, InUse
    <2>2. Cardinality(InUse') = Cardinality(InUse) + 1
      BY <1>0, <2>1, FS_AddElement
    <2>3. gauge' = gauge + 1 /\ drift' = drift
      BY <1>5 DEF CreateTransient, Create
    <2> QED BY <1>0, <2>1, <2>2, <2>3
  <1>6. ASSUME NEW t \in Tasks, NEW left \in SUBSET Channels, CreateFail(t, left)
        PROVE  GaugeExact'
    <2>1. UNCHANGED <<gauge, drift>> /\ Entries' = Entries /\ InUse' = InUse
      BY <1>6 DEF CreateFail, CreateRaises, Pool!CannotObtain, OpenChannels, Pool!Obtain, LockAfterRaise, Entries, InUse
    <2> QED BY <1>same, <2>1
  <1>7. ASSUME NEW t \in Tasks, EndUse(t)
        PROVE  GaugeExact'
    <2>1. CASE transient[t] \in open
      <3>1. UNCHANGED <<gauge, drift>> /\ Entries' = Entries /\ InUse' = InUse
        BY <1>7, <2>1 DEF EndUse, Entries, InUse
      <3> QED BY <1>same, <3>1
    <2>2. CASE transient[t] \notin open
      BY <1>7, <2>2, <1>forget DEF EndUse
    <2> QED BY <2>1, <2>2
  <1>8. ASSUME NEW t \in Tasks, NEW ok \in BOOLEAN, EndClose(t, ok)
        PROVE  GaugeExact'
    <2>1. CASE ok
      <3>1. t \in InUse /\ InUse' = InUse \ {t} /\ Entries' = Entries
        BY <1>8, <2>1 DEF EndClose, InUse, Entries
      <3>2. gauge' = gauge - 1 /\ drift' = drift
        BY <1>8, <2>1 DEF EndClose
      <3> QED BY <1>fewer, <3>1, <3>2
    <2>2. CASE ~ok
      BY <1>8, <2>2, <1>forget DEF EndClose
    <2> QED BY <2>1, <2>2
  <1>9. ASSUME NEW t \in Tasks, NEW left \in SUBSET Channels, Cancel(t, left)
        PROVE  GaugeExact'
    <2>1. CASE pc[t] = "close"
      BY <1>9, <2>1, <1>forget DEF Cancel
    <2>2. CASE pc[t] # "close"
      <3>1. UNCHANGED <<gauge, drift>> /\ Entries' = Entries /\ InUse' = InUse
        BY <1>9, <2>2 DEF Cancel, Entries, InUse
      <3> QED BY <1>same, <3>1
    <2> QED BY <2>1, <2>2
  <1>10. CASE StartCheck \/ StartTest
    <2>1. UNCHANGED <<gauge, drift>> /\ Entries' = Entries /\ InUse' = InUse
      BY <1>10 DEF StartCheck, StartTest, Pool!Obtain, Entries, InUse
    <2> QED BY <1>same, <2>1
  <1>11. CASE NoConnection \/ NoTemp
    <2>1. UNCHANGED <<gauge, drift>> /\ Entries' = Entries /\ InUse' = InUse
      BY <1>11 DEF NoConnection, NoTemp, Pool!CannotObtain, Answer, BreakerAtAnswer, Entries, InUse
    <2> QED BY <1>same, <2>1
  <1>12. ASSUME NEW ok \in BOOLEAN, EndTest(ok)
        PROVE  GaugeExact'
    <2>1. UNCHANGED <<gauge, drift>> /\ Entries' = Entries /\ InUse' = InUse
      BY <1>12 DEF EndTest, CloseChannels, Abandon, Answer, BreakerAtAnswer, Entries, InUse
    <2> QED BY <1>same, <2>1
  <1>13. CASE StartClose \/ StartDrain
    <2>1. UNCHANGED <<gauge, drift>> /\ Entries' = Entries /\ InUse' = InUse
      BY <1>13 DEF StartClose, StartDrain, Entries, InUse
    <2> QED BY <1>same, <2>1
  <1>14. ASSUME NEW t \in Tasks, NEW ok \in BOOLEAN, Drain(t, ok)
        PROVE  GaugeExact'
    <2>1. UNCHANGED <<gauge, drift>> /\ Entries' = Entries /\ InUse' = InUse
      BY <1>14 DEF Drain, Entries, InUse
    <2> QED BY <1>same, <2>1
  <1>15. CASE EndDrain
    <2>1. Entries' = {} /\ InUse' = InUse
      BY <1>15 DEF EndDrain, Entries, InUse
    <2>2. gauge' = gauge /\ drift' = drift + Cardinality(Entries)
      BY <1>15 DEF EndDrain
    <2>3. Cardinality(Entries') = 0
      BY <2>1, FS_EmptySet
    <2> QED BY <1>0, <2>1, <2>2, <2>3
  <1>16. CASE ZeroGauge
    <2>1. Entries' = Entries /\ InUse' = InUse
      BY <1>16 DEF ZeroGauge, Entries, InUse
    <2>2. gauge' = 0 /\ drift' = 0 - Cardinality(Entries) - Cardinality(InUse)
      BY <1>16 DEF ZeroGauge
    <2> QED BY <1>0, <2>1, <2>2
  <1>17. ASSUME NEW ok \in BOOLEAN, CloseConnection(ok)
        PROVE  GaugeExact'
    <2>1. UNCHANGED <<gauge, drift>> /\ Entries' = Entries /\ InUse' = InUse
      BY <1>17 DEF CloseConnection, EndConnection, Entries, InUse
    <2> QED BY <1>same, <2>1
  <1>18. ASSUME NEW ok \in BOOLEAN, Retire(ok)
        PROVE  GaugeExact'
    <2>1. UNCHANGED <<gauge, drift>> /\ Entries' = Entries /\ InUse' = InUse
      BY <1>18 DEF Retire, Pool!Retire, EndConnection, Entries, InUse
    <2> QED BY <1>same, <2>1
  <1>19. CASE OtherObtain
    <2>1. UNCHANGED <<gauge, drift>> /\ Entries' = Entries /\ InUse' = InUse
      BY <1>19 DEF OtherObtain, Pool!Obtain, Pool!CannotObtain, Entries, InUse
    <2> QED BY <1>same, <2>1
  <1>20. CASE LoseConnection
    <2>1. UNCHANGED <<gauge, drift>> /\ Entries' = Entries /\ InUse' = InUse
      BY <1>20 DEF LoseConnection, Pool!Lose, EndConnection, Entries, InUse
    <2> QED BY <1>same, <2>1
  <1>21. ASSUME NEW c \in Channels, LoseChannel(c) \/ RestoreChannel(c) \/ EndChannel(c)
        PROVE  GaugeExact'
    <2>1. UNCHANGED <<gauge, drift>> /\ Entries' = Entries /\ InUse' = InUse
      BY <1>21 DEF LoseChannel, RestoreChannel, EndChannel, Entries, InUse
    <2> QED BY <1>same, <2>1
  <1>22. ASSUME NEW c \in Channels, OpenTemp(c)
        PROVE  GaugeExact'
    <2>1. UNCHANGED <<gauge, drift>> /\ Entries' = Entries /\ InUse' = InUse
      BY <1>22 DEF OpenTemp, Entries, InUse
    <2> QED BY <1>same, <2>1
  <1>23. CASE Disconnect
    <2>1. UNCHANGED <<gauge, drift>> /\ Entries' = Entries /\ InUse' = InUse
      BY <1>23 DEF Disconnect, Entries, InUse
    <2> QED BY <1>same, <2>1
  <1>24. CASE UNCHANGED vars
    <2>1. UNCHANGED <<gauge, drift>> /\ Entries' = Entries /\ InUse' = InUse
      BY <1>24 DEF vars, Entries, InUse
    <2> QED BY <1>same, <2>1
  <1> QED
    BY <1>1, <1>2, <1>3, <1>4, <1>5, <1>6, <1>7, <1>8, <1>9, <1>10, <1>11,
       <1>12, <1>13, <1>14, <1>15, <1>16, <1>17, <1>18, <1>19, <1>20, <1>21, <1>22, <1>23, <1>24
    DEF Next, TaskNext, EnterDedicated, EndCreate, EndTransient, CheckerNext, CloserNext,
        EndClosing, Environment

\* The metric is exact up to what ends uncounted and what close() does to it.
THEOREM GaugeAccounted == Spec => []GaugeExact
  <1>1. Init => GaugeExact
    <2> SUFFICES ASSUME Init PROVE GaugeExact
      OBVIOUS
    <2>1. Entries = {} /\ InUse = {}
      BY DEF Init, Entries, InUse
    <2> QED BY <2>1, FS_EmptySet DEF Init, GaugeExact
  <1>2. IInv /\ GaugeExact /\ [Next]_vars => GaugeExact'
    BY GaugeStep
  <1> QED BY Inductive, <1>1, <1>2, PTL DEF Spec

(***************************************************************************)
(* The manager on its connection pool                                      *)
(***************************************************************************)
LEMMA PoolStep ==
  ASSUME TypeOK, [Next]_vars
  PROVE  [Pool!Next]_Pool!vars
  <1> USE DEF Pool!Next, Pool!vars
  <1>1. ASSUME NEW t \in Tasks, TaskNext(t)
        PROVE  [Pool!Next]_Pool!vars
    <2>1. ASSUME NEW left \in SUBSET Channels, CreateFail(t, left) \/ Cancel(t, left)
          PROVE  [Pool!Next]_Pool!vars
      BY <2>1 DEF CreateFail, CreateRaises, OpenChannels, Cancel
    <2>2. ASSUME NEW c \in Channels, CreateDedicated(t, c) \/ CreateTransient(t, c)
          PROVE  [Pool!Next]_Pool!vars
      BY <2>2 DEF CreateDedicated, CreateTransient, Create, OpenChannels
    <2>3. ASSUME \/ RequestDedicated(t) \/ RequestTransient(t)
                 \/ EnterDedicated(t) \/ EndConsume(t) \/ EndTransient(t)
          PROVE  UNCHANGED Pool!vars
      BY <2>3 DEF RequestDedicated, RequestTransient, EnterDedicated, Reuse, Renew,
                  EndConsume, EndTransient, EndUse, EndClose
    <2> QED BY <1>1, <2>1, <2>2, <2>3 DEF TaskNext, EndCreate
  <1>2. CASE CheckerNext
    BY <1>2 DEF CheckerNext, StartCheck, StartTest, NoConnection, NoTemp, OpenTemp, EndTest
  <1>3. CASE CloserNext
    <2>1. ASSUME NEW ok \in BOOLEAN, CloseConnection(ok)
          PROVE  [Pool!Next]_Pool!vars
      BY <2>1 DEF CloseConnection, Pool!Retire, Pool!CannotObtain, TypeOK
    <2>2. ASSUME NEW t \in Tasks, NEW ok \in BOOLEAN, Drain(t, ok)
          PROVE  UNCHANGED Pool!vars
      BY <2>2 DEF Drain, CloseChannels, Abandon
    <2>3. CASE StartClose \/ StartDrain \/ EndDrain \/ ZeroGauge
      BY <2>3 DEF StartClose, StartDrain, EndDrain, ZeroGauge
    <2> QED BY <1>3, <2>1, <2>2, <2>3 DEF CloserNext, EndClosing
  <1>4. CASE Environment
    BY <1>4 DEF Environment, Retire, OtherObtain, LoseConnection, Disconnect,
                 LoseChannel, RestoreChannel, EndChannel
  <1>5. CASE UNCHANGED vars
    BY <1>5 DEF vars
  <1> QED BY <1>1, <1>2, <1>3, <1>4, <1>5 DEF Next

\* The manager does to its connection only what the connection pool can do: the
\* flag of the breaker and the connection never disagree, whatever creates,
\* tests, closes or loses it.
THEOREM OnlyPoolSteps == Spec => Pool!Spec
  <1>1. Init => Pool!Init
    BY DEF Init, Pool!Init
  <1>2. TypeOK /\ [Next]_vars => [Pool!Next]_Pool!vars
    BY PoolStep
  <1> QED BY TypeCorrect, <1>1, <1>2, PTL DEF Spec, Pool!Spec

\* While the breaker is open there is no connection.
BreakerSpares == tripped => connection = "none"

\* A connection that can be handed out is never behind an open breaker.
THEOREM BreakerSparesConnection == Spec => []BreakerSpares
  <1>1. Pool!Init => BreakerSpares
    BY DEF Pool!Init, BreakerSpares
  <1>2. BreakerSpares /\ [Pool!Next]_Pool!vars => BreakerSpares'
    BY DEF BreakerSpares, Pool!Next, Pool!vars, Pool!Obtain, Pool!CannotObtain,
           Pool!Retire, Pool!Lose
  <1> QED BY OnlyPoolSteps, <1>1, <1>2, PTL DEF Pool!Spec

(***************************************************************************)
(* The health check                                                        *)
(***************************************************************************)
\* "degraded" is the verdict of the moment at which it is given, whatever other
\* tasks did to breaker and connection since the check began.
THEOREM DegradedHolds == Spec => DegradedMeansDown
  <1> DEFINE Step == check'.status = "degraded" /\ check.status # "degraded"
                       => connection' = "none"
  <1>1. TypeOK /\ BreakerSpares' /\ [Next]_vars => Step
    <2> SUFFICES ASSUME TypeOK, [Next]_vars, check'.status = "degraded",
                        check.status # "degraded"
                 PROVE  tripped'
      BY DEF BreakerSpares
    <2> USE DEF TypeOK
    <2>1. ~UNCHANGED check
      OBVIOUS
    <2>2. ~(\E t \in Tasks : TaskNext(t))
      BY <2>1
      DEF TaskNext, RequestDedicated, RequestTransient, EnterDedicated, Reuse, Renew,
          EndCreate, CreateDedicated, CreateTransient, CreateFail, EndConsume,
          EndTransient, EndUse, EndClose, Cancel
    <2>3. ~CloserNext
      <3>1. ASSUME NEW ok \in BOOLEAN, CloseConnection(ok) PROVE FALSE
        BY <3>1 DEF CloseConnection, EndConnection
      <3> QED
        BY <2>1, <3>1 DEF CloserNext, StartClose, StartDrain, EndClosing, EndDrain, ZeroGauge, Drain
    <2>4. ~Environment
      <3>1. ASSUME NEW ok \in BOOLEAN, Retire(ok) PROVE FALSE
        BY <3>1 DEF Retire, Pool!Retire, EndConnection
      <3>2. ~LoseConnection
        BY DEF LoseConnection, Pool!Lose, EndConnection
      <3> QED
        BY <2>1, <3>1, <3>2
        DEF Environment, OtherObtain, Disconnect, LoseChannel, RestoreChannel, EndChannel
    <2>5. ~(\E c \in Channels : OpenTemp(c)) /\ ~StartCheck /\ ~StartTest
      BY DEF OpenTemp, StartCheck, StartTest
    <2>6. \/ NoConnection \/ NoTemp
          \/ \E ok \in BOOLEAN : EndTest(ok)
      BY <2>1, <2>2, <2>3, <2>4, <2>5 DEF Next, CheckerNext, vars
    <2> QED BY <2>6 DEF NoConnection, NoTemp, EndTest, Answer, BreakerAtAnswer
  <1>2. TypeOK /\ BreakerSpares' /\ [Next]_vars => [Step]_vars
    BY <1>1
  <1> QED BY TypeCorrect, BreakerSparesConnection, <1>2, PTL DEF Spec, DegradedMeansDown

\* A connection that ends takes its channels with it.
ChannelsFollow ==
  IF connection = "open" /\ connection' # "open"
  THEN \E ok \in BOOLEAN : EndConnection(ok) /\ (connection' = "lost" => ok)
  ELSE UNCHANGED <<channels, leaked, check>>

\* Whatever ConnectionPool does, Manager is prepared for: each of its steps, as
\* ConnectionState shows them, is at any time a step of the manager's environment.
THEOREM EveryPoolStep ==
  ASSUME TypeOK, BreakerSpares, Pool!Next, ChannelsFollow,
         UNCHANGED <<pooling, entries, metric, lock, pc, todo>>
  PROVE  [Environment]_vars
  <1>1. CASE Pool!Obtain
    <2>1. UNCHANGED <<channels, leaked, check>>
      BY <1>1 DEF Pool!Obtain, ChannelsFollow
    <2>2. CASE connection = "open"
      <3>1. UNCHANGED <<connection, tripped>>
        BY <1>1, <2>2 DEF Pool!Obtain, BreakerSpares, TypeOK
      <3> QED BY <2>1, <3>1 DEF vars
    <2>3. CASE connection # "open"
      BY <1>1, <2>1, <2>3 DEF Environment, OtherObtain
    <2> QED BY <2>2, <2>3
  <1>2. CASE Pool!CannotObtain
    BY <1>2 DEF Pool!CannotObtain, ChannelsFollow, Environment, OtherObtain
  <1>3. CASE Pool!Retire
    BY <1>3 DEF Pool!Retire, ChannelsFollow, Environment, Retire
  <1>4. CASE Pool!Lose
    <2>1. EndConnection(TRUE)
      BY <1>4 DEF Pool!Lose, ChannelsFollow, EndConnection
    <2> QED BY <1>4, <2>1 DEF Environment, LoseConnection
  <1> QED BY <1>1, <1>2, <1>3, <1>4 DEF Pool!Next
================================================================================
