------------------------ MODULE ConnectionPool_proofs ------------------------
(***************************************************************************)
(* Proofs about ConnectionPool, for every set of tasks and connections,    *)
(* every pool size and threshold.                                          *)
(***************************************************************************)
EXTENDS ConnectionPool, FiniteSetTheorems, TLAPS

(***************************************************************************)
(* Why there is one connection: whoever connects has emptied the pool, and *)
(* whoever closes a connection has popped the only one.  The lock keeps    *)
(* every other process from the pool until the section ends.               *)
(***************************************************************************)
EmptyWhileBusy ==
  \A p \in Procs : pc[p] \in {"connect", "evict"} => pool = {}

\* The entries the cleanup task still has to remove are in the pool.
TodoPooled == pc[Cleaner] \in {"sweep", "evict"} => todo \subseteq pool

\* Nobody connects through an open breaker.
ConnectingMeansClosedBreaker ==
  \A t \in Tasks : pc[t] = "connect" => breaker = "closed"

BreakerInv ==
  /\ ConnectingMeansClosedBreaker
  /\ BreakerOpenMeansEmptyPool
  /\ BreakerAgreement

IInv ==
  /\ TypeOK
  /\ LockOwnership
  /\ AtMostOneConnection
  /\ EmptyWhileBusy
  /\ TodoPooled
  /\ BreakerInv

USE DEF Procs, TaskPC, CleanerPC, CloserPC, Locked, clocks, circuit, history, Goto, Have

LEMMA InitIInv == Init => IInv
  <1> SUFFICES ASSUME Init PROVE IInv
    OBVIOUS
  <1>1. TypeOK
    <2>1. /\ pool \subseteq Conns /\ open \subseteq Conns /\ todo \subseteq Conns
          /\ idle \subseteq pool /\ aged \subseteq pool
          /\ breaker \in {"closed", "open", "cooled"}
          /\ failures \in Nat /\ gauge \in Int /\ permits \in Nat
          /\ drift \in Nat /\ leaked \subseteq Conns
          /\ lock \in Procs \union {Nobody}
      BY SizeAssumption DEF Init
    <2>2. pc \in [Procs -> TaskPC \union CleanerPC \union CloserPC]
      BY DEF Init
    <2>3. /\ \A t \in Tasks : pc[t] \in TaskPC
          /\ pc[Cleaner] \in CleanerPC /\ pc[Closer] \in CloserPC
      BY ProcessAssumption DEF Init
    <2>4. conn \in [Procs -> Conns \union {NoConn}]
      BY DEF Init
    <2> QED BY <2>1, <2>2, <2>3, <2>4 DEF TypeOK
  <1>2. LockOwnership /\ EmptyWhileBusy /\ TodoPooled /\ ConnectingMeansClosedBreaker
    BY ProcessAssumption
    DEF Init, LockOwnership, EmptyWhileBusy, TodoPooled, ConnectingMeansClosedBreaker
  <1>3. AtMostOneConnection /\ BreakerOpenMeansEmptyPool /\ BreakerAgreement
    BY SizeAssumption DEF Init, AtMostOneConnection, BreakerOpenMeansEmptyPool, BreakerAgreement
  <1> QED BY <1>1, <1>2, <1>3 DEF IInv, BreakerInv

\* Every step keeps the variables in their types.
LEMMA TypeStep == ASSUME TypeOK, [Next]_vars PROVE TypeOK'
  <1> USE ProcessAssumption, SizeAssumption DEF TypeOK
  <1>1. ASSUME NEW t \in Tasks, Request(t) PROVE TypeOK'
    BY <1>1 DEF Request
  <1>2. ASSUME NEW t \in Tasks, AcquirePermit(t) PROVE TypeOK'
    BY <1>2 DEF AcquirePermit
  <1>3. ASSUME NEW t \in Tasks, EnterPool(t) PROVE TypeOK'
    BY <1>3 DEF EnterPool
  <1>4. ASSUME NEW t \in Tasks, NEW c \in Conns, Reuse(t, c) PROVE TypeOK'
    BY <1>4 DEF Reuse
  <1>5. ASSUME NEW t \in Tasks, NEW c \in Conns, Evict(t, c) PROVE TypeOK'
    BY <1>5 DEF Evict, Pop, GaugeAtPop
  <1>6. ASSUME NEW t \in Tasks, NEW ok \in BOOLEAN, FinishEvict(t, ok) PROVE TypeOK'
    BY <1>6 DEF FinishEvict, EvictionOver, NotClosed
  <1>7. ASSUME NEW t \in Tasks, Refuse(t) PROVE TypeOK'
    BY <1>7 DEF Refuse
  <1>8. ASSUME NEW t \in Tasks, Connect(t) PROVE TypeOK'
    BY <1>8 DEF Connect, ResetBreaker
  <1>9. ASSUME NEW t \in Tasks, NEW c \in Conns, ConnectOk(t, c) PROVE TypeOK'
    BY <1>9 DEF ConnectOk, RecordSuccess
  <1>10. ASSUME NEW t \in Tasks, ConnectFail(t) PROVE TypeOK'
    BY <1>10 DEF ConnectFail, RecordFailure, LockAfterFailure
  <1>11. ASSUME NEW t \in Tasks, Release(t) PROVE TypeOK'
    BY <1>11 DEF Release
  <1>12. ASSUME NEW t \in Tasks, Cancel(t) PROVE TypeOK'
    BY <1>12 DEF Cancel, PermitsAfterCancel, NotClosed
  <1>13. CASE CleanerNext
    <2>1. ASSUME NEW c \in Conns, Sweep(c) PROVE TypeOK'
      BY <2>1 DEF Sweep, Pop
    <2>2. ASSUME NEW ok \in BOOLEAN, FinishSweep(ok) PROVE TypeOK'
      BY <2>2 DEF FinishSweep, EvictionOver, NotClosed
    <2>3. CASE Wake \/ EndSweep
      BY <2>3 DEF Wake, EndSweep
    <2>4. CASE StartSweep \/ StopCleaner
      BY <2>4 DEF StartSweep, StopCleaner, NotClosed
    <2> QED BY <1>13, <2>1, <2>2, <2>3, <2>4 DEF CleanerNext, EndSweeping
  <1>14. CASE CloserNext
    <2>1. ASSUME NEW c \in Conns, NEW ok \in BOOLEAN, Drain(c, ok) PROVE TypeOK'
      BY <2>1 DEF Drain
    <2>2. CASE StartClose \/ JoinCleaner \/ StartDrain
      BY <2>2 DEF StartClose, JoinCleaner, StartDrain
    <2>3. CASE FinishClose
      BY <2>3 DEF FinishClose
    <2> QED BY <1>14, <2>1, <2>2, <2>3 DEF CloserNext, EndDraining
  <1>15. CASE Environment
    BY <1>15 DEF Environment, CoolDown, Lose, GrowIdle, GrowOld
  <1>16. CASE UNCHANGED vars
    BY <1>16 DEF vars
  <1> QED
    BY <1>1, <1>2, <1>3, <1>4, <1>5, <1>6, <1>7, <1>8, <1>9, <1>10, <1>11, <1>12,
       <1>13, <1>14, <1>15, <1>16
    DEF Next, TaskNext, Scan, EndEvict, EndConnect

\* The lock is taken and given back together with the section it protects.
LEMMA LockStep ==
  ASSUME TypeOK, LockOwnership, [Next]_vars
  PROVE  LockOwnership'
  <1> USE ProcessAssumption DEF TypeOK, LockOwnership
  <1>1. ASSUME NEW t \in Tasks, Request(t) PROVE LockOwnership'
    BY <1>1 DEF Request
  <1>2. ASSUME NEW t \in Tasks, AcquirePermit(t) PROVE LockOwnership'
    BY <1>2 DEF AcquirePermit
  <1>3. ASSUME NEW t \in Tasks, EnterPool(t) PROVE LockOwnership'
    BY <1>3 DEF EnterPool
  <1>4. ASSUME NEW t \in Tasks, NEW c \in Conns, Reuse(t, c) PROVE LockOwnership'
    BY <1>4 DEF Reuse
  <1>5. ASSUME NEW t \in Tasks, NEW c \in Conns, Evict(t, c) PROVE LockOwnership'
    BY <1>5 DEF Evict
  <1>6. ASSUME NEW t \in Tasks, NEW ok \in BOOLEAN, FinishEvict(t, ok) PROVE LockOwnership'
    BY <1>6 DEF FinishEvict
  <1>7. ASSUME NEW t \in Tasks, Refuse(t) PROVE LockOwnership'
    BY <1>7 DEF Refuse
  <1>8. ASSUME NEW t \in Tasks, Connect(t) PROVE LockOwnership'
    BY <1>8 DEF Connect
  <1>9. ASSUME NEW t \in Tasks, NEW c \in Conns, ConnectOk(t, c) PROVE LockOwnership'
    BY <1>9 DEF ConnectOk
  <1>10. ASSUME NEW t \in Tasks, ConnectFail(t) PROVE LockOwnership'
    BY <1>10 DEF ConnectFail, LockAfterFailure
  <1>11. ASSUME NEW t \in Tasks, Release(t) PROVE LockOwnership'
    BY <1>11 DEF Release
  <1>12. ASSUME NEW t \in Tasks, Cancel(t) PROVE LockOwnership'
    BY <1>12 DEF Cancel
  <1>13. ASSUME NEW c \in Conns, Sweep(c) PROVE LockOwnership'
    BY <1>13 DEF Sweep
  <1>14. ASSUME NEW ok \in BOOLEAN, FinishSweep(ok) PROVE LockOwnership'
    BY <1>14 DEF FinishSweep
  <1>15. ASSUME NEW c \in Conns, NEW ok \in BOOLEAN, Drain(c, ok) PROVE LockOwnership'
    BY <1>15 DEF Drain
  <1>16. CASE Wake
    BY <1>16 DEF Wake
  <1>17. CASE StartSweep
    BY <1>17 DEF StartSweep
  <1>18. CASE EndSweep
    BY <1>18 DEF EndSweep
  <1>19. CASE StopCleaner
    BY <1>19 DEF StopCleaner
  <1>20. CASE StartClose
    BY <1>20 DEF StartClose
  <1>21. CASE JoinCleaner
    BY <1>21 DEF JoinCleaner
  <1>22. CASE StartDrain
    BY <1>22 DEF StartDrain
  <1>23. CASE FinishClose
    BY <1>23 DEF FinishClose
  <1>24. CASE Environment
    BY <1>24 DEF Environment, CoolDown, Lose, GrowIdle, GrowOld
  <1>25. CASE UNCHANGED vars
    BY <1>25 DEF vars
  <1> QED
    BY <1>1, <1>2, <1>3, <1>4, <1>5, <1>6, <1>7, <1>8, <1>9, <1>10, <1>11,
       <1>12, <1>13, <1>14, <1>15, <1>16, <1>17, <1>18, <1>19, <1>20,
       <1>21, <1>22, <1>23, <1>24, <1>25
    DEF Next, TaskNext, Scan, EndEvict, EndConnect, CleanerNext, EndSweeping,
        CloserNext, EndDraining

\* A section that connects or evicts has the pool to itself, and it is empty.
LEMMA PoolStep ==
  ASSUME IInv, [Next]_vars
  PROVE  AtMostOneConnection' /\ EmptyWhileBusy' /\ TodoPooled'
  <1> USE ProcessAssumption DEF IInv, TypeOK, LockOwnership, AtMostOneConnection, EmptyWhileBusy,
                            TodoPooled
  <1>1. ASSUME NEW t \in Tasks, Request(t) PROVE AtMostOneConnection' /\ EmptyWhileBusy' /\ TodoPooled'
    BY <1>1 DEF Request
  <1>2. ASSUME NEW t \in Tasks, AcquirePermit(t) PROVE AtMostOneConnection' /\ EmptyWhileBusy' /\ TodoPooled'
    BY <1>2 DEF AcquirePermit
  <1>3. ASSUME NEW t \in Tasks, EnterPool(t) PROVE AtMostOneConnection' /\ EmptyWhileBusy' /\ TodoPooled'
    BY <1>3 DEF EnterPool
  <1>4. ASSUME NEW t \in Tasks, NEW c \in Conns, Reuse(t, c) PROVE AtMostOneConnection' /\ EmptyWhileBusy' /\ TodoPooled'
    BY <1>4 DEF Reuse
  <1>5. ASSUME NEW t \in Tasks, NEW c \in Conns, Evict(t, c) PROVE AtMostOneConnection' /\ EmptyWhileBusy' /\ TodoPooled'
    BY <1>5 DEF Evict, Pop
  <1>6. ASSUME NEW t \in Tasks, NEW ok \in BOOLEAN, FinishEvict(t, ok) PROVE AtMostOneConnection' /\ EmptyWhileBusy' /\ TodoPooled'
    BY <1>6 DEF FinishEvict, EvictionOver
  <1>7. ASSUME NEW t \in Tasks, Refuse(t) PROVE AtMostOneConnection' /\ EmptyWhileBusy' /\ TodoPooled'
    BY <1>7 DEF Refuse
  <1>8. ASSUME NEW t \in Tasks, Connect(t) PROVE AtMostOneConnection' /\ EmptyWhileBusy' /\ TodoPooled'
    BY <1>8 DEF Connect, ResetBreaker, ScanOver, BreakerBlocks
  <1>9. ASSUME NEW t \in Tasks, NEW c \in Conns, ConnectOk(t, c) PROVE AtMostOneConnection' /\ EmptyWhileBusy' /\ TodoPooled'
    BY <1>9 DEF ConnectOk, RecordSuccess
  <1>10. ASSUME NEW t \in Tasks, ConnectFail(t) PROVE AtMostOneConnection' /\ EmptyWhileBusy' /\ TodoPooled'
    BY <1>10 DEF ConnectFail, RecordFailure, LockAfterFailure
  <1>11. ASSUME NEW t \in Tasks, Release(t) PROVE AtMostOneConnection' /\ EmptyWhileBusy' /\ TodoPooled'
    BY <1>11 DEF Release
  <1>12. ASSUME NEW t \in Tasks, Cancel(t) PROVE AtMostOneConnection' /\ EmptyWhileBusy' /\ TodoPooled'
    BY <1>12 DEF Cancel
  <1>13. ASSUME NEW c \in Conns, Sweep(c) PROVE AtMostOneConnection' /\ EmptyWhileBusy' /\ TodoPooled'
    BY <1>13 DEF Sweep, Pop
  <1>14. ASSUME NEW ok \in BOOLEAN, FinishSweep(ok) PROVE AtMostOneConnection' /\ EmptyWhileBusy' /\ TodoPooled'
    BY <1>14 DEF FinishSweep, EvictionOver
  <1>15. ASSUME NEW c \in Conns, NEW ok \in BOOLEAN, Drain(c, ok) PROVE AtMostOneConnection' /\ EmptyWhileBusy' /\ TodoPooled'
    BY <1>15 DEF Drain
  <1>16. CASE Wake
    BY <1>16 DEF Wake
  <1>17. CASE StartSweep
    BY <1>17 DEF StartSweep
  <1>18. CASE EndSweep
    BY <1>18 DEF EndSweep
  <1>19. CASE StopCleaner
    BY <1>19 DEF StopCleaner
  <1>20. CASE StartClose
    BY <1>20 DEF StartClose
  <1>21. CASE JoinCleaner
    BY <1>21 DEF JoinCleaner
  <1>22. CASE StartDrain
    BY <1>22 DEF StartDrain
  <1>23. CASE FinishClose
    BY <1>23 DEF FinishClose
  <1>24. CASE Environment
    BY <1>24 DEF Environment, CoolDown, Lose, GrowIdle, GrowOld
  <1>25. CASE UNCHANGED vars
    BY <1>25 DEF vars
  <1> QED
    BY <1>1, <1>2, <1>3, <1>4, <1>5, <1>6, <1>7, <1>8, <1>9, <1>10, <1>11,
       <1>12, <1>13, <1>14, <1>15, <1>16, <1>17, <1>18, <1>19, <1>20,
       <1>21, <1>22, <1>23, <1>24, <1>25
    DEF Next, TaskNext, Scan, EndEvict, EndConnect, CleanerNext, EndSweeping,
        CloserNext, EndDraining

\* The breaker opens only while a task connects, that is over an empty pool.
LEMMA BreakerStep ==
  ASSUME IInv, [Next]_vars
  PROVE  BreakerInv'
  <1> USE ProcessAssumption, SizeAssumption DEF IInv, TypeOK, LockOwnership, EmptyWhileBusy,
                            BreakerInv, ConnectingMeansClosedBreaker,
                            BreakerOpenMeansEmptyPool, BreakerAgreement
  <1>1. ASSUME NEW t \in Tasks, Request(t) PROVE BreakerInv'
    BY <1>1 DEF Request
  <1>2. ASSUME NEW t \in Tasks, AcquirePermit(t) PROVE BreakerInv'
    BY <1>2 DEF AcquirePermit
  <1>3. ASSUME NEW t \in Tasks, EnterPool(t) PROVE BreakerInv'
    BY <1>3 DEF EnterPool
  <1>4. ASSUME NEW t \in Tasks, NEW c \in Conns, Reuse(t, c) PROVE BreakerInv'
    BY <1>4 DEF Reuse
  <1>5. ASSUME NEW t \in Tasks, NEW c \in Conns, Evict(t, c) PROVE BreakerInv'
    BY <1>5 DEF Evict, Pop
  <1>6. ASSUME NEW t \in Tasks, NEW ok \in BOOLEAN, FinishEvict(t, ok) PROVE BreakerInv'
    BY <1>6 DEF FinishEvict, EvictionOver
  <1>7. ASSUME NEW t \in Tasks, Refuse(t) PROVE BreakerInv'
    BY <1>7 DEF Refuse
  <1>8. ASSUME NEW t \in Tasks, Connect(t) PROVE BreakerInv'
    BY <1>8 DEF Connect, ResetBreaker, ScanOver, BreakerBlocks
  <1>9. ASSUME NEW t \in Tasks, NEW c \in Conns, ConnectOk(t, c) PROVE BreakerInv'
    BY <1>9 DEF ConnectOk, RecordSuccess
  <1>10. ASSUME NEW t \in Tasks, ConnectFail(t) PROVE BreakerInv'
    BY <1>10 DEF ConnectFail, RecordFailure, LockAfterFailure
  <1>11. ASSUME NEW t \in Tasks, Release(t) PROVE BreakerInv'
    BY <1>11 DEF Release
  <1>12. ASSUME NEW t \in Tasks, Cancel(t) PROVE BreakerInv'
    BY <1>12 DEF Cancel
  <1>13. ASSUME NEW c \in Conns, Sweep(c) PROVE BreakerInv'
    BY <1>13 DEF Sweep, Pop
  <1>14. ASSUME NEW ok \in BOOLEAN, FinishSweep(ok) PROVE BreakerInv'
    BY <1>14 DEF FinishSweep, EvictionOver
  <1>15. ASSUME NEW c \in Conns, NEW ok \in BOOLEAN, Drain(c, ok) PROVE BreakerInv'
    BY <1>15 DEF Drain
  <1>16. CASE Wake
    BY <1>16 DEF Wake
  <1>17. CASE StartSweep
    BY <1>17 DEF StartSweep
  <1>18. CASE EndSweep
    BY <1>18 DEF EndSweep
  <1>19. CASE StopCleaner
    BY <1>19 DEF StopCleaner
  <1>20. CASE StartClose
    BY <1>20 DEF StartClose
  <1>21. CASE JoinCleaner
    BY <1>21 DEF JoinCleaner
  <1>22. CASE StartDrain
    BY <1>22 DEF StartDrain
  <1>23. CASE FinishClose
    BY <1>23 DEF FinishClose
  <1>24. CASE Environment
    BY <1>24 DEF Environment, CoolDown, Lose, GrowIdle, GrowOld
  <1>25. CASE UNCHANGED vars
    BY <1>25 DEF vars
  <1> QED
    BY <1>1, <1>2, <1>3, <1>4, <1>5, <1>6, <1>7, <1>8, <1>9, <1>10, <1>11,
       <1>12, <1>13, <1>14, <1>15, <1>16, <1>17, <1>18, <1>19, <1>20,
       <1>21, <1>22, <1>23, <1>24, <1>25
    DEF Next, TaskNext, Scan, EndEvict, EndConnect, CleanerNext, EndSweeping,
        CloserNext, EndDraining

THEOREM Inductive == Spec => []IInv
  <1>1. IInv /\ [Next]_vars => IInv'
    BY TypeStep, LockStep, PoolStep, BreakerStep DEF IInv
  <1> QED BY InitIInv, <1>1, PTL DEF Spec

\* Type correctness of the pool, its lock, its semaphore and its breaker.
THEOREM TypeCorrect == Spec => []TypeOK
  <1>1. IInv => TypeOK
    BY DEF IInv
  <1> QED BY Inductive, <1>1, PTL

\* The pool lock protects its sections against every raise and cancellation.
THEOREM LockProtects == Spec => []LockOwnership
  <1>1. IInv => LockOwnership
    BY DEF IInv
  <1> QED BY Inductive, <1>1, PTL

\* The pool never holds two connections, whatever its maximal size.
THEOREM OneConnection == Spec => []AtMostOneConnection
  <1>1. IInv => AtMostOneConnection
    BY DEF IInv
  <1> QED BY Inductive, <1>1, PTL

\* The breaker is open exactly when Threshold failures are counted.
THEOREM BreakerCounts == Spec => []BreakerAgreement
  <1>1. IInv => BreakerAgreement
    BY DEF IInv, BreakerInv
  <1> QED BY Inductive, <1>1, PTL

\* An open breaker never stands beside a pooled connection.
THEOREM BreakerSpares == Spec => []BreakerOpenMeansEmptyPool
  <1>1. IInv => BreakerOpenMeansEmptyPool
    BY DEF IInv, BreakerInv
  <1> QED BY Inductive, <1>1, PTL

(***************************************************************************)
(* The permits of the semaphore                                            *)
(***************************************************************************)
LEMMA PermitStep ==
  ASSUME TypeOK, PermitAccounting, [Next]_vars
  PROVE  PermitAccounting'
  <1> USE DEF TypeOK, PermitAccounting
  <1>1. IsFiniteSet(Inside) /\ Cardinality(Inside) \in Nat
    BY SizeAssumption, FS_Subset, FS_CardinalityType DEF Inside
  <1>2. ASSUME UNCHANGED permits, Inside' = Inside
        PROVE  PermitAccounting'
    BY <1>2
  <1>3. ASSUME NEW t \in Tasks, AcquirePermit(t) PROVE PermitAccounting'
    <2>1. t \notin Inside /\ Inside' = Inside \union {t}
      BY <1>3, ProcessAssumption DEF AcquirePermit, Inside
    <2>2. Cardinality(Inside') = Cardinality(Inside) + 1
      BY <1>1, <2>1, FS_AddElement
    <2> QED BY <1>1, <1>3, <2>2, SizeAssumption DEF AcquirePermit
  <1>4. ASSUME NEW t \in Inside, Inside' = Inside \ {t}, permits' = permits + 1
        PROVE  PermitAccounting'
    <2>1. Cardinality(Inside') = Cardinality(Inside) - 1
      BY <1>1, <1>4, FS_RemoveElement
    <2> QED BY <1>1, <1>4, <2>1, SizeAssumption
  <1>5. ASSUME NEW t \in Tasks, Refuse(t) \/ ConnectFail(t) \/ Release(t)
        PROVE  PermitAccounting'
    <2>1. t \in Inside /\ Inside' = Inside \ {t} /\ permits' = permits + 1
      BY <1>5, ProcessAssumption DEF Refuse, ConnectFail, Release, Inside
    <2> QED BY <1>4, <2>1
  <1>6. ASSUME NEW t \in Tasks, Cancel(t) PROVE PermitAccounting'
    <2>1. CASE pc[t] = "permit"
      <3>1. UNCHANGED permits /\ Inside' = Inside
        BY <1>6, <2>1, ProcessAssumption DEF Cancel, PermitsAfterCancel, Inside
      <3> QED BY <1>2, <3>1
    <2>2. CASE pc[t] # "permit"
      <3>1. t \in Inside /\ Inside' = Inside \ {t} /\ permits' = permits + 1
        BY <1>6, <2>2, ProcessAssumption DEF Cancel, PermitsAfterCancel, Inside
      <3> QED BY <1>4, <3>1
    <2> QED BY <2>1, <2>2
  <1>7. ASSUME NEW t \in Tasks, Request(t) \/ EnterPool(t) \/ Connect(t)
        PROVE  PermitAccounting'
    <2>1. UNCHANGED permits /\ Inside' = Inside
      BY <1>7, ProcessAssumption DEF Request, EnterPool, Connect, Inside
    <2> QED BY <1>2, <2>1
  <1>8. ASSUME NEW t \in Tasks, NEW c \in Conns, Reuse(t, c) \/ Evict(t, c) \/ ConnectOk(t, c)
        PROVE  PermitAccounting'
    <2>1. UNCHANGED permits /\ Inside' = Inside
      BY <1>8, ProcessAssumption DEF Reuse, Evict, ConnectOk, Inside
    <2> QED BY <1>2, <2>1
  <1>9. ASSUME NEW t \in Tasks, NEW ok \in BOOLEAN, FinishEvict(t, ok)
        PROVE  PermitAccounting'
    <2>1. UNCHANGED permits /\ Inside' = Inside
      BY <1>9, ProcessAssumption DEF FinishEvict, EvictionOver, Inside
    <2> QED BY <1>2, <2>1
  <1>10. CASE CleanerNext
    <2>1. UNCHANGED permits /\ Inside' = Inside
      BY <1>10, ProcessAssumption
      DEF CleanerNext, Wake, StartSweep, EndSweeping, EndSweep, Sweep, FinishSweep,
          EvictionOver, StopCleaner, Inside
    <2> QED BY <1>2, <2>1
  <1>11. CASE CloserNext
    <2>1. UNCHANGED permits /\ Inside' = Inside
      BY <1>11, ProcessAssumption
      DEF CloserNext, StartClose, JoinCleaner, StartDrain, EndDraining, Drain,
          FinishClose, Inside
    <2> QED BY <1>2, <2>1
  <1>12. CASE Environment \/ UNCHANGED vars
    <2>1. UNCHANGED permits /\ Inside' = Inside
      BY <1>12 DEF Environment, CoolDown, Lose, GrowIdle, GrowOld, vars, Inside
    <2> QED BY <1>2, <2>1
  <1> QED
    BY <1>3, <1>5, <1>6, <1>7, <1>8, <1>9, <1>10, <1>11, <1>12
    DEF Next, TaskNext, Scan, EndEvict, EndConnect

\* No permit is lost or given back twice, whatever fails or is cancelled.
THEOREM PermitsKept == Spec => []PermitAccounting
  <1>1. Init => PermitAccounting
    <2> SUFFICES ASSUME Init PROVE PermitAccounting
      OBVIOUS
    <2>1. Inside = {}
      BY DEF Init, Inside
    <2> QED BY <2>1, FS_EmptySet, SizeAssumption DEF Init, PermitAccounting
  <1>2. TypeOK /\ PermitAccounting /\ [Next]_vars => PermitAccounting'
    BY PermitStep
  <1> QED BY <1>1, <1>2, TypeCorrect, PTL DEF Spec

(***************************************************************************)
(* The metric of active connections                                        *)
(***************************************************************************)
\* The pool or an eviction has the connection.
Busy == pool # {} \/ \E p \in Procs : pc[p] = "evict"

Held == IF Busy THEN 1 ELSE 0

GaugeInv == gauge = Held + drift

LEMMA GaugeStep ==
  ASSUME IInv, IInv', GaugeInv, [Next]_vars
  PROVE  GaugeInv'
  <1> USE ProcessAssumption DEF IInv, TypeOK, LockOwnership, AtMostOneConnection,
                                EmptyWhileBusy, GaugeInv
  <1>1. ASSUME UNCHANGED <<gauge, drift>>, Busy' <=> Busy PROVE GaugeInv'
    BY <1>1 DEF Held
  <1>2. ASSUME gauge' = gauge + 1, UNCHANGED drift, ~Busy, Busy' PROVE GaugeInv'
    BY <1>2 DEF Held
  <1>3. ASSUME gauge' = gauge - 1, UNCHANGED drift, Busy, ~Busy' PROVE GaugeInv'
    BY <1>3 DEF Held
  <1>4. ASSUME drift' = drift + 1, UNCHANGED gauge, Busy, ~Busy' PROVE GaugeInv'
    BY <1>4 DEF Held
  <1>5. ASSUME NEW t \in Tasks, NEW c \in Conns, Evict(t, c) PROVE GaugeInv'
    <2>1. CASE c \in open
      BY <1>5, <2>1, <1>1 DEF Evict, Pop, GaugeAtPop, Busy
    <2>2. CASE c \notin open
      BY <1>5, <2>2, <1>3 DEF Evict, Pop, GaugeAtPop, Busy
    <2> QED BY <2>1, <2>2
  <1>6. ASSUME NEW t \in Tasks, NEW c \in Conns, ConnectOk(t, c) PROVE GaugeInv'
    <2>1. ~Busy /\ Busy'
      BY <1>6 DEF ConnectOk, Busy
    <2> QED BY <1>6, <1>2, <2>1 DEF ConnectOk
  \* Only one process evicts, and the pool is empty meanwhile.
  <1>7. ASSUME NEW p \in Procs, pc[p] = "evict", pc' = [pc EXCEPT ![p] = "scan"]
                 \/ pc' = [pc EXCEPT ![p] = "sweep"] \/ pc' = [pc EXCEPT ![p] = "out"]
                 \/ pc' = [pc EXCEPT ![p] = "stopped"],
               UNCHANGED pool
        PROVE  Busy /\ ~Busy'
    <2>1. pool = {} /\ \A q \in Procs \ {p} : pc[q] # "evict"
      BY <1>7
    <2> QED BY <1>7, <2>1 DEF Busy
  <1>8. ASSUME NEW t \in Tasks, NEW ok \in BOOLEAN, FinishEvict(t, ok) PROVE GaugeInv'
    <2>1. Busy /\ ~Busy'
      BY <1>8, <1>7 DEF FinishEvict
    <2>2. CASE ok
      BY <1>8, <2>1, <2>2, <1>3 DEF FinishEvict, EvictionOver
    <2>3. CASE ~ok
      BY <1>8, <2>1, <2>3, <1>4 DEF FinishEvict, EvictionOver, NotClosed
    <2> QED BY <2>2, <2>3
  <1>9. ASSUME NEW ok \in BOOLEAN, FinishSweep(ok) PROVE GaugeInv'
    <2>1. Busy /\ ~Busy'
      BY <1>9, <1>7 DEF FinishSweep
    <2>2. CASE ok
      BY <1>9, <2>1, <2>2, <1>3 DEF FinishSweep, EvictionOver
    <2>3. CASE ~ok
      BY <1>9, <2>1, <2>3, <1>4 DEF FinishSweep, EvictionOver, NotClosed
    <2> QED BY <2>2, <2>3
  <1>10. ASSUME NEW t \in Tasks, Cancel(t) PROVE GaugeInv'
    <2>1. CASE pc[t] = "evict"
      BY <1>10, <2>1, <1>4, <1>7 DEF Cancel, NotClosed
    <2>2. CASE pc[t] # "evict"
      BY <1>10, <2>2, <1>1 DEF Cancel, Busy
    <2> QED BY <2>1, <2>2
  <1>11. CASE StopCleaner
    <2>1. CASE pc[Cleaner] = "evict"
      BY <1>11, <2>1, <1>4, <1>7 DEF StopCleaner, NotClosed
    <2>2. CASE pc[Cleaner] # "evict"
      BY <1>11, <2>2, <1>1 DEF StopCleaner, Busy
    <2> QED BY <2>1, <2>2
  <1>12. ASSUME NEW t \in Tasks, NEW c \in Conns, Reuse(t, c) PROVE GaugeInv'
    <2>1. UNCHANGED <<gauge, drift>> /\ (Busy' <=> Busy)
      BY <1>12 DEF Reuse, Busy
    <2> QED BY <1>1, <2>1
  <1>13. ASSUME NEW t \in Tasks,
               Request(t) \/ AcquirePermit(t) \/ EnterPool(t) \/ Refuse(t) \/ Connect(t)
        PROVE GaugeInv'
    <2>1. UNCHANGED <<gauge, drift>> /\ (Busy' <=> Busy)
      BY <1>13 DEF Request, AcquirePermit, EnterPool, Refuse, Connect, Busy
    <2> QED BY <1>1, <2>1
  <1>14. ASSUME NEW t \in Tasks, ConnectFail(t) \/ Release(t) PROVE GaugeInv'
    <2>1. UNCHANGED <<gauge, drift>> /\ (Busy' <=> Busy)
      BY <1>14 DEF ConnectFail, Release, Busy
    <2> QED BY <1>1, <2>1
  <1>15. ASSUME NEW c \in Conns, Sweep(c) PROVE GaugeInv'
    <2>1. UNCHANGED <<gauge, drift>> /\ (Busy' <=> Busy)
      BY <1>15 DEF Sweep, Pop, TodoPooled, Busy
    <2> QED BY <1>1, <2>1
  <1>16. CASE Wake \/ StartSweep \/ EndSweep
    <2>1. UNCHANGED <<gauge, drift>> /\ (Busy' <=> Busy)
      BY <1>16 DEF Wake, StartSweep, EndSweep, Busy
    <2> QED BY <1>1, <2>1
  <1>17. CASE StartClose \/ JoinCleaner \/ StartDrain
    <2>1. UNCHANGED <<gauge, drift>> /\ (Busy' <=> Busy)
      BY <1>17 DEF StartClose, JoinCleaner, StartDrain, Busy
    <2> QED BY <1>1, <2>1
  <1>18. ASSUME NEW c \in Conns, NEW ok \in BOOLEAN, Drain(c, ok) PROVE GaugeInv'
    <2>1. UNCHANGED <<gauge, drift>> /\ (Busy' <=> Busy)
      BY <1>18 DEF Drain, Busy
    <2> QED BY <1>1, <2>1
  <1>19. CASE Environment \/ UNCHANGED vars
    <2>1. UNCHANGED <<gauge, drift>> /\ (Busy' <=> Busy)
      BY <1>19 DEF Environment, CoolDown, Lose, GrowIdle, GrowOld, vars, Busy
    <2> QED BY <1>1, <2>1
  <1>20. CASE FinishClose
    <2>1. ~Busy'
      BY <1>20 DEF FinishClose, Busy
    <2> QED BY <1>20, <2>1 DEF FinishClose, Held
  <1> QED
    BY <1>5, <1>6, <1>8, <1>9, <1>10, <1>11, <1>12, <1>13, <1>14,
       <1>15, <1>16, <1>17, <1>18, <1>19, <1>20
    DEF Next, TaskNext, Scan, EndEvict, EndConnect, CleanerNext, EndSweeping,
        CloserNext, EndDraining

LEMMA GaugeCounts == ASSUME IInv, GaugeInv PROVE GaugeExact
  <1> USE ProcessAssumption DEF IInv, TypeOK
  <1>1. Busy <=> pool # {} \/ Evicting # {}
    BY DEF Busy, Evicting
  <1>2. Cardinality(pool) + Cardinality(Evicting) = Held
    <2>1. CASE pool = {} /\ Evicting = {}
      BY <1>1, <2>1, FS_EmptySet DEF Held
    <2>2. CASE pool # {}
      <3>1. PICK c \in pool : pool = {c}
        BY <2>2 DEF AtMostOneConnection
      <3>2. Evicting = {}
        BY <2>2 DEF Evicting, EmptyWhileBusy
      <3>3. Cardinality({c}) = 1
        BY FS_Singleton
      <3> QED BY <1>1, <3>1, <3>2, <3>3, FS_EmptySet DEF Held
    <2>3. CASE Evicting # {}
      <3>1. PICK p \in Evicting : Evicting = {p}
        BY <2>3 DEF Evicting, LockOwnership
      <3>2. pool = {}
        BY <2>3 DEF Evicting, EmptyWhileBusy
      <3>3. Cardinality({p}) = 1
        BY FS_Singleton
      <3> QED BY <1>1, <3>1, <3>2, <3>3, FS_EmptySet DEF Held
    <2> QED BY <2>1, <2>2, <2>3
  <1> QED BY <1>2 DEF GaugeInv, GaugeExact

\* The metric is exact up to the evictions that did not end with a close().
THEOREM GaugeAccounted == Spec => []GaugeExact
  <1>1. Init => GaugeInv
    BY ProcessAssumption DEF Init, GaugeInv, Held, Busy
  <1>2. IInv /\ IInv' /\ GaugeInv /\ [Next]_vars => GaugeInv'
    BY GaugeStep
  <1>3. IInv /\ GaugeInv => GaugeExact
    BY GaugeCounts
  <1> QED BY Inductive, <1>1, <1>2, <1>3, PTL DEF Spec

(***************************************************************************)
(* Connections nobody knows of.  close() empties the pool after it went    *)
(* through it, so that what it passed over was recorded.                   *)
(***************************************************************************)
Passed == pc[Closer] = "drain" => pool \cap open \subseteq todo \union leaked

OrphanInv == NoOrphan /\ Passed

LEMMA OrphanStep ==
  ASSUME IInv, OrphanInv, [Next]_vars
  PROVE  OrphanInv'
  <1> USE ProcessAssumption DEF IInv, TypeOK, LockOwnership, OrphanInv, NoOrphan, Passed,
                                Evicting
  <1>1. ASSUME NEW t \in Tasks, NEW c \in Conns, Evict(t, c)
        PROVE  OrphanInv'
    BY <1>1 DEF Evict, Pop
  <1>2. ASSUME NEW t \in Tasks, NEW c \in Conns, ConnectOk(t, c)
        PROVE  OrphanInv'
    BY <1>2 DEF ConnectOk
  <1>3. ASSUME NEW t \in Tasks, NEW ok \in BOOLEAN, FinishEvict(t, ok)
        PROVE  OrphanInv'
    BY <1>3 DEF FinishEvict, EvictionOver, NotClosed
  <1>4. ASSUME NEW t \in Tasks, NEW c \in Conns, Reuse(t, c)
        PROVE  OrphanInv'
    BY <1>4 DEF Reuse
  <1>5. ASSUME NEW t \in Tasks, Request(t) \/ AcquirePermit(t) \/ EnterPool(t)
        PROVE  OrphanInv'
    BY <1>5 DEF Request, AcquirePermit, EnterPool
  <1>6. ASSUME NEW t \in Tasks, Refuse(t) \/ Connect(t) \/ ConnectFail(t)
        PROVE  OrphanInv'
    BY <1>6 DEF Refuse, Connect, ConnectFail
  <1>7. ASSUME NEW t \in Tasks, Release(t)
        PROVE  OrphanInv'
    BY <1>7 DEF Release
  <1>8. ASSUME NEW t \in Tasks, Cancel(t)
        PROVE  OrphanInv'
    BY <1>8 DEF Cancel, NotClosed
  <1>9. ASSUME NEW c \in Conns, Sweep(c)
        PROVE  OrphanInv'
    BY <1>9 DEF Sweep, Pop
  <1>10. ASSUME NEW ok \in BOOLEAN, FinishSweep(ok)
        PROVE  OrphanInv'
    BY <1>10 DEF FinishSweep, EvictionOver, NotClosed
  <1>11. CASE StopCleaner
    BY <1>11 DEF StopCleaner, NotClosed
  <1>12. CASE Wake \/ StartSweep \/ EndSweep
    BY <1>12 DEF Wake, StartSweep, EndSweep
  <1>13. CASE StartClose \/ JoinCleaner \/ StartDrain
    BY <1>13 DEF StartClose, JoinCleaner, StartDrain
  <1>14. ASSUME NEW c \in Conns, NEW ok \in BOOLEAN, Drain(c, ok)
        PROVE  OrphanInv'
    BY <1>14 DEF Drain
  <1>15. CASE FinishClose
    BY <1>15 DEF FinishClose
  <1>16. CASE Environment \/ UNCHANGED vars
    BY <1>16 DEF Environment, CoolDown, Lose, GrowIdle, GrowOld, vars
  <1> QED
    BY <1>1, <1>2, <1>3, <1>4, <1>5, <1>6, <1>7, <1>8, <1>9, <1>10, <1>11, <1>12, <1>13,
       <1>14, <1>15, <1>16
    DEF Next, TaskNext, Scan, EndEvict, EndConnect, CleanerNext, EndSweeping,
        CloserNext, EndDraining

\* No connection is forgotten, except by a close() that failed or was cancelled.
THEOREM NothingForgotten == Spec => []NoOrphan
  <1>1. Init => OrphanInv
    BY ProcessAssumption DEF Init, OrphanInv, NoOrphan, Passed
  <1>2. IInv /\ OrphanInv /\ [Next]_vars => OrphanInv'
    BY OrphanStep
  <1>3. OrphanInv => NoOrphan
    BY DEF OrphanInv
  <1> QED BY Inductive, <1>1, <1>2, <1>3, PTL DEF Spec

(***************************************************************************)
(* The pool implements one shared connection                               *)
(***************************************************************************)
Using == [t \in Tasks |-> IF pc[t] = "use" THEN conn[t] ELSE NoConn]

LEMMA SharedStep ==
  ASSUME IInv, IInv', [Next]_vars
  PROVE  [Shared!Next]_Shared!vars
  <1> USE ProcessAssumption DEF IInv, TypeOK
  <1>1. ASSUME UNCHANGED pool, Using' = Using
        PROVE  [Shared!Next]_Shared!vars
    BY <1>1 DEF Shared!vars, Using
  <1>2. ASSUME pool' = {}, Using' = Using
        PROVE  [Shared!Next]_Shared!vars
    BY <1>2 DEF Shared!Next, Shared!Retire, Using
  <1>3. ASSUME NEW t \in Tasks, NEW c \in Conns, Reuse(t, c)
        PROVE  [Shared!Next]_Shared!vars
    <2>1. Using[t] = NoConn /\ Using' = [Using EXCEPT ![t] = c]
      BY <1>3 DEF Reuse, Using
    <2>2. Shared!Obtain(t)
      BY <1>3, <2>1 DEF Reuse, Shared!Obtain, Using
    <2> QED BY <2>2 DEF Shared!Next
  <1>4. ASSUME NEW t \in Tasks, NEW c \in Conns, ConnectOk(t, c)
        PROVE  [Shared!Next]_Shared!vars
    <2>1. Using[t] = NoConn /\ Using' = [Using EXCEPT ![t] = c]
      BY <1>4 DEF ConnectOk, Using
    <2>2. \A u \in Tasks : Using[u] # c
      BY <1>4 DEF ConnectOk, Fresh, Using
    <2>3. pool = {} /\ pool' = {c}
      BY <1>4 DEF ConnectOk, EmptyWhileBusy
    <2>4. Shared!Install(t, c)
      BY <2>1, <2>2, <2>3 DEF Shared!Install, Using
    <2> QED BY <2>4 DEF Shared!Next
  <1>5. ASSUME NEW t \in Tasks, Release(t)
        PROVE  [Shared!Next]_Shared!vars
    <2>1. Using' = [Using EXCEPT ![t] = NoConn]
      BY <1>5 DEF Release, Using
    <2>2. Shared!Leave(t)
      BY <1>5, <2>1 DEF Release, Shared!Leave, Using
    <2> QED BY <2>2 DEF Shared!Next
  <1>6. ASSUME NEW t \in Tasks, NEW c \in Conns, Evict(t, c)
        PROVE  [Shared!Next]_Shared!vars
    <2>1. pool' = {}
      BY <1>6 DEF Evict, Pop, AtMostOneConnection
    <2>2. Using' = Using
      BY <1>6 DEF Evict, Using
    <2> QED BY <1>2, <2>1, <2>2
  <1>7. ASSUME NEW t \in Tasks,
               Request(t) \/ AcquirePermit(t) \/ EnterPool(t) \/ Refuse(t) \/ Connect(t)
        PROVE  [Shared!Next]_Shared!vars
    <2>1. UNCHANGED pool /\ Using' = Using
      BY <1>7 DEF Request, AcquirePermit, EnterPool, Refuse, Connect, Using
    <2> QED BY <1>1, <2>1
  <1>8. ASSUME NEW t \in Tasks, ConnectFail(t) \/ Cancel(t)
        PROVE  [Shared!Next]_Shared!vars
    <2>1. UNCHANGED pool /\ Using' = Using
      BY <1>8 DEF ConnectFail, Cancel, Using
    <2> QED BY <1>1, <2>1
  <1>9. ASSUME NEW t \in Tasks, NEW ok \in BOOLEAN, FinishEvict(t, ok)
        PROVE  [Shared!Next]_Shared!vars
    <2>1. UNCHANGED pool /\ Using' = Using
      BY <1>9 DEF FinishEvict, EvictionOver, Using
    <2> QED BY <1>1, <2>1
  <1>10. ASSUME NEW c \in Conns, Sweep(c)
        PROVE  [Shared!Next]_Shared!vars
    <2>1. pool' = {}
      BY <1>10 DEF Sweep, Pop, AtMostOneConnection, TodoPooled
    <2>2. Using' = Using
      BY <1>10 DEF Sweep, Using
    <2> QED BY <1>2, <2>1, <2>2
  <1>11. CASE Wake \/ StartSweep \/ EndSweep \/ StopCleaner
    <2>1. UNCHANGED pool /\ Using' = Using
      BY <1>11 DEF Wake, StartSweep, EndSweep, StopCleaner, Using
    <2> QED BY <1>1, <2>1
  <1>12. ASSUME NEW ok \in BOOLEAN, FinishSweep(ok)
        PROVE  [Shared!Next]_Shared!vars
    <2>1. UNCHANGED pool /\ Using' = Using
      BY <1>12 DEF FinishSweep, EvictionOver, Using
    <2> QED BY <1>1, <2>1
  <1>13. CASE FinishClose
    <2>1. pool' = {} /\ Using' = Using
      BY <1>13 DEF FinishClose, Using
    <2> QED BY <1>2, <2>1
  <1>14. CASE StartClose \/ JoinCleaner \/ StartDrain
    <2>1. UNCHANGED pool /\ Using' = Using
      BY <1>14 DEF StartClose, JoinCleaner, StartDrain, Using
    <2> QED BY <1>1, <2>1
  <1>15. ASSUME NEW c \in Conns, NEW ok \in BOOLEAN, Drain(c, ok)
        PROVE  [Shared!Next]_Shared!vars
    <2>1. UNCHANGED pool /\ Using' = Using
      BY <1>15 DEF Drain, Using
    <2> QED BY <1>1, <2>1
  <1>16. CASE Environment \/ UNCHANGED vars
    <2>1. UNCHANGED pool /\ Using' = Using
      BY <1>16 DEF Environment, CoolDown, Lose, GrowIdle, GrowOld, vars, Using
    <2> QED BY <1>1, <2>1
  <1> QED
    BY <1>3, <1>4, <1>5, <1>6, <1>7, <1>8, <1>9, <1>10, <1>11, <1>12, <1>13, <1>14,
       <1>15, <1>16
    DEF Next, TaskNext, Scan, EndEvict, EndConnect, CleanerNext, EndSweeping,
        CloserNext, EndDraining

\* The pool is one shared connection, whatever its maximal size.
THEOREM Refinement == Spec => RefinesSharedConnection
  <1>1. Init => Shared!Init
    BY ProcessAssumption DEF Init, Shared!Init
  <1>2. IInv /\ IInv' /\ [Next]_vars => [Shared!Next]_Shared!vars
    BY SharedStep
  <1> QED BY Inductive, <1>1, <1>2, PTL DEF Spec, RefinesSharedConnection, Shared!Spec

(***************************************************************************)
(* The pool does to the connection what Manager expects of it              *)
(***************************************************************************)
Connection == IF pool = {} THEN "none" ELSE IF pool \subseteq open THEN "open" ELSE "lost"

Tripped == breaker # "closed"

\* A step that leaves the pooled connection and the breaker's flag alone.
LEMMA StatusStutters ==
  ASSUME UNCHANGED pool, pool \cap open' = pool \cap open, Tripped' = Tripped
  PROVE  [Status!Next]_Status!vars
  <1>1. Connection' = Connection
    BY DEF Connection
  <1> QED BY <1>1 DEF Status!vars, Connection, Tripped

\* A step that empties the pool and leaves the flag alone.
LEMMA StatusEmpties ==
  ASSUME pool' = {}, Tripped' = Tripped
  PROVE  [Status!Next]_Status!vars
  <1>1. Connection' = "none"
    BY DEF Connection
  <1>2. CASE Connection = "open"
    BY <1>1, <1>2 DEF Status!Next, Status!Retire, Connection, Tripped
  <1>3. CASE Connection # "open"
    <2>1. Tripped' \in BOOLEAN
      BY DEF Tripped
    <2> QED BY <1>1, <1>3, <2>1 DEF Status!Next, Status!CannotObtain, Connection, Tripped
  <1> QED BY <1>2, <1>3

LEMMA StatusStep ==
  ASSUME IInv, IInv', [Next]_vars
  PROVE  [Status!Next]_Status!vars
  <1> USE ProcessAssumption DEF IInv, TypeOK
  <1>1. ASSUME NEW t \in Tasks, NEW c \in Conns, ConnectOk(t, c)
        PROVE  [Status!Next]_Status!vars
    <2>1. pool' = {c} /\ c \in open'
      BY <1>1 DEF ConnectOk, EmptyWhileBusy
    <2>2. breaker' = "closed"
      BY <1>1 DEF ConnectOk, RecordSuccess, BreakerInv, ConnectingMeansClosedBreaker
    <2>3. Connection' = "open" /\ Tripped' = FALSE
      BY <2>1, <2>2 DEF Connection, Tripped
    <2> QED BY <2>3 DEF Status!Next, Status!Obtain, Connection, Tripped
  <1>2. ASSUME NEW t \in Tasks, Connect(t) \/ ConnectFail(t)
        PROVE  [Status!Next]_Status!vars
    <2>1. pool = {} /\ pool' = {}
      BY <1>2 DEF Connect, ScanOver, ConnectFail, EmptyWhileBusy
    <2>2. Connection = "none" /\ Connection' = "none" /\ Tripped' \in BOOLEAN
      BY <2>1 DEF Connection, Tripped
    <2> QED BY <2>2 DEF Status!Next, Status!CannotObtain, Connection, Tripped
  <1>3. ASSUME NEW t \in Tasks, NEW c \in Conns, Evict(t, c)
        PROVE  [Status!Next]_Status!vars
    <2>1. pool' = {} /\ Tripped' = Tripped
      BY <1>3 DEF Evict, Pop, AtMostOneConnection, Tripped
    <2> QED BY <2>1, StatusEmpties
  <1>4. ASSUME NEW c \in Conns, Sweep(c)
        PROVE  [Status!Next]_Status!vars
    <2>1. pool' = {} /\ Tripped' = Tripped
      BY <1>4 DEF Sweep, Pop, AtMostOneConnection, TodoPooled, Tripped
    <2> QED BY <2>1, StatusEmpties
  <1>5. CASE FinishClose
    BY <1>5, StatusEmpties DEF FinishClose, Tripped
  <1>6. ASSUME NEW c \in Conns, Lose(c) \/ Drain(c, TRUE)
        PROVE  [Status!Next]_Status!vars
    <2>1. UNCHANGED pool /\ open' = open \ {c} /\ Tripped' = Tripped
      BY <1>6 DEF Lose, Drain, Tripped
    <2>2. CASE c \in pool /\ c \in open
      <3>1. pool = {c}
        BY <2>2 DEF AtMostOneConnection
      <3>2. Connection = "open" /\ Connection' = "lost"
        BY <2>1, <2>2, <3>1 DEF Connection
      <3> QED BY <2>1, <3>2 DEF Status!Next, Status!Lose, Connection, Tripped
    <2>3. CASE ~(c \in pool /\ c \in open)
      <3>1. pool \cap open' = pool \cap open
        BY <2>1, <2>3
      <3> QED BY <2>1, <3>1, StatusStutters
    <2> QED BY <2>2, <2>3
  <1>7. ASSUME NEW t \in Tasks, NEW ok \in BOOLEAN, FinishEvict(t, ok)
        PROVE  [Status!Next]_Status!vars
    <2>1. pool = {} /\ UNCHANGED pool /\ Tripped' = Tripped
      BY <1>7 DEF FinishEvict, EmptyWhileBusy, Tripped
    <2> QED BY <2>1, StatusStutters
  <1>8. ASSUME NEW ok \in BOOLEAN, FinishSweep(ok)
        PROVE  [Status!Next]_Status!vars
    <2>1. pool = {} /\ UNCHANGED pool /\ Tripped' = Tripped
      BY <1>8 DEF FinishSweep, EmptyWhileBusy, Tripped
    <2> QED BY <2>1, StatusStutters
  <1>9. ASSUME NEW t \in Tasks,
               \/ Request(t) \/ AcquirePermit(t) \/ EnterPool(t) \/ Refuse(t) \/ Release(t)
               \/ Cancel(t) \/ \E c \in Conns : Reuse(t, c)
        PROVE  [Status!Next]_Status!vars
    <2>1. UNCHANGED <<pool, open, breaker>>
      BY <1>9 DEF Request, AcquirePermit, EnterPool, Refuse, Release, Cancel, NotClosed, Reuse
    <2> QED BY <2>1, StatusStutters DEF Tripped
  <1>10. CASE \/ Wake \/ StartSweep \/ EndSweep \/ StopCleaner
              \/ StartClose \/ JoinCleaner \/ StartDrain
              \/ (\E c \in Conns : Drain(c, FALSE) \/ GrowIdle(c) \/ GrowOld(c))
    <2>1. UNCHANGED <<pool, open, breaker>>
      BY <1>10 DEF Wake, StartSweep, EndSweep, StopCleaner, NotClosed, StartClose,
                   JoinCleaner, StartDrain, Drain, GrowIdle, GrowOld
    <2> QED BY <2>1, StatusStutters DEF Tripped
  <1>11. CASE CoolDown \/ UNCHANGED vars
    <2>1. UNCHANGED <<pool, open>> /\ Tripped' = Tripped
      BY <1>11 DEF CoolDown, vars, Tripped
    <2> QED BY <2>1, StatusStutters
  <1>12. ASSUME NEW t \in Tasks, TaskNext(t)
         PROVE  [Status!Next]_Status!vars
    BY <1>12, <1>1, <1>2, <1>3, <1>7, <1>9 DEF TaskNext, Scan, EndEvict, EndConnect
  <1>13. CASE CleanerNext
    BY <1>13, <1>4, <1>8, <1>10 DEF CleanerNext, EndSweeping
  <1>14. CASE CloserNext
    <2>1. ASSUME NEW c \in Conns, NEW ok \in BOOLEAN, Drain(c, ok)
          PROVE  [Status!Next]_Status!vars
      <3>1. Drain(c, TRUE) \/ Drain(c, FALSE)
        BY <2>1 DEF Drain
      <3> QED BY <3>1, <1>6, <1>10
    <2>2. CASE StartClose \/ JoinCleaner \/ StartDrain
      BY <2>2, <1>10
    <2> QED BY <1>14, <2>1, <2>2, <1>5 DEF CloserNext, EndDraining
  <1> QED
    BY <1>6, <1>10, <1>11, <1>12, <1>13, <1>14 DEF Next, Environment

\* What Manager assumes of its connection, the pool does: nobody is given a
\* connection that is not open, or past an open breaker.
THEOREM ConnectionImplemented == Spec => ImplementsConnectionState
  <1>1. Init => Status!Init
    BY DEF Init, Status!Init
  <1>2. IInv /\ IInv' /\ [Next]_vars => [Status!Next]_Status!vars
    BY StatusStep
  <1> QED BY Inductive, <1>1, <1>2, PTL DEF Spec, ImplementsConnectionState, Status!Spec
===============================================================================
