-------------------------- MODULE ChannelPool_proofs --------------------------
(***************************************************************************)
(* Proofs about ChannelPool, for all tasks and channels and every pool     *)
(* size, with cancellation and failures of the broker.                     *)
(***************************************************************************)
EXTENDS ChannelPool, FiniteSetTheorems, TLAPS

\* The task that creates a channel found room for it; the lock keeps the room.
RoomWhileCreating == \A t \in Tasks : pc[t] = "create" => ~Full

\* A task at another point than those of Holding has no channel.
HolderHasChannel ==
  \A t \in Tasks : pc[t] \in Holding <=> chan[t] # NoChannel

(***************************************************************************)
(* Exclusive use rests on the reserved mark of every pooled channel that   *)
(* is held: Reserve takes an unmarked channel, hence one nobody holds.     *)
(***************************************************************************)
IInv ==
  /\ TypeOK
  /\ LockOwnership
  /\ HolderHasChannel
  /\ HeldIsReserved
  /\ ExclusiveUse

USE DEF Procs, TaskPC, CleanerPC, CloserPC, Locked, Holding, broker, marks, history, Goto,
        Have

LEMMA InitIInv == Init => IInv
  <1> SUFFICES ASSUME Init PROVE IInv
    OBVIOUS
  <1>1. TypeOK
    <2>1. /\ pool \subseteq Channels /\ todo \subseteq Channels
          /\ open \subseteq Channels /\ down \subseteq Channels /\ open \cap down = {}
          /\ reserved \subseteq pool /\ idle \subseteq pool
          /\ gauge \in Int /\ permits \in Nat /\ lost \in Nat
          /\ drift \in Nat /\ leaked \subseteq Channels
          /\ lock \in Procs \union {Nobody}
      BY SizeAssumption DEF Init
    <2>2. pc \in [Procs -> TaskPC \union CleanerPC \union CloserPC]
      BY DEF Init
    <2>3. /\ \A t \in Tasks : pc[t] \in TaskPC
          /\ pc[Cleaner] \in CleanerPC /\ pc[Closer] \in CloserPC
      BY ProcessAssumption DEF Init
    <2>4. chan \in [Procs -> Channels \union {NoChannel}]
      BY DEF Init
    <2> QED BY <2>1, <2>2, <2>3, <2>4 DEF TypeOK
  <1>2. LockOwnership /\ HolderHasChannel /\ HeldIsReserved /\ ExclusiveUse
    BY ProcessAssumption
    DEF Init, LockOwnership, HolderHasChannel, HeldIsReserved, ExclusiveUse
  <1> QED BY <1>1, <1>2 DEF IInv

\* Every step keeps the variables in their types.
LEMMA TypeStep ==
  ASSUME TypeOK, [Next]_vars
  PROVE  TypeOK'
  <1> USE ProcessAssumption DEF TypeOK
  <1>1. ASSUME NEW t \in Tasks, Request(t) PROVE TypeOK'
    BY <1>1 DEF Request
  <1>2. ASSUME NEW t \in Tasks, AcquirePermit(t) PROVE TypeOK'
    BY <1>2 DEF AcquirePermit, PermitFree
  <1>3. ASSUME NEW t \in Tasks, NEW c \in Channels, Reserve(t, c) PROVE TypeOK'
    BY <1>3 DEF Reserve, Enter, Available
  <1>4. ASSUME NEW t \in Tasks, Refuse(t) PROVE TypeOK'
    BY <1>4 DEF Refuse, Enter
  <1>5. ASSUME NEW t \in Tasks, StartCreate(t) PROVE TypeOK'
    BY <1>5 DEF StartCreate, Enter
  <1>6. ASSUME NEW t \in Tasks, NEW c \in Channels, CreateOk(t, c) PROVE TypeOK'
    BY <1>6 DEF CreateOk, MarkNew, Fresh, Alive
  <1>7. ASSUME NEW t \in Tasks, NEW left \in SUBSET Channels, CreateFail(t, left) PROVE TypeOK'
    BY <1>7 DEF CreateFail, PermitsAfterRaise, LockAfterRaise, Leftovers, Fresh, Alive
  <1>8. ASSUME NEW t \in Tasks, Finish(t) PROVE TypeOK'
    BY <1>8 DEF Finish
  <1>9. ASSUME NEW t \in Tasks, GiveBack(t) PROVE TypeOK'
    BY <1>9 DEF GiveBack
  <1>10. ASSUME NEW t \in Tasks, NEW left \in SUBSET Channels, Cancel(t, left) PROVE TypeOK'
    BY <1>10 DEF Cancel, PermitsAfterCancel, Leftovers, Fresh, Alive
  <1>11. ASSUME NEW c \in Channels, Sweep(c) PROVE TypeOK'
    BY <1>11 DEF Sweep
  <1>12. ASSUME NEW ok \in BOOLEAN, FinishSweep(ok) PROVE TypeOK'
    BY <1>12 DEF FinishSweep, GaugeAfterClose, ClosedBySweep, NotClosed, Alive
  <1>13. ASSUME NEW c \in Channels, NEW ok \in BOOLEAN, Drain(c, ok) PROVE TypeOK'
    BY <1>13 DEF Drain
  <1>14. CASE Wake
    BY <1>14 DEF Wake
  <1>15. CASE StartSweep
    BY <1>15 DEF StartSweep
  <1>16. CASE EndSweep
    BY <1>16 DEF EndSweep
  <1>17. CASE StopCleaner
    BY <1>17 DEF StopCleaner, NotClosed, Alive
  <1>18. CASE StartClose
    BY <1>18 DEF StartClose
  <1>19. CASE StartDrain
    BY <1>19 DEF StartDrain
  <1>20. CASE FinishClose
    BY <1>20 DEF FinishClose
  <1>21. CASE Environment \/ UNCHANGED vars
    BY <1>21 DEF Environment, Lose, Restore, End, Alive, GrowIdle, vars
  <1> QED
    BY <1>1, <1>2, <1>3, <1>4, <1>5, <1>6, <1>7, <1>8, <1>9, <1>10, <1>11,
       <1>12, <1>13, <1>14, <1>15, <1>16, <1>17, <1>18, <1>19, <1>20,
       <1>21
    DEF Next, TaskNext, EnterPool, EndCreate, CleanerNext, Sweeping, CloserNext,
        Draining

\* The lock is taken and given back together with the section it protects.
LEMMA LockStep ==
  ASSUME TypeOK, LockOwnership, [Next]_vars
  PROVE  LockOwnership'
  <1> USE ProcessAssumption DEF TypeOK, LockOwnership
  <1>1. ASSUME NEW t \in Tasks, Request(t) PROVE LockOwnership'
    BY <1>1 DEF Request
  <1>2. ASSUME NEW t \in Tasks, AcquirePermit(t) PROVE LockOwnership'
    BY <1>2 DEF AcquirePermit
  <1>3. ASSUME NEW t \in Tasks, NEW c \in Channels, Reserve(t, c) PROVE LockOwnership'
    BY <1>3 DEF Reserve, Enter
  <1>4. ASSUME NEW t \in Tasks, Refuse(t) PROVE LockOwnership'
    BY <1>4 DEF Refuse, Enter
  <1>5. ASSUME NEW t \in Tasks, StartCreate(t) PROVE LockOwnership'
    BY <1>5 DEF StartCreate, Enter
  <1>6. ASSUME NEW t \in Tasks, NEW c \in Channels, CreateOk(t, c) PROVE LockOwnership'
    BY <1>6 DEF CreateOk
  <1>7. ASSUME NEW t \in Tasks, NEW left \in SUBSET Channels, CreateFail(t, left) PROVE LockOwnership'
    BY <1>7 DEF CreateFail, LockAfterRaise
  <1>8. ASSUME NEW t \in Tasks, Finish(t) PROVE LockOwnership'
    BY <1>8 DEF Finish
  <1>9. ASSUME NEW t \in Tasks, GiveBack(t) PROVE LockOwnership'
    BY <1>9 DEF GiveBack
  <1>10. ASSUME NEW t \in Tasks, NEW left \in SUBSET Channels, Cancel(t, left) PROVE LockOwnership'
    BY <1>10 DEF Cancel
  <1>11. ASSUME NEW c \in Channels, Sweep(c) PROVE LockOwnership'
    BY <1>11 DEF Sweep
  <1>12. ASSUME NEW ok \in BOOLEAN, FinishSweep(ok) PROVE LockOwnership'
    BY <1>12 DEF FinishSweep
  <1>13. ASSUME NEW c \in Channels, NEW ok \in BOOLEAN, Drain(c, ok) PROVE LockOwnership'
    BY <1>13 DEF Drain
  <1>14. CASE Wake
    BY <1>14 DEF Wake
  <1>15. CASE StartSweep
    BY <1>15 DEF StartSweep
  <1>16. CASE EndSweep
    BY <1>16 DEF EndSweep
  <1>17. CASE StopCleaner
    BY <1>17 DEF StopCleaner
  <1>18. CASE StartClose
    BY <1>18 DEF StartClose
  <1>19. CASE StartDrain
    BY <1>19 DEF StartDrain
  <1>20. CASE FinishClose
    BY <1>20 DEF FinishClose
  <1>21. CASE Environment \/ UNCHANGED vars
    BY <1>21 DEF Environment, Lose, Restore, End, Alive, GrowIdle, vars
  <1> QED
    BY <1>1, <1>2, <1>3, <1>4, <1>5, <1>6, <1>7, <1>8, <1>9, <1>10, <1>11,
       <1>12, <1>13, <1>14, <1>15, <1>16, <1>17, <1>18, <1>19, <1>20,
       <1>21
    DEF Next, TaskNext, EnterPool, EndCreate, CleanerNext, Sweeping, CloserNext,
        Draining

\* A channel is handed out only if nobody holds it.
LEMMA UseStep ==
  ASSUME IInv, [Next]_vars
  PROVE  HolderHasChannel' /\ HeldIsReserved' /\ ExclusiveUse'
  <1> USE ProcessAssumption
      DEF IInv, TypeOK, HolderHasChannel, HeldIsReserved, ExclusiveUse
  <1>1. ASSUME NEW t \in Tasks, Request(t) PROVE HolderHasChannel' /\ HeldIsReserved' /\ ExclusiveUse'
    BY <1>1 DEF Request
  <1>2. ASSUME NEW t \in Tasks, AcquirePermit(t) PROVE HolderHasChannel' /\ HeldIsReserved' /\ ExclusiveUse'
    BY <1>2 DEF AcquirePermit
  <1>3. ASSUME NEW t \in Tasks, NEW c \in Channels, Reserve(t, c) PROVE HolderHasChannel' /\ HeldIsReserved' /\ ExclusiveUse'
    BY <1>3 DEF Reserve, Enter, Available, Healthy
  <1>4. ASSUME NEW t \in Tasks, Refuse(t) PROVE HolderHasChannel' /\ HeldIsReserved' /\ ExclusiveUse'
    BY <1>4 DEF Refuse, Enter
  <1>5. ASSUME NEW t \in Tasks, StartCreate(t) PROVE HolderHasChannel' /\ HeldIsReserved' /\ ExclusiveUse'
    BY <1>5 DEF StartCreate, Enter
  <1>6. ASSUME NEW t \in Tasks, NEW c \in Channels, CreateOk(t, c) PROVE HolderHasChannel' /\ HeldIsReserved' /\ ExclusiveUse'
    BY <1>6 DEF CreateOk, MarkNew, Fresh, Alive
  <1>7. ASSUME NEW t \in Tasks, NEW left \in SUBSET Channels, CreateFail(t, left) PROVE HolderHasChannel' /\ HeldIsReserved' /\ ExclusiveUse'
    BY <1>7 DEF CreateFail
  <1>8. ASSUME NEW t \in Tasks, Finish(t) PROVE HolderHasChannel' /\ HeldIsReserved' /\ ExclusiveUse'
    BY <1>8 DEF Finish
  <1>9. ASSUME NEW t \in Tasks, GiveBack(t) PROVE HolderHasChannel' /\ HeldIsReserved' /\ ExclusiveUse'
    BY <1>9 DEF GiveBack
  <1>10. ASSUME NEW t \in Tasks, NEW left \in SUBSET Channels, Cancel(t, left) PROVE HolderHasChannel' /\ HeldIsReserved' /\ ExclusiveUse'
    BY <1>10 DEF Cancel
  <1>11. ASSUME NEW c \in Channels, Sweep(c) PROVE HolderHasChannel' /\ HeldIsReserved' /\ ExclusiveUse'
    BY <1>11 DEF Sweep
  <1>12. ASSUME NEW ok \in BOOLEAN, FinishSweep(ok) PROVE HolderHasChannel' /\ HeldIsReserved' /\ ExclusiveUse'
    BY <1>12 DEF FinishSweep
  <1>13. ASSUME NEW c \in Channels, NEW ok \in BOOLEAN, Drain(c, ok) PROVE HolderHasChannel' /\ HeldIsReserved' /\ ExclusiveUse'
    BY <1>13 DEF Drain
  <1>14. CASE Wake
    BY <1>14 DEF Wake
  <1>15. CASE StartSweep
    BY <1>15 DEF StartSweep
  <1>16. CASE EndSweep
    BY <1>16 DEF EndSweep
  <1>17. CASE StopCleaner
    BY <1>17 DEF StopCleaner
  <1>18. CASE StartClose
    BY <1>18 DEF StartClose
  <1>19. CASE StartDrain
    BY <1>19 DEF StartDrain
  <1>20. CASE FinishClose
    BY <1>20 DEF FinishClose
  <1>21. CASE Environment \/ UNCHANGED vars
    BY <1>21 DEF Environment, Lose, Restore, End, Alive, GrowIdle, vars
  <1> QED
    BY <1>1, <1>2, <1>3, <1>4, <1>5, <1>6, <1>7, <1>8, <1>9, <1>10, <1>11,
       <1>12, <1>13, <1>14, <1>15, <1>16, <1>17, <1>18, <1>19, <1>20,
       <1>21
    DEF Next, TaskNext, EnterPool, EndCreate, CleanerNext, Sweeping, CloserNext,
        Draining

THEOREM Inductive == Spec => []IInv
  <1>1. IInv /\ [Next]_vars => IInv'
    BY TypeStep, LockStep, UseStep DEF IInv
  <1> QED BY InitIInv, <1>1, PTL DEF Spec

\* Type correctness of the pool, its lock, its semaphore and its metric.
THEOREM TypeCorrect == Spec => []TypeOK
  <1>1. IInv => TypeOK
    BY DEF IInv
  <1> QED BY Inductive, <1>1, PTL

\* No two tasks ever hold the same channel.
THEOREM Exclusive == Spec => []ExclusiveUse
  <1>1. IInv => ExclusiveUse
    BY DEF IInv
  <1> QED BY Inductive, <1>1, PTL

\* The reserved mark of a channel in use survives everything but its removal.
THEOREM MarksKept == Spec => []HeldIsReserved
  <1>1. IInv => HeldIsReserved
    BY DEF IInv
  <1> QED BY Inductive, <1>1, PTL

(***************************************************************************)
(* The bounds of the semaphore and of the pool                             *)
(***************************************************************************)
LEMMA PermitStep ==
  ASSUME TypeOK, PermitAccounting, [Next]_vars
  PROVE  PermitAccounting'
  <1> USE DEF TypeOK, PermitAccounting
  <1>1. IsFiniteSet(Inside) /\ Cardinality(Inside) \in Nat
    BY SizeAssumption, FS_Subset, FS_CardinalityType DEF Inside
  <1>2. ASSUME permits' = permits, lost' = lost, Inside' = Inside
        PROVE  PermitAccounting'
    BY <1>2
  <1>3. ASSUME NEW t \in Tasks, AcquirePermit(t) PROVE PermitAccounting'
    <2>1. t \notin Inside /\ Inside' = Inside \union {t}
      BY <1>3, ProcessAssumption DEF AcquirePermit, Inside
    <2>2. Cardinality(Inside') = Cardinality(Inside) + 1
      BY <1>1, <2>1, FS_AddElement
    <2> QED BY <1>1, <1>3, <2>2, SizeAssumption DEF AcquirePermit, PermitFree
  <1>4. ASSUME NEW t \in Inside, Inside' = Inside \ {t},
               NEW free \in Nat, NEW kept \in Nat, permits' = free, lost' = kept,
               free + kept = permits + lost + 1
        PROVE  PermitAccounting'
    <2>1. Cardinality(Inside') = Cardinality(Inside) - 1
      BY <1>1, <1>4, FS_RemoveElement
    <2> QED BY <1>1, <1>4, <2>1, SizeAssumption
  <1>5. ASSUME NEW t \in Tasks, Refuse(t) \/ GiveBack(t) PROVE PermitAccounting'
    <2>1. t \in Inside /\ Inside' = Inside \ {t} /\ permits' = permits + 1 /\ lost' = lost
      BY <1>5, ProcessAssumption DEF Refuse, Enter, GiveBack, Inside
    <2> QED BY <1>4, <2>1
  <1>6. ASSUME NEW t \in Tasks, NEW left \in SUBSET Channels, CreateFail(t, left)
        PROVE  PermitAccounting'
    <2>1. t \in Inside /\ Inside' = Inside \ {t} /\ permits' = permits + 1 /\ lost' = lost
      BY <1>6, ProcessAssumption DEF CreateFail, PermitsAfterRaise, Inside
    <2> QED BY <1>4, <2>1
  <1>7. ASSUME NEW t \in Tasks, NEW left \in SUBSET Channels, Cancel(t, left)
        PROVE  PermitAccounting'
    <2>1. CASE pc[t] = "permit"
      <3>1. permits' = permits /\ lost' = lost /\ Inside' = Inside
        BY <1>7, <2>1, ProcessAssumption DEF Cancel, PermitsAfterCancel, Inside
      <3> QED BY <1>2, <3>1
    <2>2. CASE pc[t] # "permit"
      <3>1. t \in Inside /\ Inside' = Inside \ {t}
        BY <1>7, <2>2, ProcessAssumption DEF Cancel, Inside
      <3>2. /\ permits' \in Nat /\ lost' \in Nat
            /\ permits' + lost' = permits + lost + 1
        BY <1>7, <2>2 DEF Cancel, PermitsAfterCancel
      <3> QED BY <1>4, <3>1, <3>2
    <2> QED BY <2>1, <2>2
  <1>8. ASSUME NEW t \in Tasks, Request(t) \/ StartCreate(t) \/ Finish(t)
        PROVE  PermitAccounting'
    <2>1. permits' = permits /\ lost' = lost /\ Inside' = Inside
      BY <1>8, ProcessAssumption DEF Request, StartCreate, Enter, Finish, Inside
    <2> QED BY <1>2, <2>1
  <1>9. ASSUME NEW t \in Tasks, NEW c \in Channels, Reserve(t, c) \/ CreateOk(t, c)
        PROVE  PermitAccounting'
    <2>1. permits' = permits /\ lost' = lost /\ Inside' = Inside
      BY <1>9, ProcessAssumption DEF Reserve, Enter, CreateOk, Inside
    <2> QED BY <1>2, <2>1
  <1>10. CASE CleanerNext
    <2>1. permits' = permits /\ lost' = lost /\ Inside' = Inside
      BY <1>10, ProcessAssumption
      DEF CleanerNext, Wake, StartSweep, Sweeping, EndSweep, Sweep, FinishSweep,
          StopCleaner, Inside
    <2> QED BY <1>2, <2>1
  <1>11. CASE CloserNext
    <2>1. permits' = permits /\ lost' = lost /\ Inside' = Inside
      BY <1>11, ProcessAssumption
      DEF CloserNext, StartClose, StartDrain, Draining, Drain, FinishClose, Inside
    <2> QED BY <1>2, <2>1
  <1>12. CASE Environment \/ UNCHANGED vars
    <2>1. permits' = permits /\ lost' = lost /\ Inside' = Inside
      BY <1>12 DEF Environment, Lose, Restore, End, Alive, GrowIdle, vars, Inside
    <2> QED BY <1>2, <2>1
  <1> QED
    BY <1>3, <1>5, <1>6, <1>7, <1>8, <1>9, <1>10, <1>11, <1>12
    DEF Next, TaskNext, EnterPool, EndCreate

\* No permit of the semaphore is lost or given back twice, except those that a
\* cancellation in the finally clause of get_channel() costs.
THEOREM PermitsAccounted == Spec => []PermitAccounting
  <1>1. Init => PermitAccounting
    <2> SUFFICES ASSUME Init PROVE PermitAccounting
      OBVIOUS
    <2>1. Inside = {}
      BY DEF Init, Inside
    <2> QED BY <2>1, FS_EmptySet, SizeAssumption DEF Init, PermitAccounting
  <1>2. TypeOK /\ PermitAccounting /\ [Next]_vars => PermitAccounting'
    BY PermitStep
  <1> QED BY <1>1, <1>2, TypeCorrect, PTL DEF Spec

\* The pool grows only where its owner found room and kept the lock since.
LEMMA BoundStep ==
  ASSUME IInv, RoomWhileCreating, PoolBounded, [Next]_vars
  PROVE  RoomWhileCreating' /\ PoolBounded'
  <1> USE ProcessAssumption DEF IInv, TypeOK, LockOwnership, RoomWhileCreating,
                                PoolBounded, Full
  <1>1. /\ IsFiniteSet(pool) /\ Cardinality(pool) \in Nat
        /\ \A S \in SUBSET pool : Cardinality(S) \in Nat /\ Cardinality(S) <= Cardinality(pool)
    BY SizeAssumption, FS_Subset, FS_CardinalityType
  <1>2. ASSUME NEW t \in Tasks, NEW c \in Channels, CreateOk(t, c)
        PROVE  RoomWhileCreating' /\ PoolBounded'
    <2>1. Cardinality(pool') = Cardinality(pool) + 1
      BY <1>1, <1>2, FS_AddElement DEF CreateOk, Fresh
    <2>2. PoolBounded'
      BY <1>1, <1>2, <2>1, SizeAssumption DEF CreateOk
    <2>3. \A u \in Tasks : pc'[u] # "create"
      BY <1>2 DEF CreateOk
    <2> QED BY <2>2, <2>3
  <1>3. ASSUME pool' \subseteq pool, \A t \in Tasks : pc'[t] = "create" => pc[t] = "create"
        PROVE  RoomWhileCreating' /\ PoolBounded'
    <2>1. Cardinality(pool') \in Nat /\ Cardinality(pool') <= Cardinality(pool)
      BY <1>1, <1>3
    <2> QED BY <1>1, <1>3, <2>1, SizeAssumption
  <1>4. ASSUME NEW t \in Tasks, StartCreate(t)
        PROVE  RoomWhileCreating' /\ PoolBounded'
    BY <1>4 DEF StartCreate, Enter
  <1>5. ASSUME NEW t \in Tasks,
               Request(t) \/ AcquirePermit(t) \/ Refuse(t) \/ Finish(t) \/ GiveBack(t)
        PROVE  RoomWhileCreating' /\ PoolBounded'
    <2>1. pool' = pool /\ \A u \in Tasks : pc'[u] = "create" => pc[u] = "create"
      BY <1>5 DEF Request, AcquirePermit, Refuse, Enter, Finish, GiveBack
    <2> QED BY <1>3, <2>1
  <1>6. ASSUME NEW t \in Tasks, NEW c \in Channels, Reserve(t, c)
        PROVE  RoomWhileCreating' /\ PoolBounded'
    <2>1. pool' = pool /\ \A u \in Tasks : pc'[u] = "create" => pc[u] = "create"
      BY <1>6 DEF Reserve, Enter
    <2> QED BY <1>3, <2>1
  <1>7. ASSUME NEW t \in Tasks, NEW left \in SUBSET Channels,
               CreateFail(t, left) \/ Cancel(t, left)
        PROVE  RoomWhileCreating' /\ PoolBounded'
    <2>1. pool' = pool /\ \A u \in Tasks : pc'[u] = "create" => pc[u] = "create"
      BY <1>7 DEF CreateFail, Cancel
    <2> QED BY <1>3, <2>1
  <1>8. CASE CleanerNext
    <2>1. pool' \subseteq pool /\ \A u \in Tasks : pc'[u] = "create" => pc[u] = "create"
      BY <1>8
      DEF CleanerNext, Wake, StartSweep, Sweeping, EndSweep, Sweep, FinishSweep,
          StopCleaner
    <2> QED BY <1>3, <2>1
  <1>9. CASE CloserNext
    <2>1. pool' \subseteq pool /\ \A u \in Tasks : pc'[u] = "create" => pc[u] = "create"
      BY <1>9 DEF CloserNext, StartClose, StartDrain, Draining, Drain, FinishClose
    <2> QED BY <1>3, <2>1
  <1>10. CASE Environment \/ UNCHANGED vars
    <2>1. pool' = pool /\ \A u \in Tasks : pc'[u] = "create" => pc[u] = "create"
      BY <1>10 DEF Environment, Lose, Restore, End, Alive, GrowIdle, vars
    <2> QED BY <1>3, <2>1
  <1> QED
    BY <1>2, <1>4, <1>5, <1>6, <1>7, <1>8, <1>9, <1>10
    DEF Next, TaskNext, EnterPool, EndCreate

\* The pool never outgrows max_channel_pool_size.
THEOREM PoolNeverOutgrows == Spec => []PoolBounded
  <1>1. Init => RoomWhileCreating /\ PoolBounded
    BY SizeAssumption, FS_EmptySet DEF Init, RoomWhileCreating, PoolBounded
  <1>2. IInv /\ RoomWhileCreating /\ PoolBounded /\ [Next]_vars
          => RoomWhileCreating' /\ PoolBounded'
    BY BoundStep
  <1> QED BY Inductive, <1>1, <1>2, PTL DEF Spec

\* If tasks held all channels of a full pool, they would hold all permits.
LEMMA FullPoolHasLeftover ==
  ASSUME TypeOK, PermitAccounting
  PROVE  RefusedOnlyByLeftover
  <1> USE DEF TypeOK
  <1> SUFFICES ASSUME NEW t \in Tasks, pc[t] = "lock", Full,
                      \A c \in pool : \E u \in Tasks : pc[u] \in Holding /\ chan[u] = c
               PROVE  FALSE
    BY DEF RefusedOnlyByLeftover
  <1> DEFINE others == Inside \ {t}
             holder == [c \in pool |-> CHOOSE u \in Tasks : pc[u] \in Holding /\ chan[u] = c]
  <1>1. IsFiniteSet(Inside) /\ Cardinality(Inside) \in Nat
    BY SizeAssumption, FS_Subset, FS_CardinalityType DEF Inside
  <1>2. IsFiniteSet(others) /\ Cardinality(others) = Cardinality(Inside) - 1
    <2>1. t \in Inside
      BY DEF Inside
    <2> QED BY <1>1, <2>1, FS_RemoveElement
  <1>3. \A c \in pool : holder[c] \in others /\ chan[holder[c]] = c
    BY ProcessAssumption DEF Inside
  <1>4. holder \in [pool -> others]
    BY <1>3
  <1>5. \A c, d \in pool : holder[c] = holder[d] => c = d
    BY <1>3
  <1>6. holder \in Injection(pool, others)
    <2> HIDE DEF holder, others
    <2> QED BY <1>4, <1>5 DEF Injection, IsInjective
  <1>7. IsFiniteSet(pool) /\ Cardinality(pool) \in Nat
    BY SizeAssumption, FS_Subset, FS_CardinalityType
  <1>8. Cardinality(pool) <= Cardinality(others)
    <2> HIDE DEF holder, others
    <2> QED BY <1>2, <1>6, FS_Injection
  <1> QED
    BY <1>1, <1>2, <1>7, <1>8, SizeAssumption DEF Full, PermitAccounting

\* A task is never refused because other tasks use all channels.
THEOREM RefusalHasLeftover == Spec => []RefusedOnlyByLeftover
  <1>1. TypeOK /\ PermitAccounting => RefusedOnlyByLeftover
    BY FullPoolHasLeftover
  <1> QED BY TypeCorrect, PermitsAccounted, <1>1, PTL

(***************************************************************************)
(* The metric of active channels                                           *)
(***************************************************************************)
\* The channels the cleanup task still has to remove are in the pool.
TodoPooled == pc[Cleaner] \in {"sweep", "evict"} => todo \subseteq pool

Closing == IF pc[Cleaner] = "evict" THEN 1 ELSE 0

GaugeInv ==
  /\ TodoPooled
  /\ gauge = Cardinality(pool) + Closing + drift

LEMMA GaugeStep ==
  ASSUME IInv, GaugeInv, [Next]_vars
  PROVE  GaugeInv'
  <1> USE ProcessAssumption DEF IInv, TypeOK, LockOwnership, GaugeInv, TodoPooled
  <1>1. IsFiniteSet(pool) /\ Cardinality(pool) \in Nat
    BY SizeAssumption, FS_Subset, FS_CardinalityType
  <1>2. ASSUME UNCHANGED <<gauge, drift, pool>>, TodoPooled',
               pc[Cleaner] = "evict" <=> pc'[Cleaner] = "evict"
        PROVE  GaugeInv'
    BY <1>2 DEF Closing
  <1>3. ASSUME NEW t \in Tasks, NEW c \in Channels, CreateOk(t, c) PROVE GaugeInv'
    <2>1. Cardinality(pool') = Cardinality(pool) + 1
      BY <1>1, <1>3, FS_AddElement DEF CreateOk, Fresh
    <2>2. TodoPooled' /\ Closing' = Closing /\ gauge' = gauge + 1 /\ drift' = drift
      BY <1>3 DEF CreateOk, Closing
    <2> QED BY <1>1, <2>1, <2>2 DEF Closing
  <1>4. ASSUME NEW c \in Channels, Sweep(c) PROVE GaugeInv'
    <2>1. Cardinality(pool') = Cardinality(pool) - 1
      BY <1>1, <1>4, FS_RemoveElement DEF Sweep
    <2>2. TodoPooled' /\ Closing = 0 /\ Closing' = 1 /\ UNCHANGED <<gauge, drift>>
      BY <1>4 DEF Sweep, Closing
    <2> QED BY <1>1, <2>1, <2>2
  <1>5. ASSUME NEW ok \in BOOLEAN, FinishSweep(ok) PROVE GaugeInv'
    <2>1. TodoPooled' /\ Closing = 1 /\ Closing' = 0 /\ UNCHANGED pool
      BY <1>5 DEF FinishSweep, Closing
    <2>2. CASE ok
      BY <1>1, <1>5, <2>1, <2>2 DEF FinishSweep, GaugeAfterClose
    <2>3. CASE ~ok
      BY <1>1, <1>5, <2>1, <2>3 DEF FinishSweep, GaugeAfterClose, NotClosed
    <2> QED BY <2>2, <2>3
  <1>6. CASE StopCleaner
    <2>1. CASE pc[Cleaner] = "evict"
      <3>1. TodoPooled' /\ Closing = 1 /\ Closing' = 0
        BY <1>6, <2>1 DEF StopCleaner, Closing
      <3>2. drift' = drift + 1 /\ UNCHANGED <<pool, gauge>>
        BY <1>6, <2>1 DEF StopCleaner, NotClosed
      <3> QED BY <1>1, <3>1, <3>2
    <2>2. CASE pc[Cleaner] # "evict"
      BY <1>2, <1>6, <2>2 DEF StopCleaner
    <2> QED BY <2>1, <2>2
  <1>7. CASE FinishClose
    <2>1. pc'[Cleaner] # "evict" /\ TodoPooled'
      BY <1>7 DEF FinishClose
    <2> QED BY <1>7, <2>1, FS_EmptySet DEF FinishClose, Closing
  <1>8. ASSUME NEW t \in Tasks,
               Request(t) \/ AcquirePermit(t) \/ Refuse(t) \/ StartCreate(t)
        PROVE  GaugeInv'
    BY <1>2, <1>8 DEF Request, AcquirePermit, Refuse, StartCreate, Enter
  <1>9. ASSUME NEW t \in Tasks, Finish(t) \/ GiveBack(t) PROVE GaugeInv'
    BY <1>2, <1>9 DEF Finish, GiveBack
  <1>10. ASSUME NEW t \in Tasks, NEW c \in Channels, Reserve(t, c) PROVE GaugeInv'
    BY <1>2, <1>10 DEF Reserve, Enter
  <1>11. ASSUME NEW t \in Tasks, NEW left \in SUBSET Channels,
                CreateFail(t, left) \/ Cancel(t, left)
         PROVE  GaugeInv'
    BY <1>2, <1>11 DEF CreateFail, Cancel
  <1>12. CASE Wake \/ StartSweep \/ EndSweep
    BY <1>2, <1>12 DEF Wake, StartSweep, EndSweep
  <1>13. ASSUME NEW c \in Channels, NEW ok \in BOOLEAN, Drain(c, ok) PROVE GaugeInv'
    BY <1>2, <1>13 DEF Drain
  <1>14. CASE StartClose \/ StartDrain
    BY <1>2, <1>14 DEF StartClose, StartDrain
  <1>15. CASE Environment \/ UNCHANGED vars
    BY <1>2, <1>15 DEF Environment, Lose, Restore, End, Alive, GrowIdle, vars
  <1> QED
    BY <1>3, <1>4, <1>5, <1>6, <1>7, <1>8, <1>9, <1>10, <1>11, <1>12, <1>13,
       <1>14, <1>15
    DEF Next, TaskNext, EnterPool, EndCreate, CleanerNext, Sweeping, CloserNext,
        Draining

\* The metric is exact up to the sweeps that did not end with a close().
THEOREM GaugeAccounted == Spec => []GaugeExact
  <1>1. Init => GaugeInv
    BY ProcessAssumption, FS_EmptySet DEF Init, GaugeInv, TodoPooled, Closing
  <1>2. IInv /\ GaugeInv /\ [Next]_vars => GaugeInv'
    BY GaugeStep
  <1>3. IInv /\ GaugeInv => GaugeExact
    <2> SUFFICES ASSUME IInv, GaugeInv PROVE GaugeExact
      OBVIOUS
    <2>1. Cardinality(Evicting) = Closing
      BY FS_EmptySet, FS_Singleton DEF Evicting, Closing
    <2> QED BY <2>1 DEF GaugeInv, GaugeExact
  <1> QED BY Inductive, <1>1, <1>2, <1>3, PTL DEF Spec

(***************************************************************************)
(* Channels nobody knows of.  As in ConnectionPool, what close() passed    *)
(* over before it empties the pool was recorded.                           *)
(***************************************************************************)
Passed == pc[Closer] = "drain" => pool \cap Alive \subseteq todo \union leaked

OrphanInv == NoOrphan /\ Passed

LEMMA OrphanStep ==
  ASSUME IInv, OrphanInv, [Next]_vars
  PROVE  OrphanInv'
  <1> USE ProcessAssumption DEF IInv, TypeOK, LockOwnership, OrphanInv, NoOrphan, Passed,
                                Evicting, Alive
  <1>1. ASSUME NEW t \in Tasks, NEW c \in Channels, CreateOk(t, c) PROVE OrphanInv'
    BY <1>1 DEF CreateOk
  <1>2. ASSUME NEW t \in Tasks, NEW left \in SUBSET Channels, CreateFail(t, left)
        PROVE  OrphanInv'
    BY <1>2 DEF CreateFail, LockAfterRaise
  <1>3. ASSUME NEW t \in Tasks, NEW left \in SUBSET Channels, Cancel(t, left)
        PROVE  OrphanInv'
    BY <1>3 DEF Cancel
  <1>4. ASSUME NEW t \in Tasks,
               Request(t) \/ AcquirePermit(t) \/ Refuse(t) \/ StartCreate(t)
        PROVE  OrphanInv'
    BY <1>4 DEF Request, AcquirePermit, Refuse, StartCreate, Enter
  <1>5. ASSUME NEW t \in Tasks, Finish(t) \/ GiveBack(t) PROVE OrphanInv'
    BY <1>5 DEF Finish, GiveBack
  <1>6. ASSUME NEW t \in Tasks, NEW c \in Channels, Reserve(t, c) PROVE OrphanInv'
    BY <1>6 DEF Reserve, Enter
  <1>7. ASSUME NEW c \in Channels, Sweep(c) PROVE OrphanInv'
    BY <1>7 DEF Sweep
  <1>8. ASSUME NEW ok \in BOOLEAN, FinishSweep(ok) PROVE OrphanInv'
    BY <1>8 DEF FinishSweep, ClosedBySweep, NotClosed
  <1>9. CASE StopCleaner
    BY <1>9 DEF StopCleaner, NotClosed
  <1>10. CASE Wake \/ StartSweep \/ EndSweep
    BY <1>10 DEF Wake, StartSweep, EndSweep
  <1>11. CASE StartClose \/ StartDrain
    BY <1>11 DEF StartClose, StartDrain
  <1>12. ASSUME NEW c \in Channels, NEW ok \in BOOLEAN, Drain(c, ok) PROVE OrphanInv'
    BY <1>12 DEF Drain
  <1>13. CASE FinishClose
    BY <1>13 DEF FinishClose
  <1>14. CASE Environment \/ UNCHANGED vars
    BY <1>14 DEF Environment, Lose, Restore, End, Alive, GrowIdle, vars
  <1> QED
    BY <1>1, <1>2, <1>3, <1>4, <1>5, <1>6, <1>7, <1>8, <1>9, <1>10, <1>11,
       <1>12, <1>13, <1>14
    DEF Next, TaskNext, EnterPool, EndCreate, CleanerNext, Sweeping, CloserNext,
        Draining

\* No channel is forgotten, except by a set_qos() or a close() that failed or was
\* cancelled.
THEOREM NothingForgotten == Spec => []NoOrphan
  <1>1. Init => OrphanInv
    BY ProcessAssumption DEF Init, OrphanInv, NoOrphan, Alive, Passed
  <1>2. IInv /\ OrphanInv /\ [Next]_vars => OrphanInv'
    BY OrphanStep
  <1>3. OrphanInv => NoOrphan
    BY DEF OrphanInv
  <1> QED BY Inductive, <1>1, <1>2, <1>3, PTL DEF Spec
(***************************************************************************)
(* The pool implements a lending of channels                               *)
(***************************************************************************)
\* A task that is about to receive a channel has a permit, and no channel yet.
LEMMA RoomToLend ==
  ASSUME IInv, PermitAccounting, NEW t \in Inside, chan[t] = NoChannel
  PROVE  Cardinality(Lending!Borrowers) + lost < MaxChannelPoolSize
  <1> USE ProcessAssumption DEF IInv, TypeOK
  <1> DEFINE others == Inside \ {t}
  <1>1. IsFiniteSet(Inside) /\ Cardinality(Inside) \in Nat
    BY SizeAssumption, FS_Subset, FS_CardinalityType DEF Inside
  <1>2. IsFiniteSet(others) /\ Cardinality(others) = Cardinality(Inside) - 1
    BY <1>1, FS_RemoveElement
  <1>3. Lending!Borrowers \subseteq others
    BY DEF Lending!Borrowers, HolderHasChannel, Inside
  <1>4. /\ Cardinality(Lending!Borrowers) \in Nat
        /\ Cardinality(Lending!Borrowers) <= Cardinality(others)
    <2> HIDE DEF others
    <2> QED BY <1>2, <1>3, FS_Subset, FS_CardinalityType
  <1> QED BY <1>1, <1>2, <1>4, SizeAssumption DEF PermitAccounting

\* Handing out a channel nobody has, open or just opened, is a Lend step.
LEMMA LendStep ==
  ASSUME IInv, PermitAccounting, NEW t \in Inside, NEW c \in Channels,
         chan[t] = NoChannel, chan' = [chan EXCEPT ![t] = c],
         \A u \in Tasks : chan[u] # c,
         \/ c \notin open /\ open' = open \union {c}
         \/ c \in open /\ open' = open,
         lost' = lost
  PROVE  Lending!Next
  <1> USE ProcessAssumption DEF IInv, TypeOK
  <1>1. t \in Tasks
    BY DEF Inside
  <1>2. Lending!Cardinality(Lending!Borrowers) + lost < MaxChannelPoolSize
    <2>1. Lending!Cardinality(Lending!Borrowers) = Cardinality(Lending!Borrowers)
      BY DEF Lending!Cardinality, Cardinality
    <2> QED BY <2>1, RoomToLend
  <1>3. t \notin Lending!Borrowers /\ ~Lending!Lent(c)
    BY <1>1 DEF Lending!Borrowers, Lending!Lent
  <1>4. Lending!Open(c) \/ (c \in open /\ UNCHANGED open)
    BY <1>3 DEF Lending!Open
  <1>5. [u \in Tasks |-> chan[u]]' = [[u \in Tasks |-> chan[u]] EXCEPT ![t] = c]
    BY <1>1
  <1>6. Lending!Lend(t, c)
    BY <1>2, <1>3, <1>4, <1>5 DEF Lending!Lend
  <1> QED BY <1>1, <1>6 DEF Lending!Next

\* Taking the channel of a task back is a Return step.
LEMMA ReturnStep ==
  ASSUME IInv, NEW t \in Tasks, chan[t] # NoChannel,
         chan' = [chan EXCEPT ![t] = NoChannel],
         lost' \in {lost, lost + 1}, open' = open
  PROVE  Lending!Next
  <1>1. [u \in Tasks |-> chan[u]]' = [[u \in Tasks |-> chan[u]] EXCEPT ![t] = NoChannel]
    BY DEF IInv, TypeOK
  <1>2. Lending!Return(t)
    BY <1>1 DEF Lending!Return, Lending!Borrowers
  <1> QED BY <1>2 DEF Lending!Next

\* What is closed, lost or left open for nobody is a Change step.
LEMMA ChangeStep ==
  ASSUME IInv, \A u \in Tasks : chan'[u] = chan[u], lost' = lost,
         \/ open' \subseteq open
         \/ \E c \in Channels : c \notin open /\ open' = open \union {c}
  PROVE  Lending!Next
  <1>1. UNCHANGED <<[u \in Tasks |-> chan[u]], lost>>
    OBVIOUS
  <1>2. ASSUME NEW c \in Channels, c \notin open, open' = open \union {c} PROVE Lending!Open(c)
    BY <1>2 DEF Lending!Open
  <1>3. Lending!Change
    BY <1>1, <1>2 DEF Lending!Change
  <1> QED BY <1>3 DEF Lending!Next

LEMMA LendingStep ==
  ASSUME IInv, PermitAccounting, [Next]_vars
  PROVE  [Lending!Next]_Lending!vars
  <1> DEFINE Kept == [Lending!Next]_Lending!vars
  <1> USE ProcessAssumption DEF IInv, TypeOK, HolderHasChannel
  <1>1. ASSUME UNCHANGED <<chan, open, lost>> PROVE Kept
    BY <1>1 DEF Lending!vars
  <1>2. ASSUME NEW t \in Tasks, Request(t) \/ AcquirePermit(t) \/ Refuse(t)
                                \/ StartCreate(t) \/ Finish(t)
        PROVE  Kept
    BY <1>1, <1>2 DEF Request, AcquirePermit, Refuse, StartCreate, Enter, Finish
  <1>3. ASSUME NEW t \in Tasks, NEW c \in Channels, Reserve(t, c) PROVE Kept
    <2>1. t \in Inside /\ chan[t] = NoChannel /\ c \in open
      BY <1>3 DEF Reserve, Enter, Available, Healthy, Inside
    <2>2. \A u \in Tasks : chan[u] # c
      BY <1>3 DEF Reserve, Enter, Available, Healthy, HeldIsReserved
    <2>3. chan' = [chan EXCEPT ![t] = c] /\ open' = open /\ lost' = lost
      BY <1>3 DEF Reserve
    <2> QED BY <2>1, <2>2, <2>3, LendStep
  <1>4. ASSUME NEW t \in Tasks, NEW c \in Channels, CreateOk(t, c) PROVE Kept
    <2>1. t \in Inside /\ chan[t] = NoChannel
      BY <1>4 DEF CreateOk, Inside
    <2>2. c \notin open /\ \A u \in Tasks : chan[u] # c
      BY <1>4 DEF CreateOk, Fresh, Alive
    <2>3. chan' = [chan EXCEPT ![t] = c] /\ open' = open \union {c} /\ lost' = lost
      BY <1>4 DEF CreateOk
    <2> QED BY <2>1, <2>2, <2>3, LendStep
  <1>5. ASSUME NEW t \in Tasks, NEW left \in SUBSET Channels, CreateFail(t, left)
        PROVE  Kept
    <2>1. open' = open \/ \E c \in Channels : c \notin open /\ open' = open \union {c}
      BY <1>5 DEF CreateFail, Leftovers, Fresh, Alive
    <2>2. chan' = chan /\ lost' = lost
      BY <1>5 DEF CreateFail
    <2> QED BY <2>1, <2>2, ChangeStep
  <1>6. ASSUME NEW t \in Tasks, GiveBack(t) PROVE Kept
    <2>1. chan[t] # NoChannel
      BY <1>6 DEF GiveBack
    <2> QED BY <1>6, <2>1, ReturnStep DEF GiveBack
  <1>7. ASSUME NEW t \in Tasks, NEW left \in SUBSET Channels, Cancel(t, left)
        PROVE  Kept
    <2>1. chan' = [chan EXCEPT ![t] = NoChannel]
      BY <1>7 DEF Cancel
    <2>2. CASE pc[t] = "return"
      <3>1. chan[t] # NoChannel /\ open' = open /\ lost' = lost + 1
        BY <1>7, <2>2 DEF Cancel
      <3> QED BY <2>1, <3>1, ReturnStep
    <2>3. CASE pc[t] # "return"
      <3>1. chan[t] = NoChannel /\ lost' = lost
        BY <1>7, <2>3 DEF Cancel
      <3>2. open' = open \/ \E c \in Channels : c \notin open /\ open' = open \union {c}
        BY <1>7 DEF Cancel, Leftovers, Fresh, Alive
      <3> QED BY <2>1, <3>1, <3>2, ChangeStep
    <2> QED BY <2>2, <2>3
  <1>8. ASSUME CleanerNext \/ CloserNext PROVE Kept
    <2>1. open' \subseteq open /\ lost' = lost /\ \A u \in Tasks : chan'[u] = chan[u]
      BY <1>8
      DEF CleanerNext, Wake, StartSweep, Sweeping, EndSweep, Sweep, FinishSweep,
          ClosedBySweep, StopCleaner, CloserNext, StartClose, StartDrain, Draining,
          Drain, FinishClose
    <2> QED BY <2>1, ChangeStep
  <1>9. CASE Environment
    <2>1. lost' = lost /\ chan' = chan
      BY <1>9 DEF Environment, Lose, Restore, End, Alive, GrowIdle
    <2>2. open' \subseteq open \/ \E c \in Channels : c \notin open /\ open' = open \union {c}
      BY <1>9 DEF Environment, Lose, Restore, End, Alive, GrowIdle
    <2> QED BY <2>1, <2>2, ChangeStep
  <1>10. CASE UNCHANGED vars
    BY <1>1, <1>10 DEF vars
  <1> QED
    BY <1>2, <1>3, <1>4, <1>5, <1>6, <1>7, <1>8, <1>9, <1>10
    DEF Next, TaskNext, EnterPool, EndCreate

\* However tasks, the cleanup, close() and cancellations interleave, the pool
\* lends each channel open, to one task at a time, and within its capacity.
THEOREM OneBorrower == Spec => RefinesChannelLending
  <1>1. Init => Lending!Init
    BY DEF Init, Lending!Init
  <1>2. IInv /\ PermitAccounting /\ [Next]_vars => [Lending!Next]_Lending!vars
    BY LendingStep
  <1> QED BY Inductive, PermitsAccounted, <1>1, <1>2, PTL
          DEF Spec, RefinesChannelLending, Lending!Spec
===============================================================================
