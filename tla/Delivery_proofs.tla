--------------------------- MODULE Delivery_proofs ---------------------------
(***************************************************************************)
(* Proofs about Delivery, for every queue of messages, every prefetch      *)
(* count, and any number of lost channels, restarts and handling tasks.    *)
(***************************************************************************)
EXTENDS Delivery, FiniteSetTheorems, TLAPS

\* The application's phases: there is no channel before it is set up, and one
\* closing of the publisher per start.
Phases ==
  /\ app = "down" \/ pc = "setup" => channel = "none"
  /\ app = "closing" => pc = "idle"
  /\ app = "down" => pc = "idle"
  /\ app \in {"serving", "stopping"} => shutdowns < starts
  /\ live # {} => channel = "up"

\* A task awaits what its message calls for.
WorkMatches ==
  \A d \in Tags :
    /\ at[d] \in {"dispatch", "ack"} => Kind[msg[d]] = "event"
    /\ at[d] \in {"delay", "requeue"} => Kind[msg[d]] = "invalid"

\* Before a shutdown, a task that is about to acknowledge has its work done.
WorkDone ==
  shutdowns = 0 => ~closed /\ \A d \in Tags : at[d] = "ack" => msg[d] \in handled

\* An event that waits in the queue of the present channel, or of the one being
\* set up, was not yet delivered on that channel.
WaitsForFirst ==
  /\ \A m \in Messages : Kind[m] # "event" => dispatched[m] = 0
  /\ channel # "none" \/ pc = "setup" =>
       \A m \in Messages : Kind[m] = "event" /\ status[m] \in {"unborn", "ready"}
                             => dispatched[m] < starts + losses

(***************************************************************************)
(* The bound on duplicates needs WaitsForFirst, and that a requeued message*)
(* is no event; the acknowledgement needs WorkDone.  Both rest on one task *)
(* having a live delivery, which is UnackedIsHandled.                      *)
(***************************************************************************)
IInv ==
  /\ TypeOK /\ Phases
  /\ UnackedIsHandled
  /\ WorkMatches /\ WorkDone
  /\ HandledBeforeAcked
  /\ WaitsForFirst /\ DuplicatesNeedLoss
USE DEF broker, tasks, process, history

LEMMA FirstAwaits ==
  ASSUME NEW m \in Messages
  PROVE  /\ FirstAwait(m) \in {"dispatch", "ack", "delay", "reject"}
         /\ FirstAwait(m) \in {"dispatch", "ack"} => Kind[m] = "event"
         /\ FirstAwait(m) = "delay" => Kind[m] = "invalid"
         /\ FirstAwait(m) = "ack" => closed
  BY DeliveryAssumption DEF FirstAwait, ForEvent, ForUnknown, ForFailure, Kinds

LEMMA InitIInv == Init => IInv
  <1> SUFFICES ASSUME Init PROVE IInv
    OBVIOUS
  <1>1. TypeOK
    <2>1. /\ status \in [Messages -> {"unborn", "ready", "unacked", "acked", "dropped"}]
          /\ at \in [Tags -> {"none", "dispatch", "delay"} \union DOMAIN Outcome]
          /\ msg \in [Tags -> Messages \union {NoMessage}]
          /\ dispatched \in [Messages -> Nat]
      BY DEF Init
    <2>2. /\ \A d \in Tags : at[d] = "none" <=> msg[d] = NoMessage
          /\ live \subseteq Running /\ handled \subseteq Messages
          /\ channel \in {"none", "up", "lost"}
          /\ pc \in {"idle", "setup", "consume", "failed"}
          /\ app \in {"down", "serving", "stopping", "closing"}
      BY DEF Init
    <2>3. stop \in BOOLEAN /\ closed \in BOOLEAN
      BY DEF Init
    <2>4. starts \in 0..MaxStarts /\ losses \in 0..MaxLosses /\ shutdowns \in 0..starts
      BY DeliveryAssumption DEF Init
    <2> QED BY <2>1, <2>2, <2>3, <2>4 DEF TypeOK
  <1>2. Phases /\ UnackedIsHandled /\ WorkMatches /\ WorkDone /\ HandledBeforeAcked
    BY DEF Init, Phases, UnackedIsHandled, WorkMatches, WorkDone, HandledBeforeAcked
  <1>3. WaitsForFirst /\ DuplicatesNeedLoss
    BY DEF Init, WaitsForFirst, DuplicatesNeedLoss
  <1> QED BY <1>1, <1>2, <1>3 DEF IInv

\* Every step keeps the variables in their types.
LEMMA TypeStep ==
  ASSUME TypeOK, Phases, [Next]_vars
  PROVE  TypeOK'
  <1> USE DeliveryAssumption DEF TypeOK, Phases, Running, Outcome
  <1>1. CASE StartUp
    BY <1>1 DEF StartUp
  <1>2. CASE SetupOk
    BY <1>2 DEF SetupOk
  <1>3. CASE SetupFail
    BY <1>3 DEF SetupFail
  <1>4. CASE Stop
    BY <1>4 DEF Stop
  <1>5. CASE Leave
    BY <1>5 DEF Leave
  <1>6. CASE Timeout
    BY <1>6 DEF Timeout
  <1>7. CASE ClosePublisher
    BY <1>7 DEF ClosePublisher
  <1>8. CASE CloseChannel
    BY <1>8 DEF CloseChannel, TakeBack
  <1>9. CASE Exit
    BY <1>9 DEF Exit, TakeBack
  <1>10. ASSUME NEW d \in Tags, NEW m \in Messages, Deliver(d, m) PROVE TypeOK'
    BY <1>10, FirstAwaits DEF Deliver
  <1>11. ASSUME NEW d \in Tags, EndDispatch(d) PROVE TypeOK'
    BY <1>11 DEF EndDispatch
  <1>12. ASSUME NEW d \in Tags, EndDelay(d) PROVE TypeOK'
    BY <1>12 DEF EndDelay
  <1>13. ASSUME NEW d \in Tags, Settle(d) PROVE TypeOK'
    BY <1>13 DEF Settle, Outcome, Settles
  <1>14. ASSUME NEW m \in Messages, Publish(m) PROVE TypeOK'
    BY <1>14 DEF Publish
  <1>15. CASE Lose
    BY <1>15 DEF Lose, TakeBack
  <1>16. CASE Restore
    BY <1>16 DEF Restore
  <1>17. CASE UNCHANGED vars
    BY <1>17 DEF vars
  <1> QED
    BY <1>1, <1>2, <1>3, <1>4, <1>5, <1>6, <1>7, <1>8, <1>9, <1>10, <1>11,
       <1>12, <1>13, <1>14, <1>15, <1>16, <1>17
    DEF Next, EndSetup, DeliverSome, Handle

\* The phases of the application follow each other.
LEMMA PhasesStep ==
  ASSUME TypeOK, Phases, [Next]_vars
  PROVE  Phases'
  <1> USE DeliveryAssumption DEF TypeOK, Phases
  <1>1. CASE StartUp
    BY <1>1 DEF StartUp
  <1>2. CASE SetupOk
    BY <1>2 DEF SetupOk
  <1>3. CASE SetupFail
    BY <1>3 DEF SetupFail
  <1>4. CASE Stop
    BY <1>4 DEF Stop
  <1>5. CASE Leave
    BY <1>5 DEF Leave
  <1>6. CASE Timeout
    BY <1>6 DEF Timeout
  <1>7. CASE ClosePublisher
    BY <1>7 DEF ClosePublisher
  <1>8. CASE CloseChannel
    BY <1>8 DEF CloseChannel, TakeBack
  <1>9. CASE Exit
    BY <1>9 DEF Exit, TakeBack
  <1>10. ASSUME NEW d \in Tags, NEW m \in Messages, Deliver(d, m) PROVE Phases'
    BY <1>10 DEF Deliver
  <1>11. ASSUME NEW d \in Tags, EndDispatch(d) PROVE Phases'
    BY <1>11 DEF EndDispatch
  <1>12. ASSUME NEW d \in Tags, EndDelay(d) PROVE Phases'
    BY <1>12 DEF EndDelay
  <1>13. ASSUME NEW d \in Tags, Settle(d) PROVE Phases'
    BY <1>13 DEF Settle, Outcome, Settles
  <1>14. ASSUME NEW m \in Messages, Publish(m) PROVE Phases'
    BY <1>14 DEF Publish
  <1>15. CASE Lose
    BY <1>15 DEF Lose, TakeBack
  <1>16. CASE Restore
    BY <1>16 DEF Restore
  <1>17. CASE UNCHANGED vars
    BY <1>17 DEF vars
  <1> QED
    BY <1>1, <1>2, <1>3, <1>4, <1>5, <1>6, <1>7, <1>8, <1>9, <1>10, <1>11,
       <1>12, <1>13, <1>14, <1>15, <1>16, <1>17
    DEF Next, EndSetup, DeliverSome, Handle

\* A delivery gets a task of its own, and loses it with its settlement or with
\* its channel.
LEMMA UnackedStep ==
  ASSUME TypeOK, UnackedIsHandled, [Next]_vars
  PROVE  UnackedIsHandled'
  <1> USE DeliveryAssumption DEF TypeOK, UnackedIsHandled, Running
  <1>1. CASE StartUp
    BY <1>1 DEF StartUp
  <1>2. CASE SetupOk
    BY <1>2 DEF SetupOk
  <1>3. CASE SetupFail
    BY <1>3 DEF SetupFail
  <1>4. CASE Stop
    BY <1>4 DEF Stop
  <1>5. CASE Leave
    BY <1>5 DEF Leave
  <1>6. CASE Timeout
    BY <1>6 DEF Timeout
  <1>7. CASE ClosePublisher
    BY <1>7 DEF ClosePublisher
  <1>8. CASE CloseChannel
    BY <1>8 DEF CloseChannel, TakeBack
  <1>9. CASE Exit
    BY <1>9 DEF Exit, TakeBack
  <1>10. ASSUME NEW d \in Tags, NEW m \in Messages, Deliver(d, m) PROVE UnackedIsHandled'
    BY <1>10, FirstAwaits DEF Deliver
  <1>11. ASSUME NEW d \in Tags, EndDispatch(d) PROVE UnackedIsHandled'
    BY <1>11 DEF EndDispatch
  <1>12. ASSUME NEW d \in Tags, EndDelay(d) PROVE UnackedIsHandled'
    BY <1>12 DEF EndDelay
  <1>13. ASSUME NEW d \in Tags, Settle(d) PROVE UnackedIsHandled'
    BY <1>13 DEF Settle, Outcome, Settles
  <1>14. ASSUME NEW m \in Messages, Publish(m) PROVE UnackedIsHandled'
    BY <1>14 DEF Publish
  <1>15. CASE Lose
    BY <1>15 DEF Lose, TakeBack
  <1>16. CASE Restore
    BY <1>16 DEF Restore
  <1>17. CASE UNCHANGED vars
    BY <1>17 DEF vars
  <1> QED
    BY <1>1, <1>2, <1>3, <1>4, <1>5, <1>6, <1>7, <1>8, <1>9, <1>10, <1>11,
       <1>12, <1>13, <1>14, <1>15, <1>16, <1>17
    DEF Next, EndSetup, DeliverSome, Handle

\* What a task awaits follows from its message.
LEMMA WorkMatchesStep ==
  ASSUME TypeOK, WorkMatches, [Next]_vars
  PROVE  WorkMatches'
  <1> USE DeliveryAssumption DEF TypeOK, WorkMatches, Running
  <1>1. CASE StartUp
    BY <1>1 DEF StartUp
  <1>2. CASE SetupOk
    BY <1>2 DEF SetupOk
  <1>3. CASE SetupFail
    BY <1>3 DEF SetupFail
  <1>4. CASE Stop
    BY <1>4 DEF Stop
  <1>5. CASE Leave
    BY <1>5 DEF Leave
  <1>6. CASE Timeout
    BY <1>6 DEF Timeout
  <1>7. CASE ClosePublisher
    BY <1>7 DEF ClosePublisher
  <1>8. CASE CloseChannel
    BY <1>8 DEF CloseChannel, TakeBack
  <1>9. CASE Exit
    BY <1>9 DEF Exit, TakeBack
  <1>10. ASSUME NEW d \in Tags, NEW m \in Messages, Deliver(d, m) PROVE WorkMatches'
    BY <1>10, FirstAwaits DEF Deliver
  <1>11. ASSUME NEW d \in Tags, EndDispatch(d) PROVE WorkMatches'
    BY <1>11 DEF EndDispatch
  <1>12. ASSUME NEW d \in Tags, EndDelay(d) PROVE WorkMatches'
    BY <1>12 DEF EndDelay
  <1>13. ASSUME NEW d \in Tags, Settle(d) PROVE WorkMatches'
    BY <1>13 DEF Settle, Outcome, Settles
  <1>14. ASSUME NEW m \in Messages, Publish(m) PROVE WorkMatches'
    BY <1>14 DEF Publish
  <1>15. CASE Lose
    BY <1>15 DEF Lose, TakeBack
  <1>16. CASE Restore
    BY <1>16 DEF Restore
  <1>17. CASE UNCHANGED vars
    BY <1>17 DEF vars
  <1> QED
    BY <1>1, <1>2, <1>3, <1>4, <1>5, <1>6, <1>7, <1>8, <1>9, <1>10, <1>11,
       <1>12, <1>13, <1>14, <1>15, <1>16, <1>17
    DEF Next, EndSetup, DeliverSome, Handle

\* An acknowledgement comes after the work.
LEMMA HandledStep ==
  ASSUME TypeOK, WorkDone, HandledBeforeAcked, [Next]_vars
  PROVE  WorkDone' /\ HandledBeforeAcked'
  <1> USE DeliveryAssumption DEF TypeOK, WorkDone, HandledBeforeAcked, Running
  <1>1. CASE StartUp
    BY <1>1 DEF StartUp
  <1>2. CASE SetupOk
    BY <1>2 DEF SetupOk
  <1>3. CASE SetupFail
    BY <1>3 DEF SetupFail
  <1>4. CASE Stop
    BY <1>4 DEF Stop
  <1>5. CASE Leave
    BY <1>5 DEF Leave
  <1>6. CASE Timeout
    BY <1>6 DEF Timeout
  <1>7. CASE ClosePublisher
    BY <1>7 DEF ClosePublisher
  <1>8. CASE CloseChannel
    BY <1>8 DEF CloseChannel, TakeBack
  <1>9. CASE Exit
    BY <1>9 DEF Exit, TakeBack
  <1>10. ASSUME NEW d \in Tags, NEW m \in Messages, Deliver(d, m) PROVE WorkDone' /\ HandledBeforeAcked'
    BY <1>10, FirstAwaits DEF Deliver
  <1>11. ASSUME NEW d \in Tags, EndDispatch(d) PROVE WorkDone' /\ HandledBeforeAcked'
    BY <1>11 DEF EndDispatch
  <1>12. ASSUME NEW d \in Tags, EndDelay(d) PROVE WorkDone' /\ HandledBeforeAcked'
    BY <1>12 DEF EndDelay
  <1>13. ASSUME NEW d \in Tags, Settle(d) PROVE WorkDone' /\ HandledBeforeAcked'
    BY <1>13 DEF Settle, Outcome, Settles
  <1>14. ASSUME NEW m \in Messages, Publish(m) PROVE WorkDone' /\ HandledBeforeAcked'
    BY <1>14 DEF Publish
  <1>15. CASE Lose
    BY <1>15 DEF Lose, TakeBack
  <1>16. CASE Restore
    BY <1>16 DEF Restore
  <1>17. CASE UNCHANGED vars
    BY <1>17 DEF vars
  <1> QED
    BY <1>1, <1>2, <1>3, <1>4, <1>5, <1>6, <1>7, <1>8, <1>9, <1>10, <1>11,
       <1>12, <1>13, <1>14, <1>15, <1>16, <1>17
    DEF Next, EndSetup, DeliverSome, Handle

\* A message that is dispatched leaves the queue until its channel is gone.
LEMMA DuplicatesStep ==
  ASSUME TypeOK, Phases, UnackedIsHandled, WorkMatches, WaitsForFirst, DuplicatesNeedLoss,
         [Next]_vars
  PROVE  WaitsForFirst' /\ DuplicatesNeedLoss'
  <1> USE DeliveryAssumption DEF TypeOK, Phases, WaitsForFirst, DuplicatesNeedLoss
  <1>1. CASE StartUp
    BY <1>1 DEF StartUp
  <1>2. CASE SetupOk
    BY <1>2 DEF SetupOk
  <1>3. CASE SetupFail
    BY <1>3 DEF SetupFail
  <1>4. CASE Stop
    BY <1>4 DEF Stop
  <1>5. CASE Leave
    BY <1>5 DEF Leave
  <1>6. CASE Timeout
    BY <1>6 DEF Timeout
  <1>7. CASE ClosePublisher
    BY <1>7 DEF ClosePublisher
  <1>8. CASE CloseChannel
    BY <1>8 DEF CloseChannel, TakeBack
  <1>9. CASE Exit
    BY <1>9 DEF Exit, TakeBack
  <1>10. ASSUME NEW d \in Tags, NEW m \in Messages, Deliver(d, m) PROVE WaitsForFirst' /\ DuplicatesNeedLoss'
    BY <1>10 DEF Deliver
  <1>11. ASSUME NEW d \in Tags, EndDispatch(d) PROVE WaitsForFirst' /\ DuplicatesNeedLoss'
    BY <1>11 DEF EndDispatch
  <1>12. ASSUME NEW d \in Tags, EndDelay(d) PROVE WaitsForFirst' /\ DuplicatesNeedLoss'
    BY <1>12 DEF EndDelay
  <1>13. ASSUME NEW d \in Tags, Settle(d) PROVE WaitsForFirst' /\ DuplicatesNeedLoss'
    BY <1>13 DEF Settle, Outcome, Settles, WorkMatches
  <1>14. ASSUME NEW m \in Messages, Publish(m) PROVE WaitsForFirst' /\ DuplicatesNeedLoss'
    BY <1>14 DEF Publish
  <1>15. CASE Lose
    BY <1>15 DEF Lose, TakeBack
  <1>16. CASE Restore
    BY <1>16 DEF Restore
  <1>17. CASE UNCHANGED vars
    BY <1>17 DEF vars
  <1> QED
    BY <1>1, <1>2, <1>3, <1>4, <1>5, <1>6, <1>7, <1>8, <1>9, <1>10, <1>11,
       <1>12, <1>13, <1>14, <1>15, <1>16, <1>17
    DEF Next, EndSetup, DeliverSome, Handle

LEMMA IInvStep == IInv /\ [Next]_vars => IInv'
  BY TypeStep, PhasesStep, UnackedStep, WorkMatchesStep, HandledStep, DuplicatesStep
  DEF IInv

\* The inductive invariant.
THEOREM Inductive == Spec => []IInv
  BY InitIInv, IInvStep, PTL DEF Spec

\* The variables keep their types.
THEOREM TypeCorrect == Spec => []TypeOK
  <1>1. IInv => TypeOK
    BY DEF IInv
  <1> QED BY Inductive, <1>1, PTL

\* Every unsettled delivery has exactly one task that can settle it, however
\* channels are lost while _handle_message() runs.
THEOREM OneSettler == Spec => []UnackedIsHandled
  <1>1. IInv => UnackedIsHandled
    BY DEF IInv
  <1> QED BY Inductive, <1>1, PTL

\* Before a shutdown, _handle_message() acknowledges an event only after its
\* handler worked.
THEOREM WorkBeforeAck == Spec => []HandledBeforeAcked
  <1>1. IInv => HandledBeforeAcked
    BY DEF IInv
  <1> QED BY Inductive, <1>1, PTL

\* An event reaches its handler once per channel at most.
THEOREM OncePerChannel == Spec => []DuplicatesNeedLoss
  <1>1. IInv => DuplicatesNeedLoss
    BY DEF IInv
  <1> QED BY Inductive, <1>1, PTL

(***************************************************************************)
(* The subscriber implements one consumer of a queue                       *)
(***************************************************************************)

\* Tasks have messages of the queue, whatever became of the channel since.
Delivered == \A d \in Running : status[msg[d]] # "unborn"

\* What is rejected is no event: the message bus raises for none.
RejectsNoEvent == \A d \in Tags : at[d] = "reject" => Kind[msg[d]] # "event"

LEMMA RejectedFirst ==
  ASSUME NEW m \in Messages
  PROVE  FirstAwait(m) = "reject" => Kind[m] # "event"
  BY DeliveryAssumption DEF FirstAwait, ForEvent, Kinds

LEMMA DeliveredStep ==
  ASSUME TypeOK, Delivered, RejectsNoEvent, [Next]_vars
  PROVE  Delivered' /\ RejectsNoEvent'
  <1> DEFINE Kept == Delivered /\ RejectsNoEvent
  <1> USE DeliveryAssumption DEF TypeOK, Delivered, RejectsNoEvent, Running
  <1>1. CASE StartUp \/ SetupOk \/ SetupFail \/ Stop \/ Leave \/ Timeout \/ ClosePublisher
             \/ Restore \/ UNCHANGED vars
    BY <1>1 DEF StartUp, SetupOk, SetupFail, Stop, Leave, Timeout, ClosePublisher, Restore, vars
  <1>2. CASE CloseChannel \/ Lose
    BY <1>2 DEF CloseChannel, Lose, TakeBack
  <1>3. CASE Exit
    BY <1>3 DEF Exit, TakeBack
  <1>4. ASSUME NEW d \in Tags, NEW m \in Messages, Deliver(d, m) PROVE Kept'
    BY <1>4, FirstAwaits, RejectedFirst DEF Deliver
  <1>5. ASSUME NEW d \in Tags, EndDispatch(d) \/ EndDelay(d) PROVE Kept'
    BY <1>5 DEF EndDispatch, EndDelay
  <1>6. ASSUME NEW d \in Tags, Settle(d) PROVE Kept'
    BY <1>6 DEF Settle, Outcome, Settles
  <1>7. ASSUME NEW m \in Messages, Publish(m) PROVE Kept'
    BY <1>7 DEF Publish
  <1> QED BY <1>1, <1>2, <1>3, <1>4, <1>5, <1>6, <1>7 DEF Next, EndSetup, DeliverSome, Handle

\* A live task has a message that waits for its settlement.
LEMMA LiveDelivery ==
  ASSUME TypeOK, UnackedIsHandled, NEW d \in live
  PROVE  d \in Tags /\ msg[d] \in Messages /\ status[msg[d]] = "unacked"
  <1>1. d \in Tags /\ at[d] # "none"
    BY DEF TypeOK, Running
  <1>2. msg[d] \in Messages
    BY <1>1 DEF TypeOK
  <1>3. status[msg[d]] = "unacked"
    BY <1>2 DEF UnackedIsHandled
  <1> QED BY <1>1, <1>2, <1>3

\* The broker has no more unsettled deliveries than there are live tasks.
LEMMA UnackedBound ==
  ASSUME TypeOK, UnackedIsHandled
  PROVE  Cardinality(Queue!In("unacked")) <= Cardinality(live)
  <1> DEFINE Delivery == [d \in live |-> msg[d]]
  <1>1. IsFiniteSet(live)
    BY DeliveryAssumption, FS_Subset DEF TypeOK, Running
  <1>2. \A d \in live : msg[d] \in Messages /\ status[msg[d]] = "unacked"
    BY LiveDelivery
  <1>3. Delivery \in [live -> Queue!In("unacked")]
    BY <1>2 DEF Queue!In
  <1>4. \A m \in Queue!In("unacked") : \E d \in live : Delivery[d] = m
    <2> TAKE m \in Queue!In("unacked")
    <2>1. m \in Messages /\ status[m] = "unacked"
      BY DEF Queue!In
    <2>2. PICK d \in live : msg[d] = m
      BY <2>1 DEF UnackedIsHandled
    <2>3. Delivery[d] = m
      BY <2>2
    <2> QED BY <2>2, <2>3
  <1>5. Delivery \in Surjection(live, Queue!In("unacked"))
    BY <1>3, <1>4 DEF Surjection
  <1> QED BY <1>1, <1>5, FS_Surjection

LEMMA QueueStep ==
  ASSUME IInv, Delivered, RejectsNoEvent, [Next]_vars
  PROVE  [Queue!Next]_Queue!vars
  <1> USE DeliveryAssumption DEF IInv, TypeOK, Running
  <1> DEFINE Kept == [Queue!Next]_Queue!vars
  <1>1. ASSUME UNCHANGED <<status, handled, shutdowns>> PROVE Kept
    BY <1>1 DEF Queue!vars
  <1>2. ASSUME TakeBack, UNCHANGED <<handled, shutdowns>> PROVE Kept
    BY <1>2 DEF TakeBack, Queue!Next, Queue!TakeBack
  <1>3. CASE StartUp \/ SetupOk \/ SetupFail \/ Stop \/ Leave \/ Timeout
             \/ Restore \/ UNCHANGED vars
    BY <1>1, <1>3 DEF StartUp, SetupOk, SetupFail, Stop, Leave, Timeout, Restore, vars
  <1>4. CASE CloseChannel \/ Lose \/ Exit
    BY <1>2, <1>4 DEF CloseChannel, Lose, Exit
  <1>5. CASE ClosePublisher
    <2>1. shutdowns' > 0 /\ UNCHANGED <<status, handled>>
      BY <1>5 DEF ClosePublisher
    <2>2. Queue!Close
      BY <2>1 DEF Queue!Close
    <2> QED BY <2>2 DEF Queue!Next
  <1>6. ASSUME NEW d \in Tags, NEW m \in Messages, Deliver(d, m) PROVE Kept
    <2>1. Cardinality(Queue!In("unacked")) < Prefetch
      <3>1. IsFiniteSet(live) /\ IsFiniteSet(Queue!In("unacked"))
        BY FS_Subset DEF Queue!In
      <3>2. Cardinality(live) \in Nat /\ Cardinality(Queue!In("unacked")) \in Nat
        BY <3>1, FS_CardinalityType
      <3> QED BY <1>6, <3>2, UnackedBound DEF Deliver
    <2>2. /\ status[m] = "ready" /\ status' = [status EXCEPT ![m] = "unacked"]
          /\ \A n \in Messages : status[n] = "ready" => m <= n
          /\ UNCHANGED <<handled, shutdowns>>
      BY <1>6 DEF Deliver
    <2>3. Queue!Deliver(m)
      <3>1. Queue!Move(m, "ready", "unacked")
        BY <2>2 DEF Queue!Move, Queue!In
      <3>2. \A n \in Queue!In("ready") : m <= n
        BY <2>2 DEF Queue!In
      <3>3. Queue!Cardinality(Queue!In("unacked")) = Cardinality(Queue!In("unacked"))
        BY DEF Queue!Cardinality, Cardinality
      <3> QED BY <2>1, <3>1, <3>2, <3>3 DEF Queue!Deliver
    <2> QED BY <2>3 DEF Queue!Next
  <1>7. ASSUME NEW d \in Tags, EndDispatch(d) PROVE Kept
    <2>1. /\ msg[d] \in Messages /\ status[msg[d]] # "unborn" /\ Kind[msg[d]] = "event"
          /\ handled' = handled \union {msg[d]} /\ UNCHANGED <<status, shutdowns>>
      BY <1>7 DEF EndDispatch, Delivered, WorkMatches
    <2>2. Queue!Handle(msg[d])
      BY <2>1 DEF Queue!Handle, Queue!In
    <2> QED BY <2>1, <2>2 DEF Queue!Next
  <1>8. ASSUME NEW d \in Tags, EndDelay(d) PROVE Kept
    BY <1>1, <1>8 DEF EndDelay
  <1>9. ASSUME NEW d \in Tags, Settle(d) PROVE Kept
    <2>1. UNCHANGED <<handled, shutdowns>> /\ at[d] \in {"ack", "requeue", "reject"}
      BY <1>9 DEF Settle, Outcome
    <2>2. CASE d \notin live
      BY <1>1, <1>9, <2>1, <2>2 DEF Settle, Settles
    <2>3. CASE d \in live
      <3> DEFINE m == msg[d]
      <3>1. m \in Messages /\ status[m] = "unacked"
        BY <2>3, LiveDelivery
      <3>2. status' = [status EXCEPT ![m] = Outcome[at[d]]]
        BY <1>9, <2>3 DEF Settle, Settles
      <3>3. CASE at[d] = "ack"
        <4>1. Kind[m] = "event" /\ (m \in handled \/ shutdowns > 0)
          BY <3>3 DEF WorkMatches, WorkDone
        <4>2. Queue!Ack(m)
          BY <2>1, <3>1, <3>2, <3>3, <4>1 DEF Outcome, Queue!Ack, Queue!Move, Queue!In
        <4> QED BY <3>1, <4>2 DEF Queue!Next
      <3>4. CASE at[d] = "requeue"
        <4>1. Kind[m] = "invalid"
          BY <3>4 DEF WorkMatches
        <4>2. Queue!Requeue(m)
          BY <2>1, <3>1, <3>2, <3>4, <4>1 DEF Outcome, Queue!Requeue, Queue!Move, Queue!In
        <4> QED BY <3>1, <4>2 DEF Queue!Next
      <3>5. CASE at[d] = "reject"
        <4>1. Kind[m] # "event"
          BY <3>5 DEF RejectsNoEvent
        <4>2. Queue!Drop(m)
          BY <2>1, <3>1, <3>2, <3>5, <4>1 DEF Outcome, Queue!Drop, Queue!Move, Queue!In
        <4> QED BY <3>1, <4>2 DEF Queue!Next
      <3> QED BY <2>1, <3>3, <3>4, <3>5
    <2> QED BY <2>2, <2>3
  <1>10. ASSUME NEW m \in Messages, Publish(m) PROVE Kept
    <2>1. /\ status[m] = "unborn" /\ status' = [status EXCEPT ![m] = "ready"]
          /\ \A n \in Messages : status[n] = "unborn" => m <= n
          /\ UNCHANGED <<handled, shutdowns>>
      BY <1>10 DEF Publish
    <2>2. Queue!Publish(m)
      BY <2>1 DEF Queue!Publish, Queue!Move, Queue!In
    <2> QED BY <2>2 DEF Queue!Next
  <1> QED
    BY <1>3, <1>4, <1>5, <1>6, <1>7, <1>8, <1>9, <1>10 DEF Next, EndSetup, DeliverSome, Handle

\* However often the channel is lost and the application restarted, the
\* subscriber and the broker are a queue that delivers in order, at most
\* prefetch_count messages at a time, that loses nothing and drops no event.
THEOREM OneConsumer == Spec => RefinesMessageQueue
  <1>1. Init => Delivered /\ RejectsNoEvent
    BY DEF Init, Delivered, Running, RejectsNoEvent
  <1>2. IInv /\ Delivered /\ RejectsNoEvent /\ [Next]_vars => Delivered' /\ RejectsNoEvent'
    BY DeliveredStep DEF IInv
  <1>3. Init => Queue!Init
    BY DEF Init, Queue!Init
  <1>4. IInv /\ Delivered /\ RejectsNoEvent /\ [Next]_vars => [Queue!Next]_Queue!vars
    BY QueueStep
  <1> QED BY Inductive, <1>1, <1>2, <1>3, <1>4, PTL DEF Spec, RefinesMessageQueue, Queue!Spec
===============================================================================
