------------------------------- MODULE Delivery -------------------------------
(***************************************************************************)
(* EventSubscriber and the application that starts and stops it            *)
(* (src/src/adapters/message_broker/subscriber.py, src/src/main.py), on    *)
(* one queue of the broker.                                                *)
(*                                                                         *)
(* The broker keeps a message until it is acknowledged or rejected.  It    *)
(* delivers messages in the order of the queue, up to prefetch_count at a  *)
(* time, each to a task of its own that runs _handle_message().  When the  *)
(* channel is lost, it takes the messages that were delivered on it back,  *)
(* while their tasks go on and settle them in vain.  A message that is     *)
(* requeued takes its old place.                                           *)
(*                                                                         *)
(* A message is named by its place in the queue.                           *)
(***************************************************************************)
EXTENDS Integers, FiniteSets

CONSTANTS
  Messages,     \* places in the queue
  Kind,         \* what _deserialize() and the message bus make of a message
  Tags,         \* bound: tasks that handle messages at the same time
  Prefetch,     \* prefetch_count
  MaxRetries,   \* max_retries
  MaxStarts,    \* bound: how often the application is started
  MaxLosses,    \* bound: how often a channel is lost
  NoMessage     \* absence of a message

\* "unknown": no event of the registry; "event": an event with a handler that
\* publishes it; "invalid": of a registered class that handle() raises for.  The
\* registry is empty and nothing in the repository fills it: until something does,
\* every message is unknown.
Kinds == {"unknown", "event", "invalid"}

ASSUME DeliveryAssumption ==
  /\ Messages \subseteq Nat /\ IsFiniteSet(Messages)
  /\ Kind \in [Messages -> Kinds]
  /\ Tags \subseteq Nat /\ IsFiniteSet(Tags)
  /\ Prefetch \in Nat \ {0}
  /\ MaxRetries \in Nat
  /\ MaxStarts \in Nat /\ MaxLosses \in Nat
  /\ NoMessage \notin Messages

VARIABLES
  status,     \* where the broker has each message
  channel,    \* the dedicated channel with its consumer
  at, msg,    \* where each handling task is, and its message
  live,       \* the tasks whose message was delivered on the present channel
  pc,         \* where start_consuming() is
  stop,       \* whether _stop_event is set
  app,        \* where lifespan() is
  closed,     \* _closed of the publisher
  handled,    \* history: messages whose handler did its work
  dispatched, \* history: how often each event was given to its handler
  starts,     \* history: how often the application was started
  losses,     \* history: how often a channel was lost
  shutdowns   \* history: how often the publisher was closed

broker  == <<status, channel>>
tasks   == <<at, msg, live>>
process == <<pc, stop, app, closed>>
history == <<handled, dispatched, starts, losses, shutdowns>>
vars    == <<broker, tasks, process, history>>

Init ==
  /\ status = [m \in Messages |-> "unborn"]
  /\ channel = "none"
  /\ at = [d \in Tags |-> "none"]
  /\ msg = [d \in Tags |-> NoMessage]
  /\ live = {}
  /\ pc = "idle" /\ stop = FALSE
  /\ app = "down" /\ closed = FALSE
  /\ handled = {}
  /\ dispatched = [m \in Messages |-> 0]
  /\ starts = 0 /\ losses = 0 /\ shutdowns = 0

\* Mutant: the consumer does not acknowledge, no_ack.
MutTakeBack == status' = [m \in Messages |-> IF status[m] = "unacked" THEN "acked" ELSE status[m]]

\* The broker takes back what was delivered on a channel that is gone.
TakeBack == status' = [m \in Messages |-> IF status[m] = "unacked" THEN "ready" ELSE status[m]]

(***************************************************************************)
(* lifespan() and start_consuming()                                        *)
(***************************************************************************)
StartUp ==
  /\ app = "down"
  /\ starts < MaxStarts
  /\ starts' = starts + 1
  /\ app' = "serving"
  /\ pc' = "setup"
  /\ UNCHANGED <<broker, tasks, stop, closed, handled, dispatched, losses, shutdowns>>

\* The dedicated channel, the queue and the consumer are there.
SetupOk ==
  /\ pc = "setup"
  /\ pc' = "consume"
  /\ channel' = "up"
  /\ UNCHANGED <<status, tasks, stop, app, closed, history>>

\* The task of start_consuming() ends with an exception.
SetupFail ==
  /\ pc = "setup"
  /\ pc' = "failed"
  /\ UNCHANGED <<broker, tasks, stop, app, closed, history>>

\* stop_consuming(), which lifespan() calls when the application ends.
Stop ==
  /\ app = "serving"
  /\ app' = "stopping"
  /\ stop' = (pc # "failed")
  /\ UNCHANGED <<broker, tasks, pc, closed, history>>

\* start_consuming() returns.  The channel is kept, and its consumer with it.
Leave ==
  /\ pc = "consume" /\ stop
  /\ pc' = "idle"
  /\ UNCHANGED <<broker, tasks, stop, app, closed, history>>

\* wait_for() cancels a start_consuming() that takes more than 30 seconds.
Timeout ==
  /\ app = "stopping" /\ pc \in {"setup", "consume"}
  /\ pc' = "idle"
  /\ UNCHANGED <<broker, tasks, stop, app, closed, history>>

\* The publisher is closed, before the connection manager.
ClosePublisher ==
  /\ app = "stopping" /\ pc = "idle"
  /\ app' = "closing"
  /\ closed' = TRUE
  /\ shutdowns' = shutdowns + 1
  /\ UNCHANGED <<broker, tasks, pc, stop, handled, dispatched, starts, losses>>

\* close() of the connection manager closes the channel, which is not restored.
CloseChannel ==
  /\ app = "closing"
  /\ channel # "none"
  /\ channel' = "none"
  /\ TakeBack
  /\ live' = {}
  /\ UNCHANGED <<at, msg, process, history>>

\* The process ends: after the connection manager is closed; because wait_for()
\* raises what start_consuming() raised; or by a crash, at any time.
Exit ==
  /\ app # "down"
  /\ TakeBack
  /\ channel' = "none"
  /\ at' = [d \in Tags |-> "none"] /\ msg' = [d \in Tags |-> NoMessage] /\ live' = {}
  /\ pc' = "idle" /\ stop' = FALSE
  /\ app' = "down" /\ closed' = FALSE
  /\ UNCHANGED history

(***************************************************************************)
(* _handle_message()                                                       *)
(***************************************************************************)

\* Mutant: the message is acknowledged before it is processed.
MutForEvent == "ack"

\* The publisher's handler raises at once when the publisher is closed, and the
\* message bus logs it; otherwise the handler's awaits follow.
ForEvent == IF closed THEN "ack" ELSE "dispatch"

\* Mutant: what is rejected is requeued.
MutForUnknown == "requeue"

ForUnknown == "reject"

\* Every delivery finds the x-retry-count header as it was published, without a
\* count: _handle_message() writes into its own copy of the message.
RetryCount == 0

\* _handle_failure()
ForFailure == IF RetryCount < MaxRetries THEN "delay" ELSE "reject"

\* What the task awaits first.
FirstAwait(m) ==
  CASE Kind[m] = "event"   -> ForEvent
    [] Kind[m] = "unknown" -> ForUnknown
    [] Kind[m] = "invalid" -> ForFailure

Running == {d \in Tags : at[d] # "none"}

Deliver(d, m) ==
  /\ channel = "up"
  /\ Cardinality(live) < Prefetch
  /\ status[m] = "ready" /\ \A n \in Messages : status[n] = "ready" => m <= n
  /\ d \notin Running /\ \A e \in Tags : e < d => e \in Running
  /\ status' = [status EXCEPT ![m] = "unacked"]
  /\ live' = live \union {d}
  /\ at' = [at EXCEPT ![d] = FirstAwait(m)]
  /\ msg' = [msg EXCEPT ![d] = m]
  /\ dispatched' = IF Kind[m] = "event" THEN [dispatched EXCEPT ![m] = @ + 1]
                                        ELSE dispatched
  /\ UNCHANGED <<channel, process, handled, starts, losses, shutdowns>>

\* The handler returns: the event was published, or given up by the publisher.
EndDispatch(d) ==
  /\ at[d] = "dispatch"
  /\ at' = [at EXCEPT ![d] = "ack"]
  /\ handled' = handled \union {msg[d]}
  /\ UNCHANGED <<broker, msg, live, process, dispatched, starts, losses, shutdowns>>

EndDelay(d) ==
  /\ at[d] = "delay"
  /\ at' = [at EXCEPT ![d] = "requeue"]
  /\ UNCHANGED <<broker, msg, live, process, history>>

\* Mutant: an acknowledged message is requeued.
MutOutcome == [ack |-> "ready", requeue |-> "ready", reject |-> "dropped"]

Outcome == [ack |-> "acked", requeue |-> "ready", reject |-> "dropped"]

\* Mutant: only acknowledgements are sent.
MutSettles(d) == d \in live /\ at[d] = "ack"

\* On a channel that is gone ack() and reject() raise.
Settles(d) == d \in live

\* The task settles its message, or fails to, and ends.
Settle(d) ==
  /\ at[d] \in DOMAIN Outcome
  /\ status' = IF Settles(d) THEN [status EXCEPT ![msg[d]] = Outcome[at[d]]] ELSE status
  /\ at' = [at EXCEPT ![d] = "none"]
  /\ msg' = [msg EXCEPT ![d] = NoMessage]
  /\ live' = live \ {d}
  /\ UNCHANGED <<channel, process, history>>

(***************************************************************************)
(* The broker                                                              *)
(***************************************************************************)

\* Messages are published in the order of their places.
Publish(m) ==
  /\ status[m] = "unborn" /\ \A n \in Messages : n < m => status[n] # "unborn"
  /\ status' = [status EXCEPT ![m] = "ready"]
  /\ UNCHANGED <<channel, tasks, process, history>>

Lose ==
  /\ channel = "up"
  /\ losses < MaxLosses
  /\ losses' = losses + 1
  /\ channel' = "lost"
  /\ TakeBack
  /\ live' = {}
  /\ UNCHANGED <<at, msg, process, handled, dispatched, starts, shutdowns>>

\* The robust channel opens again and consumes again.
Restore ==
  /\ channel = "lost"
  /\ channel' = "up"
  /\ UNCHANGED <<status, tasks, process, history>>

(***************************************************************************)
(* The specification                                                       *)
(***************************************************************************)
EndSetup == SetupOk \/ SetupFail \/ Timeout

DeliverSome(m) == \E d \in Tags : Deliver(d, m)

Handle(d) == EndDispatch(d) \/ EndDelay(d) \/ Settle(d)

Next ==
  \/ StartUp \/ EndSetup \/ Stop \/ Leave \/ ClosePublisher \/ CloseChannel \/ Exit
  \/ \E m \in Messages : DeliverSome(m) \/ Publish(m)
  \/ \E d \in Tags : Handle(d)
  \/ Lose \/ Restore

Spec == Init /\ [][Next]_vars

\* The handlers' awaits and the delays end, a lost channel is restored, and the
\* broker delivers the first message of the queue to a consumer that has room.
Fairness ==
  /\ \A d \in Tags : WF_vars(Handle(d))
  /\ \A m \in Messages : WF_vars(DeliverSome(m))
  /\ WF_vars(Restore)

FairSpec == Spec /\ Fairness

(***************************************************************************)
(* Properties                                                              *)
(***************************************************************************)
TypeOK ==
  /\ status \in [Messages -> {"unborn", "ready", "unacked", "acked", "dropped"}]
  /\ channel \in {"none", "up", "lost"}
  /\ at \in [Tags -> {"none", "dispatch", "delay"} \union DOMAIN Outcome]
  /\ msg \in [Tags -> Messages \union {NoMessage}]
  /\ \A d \in Tags : at[d] = "none" <=> msg[d] = NoMessage
  /\ live \subseteq Running
  /\ pc \in {"idle", "setup", "consume", "failed"} /\ stop \in BOOLEAN
  /\ app \in {"down", "serving", "stopping", "closing"} /\ closed \in BOOLEAN
  /\ handled \subseteq Messages
  /\ dispatched \in [Messages -> Nat]
  /\ starts \in 0..MaxStarts /\ losses \in 0..MaxLosses /\ shutdowns \in 0..starts

\* A message waits for a settlement exactly while one task is there to settle
\* it: none is stuck at the broker, and none is settled by two tasks, although
\* tasks of lost channels go on.
UnackedIsHandled ==
  /\ \A m \in Messages : status[m] = "unacked" <=> \E d \in live : msg[d] = m
  /\ \A d, e \in live : msg[d] = msg[e] => d = e

\* Until a shutdown begins, an event leaves the queue only after a handler did
\* its work, whichever channels were lost and processes crashed in between.
HandledBeforeAcked ==
  shutdowns = 0 => \A m \in Messages : status[m] = "acked" => m \in handled

\* An event is given to its handler once per channel at most: again only because
\* a channel was lost or the application was started again.
DuplicatesNeedLoss == \A m \in Messages : dispatched[m] <= starts + losses

\* Tasks of lost channels, restarts and shutdowns included, the subscriber is the
\* one consumer of a queue that delivers at least once.
Queue == INSTANCE MessageQueue WITH closing <- shutdowns > 0

RefinesMessageQueue == Queue!Spec

\* A message that can be processed is settled while there is a consumer, whatever
\* comes after it, unless an invalid message is ahead of it: that one is requeued
\* in its place for ever, and with the prefetch_count of 1 that the application
\* uses nothing behind it is delivered.
Settled ==
  \A m \in Messages :
    status[m] = "ready" /\ Kind[m] # "invalid"
      ~> \/ status[m] \in {"acked", "dropped"}
         \/ channel = "none"
         \/ \E n \in Messages : n < m /\ Kind[n] = "invalid" /\ status[n] # "dropped"

\* The docstring of EventSubscriber: "dispatches them via a MessageBus. Handles
\* retries with exponential backoff": no event is dropped when its handler fails.
AckedMeansHandled == \A m \in Messages : status[m] = "acked" => m \in handled
===============================================================================
