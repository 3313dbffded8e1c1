----------------------------- MODULE MessageQueue -----------------------------
(***************************************************************************)
(* What the queue and its consumer promise, over all restarts and losses   *)
(* of channels: messages are delivered in order, a limited number at a     *)
(* time, each again and again until it is settled; no event is dropped,    *)
(* and until a shutdown begins none is acknowledged before it was handled. *)
(***************************************************************************)
EXTENDS Integers, FiniteSets

CONSTANTS Messages, Kind, Prefetch

VARIABLES
  status,   \* where each message is
  handled,  \* the events a handler has finished with
  closing   \* a shutdown has begun

vars == <<status, handled, closing>>

In(s) == {m \in Messages : status[m] = s}

Init ==
  /\ status = [m \in Messages |-> "unborn"]
  /\ handled = {}
  /\ closing = FALSE

Move(m, from, to) ==
  /\ m \in In(from)
  /\ status' = [status EXCEPT ![m] = to]
  /\ UNCHANGED <<handled, closing>>

Publish(m) == Move(m, "unborn", "ready") /\ \A n \in In("unborn") : m <= n

Deliver(m) ==
  /\ Move(m, "ready", "unacked")
  /\ \A n \in In("ready") : m <= n
  /\ Cardinality(In("unacked")) < Prefetch

\* A handler may go on with a message that was taken back or settled meanwhile.
Handle(m) ==
  /\ Kind[m] = "event" /\ m \notin In("unborn")
  /\ handled' = handled \union {m}
  /\ UNCHANGED <<status, closing>>

Ack(m) ==
  /\ Kind[m] = "event" /\ (m \in handled \/ closing)
  /\ Move(m, "unacked", "acked")

Drop(m) == Kind[m] # "event" /\ Move(m, "unacked", "dropped")

Requeue(m) == Kind[m] = "invalid" /\ Move(m, "unacked", "ready")

TakeBack ==
  /\ status' = [m \in Messages |-> IF status[m] = "unacked" THEN "ready" ELSE status[m]]
  /\ UNCHANGED <<handled, closing>>

Close == closing' = TRUE /\ UNCHANGED <<status, handled>>

Next ==
  \/ \E m \in Messages :
       Publish(m) \/ Deliver(m) \/ Handle(m) \/ Ack(m) \/ Drop(m) \/ Requeue(m)
  \/ TakeBack \/ Close

Spec == Init /\ [][Next]_vars
===============================================================================
