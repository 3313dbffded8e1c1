--------------------------- MODULE SharedConnection ---------------------------
(***************************************************************************)
(* What the connection pool of RabbitMQConnectionManager amounts to: one   *)
(* connection in service, shared by every task that asks.  A task is given *)
(* the connection in service, or is the one that puts a new connection in  *)
(* service when there is none.  A connection that was retired may still be *)
(* in the hands of tasks that obtained it earlier, and no other object     *)
(* takes its identity as long as it is.                                    *)
(***************************************************************************)
CONSTANTS Tasks, Conns, NoConn

VARIABLES
  service,  \* the connections that can be handed out
  using     \* the connection each task was given, or NoConn

vars == <<service, using>>

Init ==
  /\ service = {}
  /\ using = [t \in Tasks |-> NoConn]

\* A task is given the connection in service.
Obtain(t) ==
  /\ using[t] = NoConn
  /\ \E c \in service : using' = [using EXCEPT ![t] = c]
  /\ UNCHANGED service

\* A task finds no connection in service and puts a new one there.
Install(t, c) ==
  /\ using[t] = NoConn
  /\ service = {}
  /\ \A u \in Tasks : using[u] # c
  /\ service' = {c}
  /\ using' = [using EXCEPT ![t] = c]

\* The connection in service is taken out of it.
Retire ==
  /\ service' = {}
  /\ UNCHANGED using

\* A task gives its connection back.
Leave(t) ==
  /\ using' = [using EXCEPT ![t] = NoConn]
  /\ UNCHANGED service

Next ==
  \/ \E t \in Tasks : Obtain(t) \/ Leave(t)
  \/ \E t \in Tasks, c \in Conns : Install(t, c)
  \/ Retire

Spec == Init /\ [][Next]_vars
===============================================================================
