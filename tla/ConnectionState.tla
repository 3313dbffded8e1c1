---------------------------- MODULE ConnectionState ----------------------------
(***************************************************************************)
(* What the rest of RabbitMQConnectionManager sees of its connection pool: *)
(* whether there is a connection, and the flag of the circuit breaker.     *)
(* ConnectionPool implements it; Manager is built on it.                   *)
(***************************************************************************)
VARIABLES
  connection,  \* the pooled connection: "none", "open" (or reconnecting), or
               \* "lost": ended, but still pooled
  tripped      \* circuit_breaker_open

vars == <<connection, tripped>>

Init == connection = "none" /\ tripped = FALSE

\* get_connection() returns an open connection, the pooled one or a new one.
Obtain == connection' = "open" /\ tripped' = FALSE

\* The breaker refuses, or an attempt fails and is counted.
CannotObtain ==
  /\ connection # "open"
  /\ connection' = "none"
  /\ tripped' \in BOOLEAN

\* An expired connection leaves the pool.
Retire == connection = "open" /\ connection' = "none" /\ UNCHANGED tripped

Lose == connection = "open" /\ connection' = "lost" /\ UNCHANGED tripped

Next == Obtain \/ CannotObtain \/ Retire \/ Lose

Spec == Init /\ [][Next]_vars
===============================================================================
