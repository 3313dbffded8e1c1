--------------------------- MODULE MCConnectionPool ---------------------------
(* ConnectionPool for TLC: tasks and connections are interchangeable. *)
EXTENDS ConnectionPool, TLC

Symmetry == Permutations(Tasks) \union Permutations(Conns)
===============================================================================
