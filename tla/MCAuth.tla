-------------------------------- MODULE MCAuth --------------------------------
(* Auth for TLC: a process in UTC, or a tick east or west of it. *)
EXTENDS Auth, TLC

MCOffsets == {-1, 0, 1}
===============================================================================
