------------------------------ MODULE MCDelivery ------------------------------
(* Delivery for TLC: messages of each kind before and behind an invalid one. *)
EXTENDS Delivery, TLC

MCMessages == 1..4
MCKind == <<"event", "unknown", "invalid", "event">>
===============================================================================
