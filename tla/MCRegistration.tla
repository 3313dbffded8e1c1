---------------------------- MODULE MCRegistration ----------------------------
(* Registration for TLC.  r1 and r2 want the same user name. *)
EXTENDS Registration, TLC

CONSTANTS r1, r2, r3, s1, s2

MCRequests == {r1, r2, r3}
MCKeys     == r1 :> {"ann", "a@x"} @@ r2 :> {"ann", "b@x"} @@ r3 :> {"cid", "c@x"}

OneService  == [r \in MCRequests |-> s1]
TwoServices == r1 :> s1 @@ r2 :> s2 @@ r3 :> s2
===============================================================================
