------------------------------- MODULE Accounts -------------------------------
(***************************************************************************)
(* What registration promises, over all service processes, their requests  *)
(* and their crashes: the set of users grows by one user in one step, and  *)
(* the answers agree with it.  A request that crashed is never answered,   *)
(* and one that failed may have registered its user or not.                *)
(***************************************************************************)
CONSTANTS Requests, Keys

VARIABLES
  users,     \* the requests whose user is registered
  notified,  \* those whose verification was requested, or given up
  answer     \* of each request, or "none"

vars == <<users, notified, answer>>

Init ==
  /\ users = {} /\ notified = {}
  /\ answer = [r \in Requests |-> "none"]

Clash(r) == \E u \in users : Keys[u] \cap Keys[r] # {}

Answer(r, a) ==
  /\ answer[r] = "none"
  /\ answer' = [answer EXCEPT ![r] = a]

Pending(r) == answer[r] = "none" /\ r \notin users

\* The check and the insertion are one step.
Register(r) ==
  /\ Pending(r)
  /\ ~Clash(r)
  /\ users' = users \union {r}
  /\ Answer(r, "failed") \/ UNCHANGED answer
  /\ UNCHANGED notified

Refuse(r) == Pending(r) /\ Clash(r) /\ Answer(r, "refused") /\ UNCHANGED <<users, notified>>

Fail(r) == Pending(r) /\ Answer(r, "failed") /\ UNCHANGED <<users, notified>>

\* Success is reported to registered users that have been dealt with.
Notify(e) ==
  /\ e \in users \/ answer[e] = "failed"
  /\ notified' = notified \union {e}
  /\ UNCHANGED answer \/ \E r \in users \cap notified' : Answer(r, "ok")
  /\ UNCHANGED users

Next == \E r \in Requests : Register(r) \/ Refuse(r) \/ Fail(r) \/ Notify(r)

Spec == Init /\ [][Next]_vars
===============================================================================
