---------------------------- MODULE ChannelLending ----------------------------
(***************************************************************************)
(* What the channel pool promises its tasks, whatever its cleanup, its     *)
(* cancelled tasks and the broker do: a channel is open when it is lent,   *)
(* one task at a time has it, and no more than Capacity are lent.  It is   *)
(* not promised to stay open: the broker and the cleanup may close it      *)
(* under the task, and aio_pika may open it again.                         *)
(***************************************************************************)
EXTENDS Integers, FiniteSets

CONSTANTS Tasks, Channels, None, Capacity

VARIABLES
  lent,  \* the channel of each task, or None
  open,  \* the channels that are open to the broker
  kept   \* how much of the capacity cancelled tasks have used up

vars == <<lent, open, kept>>

Borrowers == {t \in Tasks : lent[t] # None}

Lent(c) == \E t \in Borrowers : lent[t] = c

Init ==
  /\ lent = [t \in Tasks |-> None]
  /\ open = {}
  /\ kept = 0

Open(c) == c \notin open /\ open' = open \union {c}

Lend(t, c) ==
  /\ t \notin Borrowers /\ ~Lent(c)
  /\ Cardinality(Borrowers) + kept < Capacity
  /\ Open(c) \/ (c \in open /\ UNCHANGED open)
  /\ lent' = [lent EXCEPT ![t] = c]
  /\ UNCHANGED kept

Return(t) ==
  /\ t \in Borrowers
  /\ lent' = [lent EXCEPT ![t] = None]
  /\ kept' \in {kept, kept + 1}
  /\ UNCHANGED open

\* Channels are closed or lost; a channel opens again, or a new one is left open
\* for nobody.
Change == (open' \subseteq open \/ \E c \in Channels : Open(c)) /\ UNCHANGED <<lent, kept>>

Next == Change \/ \E t \in Tasks : Return(t) \/ \E c \in Channels : Lend(t, c)

Spec == Init /\ [][Next]_vars
===============================================================================
