---------------------------- MODULE MCChannelPool ----------------------------
(* ChannelPool for TLC: tasks and channels are interchangeable. *)
EXTENDS ChannelPool, TLC

Symmetry == Permutations(Tasks) \union Permutations(Channels)
===============================================================================
