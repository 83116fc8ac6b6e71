---------------------------- MODULE MCSubscriptions ---------------------------
(* Two sessions that may work on the same channel at the same time are the *)
(* least in which one's last unsubscribe meets another's first subscribe.  *)
EXTENDS Subscriptions, TLC

CONSTANTS a1, a2, ch1, ch2

OneAgent == {a1}
TwoAgents == {a1, a2}
OneChannel == {ch1}
TwoChannels == {ch1, ch2}
NoExpiry == {"subscribe", "unsubscribe"}

Interchangeable == Permutations(Agents) \cup Permutations(Channels)
===============================================================================
