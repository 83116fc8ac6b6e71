---------------------------- MODULE MCSessionAgent ----------------------------
(* Two messages for each queue: one that runs while another waits, on both *)
(* sides of the monitor.                                                   *)
EXTENDS SessionAgent

CONSTANTS t1, t2, t3

MCThreads == {t1, t2, t3}
MCOutcomes == {"returns", "exception", "error"}
(* A thread nobody has used, and one that another client's message left.   *)
MCLeftovers == {Blank, [agent |-> "other", channel |-> TRUE]}
===============================================================================
