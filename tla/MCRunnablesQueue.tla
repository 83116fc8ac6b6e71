--------------------------- MODULE MCRunnablesQueue ---------------------------
(* Two kinds of message and as many pool tasks as can be away from "idle"   *)
(* at a time, plus one: a task leaving, a task draining, a task spare.      *)
EXTENDS RunnablesQueue

CONSTANTS m1, m2, t1, t2, t3

MCRunnables == {m1, m2}
MCThreads == {t1, t2, t3}
===============================================================================
