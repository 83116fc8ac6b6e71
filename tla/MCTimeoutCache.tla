---------------------------- MODULE MCTimeoutCache ----------------------------
(* One key that a caller and callbacks re-time, or two of them.           *)
EXTENDS TimeoutCache

CONSTANTS k1, k2, c1, w1, w2

MCOneKey == {k1}
MCKeys == {k1, k2}
MCCallers == {c1}
MCWorkers == {w1, w2}
MCTtls == {0, 1}
MCNoCallbacks == {0}
MCCallbackLists == {0, 2}
===============================================================================
