------------------------------- MODULE MCUplink -------------------------------
(* Two callers and room for two strings: with one in the thread's hand two *)
(* wait in the queue and a fourth caller finds no room.                    *)
EXTENDS Uplink

CONSTANTS c1, c2

MCCallers == {c1, c2}
MCKinds == AllKinds
===============================================================================
