---------------------------- MODULE MCTwoWayMapping ---------------------------
(* Three items and two things: sets that shrink to one, to none, and grow. *)
EXTENDS TwoWayMapping, TLC

CONSTANTS i1, i2, i3, th1, th2

MCItems == {i1, i2, i3}
MCThings == {th1, th2}
===============================================================================
