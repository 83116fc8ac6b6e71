------------------------------ MODULE MCTracker ------------------------------
(* Two axes, so that one coordinate can run out of digits before the other *)
(* and two levels, the larger of which has an origin of its own.           *)
EXTENDS Tracker

MCAxes == {"x", "z"}
At(x, z) == [a \in MCAxes |-> IF a = "x" THEN x ELSE z]
MCPositions == {At(1, 1), At(3, 0), At(6, -3), At(9, 1), At(-7, 6), At(119, -40), At(121, 0)}
===============================================================================
