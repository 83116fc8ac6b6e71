----------------------------- MODULE MCPublishTree -----------------------------
(* A root, a server in the middle and three leaves, two of them below the  *)
(* middle, and two sessions on one of the leaves: messages pass between     *)
(* neighbours, siblings and cousins.                                       *)
EXTENDS PublishTree

CONSTANTS r, mid, l1, l2, l3, a1, a2, a3, b1, m1

TallServers == {r, mid, l1, l2, l3}
TallParent == [s \in TallServers |-> CASE s = r -> NoServer
                                      [] s \in {mid, l3} -> r
                                      [] s \in {l1, l2} -> mid]
OnEachLeaf == {a1, a2, a3, b1}
OnEachLeafHome == [a \in OnEachLeaf |-> CASE a \in {a1, b1} -> l1 [] a = a2 -> l2 [] a = a3 -> l3]

OneMessage == {m1}
================================================================================
