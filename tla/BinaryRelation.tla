---------------------------- MODULE BinaryRelation ----------------------------
(***************************************************************************)
(* What a TwoWayMapping stands for: one relation between items and things, *)
(* which can be asked from either side.                                    *)
(***************************************************************************)
CONSTANTS Items, Things

VARIABLE related        \* the pairs <<item, thing>>

RelInit == related = {}

Relate(i, t) == related' = related \cup {<<i, t>>}
Unrelate(i, t) == related' = related \ {<<i, t>>}
DropItem(i) == related' = {p \in related : p[1] # i}
DropThing(t) == related' = {p \in related : p[2] # t}

RelNext == \/ \E i \in Items, t \in Things : Relate(i, t) \/ Unrelate(i, t)
           \/ \E i \in Items : DropItem(i)
           \/ \E t \in Things : DropThing(t)

RelSpec == RelInit /\ [][RelNext]_related
===============================================================================
