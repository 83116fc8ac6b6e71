---------------------------- MODULE TwoWayMapping -----------------------------
(***************************************************************************)
(* org.gwems.util.TwoWayMapping and its subclass HalfHashTwoWayMapping: a  *)
(* map from each item to a set of things and a map from each thing to a    *)
(* set of items, kept by hand.  Every method is synchronized, so each is   *)
(* one action.  A map is a function whose domain is the set of its keys:   *)
(* an absent key and a key with an empty set are different states.         *)
(*                                                                         *)
(* HalfHashTwoWayMapping finds keys by identity (HashMap) and members of   *)
(* the sets by compareTo (TreeSet), for agents the comparison of their     *)
(* keys.  Items are taken to be told apart by both in the same way, which  *)
(* is what "must be unique!" asks of an agent's key.                       *)
(*                                                                         *)
(* The mapping by itself is MapSpec; Subscriptions extends this module.    *)
(***************************************************************************)
CONSTANTS Items, Things

VARIABLES item2things, thing2items

maps == <<item2things, thing2items>>

Null == "null"          \* add() accepts null for either argument

ASSUME NullAssumption == Null \notin Items \cup Things

(* What the _get methods return: a copy, empty for an absent key.          *)
Get(map, k) == IF k \in DOMAIN map THEN map[k] ELSE {}
item2things_get(i) == Get(item2things, i)
thing2items_get(t) == Get(thing2items, t)

(* Mistakes for the mutants: a set that is already there is replaced; null *)
(* is added like a member.                                                 *)
OverwritingWith(map, k, v) ==
    [x \in DOMAIN map \cup {k} |-> IF x = k THEN {v} \ {Null} ELSE map[x]]
NullWith(map, k, v) ==
    [x \in DOMAIN map \cup {k} |-> IF x = k THEN Get(map, k) \cup {v} ELSE map[x]]

(* map with v, unless it is null, added to the set of k, which is created. *)
With(map, k, v) ==
    [x \in DOMAIN map \cup {k} |->
        IF x = k THEN Get(map, k) \cup ({v} \ {Null}) ELSE map[x]]

(* A mistake for the mutants: keys are kept when their set becomes empty.  *)
WithoutPruning(map, ks, v) ==
    [x \in DOMAIN map |-> IF x \in ks THEN map[x] \ {v} ELSE map[x]]

(* map with v taken out of the set of each key in ks; keys that end up     *)
(* with an empty set are removed.                                          *)
Without(map, ks, v) ==
    [x \in {y \in DOMAIN map : y \in ks => map[y] # {} /\ map[y] # {v}} |->
        IF x \in ks THEN map[x] \ {v} ELSE map[x]]

(* map with the key k removed                                              *)
WithoutKey(map, k) == [x \in DOMAIN map \ {k} |-> map[x]]

-------------------------------------------------------------------------------
MapInit == /\ item2things = [i \in {} |-> {}]
           /\ thing2items = [t \in {} |-> {}]

Add(i, t) == /\ item2things' = IF i = Null THEN item2things ELSE With(item2things, i, t)
             /\ thing2items' = IF t = Null THEN thing2items ELSE With(thing2items, t, i)

(* A mistake for the mutants: only the forward map is maintained.          *)
HalfRemove(i, t) == /\ item2things' = Without(item2things, {i}, t)
                    /\ UNCHANGED thing2items

Remove(i, t) == /\ item2things' = Without(item2things, {i}, t)
                /\ thing2items' = Without(thing2items, {t}, i)

(* removeItem(i) removes i from each of the things it copied first; after  *)
(* the last of them the key i is gone.  An item that never had a thing     *)
(* keeps its key.                                                          *)
RemoveItem(i) == /\ item2things' = IF item2things_get(i) = {} THEN item2things
                                                              ELSE WithoutKey(item2things, i)
                 /\ thing2items' = Without(thing2items, item2things_get(i), i)

RemoveThing(t) == /\ thing2items' = IF thing2items_get(t) = {} THEN thing2items
                                                               ELSE WithoutKey(thing2items, t)
                  /\ item2things' = Without(item2things, thing2items_get(t), t)

MapNext == \/ \E i \in Items \cup {Null}, t \in Things \cup {Null} : Add(i, t)
           \/ \E i \in Items, t \in Things : Remove(i, t)
           \/ \E i \in Items : RemoveItem(i)
           \/ \E t \in Things : RemoveThing(t)

MapSpec == MapInit /\ [][MapNext]_maps

-------------------------------------------------------------------------------
MapType(map, K, V) == /\ DOMAIN map \subseteq K
                      /\ map \in [DOMAIN map -> SUBSET V]

MapTypeOK == /\ MapType(item2things, Items, Things)
             /\ MapType(thing2items, Things, Items)

(* The two maps always tell the same story, so publishing (by channel) and *)
(* cleaning up after an agent (by agent) agree on who is subscribed.       *)
Inverse == \A i \in Items, t \in Things :
              t \in item2things_get(i) <=> i \in thing2items_get(t)

(* Unless a null was added, a key exists only while it has members: the    *)
(* maps do not grow with agents and channels that are gone.                *)
NoEmptySets ==
    [][\/ (\E i \in Items : Add(i, Null)) \/ (\E t \in Things : Add(Null, t))
       \/ /\ \A i \in DOMAIN item2things' :
                item2things'[i] = {} => i \in DOMAIN item2things /\ item2things[i] = {}
          /\ \A t \in DOMAIN thing2items' :
                thing2items'[t] = {} => t \in DOMAIN thing2items /\ thing2items[t] = {}]_maps

(* The mapping as a relation                                               *)
Relation == INSTANCE BinaryRelation
    WITH related <- {p \in Items \X Things : p[2] \in item2things_get(p[1])}

(* Every method does to the relation what its name says, and adding a null *)
(* does nothing to it.                                                     *)
IsARelation == Relation!RelSpec
===============================================================================
