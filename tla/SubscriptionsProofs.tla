------------------------- MODULE SubscriptionsProofs --------------------------
(***************************************************************************)
(* Theorems about Subscriptions and about the TwoWayMapping it keeps its   *)
(* subscribers in, for every set of agents and of channels.                *)
(*                                                                         *)
(* The first part is about the mapping by itself, its methods called in    *)
(* any order (MapSpec).  Its lemmas say what the methods do to what the    *)
(* _get methods return; the second part rests on those.                    *)
(***************************************************************************)
EXTENDS Subscriptions, TLAPS

(* An agent is an item of the mapping, a channel a thing.                  *)
USE DEF Agents, Channels

-------------------------------------------------------------------------------
(* After add: the set of the key has grown by v, no other set has changed. *)
LEMMA GetWith ==
    ASSUME NEW map, NEW k, NEW v, NEW j
    PROVE  Get(With(map, k, v), j) = IF j = k THEN Get(map, k) \cup ({v} \ {Null})
                                              ELSE Get(map, j)
  BY DEF Get, With

(* After remove: the sets of the keys in ks have lost v, even those whose  *)
(* key is gone because nothing was left.                                   *)
LEMMA GetWithout ==
    ASSUME NEW map, NEW ks, NEW v, NEW j
    PROVE  Get(Without(map, ks, v), j) = IF j \in ks THEN Get(map, j) \ {v} ELSE Get(map, j)
  <1> DEFINE kept == {y \in DOMAIN map : y \in ks => map[y] # {} /\ map[y] # {v}}
  <1>1. Without(map, ks, v) = [x \in kept |-> IF x \in ks THEN map[x] \ {v} ELSE map[x]]
    BY DEF Without
  <1>2. CASE j \in kept
    BY <1>1, <1>2 DEF Get
  <1>3. CASE j \notin kept
    <2>1. Get(Without(map, ks, v), j) = {}
      BY <1>1, <1>3 DEF Get
    <2>2. CASE j \notin DOMAIN map
      BY <2>1, <2>2 DEF Get
    <2>3. CASE j \in DOMAIN map
      <3>1. j \in ks /\ (map[j] = {} \/ map[j] = {v})
        BY <1>3, <2>3
      <3>2. Get(map, j) \ {v} = {}
        BY <2>3, <3>1 DEF Get
      <3> QED BY <2>1, <3>1, <3>2
    <2> QED BY <2>2, <2>3
  <1> QED BY <1>2, <1>3

(* After the key k is removed its set is empty.                            *)
LEMMA GetWithoutKey ==
    ASSUME NEW map, NEW k, NEW j
    PROVE  Get(WithoutKey(map, k), j) = IF j = k THEN {} ELSE Get(map, j)
  BY DEF Get, WithoutKey

(* The three kinds of change keep a map a map of the same type.            *)
LEMMA ChangesKeepType ==
    ASSUME NEW K, NEW V, NEW map, MapType(map, K, V)
    PROVE  /\ \A k \in K, v \in V \cup {Null} : MapType(With(map, k, v), K, V)
           /\ \A ks, v : MapType(Without(map, ks, v), K, V)
           /\ \A k : MapType(WithoutKey(map, k), K, V)
  <1>1. ASSUME NEW k \in K, NEW v \in V \cup {Null}
        PROVE  MapType(With(map, k, v), K, V)
    <2>1. Get(map, k) \in SUBSET V
      BY DEF MapType, Get
    <2>2. Get(map, k) \cup ({v} \ {Null}) \in SUBSET V
      BY <2>1
    <2> QED BY <2>2 DEF MapType, With
  <1>2. ASSUME NEW ks, NEW v
        PROVE  MapType(Without(map, ks, v), K, V)
    BY DEF MapType, Without
  <1>3. ASSUME NEW k
        PROVE  MapType(WithoutKey(map, k), K, V)
    BY DEF MapType, WithoutKey
  <1> QED BY <1>1, <1>2, <1>3

-------------------------------------------------------------------------------
(* add, remove, removeItem and removeThing, seen through the _get methods. *)
LEMMA AddGets ==
    ASSUME NEW i \in Items \cup {Null}, NEW t \in Things \cup {Null}, Add(i, t)
    PROVE  /\ \A j \in Items : item2things_get(j)' =
                  IF j = i THEN item2things_get(j) \cup ({t} \ {Null}) ELSE item2things_get(j)
           /\ \A u \in Things : thing2items_get(u)' =
                  IF u = t THEN thing2items_get(u) \cup ({i} \ {Null}) ELSE thing2items_get(u)
  <1> USE NullAssumption
  <1>1. CASE i = Null
    BY <1>1, GetWith DEF Add, item2things_get, thing2items_get
  <1>2. CASE t = Null
    BY <1>2, GetWith DEF Add, item2things_get, thing2items_get
  <1>3. CASE i # Null /\ t # Null
    BY <1>3, GetWith DEF Add, item2things_get, thing2items_get
  <1> QED BY <1>1, <1>2, <1>3

LEMMA RemoveGets ==
    ASSUME NEW i \in Items, NEW t \in Things, Remove(i, t)
    PROVE  /\ \A j \in Items : item2things_get(j)' =
                  IF j = i THEN item2things_get(j) \ {t} ELSE item2things_get(j)
           /\ \A u \in Things : thing2items_get(u)' =
                  IF u = t THEN thing2items_get(u) \ {i} ELSE thing2items_get(u)
  <1>1. \A j \in Items : Get(item2things', j) =
            IF j = i THEN Get(item2things, j) \ {t} ELSE Get(item2things, j)
    BY GetWithout DEF Remove
  <1>2. \A u \in Things : Get(thing2items', u) =
            IF u = t THEN Get(thing2items, u) \ {i} ELSE Get(thing2items, u)
    BY GetWithout DEF Remove
  <1> QED BY <1>1, <1>2 DEF item2things_get, thing2items_get, Get

LEMMA RemoveItemGets ==
    ASSUME NEW i \in Items, RemoveItem(i)
    PROVE  /\ \A j \in Items : item2things_get(j)' = IF j = i THEN {} ELSE item2things_get(j)
           /\ \A u \in Things : thing2items_get(u)' =
                  IF u \in item2things_get(i) THEN thing2items_get(u) \ {i}
                                              ELSE thing2items_get(u)
  <1>1. \A j \in Items : Get(item2things', j) = IF j = i THEN {} ELSE Get(item2things, j)
    BY GetWithoutKey DEF RemoveItem, item2things_get
  <1>2. \A u \in Things : Get(thing2items', u) =
            IF u \in Get(item2things, i) THEN Get(thing2items, u) \ {i}
                                        ELSE Get(thing2items, u)
    BY GetWithout DEF RemoveItem, item2things_get
  <1> QED BY <1>1, <1>2 DEF item2things_get, thing2items_get, Get

LEMMA RemoveThingGets ==
    ASSUME NEW t \in Things, RemoveThing(t)
    PROVE  /\ \A u \in Things : thing2items_get(u)' = IF u = t THEN {} ELSE thing2items_get(u)
           /\ \A j \in Items : item2things_get(j)' =
                  IF j \in thing2items_get(t) THEN item2things_get(j) \ {t}
                                              ELSE item2things_get(j)
  <1>1. \A u \in Things : Get(thing2items', u) = IF u = t THEN {} ELSE Get(thing2items, u)
    BY GetWithoutKey DEF RemoveThing, thing2items_get
  <1>2. \A j \in Items : Get(item2things', j) =
            IF j \in Get(thing2items, t) THEN Get(item2things, j) \ {t}
                                        ELSE Get(item2things, j)
    BY GetWithout DEF RemoveThing, thing2items_get
  <1> QED BY <1>1, <1>2 DEF item2things_get, thing2items_get, Get

-------------------------------------------------------------------------------
MapIInv == MapTypeOK /\ Inverse

LEMMA InitMapIInv == MapInit => MapIInv
  BY DEF MapInit, MapIInv, MapTypeOK, MapType, Inverse, item2things_get, thing2items_get, Get

LEMMA NextMapTypeOK == MapTypeOK /\ [MapNext]_maps => MapTypeOK'
  <1> SUFFICES ASSUME MapTypeOK, [MapNext]_maps PROVE MapTypeOK'
    OBVIOUS
  <1> USE DEF MapTypeOK
  <1>1. ASSUME NEW i \in Items \cup {Null}, NEW t \in Things \cup {Null}, Add(i, t)
        PROVE  MapTypeOK'
    <2>1. MapType(item2things', Items, Things)
      BY <1>1, ChangesKeepType DEF Add
    <2>2. MapType(thing2items', Things, Items)
      BY <1>1, ChangesKeepType DEF Add
    <2> QED BY <2>1, <2>2 DEF MapType
  <1>2. ASSUME NEW i \in Items, NEW t \in Things, Remove(i, t)
        PROVE  MapTypeOK'
    <2>1. MapType(item2things', Items, Things) /\ MapType(thing2items', Things, Items)
      BY <1>2, ChangesKeepType DEF Remove
    <2> QED BY <2>1 DEF MapType
  <1>3. ASSUME NEW i \in Items, RemoveItem(i)
        PROVE  MapTypeOK'
    <2>1. MapType(item2things', Items, Things) /\ MapType(thing2items', Things, Items)
      BY <1>3, ChangesKeepType DEF RemoveItem
    <2> QED BY <2>1 DEF MapType
  <1>4. ASSUME NEW t \in Things, RemoveThing(t)
        PROVE  MapTypeOK'
    <2>1. MapType(item2things', Items, Things) /\ MapType(thing2items', Things, Items)
      BY <1>4, ChangesKeepType DEF RemoveThing
    <2> QED BY <2>1 DEF MapType
  <1>5. CASE UNCHANGED maps
    BY <1>5 DEF maps, MapType
  <1> QED BY <1>1, <1>2, <1>3, <1>4, <1>5 DEF MapNext

LEMMA NextInverse == MapIInv /\ [MapNext]_maps => Inverse'
  <1> SUFFICES ASSUME MapIInv, [MapNext]_maps,
                      NEW j \in Items, NEW u \in Things
               PROVE  (u \in item2things_get(j) <=> j \in thing2items_get(u))'
    BY DEF Inverse
  <1>0. u \in item2things_get(j) <=> j \in thing2items_get(u)
    BY DEF MapIInv, Inverse
  <1>1. ASSUME NEW i \in Items \cup {Null}, NEW t \in Things \cup {Null}, Add(i, t)
        PROVE  (u \in item2things_get(j) <=> j \in thing2items_get(u))'
    BY <1>0, <1>1, AddGets, NullAssumption
  <1>2. ASSUME NEW i \in Items, NEW t \in Things, Remove(i, t)
        PROVE  (u \in item2things_get(j) <=> j \in thing2items_get(u))'
    BY <1>0, <1>2, RemoveGets
  <1>3. ASSUME NEW i \in Items, RemoveItem(i)
        PROVE  (u \in item2things_get(j) <=> j \in thing2items_get(u))'
    BY <1>0, <1>3, RemoveItemGets
  <1>4. ASSUME NEW t \in Things, RemoveThing(t)
        PROVE  (u \in item2things_get(j) <=> j \in thing2items_get(u))'
    BY <1>0, <1>4, RemoveThingGets
  <1>5. CASE UNCHANGED maps
    BY <1>0, <1>5 DEF maps, item2things_get, thing2items_get
  <1> QED BY <1>1, <1>2, <1>3, <1>4, <1>5 DEF MapNext

(* The inductive invariant holds.                                          *)
THEOREM MapInvariance == MapSpec => []MapIInv
  <1>1. MapIInv /\ [MapNext]_maps => MapIInv'
    BY NextMapTypeOK, NextInverse DEF MapIInv
  <1> QED BY InitMapIInv, <1>1, PTL DEF MapSpec

(* The two maps of TwoWayMapping keep their types: keys are items and      *)
(* things, and a null is never a member.                                   *)
THEOREM MapTypeCorrect == MapSpec => []MapTypeOK
  BY MapInvariance, PTL DEF MapIInv

(* add, remove, removeItem and removeThing keep the two maps inverses of   *)
(* each other.                                                             *)
THEOREM MapsAreInverse == MapSpec => []Inverse
  BY MapInvariance, PTL DEF MapIInv

-------------------------------------------------------------------------------
(* No key of map holds an empty set that did not hold one in old.          *)
NoNewEmptySet(old, map) == \A k \in DOMAIN map : map[k] = {} => k \in DOMAIN old /\ old[k] = {}

(* Only With of a null makes an empty set.                                 *)
LEMMA ChangesMakeNoEmptySet ==
    ASSUME NEW map
    PROVE  /\ \A k, v : v # Null => NoNewEmptySet(map, With(map, k, v))
           /\ \A ks, v : NoNewEmptySet(map, Without(map, ks, v))
           /\ \A k : NoNewEmptySet(map, WithoutKey(map, k))
           /\ NoNewEmptySet(map, map)
  <1>1. ASSUME NEW k, NEW v, v # Null
        PROVE  NoNewEmptySet(map, With(map, k, v))
    BY <1>1 DEF NoNewEmptySet, With, Get
  <1>2. ASSUME NEW ks, NEW v
        PROVE  NoNewEmptySet(map, Without(map, ks, v))
    BY DEF NoNewEmptySet, Without
  <1>3. ASSUME NEW k
        PROVE  NoNewEmptySet(map, WithoutKey(map, k))
    BY DEF NoNewEmptySet, WithoutKey
  <1>4. NoNewEmptySet(map, map)
    BY DEF NoNewEmptySet
  <1> QED  BY <1>1, <1>2, <1>3, <1>4

(* Neither map keeps a key whose set has become empty: it takes an add of  *)
(* null to make a key without members, whatever the order of the calls.    *)
THEOREM NoEmptySetsAppear == MapSpec => NoEmptySets
  <1> DEFINE NullAdded == (\E i \in Items : Add(i, Null)) \/ (\E t \in Things : Add(Null, t))
             NoneNew == /\ NoNewEmptySet(item2things, item2things')
                        /\ NoNewEmptySet(thing2items, thing2items')
  <1>1. ASSUME NEW i \in Items \cup {Null}, NEW t \in Things \cup {Null}, Add(i, t)
        PROVE  NullAdded \/ NoneNew
    <2>1. CASE i # Null /\ t # Null
      BY <1>1, <2>1, ChangesMakeNoEmptySet DEF Add
    <2>2. CASE i = Null /\ t = Null
      BY <1>1, <2>2, ChangesMakeNoEmptySet DEF Add
    <2>3. CASE i # Null /\ t = Null
      BY <1>1, <2>3
    <2>4. CASE i = Null /\ t # Null
      BY <1>1, <2>4
    <2> QED  BY <2>1, <2>2, <2>3, <2>4
  <1>2. ASSUME NEW i \in Items, NEW t \in Things, Remove(i, t)
        PROVE  NoneNew
    BY <1>2, ChangesMakeNoEmptySet DEF Remove
  <1>3. ASSUME NEW i \in Items, RemoveItem(i)
        PROVE  NoneNew
    BY <1>3, ChangesMakeNoEmptySet DEF RemoveItem
  <1>4. ASSUME NEW t \in Things, RemoveThing(t)
        PROVE  NoneNew
    BY <1>4, ChangesMakeNoEmptySet DEF RemoveThing
  <1>5. [MapNext]_maps => [NullAdded \/ NoneNew]_maps
    BY <1>1, <1>2, <1>3, <1>4 DEF MapNext
  <1>6. [NullAdded \/ NoneNew]_maps
            => [\/ NullAdded
                \/ /\ \A i \in DOMAIN item2things' :
                         item2things'[i] = {} => i \in DOMAIN item2things /\ item2things[i] = {}
                   /\ \A t \in DOMAIN thing2items' :
                         thing2items'[t] = {} => t \in DOMAIN thing2items /\ thing2items[t] = {}]_maps
    BY DEF NoNewEmptySet
  <1> QED  BY <1>5, <1>6, PTL DEF MapSpec, NoEmptySets

-------------------------------------------------------------------------------
(* TwoWayMapping implements one relation: each method does to the set of   *)
(* pairs what its name says, and adding a null leaves the pairs alone.     *)
pairs == {p \in Items \X Things : p[2] \in item2things_get(p[1])}

LEMMA InitRelation == MapInit => pairs = {}
  BY DEF MapInit, pairs, item2things_get, Get

LEMMA NextRelation == MapIInv /\ [MapNext]_maps => [Relation!RelNext]_pairs
  <1> SUFFICES ASSUME MapIInv, [MapNext]_maps PROVE [Relation!RelNext]_pairs
    OBVIOUS
  <1> USE DEF pairs, Relation!RelNext
  <1>1. ASSUME NEW i \in Items \cup {Null}, NEW t \in Things \cup {Null}, Add(i, t)
        PROVE  [Relation!RelNext]_pairs
    <2>1. \A j \in Items : item2things_get(j)' =
             IF j = i THEN item2things_get(j) \cup ({t} \ {Null}) ELSE item2things_get(j)
      BY <1>1, AddGets
    <2>2. CASE i \in Items /\ t \in Things
      <3>1. pairs' = pairs \cup {<<i, t>>}
        BY <2>1, <2>2, NullAssumption
      <3> QED BY <2>2, <3>1 DEF Relation!Relate
    <2>3. CASE i = Null \/ t = Null
      BY <2>1, <2>3, NullAssumption
    <2> QED BY <2>2, <2>3
  <1>2. ASSUME NEW i \in Items, NEW t \in Things, Remove(i, t)
        PROVE  [Relation!RelNext]_pairs
    <2>1. pairs' = pairs \ {<<i, t>>}
      BY <1>2, RemoveGets
    <2> QED BY <2>1 DEF Relation!Unrelate
  <1>3. ASSUME NEW i \in Items, RemoveItem(i)
        PROVE  [Relation!RelNext]_pairs
    <2>1. pairs' = {p \in pairs : p[1] # i}
      BY <1>3, RemoveItemGets
    <2> QED BY <2>1 DEF Relation!DropItem
  <1>4. ASSUME NEW t \in Things, RemoveThing(t)
        PROVE  [Relation!RelNext]_pairs
    <2>1. \A j \in Items : item2things_get(j)' = item2things_get(j) \ {t}
      BY <1>4, RemoveThingGets DEF MapIInv, Inverse
    <2>2. pairs' = {p \in pairs : p[2] # t}
      BY <2>1
    <2> QED BY <2>2 DEF Relation!DropThing
  <1>5. CASE UNCHANGED maps
    BY <1>5 DEF maps, item2things_get
  <1> QED BY <1>1, <1>2, <1>3, <1>4, <1>5 DEF MapNext

(* Every behaviour of TwoWayMapping is one of BinaryRelation.              *)
THEOREM ImplementsBinaryRelation == MapSpec => IsARelation
  <1>1. MapInit => Relation!RelInit
    BY InitRelation DEF Relation!RelInit, pairs
  <1>2. MapIInv /\ [MapNext]_maps => [Relation!RelNext]_pairs
    BY NextRelation
  <1> QED BY <1>1, <1>2, MapInvariance, PTL DEF MapSpec, IsARelation, Relation!RelSpec, pairs

-------------------------------------------------------------------------------
(* The parent will be sending c to this server once it has handled all     *)
(* that is on the link: the last message about c, if any, is a Sub.        *)
About(message, c) == [message |-> message, channel |-> c]
WillBeSent(c) ==
    \/ /\ c \in upstream
       /\ \A i \in 1..Len(link) : link[i] # About("Unsub", c)
    \/ \E i \in 1..Len(link) : /\ link[i] = About("Sub", c)
                               /\ \A j \in 1..Len(link) : j > i => link[j] # About("Unsub", c)

(* Process p has still to add a subscriber to c, or to look for one.       *)
Concerned(p, c) == \/ pc[p] \in {"add", "get", "unsub"} /\ channel[p] = c
                   \/ c \in todo[p]

(* A channel nobody listens to is sent only as long as somebody is about   *)
(* to find that out.                                                       *)
SomebodyLooks == \A c \in Channels :
    WillBeSent(c) /\ Subscribers(c) = {} => \E p \in Procs : Concerned(p, c)

(* A silent session rests; its cleanup knows of all of its channels until  *)
(* it has none.                                                            *)
CleanupKnows ==
    /\ expired \subseteq Agents
    /\ \A a \in Agents :
         /\ a \in expired => pc[<<a, "session">>] = "idle"
         /\ pc[<<a, "cleanup">>] = "removeItem"
               => a \in expired /\ ChannelsOf(a) \subseteq todo[<<a, "cleanup">>]
         /\ pc[<<a, "cleanup">>] # "removeItem" /\ a \in expired => ChannelsOf(a) = {}

(* Where the processes are, and what they have in their hands.             *)
ProcsShape == /\ pc \in [Procs -> {"idle", "sub", "add", "removeItem", "get", "unsub"}]
              /\ channel \in [Procs -> Channels \cup {NoChannel}]
              /\ todo \in [Procs -> SUBSET Channels]
              /\ \A p \in Procs : pc[p] = "idle" => todo[p] = {}
              /\ \A p \in Procs : pc[p] \in {"sub", "add", "get", "unsub"}
                                        => channel[p] \in Channels

LinkShape == /\ link \in Seq([message : {"Sub", "Unsub"}, channel : Channels])
             /\ upstream \subseteq Channels

ChannelsShape == \A a \in Agents : ChannelsOf(a) \subseteq Channels

Shape == ProcsShape /\ LinkShape /\ ChannelsShape

IInv == Shape /\ Inverse /\ (SilentWhenExpired => CleanupKnows /\ SomebodyLooks)

-------------------------------------------------------------------------------
(* What the calls on session2channel do, as the _get methods show it.      *)
LEMMA AfterAdd ==
    ASSUME NEW a \in Agents, NEW c \in Channels, Add(a, c)
    PROVE  /\ \A b \in Agents : ChannelsOf(b)' =
                  IF b = a THEN ChannelsOf(b) \cup {c} ELSE ChannelsOf(b)
           /\ \A d \in Channels : Subscribers(d)' =
                  IF d = c THEN Subscribers(d) \cup {a} ELSE Subscribers(d)
  BY AddGets, NullAssumption DEF ChannelsOf, Subscribers

LEMMA AfterRemove ==
    ASSUME NEW a \in Agents, NEW c \in Channels, Remove(a, c)
    PROVE  /\ \A b \in Agents : ChannelsOf(b)' =
                  IF b = a THEN ChannelsOf(b) \ {c} ELSE ChannelsOf(b)
           /\ \A d \in Channels : Subscribers(d)' =
                  IF d = c THEN Subscribers(d) \ {a} ELSE Subscribers(d)
  BY RemoveGets DEF ChannelsOf, Subscribers

LEMMA AfterRemoveItem ==
    ASSUME NEW a \in Agents, RemoveItem(a)
    PROVE  /\ \A b \in Agents : ChannelsOf(b)' = IF b = a THEN {} ELSE ChannelsOf(b)
           /\ \A d \in Channels : Subscribers(d)' =
                  IF d \in ChannelsOf(a) THEN Subscribers(d) \ {a} ELSE Subscribers(d)
  BY RemoveItemGets DEF ChannelsOf, Subscribers

LEMMA AfterNothing ==
    ASSUME UNCHANGED maps
    PROVE  /\ \A a : ChannelsOf(a)' = ChannelsOf(a)
           /\ \A c : Subscribers(c)' = Subscribers(c)
  BY DEF maps, ChannelsOf, Subscribers, item2things_get,
         thing2items_get, Get

-------------------------------------------------------------------------------
(* What becomes of WillBeSent when a message is sent, and when the parent  *)
(* handles one.                                                            *)
LEMMA AfterSend ==
    ASSUME LinkShape, NEW message \in {"Sub", "Unsub"}, NEW c \in Channels,
           Send(message, c), upstream' = upstream, NEW d \in Channels, WillBeSent(d)'
    PROVE  /\ WillBeSent(d) \/ d = c
           /\ message = "Unsub" => d # c
  <1>1. /\ Len(link) \in Nat /\ Len(link') = Len(link) + 1
        /\ \A i \in 1..Len(link) : link'[i] = link[i]
        /\ link'[Len(link) + 1] = About(message, c)
    BY DEF LinkShape, Send, About
  <1>2. CASE /\ d \in upstream
             /\ \A i \in 1..Len(link') : link'[i] # About("Unsub", d)
    BY <1>1, <1>2 DEF WillBeSent, About
  <1>3. CASE \E i \in 1..Len(link') :
                /\ link'[i] = About("Sub", d)
                /\ \A j \in 1..Len(link') : j > i => link'[j] # About("Unsub", d)
    <2>1. PICK i \in 1..Len(link') :
                /\ link'[i] = About("Sub", d)
                /\ \A j \in 1..Len(link') : j > i => link'[j] # About("Unsub", d)
      BY <1>3
    <2>2. CASE i = Len(link) + 1
      BY <1>1, <2>1, <2>2 DEF About
    <2>3. CASE i # Len(link) + 1
      <3>1. i \in 1..Len(link) /\ Len(link) + 1 > i /\ Len(link) + 1 \in 1..Len(link')
        BY <1>1, <2>3
      <3>2. link[i] = About("Sub", d)
        BY <1>1, <2>1, <3>1
      <3>3. ASSUME NEW j \in 1..Len(link), j > i PROVE link[j] # About("Unsub", d)
        BY <1>1, <2>1, <3>3
      <3>4. WillBeSent(d)
        BY <3>1, <3>2, <3>3 DEF WillBeSent
      <3>5. About(message, c) # About("Unsub", d)
        BY <1>1, <2>1, <3>1
      <3> QED  BY <3>4, <3>5
    <2> QED  BY <2>2, <2>3
  <1> QED  BY <1>2, <1>3 DEF WillBeSent

LEMMA AfterHandling ==
    ASSUME LinkShape, ParentHandles, NEW d \in Channels, WillBeSent(d)'
    PROVE  WillBeSent(d)
  <1>1. /\ Len(link) \in Nat \ {0} /\ Len(link') = Len(link) - 1
        /\ \A i \in 1..Len(link') : link'[i] = link[i + 1]
        /\ Head(link) = link[1]
        /\ link[1] = About(link[1].message, link[1].channel)
        /\ link[1].message \in {"Sub", "Unsub"}
    <2>1. link # << >> /\ link' = Tail(link)
      BY DEF ParentHandles
    <2>2. link[1] \in [message : {"Sub", "Unsub"}, channel : Channels]
      <3> DEFINE M == [message : {"Sub", "Unsub"}, channel : Channels]
      <3>1. link \in Seq(M)
        BY DEF LinkShape
      <3> HIDE DEF M
      <3>2. link[1] \in M
        BY <2>1, <3>1
      <3> QED  BY <3>2 DEF M
    <2>3. /\ link[1] = About(link[1].message, link[1].channel)
          /\ link[1].message \in {"Sub", "Unsub"}
      BY <2>2 DEF About
    <2>4. /\ Len(link) \in Nat \ {0} /\ Len(link') = Len(link) - 1
          /\ \A i \in 1..Len(link') : link'[i] = link[i + 1]
          /\ Head(link) = link[1]
      <3> DEFINE M == [message : {"Sub", "Unsub"}, channel : Channels]
      <3>1. link \in Seq(M)
        BY DEF LinkShape
      <3> HIDE DEF M
      <3> QED  BY <2>1, <3>1
    <2> QED  BY <2>3, <2>4
  <1>2. CASE /\ d \in upstream'
             /\ \A i \in 1..Len(link') : link'[i] # About("Unsub", d)
    <2>1. \A i \in 1..Len(link) : i > 1 => link[i] # About("Unsub", d)
      <3> SUFFICES ASSUME NEW i \in 1..Len(link), i > 1 PROVE link[i] # About("Unsub", d)
        OBVIOUS
      <3>1. i - 1 \in 1..Len(link') /\ (i - 1) + 1 = i
        BY <1>1
      <3> QED  BY <1>1, <1>2, <3>1
    <2>2. CASE link[1] = About("Sub", d)
      BY <1>1, <2>1, <2>2 DEF WillBeSent
    <2>3. CASE link[1] # About("Sub", d)
      <3>1. d \in upstream /\ link[1] # About("Unsub", d)
        BY <1>1, <1>2, <2>3 DEF ParentHandles, About
      <3> QED  BY <1>1, <2>1, <3>1 DEF WillBeSent
    <2> QED  BY <2>2, <2>3
  <1>3. CASE \E i \in 1..Len(link') :
                /\ link'[i] = About("Sub", d)
                /\ \A j \in 1..Len(link') : j > i => link'[j] # About("Unsub", d)
    <2>1. PICK i \in 1..Len(link') :
                /\ link'[i] = About("Sub", d)
                /\ \A j \in 1..Len(link') : j > i => link'[j] # About("Unsub", d)
      BY <1>3
    <2>2. i + 1 \in 1..Len(link) /\ link[i + 1] = About("Sub", d)
      BY <1>1, <2>1
    <2>3. ASSUME NEW j \in 1..Len(link), j > i + 1 PROVE link[j] # About("Unsub", d)
      <3>1. j - 1 \in 1..Len(link') /\ j - 1 > i /\ (j - 1) + 1 = j
        BY <1>1, <2>3
      <3> QED  BY <1>1, <2>1, <3>1
    <2> QED  BY <2>2, <2>3 DEF WillBeSent
  <1> QED  BY <1>2, <1>3 DEF WillBeSent

-------------------------------------------------------------------------------
(* What becomes of a process that goes on, and of the others.              *)
Only(p) == \A q \in Procs : q # p => pc'[q] = pc[q] /\ channel'[q] = channel[q] /\ todo'[q] = todo[q]

LEMMA AfterAdvance ==
    ASSUME ProcsShape, NEW p \in Procs, Advance(p)
    PROVE  /\ ProcsShape' /\ Only(p)
           /\ pc'[p] \in {"idle", "get"}
           /\ \A d \in Channels : d \in todo[p] => Concerned(p, d)'
  <1>1. CASE todo[p] = {} /\ pc' = [pc EXCEPT ![p] = "idle"]
             /\ channel' = [channel EXCEPT ![p] = NoChannel] /\ UNCHANGED todo
    BY <1>1 DEF ProcsShape, Only
  <1>2. ASSUME NEW c \in todo[p], pc' = [pc EXCEPT ![p] = "get"],
               channel' = [channel EXCEPT ![p] = c], todo' = [todo EXCEPT ![p] = @ \ {c}]
        PROVE  /\ ProcsShape' /\ Only(p)
               /\ pc'[p] \in {"idle", "get"}
               /\ \A d \in Channels : d \in todo[p] => Concerned(p, d)'
    <2>1. c \in Channels /\ todo'[p] = todo[p] \ {c} /\ channel'[p] = c /\ pc'[p] = "get"
      BY <1>2 DEF ProcsShape
    <2>2. ProcsShape' /\ Only(p)
      BY <1>2, <2>1 DEF ProcsShape, Only
    <2> QED  BY <2>1, <2>2 DEF Concerned
  <1> QED  BY <1>1, <1>2 DEF Advance

LEMMA AfterBegin ==
    ASSUME ProcsShape, NEW p \in Procs, NEW next \in {"sub", "add", "get", "removeItem"},
           NEW c \in Channels \cup {NoChannel}, NEW others \in SUBSET Channels,
           next # "removeItem" => c \in Channels,
           \E use : Begin(p, use, next, c, others)
    PROVE  /\ ProcsShape' /\ Only(p)
           /\ pc[p] = "idle" /\ pc'[p] = next /\ channel'[p] = c /\ todo'[p] = others
           /\ \A d : ~Concerned(p, d)
  BY DEF ProcsShape, Only, Begin, Concerned

LEMMA AfterGoTo ==
    ASSUME ProcsShape, NEW p \in Procs, NEW next \in {"add", "unsub"}, channel[p] \in Channels,
           pc[p] # "idle", GoTo(p, next)
    PROVE  /\ ProcsShape' /\ Only(p) /\ pc'[p] = next
           /\ \A d \in Channels : Concerned(p, d) \/ d = channel[p] => Concerned(p, d)'
  BY DEF ProcsShape, Only, GoTo, Concerned

LEMMA OthersStayConcerned ==
    ASSUME NEW p \in Procs, Only(p), NEW q \in Procs, q # p, NEW d, Concerned(q, d)
    PROVE  Concerned(q, d)'
  BY DEF Only, Concerned

LEMMA SentAsBefore ==
    ASSUME UNCHANGED <<link, upstream>>, NEW d, WillBeSent(d)'
    PROVE  WillBeSent(d)
  BY DEF WillBeSent

-------------------------------------------------------------------------------
LEMMA InitIInv == Init => IInv
<1> SUFFICES ASSUME Init PROVE IInv
  OBVIOUS
<1>1. \A a : ChannelsOf(a) = {}
  BY DEF Init, MapInit, ChannelsOf, item2things_get,
         Get
<1>2. \A c : Subscribers(c) = {}
  BY DEF Init, MapInit, Subscribers, thing2items_get,
         Get
<1>3. Shape
  <2>1. ProcsShape
    BY DEF Init, ProcsShape
  <2>2. LinkShape
    BY DEF Init, LinkShape
  <2> QED  BY <1>1, <2>1, <2>2 DEF Shape, ChannelsShape
<1>4. Inverse
  BY <1>1, <1>2 DEF Inverse, ChannelsOf, Subscribers
<1>5. CleanupKnows /\ SomebodyLooks
  BY <1>1 DEF Init, CleanupKnows, SomebodyLooks, WillBeSent, Procs
<1> QED  BY <1>3, <1>4, <1>5 DEF IInv

LEMMA NextShape == Shape /\ [Next]_vars => Shape'
<1> SUFFICES ASSUME Shape, [Next]_vars PROVE Shape'
  OBVIOUS
<1> USE DEF Shape
<1>1. ASSUME NEW a \in Agents, NEW c \in Channels, SubscribeGet(a, c) PROVE Shape'
  <2> DEFINE p == <<a, "session">>
  <2>1. p \in Procs /\ \E next \in {"sub", "add"} : Begin(p, "subscribe", next, c, {})
    BY <1>1 DEF Procs, SubscribeGet
  <2> HIDE DEF p
  <2>2. ProcsShape'
    BY <2>1, AfterBegin
  <2> QED  BY <1>1, <2>2, AfterNothing DEF SubscribeGet, LinkShape, ChannelsShape
<1>2. ASSUME NEW a \in Agents, NEW c \in Channels, UnsubscribeRemove(a, c) PROVE Shape'
  <2> DEFINE p == <<a, "session">>
  <2>1. p \in Procs /\ Begin(p, "unsubscribe", "get", c, {})
    BY <1>2 DEF Procs, UnsubscribeRemove
  <2> HIDE DEF p
  <2>2. ProcsShape'
    BY <2>1, AfterBegin
  <2>3. Remove(a, c) /\ UNCHANGED <<link, upstream>>
    BY <1>2 DEF UnsubscribeRemove
  <2> QED  BY <2>2, <2>3, AfterRemove DEF LinkShape, ChannelsShape
<1>3. ASSUME NEW a \in Agents, SubscribeSend(a) PROVE Shape'
  <2> DEFINE p == <<a, "session">>
  <2>1. p \in Procs /\ pc[p] = "sub" /\ Send("Sub", channel[p]) /\ GoTo(p, "add")
    BY <1>3 DEF Procs, SubscribeSend
  <2> HIDE DEF p
  <2>2. channel[p] \in Channels
    BY <2>1 DEF ProcsShape
  <2>3. ProcsShape'
    BY <2>1, <2>2, AfterGoTo
  <2>4. LinkShape'
    BY <1>3, <2>1, <2>2 DEF SubscribeSend, LinkShape, Send
  <2> QED  BY <1>3, <2>3, <2>4, AfterNothing DEF SubscribeSend, ChannelsShape
<1>4. ASSUME NEW a \in Agents, SubscribeAdd(a) PROVE Shape'
  <2> DEFINE p == <<a, "session">>
  <2>1. p \in Procs /\ pc[p] = "add" /\ Advance(p) /\ Add(a, channel[p])
    BY <1>4 DEF Procs, SubscribeAdd
  <2> HIDE DEF p
  <2>2. channel[p] \in Channels
    BY <2>1 DEF ProcsShape
  <2>3. ProcsShape'
    BY <2>1, AfterAdvance
  <2>4. ChannelsShape'
    BY <2>1, <2>2, AfterAdd DEF ChannelsShape
  <2> QED  BY <1>4, <2>3, <2>4 DEF SubscribeAdd, LinkShape
<1>5. ASSUME NEW a \in Agents, CleanupGet(a) PROVE Shape'
  <2> DEFINE p == <<a, "cleanup">>
  <2>1. p \in Procs
    BY DEF Procs
  <2>2. \E others \in SUBSET Channels : Begin(p, "expire", "removeItem", NoChannel, others)
    BY <1>5 DEF CleanupGet, ChannelsShape
  <2> HIDE DEF p
  <2>3. ProcsShape'
    BY <2>1, <2>2, AfterBegin
  <2> QED  BY <1>5, <2>3, AfterNothing DEF CleanupGet, LinkShape, ChannelsShape
<1>6. ASSUME NEW a \in Agents, CleanupRemoveItem(a) PROVE Shape'
  <2> DEFINE p == <<a, "cleanup">>
  <2>1. p \in Procs /\ Advance(p) /\ RemoveItem(a)
    BY <1>6 DEF Procs, CleanupRemoveItem
  <2> HIDE DEF p
  <2>2. ProcsShape'
    BY <2>1, AfterAdvance
  <2>3. ChannelsShape'
    BY <2>1, AfterRemoveItem DEF ChannelsShape
  <2> QED  BY <1>6, <2>2, <2>3 DEF CleanupRemoveItem, LinkShape
<1>7. ASSUME NEW p \in Procs, LookAgain(p) PROVE Shape'
  <2>1. channel[p] \in Channels /\ (GoTo(p, "unsub") \/ Advance(p))
    BY <1>7 DEF LookAgain, ProcsShape
  <2>2. ProcsShape'
    BY <1>7, <2>1, AfterGoTo, AfterAdvance DEF LookAgain
  <2> QED  BY <1>7, <2>2, AfterNothing DEF LookAgain, LinkShape, ChannelsShape
<1>8. ASSUME NEW p \in Procs, UnsubscribeSend(p) PROVE Shape'
  <2>1. channel[p] \in Channels
    BY <1>8 DEF UnsubscribeSend, ProcsShape
  <2>2. ProcsShape'
    BY <1>8, AfterAdvance DEF UnsubscribeSend
  <2>3. LinkShape'
    BY <1>8, <2>1 DEF UnsubscribeSend, LinkShape, Send
  <2> QED  BY <1>8, <2>2, <2>3, AfterNothing DEF UnsubscribeSend, ChannelsShape
<1>9. CASE ParentHandles
  <2>1. LinkShape'
    <3> DEFINE M == [message : {"Sub", "Unsub"}, channel : Channels]
    <3>1. link \in Seq(M) /\ link # << >> /\ link' = Tail(link)
      BY <1>9 DEF ParentHandles, LinkShape
    <3> HIDE DEF M
    <3>2. Head(link) \in M /\ link' \in Seq(M)
      BY <3>1
    <3>3. Head(link).channel \in Channels /\ link' \in Seq(M)
      BY <3>2 DEF M
    <3>4. upstream' \subseteq Channels
      BY <1>9, <3>3 DEF ParentHandles, LinkShape
    <3> QED  BY <3>3, <3>4 DEF LinkShape, M
  <2>2. ProcsShape'
    BY <1>9 DEF ParentHandles, ProcsShape
  <2> QED  BY <1>9, <2>1, <2>2, AfterNothing DEF ParentHandles, ChannelsShape
<1>10. CASE Rest \/ UNCHANGED vars
  <2>1. UNCHANGED <<maps, pc, channel, todo, link, upstream>>
    BY <1>10 DEF Rest, vars, maps
  <2> QED  BY <2>1, AfterNothing DEF ProcsShape, LinkShape, ChannelsShape
<1> QED
  BY <1>1, <1>2, <1>3, <1>4, <1>5, <1>6, <1>7, <1>8, <1>9, <1>10 DEF Next

-------------------------------------------------------------------------------
(* What the actions do to the maps.                                        *)
LEMMA NextMapsInverse == Shape /\ Inverse /\ [Next]_vars => Inverse'
<1> SUFFICES ASSUME Shape, Inverse, [Next]_vars, NEW b \in Agents, NEW d \in Channels
             PROVE  (d \in ChannelsOf(b) <=> b \in Subscribers(d))'
  BY DEF Inverse, ChannelsOf, Subscribers
<1>0. d \in ChannelsOf(b) <=> b \in Subscribers(d)
  BY DEF Inverse, ChannelsOf, Subscribers
<1>1. ASSUME NEW a \in Agents, NEW c \in Channels, UnsubscribeRemove(a, c)
      PROVE  (d \in ChannelsOf(b) <=> b \in Subscribers(d))'
  BY <1>0, <1>1, AfterRemove DEF UnsubscribeRemove
<1>2. ASSUME NEW a \in Agents, SubscribeAdd(a)
      PROVE  (d \in ChannelsOf(b) <=> b \in Subscribers(d))'
  <2>1. Add(a, channel[<<a, "session">>])
        /\ channel[<<a, "session">>] \in Channels
    BY <1>2 DEF SubscribeAdd, Shape, ProcsShape, Procs
  <2> QED  BY <1>0, <2>1, AfterAdd
<1>3. ASSUME NEW a \in Agents, CleanupRemoveItem(a)
      PROVE  (d \in ChannelsOf(b) <=> b \in Subscribers(d))'
  <2>1. d \in ChannelsOf(a) <=> a \in Subscribers(d)
    BY DEF Inverse, ChannelsOf, Subscribers
  <2> QED  BY <1>0, <1>3, <2>1, AfterRemoveItem DEF CleanupRemoveItem
<1>4. CASE UNCHANGED maps
  BY <1>0, <1>4, AfterNothing
<1> QED
  BY <1>1, <1>2, <1>3, <1>4
  DEF Next, SubscribeGet, SubscribeSend, CleanupGet, LookAgain, UnsubscribeSend, ParentHandles,
      Rest, vars, maps

(* Only sessions that have not expired add channels, so a cleanup that has *)
(* begun goes on knowing all of its agent's.                               *)
LEMMA NextCleanupKnows ==
    ASSUME SilentWhenExpired, Shape, CleanupKnows, [Next]_vars
    PROVE  CleanupKnows'
<1> DEFINE Knows(a) ==
      /\ a \in expired => pc[<<a, "session">>] = "idle"
      /\ pc[<<a, "cleanup">>] = "removeItem"
            => a \in expired /\ ChannelsOf(a) \subseteq todo[<<a, "cleanup">>]
      /\ pc[<<a, "cleanup">>] # "removeItem" /\ a \in expired => ChannelsOf(a) = {}
<1>e. expired' \subseteq Agents
  BY DEF CleanupKnows, Next, SubscribeGet, SubscribeSend, SubscribeAdd, UnsubscribeRemove,
         CleanupGet, CleanupRemoveItem, LookAgain, UnsubscribeSend, ParentHandles, Rest, vars
<1> SUFFICES ASSUME NEW b \in Agents PROVE Knows(b)'
  BY <1>e DEF CleanupKnows
<1>0. Knows(b)
  BY DEF CleanupKnows
<1>a. /\ <<b, "session">> \in Procs /\ <<b, "cleanup">> \in Procs
      /\ ProcsShape /\ ChannelsShape
  BY DEF Procs, Shape
<1>1. ASSUME NEW a \in Agents, NEW c \in Channels, SubscribeGet(a, c) PROVE Knows(b)'
  <2> DEFINE p == <<a, "session">>
  <2>1. p \in Procs /\ \E next \in {"sub", "add"} : Begin(p, "subscribe", next, c, {})
    BY <1>1 DEF Procs, SubscribeGet
  <2>2. Only(p)
    <3> HIDE DEF p
    <3>1. PICK next \in {"sub", "add"} : Begin(p, "subscribe", next, c, {})
      BY <2>1
    <3>2. \E use : Begin(p, use, next, c, {})
      BY <3>1
    <3>3. {} \in SUBSET Channels /\ p \in Procs /\ ProcsShape
          /\ next \in {"sub", "add", "get", "removeItem"}
      BY <1>a, <2>1
    <3> QED  BY <3>2, <3>3, AfterBegin
  <2>3. a \notin expired /\ UNCHANGED <<maps, expired>>
    BY <1>1 DEF SubscribeGet, MayUse
  <2>4. ChannelsOf(b)' = ChannelsOf(b)
    BY <2>3, AfterNothing
  <2> QED  BY <1>0, <1>a, <2>2, <2>3, <2>4 DEF Only
<1>2. ASSUME NEW a \in Agents, NEW c \in Channels, UnsubscribeRemove(a, c) PROVE Knows(b)'
  <2> DEFINE p == <<a, "session">>
  <2>1. p \in Procs /\ Begin(p, "unsubscribe", "get", c, {})
    BY <1>2 DEF Procs, UnsubscribeRemove
  <2>2. Only(p)
    <3> HIDE DEF p
    <3> QED  BY <1>a, <2>1, AfterBegin
  <2>3. a \notin expired /\ UNCHANGED expired
    BY <1>2 DEF UnsubscribeRemove, MayUse
  <2>4. ChannelsOf(b)' \subseteq ChannelsOf(b)
    BY <1>2, AfterRemove DEF UnsubscribeRemove
  <2> QED  BY <1>0, <1>a, <2>2, <2>3, <2>4 DEF Only
<1>3. ASSUME NEW a \in Agents, SubscribeSend(a) PROVE Knows(b)'
  <2> DEFINE p == <<a, "session">>
  <2>1. /\ p \in Procs /\ pc[p] = "sub" /\ GoTo(p, "add") /\ channel[p] \in Channels
        /\ UNCHANGED <<maps, expired>>
    BY <1>3, <1>a DEF Procs, SubscribeSend, ProcsShape
  <2>2. Only(p)
    BY <1>a, <2>1 DEF GoTo, Only, ProcsShape
  <2>3. ChannelsOf(b)' = ChannelsOf(b)
    BY <2>1, AfterNothing
  <2> QED  BY <1>0, <1>a, <2>1, <2>2, <2>3 DEF Only
<1>4. ASSUME NEW a \in Agents, SubscribeAdd(a) PROVE Knows(b)'
  <2> DEFINE p == <<a, "session">>
  <2>1. /\ p \in Procs /\ pc[p] = "add" /\ Advance(p) /\ channel[p] \in Channels
        /\ Add(a, channel[p]) /\ UNCHANGED expired
    BY <1>4, <1>a DEF Procs, SubscribeAdd, ProcsShape
  <2>2. Only(p)
    <3> HIDE DEF p
    <3> QED  BY <1>a, <2>1, AfterAdvance
  <2>3. a \notin expired
    BY <2>1 DEF CleanupKnows
  <2>4. b # a => ChannelsOf(b)' = ChannelsOf(b)
    BY <2>1, AfterAdd
  <2> QED  BY <1>0, <1>a, <2>1, <2>2, <2>3, <2>4 DEF Only
<1>5. ASSUME NEW a \in Agents, CleanupGet(a) PROVE Knows(b)'
  <2> DEFINE p == <<a, "cleanup">>
  <2>1. /\ p \in Procs /\ Begin(p, "expire", "removeItem", NoChannel, ChannelsOf(a))
        /\ pc[<<a, "session">>] = "idle" /\ expired' = expired \cup {a} /\ UNCHANGED maps
    BY <1>5 DEF Procs, CleanupGet
  <2>2. /\ \A q \in Procs : q # p => pc'[q] = pc[q] /\ todo'[q] = todo[q]
        /\ pc'[p] = "removeItem" /\ todo'[p] = ChannelsOf(a)
    BY <1>a, <2>1 DEF Begin, ProcsShape
  <2>3. ChannelsOf(b)' = ChannelsOf(b)
    BY <2>1, AfterNothing
  <2> QED  BY <1>0, <1>a, <2>1, <2>2, <2>3
<1>6. ASSUME NEW a \in Agents, CleanupRemoveItem(a) PROVE Knows(b)'
  <2> DEFINE p == <<a, "cleanup">>
  <2>1. /\ p \in Procs /\ Advance(p) /\ RemoveItem(a) /\ UNCHANGED expired
    BY <1>6 DEF Procs, CleanupRemoveItem
  <2>2. Only(p) /\ pc'[p] \in {"idle", "get"}
    <3> HIDE DEF p
    <3> QED  BY <1>a, <2>1, AfterAdvance
  <2>3. ChannelsOf(b)' = IF b = a THEN {} ELSE ChannelsOf(b)
    BY <2>1, AfterRemoveItem
  <2> QED  BY <1>0, <1>a, <2>1, <2>2, <2>3 DEF Only
<1>7. ASSUME NEW p \in Procs, LookAgain(p) \/ UnsubscribeSend(p) PROVE Knows(b)'
  <2>1. /\ channel[p] \in Channels /\ pc[p] \in {"get", "unsub"}
        /\ GoTo(p, "unsub") \/ Advance(p)
        /\ UNCHANGED <<maps, expired>>
    BY <1>7, <1>a DEF LookAgain, UnsubscribeSend, ProcsShape
  <2>2. Only(p) /\ pc'[p] # "removeItem"
    BY <1>a, <2>1, AfterGoTo, AfterAdvance
  <2>3. ChannelsOf(b)' = ChannelsOf(b)
    BY <2>1, AfterNothing
  <2> QED  BY <1>0, <1>a, <2>1, <2>2, <2>3 DEF Only
<1>8. CASE ParentHandles \/ Rest \/ UNCHANGED vars
  <2>1. UNCHANGED <<maps, pc, todo, expired>>
    BY <1>8 DEF ParentHandles, Rest, vars, maps
  <2>2. ChannelsOf(b)' = ChannelsOf(b)
    BY <2>1, AfterNothing
  <2> QED  BY <1>0, <2>1, <2>2
<1> QED
  BY <1>1, <1>2, <1>3, <1>4, <1>5, <1>6, <1>7, <1>8 DEF Next

(* Whoever makes the last subscriber disappear, or sends a Sub, is         *)
(* concerned from then on; whoever stops being concerned has seen a        *)
(* subscriber or has sent an Unsub.                                        *)
LEMMA NextSomebodyLooks ==
    ASSUME SilentWhenExpired, Shape, CleanupKnows, SomebodyLooks, [Next]_vars
    PROVE  SomebodyLooks'
<1> SUFFICES ASSUME NEW d \in Channels, WillBeSent(d)', Subscribers(d)' = {}
             PROVE  \E p \in Procs : Concerned(p, d)'
  BY DEF SomebodyLooks
<1>0. WillBeSent(d) /\ Subscribers(d) = {} => \E p \in Procs : Concerned(p, d)
  BY DEF SomebodyLooks
<1>a. ProcsShape /\ LinkShape
  BY DEF Shape
<1>b. ASSUME NEW p \in Procs, Only(p), WillBeSent(d), Subscribers(d) = {},
             Concerned(p, d) => Concerned(p, d)'
      PROVE  \E q \in Procs : Concerned(q, d)'
  BY <1>0, <1>b, OthersStayConcerned
<1>1. ASSUME NEW a \in Agents, NEW c \in Channels, SubscribeGet(a, c)
      PROVE  \E p \in Procs : Concerned(p, d)'
  <2> DEFINE p == <<a, "session">>
  <2>1. p \in Procs /\ \E next \in {"sub", "add"} : Begin(p, "subscribe", next, c, {})
    BY <1>1 DEF Procs, SubscribeGet
  <2> HIDE DEF p
  <2>2. Only(p) /\ ~Concerned(p, d)
    <3>1. PICK next \in {"sub", "add"} : Begin(p, "subscribe", next, c, {})
      BY <2>1
    <3>2. \E use : Begin(p, use, next, c, {})
      BY <3>1
    <3>3. {} \in SUBSET Channels /\ p \in Procs /\ ProcsShape
          /\ next \in {"sub", "add", "get", "removeItem"}
      BY <1>a, <2>1
    <3> QED  BY <3>2, <3>3, AfterBegin
  <2>3. WillBeSent(d) /\ Subscribers(d) = {}
    BY <1>1, SentAsBefore, AfterNothing DEF SubscribeGet
  <2> QED  BY <1>b, <2>1, <2>2, <2>3
<1>2. ASSUME NEW a \in Agents, NEW c \in Channels, UnsubscribeRemove(a, c)
      PROVE  \E p \in Procs : Concerned(p, d)'
  <2> DEFINE p == <<a, "session">>
  <2>1. p \in Procs /\ Begin(p, "unsubscribe", "get", c, {})
    BY <1>2 DEF Procs, UnsubscribeRemove
  <2> HIDE DEF p
  <2>2. Only(p) /\ ~Concerned(p, d) /\ pc'[p] = "get" /\ channel'[p] = c
    BY <1>a, <2>1, AfterBegin
  <2>3. CASE d = c
    BY <2>1, <2>2, <2>3 DEF Concerned
  <2>4. CASE d # c
    <3>1. WillBeSent(d) /\ Subscribers(d) = {}
      BY <1>2, <2>4, SentAsBefore, AfterRemove DEF UnsubscribeRemove
    <3> QED  BY <1>b, <2>1, <2>2, <3>1
  <2> QED  BY <2>3, <2>4
<1>3. ASSUME NEW a \in Agents, SubscribeSend(a)
      PROVE  \E p \in Procs : Concerned(p, d)'
  <2> DEFINE p == <<a, "session">>
  <2>1. /\ p \in Procs /\ pc[p] = "sub" /\ GoTo(p, "add") /\ channel[p] \in Channels
        /\ Send("Sub", channel[p]) /\ UNCHANGED <<maps, upstream>>
    BY <1>3, <1>a DEF Procs, SubscribeSend, ProcsShape
  <2> HIDE DEF p
  <2>2. Only(p) /\ (Concerned(p, d) \/ d = channel[p] => Concerned(p, d)')
    BY <1>a, <2>1, AfterGoTo
  <2>3. WillBeSent(d) \/ d = channel[p]
    BY <1>a, <2>1, AfterSend
  <2>4. Subscribers(d) = {}
    BY <2>1, AfterNothing
  <2> QED  BY <1>b, <2>1, <2>2, <2>3, <2>4
<1>4. ASSUME NEW a \in Agents, SubscribeAdd(a)
      PROVE  \E p \in Procs : Concerned(p, d)'
  <2> DEFINE p == <<a, "session">>
  <2>1. /\ p \in Procs /\ pc[p] = "add" /\ Advance(p) /\ channel[p] \in Channels
        /\ Add(a, channel[p]) /\ UNCHANGED <<link, upstream>>
    BY <1>4, <1>a DEF Procs, SubscribeAdd, ProcsShape
  <2> HIDE DEF p
  <2>2. d # channel[p] /\ Subscribers(d) = {} /\ WillBeSent(d)
    BY <2>1, AfterAdd, SentAsBefore
  <2>3. Only(p) /\ (d \in todo[p] => Concerned(p, d)')
    BY <1>a, <2>1, AfterAdvance
  <2>4. Concerned(p, d) => d \in todo[p]
    BY <2>2 DEF Concerned
  <2> QED  BY <1>b, <2>1, <2>2, <2>3, <2>4
<1>5. ASSUME NEW a \in Agents, CleanupGet(a)
      PROVE  \E p \in Procs : Concerned(p, d)'
  <2> DEFINE p == <<a, "cleanup">>
  <2>1. p \in Procs
    BY DEF Procs
  <2>2. PICK others \in SUBSET Channels : Begin(p, "expire", "removeItem", NoChannel, others)
    BY <1>5 DEF CleanupGet, Shape, ChannelsShape
  <2>4. Only(p) /\ ~Concerned(p, d)
    <3> HIDE DEF p
    <3>1. \E use : Begin(p, use, "removeItem", NoChannel, others)
      BY <2>2
    <3> QED  BY <1>a, <2>1, <3>1, AfterBegin
  <2>3. WillBeSent(d) /\ Subscribers(d) = {}
    BY <1>5, SentAsBefore, AfterNothing DEF CleanupGet
  <2> QED  BY <1>b, <2>1, <2>3, <2>4
<1>6. ASSUME NEW a \in Agents, CleanupRemoveItem(a)
      PROVE  \E p \in Procs : Concerned(p, d)'
  <2> DEFINE p == <<a, "cleanup">>
  <2>1. /\ p \in Procs /\ pc[p] = "removeItem" /\ Advance(p) /\ ChannelsOf(a) \subseteq todo[p]
        /\ RemoveItem(a) /\ UNCHANGED <<link, upstream>>
    BY <1>6 DEF Procs, CleanupRemoveItem, CleanupKnows
  <2> HIDE DEF p
  <2>2. Only(p) /\ (d \in todo[p] => Concerned(p, d)')
    BY <1>a, <2>1, AfterAdvance
  <2>3. CASE d \in ChannelsOf(a)
    BY <2>1, <2>2, <2>3
  <2>4. CASE d \notin ChannelsOf(a)
    <3>1. WillBeSent(d) /\ Subscribers(d) = {}
      BY <2>1, <2>4, AfterRemoveItem, SentAsBefore
    <3>2. Concerned(p, d) => d \in todo[p]
      BY <2>1 DEF Concerned
    <3> QED  BY <1>b, <2>1, <2>2, <3>1, <3>2
  <2> QED  BY <2>3, <2>4
<1>7. ASSUME NEW p \in Procs, LookAgain(p)
      PROVE  \E q \in Procs : Concerned(q, d)'
  <2>1. WillBeSent(d) /\ Subscribers(d) = {}
    BY <1>7, SentAsBefore, AfterNothing DEF LookAgain
  <2>2. channel[p] \in Channels /\ pc[p] = "get"
    BY <1>7, <1>a DEF LookAgain, ProcsShape
  <2>3. CASE GoTo(p, "unsub")
    <3>1. Only(p) /\ (Concerned(p, d) => Concerned(p, d)')
      BY <1>a, <2>2, <2>3, AfterGoTo
    <3> QED  BY <1>b, <2>1, <3>1
  <2>4. CASE Advance(p) /\ Subscribers(channel[p]) # {}
    <3>1. Only(p) /\ (d \in todo[p] => Concerned(p, d)')
      BY <1>a, <2>4, AfterAdvance
    <3>2. Concerned(p, d) => d \in todo[p]
      BY <2>1, <2>4 DEF Concerned
    <3> QED  BY <1>b, <2>1, <3>1, <3>2
  <2> QED  BY <1>7, <2>3, <2>4 DEF LookAgain, TellsParent
<1>8. ASSUME NEW p \in Procs, UnsubscribeSend(p)
      PROVE  \E q \in Procs : Concerned(q, d)'
  <2>1. /\ Send("Unsub", channel[p]) /\ Advance(p) /\ UNCHANGED <<maps, upstream>>
        /\ channel[p] \in Channels
    BY <1>8, <1>a DEF UnsubscribeSend, ProcsShape
  <2>2. WillBeSent(d) /\ d # channel[p]
    BY <1>a, <2>1, AfterSend
  <2>3. Only(p) /\ (d \in todo[p] => Concerned(p, d)')
    BY <1>a, <2>1, AfterAdvance
  <2>4. Concerned(p, d) => d \in todo[p]
    BY <2>2 DEF Concerned
  <2>5. Subscribers(d) = {}
    BY <2>1, AfterNothing
  <2> QED  BY <1>b, <2>2, <2>3, <2>4, <2>5
<1>9. CASE ParentHandles \/ Rest \/ UNCHANGED vars
  <2>1. WillBeSent(d)
    BY <1>9, <1>a, AfterHandling, SentAsBefore DEF Rest, vars
  <2>2. UNCHANGED <<maps, pc, channel, todo>>
    BY <1>9 DEF ParentHandles, Rest, vars, maps
  <2>3. Subscribers(d) = {}
    BY <2>2, AfterNothing
  <2> QED  BY <1>0, <2>1, <2>2, <2>3 DEF Concerned
<1> QED
  BY <1>1, <1>2, <1>3, <1>4, <1>5, <1>6, <1>7, <1>8, <1>9 DEF Next

LEMMA Invariance == Spec => []IInv
<1>1. IInv /\ [Next]_vars => IInv'
  BY NextShape, NextMapsInverse, NextCleanupKnows, NextSomebodyLooks DEF IInv
<1> QED  BY InitIInv, <1>1, PTL DEF Spec

-------------------------------------------------------------------------------
(* If sessions are silent by the time they expire, the parent sends no     *)
(* channel that nobody here listens to, once the calls under way are over. *)
THEOREM NothingLeaks == ASSUME SilentWhenExpired PROVE Spec => []NoUpstreamLeak
<1>1. IInv => NoUpstreamLeak
  <2> SUFFICES ASSUME IInv, Quiet, NEW c \in upstream PROVE Subscribers(c) # {}
    BY DEF NoUpstreamLeak
  <2>1. c \in Channels
    BY DEF IInv, Shape, LinkShape
  <2>2. WillBeSent(c)
    BY DEF Quiet, WillBeSent
  <2>3. \A p \in Procs : ~Concerned(p, c)
    BY DEF Quiet, IInv, Shape, ProcsShape, Concerned
  <2> QED  BY <2>1, <2>2, <2>3 DEF IInv, SomebodyLooks
<1> QED  BY <1>1, Invariance, PTL

-------------------------------------------------------------------------------
(* What a step does to the mapping is one call of one of its methods, or   *)
(* nothing: the channel in the hands of a process is never null.           *)
LEMMA NextUsesMapping == Shape /\ [Next]_vars => [MapNext]_maps
<1> SUFFICES ASSUME Shape, [Next]_vars PROVE [MapNext]_maps
  OBVIOUS
<1>1. ASSUME NEW a \in Agents, NEW c \in Channels, UnsubscribeRemove(a, c) PROVE MapNext
  BY <1>1 DEF UnsubscribeRemove, MapNext
<1>2. ASSUME NEW a \in Agents, SubscribeAdd(a) PROVE MapNext
  <2>1. PICK c \in Channels : c = channel[<<a, "session">>]
    BY <1>2 DEF Shape, ProcsShape, Procs, SubscribeAdd
  <2>2. Add(a, c)
    BY <1>2, <2>1 DEF SubscribeAdd
  <2> QED  BY <2>2 DEF MapNext
<1>3. ASSUME NEW a \in Agents, CleanupRemoveItem(a) PROVE MapNext
  BY <1>3 DEF CleanupRemoveItem, MapNext
<1>4. CASE \/ \E a \in Agents, c \in Channels : SubscribeGet(a, c)
           \/ \E a \in Agents : SubscribeSend(a) \/ CleanupGet(a)
           \/ \E p \in Procs : LookAgain(p) \/ UnsubscribeSend(p)
           \/ ParentHandles \/ Rest \/ UNCHANGED vars
  <2>1. UNCHANGED maps
    BY <1>4 DEF SubscribeGet, SubscribeSend, CleanupGet, LookAgain, UnsubscribeSend,
                ParentHandles, Rest, vars, maps
  <2> QED  BY <2>1
<1> QED  BY <1>1, <1>2, <1>3, <1>4 DEF Next

(* subscribe, unsubscribe and unsubscribeAgent, interleaved in any way, do *)
(* to session2channel what calls of its methods can do.  So the theorems   *)
(* about the mapping by itself hold of it: its maps are one relation, with *)
(* no key that has nothing.                                                *)
THEOREM UsesTheMapping == Spec => MapSpec
<1>1. Init => MapInit
  BY DEF Init
<1>2. IInv => Shape
  BY DEF IInv
<1> QED  BY <1>1, <1>2, Invariance, NextUsesMapping, PTL DEF Spec, MapSpec

(* The keys of the maps, what the processes have in their hands, and the   *)
(* messages to the parent are agents and channels, and no more calls are   *)
(* made than are allowed.                                                  *)
THEOREM TypeCorrect == Spec => []TypeOK
<1> DEFINE Bounded == expired \subseteq Agents /\ uses \in 0..MaxUses
<1>1. Init => Bounded
  BY MaxUsesAssumption DEF Init
<1>2. Bounded /\ [Next]_vars => Bounded'
  <2> SUFFICES ASSUME Bounded, [Next]_vars PROVE Bounded'
    OBVIOUS
  <2>1. \A p, use, next, c, others : Begin(p, use, next, c, others) => uses' \in 0..MaxUses
    BY MaxUsesAssumption DEF Begin
  <2>2. \A p : GoTo(p, "add") \/ GoTo(p, "unsub") \/ Advance(p) => uses' = uses
    BY DEF GoTo, Advance
  <2>3. CASE \/ \E a \in Agents, c \in Channels : SubscribeGet(a, c) \/ UnsubscribeRemove(a, c)
             \/ \E a \in Agents : CleanupGet(a)
    <3>1. uses' \in 0..MaxUses
      BY <2>1, <2>3 DEF SubscribeGet, UnsubscribeRemove, CleanupGet
    <3>2. expired' \subseteq Agents
      BY <2>3 DEF SubscribeGet, UnsubscribeRemove, CleanupGet
    <3> QED  BY <3>1, <3>2
  <2>4. CASE \/ \E a \in Agents : SubscribeSend(a) \/ SubscribeAdd(a) \/ CleanupRemoveItem(a)
             \/ \E p \in Procs : LookAgain(p) \/ UnsubscribeSend(p)
    BY <2>2, <2>4 DEF SubscribeSend, SubscribeAdd, CleanupRemoveItem, LookAgain, UnsubscribeSend
  <2>5. CASE ParentHandles \/ Rest \/ UNCHANGED vars
    BY <2>5 DEF ParentHandles, Rest, vars
  <2> QED  BY <2>3, <2>4, <2>5 DEF Next
<1>3. IInv /\ Bounded /\ MapTypeOK => TypeOK
  BY DEF IInv, Shape, ProcsShape, LinkShape, TypeOK
<1> QED  BY <1>1, <1>2, <1>3, Invariance, UsesTheMapping, MapTypeCorrect, PTL DEF Spec
===============================================================================
