------------------------------ MODULE PublishTree ------------------------------
(***************************************************************************)
(* One channel on a tree of servers.  A session is connected to a leaf;    *)
(* every other server (isPubSub) has only servers connected to it, each    *)
(* through a session of its own, so the subscribers of such a server are   *)
(* its children.  Global.publish gives a message to the local subscribers, *)
(* but not back to the child it came from, and promotes it to the parent;  *)
(* LocalSubscriberHandler gives what comes from the parent to the local    *)
(* subscribers; Sub and Unsub climb the tree.                              *)
(*                                                                         *)
(* subscribe and unsubscribe take no lock: they read or change the local   *)
(* subscribers, tell the parent and change the subscribers in steps of     *)
(* their own, between which other sessions of the server go on.  A session *)
(* runs what it is given one after the other (RunnablesQueue) and links    *)
(* lose nothing.  Work given to the thread pool is a bag: it is done in    *)
(* any order, and a thing handed over twice is done twice.                 *)
(***************************************************************************)
EXTENDS Naturals, Sequences, FiniteSets, Bags

CONSTANTS Servers,
          Parent,       \* the server a server is a client of, or NoServer
          Sessions,     \* sessions of people and programs, on the leaves
          Home,         \* the server of each session
          Messages,     \* each is published once
          MaxChanges    \* bound: calls of subscribe and unsubscribe by sessions

NoServer == "no server"
Nobody == "nobody"

HasParent(s) == Parent[s] # NoServer
Inner == {Parent[s] : s \in {v \in Servers : HasParent(v)}}

(* One server of the tree has no parent, and no chain of parents is closed *)
(* in itself.                                                              *)
ASSUME TreeAssumption ==
    /\ Parent \in [Servers -> Servers \cup {NoServer}]
    /\ \A s, t \in Servers : ~HasParent(s) /\ ~HasParent(t) => s = t
    /\ \A C \in (SUBSET Servers) \ {{}} : \E s \in C : HasParent(s) => Parent[s] \notin C
ASSUME HomeAssumption == Home \in [Sessions -> Servers \ Inner]
ASSUME NamesAssumption == /\ Servers \cap Sessions = {}
                          /\ NoServer \notin Servers
                          /\ Nobody \notin Servers \cup Sessions
ASSUME MaxChangesAssumption == MaxChanges \in Nat

VARIABLES subs,         \* thing2items_get(channel) on each server
          doing,        \* where each session is in subscribe or unsubscribe
          up,           \* what each server has sent to its parent
          down,         \* what each server has been sent by its parent
          tasks,        \* tasks of the pools that look up the subscribers, a bag
          deliveries,   \* messages on their way to one subscriber, a bag
          received,     \* history: how often each session was given each message
          published,    \* history: messages published
          owed,         \* history: who has to be given what
          changes       \* history: calls of subscribe and unsubscribe

vars == <<subs, doing, up, down, tasks, deliveries, received, published, owed, changes>>

(* Every server that is not the root has a session at its parent.          *)
Addressees == Servers \cup Sessions
Station(x) == IF x \in Sessions THEN Home[x] ELSE Parent[x]

Init == /\ subs = [s \in Servers |-> {}]
        /\ doing = [x \in Addressees |-> "nothing"]
        /\ up = [s \in Servers |-> << >>]
        /\ down = [s \in Servers |-> << >>]
        /\ tasks = EmptyBag
        /\ deliveries = EmptyBag
        /\ received = [a \in Sessions |-> [m \in Messages |-> 0]]
        /\ published = {}
        /\ owed = {}
        /\ changes = 0

(* The servers from s to the root: s, its parent, the parent of that ...   *)
Upward(C) == \A s \in C : HasParent(s) => Parent[s] \in C
Path == [s \in Servers |-> {u \in Servers : \A C \in SUBSET Servers :
                                                s \in C /\ Upward(C) => u \in C}]

Sub == [kind |-> "Sub"]
Unsub == [kind |-> "Unsub"]
Pub(m) == [kind |-> "Pub", msg |-> m]

(* links, and one more message from s to its parent if it has one          *)
Promoted(links, s, message) ==
    IF HasParent(s) THEN [links EXCEPT ![s] = Append(@, message)] ELSE links

Hand(bag, work) == bag (+) SetToBag(work)
Done(bag, t) == bag (-) SetToBag({t})

GoesOn(x, next) == doing' = [doing EXCEPT ![x] = next]

(* subscribe(x, channel) reads the subscribers, tells the parent if there  *)
(* are none and adds x.                                                    *)
StartSubscribe(x) ==
    /\ doing[x] = "nothing"
    /\ GoesOn(x, IF subs[Station(x)] = {} /\ HasParent(Station(x)) THEN "tell Sub" ELSE "add")
    /\ UNCHANGED subs

AddSubscriber(x) ==
    /\ doing[x] = "add" /\ GoesOn(x, "nothing")
    /\ subs' = [subs EXCEPT ![Station(x)] = @ \cup {x}]
    /\ UNCHANGED <<up, down, tasks, deliveries, received, published, owed, changes>>

(* unsubscribe(x, channel) removes x, reads who is left and tells the      *)
(* parent if nobody is.                                                    *)
StartUnsubscribe(x) ==
    /\ doing[x] = "nothing" /\ GoesOn(x, "look")
    /\ subs' = [subs EXCEPT ![Station(x)] = @ \ {x}]

(* A mistake for the mutants: the parent is told of every unsubscribe.     *)
EagerLook(x) ==
    /\ doing[x] = "look"
    /\ GoesOn(x, IF HasParent(Station(x)) THEN "tell Unsub" ELSE "nothing")
    /\ UNCHANGED <<subs, up, down, tasks, deliveries, received, published, owed, changes>>

LookWhoIsLeft(x) ==
    /\ doing[x] = "look"
    /\ GoesOn(x, IF subs[Station(x)] = {} /\ HasParent(Station(x)) THEN "tell Unsub" ELSE "nothing")
    /\ UNCHANGED <<subs, up, down, tasks, deliveries, received, published, owed, changes>>

(* thePubSub.subcribe and thePubSub.unsubcribe                             *)
TellParent(x) ==
    /\ \/ /\ doing[x] = "tell Sub" /\ GoesOn(x, "add")
          /\ up' = [up EXCEPT ![Station(x)] = Append(@, Sub)]
       \/ /\ doing[x] = "tell Unsub" /\ GoesOn(x, "nothing")
          /\ up' = [up EXCEPT ![Station(x)] = Append(@, Unsub)]
    /\ UNCHANGED <<subs, down, tasks, deliveries, received, published, owed, changes>>

(* A mistake for the mutants: the sender is not excepted.                  *)
EchoingTask(t) ==
    /\ tasks' = Done(tasks, t)
    /\ deliveries' = Hand(deliveries, {[to |-> x, msg |-> t.msg] : x \in subs[t.at]})
    /\ UNCHANGED <<subs, doing, up, down, received, published, owed, changes>>

(* global.publish on s of what x sent                                      *)
PublishAt(links, s, m, x) ==
    /\ tasks' = Hand(tasks, {[at |-> s, msg |-> m, except |-> x]})
    /\ up' = Promoted(links, s, Pub(m))

-------------------------------------------------------------------------------
(* The subscriber's part of the tree is in place: each server from its     *)
(* home to the root is subscribed at its parent, and neither is an Unsub   *)
(* under way nor is a session, having seen nobody left, about to send one. *)
Settled(a) ==
    /\ a \in subs[Home[a]]
    /\ \A s \in Path[Home[a]] : HasParent(s) =>
          /\ s \in subs[Parent[s]]
          /\ \A n \in DOMAIN up[s] : up[s][n] # Unsub
          /\ \A x \in Addressees : Station(x) = s => doing[x] # "tell Unsub"

Subscribe(a) == /\ changes < MaxChanges
                /\ changes' = changes + 1
                /\ StartSubscribe(a)
                /\ UNCHANGED <<up, down, tasks, deliveries, received, published, owed>>

Unsubscribe(a) == /\ changes < MaxChanges
                  /\ changes' = changes + 1
                  /\ StartUnsubscribe(a)
                  /\ owed' = {o \in owed : o[1] # a}
                  /\ UNCHANGED <<up, down, tasks, deliveries, received, published>>

(* A session publishes on its leaf, which excepts nobody.                  *)
Publish(a, m) == /\ m \notin published
                 /\ doing[a] = "nothing"
                 /\ published' = published \cup {m}
                 /\ PublishAt(up, Home[a], m, Nobody)
                 /\ owed' = owed \cup {<<b, m>> : b \in {c \in Sessions : Settled(c)}}
                 /\ UNCHANGED <<subs, doing, down, deliveries, received, changes>>

(* The session that stands for the server s at its parent runs the next    *)
(* d.Sub, d.Unsub or d.Pub.                                                *)
ParentHandles(s) ==
    /\ HasParent(s) /\ up[s] # << >> /\ doing[s] = "nothing"
    /\ LET message == Head(up[s])
           links == [up EXCEPT ![s] = Tail(@)]
       IN \/ /\ message.kind = "Sub"
             /\ up' = links /\ StartSubscribe(s)
             /\ UNCHANGED tasks
          \/ /\ message.kind = "Unsub"
             /\ up' = links /\ StartUnsubscribe(s)
             /\ UNCHANGED tasks
          \/ /\ message.kind = "Pub"
             /\ PublishAt(links, Parent[s], message.msg, s)
             /\ UNCHANGED <<subs, doing>>
    /\ UNCHANGED <<down, deliveries, received, published, owed, changes>>

(* GwemsPubSub unpacks the next P2C and calls LocalSubscriberHandler.      *)
ChildHandles(s) ==
    /\ down[s] # << >>
    /\ down' = [down EXCEPT ![s] = Tail(@)]
    /\ tasks' = Hand(tasks, {[at |-> s, msg |-> Head(down[s]), except |-> Nobody]})
    /\ UNCHANGED <<subs, doing, up, deliveries, received, published, owed, changes>>

(* The task reads the subscribers once and goes through what it read.      *)
RunTask(t) ==
    /\ tasks' = Done(tasks, t)
    /\ deliveries' = Hand(deliveries, {[to |-> x, msg |-> t.msg] : x \in subs[t.at] \ {t.except}})
    /\ UNCHANGED <<subs, doing, up, down, received, published, owed, changes>>

(* agent.messageQ.run: a person's session runs the message, a server's     *)
(* session sends it down the link.                                         *)
Deliver(d) ==
    /\ deliveries' = Done(deliveries, d)
    /\ \/ /\ d.to \in Sessions
          /\ received' = [received EXCEPT ![d.to][d.msg] = @ + 1]
          /\ UNCHANGED down
       \/ /\ d.to \in Servers
          /\ down' = [down EXCEPT ![d.to] = Append(@, d.msg)]
          /\ UNCHANGED received
    /\ UNCHANGED <<subs, doing, up, tasks, published, owed, changes>>

(* Everything sent has arrived and no call is under way.                   *)
Drained == /\ \A x \in Addressees : doing[x] = "nothing"
           /\ tasks = EmptyBag /\ deliveries = EmptyBag
           /\ \A s \in Servers : up[s] = << >> /\ down[s] = << >>

Rest == Drained /\ UNCHANGED vars

Next == \/ \E a \in Sessions : \/ Subscribe(a) \/ Unsubscribe(a)
                              \/ \E m \in Messages : Publish(a, m)
        \/ \E x \in Addressees : AddSubscriber(x) \/ LookWhoIsLeft(x) \/ TellParent(x)
        \/ \E s \in Servers : ParentHandles(s) \/ ChildHandles(s)
        \/ \E t \in BagToSet(tasks) : RunTask(t)
        \/ \E d \in BagToSet(deliveries) : Deliver(d)
        \/ Rest

Spec == Init /\ [][Next]_vars

-------------------------------------------------------------------------------
TypeOK == /\ subs \in [Servers -> SUBSET Addressees]
          /\ doing \in [Addressees -> {"nothing", "tell Sub", "add", "look", "tell Unsub"}]
          /\ up \in [Servers -> Seq({Sub, Unsub} \cup {Pub(m) : m \in Messages})]
          /\ down \in [Servers -> Seq(Messages)]
          /\ IsABag(tasks) /\ IsABag(deliveries)
          /\ BagToSet(tasks) \subseteq
                [at : Servers, msg : Messages, except : Servers \cup {Nobody}]
          /\ BagToSet(deliveries) \subseteq [to : Addressees, msg : Messages]
          /\ received \in [Sessions -> [Messages -> Nat]]
          /\ published \subseteq Messages
          /\ owed \subseteq Sessions \X published
          /\ changes \in 0..MaxChanges

(* However a message climbs and descends the tree, and whoever subscribes  *)
(* and unsubscribes meanwhile, no session is given it twice.               *)
AtMostOnce == \A a \in Sessions, m \in Messages : received[a][m] <= 1

(* A session that was subscribed when a message was published, with its    *)
(* part of the tree in place and no Unsub on its way, and that has stayed  *)
(* subscribed is given the message: the calls of others that begin after   *)
(* that, in whatever order their steps are taken, never cut it off.  (A    *)
(* call that had begun before can: see SubscribersAreFed in Subscriptions.) *)
OwedIsReceived == Drained => \A o \in owed : received[o[1]][o[2]] = 1
================================================================================
