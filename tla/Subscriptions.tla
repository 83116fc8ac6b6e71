----------------------------- MODULE Subscriptions ----------------------------
(***************************************************************************)
(* The subscriptions of one server: Global.subscribe, Global.unsubscribe   *)
(* and Global.unsubscribeAgent over session2channel (a TwoWayMapping), and *)
(* the Sub and Unsub messages they send to the parent server through       *)
(* thePubSub.  Each call on the map is atomic; nothing makes a whole       *)
(* subscribe or unsubscribe atomic.  What the map said may be out of date  *)
(* when the message for the parent is sent or the map is changed.          *)
(*                                                                         *)
(* A session runs its own messages one at a time (see SessionAgent), so    *)
(* there is one process <<a, "session">> for each agent a.  The cleanup of *)
(* an expired session is called by a task of the TimeoutCache, which does  *)
(* not take part in that: it is a process of its own, <<a, "cleanup">>.    *)
(*                                                                         *)
(* The link to the parent keeps order and loses nothing here.  At the      *)
(* parent the session that stands for this server handles Sub and Unsub    *)
(* one at a time, so `upstream' is what the parent sends us.               *)
(***************************************************************************)
EXTENDS Naturals, Sequences, FiniteSets, TwoWayMapping

(* session2channel is the TwoWayMapping.                                   *)
Agents == Items
Channels == Things

CONSTANTS Uses,         \* what sessions do: a subset of AllUses
          SilentWhenExpired, \* whether a session rests from before its cleanup on
          MaxUses       \* bound: calls of the three methods in a behaviour

AllUses == {"subscribe", "unsubscribe", "expire"}

ASSUME UsesAssumption == Uses \subseteq AllUses /\ SilentWhenExpired \in BOOLEAN
ASSUME MaxUsesAssumption == MaxUses \in Nat

VARIABLES pc,           \* where each process is
          channel,      \* the channel each process is working on
          todo,         \* the channels a cleanup has still to look at
          link,         \* Sub and Unsub messages on their way to the parent
          upstream,     \* the channels this server is subscribed to at the parent
          expired,      \* agents whose cleanup has begun
          uses          \* history: calls so far

vars == <<item2things, thing2items, pc, channel, todo, link, upstream, expired, uses>>

Subscribers(c) == thing2items_get(c)
ChannelsOf(a) == item2things_get(a)

NoChannel == "no channel"
Procs == Agents \X {"session", "cleanup"}

Init == /\ MapInit
        /\ pc = [p \in Procs |-> "idle"]
        /\ channel = [p \in Procs |-> NoChannel]
        /\ todo = [p \in Procs |-> {}]
        /\ link = << >>
        /\ upstream = {}
        /\ expired = {}
        /\ uses = 0

(* A call of one of the three methods.                                     *)
Begin(p, use, next, c, others) ==
    /\ use \in Uses
    /\ uses < MaxUses
    /\ uses' = uses + 1
    /\ pc[p] = "idle"
    /\ pc' = [pc EXCEPT ![p] = next]
    /\ channel' = [channel EXCEPT ![p] = c]
    /\ todo' = [todo EXCEPT ![p] = others]

GoTo(p, next) == /\ pc' = [pc EXCEPT ![p] = next]
                 /\ UNCHANGED <<channel, todo, uses>>

(* On to the next channel of a cleanup, or the end of the call.            *)
Advance(p) ==
    /\ \/ /\ todo[p] = {}
          /\ pc' = [pc EXCEPT ![p] = "idle"]
          /\ channel' = [channel EXCEPT ![p] = NoChannel]
          /\ UNCHANGED todo
       \/ \E c \in todo[p] : /\ pc' = [pc EXCEPT ![p] = "get"]
                             /\ channel' = [channel EXCEPT ![p] = c]
                             /\ todo' = [todo EXCEPT ![p] = @ \ {c}]
    /\ UNCHANGED uses

(* thePubSub.subcribe(c), thePubSub.unsubcribe(c)                          *)
Send(message, c) == link' = Append(link, [message |-> message, channel |-> c])

(* agents.isEmpty(); the root, whose thePubSub is null, stops here         *)
TellsParent(c) == Subscribers(c) = {}

(* Nothing in the code keeps a session from running a message during or    *)
(* after its cleanup; runs with SilentWhenExpired look at sessions that do *)
(* not, because no message of theirs is left.                              *)
MayUse(a) == SilentWhenExpired => a \notin expired

-------------------------------------------------------------------------------
(* Global.subscribe(a, c)                                                  *)
SubscribeGet(a, c) ==
    /\ MayUse(a)
    /\ Begin(<<a, "session">>, "subscribe", IF TellsParent(c) THEN "sub" ELSE "add", c, {})
    /\ UNCHANGED <<maps, link, upstream, expired>>

SubscribeSend(a) == LET p == <<a, "session">> IN
    /\ pc[p] = "sub"
    /\ Send("Sub", channel[p])
    /\ GoTo(p, "add")
    /\ UNCHANGED <<maps, upstream, expired>>

SubscribeAdd(a) == LET p == <<a, "session">> IN
    /\ pc[p] = "add"
    /\ Add(a, channel[p])
    /\ Advance(p)
    /\ UNCHANGED <<link, upstream, expired>>

(* Global.unsubscribe(a, c)                                                *)
UnsubscribeRemove(a, c) ==
    /\ MayUse(a)
    /\ Begin(<<a, "session">>, "unsubscribe", "get", c, {})
    /\ Remove(a, c)
    /\ UNCHANGED <<link, upstream, expired>>

(* A mistake for the mutants: the channels are looked up after removeItem.  *)
CleanupGetLate(a) ==
    /\ a \notin expired
    /\ SilentWhenExpired => pc[<<a, "session">>] = "idle"
    /\ Begin(<<a, "cleanup">>, "expire", "removeItem", NoChannel, {})
    /\ expired' = expired \cup {a}
    /\ UNCHANGED <<maps, link, upstream>>

(* Global.unsubscribeAgent(a), called when the session's time has run out; *)
(* nothing is done for an agent without channels.                          *)
CleanupGet(a) ==
    /\ a \notin expired
    /\ SilentWhenExpired => pc[<<a, "session">>] = "idle"
    /\ Begin(<<a, "cleanup">>, "expire", "removeItem", NoChannel, ChannelsOf(a))
    /\ expired' = expired \cup {a}
    /\ UNCHANGED <<maps, link, upstream>>

CleanupRemoveItem(a) == LET p == <<a, "cleanup">> IN
    /\ pc[p] = "removeItem"
    /\ RemoveItem(a)
    /\ Advance(p)
    /\ UNCHANGED <<link, upstream, expired>>

(* Both unsubscribe and unsubscribeAgent look again, one channel at a time, *)
(* and tell the parent when nobody is left.                                *)
LookAgain(p) == /\ pc[p] = "get"
                /\ IF TellsParent(channel[p]) THEN GoTo(p, "unsub") ELSE Advance(p)
                /\ UNCHANGED <<maps, link, upstream, expired>>

UnsubscribeSend(p) == /\ pc[p] = "unsub"
                      /\ Send("Unsub", channel[p])
                      /\ Advance(p)
                      /\ UNCHANGED <<maps, upstream, expired>>

(* The parent runs d.Sub or d.Unsub for the session of this server.        *)
ParentHandles ==
    /\ link # << >>
    /\ link' = Tail(link)
    /\ LET m == Head(link) IN
         upstream' = IF m.message = "Sub" THEN upstream \cup {m.channel}
                                          ELSE upstream \ {m.channel}
    /\ UNCHANGED <<maps, pc, channel, todo, expired, uses>>

(* No call is in progress and the parent has seen every message.           *)
Quiet == link = << >> /\ \A p \in Procs : pc[p] = "idle"

Rest == /\ Quiet
        /\ uses = MaxUses \/ \A a \in Agents : ~MayUse(a)
        /\ UNCHANGED vars

Next == \/ \E a \in Agents, c \in Channels : SubscribeGet(a, c) \/ UnsubscribeRemove(a, c)
        \/ \E a \in Agents : \/ SubscribeSend(a) \/ SubscribeAdd(a)
                            \/ CleanupGet(a) \/ CleanupRemoveItem(a)
        \/ \E p \in Procs : LookAgain(p) \/ UnsubscribeSend(p)
        \/ ParentHandles
        \/ Rest

Spec == Init /\ [][Next]_vars

-------------------------------------------------------------------------------
TypeOK == /\ MapTypeOK
          /\ pc \in [Procs -> {"idle", "sub", "add", "removeItem", "get", "unsub"}]
          /\ channel \in [Procs -> Channels \cup {NoChannel}]
          /\ todo \in [Procs -> SUBSET Channels]
          /\ link \in Seq([message : {"Sub", "Unsub"}, channel : Channels])
          /\ upstream \subseteq Channels
          /\ expired \subseteq Agents
          /\ uses \in 0..MaxUses

(* The parent does not go on sending us a channel nobody here listens to:  *)
(* whoever removes the last subscriber sees the map empty and says so, and *)
(* says it after every Sub for that subscriber.  Of sessions that are      *)
(* silent by the time they expire (SilentWhenExpired).                     *)
NoUpstreamLeak == Quiet => \A c \in upstream : Subscribers(c) # {}

-------------------------------------------------------------------------------
(* What is said of the program and the code does not do.                   *)

(* Every subscriber is fed by the parent.                                  *)
SubscribersAreFed ==
    Quiet => \A c \in Channels : Subscribers(c) # {} => c \in upstream

(* Global.java:102 "The main defense is that only agents subscribe and all *)
(* agents have a timeout that unsubscribes them": once the cleanup of an   *)
(* agent is over, and its session too, the agent is subscribed to nothing. *)
CleanupIsFinal == Quiet => \A a \in expired : ChannelsOf(a) = {}
===============================================================================
