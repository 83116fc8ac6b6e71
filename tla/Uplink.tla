-------------------------------- MODULE Uplink --------------------------------
(***************************************************************************)
(* org.gwems.servers.impl.WsClientImpl: the client that carries the Sub,   *)
(* Unsub and Pub messages of GwemsPubSub to the parent server.  Threads of *)
(* the pool put strings into commands4serverQ; a thread of the client's    *)
(* own connects, does the handshake and then takes them out one by one and *)
(* writes them to the connection.                                          *)
(*                                                                         *)
(* The queue has room for few strings.  A caller waits for room for 100 ms *)
(* and then gives up without telling anybody.  The client's thread starts  *)
(* with the client: until the handshake is done, and for ever if it fails, *)
(* nothing is taken out.  Nobody makes a new connection when one is lost,  *)
(* and the thread goes on writing to a connection that is closed.          *)
(*                                                                         *)
(* thread is  "connecting"  in startUp                                     *)
(*            "polling"     in the loop of pollingLoop                     *)
(*            "closing"     waiting for the close after a "bye"            *)
(*            "ended"       out of startUp                                 *)
(***************************************************************************)
EXTENDS Naturals, Sequences

CONSTANTS Callers,      \* threads that call enqueueString
          Capacity,     \* of commands4serverQ, 16 in the code
          Kinds,        \* of strings: a subset of AllKinds
          MaxCalls      \* bound: calls of enqueueString in a behaviour

AllKinds == {"text", "bye"}     \* "ping" is written in its turn like any text

ASSUME CapacityAssumption == Capacity \in Nat \ {0}
ASSUME KindsAssumption == Kinds \subseteq AllKinds
ASSUME MaxCallsAssumption == MaxCalls \in Nat

(* The number of the call tells equal strings apart.                       *)
Messages == [call : 1..MaxCalls, by : Callers, kind : Kinds]
Nothing == << >>

VARIABLES q,            \* commands4serverQ
          thread,       \* where the client's thread is
          running,      \* the flag
          held,         \* <<m>> once the thread has taken m and not yet written it
          open,         \* the connection
          wire,         \* frames written and not yet handled by the parent
          offering,     \* for each caller: <<m>> while it waits to add m
          calls,        \* history: calls of enqueueString
          accepted,     \* history: what was added to the queue, in order
          received,     \* history: what the parent has handled, in order
          lost          \* history: what was written in vain, in order

callerVars == <<offering, calls>>
vars == <<q, thread, running, held, open, wire, callerVars, accepted, received, lost>>

Init == /\ q = << >> /\ wire = << >>
        /\ thread = "connecting"
        /\ running = TRUE
        /\ held = Nothing
        /\ open = FALSE
        /\ offering = [c \in Callers |-> Nothing]
        /\ calls = 0
        /\ accepted = << >> /\ received = << >> /\ lost = << >>

-------------------------------------------------------------------------------
(* The callers: enqueueString(s)                                           *)
Call(c, kind) == /\ offering[c] = Nothing /\ calls < MaxCalls
                 /\ calls' = calls + 1
                 /\ offering' = [offering EXCEPT
                                   ![c] = << [call |-> calls + 1, by |-> c, kind |-> kind] >>]
                 /\ UNCHANGED <<q, thread, running, held, open, wire, accepted, received, lost>>

(* Mistakes for the mutants: a queue without a bound; a stack.             *)
UnboundedAccept(c) == /\ offering[c] # Nothing
                      /\ q' = q \o offering[c]
                      /\ accepted' = accepted \o offering[c]
                      /\ offering' = [offering EXCEPT ![c] = Nothing]
                      /\ UNCHANGED <<thread, running, held, open, wire, calls, received, lost>>
AcceptInFront(c) == /\ offering[c] # Nothing
                    /\ Len(q) < Capacity
                    /\ q' = offering[c] \o q
                    /\ accepted' = accepted \o offering[c]
                    /\ offering' = [offering EXCEPT ![c] = Nothing]
                    /\ UNCHANGED <<thread, running, held, open, wire, calls, received, lost>>

(* offer finds room, at once or when the thread has made some.             *)
Accept(c) == /\ offering[c] # Nothing
             /\ Len(q) < Capacity
             /\ q' = q \o offering[c]
             /\ accepted' = accepted \o offering[c]
             /\ offering' = [offering EXCEPT ![c] = Nothing]
             /\ UNCHANGED <<thread, running, held, open, wire, calls, received, lost>>

(* A mistake for the mutants: put instead of offer, which never gives up   *)
(* before the client is stopped.                                           *)
PutGivesUp(c) == /\ offering[c] # Nothing
                 /\ Len(q) >= Capacity /\ ~running
                 /\ offering' = [offering EXCEPT ![c] = Nothing]
                 /\ UNCHANGED <<q, thread, running, held, open, wire, calls, accepted, received, lost>>

(* The 100 ms are over and there is still no room: offer returns false.    *)
GiveUp(c) == /\ offering[c] # Nothing
             /\ Len(q) >= Capacity
             /\ offering' = [offering EXCEPT ![c] = Nothing]
             /\ UNCHANGED <<q, thread, running, held, open, wire, calls, accepted, received, lost>>

Caller(c) == Accept(c) \/ GiveUp(c)

-------------------------------------------------------------------------------
(* The thread of the client *)

ThreadFrame == UNCHANGED <<running, callerVars, accepted, received>>

(* startUp: connect and handshake succeed, or one of them throws.          *)
Connect == /\ thread = "connecting"
           /\ \/ thread' = "polling" /\ open' = TRUE
              \/ thread' = "ended" /\ UNCHANGED open
           /\ UNCHANGED <<q, held, wire, lost>> /\ ThreadFrame

(* A mistake for the mutants: commands4serverQ.peek().                     *)
PeekPoll == /\ thread = "polling" /\ held = Nothing
            /\ running /\ q # << >>
            /\ held' = <<Head(q)>>
            /\ UNCHANGED <<q, thread, open, wire, lost>> /\ ThreadFrame

(* commands4serverQ.poll(...)                                              *)
Poll == /\ thread = "polling" /\ held = Nothing
        /\ running /\ q # << >>
        /\ held' = <<Head(q)>>
        /\ q' = Tail(q)
        /\ UNCHANGED <<thread, open, wire, lost>> /\ ThreadFrame

(* ch.writeAndFlush(frame), whose failure nobody looks at.                 *)
Write == /\ thread = "polling" /\ held # Nothing
         /\ held' = Nothing
         /\ IF open THEN wire' = wire \o held /\ UNCHANGED lost
                    ELSE lost' = lost \o held /\ UNCHANGED wire
         /\ thread' = IF held[1].kind = "bye" THEN "closing" ELSE "polling"
         /\ UNCHANGED <<q, open>> /\ ThreadFrame

(* A mistake for the mutants: the loop ends when poll returns null.        *)
LeaveWhenIdle == /\ \/ thread = "polling" /\ held = Nothing /\ (~running \/ q = << >>)
                    \/ thread = "closing" /\ ~open
                 /\ thread' = "ended"
                 /\ UNCHANGED <<q, held, open, wire, lost>> /\ ThreadFrame

(* The end of the loop, by stop() or after a "bye", and the finally of     *)
(* startUp.  shutdownGracefully closes the connection (LinkCloses).        *)
Leave == /\ \/ thread = "polling" /\ ~running /\ held = Nothing
            \/ thread = "closing" /\ ~open
         /\ thread' = "ended"
         /\ UNCHANGED <<q, held, open, wire, lost>> /\ ThreadFrame

Client == Connect \/ Poll \/ Write \/ Leave

(* stop()                                                                  *)
Stop == /\ running
        /\ running' = FALSE
        /\ UNCHANGED <<q, thread, held, open, wire, callerVars, accepted, received, lost>>

-------------------------------------------------------------------------------
(* The parent takes the next frame; a close frame closes the connection.   *)
ParentHandles == /\ wire # << >>
                 /\ wire' = Tail(wire)
                 /\ received' = Append(received, Head(wire))
                 /\ open' = (open /\ Head(wire).kind # "bye")
                 /\ UNCHANGED <<q, thread, running, held, callerVars, accepted, lost>>

(* A mistake for the mutants: channelInactive connects again and goes on.  *)
LinkReopens == /\ open
               /\ open' \in BOOLEAN
               /\ \E n \in 0..Len(wire) :
                     /\ wire' = SubSeq(wire, 1, n)
                     /\ lost' = SubSeq(wire, n + 1, Len(wire))
               /\ UNCHANGED <<q, thread, running, held, callerVars, accepted, received>>

(* The connection is lost or closed from either side.  channelInactive     *)
(* logs it.  The parent may still get some of what is on the way, and none *)
(* of what was written after the first frame it does not get.              *)
LinkCloses == /\ open
              /\ open' = FALSE
              /\ \E n \in 0..Len(wire) :
                    /\ wire' = SubSeq(wire, 1, n)
                    /\ lost' = SubSeq(wire, n + 1, Len(wire))
              /\ UNCHANGED <<q, thread, running, held, callerVars, accepted, received>>

Rest == /\ calls = MaxCalls /\ \A c \in Callers : offering[c] = Nothing
        /\ wire = << >>
        /\ UNCHANGED vars

Next == \/ \E c \in Callers : Caller(c) \/ \E kind \in Kinds : Call(c, kind)
        \/ Client \/ Stop \/ ParentHandles \/ LinkCloses \/ Rest

(* Threads go on; a timeout comes.  A connection attempt may take for ever *)
(* (nothing limits the handshake), so Connect is not promised.             *)
Fairness == /\ \A c \in Callers : WF_vars(Caller(c))
            /\ WF_vars(Poll \/ Write \/ Leave)
            /\ WF_vars(ParentHandles)

Spec == Init /\ [][Next]_vars
FairSpec == Spec /\ Fairness

-------------------------------------------------------------------------------
TypeOK == /\ q \in Seq(Messages) /\ Len(q) <= Capacity
          /\ thread \in {"connecting", "polling", "closing", "ended"}
          /\ running \in BOOLEAN /\ open \in BOOLEAN
          /\ held \in {Nothing} \cup {<<m>> : m \in Messages}
          /\ offering \in [Callers -> {Nothing} \cup {<<m>> : m \in Messages}]
          /\ calls \in 0..MaxCalls
          /\ {wire, accepted, received, lost} \subseteq Seq(Messages)

(* Whatever the network does and however the thread ends, each string that *)
(* was accepted is in one place, and the places are in order: what is lost *)
(* was written after everything the parent gets.  So a Sub that is lost    *)
(* with the connection takes all later messages with it; only a caller     *)
(* that gives up leaves a gap.                                             *)
NothingVanishes == accepted = received \o wire \o lost \o held \o q

(* As the one that offers sees it: the parent never handles a thread's     *)
(* Unsub before its earlier Sub, whoever else is waiting for room.         *)
CallersInOrder ==
    \A i, j \in DOMAIN received :
        i < j /\ received[i].by = received[j].by => received[i].call < received[j].call

(* The abstract specification.                                             *)
LinkToParent == INSTANCE OneWayLink
ForwardsInOrder == LinkToParent!LinkSpec

(* A parent that is slow, gone or never there keeps no thread of the pool. *)
CallersGetAway == \A c \in Callers : offering[c] # Nothing ~> offering[c] = Nothing

(* On a connection that holds, everything accepted is handled in the end,  *)
(* unless the client is stopped or says goodbye: also what was accepted    *)
(* while the thread found the queue empty, or before it was connected.     *)
AcceptedIsHandled ==
    \A n \in 1..MaxCalls :
        (open /\ running /\ Len(accepted) >= n) ~> (Len(received) >= n \/ ~open \/ ~running)
===============================================================================
