------------------------------ MODULE OneWayLink ------------------------------
(* What org.gwems.servers.impl.WsClientImpl promises to those whose        *)
(* messages it has accepted: they are received in that order, without a    *)
(* gap and once each, up to some point from which on nothing is received.  *)
EXTENDS Naturals, Sequences

CONSTANT Messages

VARIABLES accepted,     \* messages taken over, in order
          received      \* messages the other side has got, in order

link == <<accepted, received>>

Init == accepted = << >> /\ received = << >>

Accept(m) == /\ accepted' = Append(accepted, m)
             /\ UNCHANGED received

Deliver == /\ Len(received) < Len(accepted)
           /\ received' = Append(received, accepted[Len(received) + 1])
           /\ UNCHANGED accepted

Next == Deliver \/ \E m \in Messages : Accept(m)

LinkSpec == Init /\ [][Next]_link
===============================================================================
