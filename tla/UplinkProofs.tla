----------------------------- MODULE UplinkProofs -----------------------------
(***************************************************************************)
(* Proofs about Uplink, for every set of callers, every capacity of the    *)
(* queue and every number of calls.                                        *)
(***************************************************************************)
EXTENDS Uplink, SequenceTheorems, TLAPS

(* As long as the connection is up, or is still to come, nothing has been  *)
(* written in vain: lost messages end what the parent will ever get.       *)
LossIsFinal == open \/ thread = "connecting" => lost = << >>

(* A caller's waiting message is its own and newer than all of its that    *)
(* were accepted.                                                          *)
OfferIsNewest ==
    \A c \in Callers : offering[c] # Nothing =>
        /\ offering[c][1].by = c /\ offering[c][1].call <= calls
        /\ \A i \in 1..Len(accepted) :
              accepted[i].by = c => accepted[i].call < offering[c][1].call

(* What was accepted of one caller is in the order of its calls.           *)
AcceptedInOrder ==
    /\ \A i \in 1..Len(accepted) : accepted[i].call <= calls
    /\ \A i, j \in 1..Len(accepted) :
          i < j /\ accepted[i].by = accepted[j].by => accepted[i].call < accepted[j].call

NotOpenYet == thread = "connecting" => ~open

(* What is inductive about the places of a string: a loss has to come      *)
(* after everything that is under way, and it does because nothing is lost *)
(* while the connection is up.                                             *)
IInv == TypeOK /\ NothingVanishes /\ LossIsFinal /\ NotOpenYet

(* What the parent has handled is a beginning of what was accepted.        *)
ReceivedIsPrefix ==
    /\ Len(received) <= Len(accepted)
    /\ \A i \in 1..Len(received) : received[i] = accepted[i]

(* What is inductive about the order of each caller's strings.             *)
OrderInv == OfferIsNewest /\ AcceptedInOrder

-------------------------------------------------------------------------------
(* Taking the head of a sequence to the end of the one before it.          *)
LEMMA HeadMovesOver ==
    ASSUME NEW R, NEW a \in Seq(R), NEW b \in Seq(R), b # << >>
    PROVE  /\ Head(b) \in R /\ Tail(b) \in Seq(R) /\ <<Head(b)>> \in Seq(R)
           /\ (a \o <<Head(b)>>) \o Tail(b) = a \o b
           /\ Head(b) = (a \o b)[Len(a) + 1]
           /\ Len(a) < Len(a \o b)
  <1>1. /\ Len(b) \in Nat \ {0}
        /\ Head(b) = b[1]
        /\ Head(b) \in R
        /\ Tail(b) \in Seq(R)
        /\ Len(Tail(b)) = Len(b) - 1
        /\ \A i \in 1..Len(Tail(b)) : Tail(b)[i] = b[i + 1]
    OBVIOUS
  <1>2. /\ <<Head(b)>> \in Seq(R)
        /\ Len(<<Head(b)>>) = 1
        /\ <<Head(b)>>[1] = Head(b)
    BY <1>1
  <1>3. <<Head(b)>> \o Tail(b) = b
    <2>1. /\ <<Head(b)>> \o Tail(b) \in Seq(R)
          /\ Len(<<Head(b)>> \o Tail(b)) = Len(b)
          /\ \A i \in 1..Len(b) : (<<Head(b)>> \o Tail(b))[i] = b[i]
      BY <1>1, <1>2
    <2> QED  BY <2>1, SeqEqual
  <1>4. (a \o <<Head(b)>>) \o Tail(b) = a \o (<<Head(b)>> \o Tail(b))
    BY <1>1, <1>2, ConcatAssociative
  <1>5. Head(b) = (a \o b)[Len(a) + 1] /\ Len(a) < Len(a \o b)
    BY <1>1
  <1> QED  BY <1>1, <1>2, <1>3, <1>4, <1>5

(* The two parts of a sequence make it up again.                           *)
LEMMA PartsMakeWhole ==
    ASSUME NEW R, NEW s \in Seq(R), NEW n \in 0..Len(s)
    PROVE  /\ SubSeq(s, 1, n) \in Seq(R)
           /\ SubSeq(s, n + 1, Len(s)) \in Seq(R)
           /\ SubSeq(s, 1, n) \o SubSeq(s, n + 1, Len(s)) = s
  <1>1. Len(s) \in Nat /\ \A i \in 1..Len(s) : s[i] \in R
    OBVIOUS
  <1>2. SubSeq(s, 1, n) \in Seq(R) /\ SubSeq(s, n + 1, Len(s)) \in Seq(R)
    BY <1>1, SubSeqProperties
  <1>3. SubSeq(s, 1, n) \o SubSeq(s, n + 1, Len(s)) = SubSeq(s, 1, Len(s))
    <2>1. 1 \in 1..(Len(s) + 1) /\ n \in (1 - 1)..Len(s) /\ Len(s) \in n..Len(s)
      BY <1>1
    <2> QED  BY <2>1, ConcatAdjacentSubSeq
  <1> QED  BY <1>2, <1>3, SubSeqFull

LEMMA OneMessage ==
    ASSUME NEW R, NEW h \in {Nothing} \cup {<<m>> : m \in R}
    PROVE  /\ h \in Seq(R)
           /\ h # Nothing => h[1] \in R /\ h = <<h[1]>> /\ Len(h) = 1
  <1>1. CASE h = Nothing
    BY <1>1, EmptySeq DEF Nothing
  <1>2. ASSUME NEW m \in R, h = <<m>> PROVE h \in Seq(R) /\ h[1] \in R /\ h = <<h[1]>> /\ Len(h) = 1
    BY <1>2
  <1> QED  BY <1>1, <1>2

(* The sequences that everything is written down in.                       *)
LEMMA Types ==
    ASSUME TypeOK
    PROVE  /\ q \in Seq(Messages) /\ wire \in Seq(Messages) /\ lost \in Seq(Messages)
           /\ accepted \in Seq(Messages) /\ received \in Seq(Messages)
           /\ held \in Seq(Messages)
           /\ received \o wire \in Seq(Messages)
           /\ (received \o wire) \o lost \in Seq(Messages)
           /\ ((received \o wire) \o lost) \o held \in Seq(Messages)
  <1>1. /\ q \in Seq(Messages) /\ wire \in Seq(Messages) /\ lost \in Seq(Messages)
        /\ accepted \in Seq(Messages) /\ received \in Seq(Messages)
        /\ held \in Seq(Messages)
    BY OneMessage DEF TypeOK
  <1> QED  BY <1>1, ConcatProperties

-------------------------------------------------------------------------------
(* Init establishes the inductive invariant.                               *)
LEMMA InitIInv == Init => IInv
<1> SUFFICES ASSUME Init PROVE IInv
  OBVIOUS
<1>1. TypeOK
  <2>1. << >> \in Seq(Messages) /\ Len(<< >>) = 0
    BY EmptySeq
  <2>2. /\ thread \in {"connecting", "polling", "closing", "ended"}
        /\ running \in BOOLEAN /\ open \in BOOLEAN
        /\ held \in {Nothing} \cup {<<m>> : m \in Messages}
    BY Zenon DEF Init
  <2>3. Len(q) <= Capacity /\ calls \in 0..MaxCalls
    BY <2>1, CapacityAssumption, MaxCallsAssumption DEF Init
  <2>4. offering \in [Callers -> {Nothing} \cup {<<m>> : m \in Messages}]
    BY DEF Init
  <2>5. q \in Seq(Messages) /\ {wire, accepted, received, lost} \subseteq Seq(Messages)
    BY <2>1 DEF Init
  <2> QED  BY <2>2, <2>3, <2>4, <2>5 DEF TypeOK
<1>2. << >> \o << >> = << >>
  BY EmptySeq, ConcatEmptySeq, Zenon
<1>3. NothingVanishes
  BY <1>2 DEF Init, NothingVanishes, Nothing
<1> QED
  BY <1>1, <1>3 DEF Init, IInv, LossIsFinal, NotOpenYet

(* Every step preserves it.                                                *)
LEMMA NextIInv == IInv /\ [Next]_vars => IInv'
<1> SUFFICES ASSUME IInv, [Next]_vars PROVE IInv'
  OBVIOUS
<1> USE DEF IInv
<1>t. /\ q \in Seq(Messages) /\ wire \in Seq(Messages) /\ lost \in Seq(Messages) /\ held \in Seq(Messages)
      /\ accepted \in Seq(Messages) /\ received \in Seq(Messages)
      /\ received \o wire \in Seq(Messages)
      /\ (received \o wire) \o lost \in Seq(Messages)
      /\ ((received \o wire) \o lost) \o held \in Seq(Messages)
  BY Types
<1>1. ASSUME NEW c \in Callers, NEW kind \in Kinds, Call(c, kind) PROVE IInv'
  <2>1. << [call |-> calls + 1, by |-> c, kind |-> kind] >> \in {<<m>> : m \in Messages}
    <3>1. [call |-> calls + 1, by |-> c, kind |-> kind] \in Messages
      BY <1>1, KindsAssumption, MaxCallsAssumption DEF Call, TypeOK, Messages
    <3> QED  BY <3>1
  <2>2. TypeOK'
    BY <1>1, <2>1, MaxCallsAssumption DEF Call, TypeOK
  <2> QED
    BY <1>1, <2>2 DEF Call, NothingVanishes, LossIsFinal, NotOpenYet
<1>2. ASSUME NEW c \in Callers, Accept(c) PROVE IInv'
  <2>1. offering[c] \in Seq(Messages) /\ Len(offering[c]) = 1
    BY <1>2, OneMessage DEF Accept, TypeOK
  <2>2. /\ q \o offering[c] \in Seq(Messages)
        /\ Len(q \o offering[c]) = Len(q) + Len(offering[c])
        /\ accepted \o offering[c] \in Seq(Messages)
    BY <1>t, <2>1, ConcatProperties, Zenon
  <2>3. TypeOK'
    <3>1. Len(q') <= Capacity
      BY <1>2, <1>t, <2>1, <2>2, CapacityAssumption DEF Accept
    <3>2. offering' \in [Callers -> {Nothing} \cup {<<m>> : m \in Messages}]
      BY <1>2 DEF Accept, TypeOK
    <3> QED
      BY <1>2, <1>t, <2>2, <3>1, <3>2 DEF Accept, TypeOK
  <2>4. (((received \o wire) \o lost) \o held) \o (q \o offering[c])
        = ((((received \o wire) \o lost) \o held) \o q) \o offering[c]
    <3> DEFINE p == ((received \o wire) \o lost) \o held
               o == offering[c]
    <3>1. p \in Seq(Messages) /\ q \in Seq(Messages) /\ o \in Seq(Messages)
      BY <1>t, <2>1
    <3> HIDE DEF p, o
    <3>2. p \o (q \o o) = (p \o q) \o o
      BY <3>1, ConcatAssociative
    <3> QED  BY <3>2 DEF p, o
  <2>5. NothingVanishes'
    BY <1>2, <2>4 DEF Accept, NothingVanishes
  <2> QED
    BY <1>2, <2>3, <2>5 DEF Accept, LossIsFinal, NotOpenYet
<1>3. ASSUME NEW c \in Callers, GiveUp(c) PROVE IInv'
  <2>1. TypeOK'
    BY <1>3 DEF GiveUp, TypeOK, Nothing
  <2> QED
    BY <1>3, <2>1 DEF GiveUp, NothingVanishes, LossIsFinal, NotOpenYet
<1>4. CASE Connect
  <2>1. TypeOK'
    BY <1>4 DEF Connect, ThreadFrame, callerVars, TypeOK
  <2> QED
    BY <1>4, <2>1 DEF Connect, ThreadFrame, callerVars, NothingVanishes, LossIsFinal, NotOpenYet
<1>5. CASE Poll
  <2>1. /\ Head(q) \in Messages /\ Tail(q) \in Seq(Messages) /\ Len(Tail(q)) = Len(q) - 1
    BY <1>5, <1>t, HeadTailProperties DEF Poll
  <2>2. TypeOK'
    BY <1>5, <1>t, <2>1, CapacityAssumption DEF Poll, ThreadFrame, callerVars, TypeOK
  <2>3. ((received \o wire) \o lost) \o held = (received \o wire) \o lost
    BY <1>5, <1>t, ConcatEmptySeq DEF Poll, Nothing
  <2>4. (((received \o wire) \o lost) \o <<Head(q)>>) \o Tail(q) = ((received \o wire) \o lost) \o q
    <3>1. q # << >>
      BY <1>5 DEF Poll
    <3> DEFINE p == (received \o wire) \o lost
    <3>2. p \in Seq(Messages) /\ q \in Seq(Messages)
      BY <1>t
    <3> HIDE DEF p
    <3>3. (p \o <<Head(q)>>) \o Tail(q) = p \o q
      BY <3>1, <3>2, HeadMovesOver
    <3> QED  BY <3>3 DEF p
  <2>5. NothingVanishes'
    BY <1>5, <2>3, <2>4 DEF Poll, ThreadFrame, NothingVanishes
  <2> QED
    BY <1>5, <2>2, <2>5 DEF Poll, ThreadFrame, LossIsFinal, NotOpenYet
<1>6. CASE Write
  <2>1. TypeOK'
    <3>1. wire \o held \in Seq(Messages) /\ lost \o held \in Seq(Messages)
      BY <1>t, ConcatProperties
    <3> QED
      BY <1>6, <1>t, <3>1 DEF Write, ThreadFrame, callerVars, TypeOK
  <2>2. NothingVanishes'
    <3>1. CASE open
      <4>1. lost = << >>
        BY <3>1 DEF LossIsFinal
      <4>2. accepted = ((received \o wire) \o held) \o q
        BY <1>t, <4>1, ConcatEmptySeq DEF NothingVanishes
      <4>3. received \o (wire \o held) = (received \o wire) \o held
        <5>1. received \in Seq(Messages) /\ wire \in Seq(Messages) /\ held \in Seq(Messages)
          BY <1>t
        <5> QED  BY <5>1, ConcatAssociative
      <4>4. received \o (wire \o held) \in Seq(Messages)
        BY <1>t, ConcatProperties
      <4>5. ((received \o (wire \o held)) \o << >>) \o << >> = received \o (wire \o held)
        BY <4>4, ConcatEmptySeq
      <4> QED
        BY <1>6, <3>1, <4>1, <4>2, <4>3, <4>5 DEF Write, ThreadFrame, NothingVanishes, Nothing
    <3>2. CASE ~open
      <4>1. (received \o wire) \o (lost \o held) = ((received \o wire) \o lost) \o held
        <5>1. received \o wire \in Seq(Messages) /\ lost \in Seq(Messages) /\ held \in Seq(Messages)
          BY <1>t
        <5> QED  BY <5>1, ConcatAssociative
      <4>2. (((received \o wire) \o lost) \o held) \o << >> = ((received \o wire) \o lost) \o held
        BY <1>t, ConcatEmptySeq
      <4> QED
        BY <1>6, <3>2, <4>1, <4>2 DEF Write, ThreadFrame, NothingVanishes, Nothing
    <3> QED  BY <3>1, <3>2
  <2> QED
    BY <1>6, <2>1, <2>2 DEF Write, ThreadFrame, LossIsFinal, NotOpenYet
<1>7. CASE Leave
  <2>1. TypeOK'
    BY <1>7 DEF Leave, ThreadFrame, callerVars, TypeOK
  <2> QED
    BY <1>7, <2>1 DEF Leave, ThreadFrame, NothingVanishes, LossIsFinal, NotOpenYet
<1>8. CASE Stop
  <2>1. TypeOK'
    BY <1>8 DEF Stop, callerVars, TypeOK
  <2> QED
    BY <1>8, <2>1 DEF Stop, NothingVanishes, LossIsFinal, NotOpenYet
<1>9. CASE ParentHandles
  <2>1. /\ Head(wire) \in Messages /\ Tail(wire) \in Seq(Messages) /\ <<Head(wire)>> \in Seq(Messages)
        /\ (received \o <<Head(wire)>>) \o Tail(wire) = received \o wire
    <3>1. wire # << >>
      BY <1>9 DEF ParentHandles
    <3>2. received \in Seq(Messages) /\ wire \in Seq(Messages)
      BY <1>t
    <3> QED  BY <3>1, <3>2, HeadMovesOver
  <2>2. Append(received, Head(wire)) = received \o <<Head(wire)>>
    BY <1>t, <2>1, AppendIsConcat
  <2>3. Append(received, Head(wire)) \in Seq(Messages)
    BY <1>t, <2>1, AppendProperties
  <2>4. TypeOK'
    BY <1>9, <1>t, <2>1, <2>3 DEF ParentHandles, callerVars, TypeOK
  <2>5. NothingVanishes'
    BY <1>9, <2>1, <2>2 DEF ParentHandles, NothingVanishes
  <2> QED
    BY <1>9, <2>4, <2>5 DEF ParentHandles, LossIsFinal, NotOpenYet
<1>10. CASE LinkCloses
  <2>1. PICK n \in 0..Len(wire) : /\ wire' = SubSeq(wire, 1, n)
                                  /\ lost' = SubSeq(wire, n + 1, Len(wire))
    BY <1>10 DEF LinkCloses
  <2>2. wire' \in Seq(Messages) /\ lost' \in Seq(Messages) /\ wire' \o lost' = wire
    BY <1>t, <2>1, PartsMakeWhole
  <2>3. TypeOK'
    BY <1>10, <1>t, <2>2 DEF LinkCloses, callerVars, TypeOK
  <2>4. lost = << >>
    BY <1>10 DEF LinkCloses, LossIsFinal
  <2>5. (received \o wire') \o lost' = (received \o wire) \o lost
    <3>1. (received \o wire') \o lost' = received \o (wire' \o lost')
      <4>1. received \in Seq(Messages) /\ wire' \in Seq(Messages) /\ lost' \in Seq(Messages)
        BY <1>t, <2>2
      <4> QED  BY <4>1, ConcatAssociative
    <3>2. (received \o wire) \o lost = received \o wire
      BY <1>t, <2>4, ConcatEmptySeq
    <3> QED  BY <2>2, <3>1, <3>2
  <2>6. NothingVanishes'
    BY <1>10, <2>5 DEF LinkCloses, NothingVanishes
  <2> QED
    BY <1>10, <2>3, <2>6 DEF LinkCloses, LossIsFinal, NotOpenYet
<1>11. CASE Rest \/ UNCHANGED vars
  <2>1. TypeOK'
    BY <1>11 DEF Rest, vars, callerVars, TypeOK
  <2>2. NothingVanishes'
    BY <1>11 DEF Rest, vars, NothingVanishes
  <2> QED
    BY <1>11, <2>1, <2>2 DEF Rest, vars, LossIsFinal, NotOpenYet
<1> QED
  BY <1>1, <1>2, <1>3, <1>4, <1>5, <1>6, <1>7, <1>8, <1>9, <1>10, <1>11 DEF Next, Caller, Client

(* The order of each caller's strings is kept.                             *)
LEMMA InitOrder == Init => OrderInv
  BY DEF Init, OrderInv, OfferIsNewest, AcceptedInOrder

LEMMA NextOrder == TypeOK /\ OrderInv /\ [Next]_vars => OrderInv'
<1> SUFFICES ASSUME TypeOK, OrderInv, [Next]_vars PROVE OrderInv'
  OBVIOUS
<1>t. /\ accepted \in Seq(Messages) /\ calls \in Nat
      /\ \A i \in 1..Len(accepted) : accepted[i] \in Messages /\ accepted[i].call \in Nat
  <2>1. accepted \in Seq(Messages) /\ calls \in Nat
    BY Types, MaxCallsAssumption DEF TypeOK
  <2>2. \A i \in 1..Len(accepted) : accepted[i] \in Messages
    BY <2>1
  <2>3. \A m \in Messages : m.call \in Nat
    BY MaxCallsAssumption DEF Messages
  <2> QED  BY <2>1, <2>2, <2>3
<1>1. ASSUME NEW c \in Callers, NEW kind \in Kinds, Call(c, kind) PROVE OrderInv'
  <2>1. AcceptedInOrder'
    BY <1>1, <1>t DEF Call, OrderInv, AcceptedInOrder
  <2>2. OfferIsNewest'
    <3> SUFFICES ASSUME NEW d \in Callers, offering'[d] # Nothing
                 PROVE  /\ offering'[d][1].by = d /\ offering'[d][1].call <= calls'
                        /\ \A i \in 1..Len(accepted') :
                              accepted'[i].by = d => accepted'[i].call < offering'[d][1].call
      BY DEF OfferIsNewest
    <3>1. CASE d = c
      <4>1. offering'[d][1] = [call |-> calls + 1, by |-> c, kind |-> kind]
        BY <1>1, <3>1 DEF Call, TypeOK
      <4> QED
        BY <1>1, <1>t, <3>1, <4>1 DEF Call, OrderInv, AcceptedInOrder
    <3>2. CASE d # c
      <4>1. offering'[d] = offering[d] /\ offering[d][1] \in Messages
        BY <1>1, <3>2, OneMessage DEF Call, TypeOK
      <4> QED
        BY <1>1, <1>t, <4>1 DEF Call, OrderInv, OfferIsNewest, Messages
    <3> QED  BY <3>1, <3>2
  <2> QED  BY <2>1, <2>2 DEF OrderInv
<1>2. ASSUME NEW c \in Callers, Accept(c) PROVE OrderInv'
  <2>1. PICK m \in Messages : offering[c] = <<m>>
    BY <1>2 DEF Accept, TypeOK
  <2>2. /\ m.by = c /\ m.call <= calls /\ m.call \in Nat
        /\ \A i \in 1..Len(accepted) : accepted[i].by = c => accepted[i].call < m.call
    <3>1. offering[c][1] = m /\ offering[c] # Nothing
      BY <1>2, <2>1 DEF Accept
    <3>2. m.call \in Nat
      BY MaxCallsAssumption DEF Messages
    <3> QED  BY <3>1, <3>2 DEF OrderInv, OfferIsNewest
  <2>3. /\ Len(accepted') = Len(accepted) + 1
        /\ \A i \in 1..Len(accepted) : accepted'[i] = accepted[i]
        /\ accepted'[Len(accepted) + 1] = m
    BY <1>2, <1>t, <2>1 DEF Accept
  <2>4. AcceptedInOrder'
    <3>1. \A i \in 1..Len(accepted') : i \in 1..Len(accepted) \/ i = Len(accepted) + 1
      BY <1>t, <2>3
    <3>2. \A i \in 1..Len(accepted') : accepted'[i].call <= calls'
      BY <1>2, <1>t, <2>2, <2>3, <3>1 DEF Accept, OrderInv, AcceptedInOrder
    <3>3. ASSUME NEW i \in 1..Len(accepted'), NEW j \in 1..Len(accepted'),
                 i < j, accepted'[i].by = accepted'[j].by
          PROVE  accepted'[i].call < accepted'[j].call
      <4>1. i \in 1..Len(accepted)
        BY <1>t, <2>3, <3>3
      <4>2. CASE j \in 1..Len(accepted)
        BY <2>3, <3>3, <4>1, <4>2 DEF OrderInv, AcceptedInOrder
      <4>3. CASE j = Len(accepted) + 1
        BY <2>2, <2>3, <3>3, <4>1, <4>3
      <4> QED  BY <3>1, <4>2, <4>3
    <3> QED  BY <3>2, <3>3 DEF AcceptedInOrder
  <2>5. OfferIsNewest'
    <3> SUFFICES ASSUME NEW d \in Callers, offering'[d] # Nothing
                 PROVE  /\ offering'[d][1].by = d /\ offering'[d][1].call <= calls'
                        /\ \A i \in 1..Len(accepted') :
                              accepted'[i].by = d => accepted'[i].call < offering'[d][1].call
      BY DEF OfferIsNewest
    <3>1. d # c /\ offering'[d] = offering[d]
      BY <1>2 DEF Accept, TypeOK
    <3>2. \A i \in 1..Len(accepted') : i \in 1..Len(accepted) \/ accepted'[i] = m
      BY <1>t, <2>3
    <3> QED
      BY <1>2, <1>t, <2>2, <2>3, <3>1, <3>2 DEF Accept, OrderInv, OfferIsNewest
  <2> QED  BY <2>4, <2>5 DEF OrderInv
<1>3. ASSUME NEW c \in Callers, GiveUp(c) PROVE OrderInv'
  BY <1>3 DEF GiveUp, TypeOK, OrderInv, OfferIsNewest, AcceptedInOrder
<1>4. CASE Client
  BY <1>4 DEF Client, Connect, Poll, Write, Leave, ThreadFrame, callerVars,
              OrderInv, OfferIsNewest, AcceptedInOrder
<1>5. CASE Stop \/ ParentHandles \/ LinkCloses \/ Rest \/ UNCHANGED vars
  BY <1>5 DEF Stop, ParentHandles, LinkCloses, Rest, vars, callerVars,
              OrderInv, OfferIsNewest, AcceptedInOrder
<1> QED
  BY <1>1, <1>2, <1>3, <1>4, <1>5 DEF Next, Caller

LEMMA InvGivesPrefix ==
    ASSUME IInv
    PROVE  ReceivedIsPrefix
  <1>1. /\ received \in Seq(Messages) /\ wire \in Seq(Messages) /\ lost \in Seq(Messages)
        /\ held \in Seq(Messages) /\ q \in Seq(Messages) /\ accepted \in Seq(Messages)
        /\ received \o wire \in Seq(Messages)
        /\ (received \o wire) \o lost \in Seq(Messages)
        /\ ((received \o wire) \o lost) \o held \in Seq(Messages)
    BY Types DEF IInv
  <1>2. ASSUME NEW a \in Seq(Messages), NEW b \in Seq(Messages),
               Len(received) <= Len(a), \A i \in 1..Len(received) : received[i] = a[i]
        PROVE  /\ Len(received) <= Len(a \o b)
               /\ \A i \in 1..Len(received) : received[i] = (a \o b)[i]
    BY <1>1, <1>2
  <1>3. /\ Len(received) <= Len(received \o wire)
        /\ \A i \in 1..Len(received) : received[i] = (received \o wire)[i]
    BY <1>1, <1>2
  <1>4. /\ Len(received) <= Len((received \o wire) \o lost)
        /\ \A i \in 1..Len(received) : received[i] = ((received \o wire) \o lost)[i]
    BY <1>1, <1>2, <1>3
  <1>5. /\ Len(received) <= Len(((received \o wire) \o lost) \o held)
        /\ \A i \in 1..Len(received) : received[i] = (((received \o wire) \o lost) \o held)[i]
    BY <1>1, <1>2, <1>4
  <1>6. /\ Len(received) <= Len(accepted)
        /\ \A i \in 1..Len(received) : received[i] = accepted[i]
    BY <1>1, <1>2, <1>5 DEF IInv, NothingVanishes
  <1> QED  BY <1>6 DEF ReceivedIsPrefix

LEMMA Invariance == Spec => [](IInv /\ OrderInv /\ ReceivedIsPrefix)
<1>1. Init => IInv /\ OrderInv
  BY InitIInv, InitOrder
<1>2. IInv /\ OrderInv /\ [Next]_vars => (IInv /\ OrderInv)'
  BY NextIInv, NextOrder DEF IInv
<1>3. IInv => ReceivedIsPrefix
  BY InvGivesPrefix
<1> QED  BY <1>1, <1>2, <1>3, PTL DEF Spec

-------------------------------------------------------------------------------
(* Every variable keeps its type; the queue never holds more than its      *)
(* capacity, for any number of callers.                                    *)
THEOREM TypeCorrect == Spec => []TypeOK
  BY Invariance, PTL DEF IInv

(* Each string WsClientImpl accepted is in exactly one place, and losses   *)
(* come last, whatever the network does and however the thread ends.       *)
THEOREM EverythingIsAccountedFor == Spec => []NothingVanishes
  BY Invariance, PTL DEF IInv

(* A server never handles the strings of one thread out of the order of    *)
(* its calls of enqueueString.                                             *)
THEOREM CallersStayInOrder == Spec => []CallersInOrder
<1>1. IInv /\ OrderInv /\ ReceivedIsPrefix => CallersInOrder
  <2> SUFFICES ASSUME IInv, OrderInv, ReceivedIsPrefix PROVE CallersInOrder
    OBVIOUS
  <2>1. /\ received \in Seq(Messages) /\ accepted \in Seq(Messages)
        /\ Len(received) <= Len(accepted)
        /\ \A i \in 1..Len(received) : received[i] = accepted[i]
    BY Types DEF IInv, ReceivedIsPrefix
  <2>2. DOMAIN received = 1..Len(received) /\ Len(received) \in Nat /\ Len(accepted) \in Nat
    BY <2>1
  <2> QED
    BY <2>1, <2>2 DEF CallersInOrder, OrderInv, AcceptedInOrder
<1> QED  BY <1>1, Invariance, PTL

(* WsClientImpl implements the one-way link.                               *)
THEOREM ImplementsOneWayLink == Spec => ForwardsInOrder
<1>1. Init => LinkToParent!Init
  BY DEF Init, LinkToParent!Init
<1>2. IInv /\ ReceivedIsPrefix' /\ [Next]_vars => [LinkToParent!Next]_LinkToParent!link
  <2> SUFFICES ASSUME IInv, ReceivedIsPrefix', [Next]_vars PROVE [LinkToParent!Next]_LinkToParent!link
    OBVIOUS
  <2>t. accepted \in Seq(Messages) /\ received \in Seq(Messages) /\ wire \in Seq(Messages)
    BY Types DEF IInv
  <2>1. ASSUME NEW c \in Callers, Accept(c) PROVE LinkToParent!Next
    <3>1. PICK m \in Messages : offering[c] = <<m>>
      BY <2>1 DEF Accept, IInv, TypeOK
    <3>2. accepted' = Append(accepted, m) /\ UNCHANGED received
      BY <2>1, <2>t, <3>1, AppendIsConcat DEF Accept
    <3> QED
      BY <3>2 DEF LinkToParent!Next, LinkToParent!Accept
  <2>2. CASE ParentHandles
    <3>1. received' = Append(received, Head(wire)) /\ accepted' = accepted /\ Head(wire) \in Messages
      BY <2>2, <2>t DEF ParentHandles
    <3>2. /\ Len(received') = Len(received) + 1
          /\ received'[Len(received) + 1] = Head(wire)
      BY <2>t, <3>1, AppendProperties
    <3>3. /\ Len(received') <= Len(accepted')
          /\ \A i \in 1..Len(received') : received'[i] = accepted'[i]
      BY DEF ReceivedIsPrefix
    <3>4. Len(received) < Len(accepted) /\ Head(wire) = accepted[Len(received) + 1]
      BY <2>t, <3>1, <3>2, <3>3
    <3> QED
      BY <3>1, <3>4 DEF LinkToParent!Next, LinkToParent!Deliver
  <2>3. CASE UNCHANGED <<accepted, received>>
    BY <2>3 DEF LinkToParent!link
  <2> QED
    BY <2>1, <2>2, <2>3 DEF Next, Caller, Call, GiveUp, Client, Connect, Poll, Write, Leave,
                            ThreadFrame, Stop, LinkCloses, Rest, vars
<1> QED  BY <1>1, <1>2, Invariance, PTL DEF Spec, ForwardsInOrder, LinkToParent!LinkSpec
===============================================================================
