-------------------------- MODULE TimeoutCacheProofs --------------------------
(***************************************************************************)
(* Proofs about TimeoutCache, for every set of keys, callers and pool      *)
(* tasks, all times to live, and every number of calls.                    *)
(***************************************************************************)
EXTENDS TimeoutCache, FiniteSetTheorems, SequenceTheorems, TLAPS

(* The monitor belongs to the thread that has a TimedKey in its hands.     *)
MonitorIsHeld ==
    \A t \in Threads : /\ pc[t] \in {"reinsert", "renew"} <=> monitor = t
                       /\ pc[t] # "idle" => holds[t] \in Keys

(* A key in the set, or about to be put back.                              *)
Within(k) == k \in timedQ \/ (monitor # Nobody /\ holds[monitor] = k)

(* What the timer thread has read without the monitor may be out of date   *)
(* when it acts on it; this much of it is still true.                      *)
WhatTheTimerKnows ==
    /\ timerPc \in {"first", "poll"} => \E k \in Keys : Within(k)
    /\ timerPc = "compare" => head \in Keys /\ Within(head)
    /\ timerPc = "dispatch" => head \in Keys

IInv == TypeOK /\ MonitorIsHeld /\ WhatTheTimerKnows

-------------------------------------------------------------------------------
(* A list over S holds members of S only.                                  *)
LEMMA CallbacksOf == ASSUME NEW S, NEW list \in Seq(S) PROVE Callbacks(list) \subseteq S
<1>1. \A i \in 1..Len(list) : list[i] \in S
  BY ElementOfSeq
<1> QED  BY <1>1 DEF Callbacks

(* What taking a TimedKey out of the set and rewriting it leaves true.     *)
LEMMA RetimeKeeps ==
    ASSUME IInv, NEW t \in Threads, NEW k \in Keys,
           NEW e \in Int, NEW r \in Seq(1..MaxCalls),
           NEW place \in {"reinsert", "renew"},
           calls < MaxCalls, Retime(t, k, e, r),
           pc' = [pc EXCEPT ![t] = place], UNCHANGED timerVars
    PROVE  /\ MonitorIsHeld' /\ WhatTheTimerKnows'
           /\ expires' \in [Keys -> Int] /\ runners' \in [Keys -> Seq(1..MaxCalls)]
           /\ timedQ' \subseteq Keys /\ monitor' \in Threads /\ calls' \in 0..MaxCalls
           /\ holds' \in [Threads -> Keys \cup {NoKey}]
           /\ pc' \in [Threads -> {"idle", "reinsert", "copy", "call", "renew"}]
<1> USE DEF IInv
<1>1. /\ expires' \in [Keys -> Int] /\ runners' \in [Keys -> Seq(1..MaxCalls)]
      /\ timedQ' \subseteq Keys /\ monitor' \in Threads /\ calls' \in 0..MaxCalls
      /\ holds' \in [Threads -> Keys \cup {NoKey}]
      /\ pc' \in [Threads -> {"idle", "reinsert", "copy", "call", "renew"}]
  BY BoundsAssumption DEF Retime, TypeOK
<1>2. MonitorIsHeld'
  BY ThreadsAssumption DEF Retime, TypeOK, MonitorIsHeld
<1>4. \A j : Within(j) => Within(j)'
  BY ThreadsAssumption DEF Retime, TypeOK, Within
<1>5. WhatTheTimerKnows'
  BY <1>4 DEF WhatTheTimerKnows, timerVars
<1> QED  BY <1>1, <1>2, <1>5

(* What putting it back leaves true.                                       *)
LEMMA ReinsertKeeps ==
    ASSUME IInv, NEW t \in Threads, NEW next \in {"idle", "call"}, Reinsert(t, next)
    PROVE  IInv'
<1> USE DEF IInv
<1>1. holds[t] \in Keys
  BY DEF Reinsert, MonitorIsHeld
<1>2. TypeOK'
  BY <1>1 DEF Reinsert, TypeOK, timerVars
<1>3. MonitorIsHeld'
  BY <1>1, ThreadsAssumption DEF Reinsert, TypeOK, MonitorIsHeld
<1>5. \A j : Within(j) => Within(j)'
  BY ThreadsAssumption DEF Reinsert, Within
<1>6. WhatTheTimerKnows'
  BY <1>5 DEF Reinsert, WhatTheTimerKnows, timerVars
<1> QED  BY <1>2, <1>3, <1>6

(* What a step leaves true that touches neither the set nor the monitor    *)
(* nor the timer thread, and sends thread t on.                            *)
LEMMA TaskStepKeeps ==
    ASSUME IInv, NEW t \in Threads, NEW place \in {"idle", "call"},
           pc[t] \in {"copy", "call"},
           pc' = [pc EXCEPT ![t] = place],
           \/ holds' = holds
           \/ place = "idle" /\ holds' = [holds EXCEPT ![t] = NoKey],
           UNCHANGED <<timedQ, expires, monitor, timerVars>>
    PROVE  /\ MonitorIsHeld' /\ WhatTheTimerKnows'
<1> USE DEF IInv
<1>1. monitor # t
  BY DEF MonitorIsHeld
<1>2. MonitorIsHeld'
  BY <1>1 DEF TypeOK, MonitorIsHeld
<1>4. monitor # Nobody => holds'[monitor] = holds[monitor]
  BY <1>1 DEF TypeOK
<1>5. \A j : Within(j) => Within(j)'
  BY <1>4 DEF Within
<1>6. WhatTheTimerKnows'
  BY <1>5 DEF WhatTheTimerKnows, timerVars
<1> QED  BY <1>2, <1>6

-------------------------------------------------------------------------------
(* Init establishes the inductive invariant.                               *)
LEMMA InitIInv == Init => IInv
<1> SUFFICES ASSUME Init PROVE IInv
  OBVIOUS
<1>1. TypeOK
  BY BoundsAssumption DEF Init, TypeOK
<1>2. MonitorIsHeld
  BY ThreadsAssumption DEF Init, MonitorIsHeld
<1> QED
  BY <1>1, <1>2 DEF Init, IInv, WhatTheTimerKnows

(* Every step preserves it.                                                *)
LEMMA NextIInv == IInv /\ [Next]_vars => IInv'
<1> SUFFICES ASSUME IInv, [Next]_vars PROVE IInv'
  OBVIOUS
<1> USE DEF IInv
<1>1. CASE Tick \/ Stop \/ Rest \/ UNCHANGED vars
  <2>1. /\ UNCHANGED <<cacheVars, timerVars, threadVars, historyVars>>
        /\ now' \in 0..MaxTime /\ running' \in BOOLEAN
    <3>1. CASE Tick
      BY <3>1, BoundsAssumption DEF Tick, TypeOK
    <3>2. CASE Stop
      BY <3>2 DEF Stop, TypeOK
    <3>3. CASE Rest \/ UNCHANGED vars
      BY <3>3 DEF Rest, vars, TypeOK
    <3> QED  BY <1>1, <3>1, <3>2, <3>3
  <2>2. TypeOK'
    BY <2>1 DEF cacheVars, timerVars, threadVars, historyVars, TypeOK
  <2> QED
    BY <2>1, <2>2 DEF cacheVars, timerVars, threadVars, MonitorIsHeld,
                      WhatTheTimerKnows, Within
<1>2. ASSUME NEW t \in Callers, NEW k \in Keys, NEW ttl \in Ttls, Put(t, k, ttl) PROVE IInv'
  <2>1. PICK n \in CallbackLists : Retime(t, k, now + ttl, [i \in 1..n |-> calls + 1])
    BY <1>2 DEF Put
  <2>5. [i \in 1..n |-> calls + 1] \in Seq(1..MaxCalls)
    <3>1. n \in Nat /\ calls + 1 \in 1..MaxCalls
      BY <1>2, CallbacksAssumption, BoundsAssumption DEF Put, Calling, TypeOK
    <3> QED  BY <3>1
  <2>2. /\ now + ttl \in Int
        /\ k \in Keys /\ t \in Threads /\ calls < MaxCalls
        /\ pc' = [pc EXCEPT ![t] = "reinsert"] /\ UNCHANGED timerVars
    BY <1>2, BoundsAssumption DEF Put, Calling, TypeOK, Threads
  <2>3. /\ MonitorIsHeld' /\ WhatTheTimerKnows'
        /\ expires' \in [Keys -> Int] /\ runners' \in [Keys -> Seq(1..MaxCalls)]
        /\ timedQ' \subseteq Keys /\ monitor' \in Threads /\ calls' \in 0..MaxCalls
        /\ holds' \in [Threads -> Keys \cup {NoKey}]
        /\ pc' \in [Threads -> {"idle", "reinsert", "copy", "call", "renew"}]
    BY <2>1, <2>2, <2>5, RetimeKeeps
  <2>4. TypeOK'
    <3>1. Callbacks(runners[k]) \subseteq 1..MaxCalls
      <4>1. runners[k] \in Seq(1..MaxCalls)
        BY DEF TypeOK
      <4> QED  BY <4>1, CallbacksOf
    <3>2. /\ UNCHANGED <<now, running, timerPc, timerNow, head, taskNow, runList, armed, notified>>
          /\ cached' \subseteq Keys /\ silenced' \subseteq 1..MaxCalls
      BY <1>2, <3>1 DEF Put, Calling, timerVars, TypeOK
    <3> QED  BY <2>3, <3>2 DEF TypeOK
  <2> QED  BY <2>3, <2>4
<1>3. ASSUME NEW t \in Callers, NEW k \in Keys, NEW ttl \in Ttls, SetTtl(t, k, ttl) PROVE IInv'
  <2>1. /\ now + ttl \in Int
        /\ runners[k] \in Seq(1..MaxCalls)
        /\ k \in Keys /\ t \in Threads /\ calls < MaxCalls
        /\ pc' = [pc EXCEPT ![t] = "reinsert"] /\ UNCHANGED timerVars
        /\ Retime(t, k, now + ttl, runners[k])
    BY <1>3, BoundsAssumption DEF SetTtl, Calling, TypeOK, Threads
  <2>2. /\ MonitorIsHeld' /\ WhatTheTimerKnows'
        /\ expires' \in [Keys -> Int] /\ runners' \in [Keys -> Seq(1..MaxCalls)]
        /\ timedQ' \subseteq Keys /\ monitor' \in Threads /\ calls' \in 0..MaxCalls
        /\ holds' \in [Threads -> Keys \cup {NoKey}]
        /\ pc' \in [Threads -> {"idle", "reinsert", "copy", "call", "renew"}]
    BY <2>1, RetimeKeeps
  <2>3. TypeOK'
    BY <1>3, <2>2 DEF SetTtl, Calling, timerVars, TypeOK
  <2> QED  BY <2>2, <2>3
<1>4. ASSUME NEW t \in Callers, NEW k \in Keys, Remove(t, k) PROVE IInv'
  <2>4. Callbacks(runners[k]) \subseteq 1..MaxCalls
    <3>1. runners[k] \in Seq(1..MaxCalls)
      BY DEF TypeOK
    <3> QED  BY <3>1, CallbacksOf
  <2>1. /\ now - 1 \in Int
        /\ <<>> \in Seq(1..MaxCalls)
        /\ k \in Keys /\ t \in Threads /\ calls < MaxCalls
        /\ pc' = [pc EXCEPT ![t] = "reinsert"] /\ UNCHANGED timerVars
        /\ Retime(t, k, now - 1, <<>>)
    BY <1>4, BoundsAssumption DEF Remove, Calling, TypeOK, Threads
  <2>2. /\ MonitorIsHeld' /\ WhatTheTimerKnows'
        /\ expires' \in [Keys -> Int] /\ runners' \in [Keys -> Seq(1..MaxCalls)]
        /\ timedQ' \subseteq Keys /\ monitor' \in Threads /\ calls' \in 0..MaxCalls
        /\ holds' \in [Threads -> Keys \cup {NoKey}]
        /\ pc' \in [Threads -> {"idle", "reinsert", "copy", "call", "renew"}]
    BY <2>1, RetimeKeeps
  <2>3. TypeOK'
    BY <1>4, <2>1, <2>2, <2>4 DEF Remove, Calling, timerVars, TypeOK
  <2> QED  BY <2>2, <2>3
<1>5. ASSUME NEW t \in Callers, Return(t) PROVE IInv'
  BY <1>5, ReinsertKeeps DEF Return, Threads
<1>6. CASE Wake \/ ReadSize
  <2>1. TypeOK'
    BY <1>6 DEF Wake, ReadSize, TimerFrame, cacheVars, threadVars, historyVars, TypeOK
  <2>2. MonitorIsHeld'
    BY <1>6 DEF Wake, ReadSize, TimerFrame, cacheVars, threadVars, MonitorIsHeld
  <2>3. \A k : Within(k)' = Within(k)
    BY <1>6 DEF Wake, ReadSize, TimerFrame, cacheVars, threadVars, Within
  <2>4. timerPc' = "first" => \E k \in Keys : Within(k)
    BY <1>6 DEF Wake, ReadSize, Within, TypeOK
  <2>5. WhatTheTimerKnows'
    BY <1>6, <2>3, <2>4 DEF Wake, ReadSize, WhatTheTimerKnows
  <2> QED  BY <2>1, <2>2, <2>5
<1>7. CASE ReadFirst
  <2>1. \/ timerPc' = "dead" /\ head' = head
        \/ timerPc' = "compare" /\ head' \in Keys /\ Within(head')
    BY <1>7 DEF ReadFirst, Earliest, Within, TypeOK, MonitorIsHeld
  <2>2. TypeOK'
    BY <1>7, <2>1 DEF ReadFirst, TimerFrame, cacheVars, threadVars, historyVars, TypeOK
  <2>3. MonitorIsHeld'
    BY <1>7 DEF ReadFirst, TimerFrame, cacheVars, threadVars, MonitorIsHeld
  <2>4. WhatTheTimerKnows'
    BY <1>7, <2>1 DEF ReadFirst, TimerFrame, cacheVars, threadVars, TypeOK,
                      WhatTheTimerKnows, Within
  <2> QED  BY <2>2, <2>3, <2>4
<1>8. CASE Compare
  <2>1. TypeOK'
    BY <1>8 DEF Compare, TimerFrame, cacheVars, threadVars, historyVars, TypeOK
  <2>3. WhatTheTimerKnows'
    BY <1>8 DEF Compare, TimerFrame, cacheVars, threadVars, WhatTheTimerKnows, Within
  <2> QED
    BY <1>8, <2>1, <2>3 DEF Compare, TimerFrame, cacheVars, threadVars,
                            MonitorIsHeld
<1>9. CASE PollFirst
  <2>1. PICK k \in Keys : k \in timedQ
    BY <1>9 DEF PollFirst, WhatTheTimerKnows, Within
  <2>2. head' \in Earliest
    BY <1>9, <2>1 DEF PollFirst
  <2>3. head' \in Keys
    BY <2>2 DEF Earliest, TypeOK
  <2>4. TypeOK'
    BY <1>9, <2>3 DEF PollFirst, TimerFrame, threadVars, historyVars, TypeOK
  <2> QED
    BY <1>9, <2>3, <2>4 DEF PollFirst, TimerFrame, threadVars,
                                  MonitorIsHeld, WhatTheTimerKnows
<1>10. CASE Dispatch
  <2>1. head \in Keys /\ head # NoKey
    BY <1>10, ThreadsAssumption DEF Dispatch, WhatTheTimerKnows
  <2>2. PICK w \in Workers : /\ pc[w] = "idle"
                             /\ pc' = [pc EXCEPT ![w] = "copy"]
                             /\ holds' = [holds EXCEPT ![w] = head]
                             /\ taskNow' = [taskNow EXCEPT ![w] = timerNow]
                             /\ UNCHANGED runList
    BY <1>10, <2>1 DEF Dispatch
  <2>3. w \in Threads
    BY DEF Threads
  <2>4. TypeOK'
    BY <1>10, <2>1, <2>2, <2>3 DEF Dispatch, cacheVars, historyVars, TypeOK
  <2>5. MonitorIsHeld'
    BY <1>10, <2>1, <2>2, <2>3 DEF Dispatch, cacheVars, TypeOK, MonitorIsHeld
  <2> QED
    BY <1>10, <2>4, <2>5 DEF Dispatch, cacheVars, WhatTheTimerKnows
<1>11. ASSUME NEW w \in Workers, CopyRunners(w) PROVE IInv'
  <2>1. w \in Threads /\ holds[w] \in Keys
    BY <1>11 DEF CopyRunners, MonitorIsHeld, Threads
  <2>2. TypeOK'
    BY <1>11, <2>1 DEF CopyRunners, cacheVars, timerVars, TypeOK
  <2> QED
    <3>1. /\ pc[w] = "copy" /\ pc' = [pc EXCEPT ![w] = "call"] /\ holds' = holds
          /\ UNCHANGED <<timedQ, expires, monitor, timerVars>>
      BY <1>11 DEF CopyRunners, cacheVars
    <3>2. MonitorIsHeld' /\ WhatTheTimerKnows'
      BY <2>1, <3>1, TaskStepKeeps
    <3> QED  BY <2>2, <3>2
<1>12. ASSUME NEW w \in Workers, CallbackEnds(w) PROVE IInv'
  <2>1. w \in Threads
    BY DEF Threads
  <2>2. TypeOK'
    <3>1. runList[w] \in Seq(1..MaxCalls) /\ Tail(runList[w]) \in Seq(1..MaxCalls)
      BY <1>12 DEF CallbackEnds, TypeOK
    <3>2. UNCHANGED <<now, running, cacheVars, timerVars, historyVars>>
      BY <1>12 DEF CallbackEnds
    <3>3. CASE runList' = [runList EXCEPT ![w] = Tail(@)] /\ UNCHANGED <<pc, holds, taskNow>>
      <4>1. runList' \in [Workers -> Seq(1..MaxCalls)]
        BY <3>1, <3>3 DEF TypeOK
      <4> QED
        BY <3>2, <3>3, <4>1 DEF cacheVars, timerVars, historyVars, TypeOK
    <3>4. CASE runList' = [runList EXCEPT ![w] = <<>>] /\ TaskEnds(w)
      <4>1. runList' \in [Workers -> Seq(1..MaxCalls)]
        BY <3>4 DEF TypeOK
      <4>2. /\ pc' \in [Threads -> {"idle", "reinsert", "copy", "call", "renew"}]
            /\ holds' \in [Threads -> Keys \cup {NoKey}] /\ taskNow' \in [Workers -> 0..MaxTime]
        BY <2>1, <3>4, BoundsAssumption DEF TaskEnds, TypeOK
      <4> QED
        BY <3>2, <4>1, <4>2 DEF cacheVars, timerVars, historyVars, TypeOK
    <3> QED
      BY <1>12, <3>3, <3>4 DEF CallbackEnds
  <2>4. pc = [pc EXCEPT ![w] = "call"]
    BY <1>12, <2>1 DEF CallbackEnds, TypeOK
  <2>3. PICK place \in {"idle", "call"} :
           /\ pc' = [pc EXCEPT ![w] = place]
           /\ holds' = holds \/ (place = "idle" /\ holds' = [holds EXCEPT ![w] = NoKey])
    BY <1>12, <2>4 DEF CallbackEnds, TaskEnds
  <2> QED
    BY <1>12, <2>1, <2>2, <2>3, TaskStepKeeps DEF CallbackEnds, cacheVars
<1>13. ASSUME NEW w \in Workers, NEW ttl \in Ttls, CallbackRenews(w, ttl) PROVE IInv'
  <2>1. w \in Threads /\ holds[w] \in Keys
    BY <1>13 DEF CallbackRenews, MonitorIsHeld, Threads
  <2>2. /\ now + ttl \in Int
        /\ runners[holds[w]] \in Seq(1..MaxCalls) /\ calls < MaxCalls
        /\ pc' = [pc EXCEPT ![w] = "renew"] /\ UNCHANGED timerVars
        /\ Retime(w, holds[w], now + ttl, runners[holds[w]])
    BY <1>13, <2>1, BoundsAssumption DEF CallbackRenews, TypeOK
  <2>3. /\ MonitorIsHeld' /\ WhatTheTimerKnows'
        /\ expires' \in [Keys -> Int] /\ runners' \in [Keys -> Seq(1..MaxCalls)]
        /\ timedQ' \subseteq Keys /\ monitor' \in Threads /\ calls' \in 0..MaxCalls
        /\ holds' \in [Threads -> Keys \cup {NoKey}]
        /\ pc' \in [Threads -> {"idle", "reinsert", "copy", "call", "renew"}]
    BY <2>1, <2>2, RetimeKeeps
  <2>4. TypeOK'
    <3>1. runList' \in [Workers -> Seq(1..MaxCalls)]
      BY <1>13 DEF CallbackRenews, TypeOK
    <3>2. UNCHANGED <<now, running, cached, timerPc, timerNow, head, taskNow, armed, notified, silenced>>
      BY <1>13 DEF CallbackRenews, timerVars
    <3> QED  BY <2>3, <3>1, <3>2 DEF TypeOK
  <2> QED  BY <2>3, <2>4
<1>14. ASSUME NEW w \in Workers, CallbackRenewed(w) PROVE IInv'
  BY <1>14, ReinsertKeeps DEF CallbackRenewed, Threads
<1>15. ASSUME NEW w \in Workers, Invalidate(w) PROVE IInv'
  <2>1. w \in Threads
    BY DEF Threads
  <2>2. TypeOK'
    BY <1>15, <2>1, BoundsAssumption DEF Invalidate, TaskEnds, timerVars, historyVars, TypeOK
  <2> QED
    BY <1>15, <2>1, <2>2, TaskStepKeeps DEF Invalidate, TaskEnds
<1> QED
  BY <1>1, <1>2, <1>3, <1>4, <1>5, <1>6, <1>7, <1>8, <1>9, <1>10, <1>11, <1>12, <1>13,
     <1>14, <1>15 DEF Next, Timer, Worker

LEMMA Invariance == Spec => []IInv
  BY InitIInv, NextIInv, PTL DEF Spec

-------------------------------------------------------------------------------
(* Tasks that will run the callbacks of k.                                 *)
Copying(k) == {w \in Workers : pc[w] = "copy" /\ holds[w] = k}

(* Each time k was put into the set pays for one notification: the one     *)
(* that is over, under way in a task, under way to a task, or due to come. *)
InSet(k) == IF k \in timedQ THEN 1 ELSE 0
InTransit(k) == IF timerPc = "dispatch" /\ head = k THEN 1 ELSE 0
Account ==
    \A k \in Keys :
        notified[k] + Cardinality(Copying(k)) + InSet(k) + InTransit(k) <= armed[k]

LEMMA CountCopying ==
    /\ \A k \in Keys : IsFiniteSet(Copying(k)) /\ Cardinality(Copying(k)) \in Nat
    /\ \A k \in Keys : IsFiniteSet(Copying(k)') /\ Cardinality(Copying(k)') \in Nat
<1>1. \A S \in SUBSET Workers : IsFiniteSet(S) /\ Cardinality(S) \in Nat
  BY ThreadsAssumption, FS_Subset, FS_CardinalityType
<1>2. \A k \in Keys : Copying(k) \in SUBSET Workers /\ Copying(k)' \in SUBSET Workers
  BY DEF Copying
<1> QED  BY <1>1, <1>2

LEMMA InitAccount == Init => Account
<1> SUFFICES ASSUME Init, NEW k \in Keys
             PROVE  notified[k] + Cardinality(Copying(k)) + InSet(k) + InTransit(k) <= armed[k]
  BY DEF Account
<1>1. Copying(k) = {}
  BY DEF Init, Copying, Threads
<1>2. Cardinality(Copying(k)) = 0
  BY <1>1, FS_EmptySet
<1> QED  BY <1>2 DEF Init, InSet, InTransit

LEMMA NextAccount == IInv /\ Account /\ [Next]_vars => Account'
<1> SUFFICES ASSUME IInv, Account, [Next]_vars, NEW k \in Keys
             PROVE  (notified[k] + Cardinality(Copying(k)) + InSet(k) + InTransit(k) <= armed[k])'
  BY DEF Account
<1> DEFINE n == Cardinality(Copying(k))
<1>c. /\ n \in Nat /\ n' \in Nat /\ IsFiniteSet(Copying(k)) /\ IsFiniteSet(Copying(k)')
      /\ notified[k] \in Nat /\ armed[k] \in Nat
      /\ notified[k] + n + InSet(k) + InTransit(k) <= armed[k]
      /\ \A w \in Workers : w \in Threads /\ w \notin Callers
  BY CountCopying, ThreadsAssumption DEF IInv, TypeOK, Account, Threads
<1>1. ASSUME NEW t \in Threads, NEW j \in Keys, NEW e, NEW r, Retime(t, j, e, r),
             NEW place \in {"reinsert", "renew"}, pc[t] # "copy", pc' = [pc EXCEPT ![t] = place],
             UNCHANGED <<timerVars, armed, notified>>
      PROVE  (notified[k] + Cardinality(Copying(k)) + InSet(k) + InTransit(k) <= armed[k])'
  <2>1. Copying(k)' = Copying(k)
    BY <1>1, <1>c DEF Retime, Copying, IInv, TypeOK
  <2>2. InSet(k)' <= InSet(k) /\ InTransit(k)' = InTransit(k)
    BY <1>1 DEF Retime, InSet, InTransit, timerVars
  <2> QED  BY <1>1, <1>c, <2>1, <2>2 DEF InSet, InTransit
<1>2. ASSUME NEW t \in Threads, NEW next \in {"idle", "call"}, Reinsert(t, next)
      PROVE  (notified[k] + Cardinality(Copying(k)) + InSet(k) + InTransit(k) <= armed[k])'
  <2>1. pc[t] # "copy" /\ holds[t] \in Keys
    BY <1>2 DEF Reinsert, IInv, MonitorIsHeld
  <2>2. Copying(k)' = Copying(k)
    BY <1>2, <1>c, <2>1 DEF Reinsert, Copying, IInv, TypeOK
  <2>3. /\ notified' = notified /\ InTransit(k)' = InTransit(k)
        /\ IF holds[t] = k THEN armed'[k] = armed[k] + 1
                           ELSE armed'[k] = armed[k] /\ InSet(k)' = InSet(k)
    BY <1>2, <2>1 DEF Reinsert, InSet, InTransit, timerVars, IInv, TypeOK
  <2> QED  BY <1>c, <2>2, <2>3 DEF InSet, InTransit
<1>3. ASSUME UNCHANGED <<timedQ, armed, notified, pc, holds>>,
             timerPc' # "dispatch" \/ UNCHANGED timerVars
      PROVE  (notified[k] + Cardinality(Copying(k)) + InSet(k) + InTransit(k) <= armed[k])'
  <2>1. Copying(k)' = Copying(k) /\ InSet(k)' = InSet(k) /\ InTransit(k)' <= InTransit(k)
    BY <1>3 DEF Copying, InSet, InTransit, timerVars
  <2> QED  BY <1>3, <1>c, <2>1 DEF InSet, InTransit
<1>4. CASE PollFirst
  <2>1. Copying(k)' = Copying(k)
    BY <1>4 DEF PollFirst, TimerFrame, threadVars, Copying
  <2>2. head' = k => k \in timedQ
    BY <1>4, ThreadsAssumption DEF PollFirst, Earliest
  <2>3. InSet(k)' + InTransit(k)' <= InSet(k) + InTransit(k)
    BY <1>4, <2>2 DEF PollFirst, InSet, InTransit
  <2> QED
    BY <1>4, <1>c, <2>1, <2>3 DEF PollFirst, TimerFrame, historyVars, InSet, InTransit
<1>5. CASE Dispatch
  <2>1. /\ InSet(k)' = InSet(k) /\ InTransit(k)' = 0 /\ UNCHANGED <<armed, notified>>
        /\ timerPc = "dispatch" /\ (head = k => InTransit(k) = 1)
        /\ head # NoKey
    BY <1>5, ThreadsAssumption
    DEF Dispatch, cacheVars, historyVars, InSet, InTransit, IInv, WhatTheTimerKnows
  <2>2. PICK w \in Workers : /\ pc[w] = "idle"
                             /\ pc' = [pc EXCEPT ![w] = "copy"]
                             /\ holds' = [holds EXCEPT ![w] = head]
    BY <1>5, <2>1 DEF Dispatch
  <2>3. CASE head = k
    <3>1. Copying(k)' = Copying(k) \cup {w} /\ w \notin Copying(k)
      BY <1>c, <2>2, <2>3 DEF Copying, IInv, TypeOK
    <3>2. n' = n + 1
      BY <1>c, <3>1, FS_AddElement
    <3> QED  BY <1>c, <2>1, <2>3, <3>2 DEF InSet
  <2>4. CASE head # k
    <3>1. Copying(k)' = Copying(k)
      BY <1>c, <2>2, <2>4 DEF Copying, IInv, TypeOK
    <3> QED  BY <1>c, <2>1, <3>1 DEF InSet, InTransit
  <2> QED  BY <2>3, <2>4
<1>6. ASSUME NEW w \in Workers, CopyRunners(w)
      PROVE  (notified[k] + Cardinality(Copying(k)) + InSet(k) + InTransit(k) <= armed[k])'
  <2>1. /\ InSet(k)' = InSet(k) /\ InTransit(k)' = InTransit(k) /\ armed' = armed
        /\ holds[w] \in Keys /\ pc[w] = "copy" /\ holds' = holds
        /\ notified'[k] = notified[k] \/ (holds[w] = k /\ notified'[k] = notified[k] + 1)
    BY <1>6, <1>c DEF CopyRunners, cacheVars, timerVars, InSet, InTransit,
                      IInv, TypeOK, MonitorIsHeld
  <2>2. Copying(k)' = Copying(k) \ {w}
    BY <1>6, <1>c, <2>1 DEF CopyRunners, Copying, IInv, TypeOK
  <2>3. CASE holds[w] = k
    <3>1. w \in Copying(k)
      BY <2>1, <2>3 DEF Copying
    <3>2. n' = n - 1
      BY <1>c, <2>2, <3>1, FS_RemoveElement
    <3> QED  BY <1>c, <2>1, <3>2 DEF InSet, InTransit
  <2>4. CASE holds[w] # k
    <3>1. Copying(k)' = Copying(k)
      BY <2>2, <2>4 DEF Copying
    <3> QED  BY <1>c, <2>1, <2>4, <3>1 DEF InSet, InTransit
  <2> QED  BY <2>3, <2>4
<1>7. ASSUME NEW w \in Workers, CallbackEnds(w) \/ Invalidate(w)
      PROVE  (notified[k] + Cardinality(Copying(k)) + InSet(k) + InTransit(k) <= armed[k])'
  <2>1. Copying(k)' = Copying(k)
    BY <1>7, <1>c DEF CallbackEnds, Invalidate, TaskEnds, Copying, IInv, TypeOK
  <2>2. InSet(k)' = InSet(k) /\ InTransit(k)' = InTransit(k) /\ UNCHANGED <<armed, notified>>
    BY <1>7 DEF CallbackEnds, Invalidate, cacheVars, timerVars, historyVars, InSet, InTransit
  <2> QED  BY <1>c, <2>1, <2>2 DEF InSet, InTransit
<1>8. ASSUME NEW t \in Callers, NEW j \in Keys, NEW ttl \in Ttls,
             Put(t, j, ttl) \/ SetTtl(t, j, ttl)
      PROVE  (notified[k] + Cardinality(Copying(k)) + InSet(k) + InTransit(k) <= armed[k])'
  <2>1. PICK e, r : Retime(t, j, e, r)
    BY <1>8 DEF Put, SetTtl
  <2>2. /\ t \in Threads /\ pc[t] # "copy" /\ pc' = [pc EXCEPT ![t] = "reinsert"]
        /\ UNCHANGED <<timerVars, armed, notified>>
    BY <1>8 DEF Put, SetTtl, Calling, Threads
  <2> QED  BY <1>1, <2>1, <2>2
<1>9. ASSUME NEW w \in Workers, NEW ttl \in Ttls, CallbackRenews(w, ttl)
      PROVE  (notified[k] + Cardinality(Copying(k)) + InSet(k) + InTransit(k) <= armed[k])'
  <2>1. /\ Retime(w, holds[w], now + ttl, runners[holds[w]]) /\ holds[w] \in Keys
        /\ w \in Threads /\ pc[w] # "copy" /\ pc' = [pc EXCEPT ![w] = "renew"]
        /\ UNCHANGED <<timerVars, armed, notified>>
    BY <1>9, <1>c DEF CallbackRenews, IInv, MonitorIsHeld
  <2> QED  BY <1>1, <2>1
<1>10. CASE Tick \/ Stop \/ Rest \/ Wake \/ ReadSize \/ ReadFirst \/ Compare \/ UNCHANGED vars
  BY <1>3, <1>10 DEF Tick, Stop, Rest, Wake, ReadSize, ReadFirst, Compare, TimerFrame,
                     vars, cacheVars, timerVars, threadVars, historyVars
<1>11. ASSUME NEW t \in Callers, NEW j \in Keys, Remove(t, j)
       PROVE  (notified[k] + Cardinality(Copying(k)) + InSet(k) + InTransit(k) <= armed[k])'
  <2>1. /\ Retime(t, j, now - 1, <<>>)
        /\ t \in Threads /\ pc[t] # "copy" /\ pc' = [pc EXCEPT ![t] = "reinsert"]
        /\ UNCHANGED <<timerVars, armed, notified>>
    BY <1>11 DEF Remove, Calling, Threads
  <2> QED  BY <1>1, <2>1
<1>12. ASSUME NEW t \in Threads, Return(t) \/ CallbackRenewed(t)
       PROVE  (notified[k] + Cardinality(Copying(k)) + InSet(k) + InTransit(k) <= armed[k])'
  BY <1>2, <1>12 DEF Return, CallbackRenewed
<1> QED
  BY <1>4, <1>5, <1>6, <1>7, <1>8, <1>9, <1>10, <1>11, <1>12, <1>c DEF Next, Timer, Worker, Threads

-------------------------------------------------------------------------------
(* A callback belongs to one key and to nobody once it is silenced; a task *)
(* has callbacks in its hands only while it calls them.                    *)
Of(k) == Callbacks(runners[k])
SilenceInv ==
    /\ silenced \subseteq 1..calls
    /\ \A k \in Keys : Of(k) \subseteq 1..calls /\ Of(k) \cap silenced = {}
    /\ \A j, k \in Keys : j # k => Of(j) \cap Of(k) = {}
    /\ \A w \in Workers : pc[w] \notin {"call", "renew"} => runList[w] = <<>>

LEMMA NoCallbacks == Callbacks(<<>>) = {}
  BY DEF Callbacks

LEMMA InitSilence == Init => SilenceInv
  BY NoCallbacks DEF Init, SilenceInv, Of

LEMMA NextSilence == IInv /\ SilenceInv /\ [Next]_vars => SilenceInv'
<1> SUFFICES ASSUME IInv, SilenceInv, [Next]_vars PROVE SilenceInv'
  OBVIOUS
<1>c. /\ calls \in Nat /\ MaxCalls \in Nat /\ \A w \in Workers : w \in Threads /\ w \notin Callers
      /\ runners \in [Keys -> Seq(1..MaxCalls)]
      /\ pc \in [Threads -> {"idle", "reinsert", "copy", "call", "renew"}]
      /\ runList \in [Workers -> Seq(1..MaxCalls)]
      /\ \A k \in Keys : Of(k) \subseteq 1..(calls + 1) /\ calls + 1 \notin Of(k)
      /\ silenced \subseteq 1..(calls + 1) /\ calls + 1 \notin silenced
  BY BoundsAssumption, ThreadsAssumption DEF IInv, TypeOK, SilenceInv, Threads
<1>s. runners' = runners => \A k \in Keys : Of(k)' = Of(k)
  BY DEF Of
<1>1. ASSUME NEW t \in Callers, NEW k \in Keys, NEW ttl \in Ttls, Put(t, k, ttl) PROVE SilenceInv'
  <2>1. PICK n \in CallbackLists : Retime(t, k, now + ttl, [i \in 1..n |-> calls + 1])
    BY <1>1 DEF Put
  <2>2. /\ calls' = calls + 1 /\ runners' = [runners EXCEPT ![k] = [i \in 1..n |-> calls + 1]]
        /\ silenced' = silenced \cup Of(k) /\ runList' = runList
        /\ pc' = [pc EXCEPT ![t] = "reinsert"] /\ pc[t] = "idle"
    BY <1>1, <2>1 DEF Put, Retime, Calling, Of
  <2>3. \A w \in Workers : pc'[w] \notin {"call", "renew"} => runList'[w] = <<>>
    BY <1>c, <2>2 DEF SilenceInv
  <2>7. Of(k)' \subseteq {calls + 1}
    BY <1>c, <2>2, CallbacksAssumption DEF Of, Callbacks
  <2>8. \A j \in Keys : j # k => Of(j)' = Of(j)
    BY <1>c, <2>2 DEF Of
  <2>4. silenced' \subseteq 1..calls' /\ \A j \in Keys : Of(j)' \subseteq 1..calls'
    <3>1. silenced' \subseteq 1..calls'
      BY <1>c, <2>2
    <3>2. ASSUME NEW j \in Keys PROVE Of(j)' \subseteq 1..calls'
      <4>1. calls' = calls + 1 /\ calls + 1 \in 1..(calls + 1)
        BY <1>c, <2>2
      <4>2. CASE j = k
        BY <2>7, <4>1, <4>2
      <4>3. CASE j # k
        <5>1. Of(j)' = Of(j)
          BY <2>8, <4>3
        <5> QED  BY <1>c, <4>1, <5>1
      <4> QED  BY <4>2, <4>3
    <3> QED  BY <3>1, <3>2
  <2>6. ASSUME NEW j \in Keys PROVE Of(j)' \cap silenced' = {}
    <3>1. CASE j = k
      <4>1. calls + 1 \notin silenced'
        BY <1>c, <2>2
      <4> QED  BY <2>7, <3>1, <4>1
    <3>2. CASE j # k
      <4>1. Of(j)' = Of(j) /\ Of(j) \cap Of(k) = {} /\ Of(j) \cap silenced = {}
        BY <2>8, <3>2 DEF SilenceInv
      <4> QED  BY <2>2, <4>1
    <3> QED  BY <3>1, <3>2
  <2>5. ASSUME NEW i \in Keys, NEW j \in Keys, i # j PROVE Of(i)' \cap Of(j)' = {}
    <3>1. CASE i # k /\ j # k
      BY <2>5, <2>8, <3>1 DEF SilenceInv
    <3>2. CASE i = k
      BY <1>c, <2>5, <2>7, <2>8, <3>2
    <3>3. CASE j = k
      BY <1>c, <2>5, <2>7, <2>8, <3>3
    <3> QED  BY <3>1, <3>2, <3>3
  <2> QED  BY <2>3, <2>4, <2>5, <2>6 DEF SilenceInv
<1>2. ASSUME NEW t \in Callers, NEW k \in Keys, NEW ttl \in Ttls, SetTtl(t, k, ttl) PROVE SilenceInv'
  <2>1. /\ calls' = calls + 1 /\ runners' = runners /\ silenced' = silenced /\ runList' = runList
        /\ pc' = [pc EXCEPT ![t] = "reinsert"]
    BY <1>c, <1>2 DEF SetTtl, Retime, Calling, IInv, TypeOK
  <2> QED  BY <1>c, <1>s, <2>1 DEF SilenceInv
<1>3. ASSUME NEW t \in Callers, NEW k \in Keys, Remove(t, k) PROVE SilenceInv'
  <2>1. /\ calls' = calls + 1 /\ runners' = [runners EXCEPT ![k] = <<>>]
        /\ silenced' = silenced \cup Of(k) /\ runList' = runList
        /\ pc' = [pc EXCEPT ![t] = "reinsert"]
    BY <1>3 DEF Remove, Retime, Calling, Of
  <2>2. Of(k)' = {} /\ \A j \in Keys : j # k => Of(j)' = Of(j)
    BY <1>c, <2>1, NoCallbacks DEF Of
  <2>3. /\ silenced' \subseteq 1..calls'
        /\ \A j \in Keys : Of(j)' \subseteq 1..calls' /\ Of(j)' \cap silenced' = {}
    BY <1>c, <2>1, <2>2 DEF SilenceInv
  <2>4. \A i, j \in Keys : i # j => Of(i)' \cap Of(j)' = {}
    BY <2>2 DEF SilenceInv
  <2>5. \A w \in Workers : pc'[w] \notin {"call", "renew"} => runList'[w] = <<>>
    BY <1>c, <2>1 DEF SilenceInv
  <2> QED  BY <2>3, <2>4, <2>5 DEF SilenceInv
<1>4. ASSUME NEW w \in Workers, CopyRunners(w) PROVE SilenceInv'
  <2>1. /\ UNCHANGED <<calls, runners, silenced>>
        /\ runList' = [runList EXCEPT ![w] = runners[holds[w]]]
        /\ pc' = [pc EXCEPT ![w] = "call"]
    BY <1>4 DEF CopyRunners, cacheVars
  <2>2. \A v \in Workers : pc'[v] \notin {"call", "renew"} => runList'[v] = <<>>
    BY <1>c, <2>1 DEF SilenceInv
  <2> QED  BY <1>s, <2>1, <2>2 DEF SilenceInv
<1>5. ASSUME NEW w \in Workers, CallbackEnds(w) PROVE SilenceInv'
  <2>1. /\ UNCHANGED <<calls, runners, silenced>>
        /\ \/ runList'[w] = <<>>
           \/ pc' = pc /\ pc[w] = "call"
        /\ \A v \in Workers \ {w} : pc'[v] = pc[v] /\ runList'[v] = runList[v]
    BY <1>c, <1>5 DEF CallbackEnds, TaskEnds, cacheVars, historyVars
  <2>2. \A v \in Workers : pc'[v] \notin {"call", "renew"} => runList'[v] = <<>>
    BY <1>c, <2>1 DEF SilenceInv
  <2> QED  BY <1>c, <1>s, <2>1, <2>2 DEF SilenceInv
<1>6. ASSUME NEW w \in Workers, NEW ttl \in Ttls, CallbackRenews(w, ttl) PROVE SilenceInv'
  <2>1. /\ calls' = calls + 1 /\ runners' = runners /\ silenced' = silenced
        /\ pc' = [pc EXCEPT ![w] = "renew"]
        /\ \A v \in Workers \ {w} : runList'[v] = runList[v]
    BY <1>c, <1>6 DEF CallbackRenews, Retime, IInv, TypeOK
  <2>2. \A v \in Workers : pc'[v] \notin {"call", "renew"} => runList'[v] = <<>>
    BY <1>c, <2>1 DEF SilenceInv
  <2> QED  BY <1>c, <1>s, <2>1, <2>2 DEF SilenceInv
<1>7. ASSUME NEW t \in Threads,
             NEW place \in {"idle", "copy", "call"}, pc' = [pc EXCEPT ![t] = place],
             place # "call" => (t \in Workers => runList[t] = <<>>),
             UNCHANGED <<calls, runners, silenced, runList>>
      PROVE  SilenceInv'
  BY <1>c, <1>s, <1>7 DEF SilenceInv
<1>8. ASSUME NEW t \in Threads, Return(t) \/ CallbackRenewed(t) PROVE SilenceInv'
  <2>1. CASE Return(t)
    BY <1>c, <1>7, <2>1 DEF Return, Reinsert, SilenceInv
  <2>2. CASE CallbackRenewed(t)
    BY <1>7, <2>2 DEF CallbackRenewed, Reinsert
  <2> QED  BY <1>8, <2>1, <2>2
<1>9. ASSUME NEW w \in Workers, Invalidate(w) PROVE SilenceInv'
  BY <1>c, <1>7, <1>9 DEF Invalidate, TaskEnds, historyVars
<1>10. CASE Dispatch
  <2>1. UNCHANGED <<calls, runners, silenced>>
    BY <1>10 DEF Dispatch, cacheVars, historyVars
  <2>2. CASE UNCHANGED threadVars
    BY <1>s, <2>1, <2>2 DEF threadVars, SilenceInv
  <2>3. ASSUME NEW w \in Workers, pc[w] = "idle", pc' = [pc EXCEPT ![w] = "copy"], UNCHANGED runList
        PROVE  SilenceInv'
    BY <1>c, <1>7, <2>1, <2>3 DEF SilenceInv
  <2> QED  BY <1>10, <2>2, <2>3 DEF Dispatch
<1>11. CASE Tick \/ Stop \/ Rest \/ Wake \/ ReadSize \/ ReadFirst \/ Compare \/ PollFirst
            \/ UNCHANGED vars
  <2>1. UNCHANGED <<calls, runners, silenced, pc, runList>>
    BY <1>11 DEF Tick, Stop, Rest, Wake, ReadSize, ReadFirst, Compare, PollFirst, TimerFrame,
                 vars, cacheVars, timerVars, threadVars, historyVars
  <2> QED  BY <1>s, <2>1 DEF SilenceInv
<1> QED
  BY <1>1, <1>2, <1>3, <1>4, <1>5, <1>6, <1>8, <1>9, <1>10, <1>11, <1>c
  DEF Next, Timer, Worker, Threads

-------------------------------------------------------------------------------
(* Every variable of the cache keeps its type.                             *)
THEOREM TypeCorrect == Spec => []TypeOK
  BY Invariance, PTL DEF IInv

(* When nobody holds the monitor, first() and pollFirst() find a key,      *)
(* although the timer thread looked without the monitor.                   *)
THEOREM QuietSetAlwaysHasAKey == Spec => []QuietSetHasAKey
<1>1. IInv => QuietSetHasAKey
  BY DEF IInv, WhatTheTimerKnows, Within, QuietSetHasAKey
<1> QED  BY <1>1, Invariance, PTL

(* The callbacks of a key run at most once for each put, setTtl or remove  *)
(* of it, however many tasks there are.                                    *)
THEOREM NotifiedOncePerArming == Spec => []OncePerArming
<1>1. IInv /\ Account => OncePerArming
  <2> SUFFICES ASSUME IInv, Account, NEW k \in Keys
               PROVE  notified[k] + Cardinality(Copying(k)) <= armed[k]
    BY DEF OncePerArming, Copying
  <2>1. /\ notified[k] \in Nat /\ armed[k] \in Nat /\ Cardinality(Copying(k)) \in Nat
        /\ notified[k] + Cardinality(Copying(k)) + InSet(k) + InTransit(k) <= armed[k]
    BY CountCopying DEF IInv, TypeOK, Account
  <2>2. InSet(k) \in {0, 1} /\ InTransit(k) \in {0, 1}
    BY DEF InSet, InTransit
  <2> QED  BY <2>1, <2>2
<1> QED  BY <1>1, InitAccount, NextAccount, Invariance, PTL DEF Spec

(* A task that reads the callbacks of a key gets none that put() replaced  *)
(* or remove() cleared before.                                             *)
THEOREM SilencedForGood == Spec => SilencedStaysSilent
<1>1. IInv /\ SilenceInv /\ [Next]_vars
         => [\A w \in Workers : pc[w] = "copy" => Callbacks(runList'[w]) \cap silenced = {}]_vars
  <2> SUFFICES ASSUME IInv, SilenceInv, Next, NEW w \in Workers, pc[w] = "copy"
               PROVE  Callbacks(runList'[w]) \cap silenced = {}
    OBVIOUS
  <2>c. /\ runList \in [Workers -> Seq(1..MaxCalls)] /\ runList[w] = <<>>
        /\ w \in Threads /\ holds[w] \in Keys
    BY DEF IInv, TypeOK, SilenceInv, MonitorIsHeld, Threads
  <2>1. CASE CopyRunners(w)
    <3>1. runList'[w] = runners[holds[w]]
      BY <2>c, <2>1 DEF CopyRunners
    <3> QED  BY <2>c, <3>1 DEF SilenceInv, Of
  <2>2. CASE runList'[w] = runList[w] \/ runList'[w] = <<>>
    BY <2>c, <2>2, NoCallbacks
  <2>3. ASSUME NEW v \in Workers, Worker(v), v # w PROVE runList'[w] = runList[w]
    BY <2>c, <2>3 DEF Worker, CopyRunners, CallbackEnds, CallbackRenews, CallbackRenewed, Reinsert,
                     Invalidate, TaskEnds
  <2>4. ASSUME Worker(w) PROVE CopyRunners(w)
    BY <2>4 DEF Worker, CallbackEnds, CallbackRenews, CallbackRenewed, Invalidate
  <2>5. ASSUME NEW t \in Callers, NEW k \in Keys, NEW ttl \in Ttls, Put(t, k, ttl)
        PROVE  runList' = runList
    BY <2>5 DEF Put, Calling
  <2>6. ASSUME NEW t \in Callers, NEW k \in Keys, NEW ttl \in Ttls, SetTtl(t, k, ttl)
        PROVE  runList' = runList
    BY <2>6 DEF SetTtl, Calling
  <2>7. ASSUME NEW t \in Callers, NEW k \in Keys, Remove(t, k) PROVE runList' = runList
    BY <2>7 DEF Remove, Calling
  <2>8. ASSUME NEW t \in Callers, Return(t) PROVE runList' = runList
    BY <2>8 DEF Return, Reinsert
  <2>9. ASSUME Tick \/ Stop \/ Timer \/ Rest PROVE runList' = runList
    BY <2>9 DEF Tick, Stop, Rest, Timer, Wake, ReadSize, ReadFirst, Compare, PollFirst, Dispatch,
                TimerFrame, threadVars, vars
  <2> QED
    BY <2>1, <2>2, <2>3, <2>4, <2>5, <2>6, <2>7, <2>8, <2>9 DEF Next
<1>2. Spec => [](IInv /\ SilenceInv)
  BY Invariance, InitSilence, NextSilence, PTL DEF Spec
<1> QED  BY <1>1, <1>2, PTL DEF Spec, SilencedStaysSilent
===============================================================================
