------------------------- MODULE RunnablesQueueProofs -------------------------
(***************************************************************************)
(* Proofs about RunnablesQueue, for every set of messages and of pool      *)
(* tasks, every bound and every choice of outcomes.                        *)
(***************************************************************************)
EXTENDS RunnablesQueue, SequenceTheorems, TLAPS

(* A wedged queue has lost its only task.                                  *)
WedgedIsIdle == wedged => Draining = {}

(* The invariant that is inductive: the flag tells who may be draining, so *)
(* that run() creates a task only where there is none, and the history     *)
(* equation tells that the next message to start is the head of the list.  *)
IInv == /\ TypeOK
        /\ SingleRunner
        /\ InOrder
        /\ FlagMeansRunner
        /\ NoLostWakeup
        /\ WedgedIsIdle

-------------------------------------------------------------------------------
(* Giving a task to the pool adds exactly one draining task.               *)
LEMMA ExecuteAddsOne ==
    ASSUME TypeOK, Execute
    PROVE  \E t \in Threads : /\ pc[t] = "idle"
                              /\ pc' = [pc EXCEPT ![t] = "hasMore"]
                              /\ Draining' = Draining \cup {t}
  BY DEF TypeOK, Execute, Draining

(* Appending to what waits is appending to what was submitted.             *)
LEMMA SubmitKeepsOrder ==
    ASSUME TypeOK, InOrder, NEW r \in Runnables, Run(r)
    PROVE  InOrder'
  <1>1. /\ started \in Seq(Runnables) /\ q \in Seq(Runnables)
        /\ <<r>> \in Seq(Runnables)
    BY DEF TypeOK
  <1>2. Append(started \o q, r) = (started \o q) \o <<r>>
    BY <1>1, AppendIsConcat, ConcatProperties
  <1>3. Append(q, r) = q \o <<r>>
    BY <1>1, AppendIsConcat
  <1>4. (started \o q) \o <<r>> = started \o (q \o <<r>>)
    BY <1>1, ConcatAssociative
  <1> QED  BY <1>2, <1>3, <1>4 DEF Run, InOrder

(* Moving the head of the waiting list to the end of the started one       *)
(* leaves their concatenation alone, and the head is the next in order.    *)
LEMMA HeadMoves ==
    ASSUME NEW R, NEW a \in Seq(R), NEW b \in Seq(R), b # << >>
    PROVE  /\ Append(a, Head(b)) \o Tail(b) = a \o b
           /\ Head(b) = (a \o b)[Len(a) + 1]
           /\ Len(a) < Len(a \o b)
           /\ Head(b) \in R
           /\ Tail(b) \in Seq(R)
  <1>1. /\ Len(b) \in Nat \ {0}
        /\ Head(b) = b[1]
        /\ Head(b) \in R
        /\ Tail(b) \in Seq(R)
        /\ Len(Tail(b)) = Len(b) - 1
        /\ \A i \in 1..Len(Tail(b)) : Tail(b)[i] = b[i + 1]
    OBVIOUS
  <1>2. Append(a, Head(b)) \o Tail(b) = a \o b
    <2>1. /\ Append(a, Head(b)) \o Tail(b) \in Seq(R)
          /\ a \o b \in Seq(R)
          /\ Len(Append(a, Head(b)) \o Tail(b)) = Len(a \o b)
      BY <1>1
    <2>2. \A i \in 1..Len(a \o b) : (Append(a, Head(b)) \o Tail(b))[i] = (a \o b)[i]
      BY <1>1
    <2> QED  BY <2>1, <2>2, SeqEqual
  <1> QED  BY <1>1, <1>2

-------------------------------------------------------------------------------
(* Init establishes the inductive invariant.                               *)
LEMMA InitIInv == Init => IInv
<1> SUFFICES ASSUME Init PROVE IInv
  OBVIOUS
<1>1. Draining = {}
  BY DEF Init, Draining
<1>2. TypeOK
  BY EmptySeq DEF Init, TypeOK
<1>3. InOrder
  <2>1. << >> \o << >> = << >>
    BY EmptySeq, ConcatEmptySeq, Zenon
  <2> QED  BY <2>1 DEF Init, InOrder
<1> QED
  BY <1>1, <1>2, <1>3 DEF Init, IInv, SingleRunner, FlagMeansRunner, NoLostWakeup, WedgedIsIdle

(* Every step preserves it.                                                *)
LEMMA NextIInv == IInv /\ [Next]_vars => IInv'
<1> SUFFICES ASSUME IInv, [Next]_vars PROVE IInv'
  OBVIOUS
<1> USE DEF IInv
<1>1. ASSUME NEW r \in Runnables, Run(r) PROVE IInv'
  <2>1. InOrder'
    BY <1>1, SubmitKeepsOrder
  <2>2. CASE isRunning
    <3>1. Draining' = Draining
      BY <1>1, <2>2 DEF Run, Draining
    <3> QED
      BY <1>1, <2>1, <2>2, <3>1
      DEF Run, TypeOK, SingleRunner, FlagMeansRunner, NoLostWakeup, WedgedIsIdle
  <2>3. CASE ~isRunning
    <3>1. PICK t \in Threads : /\ pc[t] = "idle"
                               /\ pc' = [pc EXCEPT ![t] = "hasMore"]
                               /\ Draining' = Draining \cup {t}
      BY <1>1, <2>3, ExecuteAddsOne DEF Run
    <3>2. Draining = {} /\ ~wedged
      BY <2>3 DEF FlagMeansRunner
    <3> QED
      BY <1>1, <2>1, <3>1, <3>2
      DEF Run, TypeOK, SingleRunner, FlagMeansRunner, NoLostWakeup, WedgedIsIdle
  <2> QED  BY <2>2, <2>3
<1>2. ASSUME NEW t \in Threads, TakeFirst(t) PROVE IInv'
  <2>1. InOrder' /\ q' \in Seq(Runnables) /\ started' \in Seq(Runnables)
    BY <1>2, HeadMoves DEF TakeFirst, InOrder, TypeOK
  <2>2. Draining' = Draining
    BY <1>2 DEF TakeFirst, Draining, TypeOK
  <2>3. isRunning
    BY <1>2 DEF TakeFirst, NoLostWakeup
  <2> QED
    BY <1>2, <2>1, <2>2, <2>3
    DEF TakeFirst, TypeOK, SingleRunner, FlagMeansRunner, NoLostWakeup, WedgedIsIdle
<1>3. ASSUME NEW t \in Threads, NoMore(t) PROVE IInv'
  <2>1. Draining' = Draining \ {t} /\ t \in Draining
    BY <1>3 DEF NoMore, Draining, TypeOK
  <2>2. Draining' = {} /\ ~wedged
    BY <2>1 DEF SingleRunner, WedgedIsIdle
  <2> QED
    BY <1>3, <2>2
    DEF NoMore, TypeOK, SingleRunner, InOrder, FlagMeansRunner, NoLostWakeup, WedgedIsIdle
<1>4. ASSUME NEW t \in Threads, Loop(t) PROVE IInv'
  <2>1. Draining' = Draining
    BY <1>4 DEF Loop, Draining, TypeOK
  <2> QED
    BY <1>4, <2>1
    DEF Loop, TypeOK, SingleRunner, InOrder, FlagMeansRunner, NoLostWakeup, WedgedIsIdle
<1>5. ASSUME NEW t \in Threads, Escape(t) PROVE IInv'
  <2>1. Draining' = Draining \ {t} /\ t \in Draining
    BY <1>5 DEF Escape, Draining, TypeOK
  <2>2. Draining' = {} /\ isRunning
    BY <2>1 DEF SingleRunner, FlagMeansRunner
  <2> QED
    BY <1>5, <2>2
    DEF Escape, TypeOK, SingleRunner, InOrder, FlagMeansRunner, NoLostWakeup, WedgedIsIdle
<1>6. ASSUME NEW t \in Threads, Exit(t) PROVE IInv'
  <2>1. Draining' = Draining
    BY <1>6 DEF Exit, Draining, TypeOK
  <2> QED
    BY <1>6, <2>1
    DEF Exit, TypeOK, SingleRunner, InOrder, FlagMeansRunner, NoLostWakeup, WedgedIsIdle
<1>7. CASE UNCHANGED vars
  BY <1>7 DEF vars, TypeOK, SingleRunner, InOrder, FlagMeansRunner, NoLostWakeup,
              WedgedIsIdle, Draining
<1> QED
  BY <1>1, <1>2, <1>3, <1>4, <1>5, <1>6, <1>7 DEF Next, Runner, Rest

(* The inductive invariant holds in every reachable state.                 *)
THEOREM Invariance == Spec => []IInv
  BY InitIInv, NextIInv, PTL DEF Spec

-------------------------------------------------------------------------------
(* Every variable keeps its type, for every set of messages and tasks.     *)
THEOREM TypeCorrect == Spec => []TypeOK
  BY Invariance, PTL DEF IInv

(* No two tasks ever drain one queue, so the messages of an agent cannot   *)
(* overlap, whatever the pool does and whoever calls run().                *)
THEOREM MessagesNeverOverlap == Spec => []SingleRunner
  BY Invariance, PTL DEF IInv

(* Messages are handed out in the order of the calls of run(), each once.  *)
THEOREM MessagesInOrder == Spec => []InOrder
  BY Invariance, PTL DEF IInv

(* The flag is up exactly while a task will come back to the list.         *)
THEOREM FlagIsTruthful == Spec => []FlagMeansRunner
  BY Invariance, PTL DEF IInv

(* A waiting message always finds the flag up.                             *)
THEOREM WakeupsAreKept == Spec => []NoLostWakeup
  BY Invariance, PTL DEF IInv

-------------------------------------------------------------------------------
(* The queue implements the serial executor: taking a message off the list *)
(* is Start, the end of r.run() in either way is Finish, and the hand-over *)
(* to the pool, null and the way out of the loop are invisible.            *)
THEOREM ImplementsSerialExecutor == Spec => RunsSerially
<1>1. Init => Serial!ExecInit
  BY DEF Init, Serial!ExecInit, Executing
<1>2. IInv /\ [Next]_vars => [Serial!ExecNext]_Serial!execVars
  <2> SUFFICES ASSUME IInv, [Next]_vars PROVE [Serial!ExecNext]_Serial!execVars
    OBVIOUS
  <2> USE DEF IInv, Serial!execVars, Serial!ExecNext
  <2>1. ASSUME NEW r \in Runnables, Run(r) PROVE Serial!Submit
    <3>1. Executing' = Executing
      BY <2>1 DEF Run, Execute, Executing, TypeOK
    <3> QED  BY <2>1, <3>1 DEF Run, Serial!Submit
  <2>2. ASSUME NEW t \in Threads, TakeFirst(t) PROVE Serial!Start
    <3>1. Executing = {}
      BY <2>2 DEF TakeFirst, SingleRunner, Draining, Executing
    <3>2. t \in Executing'
      BY <2>2 DEF TakeFirst, Executing, TypeOK
    <3>3. Len(started) < Len(submitted) /\ Head(q) = submitted[Len(started) + 1]
      BY <2>2, HeadMoves DEF TakeFirst, InOrder, TypeOK
    <3> QED  BY <2>2, <3>1, <3>2, <3>3 DEF TakeFirst, Serial!Start
  <2>3. ASSUME NEW t \in Threads, Loop(t) \/ Escape(t) PROVE Serial!Finish
    <3>1. Executing' = {} /\ t \in Executing
      BY <2>3 DEF Loop, Escape, SingleRunner, Draining, Executing, TypeOK
    <3> QED  BY <2>3, <3>1 DEF Loop, Escape, Serial!Finish
  <2>4. ASSUME NEW t \in Threads, NoMore(t) \/ Exit(t) PROVE UNCHANGED Serial!execVars
    <3>1. Executing' = Executing
      BY <2>4 DEF NoMore, Exit, Executing, TypeOK
    <3> QED  BY <2>4, <3>1 DEF NoMore, Exit
  <2>5. CASE UNCHANGED vars
    BY <2>5 DEF vars, Executing
  <2> QED
    BY <2>1, <2>2, <2>3, <2>4, <2>5 DEF Next, Runner, Rest
<1> QED  BY <1>1, <1>2, Invariance, PTL DEF Spec, RunsSerially, Serial!SerialSpec
===============================================================================
