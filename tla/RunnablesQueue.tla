---------------------------- MODULE RunnablesQueue ----------------------------
(***************************************************************************)
(* org.gwems.util.RunnablesQueue: a list of messages and a flag that says  *)
(* whether a task draining the list has been given to the thread pool of   *)
(* the server (Global.execute).  run() may be called by any thread: a      *)
(* netty i/o thread, the pub/sub client, or a message that is being run by *)
(* this or another queue.  run() and hasMore() are synchronized on the     *)
(* queue, so each is one action; the message itself runs outside the lock. *)
(*                                                                         *)
(* A task of the pool is an element of Threads.  pc[t] is                  *)
(*   "idle"     not working for this queue                                 *)
(*   "hasMore"  given to the pool, or about to call hasMore() again        *)
(*   "run"      inside r.run()                                             *)
(*   "exit"     has seen null, still has to leave the method               *)
(***************************************************************************)
EXTENDS Integers, Sequences, FiniteSets

CONSTANTS Runnables,    \* the messages
          Threads,      \* tasks the pool can have alive at a time
          Outcomes,     \* how r.run() may end: a subset of AllOutcomes
          MaxSubmitted  \* bound: calls of run() in a behaviour

AllOutcomes == {"returns", "exception", "error"}

ASSUME OutcomesAssumption == Outcomes \subseteq AllOutcomes
ASSUME MaxSubmittedAssumption == MaxSubmitted \in Nat

VARIABLES q,            \* the waiting messages, oldest first
          isRunning,    \* the flag
          pc,           \* where each task is
          submitted,    \* history: the arguments of run(), in order
          started,      \* history: what hasMore() handed out, in order
          wedged        \* history: a message ended in an Error

vars == <<q, isRunning, pc, submitted, started, wedged>>

(* Tasks that are draining the list: they will call hasMore() again.       *)
Draining == {t \in Threads : pc[t] \in {"hasMore", "run"}}

(* Tasks that are executing a message of this queue.                       *)
Executing == {t \in Threads : pc[t] = "run"}

Init == /\ q = << >>
        /\ isRunning = FALSE
        /\ pc = [t \in Threads |-> "idle"]
        /\ submitted = << >>
        /\ started = << >>
        /\ wedged = FALSE

(* global.execute(myRunner): a pool of unbounded size starts it at once.   *)
Execute == \E t \in Threads : /\ pc[t] = "idle"
                              /\ pc' = [pc EXCEPT ![t] = "hasMore"]

-------------------------------------------------------------------------------
(* Plausible mistakes in the three synchronized blocks, for the mutants of  *)
(* the properties; the specification does not use them.                     *)

(* run() does not look at the flag before it hands a task to the pool      *)
UnguardedRun(r) == /\ Len(submitted) < MaxSubmitted
                   /\ q' = Append(q, r)
                   /\ isRunning' = TRUE
                   /\ Execute
                   /\ submitted' = Append(submitted, r)
                   /\ UNCHANGED <<started, wedged>>

(* run() puts the message in front: q.addFirst(runnable)                   *)
AddFirstRun(r) == /\ Len(submitted) < MaxSubmitted
                  /\ q' = <<r>> \o q
                  /\ isRunning' = TRUE
                  /\ IF isRunning THEN UNCHANGED pc ELSE Execute
                  /\ submitted' = Append(submitted, r)
                  /\ UNCHANGED <<started, wedged>>

(* hasMore() returns null without clearing the flag                        *)
StickyNoMore(t) == /\ pc[t] = "hasMore"
                   /\ q = << >>
                   /\ pc' = [pc EXCEPT ![t] = "exit"]
                   /\ UNCHANGED <<q, isRunning, submitted, started, wedged>>

(* the loop does not stop at null and runs it                              *)
RunNull(t) == /\ pc[t] = "hasMore"
              /\ q = << >>
              /\ started' = Append(started, "null")
              /\ pc' = [pc EXCEPT ![t] = "run"]
              /\ UNCHANGED <<q, isRunning, submitted, wedged>>

-------------------------------------------------------------------------------
(* RunnablesQueue.run(r)                                                   *)
Run(r) == /\ Len(submitted) < MaxSubmitted
          /\ q' = Append(q, r)
          /\ isRunning' = TRUE
          /\ IF isRunning THEN UNCHANGED pc ELSE Execute
          /\ submitted' = Append(submitted, r)
          /\ UNCHANGED <<started, wedged>>

(* hasMore() returns the oldest message and the task goes on to run it.    *)
TakeFirst(t) == /\ pc[t] = "hasMore"
                /\ q # << >>
                /\ q' = Tail(q)
                /\ started' = Append(started, Head(q))
                /\ pc' = [pc EXCEPT ![t] = "run"]
                /\ UNCHANGED <<isRunning, submitted, wedged>>

(* hasMore() returns null and clears the flag in the same synchronized step. *)
NoMore(t) == /\ pc[t] = "hasMore"
             /\ q = << >>
             /\ isRunning' = FALSE
             /\ pc' = [pc EXCEPT ![t] = "exit"]
             /\ UNCHANGED <<q, submitted, started, wedged>>

(* r.run() returned, or threw an Exception that the loop logs: go on.      *)
Loop(t) == /\ pc[t] = "run"
           /\ Outcomes \cap {"returns", "exception"} # {}
           /\ pc' = [pc EXCEPT ![t] = "hasMore"]
           /\ UNCHANGED <<q, isRunning, submitted, started, wedged>>

(* r.run() threw an Error (StackOverflowError, OutOfMemoryError, ...): the *)
(* catch clause does not match, the task dies and the flag stays as it is. *)
Escape(t) == /\ pc[t] = "run"
             /\ "error" \in Outcomes
             /\ pc' = [pc EXCEPT ![t] = "idle"]
             /\ wedged' = TRUE
             /\ UNCHANGED <<q, isRunning, submitted, started>>

(* The task leaves MyLocalRunner.run() and the thread returns to the pool. *)
Exit(t) == /\ pc[t] = "exit"
           /\ pc' = [pc EXCEPT ![t] = "idle"]
           /\ UNCHANGED <<q, isRunning, submitted, started, wedged>>

Runner(t) == TakeFirst(t) \/ NoMore(t) \/ Loop(t) \/ Escape(t) \/ Exit(t)

(* No caller is left and no task has work: the queue rests.                *)
Rest == /\ Len(submitted) = MaxSubmitted
        /\ \A t \in Threads : pc[t] = "idle"
        /\ q = << >> \/ wedged
        /\ UNCHANGED vars

Next == \/ \E r \in Runnables : Run(r)
        \/ \E t \in Threads : Runner(t)
        \/ Rest

(* The pool keeps every task going, and every message comes to an end.     *)
Fairness == \A t \in Threads : WF_vars(Runner(t))

Spec == Init /\ [][Next]_vars
FairSpec == Spec /\ Fairness

-------------------------------------------------------------------------------
TypeOK == /\ q \in Seq(Runnables)
          /\ isRunning \in BOOLEAN
          /\ pc \in [Threads -> {"idle", "hasMore", "run", "exit"}]
          /\ submitted \in Seq(Runnables)
          /\ started \in Seq(Runnables)
          /\ wedged \in BOOLEAN

(* Messages of one queue never overlap, although every wake-up may use     *)
(* another thread of the pool and the previous one may not have left yet.  *)
(* Agents rely on this: their state has no other protection.               *)
SingleRunner == \A t, u \in Draining : t = u

(* Nothing is lost, repeated or overtaken between run() and r.run().       *)
InOrder == submitted = started \o q

(* The flag is the truth: it is up exactly while some task will come back  *)
(* to the list, so a message added while the flag is up is never stranded. *)
(* The exception is a queue whose task died of an Error.                   *)
FlagMeansRunner == isRunning <=> (Draining # {} \/ wedged)

(* Waiting messages always have a flag up that a caller of run() believes. *)
NoLostWakeup == q # << >> => isRunning

(* The queue as its users see it.                                          *)
Serial == INSTANCE SerialExecutor WITH busy <- (Executing # {})

(* Seen from outside, every behaviour is one of a serial executor.         *)
RunsSerially == Serial!SerialSpec

(* As long as no message ends in an Error, also its eventual half.         *)
ServesAsSerially == <>wedged \/ Serial!ExecFairness

===============================================================================
