---------------------------- MODULE SerialExecutor ----------------------------
(***************************************************************************)
(* What a RunnablesQueue promises to the agents that own one: the messages *)
(* handed to it are run one at a time, each exactly once, in the order in  *)
(* which they were handed over.  Nothing is said about threads, about the  *)
(* list that holds the waiting messages or about the flag that wakes a     *)
(* runner; those belong to RunnablesQueue, which implements this module.   *)
(***************************************************************************)
EXTENDS Naturals, Sequences

CONSTANT Runnables      \* the messages

VARIABLES submitted,    \* every message handed over, oldest first
          started,      \* every message whose run() was called, oldest first
          busy          \* TRUE while a message is being run

execVars == <<submitted, started, busy>>

ExecInit == /\ submitted = << >>
            /\ started = << >>
            /\ busy = FALSE

Submit == /\ \E r \in Runnables : submitted' = Append(submitted, r)
          /\ UNCHANGED <<started, busy>>

Start == /\ ~busy
         /\ Len(started) < Len(submitted)
         /\ started' = Append(started, submitted[Len(started) + 1])
         /\ busy' = TRUE
         /\ UNCHANGED submitted

Finish == /\ busy
          /\ busy' = FALSE
          /\ UNCHANGED <<submitted, started>>

ExecNext == Submit \/ Start \/ Finish

(* The safety half of the promise.                                         *)
SerialSpec == ExecInit /\ [][ExecNext]_execVars

(* The other half: what is waiting is started, and what is started ends.   *)
ExecFairness == WF_execVars(Start) /\ WF_execVars(Finish)
===============================================================================
