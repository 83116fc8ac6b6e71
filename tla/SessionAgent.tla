----------------------------- MODULE SessionAgent -----------------------------
(***************************************************************************)
(* org.gwems.agents.SessionAgent: what its client sends goes through       *)
(* socketMessageQ (runSocketMessage), what its subscriptions bring goes    *)
(* through messageQ (run).  Each is a RunnablesQueue with a task of its    *)
(* own; "Let's not be multithreaded - block the two incoming q's against   *)
(* each other": both methods are synchronized on the session.              *)
(*                                                                         *)
(* A task that has taken a message is at "run" in its queue.  It first has *)
(* to enter the monitor; it leaves it however the message ends.            *)
(*                                                                         *)
(* A message finds the agent it acts for, and the channel it came by, in   *)
(* the ExecutionContext of its thread (org.gwems.servers.ExecutionContext, *)
(* Global.getContext).  The threads belong to the pool of the server: each *)
(* works on one task at a time, of either queue or of anybody else, and    *)
(* starts it with the context that earlier ones have left.  The session is *)
(* one of a server whose clients are people (isPubSub is false), so what   *)
(* its subscriptions bring is wrapped by Global's ChannelSubscriberWrapper. *)
(***************************************************************************)
EXTENDS Naturals, Sequences, FiniteSets

CONSTANTS Outcomes, MaxSubmitted,               \* of each queue
          Threads,                              \* of the pool, for both queues
          Leftovers                             \* contexts a thread may come with

Agents == {"none", "self", "other"}     \* ec.agent: absent, this session, another agent
Contexts == [agent : Agents, channel : BOOLEAN]

ASSUME MaxSubmittedAssumption == MaxSubmitted \in Nat
ASSUME OutcomesAssumption == Outcomes \subseteq {"returns", "exception", "error"}
ASSUME LeftoversAssumption == Leftovers \subseteq Contexts

(* The messages of either queue, numbered as they come.                    *)
Runnables == 1..MaxSubmitted

Free == << >>          \* nobody holds the monitor

VARIABLES socketQ, socketRunning, socketPc, socketSubmitted, socketStarted, socketWedged,
          messageQ, messageRunning, messagePc, messageSubmitted, messageStarted, messageWedged,
          monitor,      \* <<queue, task>> that holds the monitor of the session
          ran,          \* history: of each queue, its messages in the order they were run
          context       \* of each thread: ec.agent, and whether ec.subscribedChannel is there

socketVars == <<socketQ, socketRunning, socketPc, socketSubmitted, socketStarted, socketWedged>>
messageVars == <<messageQ, messageRunning, messagePc, messageSubmitted, messageStarted,
                 messageWedged>>
vars == <<socketVars, messageVars, monitor, ran, context>>

Socket == INSTANCE RunnablesQueue
    WITH q <- socketQ, isRunning <- socketRunning, pc <- socketPc,
         submitted <- socketSubmitted, started <- socketStarted, wedged <- socketWedged
Message == INSTANCE RunnablesQueue
    WITH q <- messageQ, isRunning <- messageRunning, pc <- messagePc,
         submitted <- messageSubmitted, started <- messageStarted, wedged <- messageWedged

Init == /\ Socket!Init /\ Message!Init
        /\ monitor = Free
        /\ ran = [socket |-> << >>, message |-> << >>]
        /\ context = [t \in Threads |-> [agent |-> "none", channel |-> FALSE]]

(* The last message a queue handed out is the one its task is to run.      *)
Last(s) == s[Len(s)]

-------------------------------------------------------------------------------
(* A thread of the pool works on one task.                                 *)
OneTaskEach == \A t \in Threads : socketPc[t] = "idle" \/ messagePc[t] = "idle"

(* The context of a free thread is not looked at.  It comes with whatever  *)
(* its earlier tasks, for this session or others, have left there.         *)
Blank == [agent |-> "none", channel |-> FALSE]
Released(t) == context' = [context EXCEPT ![t] = Blank]

(* run() and hasMore() of either queue hold the monitor of the queue, not  *)
(* that of the session.                                                    *)
SocketHandOver ==
    /\ Socket!Run(Len(socketSubmitted) + 1)
    /\ UNCHANGED <<messageVars, monitor, ran>>
    /\ OneTaskEach'
    /\ \E c \in Leftovers :
          context' = [t \in Threads |-> IF socketPc'[t] # socketPc[t] THEN c ELSE context[t]]

(* The task of an AgentRunnablesQueue sets the agent before its loop.      *)
MessageHandOver ==
    /\ Message!Run(Len(messageSubmitted) + 1)
    /\ UNCHANGED <<socketVars, monitor, ran>>
    /\ OneTaskEach'
    /\ \E c \in Leftovers :
          context' = [t \in Threads |-> IF messagePc'[t] # messagePc[t]
                                        THEN [c EXCEPT !.agent = "self"] ELSE context[t]]

SocketLoop(t) == /\ \/ (Socket!TakeFirst(t) \/ Socket!NoMore(t)) /\ UNCHANGED context
                    \/ Socket!Exit(t) /\ Released(t)
                 /\ UNCHANGED <<messageVars, monitor, ran>>

MessageLoop(t) == /\ \/ (Message!TakeFirst(t) \/ Message!NoMore(t)) /\ UNCHANGED context
                     \/ Message!Exit(t) /\ Released(t)
                  /\ UNCHANGED <<socketVars, monitor, ran>>

(* Mistakes for the mutants: the wrapper relies on the agent the task has *)
(* set; an Error leaves the monitor locked.                                *)
BareEnterMessage(t) ==
    /\ messagePc[t] = "run" /\ monitor = Free
    /\ monitor' = <<"message", t>>
    /\ ran' = [ran EXCEPT !.message = Append(@, Last(messageStarted))]
    /\ context' = [context EXCEPT ![t].channel = TRUE]
    /\ UNCHANGED <<socketVars, messageVars>>
LockedLeaveSocket(t) ==
    /\ monitor = <<"socket", t>>
    /\ \/ Socket!Loop(t) /\ monitor' = Free
       \/ Socket!Escape(t) /\ UNCHANGED monitor
    /\ UNCHANGED <<messageVars, ran, context>>

(* The task of a SessionRunnablesQueue sets the agent for each message,    *)
(* then synchronized (this) { of runSocketMessage                          *)
EnterSocket(t) == /\ socketPc[t] = "run" /\ monitor = Free
                  /\ monitor' = <<"socket", t>>
                  /\ ran' = [ran EXCEPT !.socket = Append(@, Last(socketStarted))]
                  /\ context' = [context EXCEPT ![t].agent = "self"]
                  /\ UNCHANGED <<socketVars, messageVars>>

(* synchronized (this) { of run, then ChannelSubscriberWrapper.run sets    *)
(* both.                                                                   *)
EnterMessage(t) == /\ messagePc[t] = "run" /\ monitor = Free
                   /\ monitor' = <<"message", t>>
                   /\ ran' = [ran EXCEPT !.message = Append(@, Last(messageStarted))]
                   /\ context' = [context EXCEPT ![t] = [agent |-> "self", channel |-> TRUE]]
                   /\ UNCHANGED <<socketVars, messageVars>>

(* The message returns, or its exception or Error passes the end of the    *)
(* synchronized block on the way out.  Only one that returns clears what   *)
(* was set for it: nothing of it is in a finally.                          *)
Cleared(t) == context' = [context EXCEPT ![t].agent = "none"]

LeaveSocket(t) == /\ monitor = <<"socket", t>> /\ monitor' = Free
                  /\ \/ Socket!Loop(t) /\ "returns" \in Outcomes /\ Cleared(t)
                     \/ Socket!Loop(t) /\ "exception" \in Outcomes /\ UNCHANGED context
                     \/ Socket!Escape(t) /\ Released(t)
                  /\ UNCHANGED <<messageVars, ran>>

LeaveMessage(t) == /\ monitor = <<"message", t>> /\ monitor' = Free
                   /\ \/ Message!Loop(t) /\ "returns" \in Outcomes /\ Released(t)
                      \/ Message!Loop(t) /\ "exception" \in Outcomes /\ UNCHANGED context
                      \/ Message!Escape(t) /\ Released(t)
                   /\ UNCHANGED <<socketVars, ran>>

Rest == /\ monitor = Free
        /\ Socket!Rest /\ Message!Rest
        /\ UNCHANGED vars

Next == \/ SocketHandOver \/ MessageHandOver
        \/ \E t \in Threads : \/ SocketLoop(t) \/ EnterSocket(t) \/ LeaveSocket(t)
                             \/ MessageLoop(t) \/ EnterMessage(t) \/ LeaveMessage(t)
        \/ Rest

(* Every task of the pool goes on.  Java does not promise that a waiting   *)
(* task is ever let into a monitor that others keep taking; with a finite  *)
(* number of messages the others come to an end.                           *)
SocketTask(t) == SocketLoop(t) \/ EnterSocket(t) \/ LeaveSocket(t)
MessageTask(t) == MessageLoop(t) \/ EnterMessage(t) \/ LeaveMessage(t)
Fairness == \A t \in Threads : WF_vars(SocketTask(t)) /\ WF_vars(MessageTask(t))

Spec == Init /\ [][Next]_vars
FairSpec == Spec /\ Fairness

-------------------------------------------------------------------------------
TypeOK == /\ Socket!TypeOK /\ Message!TypeOK
          /\ monitor \in ({"socket", "message"} \X Threads) \cup {Free}
          /\ ran \in [socket : Seq(Runnables), message : Seq(Runnables)]
          /\ context \in [Threads -> Contexts]

(* Blocking one queue against the other changes nothing for either: each   *)
(* still runs its messages once each, in the order they came, the newest   *)
(* one perhaps still waiting at the monitor.                               *)
EachQueueInOrder ==
    /\ \E n \in {0, 1} : ran.socket = SubSeq(socketSubmitted, 1, Len(socketStarted) - n)
    /\ \E n \in {0, 1} : ran.message = SubSeq(messageSubmitted, 1, Len(messageStarted) - n)

(* While a message of the session runs, its thread says that it acts for   *)
(* the session, whoever the thread worked for before and however earlier   *)
(* messages ended; what a subscription brought finds its channel there     *)
(* (Agent.getChannelSubscriptionString).  Push2Client, Subscribe and the   *)
(* others go by the context alone: another agent in it would be another    *)
(* client's socket.                                                        *)
ActsForItsSession ==
    monitor # Free => /\ context[monitor[2]].agent = "self"
                      /\ monitor[1] = "message" => context[monitor[2]].channel

(* An Error in a message of one queue ends that queue only: the monitor is *)
(* free again and what the other queue is given is run.                    *)
OtherQueueLives ==
    \A n \in 1..MaxSubmitted :
        /\ Len(socketSubmitted) >= n ~> (Len(ran.socket) >= n \/ socketWedged)
        /\ Len(messageSubmitted) >= n ~> (Len(ran.message) >= n \/ messageWedged)
===============================================================================
