-------------------------- MODULE SessionAgentProofs --------------------------
(***************************************************************************)
(* Theorems about SessionAgent, for every pool of threads, every set of    *)
(* outcomes and of leftover contexts and any number of messages.           *)
(*                                                                         *)
(* Either queue goes on as a RunnablesQueue, so that everything proved of  *)
(* one (RunnablesQueueProofs) holds of both.  What the session adds is the *)
(* monitor: whoever holds it is running a message of that queue, on a      *)
(* thread that works on nothing else, in a context set when it entered.    *)
(* What a queue has handed out is ahead of what has run by one message     *)
(* exactly while a task waits for the monitor.                             *)
(***************************************************************************)
EXTENDS SessionAgent, TLAPS

(* The theorems about RunnablesQueue, of each queue.                       *)
SocketProofs == INSTANCE RunnablesQueueProofs
    WITH q <- socketQ, isRunning <- socketRunning, pc <- socketPc,
         submitted <- socketSubmitted, started <- socketStarted, wedged <- socketWedged
MessageProofs == INSTANCE RunnablesQueueProofs
    WITH q <- messageQ, isRunning <- messageRunning, pc <- messagePc,
         submitted <- messageSubmitted, started <- messageStarted, wedged <- messageWedged

(* The inductive invariants of both queues.                                *)
QueuesOK == SocketProofs!IInv /\ MessageProofs!IInv

(* What is used of either queue: types, one task at most that runs a       *)
(* message, and the order.                                                 *)
LEMMA SocketFacts ==
    ASSUME SocketProofs!IInv
    PROVE  /\ Socket!TypeOK
           /\ \A t, u \in Threads : socketPc[t] \in {"hasMore", "run"} /\ socketPc[u] \in {"hasMore", "run"}
                 => t = u
           /\ socketSubmitted = socketStarted \o socketQ
  BY
     DEF SocketProofs!IInv, SocketProofs!TypeOK, SocketProofs!SingleRunner, SocketProofs!Draining,
         SocketProofs!InOrder, Socket!TypeOK

(* The same of the other queue.                                            *)
LEMMA MessageFacts ==
    ASSUME MessageProofs!IInv
    PROVE  /\ Message!TypeOK
           /\ \A t, u \in Threads : messagePc[t] \in {"hasMore", "run"} /\ messagePc[u] \in {"hasMore", "run"}
                 => t = u
           /\ messageSubmitted = messageStarted \o messageQ
  BY
     DEF MessageProofs!IInv, MessageProofs!TypeOK, MessageProofs!SingleRunner, MessageProofs!Draining,
         MessageProofs!InOrder, Message!TypeOK

(* What a queue does by itself keeps its invariant.                        *)
LEMMA SocketStays ==
    ASSUME SocketProofs!IInv, [Socket!Next]_socketVars
    PROVE  SocketProofs!IInv'
  <1>1. [SocketProofs!Next]_SocketProofs!vars
    BY
       DEF Socket!Next, Socket!Runner, Socket!Run, Socket!Execute, Socket!TakeFirst, Socket!NoMore,
           Socket!Loop, Socket!Escape, Socket!Exit, Socket!Rest, Socket!vars, socketVars,
           SocketProofs!Next, SocketProofs!Runner, SocketProofs!Run, SocketProofs!Execute,
           SocketProofs!TakeFirst, SocketProofs!NoMore, SocketProofs!Loop, SocketProofs!Escape,
           SocketProofs!Exit, SocketProofs!Rest, SocketProofs!vars
  <1>2. Outcomes \subseteq SocketProofs!AllOutcomes /\ MaxSubmitted \in Nat
    BY OutcomesAssumption, MaxSubmittedAssumption DEF SocketProofs!AllOutcomes
  <1>3. SocketProofs!IInv /\ [SocketProofs!Next]_SocketProofs!vars => SocketProofs!IInv'
    BY <1>2, SocketProofs!NextIInv
  <1> QED  BY <1>1, <1>3

(* The same of the other queue.                                            *)
LEMMA MessageStays ==
    ASSUME MessageProofs!IInv, [Message!Next]_messageVars
    PROVE  MessageProofs!IInv'
  <1>1. [MessageProofs!Next]_MessageProofs!vars
    BY DEF Message!Next, Message!Runner, Message!Run, Message!Execute, Message!TakeFirst,
           Message!NoMore, Message!Loop, Message!Escape, Message!Exit, Message!Rest, Message!vars,
           messageVars,
           MessageProofs!Next, MessageProofs!Runner, MessageProofs!Run, MessageProofs!Execute,
           MessageProofs!TakeFirst, MessageProofs!NoMore, MessageProofs!Loop, MessageProofs!Escape,
           MessageProofs!Exit, MessageProofs!Rest, MessageProofs!vars
  <1>2. Outcomes \subseteq MessageProofs!AllOutcomes /\ MaxSubmitted \in Nat
    BY OutcomesAssumption, MaxSubmittedAssumption DEF MessageProofs!AllOutcomes
  <1>3. MessageProofs!IInv /\ [MessageProofs!Next]_MessageProofs!vars => MessageProofs!IInv'
    BY <1>2, MessageProofs!NextIInv
  <1> QED  BY <1>1, <1>3

(* No step of the session makes either queue do anything but one of its    *)
(* own steps or nothing.                                                   *)
LEMMA QueuesStep ==
    ASSUME QueuesOK, [Next]_vars
    PROVE  [Socket!Next]_socketVars /\ [Message!Next]_messageVars
  <1>1. Len(socketSubmitted) \in Nat /\ Len(messageSubmitted) \in Nat
    BY SocketFacts, MessageFacts DEF QueuesOK, Socket!TypeOK, Message!TypeOK
  <1>2. CASE SocketHandOver
    BY <1>1, <1>2, MaxSubmittedAssumption
       DEF SocketHandOver, Socket!Run, Socket!Next, Runnables, messageVars
  <1>3. CASE MessageHandOver
    BY <1>1, <1>3, MaxSubmittedAssumption
       DEF MessageHandOver, Message!Run, Message!Next, Runnables, socketVars
  <1>4. ASSUME NEW t \in Threads, SocketLoop(t) \/ EnterSocket(t) \/ LeaveSocket(t)
        PROVE  [Socket!Next]_socketVars /\ [Message!Next]_messageVars
    BY <1>4
       DEF SocketLoop, EnterSocket, LeaveSocket, Socket!Next, Socket!Runner, messageVars, socketVars
  <1>5. ASSUME NEW t \in Threads, MessageLoop(t) \/ EnterMessage(t) \/ LeaveMessage(t)
        PROVE  [Socket!Next]_socketVars /\ [Message!Next]_messageVars
    BY <1>5
       DEF MessageLoop, EnterMessage, LeaveMessage, Message!Next, Message!Runner, messageVars, socketVars
  <1>6. CASE UNCHANGED vars
    BY <1>6 DEF vars, socketVars, messageVars
  <1> QED  BY <1>2, <1>3, <1>4, <1>5, <1>6 DEF Next, Rest

-------------------------------------------------------------------------------
(* A task that is to run a message waits until it holds the monitor.       *)
SocketWaits == \E t \in Threads : socketPc[t] = "run" /\ monitor # <<"socket", t>>
MessageWaits == \E t \in Threads : messagePc[t] = "run" /\ monitor # <<"message", t>>

(* Then and only then is what the queue has handed out ahead of what has   *)
(* run, by one message.                                                    *)
Behind(done, started, waits) ==
    /\ done \in Seq(Runnables)
    /\ IF waits THEN \E m \in Runnables : started = Append(done, m) ELSE started = done

RanSocket == Behind(ran.socket, socketStarted, SocketWaits)
RanMessage == Behind(ran.message, messageStarted, MessageWaits)

(* The holder of the monitor is running a message of its queue, in the     *)
(* context set for that message.                                           *)
HolderRuns ==
    \A t \in Threads :
        /\ monitor = <<"socket", t>> => socketPc[t] = "run" /\ context[t].agent = "self"
        /\ monitor = <<"message", t>>
              => messagePc[t] = "run" /\ context[t] = [agent |-> "self", channel |-> TRUE]

(* The types of what the session adds to the queues.                       *)
Typed == /\ monitor \in ({"socket", "message"} \X Threads) \cup {Free}
         /\ ran \in [socket : Seq(Runnables), message : Seq(Runnables)]
         /\ context \in [Threads -> Contexts]

(* The inductive invariant.                                                *)
IInv == QueuesOK /\ OneTaskEach /\ Typed /\ HolderRuns /\ RanSocket /\ RanMessage

(* Entering the monitor with the last message handed out catches up.       *)
LEMMA AheadByOne ==
    ASSUME NEW done \in Seq(Runnables), NEW m \in Runnables, NEW started, started = Append(done, m)
    PROVE  Append(done, Last(started)) = started
  BY DEF Last

(* The context a task leaves behind is one.                                *)
LEMMA BlankContext == Blank \in Contexts
  BY DEF Blank, Contexts, Agents

(* The invariant holds at the start.                                       *)
LEMMA InitIInv == Init => IInv
  <1> SUFFICES ASSUME Init PROVE IInv
    OBVIOUS
  <1>0. Outcomes \subseteq SocketProofs!AllOutcomes /\ MaxSubmitted \in Nat
    BY OutcomesAssumption, MaxSubmittedAssumption DEF SocketProofs!AllOutcomes
  <1>1. SocketProofs!IInv
    <2>1. SocketProofs!Init
      BY DEF Init, Socket!Init, SocketProofs!Init
    <2>2. SocketProofs!Init => SocketProofs!IInv
      BY <1>0, SocketProofs!InitIInv
    <2> QED  BY <2>1, <2>2
  <1>2. MessageProofs!IInv
    <2>0. Outcomes \subseteq MessageProofs!AllOutcomes /\ MaxSubmitted \in Nat
      BY OutcomesAssumption, MaxSubmittedAssumption DEF MessageProofs!AllOutcomes
    <2>1. MessageProofs!Init
      BY DEF Init, Message!Init, MessageProofs!Init
    <2>2. MessageProofs!Init => MessageProofs!IInv
      BY <2>0, MessageProofs!InitIInv
    <2> QED  BY <2>1, <2>2
  <1>3. OneTaskEach /\ Typed
    BY DEF Init, Socket!Init, Message!Init, OneTaskEach, Typed, Contexts, Agents
  <1>4. \A t : monitor # <<"socket", t>> /\ monitor # <<"message", t>>
    BY DEF Init, Free
  <1>5. HolderRuns
    BY <1>4 DEF HolderRuns
  <1>6. RanSocket /\ RanMessage
    BY
       DEF Init, Socket!Init, Message!Init, RanSocket, RanMessage, Behind, SocketWaits, MessageWaits
  <1> QED  BY <1>1, <1>2, <1>3, <1>5, <1>6 DEF IInv, QueuesOK

(* Every step keeps it.                                                    *)
LEMMA NextIInv == IInv /\ [Next]_vars => IInv'
  <1> SUFFICES ASSUME IInv, [Next]_vars PROVE IInv'
    OBVIOUS
  <1>1. QueuesOK'
    BY QueuesStep, SocketStays, MessageStays DEF IInv, QueuesOK
  <1>2. /\ socketPc \in [Threads -> {"idle", "hasMore", "run", "exit"}]
        /\ messagePc \in [Threads -> {"idle", "hasMore", "run", "exit"}]
        /\ socketStarted \in Seq(Runnables) /\ messageStarted \in Seq(Runnables)
        /\ socketQ \in Seq(Runnables) /\ messageQ \in Seq(Runnables)
        /\ \A t, u \in Threads : socketPc[t] \in {"hasMore", "run"} /\ socketPc[u] \in {"hasMore", "run"}
              => t = u
        /\ \A t, u \in Threads : messagePc[t] \in {"hasMore", "run"} /\ messagePc[u] \in {"hasMore", "run"}
              => t = u
    BY SocketFacts, MessageFacts DEF IInv, QueuesOK, Socket!TypeOK, Message!TypeOK
  <1>3. /\ OneTaskEach /\ Typed /\ HolderRuns /\ RanSocket /\ RanMessage
        /\ \A t : Free # <<"socket", t>> /\ Free # <<"message", t>>
        /\ \A t, u : <<"socket", t>> # <<"message", u>> /\ (<<"socket", t>> = <<"socket", u>>
              => t = u)
                     /\ (<<"message", t>> = <<"message", u>> => t = u)
    BY DEF IInv, Free
  <1>4. CASE SocketHandOver
    <2>1. /\ UNCHANGED <<monitor, ran, messagePc, messageStarted, socketStarted>> /\ OneTaskEach'
          /\ \A t \in Threads :
                 socketPc'[t] = socketPc[t] \/ (socketPc[t] = "idle" /\ socketPc'[t] = "hasMore")
      BY <1>2, <1>4 DEF SocketHandOver, Socket!Run, Socket!Execute, messageVars
    <2>2. PICK c \in Leftovers :
             context' = [t \in Threads |-> IF socketPc'[t] # socketPc[t] THEN c ELSE context[t]]
      BY <1>4 DEF SocketHandOver
    <2>3. Typed'
      BY <1>3, <2>1, <2>2, LeftoversAssumption DEF Typed
    <2>4. HolderRuns'
      BY <1>2, <1>3, <2>1, <2>2 DEF HolderRuns, OneTaskEach
    <2>5. (SocketWaits' <=> SocketWaits) /\ (MessageWaits' <=> MessageWaits)
      BY <2>1 DEF SocketWaits, MessageWaits
    <2> QED  BY <1>1, <1>3, <2>1, <2>3, <2>4, <2>5 DEF IInv, RanSocket, RanMessage, Behind
  <1>5. CASE MessageHandOver
    <2>1. /\ UNCHANGED <<monitor, ran, socketPc, messageStarted, socketStarted>> /\ OneTaskEach'
          /\ \A t \in Threads :
                 messagePc'[t] = messagePc[t] \/ (messagePc[t] = "idle" /\ messagePc'[t] = "hasMore")
      BY <1>2, <1>5 DEF MessageHandOver, Message!Run, Message!Execute, socketVars
    <2>2. PICK c \in Leftovers :
             context' = [t \in Threads |-> IF messagePc'[t] # messagePc[t]
                                           THEN [c EXCEPT !.agent = "self"] ELSE context[t]]
      BY <1>5 DEF MessageHandOver
    <2>3. Typed'
      <3>1. [c EXCEPT !.agent = "self"] \in Contexts
        BY <2>2, LeftoversAssumption DEF Contexts, Agents
      <3>2. context' \in [Threads -> Contexts]
        BY <1>3, <2>2, <3>1 DEF Typed
      <3> QED  BY <1>3, <2>1, <3>2 DEF Typed
    <2>4. HolderRuns'
      BY <1>2, <1>3, <2>1, <2>2 DEF HolderRuns, OneTaskEach
    <2>5. (SocketWaits' <=> SocketWaits) /\ (MessageWaits' <=> MessageWaits)
      BY <2>1 DEF SocketWaits, MessageWaits
    <2> QED  BY <1>1, <1>3, <2>1, <2>3, <2>4, <2>5 DEF IInv, RanSocket, RanMessage, Behind
  <1>6. ASSUME NEW t \in Threads, SocketLoop(t) PROVE IInv'
    <2>1. /\ UNCHANGED <<monitor, ran, messagePc, messageStarted>>
          /\ socketPc[t] \in {"hasMore", "exit"}
          /\ \A u \in Threads \ {t} : socketPc'[u] = socketPc[u]
          /\ context' = context \/ context' = [context EXCEPT ![t] = Blank]
      BY <1>2, <1>6
         DEF SocketLoop, Socket!TakeFirst, Socket!NoMore, Socket!Exit, messageVars, Released
    <2>2. messagePc[t] = "idle" /\ monitor # <<"socket", t>> /\ monitor # <<"message", t>>
      BY <1>3, <2>1 DEF OneTaskEach, HolderRuns
    <2>3. Typed' /\ OneTaskEach' /\ HolderRuns'
      <3>1. Typed'
        BY <1>3, <2>1, BlankContext DEF Typed
      <3>2. OneTaskEach'
        BY <1>3, <2>1, <2>2 DEF OneTaskEach
      <3>3. \A u \in Threads \ {t} : context'[u] = context[u]
        BY <1>3, <2>1 DEF Typed
      <3>4. monitor' # <<"socket", t>> /\ monitor' # <<"message", t>>
        BY <2>1, <2>2
      <3> QED  BY <1>3, <2>1, <3>1, <3>2, <3>3, <3>4 DEF HolderRuns
    <2>4. RanMessage'
      BY <1>3, <2>1 DEF RanMessage, MessageWaits, Behind
    <2>5. CASE Socket!TakeFirst(t)
      <3>1. /\ socketPc'[t] = "run" /\ socketPc[t] = "hasMore"
            /\ socketStarted' = Append(socketStarted, Head(socketQ)) /\ socketQ # << >>
        BY <1>2, <2>5 DEF Socket!TakeFirst
      <3>2. ~SocketWaits /\ SocketWaits'
        BY <1>2, <2>1, <2>2, <3>1 DEF SocketWaits
      <3>3. Head(socketQ) \in Runnables
        BY <1>2, <3>1
      <3> QED  BY <1>1, <1>3, <2>1, <2>3, <2>4, <3>1, <3>2, <3>3 DEF IInv, RanSocket, Behind
    <2>6. CASE Socket!NoMore(t) \/ Socket!Exit(t)
      <3>1. socketPc[t] # "run" /\ socketPc'[t] # "run" /\ UNCHANGED socketStarted
        BY <1>2, <2>6 DEF Socket!NoMore, Socket!Exit
      <3>2. SocketWaits' <=> SocketWaits
        BY <2>1, <3>1 DEF SocketWaits
      <3> QED  BY <1>1, <1>3, <2>1, <2>3, <2>4, <3>1, <3>2 DEF IInv, RanSocket, Behind
    <2> QED  BY <1>6, <2>5, <2>6 DEF SocketLoop
  <1>7. ASSUME NEW t \in Threads, MessageLoop(t) PROVE IInv'
    <2>1. /\ UNCHANGED <<monitor, ran, socketPc, socketStarted>>
          /\ messagePc[t] \in {"hasMore", "exit"}
          /\ \A u \in Threads \ {t} : messagePc'[u] = messagePc[u]
          /\ context' = context \/ context' = [context EXCEPT ![t] = Blank]
      BY <1>2, <1>7
         DEF MessageLoop, Message!TakeFirst, Message!NoMore, Message!Exit, socketVars, Released
    <2>2. socketPc[t] = "idle" /\ monitor # <<"socket", t>> /\ monitor # <<"message", t>>
      BY <1>3, <2>1 DEF OneTaskEach, HolderRuns
    <2>3. Typed' /\ OneTaskEach' /\ HolderRuns'
      <3>1. Typed'
        BY <1>3, <2>1, BlankContext DEF Typed
      <3>2. OneTaskEach'
        BY <1>3, <2>1, <2>2 DEF OneTaskEach
      <3>3. \A u \in Threads \ {t} : context'[u] = context[u]
        BY <1>3, <2>1 DEF Typed
      <3>4. monitor' # <<"socket", t>> /\ monitor' # <<"message", t>>
        BY <2>1, <2>2
      <3> QED  BY <1>3, <2>1, <3>1, <3>2, <3>3, <3>4 DEF HolderRuns
    <2>4. RanSocket'
      BY <1>3, <2>1 DEF RanSocket, SocketWaits, Behind
    <2>5. CASE Message!TakeFirst(t)
      <3>1. /\ messagePc'[t] = "run" /\ messagePc[t] = "hasMore"
            /\ messageStarted' = Append(messageStarted, Head(messageQ)) /\ messageQ # << >>
        BY <1>2, <2>5 DEF Message!TakeFirst
      <3>2. ~MessageWaits /\ MessageWaits'
        BY <1>2, <2>1, <2>2, <3>1 DEF MessageWaits
      <3>3. Head(messageQ) \in Runnables
        BY <1>2, <3>1
      <3> QED  BY <1>1, <1>3, <2>1, <2>3, <2>4, <3>1, <3>2, <3>3 DEF IInv, RanMessage, Behind
    <2>6. CASE Message!NoMore(t) \/ Message!Exit(t)
      <3>1. messagePc[t] # "run" /\ messagePc'[t] # "run" /\ UNCHANGED messageStarted
        BY <1>2, <2>6 DEF Message!NoMore, Message!Exit
      <3>2. MessageWaits' <=> MessageWaits
        BY <2>1, <3>1 DEF MessageWaits
      <3> QED  BY <1>1, <1>3, <2>1, <2>3, <2>4, <3>1, <3>2 DEF IInv, RanMessage, Behind
    <2> QED  BY <1>7, <2>5, <2>6 DEF MessageLoop
  <1>8. ASSUME NEW t \in Threads, EnterSocket(t) PROVE IInv'
    <2>1. /\ socketPc[t] = "run" /\ monitor = Free /\ monitor' = <<"socket", t>>
          /\ ran' = [ran EXCEPT !.socket = Append(@, Last(socketStarted))]
          /\ context' = [context EXCEPT ![t].agent = "self"]
          /\ UNCHANGED <<socketPc, socketStarted, messagePc, messageStarted>>
      BY <1>8 DEF EnterSocket, socketVars, messageVars
    <2>2. OneTaskEach' /\ HolderRuns'
      BY <1>2, <1>3, <2>1 DEF Typed, Contexts, Agents, OneTaskEach, HolderRuns
    <2>3. SocketWaits /\ ~SocketWaits' /\ (MessageWaits' <=> MessageWaits)
      BY <1>2, <1>3, <2>1 DEF SocketWaits, MessageWaits
    <2>4. PICK m \in Runnables :
             socketStarted = Append(ran.socket, m) /\ ran.socket \in Seq(Runnables)
      BY <1>3, <2>3 DEF RanSocket, Behind
    <2>5. Append(ran.socket, Last(socketStarted)) = socketStarted
      BY <2>4, AheadByOne
    <2>6. ran'.socket = socketStarted /\ ran'.message = ran.message
      BY <1>3, <2>1, <2>5 DEF Typed
    <2>7. Typed'
      <3>1. ran' \in [socket : Seq(Runnables), message : Seq(Runnables)]
        BY <1>2, <1>3, <2>1, <2>5 DEF Typed
      <3>2. context' \in [Threads -> Contexts]
        BY <1>3, <2>1 DEF Typed, Contexts, Agents
      <3> QED  BY <2>1, <3>1, <3>2 DEF Typed
    <2> QED  BY <1>1, <1>2, <1>3, <2>1, <2>2, <2>3, <2>6, <2>7
             DEF IInv, RanSocket, RanMessage, Behind
  <1>9. ASSUME NEW t \in Threads, EnterMessage(t) PROVE IInv'
    <2>1. /\ messagePc[t] = "run" /\ monitor = Free /\ monitor' = <<"message", t>>
          /\ ran' = [ran EXCEPT !.message = Append(@, Last(messageStarted))]
          /\ context' = [context EXCEPT ![t] = [agent |-> "self", channel |-> TRUE]]
          /\ UNCHANGED <<socketPc, socketStarted, messagePc, messageStarted>>
      BY <1>9 DEF EnterMessage, socketVars, messageVars
    <2>2. OneTaskEach' /\ HolderRuns'
      BY <1>2, <1>3, <2>1 DEF Typed, Contexts, Agents, OneTaskEach, HolderRuns
    <2>3. MessageWaits /\ ~MessageWaits' /\ (SocketWaits' <=> SocketWaits)
      BY <1>2, <1>3, <2>1 DEF SocketWaits, MessageWaits
    <2>4. PICK m \in Runnables :
             messageStarted = Append(ran.message, m) /\ ran.message \in Seq(Runnables)
      BY <1>3, <2>3 DEF RanMessage, Behind
    <2>5. Append(ran.message, Last(messageStarted)) = messageStarted
      BY <2>4, AheadByOne
    <2>6. ran'.message = messageStarted /\ ran'.socket = ran.socket
      BY <1>3, <2>1, <2>5 DEF Typed
    <2>7. Typed'
      <3>1. ran' \in [socket : Seq(Runnables), message : Seq(Runnables)]
        BY <1>2, <1>3, <2>1, <2>5 DEF Typed
      <3>2. context' \in [Threads -> Contexts]
        BY <1>3, <2>1 DEF Typed, Contexts, Agents
      <3> QED  BY <2>1, <3>1, <3>2 DEF Typed
    <2> QED  BY <1>1, <1>2, <1>3, <2>1, <2>2, <2>3, <2>6, <2>7
             DEF IInv, RanSocket, RanMessage, Behind
  <1>10. ASSUME NEW t \in Threads, LeaveSocket(t) PROVE IInv'
    <2>1. /\ socketPc[t] = "run" /\ monitor = <<"socket", t>> /\ monitor' = Free
          /\ socketPc'[t] \in {"hasMore", "idle"}
          /\ \A u \in Threads \ {t} : socketPc'[u] = socketPc[u]
          /\ \/ context' = context \/ context' = [context EXCEPT ![t] = Blank]
             \/ context' = [context EXCEPT ![t].agent = "none"]
          /\ UNCHANGED <<ran, socketStarted, messagePc, messageStarted>>
      BY <1>2, <1>10
         DEF LeaveSocket, Socket!Loop, Socket!Escape, Cleared, Released, messageVars
    <2>2. Typed' /\ OneTaskEach' /\ HolderRuns'
      <3>1. context' \in [Threads -> Contexts]
        <4>1. [context[t] EXCEPT !.agent = "none"] \in Contexts
          BY <1>3 DEF Typed, Contexts, Agents
        <4> QED  BY <1>3, <2>1, <4>1, BlankContext DEF Typed
      <3>2. Typed'
        BY <1>3, <2>1, <3>1 DEF Typed
      <3>3. OneTaskEach'
        BY <1>3, <2>1 DEF OneTaskEach
      <3>4. HolderRuns'
        BY <1>3, <2>1 DEF HolderRuns
      <3> QED  BY <3>2, <3>3, <3>4
    <2>3. ~SocketWaits /\ ~SocketWaits' /\ (MessageWaits' <=> MessageWaits)
      BY <1>2, <1>3, <2>1 DEF SocketWaits, MessageWaits
    <2> QED  BY <1>1, <1>3, <2>1, <2>2, <2>3 DEF IInv, RanSocket, RanMessage, Behind
  <1>11. ASSUME NEW t \in Threads, LeaveMessage(t) PROVE IInv'
    <2>1. /\ messagePc[t] = "run" /\ monitor = <<"message", t>> /\ monitor' = Free
          /\ messagePc'[t] \in {"hasMore", "idle"}
          /\ \A u \in Threads \ {t} : messagePc'[u] = messagePc[u]
          /\ context' = context \/ context' = [context EXCEPT ![t] = Blank]
          /\ UNCHANGED <<ran, socketStarted, socketPc, messageStarted>>
      BY <1>2, <1>11 DEF LeaveMessage, Message!Loop, Message!Escape, Released, socketVars
    <2>2. Typed' /\ OneTaskEach' /\ HolderRuns'
      <3>1. context' \in [Threads -> Contexts]
        BY <1>3, <2>1, BlankContext DEF Typed, Contexts, Agents
      <3>2. Typed'
        BY <1>3, <2>1, <3>1 DEF Typed
      <3>3. OneTaskEach'
        BY <1>3, <2>1 DEF OneTaskEach
      <3>4. HolderRuns'
        BY <1>3, <2>1 DEF HolderRuns
      <3> QED  BY <3>2, <3>3, <3>4
    <2>3. ~MessageWaits /\ ~MessageWaits' /\ (SocketWaits' <=> SocketWaits)
      BY <1>2, <1>3, <2>1 DEF SocketWaits, MessageWaits
    <2> QED  BY <1>1, <1>3, <2>1, <2>2, <2>3 DEF IInv, RanSocket, RanMessage, Behind
  <1>12. CASE UNCHANGED vars
    <2>1. UNCHANGED <<monitor, ran, context, socketPc, socketStarted, messagePc, messageStarted>>
      BY <1>12 DEF vars, socketVars, messageVars
    <2>2. /\ Typed' /\ OneTaskEach' /\ HolderRuns'
          /\ (SocketWaits' <=> SocketWaits) /\ (MessageWaits' <=> MessageWaits)
      BY <1>3, <2>1 DEF Typed, OneTaskEach, HolderRuns, SocketWaits, MessageWaits
    <2> QED  BY <1>1, <1>3, <2>1, <2>2 DEF IInv, RanSocket, RanMessage, Behind
  <1> QED
    BY <1>4, <1>5, <1>6, <1>7, <1>8, <1>9, <1>10, <1>11, <1>12 DEF Next, Rest

(* In every reachable state both queues keep their invariants, a thread    *)
(* works on one task, the holder of the monitor runs a message in the      *)
(* context set for it, and no message is skipped or run twice.             *)
THEOREM Invariance == Spec => []IInv
  BY InitIInv, NextIInv, PTL DEF Spec

(* The variables have their types in every reachable state.                *)
THEOREM TypeCorrect == Spec => []TypeOK
  <1>1. IInv => TypeOK
    <2> SUFFICES ASSUME IInv PROVE TypeOK
      OBVIOUS
    <2> QED  BY SocketFacts, MessageFacts DEF IInv, QueuesOK, Typed, TypeOK
  <1> QED  BY <1>1, Invariance, PTL

(* While a message of the session runs, its thread says that it acts for   *)
(* the session, and a message brought by a subscription finds its channel, *)
(* whatever context the thread came with and however earlier messages      *)
(* ended.                                                                  *)
THEOREM ActsForItself == Spec => []ActsForItsSession
  <1>1. IInv => ActsForItsSession
    BY DEF IInv, Typed, HolderRuns, ActsForItsSession
  <1> QED  BY <1>1, Invariance, PTL

(* What ran is what was submitted up to what was handed out, the last one  *)
(* perhaps not.                                                            *)
LEMMA PrefixRan ==
    ASSUME NEW done, NEW started \in Seq(Runnables), NEW waits, Behind(done, started, waits),
           NEW q \in Seq(Runnables), NEW submitted, submitted = started \o q
    PROVE  \E n \in {0, 1} : done = SubSeq(submitted, 1, Len(started) - n)
  <1>1. done \in Seq(Runnables) /\ submitted \in Seq(Runnables)
    BY DEF Behind
  <1>2. CASE started = done
    <2>1. done = SubSeq(submitted, 1, Len(started) - 0)
      BY <1>1, <1>2
    <2> QED  BY <2>1
  <1>3. ASSUME NEW m \in Runnables, started = Append(done, m)
        PROVE  done = SubSeq(submitted, 1, Len(started) - 1)
    BY <1>1, <1>3
  <1> QED  BY <1>2, <1>3 DEF Behind

(* The messages of each queue run in the order they came, once each, with  *)
(* the two queues blocked against each other by the monitor and any of     *)
(* their messages ending in an exception or an Error.                      *)
THEOREM QueuesInOrder == Spec => []EachQueueInOrder
  <1>1. IInv => EachQueueInOrder
    <2> SUFFICES ASSUME IInv PROVE EachQueueInOrder
      OBVIOUS
    <2>1. /\ socketStarted \in Seq(Runnables) /\ messageStarted \in Seq(Runnables)
          /\ socketQ \in Seq(Runnables) /\ messageQ \in Seq(Runnables)
          /\ socketSubmitted = socketStarted \o socketQ
          /\ messageSubmitted = messageStarted \o messageQ
      BY SocketFacts, MessageFacts DEF IInv, QueuesOK, Socket!TypeOK, Message!TypeOK
    <2>2. \E n \in {0, 1} : ran.socket = SubSeq(socketSubmitted, 1, Len(socketStarted) - n)
      BY <2>1, PrefixRan DEF IInv, RanSocket
    <2>3. \E n \in {0, 1} : ran.message = SubSeq(messageSubmitted, 1, Len(messageStarted) - n)
      BY <2>1, PrefixRan DEF IInv, RanMessage
    <2> QED  BY <2>2, <2>3 DEF EachQueueInOrder
  <1> QED  BY <1>1, Invariance, PTL

(* Seen by itself each queue of a session is a RunnablesQueue: blocking    *)
(* one against the other lets neither do anything a queue alone could not. *)
THEOREM QueuesAreQueues == Spec => Socket!Spec /\ Message!Spec
  <1>1. Init => Socket!Init /\ Message!Init
    BY DEF Init
  <1>2. IInv /\ [Next]_vars => [Socket!Next]_socketVars /\ [Message!Next]_messageVars
    BY QueuesStep DEF IInv
  <1>3. [Socket!Next]_socketVars => [Socket!Next]_(Socket!vars)
    BY DEF Socket!vars, socketVars
  <1>4. [Message!Next]_messageVars => [Message!Next]_(Message!vars)
    BY DEF Message!vars, messageVars
  <1> QED  BY <1>1, <1>2, <1>3, <1>4, Invariance, PTL DEF Spec, Socket!Spec, Message!Spec
=============================================================================
