--------------------------- MODULE SessionLifecycle ---------------------------
(***************************************************************************)
(* One WebSocket connection of a server and the SessionAgents made for it: *)
(* Global.almost_private_EnsureSessionAgent and executeChannelMessage, the *)
(* callback they register with the TimeoutCache, the renewal in            *)
(* SessionAgent.runSocketMessage and the close frame in                    *)
(* MyWebSocketServerHandler.                                               *)
(*                                                                         *)
(* Three kinds of thread meet here and share no lock.  The netty I/O       *)
(* thread of the connection handles its frames one after the other and     *)
(* finds the session through the attribute "session" of the connection.    *)
(* Tasks of the pool run the messages of a session, one at a time (see     *)
(* RunnablesQueue).  The timer thread (see TimeoutCache) takes a session    *)
(* out of its set and starts a task that runs its callback.  Two callbacks  *)
(* of one session do the same and are taken one after the other.           *)
(***************************************************************************)
EXTENDS Integers, FiniteSets

CONSTANTS Sessions,     \* the SessionAgents that can be made
          Ttl,          \* sessionTtl
          RenewAfter,   \* the time between two renewals, ten seconds in the code
          MaxTime,      \* bound: the clock stops here
          MaxFrames     \* bound: text frames the client sends

ASSUME TimesAssumption == /\ Ttl \in Nat /\ RenewAfter \in Nat
                          /\ MaxTime \in Nat /\ MaxFrames \in Nat

None == "none"
ASSUME SessionsAssumption == None \notin Sessions

VARIABLES now,          \* System.currentTimeMillis()
          open,         \* the connection is open at the server
          bye,          \* history: the client's close frame has been seen
          attr,         \* the attribute "session" of the connection
          ioPc,         \* where the I/O thread is
          ioSession,    \* its local sessionAgent
          born,         \* sessions that have been constructed
          cached,       \* sessions the timeoutCache holds
          armed,        \* sessions the timer waits for
          expires,      \* when
          next10sec,    \* SessionAgent.next10sec
          waiting,      \* number of messages in socketMessageQ
          place,        \* where each session is in runSocketMessage
          timerPc,      \* where the timer thread is
          callback,     \* where the callback of each session is
          subscribed,   \* sessions with subscriptions
          lastRun,      \* history: when each session last ran a message
          frames,       \* history: text frames so far
          lost          \* history: text frames answered by an error

ioVars == <<ioPc, ioSession>>
cacheVars == <<cached, armed, expires>>
agentVars == <<born, next10sec, waiting, place, lastRun>>
clientVars == <<bye, frames>>
vars == <<now, open, attr, ioVars, cacheVars, agentVars, timerPc, callback, subscribed,
          clientVars, lost>>

Init == /\ now = 0
        /\ open = TRUE /\ bye = FALSE
        /\ attr = None
        /\ ioPc = "idle" /\ ioSession = None
        /\ born = {} /\ cached = {} /\ armed = {} /\ subscribed = {}
        /\ expires = [s \in Sessions |-> 0]
        /\ next10sec = [s \in Sessions |-> 0]
        /\ waiting = [s \in Sessions |-> 0]
        /\ place = [s \in Sessions |-> "out"]
        /\ timerPc = "idle"
        /\ callback = [s \in Sessions |-> "none"]
        /\ lastRun = [s \in Sessions |-> 0]
        /\ frames = 0 /\ lost = 0

Busy == \/ ioPc # "idle"
        \/ \E s \in Sessions : waiting[s] > 0 \/ place[s] # "out" \/ callback[s] # "none"
        \/ timerPc = "poll"
        \/ timerPc = "idle" /\ \E s \in armed : expires[s] <= now

Tick == /\ now < MaxTime
        /\ now' = now + 1
        /\ UNCHANGED <<open, attr, ioVars, cacheVars, agentVars, timerPc, callback, subscribed,
                       clientVars, lost>>

(* timeoutCache.setTtl(s, ttl), which does nothing for a key not cached.   *)
SetTtl(s, ttl) == /\ armed' = armed \cup ({s} \cap cached)
                  /\ expires' = [expires EXCEPT ![s] = IF s \in cached THEN now + ttl ELSE @]
                  /\ UNCHANGED cached

-------------------------------------------------------------------------------
(* The I/O thread: a text frame *)

IoAt(here, next) == ioPc = here /\ ioPc' = next
IoFrame == UNCHANGED <<now, open, agentVars, timerPc, callback, clientVars>>

(* handleWebSocketFrame -> executeChannelMessage: is there a session?      *)
TextFrame == /\ open /\ frames < MaxFrames /\ (attr = None => born # Sessions)
             /\ frames' = frames + 1
             /\ IoAt("idle", IF attr = None THEN "create" ELSE "get again")
             /\ UNCHANGED <<now, open, bye, attr, ioSession, cacheVars, agentVars, timerPc, callback,
                            subscribed, lost>>

(* new SessionAgent(...): the Agent constructor subscribes to the own key. *)
Create(s) == /\ IoAt("create", "set")
             /\ s \notin born
             /\ born' = born \cup {s}
             /\ ioSession' = s
             /\ next10sec' = [next10sec EXCEPT ![s] = now + RenewAfter]
             /\ lastRun' = [lastRun EXCEPT ![s] = now]
             /\ subscribed' = subscribed \cup {s}
             /\ UNCHANGED <<now, open, attr, cacheVars, waiting, place, timerPc, callback,
                            clientVars, lost>>

SetAttr == /\ IoAt("set", "put")
           /\ attr' = ioSession
           /\ UNCHANGED <<ioSession, cacheVars, subscribed, lost>> /\ IoFrame

(* A mistake for the mutants: the session is cached without a time.        *)
UntimedPut == /\ IoAt("put", "enqueue")
              /\ cached' = cached \cup {ioSession}
              /\ UNCHANGED <<armed, expires, attr, ioSession, subscribed, lost>> /\ IoFrame

PutSession == /\ IoAt("put", "enqueue")
              /\ cached' = cached \cup {ioSession}
              /\ armed' = armed \cup {ioSession}
              /\ expires' = [expires EXCEPT ![ioSession] = now + Ttl]
              /\ UNCHANGED <<attr, ioSession, subscribed, lost>> /\ IoFrame

(* The attribute is read once more for its value.  The key null makes the  *)
(* cache throw a NullPointerException; the client is told of an error.     *)
GetAgain == /\ ioPc = "get again"
            /\ IF attr = None
                 THEN ioPc' = "idle" /\ lost' = lost + 1 /\ UNCHANGED ioSession
                 ELSE ioPc' = "lookup" /\ ioSession' = attr /\ UNCHANGED lost
            /\ UNCHANGED <<attr, cacheVars, subscribed>> /\ IoFrame

(* timeoutCache.get: null makes the next line throw.                       *)
Lookup == /\ ioPc = "lookup"
          /\ IF ioSession \in cached
               THEN ioPc' = "enqueue" /\ UNCHANGED lost
               ELSE ioPc' = "idle" /\ lost' = lost + 1
          /\ UNCHANGED <<attr, ioSession, cacheVars, subscribed>> /\ IoFrame

(* sessionAgent.socketMessageQ.run(new CtxWrapper(message))                *)
Enqueue == /\ IoAt("enqueue", "idle")
           /\ waiting' = [waiting EXCEPT ![ioSession] = @ + 1]
           /\ ioSession' = None
           /\ UNCHANGED <<now, open, attr, cacheVars, born, next10sec, place, lastRun, timerPc,
                          callback, subscribed, clientVars, lost>>

(* The I/O thread: a close frame, or the connection drops *)

CloseFrame == /\ open
              /\ bye' = TRUE
              /\ IoAt("idle", IF attr = None THEN "close" ELSE "close again")
              /\ UNCHANGED <<now, open, attr, ioSession, cacheVars, agentVars, timerPc, callback,
                             subscribed, frames, lost>>

(* setTtl(attribute, 0); for null an exception, upon which the connection  *)
(* is closed as well.                                                      *)
CloseAgain == /\ IoAt("close again", "close")
              /\ IF attr = None THEN UNCHANGED cacheVars ELSE SetTtl(attr, 0)
              /\ UNCHANGED <<attr, ioSession, subscribed, lost>> /\ IoFrame

Shut == /\ IoAt("close", "idle")
        /\ open' = FALSE
        /\ UNCHANGED <<now, attr, ioSession, cacheVars, agentVars, timerPc, callback, subscribed,
                       clientVars, lost>>

Drop == /\ open /\ ioPc = "idle"
        /\ open' = FALSE
        /\ UNCHANGED <<now, attr, ioVars, cacheVars, agentVars, timerPc, callback, subscribed,
                       clientVars, lost>>

IoThread == \/ SetAttr \/ PutSession \/ GetAgain \/ Lookup \/ Enqueue \/ CloseAgain \/ Shut
            \/ \E s \in Sessions : Create(s)

-------------------------------------------------------------------------------
(* Tasks of the pool: runSocketMessage, under the monitor of the session.  *)
(* The timer thread does not take that monitor.                            *)

MessageFrame == UNCHANGED <<now, open, attr, ioVars, born, timerPc, callback, clientVars, lost>>

(* A message is taken and the time read: is a renewal due?                 *)
StartMessage(s) ==
    /\ waiting[s] > 0 /\ place[s] = "out"
    /\ waiting' = [waiting EXCEPT ![s] = @ - 1]
    /\ lastRun' = [lastRun EXCEPT ![s] = now]
    /\ IF now > next10sec[s]
         THEN /\ next10sec' = [next10sec EXCEPT ![s] = now + RenewAfter]
              /\ place' = [place EXCEPT ![s] = "isOpen"]
         ELSE /\ place' = [place EXCEPT ![s] = "run"]
              /\ UNCHANGED next10sec
    /\ UNCHANGED <<cacheVars, subscribed>> /\ MessageFrame

(* A mistake for the mutants: only closed connections are renewed.         *)
IsClosed(s) ==
    /\ place[s] = "isOpen"
    /\ place' = [place EXCEPT ![s] = IF open THEN "run" ELSE "renew"]
    /\ UNCHANGED <<cacheVars, waiting, next10sec, lastRun, subscribed>> /\ MessageFrame

(* ctx.channel().isOpen(): a closed connection is not renewed.             *)
IsOpen(s) ==
    /\ place[s] = "isOpen"
    /\ place' = [place EXCEPT ![s] = IF open THEN "renew" ELSE "run"]
    /\ UNCHANGED <<cacheVars, waiting, next10sec, lastRun, subscribed>> /\ MessageFrame

Renew(s) ==
    /\ place[s] = "renew"
    /\ place' = [place EXCEPT ![s] = "run"]
    /\ SetTtl(s, Ttl)
    /\ UNCHANGED <<waiting, next10sec, lastRun, subscribed>> /\ MessageFrame

(* message.run(), which may subscribe the session to something.            *)
RunMessage(s) ==
    /\ place[s] = "run"
    /\ place' = [place EXCEPT ![s] = "out"]
    /\ subscribed' \in {subscribed, subscribed \cup {s}}
    /\ UNCHANGED <<cacheVars, waiting, next10sec, lastRun>> /\ MessageFrame

-------------------------------------------------------------------------------
(* The timer thread and the task it starts *)

TimerFrame == UNCHANGED <<now, open, attr, ioVars, cached, expires, agentVars, subscribed,
                          clientVars, lost>>

(* The timer finds, without the monitor of the cache, that a time is up.   *)
TimerLooks == /\ timerPc = "idle"
              /\ \E s \in armed : expires[s] <= now
              /\ timerPc' = "poll"
              /\ UNCHANGED <<armed, callback>> /\ TimerFrame

(* It may die of looking while any session of the server is put or renewed. *)
TimerDies == /\ timerPc = "idle"
             /\ timerPc' = "dead"
             /\ UNCHANGED <<armed, callback>> /\ TimerFrame

(* It takes whatever is first by now, due or not, and starts its callback. *)
Expire(s) == /\ timerPc = "poll"
             /\ timerPc' = "idle"
             /\ s \in armed /\ \A z \in armed : expires[s] <= expires[z]
             /\ callback[s] = "none"
             /\ armed' = armed \ {s}
             /\ callback' = [callback EXCEPT ![s] = "unsubscribe"]
             /\ TimerFrame

Timer == TimerLooks \/ \E s \in Sessions : Expire(s)

CallbackAt(s, here, next) == callback[s] = here /\ callback' = [callback EXCEPT ![s] = next]

(* unsubscribeAgent(sessionAgent)                                          *)
CallbackUnsubscribes(s) ==
    /\ CallbackAt(s, "unsubscribe", "clear")
    /\ subscribed' = subscribed \ {s}
    /\ UNCHANGED <<now, open, attr, ioVars, cacheVars, agentVars, timerPc, clientVars, lost>>

(* sessionStringAttribute.set(null), whatever it holds by now; the close   *)
(* frame written next is for the client to answer (CloseFrame).            *)
CallbackClearsAttr(s) ==
    /\ CallbackAt(s, "clear", "invalidate")
    /\ attr' = None
    /\ UNCHANGED <<now, open, ioVars, cacheVars, agentVars, timerPc, subscribed, clientVars, lost>>

(* A mistake, of a kind: what invalidate was meant to do.                  *)
InvalidateKey(s) ==
    /\ CallbackAt(s, "invalidate", "none")
    /\ cached' = IF expires[s] <= now THEN cached \ {s} ELSE cached
    /\ UNCHANGED <<now, open, attr, ioVars, armed, expires, agentVars, timerPc, subscribed,
                   clientVars, lost>>

(* Back in the task of the timer: invalidate(TimedKey) removes nothing.    *)
Invalidate(s) ==
    /\ CallbackAt(s, "invalidate", "none")
    /\ UNCHANGED <<now, open, attr, ioVars, cacheVars, agentVars, timerPc, subscribed,
                   clientVars, lost>>

Pool(s) == \/ StartMessage(s) \/ IsOpen(s) \/ Renew(s) \/ RunMessage(s)
           \/ CallbackUnsubscribes(s) \/ CallbackClearsAttr(s) \/ Invalidate(s)

Rest == ~Busy /\ UNCHANGED vars

Next == \/ Tick \/ TextFrame \/ CloseFrame \/ Drop \/ IoThread \/ Timer \/ TimerDies \/ Rest
        \/ \E s \in Sessions : Pool(s)

(* Time passes, every thread with work goes on, and the timer works while  *)
(* it lives.                                                               *)
Fairness == /\ WF_vars(Tick)
            /\ WF_vars(IoThread)
            /\ WF_vars(Timer)
            /\ \A s \in Sessions : WF_vars(Pool(s))

Spec == Init /\ [][Next]_vars
FairSpec == Spec /\ Fairness

-------------------------------------------------------------------------------
TypeOK == /\ now \in 0..MaxTime
          /\ open \in BOOLEAN /\ bye \in BOOLEAN
          /\ attr \in born \cup {None}
          /\ ioPc \in {"idle", "create", "set", "put", "get again", "lookup", "enqueue",
                      "close again", "close"}
          /\ ioSession \in born \cup {None}
          /\ born \subseteq Sessions
          /\ cached \subseteq born /\ armed \subseteq cached /\ subscribed \subseteq born
          /\ expires \in [Sessions -> 0..(MaxTime + Ttl)]
          /\ next10sec \in [Sessions -> 0..(MaxTime + RenewAfter)]
          /\ waiting \in [Sessions -> 0..MaxFrames]
          /\ place \in [Sessions -> {"out", "isOpen", "renew", "run"}]
          /\ timerPc \in {"idle", "poll", "dead"}
          /\ callback \in [Sessions -> {"none", "unsubscribe", "clear", "invalidate"}]
          /\ lastRun \in [Sessions -> 0..MaxTime]
          /\ frames \in 0..MaxFrames /\ lost \in 0..MaxFrames

(* When the I/O thread asks the cache for the session of the attribute, it *)
(* gets one, even if the session's time runs out in between.  (It does so  *)
(* because nothing ever leaves the cache.)                                 *)
LookupFindsSession == ioPc = "lookup" => ioSession \in cached

(* The session that frames go to is one whose end is in sight: it is in    *)
(* the set of the timer, or its callback is on its way to clear the        *)
(* attribute.  No interleaving of frames, renewals and expiries of earlier *)
(* sessions makes a connection cling to a session nobody waits for.        *)
SessionIsWatched ==
    attr # None /\ ioPc # "put" => attr \in armed \/ callback[attr] \in {"unsubscribe", "clear"}

(* Renewing at most once every RenewAfter is enough: outside the renewal   *)
(* itself, the time of a session on an open connection is not up before    *)
(* Ttl - RenewAfter after its last message, whatever the close frames, the *)
(* expiries and the renewals of other sessions do in between.  (This is    *)
(* about the time that is set; KeptAlive below is about the timer.)        *)
RenewalsKeepUp ==
    open /\ ~bye => \A s \in cached : place[s] \in {"out", "run"}
                                         => expires[s] >= lastRun[s] + Ttl - RenewAfter

(* Every session that is made has its callback called, which ends the      *)
(* subscriptions it has then, unless it is renewed up to the end of the    *)
(* behaviour or the timer thread has died.                                 *)
EverySessionEnds ==
    \A s \in Sessions : (ioPc = "put" /\ ioSession = s)
        ~> (callback[s] = "unsubscribe" \/ expires[s] > MaxTime \/ timerPc = "dead")

-------------------------------------------------------------------------------
(* What comments of SessionAgent say and the code does not do.             *)

(* "All the messages that the client sends pass through here."             *)
EveryFrameReachesASession == lost = 0

(* "Set ourselves so that we keep alive every 10 sec": a session that ran  *)
(* a message in the last Ttl - RenewAfter, and has been renewed if that    *)
(* was due, does not expire while its connection is open.                  *)
KeptAlive ==
    [][\A s \in Sessions :
         callback[s] = "none" /\ callback'[s] # "none" /\ open /\ ~bye
            /\ place[s] \in {"out", "run"}
            => now >= lastRun[s] + Ttl - RenewAfter]_vars
===============================================================================
