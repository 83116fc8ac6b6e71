----------------------------- MODULE TimeoutCache -----------------------------
(***************************************************************************)
(* org.gwems.util.TimeoutCache: a key/value cache whose entries carry an   *)
(* expiry time and callbacks, an ordered set of the entries' TimedKeys, a  *)
(* timer thread that moves due TimedKeys to the thread pool, and pool tasks *)
(* that run the callbacks.                                                 *)
(*                                                                         *)
(* put, setTtl and remove hold the monitor of the cache while they take a  *)
(* TimedKey out of the ordered set, change it and put it back.  The timer  *)
(* thread looks at the set and at `expires' WITHOUT the monitor and takes  *)
(* it only to remove the first element.  Each of its reads is one action   *)
(* here, and a synchronized block is split in two where such a read can    *)
(* tell the difference.                                                    *)
(*                                                                         *)
(* There is one TimedKey per key: the code makes a new one only when the   *)
(* key is not cached.  The cached values are left out (put stores and get  *)
(* returns them under the monitor); the callbacks of a key are a list, and *)
(* each is named by the ordinal of the call of put that registered it.     *)
(***************************************************************************)
EXTENDS Integers, FiniteSets, Sequences

CONSTANTS Keys,         \* the keys that may be put
          Callers,      \* threads that call put, setTtl and remove
          Workers,      \* tasks the pool can have alive at a time
          Ttls,         \* times to live that callers ask for
          CallbackLists, \* how many callbacks a call of put registers
          CallbacksMayThrow, \* whether callbacks may end in an exception
          MaxTime,      \* bound: the clock stops here
          MaxCalls      \* bound: calls of put, setTtl and remove in a behaviour

ASSUME BoundsAssumption == /\ MaxTime \in Nat
                           /\ MaxCalls \in Nat
                           /\ Ttls \subseteq 0..MaxTime
ASSUME CallbacksAssumption == CallbackLists \subseteq Nat /\ CallbacksMayThrow \in BOOLEAN

Threads == Callers \cup Workers
Nobody == "nobody"
NoKey == "no key"

ASSUME ThreadsAssumption == /\ Callers \cap Workers = {} /\ IsFiniteSet(Workers)
                            /\ Nobody \notin Threads
                            /\ NoKey \notin Keys

VARIABLES now,          \* System.currentTimeMillis()
          cached,       \* the keys the Guava cache holds
          expires,      \* TimedKey.expires of every key
          runners,      \* TimedKey.runners of every key, a list of callbacks
          timedQ,       \* the keys whose TimedKey is in the ordered set
          monitor,      \* who holds the monitor of the TimeoutCache
          running,      \* the flag stop() clears
          timerPc,      \* where the timer thread is
          timerNow,     \* its local `time', read once per wake-up
          head,         \* the TimedKey it holds
          pc,           \* where each caller and each pool task is
          holds,        \* the key each caller and each pool task works on
          taskNow,      \* the `time' a pool task was created with
          runList,      \* the copied callbacks a pool task has yet to finish
          calls,        \* history: calls of put, setTtl and remove so far
          armed,        \* history: how often each key was put into timedQ
          notified,     \* history: how often a task of each key ran callbacks
          silenced      \* history: callbacks taken out of a TimedKey

cacheVars == <<cached, expires, runners, timedQ, monitor>>
timerVars == <<timerPc, timerNow, head>>
threadVars == <<pc, holds, taskNow, runList>>
historyVars == <<calls, armed, notified, silenced>>
vars == <<now, running, cacheVars, timerVars, threadVars, historyVars>>

Init == /\ now = 0
        /\ cached = {}
        /\ expires = [k \in Keys |-> 0]
        /\ runners = [k \in Keys |-> <<>>]
        /\ timedQ = {}
        /\ monitor = Nobody
        /\ running = TRUE
        /\ timerPc = "sleep"
        /\ timerNow = 0
        /\ head = NoKey
        /\ pc = [t \in Threads |-> "idle"]
        /\ holds = [t \in Threads |-> NoKey]
        /\ taskNow = [w \in Workers |-> 0]
        /\ runList = [w \in Workers |-> <<>>]
        /\ calls = 0
        /\ armed = [k \in Keys |-> 0]
        /\ notified = [k \in Keys |-> 0]
        /\ silenced = {}

Tick == /\ now < MaxTime
        /\ now' = now + 1
        /\ UNCHANGED <<running, cacheVars, timerVars, threadVars, historyVars>>

-------------------------------------------------------------------------------
(* put, setTtl, remove: the first half of the synchronized block.  Thread t *)
(* takes the TimedKey of k out of the ordered set and rewrites it.         *)
Retime(t, k, newExpires, newRunners) ==
    /\ monitor = Nobody
    /\ monitor' = t
    /\ timedQ' = timedQ \ {k}
    /\ expires' = [expires EXCEPT ![k] = newExpires]
    /\ runners' = [runners EXCEPT ![k] = newRunners]
    /\ holds' = [holds EXCEPT ![t] = k]
    /\ calls' = calls + 1

(* The second half: the TimedKey goes back into the set, the monitor is free. *)
Reinsert(t, next) ==
    /\ monitor = t
    /\ monitor' = Nobody
    /\ timedQ' = timedQ \cup {holds[t]}
    /\ armed' = [armed EXCEPT ![holds[t]] = @ + 1]
    /\ pc' = [pc EXCEPT ![t] = next]
    /\ holds' = [holds EXCEPT ![t] = IF next = "idle" THEN NoKey ELSE @]
    /\ UNCHANGED <<now, running, cached, expires, runners, timerVars,
                   taskNow, runList, calls, notified, silenced>>

Calling(t, k) == /\ pc[t] = "idle"
                 /\ calls < MaxCalls
                 /\ pc' = [pc EXCEPT ![t] = "reinsert"]
                 /\ UNCHANGED <<now, running, timerVars, taskNow, runList, armed, notified>>

(* Guava's invalidate removes the entry whose key equals its argument.  The *)
(* keys are Strings and the argument is a TimedKey, which equals only      *)
(* TimedKeys.                                                              *)
TimedKey(k) == [timedKey |-> k]

Callbacks(list) == {list[i] : i \in 1..Len(list)}

(* put(key, value, ttl, callbacks...)                                      *)
Put(t, k, ttl) == /\ Calling(t, k)
                  /\ \E n \in CallbackLists :
                        Retime(t, k, now + ttl, [i \in 1..n |-> calls + 1])
                  /\ cached' = cached \cup {k}
                  /\ silenced' = silenced \cup Callbacks(runners[k])

(* setTtl(key, ttl): nothing happens unless the key is cached              *)
SetTtl(t, k, ttl) == /\ Calling(t, k)
                     /\ k \in cached
                     /\ Retime(t, k, now + ttl, runners[k])
                     /\ UNCHANGED <<cached, silenced>>

(* A mistake for the mutants: remove only makes the entry due.             *)
NoisyRemove(t, k) == /\ Calling(t, k)
                     /\ k \in cached
                     /\ Retime(t, k, now - 1, runners[k])
                     /\ silenced' = silenced \cup Callbacks(runners[k])
                     /\ UNCHANGED cached

(* A mistake for the mutants: remove takes the entry out of the set, as its *)
(* name says and the doubt in its comment suggests.                        *)
RemoveForGood(t, k) == /\ pc[t] = "idle"
                       /\ k \in cached
                       /\ calls < MaxCalls
                       /\ monitor = Nobody
                       /\ timedQ' = timedQ \ {k}
                       /\ calls' = calls + 1
                       /\ UNCHANGED <<now, running, cached, expires, runners, monitor, timerVars,
                                      threadVars, armed, notified, silenced>>

(* remove(key): the callbacks go and the entry is made due                 *)
Remove(t, k) == /\ Calling(t, k)
                /\ k \in cached
                /\ Retime(t, k, now - 1, <<>>)
                /\ silenced' = silenced \cup Callbacks(runners[k])
                /\ UNCHANGED cached

Return(t) == pc[t] = "reinsert" /\ Reinsert(t, "idle")

(* stop()                                                                  *)
Stop == /\ running
        /\ running' = FALSE
        /\ UNCHANGED <<now, cacheVars, timerVars, threadVars, historyVars>>

-------------------------------------------------------------------------------
(* The timer thread *)

TimerFrame == UNCHANGED <<now, running, threadVars, historyVars>>

(* A mistake for the mutants: the time is read once, when the thread starts. *)
WakeWithoutTime == /\ timerPc = "sleep"
                   /\ timerPc' = IF running THEN "size" ELSE "stopped"
                   /\ UNCHANGED <<cacheVars, timerNow, head>> /\ TimerFrame

(* After sleep(1): leave if stopped, else note the time once for the batch. *)
Wake == /\ timerPc = "sleep"
        /\ IF running
             THEN timerPc' = "size" /\ timerNow' = now
             ELSE timerPc' = "stopped" /\ UNCHANGED timerNow
        /\ UNCHANGED <<cacheVars, head>> /\ TimerFrame

(* timedQ.size() != 0, without the monitor                                 *)
ReadSize == /\ timerPc = "size"
            /\ timerPc' = IF timedQ = {} THEN "sleep" ELSE "first"
            /\ UNCHANGED <<cacheVars, timerNow, head>> /\ TimerFrame

(* What first() and pollFirst() may return: the order among equals is left open. *)
Earliest == {k \in timedQ : \A j \in timedQ : expires[k] <= expires[j]}

(* timedQ.first(), without the monitor.  While a thread restructures the   *)
(* tree it may return any element, the one being moved included, or throw: *)
(* it finds no root, or a left child that is gone when it reads it again.  *)
(* Nothing catches the exception, so the timer thread ends.                *)
ReadFirst == /\ timerPc = "first"
             /\ \/ /\ timerPc' = "compare"
                   /\ head' \in IF monitor = Nobody THEN Earliest
                                                    ELSE timedQ \cup {holds[monitor]}
                \/ /\ monitor # Nobody \/ timedQ = {}
                   /\ timerPc' = "dead"
                   /\ UNCHANGED head
             /\ UNCHANGED <<cacheVars, timerNow>> /\ TimerFrame

(* .expires <= time, without the monitor                                   *)
Compare == /\ timerPc = "compare"
           /\ timerPc' = IF expires[head] <= timerNow THEN "poll" ELSE "sleep"
           /\ head' = NoKey
           /\ UNCHANGED <<cacheVars, timerNow>> /\ TimerFrame

(* A mistake for the mutants: head = timedQ.first()                        *)
PeekFirst == /\ timerPc = "poll"
             /\ monitor = Nobody
             /\ head' \in IF timedQ = {} THEN {NoKey} ELSE Earliest
             /\ timerPc' = "dispatch"
             /\ UNCHANGED <<cached, expires, runners, timedQ, monitor, timerNow>>
             /\ TimerFrame

(* head = timedQ.pollFirst(), with the monitor: whatever is first now.     *)
PollFirst == /\ timerPc = "poll"
             /\ monitor = Nobody
             /\ head' \in IF timedQ = {} THEN {NoKey} ELSE Earliest
             /\ timedQ' = timedQ \ {head'}
             /\ timerPc' = "dispatch"
             /\ UNCHANGED <<cached, expires, runners, monitor, timerNow>>
             /\ TimerFrame

(* pool.execute(task): the pool grows as needed.  A task that was given no *)
(* TimedKey ends at once with a NullPointerException.                      *)
Dispatch == /\ timerPc = "dispatch"
            /\ timerPc' = "size"
            /\ head' = NoKey
            /\ IF head = NoKey
                 THEN UNCHANGED threadVars
                 ELSE \E w \in Workers :
                        /\ pc[w] = "idle"
                        /\ pc' = [pc EXCEPT ![w] = "copy"]
                        /\ holds' = [holds EXCEPT ![w] = head]
                        /\ taskNow' = [taskNow EXCEPT ![w] = timerNow]
                        /\ UNCHANGED runList
            /\ UNCHANGED <<now, running, cacheVars, timerNow, historyVars>>

Timer == Wake \/ ReadSize \/ ReadFirst \/ Compare \/ PollFirst \/ Dispatch

-------------------------------------------------------------------------------
(* A task of the pool *)

(* runList = new ArrayList(head.runners), with the monitor                 *)
CopyRunners(w) ==
    /\ pc[w] = "copy"
    /\ monitor = Nobody
    /\ runList' = [runList EXCEPT ![w] = runners[holds[w]]]
    /\ pc' = [pc EXCEPT ![w] = "call"]
    /\ notified' = [notified EXCEPT ![holds[w]] = IF runners[holds[w]] = <<>> THEN @ ELSE @ + 1]
    /\ UNCHANGED <<now, running, cacheVars, timerVars, holds, taskNow, calls, armed, silenced>>

TaskEnds(w) == /\ pc' = [pc EXCEPT ![w] = "idle"]
               /\ holds' = [holds EXCEPT ![w] = NoKey]
               /\ taskNow' = [taskNow EXCEPT ![w] = 0]

(* The next callback of the list returns, or throws and takes the later    *)
(* ones and the rest of the task along.                                    *)
CallbackEnds(w) ==
    /\ pc[w] = "call"
    /\ runList[w] # <<>>
    /\ \/ /\ runList' = [runList EXCEPT ![w] = Tail(@)]
          /\ UNCHANGED <<pc, holds, taskNow>>
       \/ /\ CallbacksMayThrow
          /\ runList' = [runList EXCEPT ![w] = <<>>]
          /\ TaskEnds(w)
    /\ UNCHANGED <<now, running, cacheVars, timerVars, historyVars>>

(* The callback renews its own key, as the timer of setInterval does and   *)
(* the keep-alive entry of a server with a parent.                         *)
CallbackRenews(w, ttl) ==
    /\ pc[w] = "call"
    /\ runList[w] # <<>>
    /\ holds[w] \in cached
    /\ calls < MaxCalls
    /\ Retime(w, holds[w], now + ttl, runners[holds[w]])
    /\ pc' = [pc EXCEPT ![w] = "renew"]
    /\ runList' = [runList EXCEPT ![w] = Tail(@)]
    /\ UNCHANGED <<now, running, cached, timerVars, taskNow, armed, notified, silenced>>

CallbackRenewed(w) == pc[w] = "renew" /\ Reinsert(w, "call")

(* if (head.expires <= time) cache.invalidate(head), with the monitor      *)
Invalidate(w) ==
    /\ pc[w] = "call"
    /\ runList[w] = <<>>
    /\ monitor = Nobody
    /\ cached' = IF expires[holds[w]] <= taskNow[w] THEN cached \ {TimedKey(holds[w])} ELSE cached
    /\ TaskEnds(w)
    /\ UNCHANGED <<now, running, expires, runners, timedQ, monitor, timerVars,
                   runList, historyVars>>

Worker(w) == \/ CopyRunners(w) \/ CallbackEnds(w) \/ CallbackRenewed(w) \/ Invalidate(w)
             \/ \E ttl \in Ttls : CallbackRenews(w, ttl)

-------------------------------------------------------------------------------
(* The timer thread has ended, callers are done and no task is left.       *)
Rest == /\ timerPc \in {"stopped", "dead"}
        /\ ~running
        /\ now = MaxTime
        /\ calls = MaxCalls
        /\ \A t \in Threads : pc[t] = "idle"
        /\ UNCHANGED vars

Next == \/ Tick \/ Stop \/ Timer \/ Rest
        \/ \E t \in Callers, k \in Keys : \/ \E ttl \in Ttls : Put(t, k, ttl) \/ SetTtl(t, k, ttl)
                                          \/ Remove(t, k)
        \/ \E t \in Callers : Return(t)
        \/ \E w \in Workers : Worker(w)

(* Time passes; the timer thread and the pool are scheduled; a thread that *)
(* is inside a synchronized block leaves it.                               *)
Fairness == /\ WF_vars(Tick)
            /\ WF_vars(Timer)
            /\ \A t \in Callers : WF_vars(Return(t))
            /\ \A w \in Workers : WF_vars(Worker(w))

Spec == Init /\ [][Next]_vars
FairSpec == Spec /\ Fairness

-------------------------------------------------------------------------------
TypeOK == /\ now \in 0..MaxTime
          /\ cached \subseteq Keys
          /\ expires \in [Keys -> Int]
          /\ runners \in [Keys -> Seq(1..MaxCalls)]
          /\ timedQ \subseteq Keys
          /\ monitor \in Threads \cup {Nobody}
          /\ running \in BOOLEAN
          /\ timerPc \in {"sleep", "size", "first", "compare", "poll", "dispatch",
                         "dead", "stopped"}
          /\ timerNow \in 0..MaxTime
          /\ head \in Keys \cup {NoKey}
          /\ pc \in [Threads -> {"idle", "reinsert", "copy", "call", "renew"}]
          /\ holds \in [Threads -> Keys \cup {NoKey}]
          /\ taskNow \in [Workers -> 0..MaxTime]
          /\ runList \in [Workers -> Seq(1..MaxCalls)]
          /\ calls \in 0..MaxCalls
          /\ armed \in [Keys -> Nat]
          /\ notified \in [Keys -> Nat]
          /\ silenced \subseteq 1..MaxCalls

(* The timer thread may rely on what it saw without the monitor as far as  *)
(* this: when nobody is restructuring the set, first() and pollFirst() find *)
(* a key in it, whatever callers did since the thread looked.  Only in a   *)
(* race with a caller does first() throw.                                  *)
QuietSetHasAKey == timerPc \in {"first", "poll"} /\ monitor = Nobody => timedQ # {}

(* However callers, the timer thread and pool tasks interleave, the        *)
(* callbacks of a key run at most once for each time the key was put into  *)
(* the ordered set.                                                        *)
OncePerArming ==
    \A k \in Keys :
        notified[k] + Cardinality({w \in Workers : pc[w] = "copy" /\ holds[w] = k}) <= armed[k]

(* A pool task that reads the callbacks after remove() cleared them, or    *)
(* after a later put() replaced them, gets none of the old ones.           *)
SilencedStaysSilent ==
    [][\A w \in Workers : pc[w] = "copy" => Callbacks(runList'[w]) \cap silenced = {}]_vars

(* Key k is to expire, with callbacks to call, and n expiries are behind it. *)
Due(k, n) == k \in timedQ /\ runners[k] # <<>> /\ expires[k] <= MaxTime /\ notified[k] = n

(* What came of it: the callbacks are called; or they were removed, the    *)
(* key was re-timed beyond the end of the behaviour, the cache was stopped. *)
Settled(k, n) == notified[k] > n \/ runners[k] = <<>> \/ expires[k] > MaxTime \/ ~running

(* As long as the timer thread lives, the callbacks of a key whose time    *)
(* runs out are called, although callers re-time it while the timer thread *)
(* looks at it and callbacks of earlier expiries throw.                    *)
LiveTimerNotifies ==
    \A k \in Keys, n \in 0..MaxCalls :
        Due(k, n) ~> (Settled(k, n) \/ timerPc = "dead")

-------------------------------------------------------------------------------
(* What the comments of the class say and the code does not do.            *)

(* "these get called if the ttl runs out": the timer thread, which holds   *)
(* the monitor, takes a key only if its time has come.                     *)
TakesOnlyDueKeys ==
    [][timerPc = "poll" /\ timerPc' = "dispatch" => expires[head'] <= timerNow]_vars

(* The same of callbacks: when the time of a key runs out they are called. *)
ExpiryIsNotified == \A k \in Keys, n \in 0..MaxCalls : Due(k, n) ~> Settled(k, n)

(* "Nothing lasts forever": an entry whose time runs out leaves the cache, *)
(* unless it is re-timed.                                                  *)
NothingLastsForever ==
    \A k \in Keys : (k \in cached /\ expires[k] <= MaxTime)
                        ~> (k \notin cached \/ expires[k] > MaxTime \/ ~running)
===============================================================================
