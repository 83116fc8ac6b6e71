------------------------ MODULE SessionLifecycleProofs ------------------------
(***************************************************************************)
(* Proofs about SessionLifecycle, for every set of sessions, every number  *)
(* of frames and all values of the three times.                            *)
(***************************************************************************)
EXTENDS SessionLifecycle, TLAPS

(* TypeOK in two parts: what is counted and what is not.                   *)
Numbers == /\ now \in 0..MaxTime /\ frames \in 0..MaxFrames /\ lost \in 0..MaxFrames
           /\ expires \in [Sessions -> 0..(MaxTime + Ttl)]
           /\ next10sec \in [Sessions -> 0..(MaxTime + RenewAfter)]
           /\ waiting \in [Sessions -> 0..MaxFrames]
           /\ lastRun \in [Sessions -> 0..MaxTime]
Shape == /\ open \in BOOLEAN /\ bye \in BOOLEAN
         /\ attr \in born \cup {None}
         /\ ioPc \in {"idle", "create", "set", "put", "get again", "lookup", "enqueue",
                     "close again", "close"}
         /\ ioSession \in born \cup {None}
         /\ born \subseteq Sessions
         /\ cached \subseteq born /\ armed \subseteq cached /\ subscribed \subseteq born
         /\ place \in [Sessions -> {"out", "isOpen", "renew", "run"}]
         /\ timerPc \in {"idle", "poll", "dead"}
         /\ callback \in [Sessions -> {"none", "unsubscribe", "clear", "invalidate"}]

(* The I/O thread has a session in its hands in these places, and a text   *)
(* frame in those.                                                         *)
WithSession == {"set", "put", "lookup", "enqueue"}
WithFrame == {"create", "get again"} \cup WithSession

(* Frames are counted before they are counted as lost or as waiting.       *)
FramesAdd == /\ lost <= frames /\ \A s \in Sessions : waiting[s] <= frames
             /\ ioPc \in WithFrame => lost < frames /\ \A s \in Sessions : waiting[s] < frames

(* Once a session's frames can reach it, it is cached: the I/O thread puts *)
(* it into the cache before anybody can find it.                           *)
ReachableIsCached ==
    /\ ioPc \in WithSession => ioSession \in born
    /\ ioPc \in {"lookup", "enqueue"} => ioSession \in cached
    /\ attr # None => attr \in cached \/ (ioPc = "put" /\ ioSession = attr)
    /\ ioPc = "put" => attr \in {None, ioSession}
    /\ \A s \in Sessions : waiting[s] # 0 \/ place[s] # "out" => s \in cached

(* No message runs later than RenewAfter after the last renewal, and the   *)
(* expiry is never earlier than Ttl after it, unless the renewal is under  *)
(* way, or the client said goodbye or is gone.                             *)
RenewalIsDue ==
    \A s \in born : lastRun[s] <= next10sec[s] /\ next10sec[s] <= now + RenewAfter
Renewed(s) ==
    place[s] \in {"out", "run"} => next10sec[s] + Ttl <= expires[s] + RenewAfter
RenewedInTime ==
    /\ ioPc = "close again" => bye
    /\ open /\ ~bye => \A s \in cached : Renewed(s)

IInv == /\ Shape /\ Numbers /\ FramesAdd /\ ReachableIsCached /\ SessionIsWatched
        /\ RenewalIsDue /\ RenewedInTime

-------------------------------------------------------------------------------
(* Init establishes the inductive invariant.                               *)
LEMMA InitIInv == Init => IInv
<1> SUFFICES ASSUME Init PROVE IInv
  OBVIOUS
<1>1. Shape
  BY DEF Init, Shape
<1>2. /\ now = 0 /\ frames = 0 /\ lost = 0 /\ ioPc = "idle" /\ born = {}
      /\ expires = [s \in Sessions |-> 0] /\ next10sec = [s \in Sessions |-> 0]
      /\ waiting = [s \in Sessions |-> 0] /\ lastRun = [s \in Sessions |-> 0]
  BY DEF Init
<1>3. Numbers /\ FramesAdd /\ RenewalIsDue
  BY <1>2, TimesAssumption DEF Numbers, FramesAdd, RenewalIsDue, WithFrame, WithSession
<1>4. ReachableIsCached /\ SessionIsWatched /\ RenewedInTime
  BY DEF Init, ReachableIsCached, SessionIsWatched, RenewedInTime, WithSession
<1> QED  BY <1>1, <1>3, <1>4 DEF IInv

(* Every step preserves it.                                                *)
LEMMA NextIInv == IInv /\ [Next]_vars => IInv'
<1> SUFFICES ASSUME IInv, [Next]_vars PROVE IInv'
  OBVIOUS
<1> USE TimesAssumption, SessionsAssumption
<1> USE DEF IInv, IoAt, IoFrame, CallbackAt, ioVars, cacheVars, agentVars, clientVars
<1>1. CASE Tick
  <2>1. now' \in 0..MaxTime /\ now <= now'
    BY <1>1 DEF Tick, Numbers
  <2>2. Shape' /\ ReachableIsCached' /\ SessionIsWatched' /\ RenewedInTime'
    <3>1. Shape' /\ ReachableIsCached'
      BY <1>1 DEF Tick, Shape, ReachableIsCached
    <3>2. SessionIsWatched' /\ RenewedInTime'
      BY <1>1 DEF Tick, SessionIsWatched, RenewedInTime, Renewed
    <3> QED  BY <3>1, <3>2
  <2>3. Numbers' /\ FramesAdd'
    BY <1>1, <2>1 DEF Tick, Numbers, FramesAdd
  <2>4. RenewalIsDue'
    <3>1. \A s \in born : next10sec[s] \in Int
      <4>1. born \subseteq Sessions
        BY DEF Shape
      <4> QED  BY <4>1 DEF Numbers
    <3> QED  BY <1>1, <2>1, <3>1 DEF Tick, Numbers, RenewalIsDue
  <2> QED  BY <2>2, <2>3, <2>4
<1>2. CASE TextFrame
  <2>1. /\ frames < MaxFrames /\ frames' = frames + 1
        /\ ioPc = "idle" /\ ioPc' \in {"create", "get again"}
        /\ UNCHANGED <<now, open, bye, attr, ioSession, born, cached, armed, expires, next10sec,
                       waiting, place, timerPc, callback, subscribed, lastRun, lost>>
    BY <1>2 DEF TextFrame
  <2>2. Shape' /\ ReachableIsCached' /\ SessionIsWatched' /\ RenewedInTime'
    BY <2>1 DEF Shape, ReachableIsCached, SessionIsWatched, RenewedInTime, Renewed, WithSession
  <2>3. RenewalIsDue'
    BY <2>1 DEF RenewalIsDue
  <2>4. frames' \in 0..MaxFrames /\ frames < frames'
    <3>1. frames < MaxFrames /\ frames' = frames + 1
      BY <2>1
    <3>2. frames \in 0..MaxFrames
      BY DEF Numbers
    <3> QED  BY <3>1, <3>2
  <2>5. Numbers'
    BY <2>1, <2>4 DEF Numbers
  <2>6. FramesAdd'
    <3>1. ASSUME NEW x \in 0..MaxFrames, x <= frames PROVE x < frames' /\ x <= frames'
      BY <2>4, <3>1 DEF Numbers
    <3>2. \A s \in Sessions : waiting[s] \in 0..MaxFrames
      BY DEF Numbers
    <3> QED  BY <2>1, <3>1, <3>2 DEF Numbers, FramesAdd
  <2> QED  BY <2>2, <2>3, <2>5, <2>6
<1>3. ASSUME NEW s \in Sessions, Create(s) PROVE IInv'
  <2>1. Shape' /\ ReachableIsCached' /\ SessionIsWatched'
    BY <1>3 DEF Create, Shape, ReachableIsCached, SessionIsWatched, WithSession
  <2>2. Numbers' /\ FramesAdd'
    BY <1>3 DEF Create, Numbers, FramesAdd, WithFrame, WithSession
  <2>3. RenewalIsDue'
    BY <1>3 DEF Create, Shape, Numbers, RenewalIsDue
  <2>4. RenewedInTime'
    BY <1>3 DEF Create, Shape, Numbers, RenewedInTime, Renewed
  <2> QED  BY <2>1, <2>2, <2>3, <2>4
<1>4. CASE SetAttr
  <2>1. Shape'
    BY <1>4 DEF SetAttr, Shape, ReachableIsCached, WithSession
  <2>2. Numbers' /\ FramesAdd' /\ RenewalIsDue'
    BY <1>4 DEF SetAttr, Numbers, FramesAdd, RenewalIsDue, WithFrame, WithSession
  <2>3. ReachableIsCached' /\ SessionIsWatched' /\ RenewedInTime'
    BY <1>4 DEF SetAttr, ReachableIsCached, SessionIsWatched, RenewedInTime, Renewed, WithSession
  <2> QED  BY <2>1, <2>2, <2>3
<1>5. CASE PutSession
  <2>1. Shape' /\ ReachableIsCached' /\ SessionIsWatched'
    BY <1>5 DEF PutSession, Shape, ReachableIsCached, SessionIsWatched, WithSession
  <2>2. Numbers' /\ FramesAdd' /\ RenewalIsDue'
    <3>1. ioSession \in Sessions
      BY <1>5 DEF PutSession, Shape, ReachableIsCached, WithSession
    <3>2. Numbers'
      BY <1>5, <3>1 DEF PutSession, Numbers
    <3>3. FramesAdd' /\ RenewalIsDue'
      BY <1>5 DEF PutSession, FramesAdd, RenewalIsDue, WithFrame, WithSession
    <3> QED  BY <3>2, <3>3
  <2>3. ioSession \in born /\ ioSession \in Sessions
    BY <1>5 DEF PutSession, Shape, ReachableIsCached, WithSession
  <2>4. \A z \in Sessions : Renewed(z) \/ z = ioSession => Renewed(z)'
    <3>1. ASSUME NEW z \in Sessions, Renewed(z) \/ z = ioSession PROVE Renewed(z)'
      <4>1. CASE z = ioSession
        BY <1>5, <2>3, <4>1 DEF PutSession, Numbers, RenewalIsDue, Renewed
      <4>2. CASE z # ioSession
        BY <1>5, <3>1, <4>2 DEF PutSession, Numbers, Renewed
      <4> QED  BY <4>1, <4>2
    <3> QED  BY <3>1
  <2>5. RenewedInTime'
    <3>1. /\ cached \subseteq Sessions /\ cached' = cached \cup {ioSession} /\ UNCHANGED <<open, bye>>
          /\ ioPc' # "close again"
      BY <1>5 DEF PutSession, Shape
    <3> QED  BY <2>3, <2>4, <3>1 DEF RenewedInTime
  <2> QED  BY <2>1, <2>2, <2>5
<1>6. CASE GetAgain
  <2>1. Shape' /\ ReachableIsCached' /\ SessionIsWatched' /\ RenewedInTime'
    BY <1>6 DEF GetAgain, Shape, ReachableIsCached, SessionIsWatched, RenewedInTime, Renewed,
                WithSession
  <2>2. RenewalIsDue'
    BY <1>6 DEF GetAgain, RenewalIsDue
  <2>3. /\ ioPc \in WithFrame /\ (lost' = lost \/ (lost' = lost + 1 /\ ioPc' = "idle"))
        /\ UNCHANGED <<frames, waiting>>
    BY <1>6 DEF GetAgain, WithFrame, WithSession
  <2>4. lost' \in 0..MaxFrames /\ lost' <= frames /\ (ioPc' \in WithFrame => lost' < frames)
    <3>1. frames \in 0..MaxFrames /\ lost \in 0..MaxFrames
      BY DEF Numbers
    <3>2. lost < frames
      BY <2>3 DEF FramesAdd
    <3>3. CASE lost' = lost
      BY <3>1, <3>2, <3>3
    <3>4. CASE lost' = lost + 1 /\ ioPc' = "idle"
      <4>1. ioPc' \notin WithFrame
        BY <3>4 DEF WithFrame, WithSession
      <4> QED  BY <3>1, <3>2, <3>4, <4>1
    <3> QED  BY <2>3, <3>3, <3>4
  <2>5. FramesAdd'
    BY <2>3, <2>4 DEF FramesAdd
  <2>6. Numbers'
    BY <1>6, <2>4 DEF GetAgain, Numbers
  <2> QED  BY <2>1, <2>2, <2>5, <2>6
<1>7. CASE Lookup
  <2>1. Shape' /\ ReachableIsCached' /\ SessionIsWatched' /\ RenewedInTime'
    BY <1>7 DEF Lookup, Shape, ReachableIsCached, SessionIsWatched, RenewedInTime, Renewed,
                WithSession
  <2>2. RenewalIsDue'
    BY <1>7 DEF Lookup, RenewalIsDue
  <2>3. /\ ioPc \in WithFrame /\ (lost' = lost \/ (lost' = lost + 1 /\ ioPc' = "idle"))
        /\ UNCHANGED <<frames, waiting>>
    BY <1>7 DEF Lookup, WithFrame, WithSession
  <2>4. lost' \in 0..MaxFrames /\ lost' <= frames /\ (ioPc' \in WithFrame => lost' < frames)
    <3>1. frames \in 0..MaxFrames /\ lost \in 0..MaxFrames
      BY DEF Numbers
    <3>2. lost < frames
      BY <2>3 DEF FramesAdd
    <3>3. CASE lost' = lost
      BY <3>1, <3>2, <3>3
    <3>4. CASE lost' = lost + 1 /\ ioPc' = "idle"
      <4>1. ioPc' \notin WithFrame
        BY <3>4 DEF WithFrame, WithSession
      <4> QED  BY <3>1, <3>2, <3>4, <4>1
    <3> QED  BY <2>3, <3>3, <3>4
  <2>5. FramesAdd'
    BY <2>3, <2>4 DEF FramesAdd
  <2>6. Numbers'
    BY <1>7, <2>4 DEF Lookup, Numbers
  <2> QED  BY <2>1, <2>2, <2>5, <2>6
<1>8. CASE Enqueue
  <2>1. ioSession \in Sessions /\ ioSession \in cached
    BY <1>8 DEF Enqueue, Shape, ReachableIsCached
  <2>2. Numbers' /\ FramesAdd' /\ RenewalIsDue'
    BY <1>8, <2>1 DEF Enqueue, Numbers, FramesAdd, RenewalIsDue, WithFrame, WithSession
  <2>3. Shape' /\ SessionIsWatched' /\ RenewedInTime'
    BY <1>8, <2>1 DEF Enqueue, Shape, SessionIsWatched, RenewedInTime, Renewed
  <2>4. ReachableIsCached'
    BY <1>8, <2>1 DEF Enqueue, Numbers, ReachableIsCached, WithSession
  <2> QED  BY <2>2, <2>3, <2>4
<1>9. CASE CloseFrame
  <2>1. /\ bye' = TRUE /\ ioPc = "idle" /\ ioPc' \in {"close", "close again"}
        /\ UNCHANGED <<now, open, attr, ioSession, born, cached, armed, expires, next10sec,
                       waiting, place, timerPc, callback, subscribed, lastRun, lost, frames>>
    BY <1>9 DEF CloseFrame
  <2>2. Shape' /\ ReachableIsCached' /\ SessionIsWatched' /\ RenewedInTime'
    BY <2>1 DEF Shape, ReachableIsCached, SessionIsWatched, RenewedInTime, WithSession
  <2>3. Numbers' /\ FramesAdd' /\ RenewalIsDue'
    BY <2>1 DEF Numbers, FramesAdd, RenewalIsDue, WithFrame, WithSession
  <2> QED  BY <2>2, <2>3
<1>10. CASE CloseAgain
  <2>1. Shape' /\ ReachableIsCached' /\ SessionIsWatched' /\ RenewedInTime'
    BY <1>10 DEF CloseAgain, SetTtl, Shape, ReachableIsCached, SessionIsWatched, RenewedInTime,
                 WithSession
  <2>2. Numbers' /\ FramesAdd' /\ RenewalIsDue'
    <3>1. FramesAdd' /\ RenewalIsDue'
      BY <1>10 DEF CloseAgain, SetTtl, FramesAdd, RenewalIsDue, WithFrame, WithSession
    <3>2. expires' \in [Sessions -> 0..(MaxTime + Ttl)]
      <4>1. CASE attr = None
        BY <1>10, <4>1 DEF CloseAgain, Numbers
      <4>2. CASE attr # None
        <5>1. expires' = [expires EXCEPT ![attr] = IF attr \in cached THEN now + 0 ELSE @]
          BY <1>10, <4>2 DEF CloseAgain, SetTtl
        <5>2. now + 0 \in 0..(MaxTime + Ttl)
          BY DEF Numbers
        <5> QED  BY <5>1, <5>2 DEF Numbers
      <4> QED  BY <4>1, <4>2
    <3>3. Numbers'
      BY <1>10, <3>2 DEF CloseAgain, Numbers
    <3> QED  BY <3>1, <3>3
  <2> QED  BY <2>1, <2>2
<1>11. CASE Shut \/ Drop
  <2>1. /\ open' = FALSE /\ ((ioPc = "close" /\ ioPc' = "idle") \/ ioPc' = ioPc)
        /\ UNCHANGED <<now, bye, attr, ioSession, born, cached, armed, expires, next10sec,
                       waiting, place, timerPc, callback, subscribed, lastRun, lost, frames>>
    BY <1>11 DEF Shut, Drop
  <2>2. Shape' /\ ReachableIsCached' /\ SessionIsWatched' /\ RenewedInTime'
    BY <2>1 DEF Shape, ReachableIsCached, SessionIsWatched, RenewedInTime, WithSession
  <2>3. Numbers' /\ FramesAdd' /\ RenewalIsDue'
    BY <2>1 DEF Numbers, FramesAdd, RenewalIsDue, WithFrame, WithSession
  <2> QED  BY <2>2, <2>3
<1>12. ASSUME NEW s \in Sessions, StartMessage(s) PROVE IInv'
  <2>1. /\ waiting[s] > 0 /\ waiting' = [waiting EXCEPT ![s] = waiting[s] - 1]
        /\ lastRun' = [lastRun EXCEPT ![s] = now]
        /\ UNCHANGED <<now, open, bye, attr, ioPc, ioSession, born, cached, armed, expires,
                       timerPc, callback, subscribed, frames, lost>>
    BY <1>12 DEF StartMessage, MessageFrame
  <2>2. s \in cached /\ s \in born
    <3>1. waiting[s] # 0
      BY <2>1 DEF Numbers
    <3> QED  BY <3>1 DEF Shape, ReachableIsCached
  <2>3. \/ /\ ~(now > next10sec[s]) /\ next10sec' = next10sec
           /\ place[s] = "out" /\ place' = [place EXCEPT ![s] = "run"]
        \/ /\ now > next10sec[s] /\ next10sec' = [next10sec EXCEPT ![s] = now + RenewAfter]
           /\ place' = [place EXCEPT ![s] = "isOpen"]
    BY <1>12 DEF StartMessage
  <2>5. Shape'
    BY <2>1, <2>3 DEF Shape
  <2>6. Numbers' /\ FramesAdd'
    BY <2>1, <2>3 DEF Numbers, FramesAdd
  <2>7. ReachableIsCached'
    BY <2>1, <2>2, <2>3 DEF Numbers, Shape, ReachableIsCached
  <2>8. SessionIsWatched'
    BY <2>1 DEF SessionIsWatched
  <2>9. RenewalIsDue'
    <3>1. born \subseteq Sessions
      BY DEF Shape
    <3>2. ASSUME NEW z \in born PROVE lastRun'[z] <= next10sec'[z] /\ next10sec'[z] <= now + RenewAfter
      <4>1. /\ lastRun[z] <= next10sec[z] /\ next10sec[z] <= now + RenewAfter
            /\ {now, RenewAfter, lastRun[z], next10sec[z]} \subseteq Nat
        BY <3>1 DEF Numbers, RenewalIsDue
      <4>2. CASE z = s
        BY <2>1, <2>3, <3>1, <4>1, <4>2 DEF Numbers
      <4>3. CASE z # s
        BY <2>1, <2>3, <3>1, <4>1, <4>3 DEF Numbers
      <4> QED  BY <4>2, <4>3
    <3> QED  BY <2>1, <3>2 DEF RenewalIsDue
  <2>10. ASSUME NEW z \in Sessions, Renewed(z) PROVE Renewed(z)'
    <3>1. CASE next10sec' = next10sec /\ place[s] = "out" /\ place' = [place EXCEPT ![s] = "run"]
      BY <2>1, <2>10, <3>1 DEF Shape, Renewed
    <3>2. CASE /\ next10sec' = [next10sec EXCEPT ![s] = now + RenewAfter]
               /\ place' = [place EXCEPT ![s] = "isOpen"]
      BY <2>1, <2>10, <3>2 DEF Shape, Numbers, Renewed
    <3> QED  BY <2>3, <3>1, <3>2
  <2>11. RenewedInTime'
    BY <2>1, <2>10 DEF Shape, RenewedInTime
  <2> QED  BY <2>5, <2>6, <2>7, <2>8, <2>9, <2>11
<1>13. ASSUME NEW s \in Sessions, IsOpen(s) PROVE IInv'
  <2>1. /\ place[s] = "isOpen" /\ open \in BOOLEAN
        /\ place' = [place EXCEPT ![s] = IF open THEN "renew" ELSE "run"]
        /\ UNCHANGED <<now, open, bye, attr, ioPc, ioSession, born, cached, armed, expires, next10sec,
                       waiting, timerPc, callback, subscribed, lastRun, frames, lost>>
    BY <1>13 DEF IsOpen, MessageFrame, Shape
  <2>2. Shape' /\ ReachableIsCached' /\ SessionIsWatched'
    <3>1. Shape'
      BY <2>1 DEF Shape
    <3>2. ReachableIsCached' /\ SessionIsWatched'
      BY <2>1 DEF Shape, ReachableIsCached, SessionIsWatched
    <3> QED  BY <3>1, <3>2
  <2>3. Numbers' /\ FramesAdd' /\ RenewalIsDue'
    BY <2>1 DEF Numbers, FramesAdd, RenewalIsDue
  <2>4. ASSUME open, NEW z \in Sessions, Renewed(z) PROVE Renewed(z)'
    BY <2>1, <2>4 DEF Shape, Renewed
  <2>5. RenewedInTime'
    BY <2>1, <2>4 DEF Shape, RenewedInTime
  <2> QED  BY <2>2, <2>3, <2>5
<1>14. ASSUME NEW s \in Sessions, Renew(s) PROVE IInv'
  <2>1. /\ place[s] = "renew" /\ place' = [place EXCEPT ![s] = "run"]
        /\ cached' = cached /\ armed' = armed \cup ({s} \cap cached)
        /\ expires' = [expires EXCEPT ![s] = IF s \in cached THEN now + Ttl ELSE expires[s]]
        /\ UNCHANGED <<now, open, bye, attr, ioPc, ioSession, born, next10sec,
                       waiting, timerPc, callback, subscribed, lastRun, frames, lost>>
    BY <1>14 DEF Renew, SetTtl, MessageFrame
  <2>2. Shape' /\ ReachableIsCached' /\ SessionIsWatched'
    <3>1. Shape'
      BY <2>1 DEF Shape
    <3>2. ReachableIsCached' /\ SessionIsWatched'
      BY <2>1 DEF Shape, ReachableIsCached, SessionIsWatched
    <3> QED  BY <3>1, <3>2
  <2>3. Numbers' /\ FramesAdd' /\ RenewalIsDue'
    BY <2>1 DEF Numbers, FramesAdd, RenewalIsDue
  <2>4. ASSUME NEW z \in cached, Renewed(z) \/ z = s PROVE Renewed(z)'
    <3>1. z \in born /\ z \in Sessions
      BY DEF Shape
    <3>2. CASE z = s
      BY <2>1, <3>1, <3>2 DEF Numbers, RenewalIsDue, Renewed
    <3>3. CASE z # s
      BY <2>1, <2>4, <3>1, <3>3 DEF Shape, Numbers, Renewed
    <3> QED  BY <3>2, <3>3
  <2>5. RenewedInTime'
    BY <2>1, <2>4 DEF RenewedInTime
  <2> QED  BY <2>2, <2>3, <2>5
<1>15. ASSUME NEW s \in Sessions, RunMessage(s) PROVE IInv'
  <2>1. /\ place[s] = "run" /\ place' = [place EXCEPT ![s] = "out"]
        /\ subscribed' \in {subscribed, subscribed \cup {s}}
        /\ UNCHANGED <<now, open, bye, attr, ioPc, ioSession, born, cached, armed, expires, next10sec,
                       waiting, timerPc, callback, lastRun, frames, lost>>
    BY <1>15 DEF RunMessage, MessageFrame
  <2>2. Shape' /\ ReachableIsCached' /\ SessionIsWatched'
    <3>1. s \in born
      BY <2>1 DEF Shape, ReachableIsCached
    <3>2. Shape'
      BY <2>1, <3>1 DEF Shape
    <3>3. ReachableIsCached' /\ SessionIsWatched'
      BY <2>1 DEF Shape, ReachableIsCached, SessionIsWatched
    <3> QED  BY <3>2, <3>3
  <2>3. Numbers' /\ FramesAdd' /\ RenewalIsDue'
    BY <2>1 DEF Numbers, FramesAdd, RenewalIsDue
  <2>4. ASSUME NEW z \in Sessions, Renewed(z) PROVE Renewed(z)'
    BY <2>1, <2>4 DEF Shape, Renewed
  <2>5. RenewedInTime'
    BY <2>1, <2>4 DEF Shape, RenewedInTime
  <2> QED  BY <2>2, <2>3, <2>5
<1>16. CASE Timer \/ TimerDies
  <2>1. /\ timerPc' \in {"idle", "poll", "dead"}
        /\ UNCHANGED <<now, open, bye, attr, ioPc, ioSession, born, cached, expires, next10sec,
                       waiting, place, subscribed, lastRun, frames, lost>>
    BY <1>16 DEF Timer, TimerLooks, TimerDies, Expire, TimerFrame
  <2>2. /\ armed' \subseteq armed
        /\ callback' \in [Sessions -> {"none", "unsubscribe", "clear", "invalidate"}]
        /\ \A z \in Sessions : \/ callback'[z] = callback[z] /\ (z \in armed => z \in armed')
                               \/ callback'[z] = "unsubscribe"
    BY <1>16 DEF Timer, TimerLooks, TimerDies, Expire, Shape
  <2>3. Shape' /\ ReachableIsCached' /\ RenewedInTime'
    BY <2>1, <2>2 DEF Shape, ReachableIsCached, RenewedInTime, Renewed
  <2>4. SessionIsWatched'
    BY <2>1, <2>2 DEF Shape, SessionIsWatched
  <2>5. Numbers' /\ FramesAdd' /\ RenewalIsDue'
    BY <2>1 DEF Numbers, FramesAdd, RenewalIsDue
  <2> QED  BY <2>3, <2>4, <2>5
<1>17. ASSUME NEW s \in Sessions,
              CallbackUnsubscribes(s) \/ CallbackClearsAttr(s) \/ Invalidate(s)
       PROVE  IInv'
  <2>1. /\ attr' \in {attr, None} /\ subscribed' \subseteq subscribed
        /\ UNCHANGED <<open, bye, ioPc, ioSession, born, cached, armed, expires, next10sec, waiting,
                       place, timerPc>>
        /\ callback' \in [Sessions -> {"none", "unsubscribe", "clear", "invalidate"}]
        /\ callback'[s] \in {"unsubscribe", "clear"} \/ callback[s] = "invalidate" \/ attr' = None
        /\ \A z \in Sessions \ {s} : callback'[z] = callback[z]
    BY <1>17 DEF CallbackUnsubscribes, CallbackClearsAttr, Invalidate, Shape
  <2>3. Shape' /\ ReachableIsCached' /\ RenewedInTime'
    BY <2>1 DEF Shape, ReachableIsCached, RenewedInTime, Renewed
  <2>4. SessionIsWatched'
    BY <2>1 DEF Shape, SessionIsWatched
  <2>2. Numbers' /\ FramesAdd' /\ RenewalIsDue'
    BY <1>17 DEF CallbackUnsubscribes, CallbackClearsAttr, Invalidate,
                 Numbers, FramesAdd, RenewalIsDue
  <2> QED  BY <2>2, <2>3, <2>4
<1>18. CASE Rest \/ UNCHANGED vars
  <2>1. UNCHANGED vars
    BY <1>18 DEF Rest
  <2>2. Shape' /\ ReachableIsCached' /\ SessionIsWatched' /\ RenewedInTime'
    <3>1. Shape' /\ ReachableIsCached'
      BY <2>1 DEF vars, Shape, ReachableIsCached
    <3>2. SessionIsWatched' /\ RenewedInTime'
      BY <2>1 DEF vars, SessionIsWatched, RenewedInTime, Renewed
    <3> QED  BY <3>1, <3>2
  <2>3. Numbers' /\ FramesAdd' /\ RenewalIsDue'
    BY <2>1 DEF vars, Numbers, FramesAdd, RenewalIsDue
  <2> QED  BY <2>2, <2>3
<1> QED
  BY <1>1, <1>2, <1>3, <1>4, <1>5, <1>6, <1>7, <1>8, <1>9, <1>10, <1>11, <1>12, <1>13, <1>14,
     <1>15, <1>16, <1>17, <1>18 DEF Next, IoThread, Pool

LEMMA Invariance == Spec => []IInv
  BY InitIInv, NextIInv, PTL DEF Spec

-------------------------------------------------------------------------------
(* Every variable keeps its type.                                          *)
THEOREM TypeCorrect == Spec => []TypeOK
<1>1. IInv => TypeOK
  BY Zenon DEF IInv, Shape, Numbers, TypeOK
<1> QED  BY <1>1, Invariance, PTL

(* The attribute of a connection never names a session the cache does not  *)
(* have when the I/O thread asks for it.                                   *)
THEOREM LookupsSucceed == Spec => []LookupFindsSession
<1>1. IInv => LookupFindsSession
  BY DEF IInv, ReachableIsCached, LookupFindsSession
<1> QED  BY <1>1, Invariance, PTL

(* A connection never clings to a session that nothing will clean up.      *)
THEOREM SessionsAreWatched == Spec => []SessionIsWatched
  BY Invariance, PTL DEF IInv

(* The time of a session in use on an open connection is kept ahead of its *)
(* last message, although it is renewed only once in RenewAfter.           *)
THEOREM RenewalKeepsAhead == Spec => []RenewalsKeepUp
<1>1. IInv => RenewalsKeepUp
  <2> SUFFICES ASSUME IInv, open, ~bye, NEW s \in cached, place[s] \in {"out", "run"}
               PROVE  expires[s] >= lastRun[s] + Ttl - RenewAfter
    BY DEF RenewalsKeepUp
  <2>1. s \in born /\ s \in Sessions
    BY DEF IInv, Shape
  <2>2. lastRun[s] <= next10sec[s] /\ next10sec[s] + Ttl <= expires[s] + RenewAfter
    BY <2>1 DEF IInv, RenewalIsDue, RenewedInTime, Renewed
  <2>3. lastRun[s] \in Int /\ next10sec[s] \in Int /\ expires[s] \in Int
    BY <2>1 DEF IInv, Numbers
  <2> QED  BY <2>2, <2>3, TimesAssumption
<1> QED  BY <1>1, Invariance, PTL
===============================================================================
