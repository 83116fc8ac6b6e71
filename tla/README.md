# A TLA+ development for GeneralWorldwideExecutingMessageSystem

Clients connect to a server over a WebSocket and send it messages that the
server executes. Messages published on a channel reach the agents subscribed to
it, on the same server and, through a tree of servers, on every other. This
directory holds specifications of the parts of that system where threads,
timers and servers meet, the TLC configurations that check them, and proofs
of what matters most about each. Paths below are relative to `src/src/org/gwems/` unless
they start with `src/`.

## The system

| part | state | operations | talks to |
|---|---|---|---|
| Message queue (`util/RunnablesQueue`, `SessionRunnablesQueue`, `AgentRunnablesQueue`) | the list, `isRunning` | `run`, `hasMore`, the draining task | the pool of `Global` |
| Session agent (`agents/SessionAgent`) | two queues, `next10sec`, the session's monitor | `runSocketMessage`, `run` | timeout cache, its connection |
| Timeout cache (`util/TimeoutCache`) | Guava cache, ordered set of `TimedKey`s, `running` | `put`, `get`, `setTtl`, `remove`, `stop`, timer thread, pool tasks | callbacks of sessions and JavaScript timers |
| Two-way mapping (`util/TwoWayMapping`, `HalfHashTwoWayMapping`) | `item2things`, `thing2items` | `add`, `remove`, `removeItem`, `removeThing`, `_get` | used by `Global` |
| Subscriptions (`servers/Global`) | `session2channel`, what the parent was told | `subscribe`, `unsubscribe`, `unsubscribeAgent` | parent server through `GwemsPubSub` |
| Session life cycle (`servers/Global`, `impl/MyWebSocketServerHandler`) | the attribute `session` of a connection, the cached sessions | text frame, close frame, expiry callback | I/O thread, pool, timer |
| Publishing (`servers/Global`, `GwemsPubSub`, `d/*`) | work in the pool, messages on the links | `publish`, `LocalSubscriberHandler.handle` | parent and children |
| Execution context (`servers/ExecutionContext`) | thread-local agent, channel, server | set and cleared around messages | every message |
| WebSocket client (`impl/WsClientImpl`, `impl/MyWebSocketClientHandler`) | queue of 16 strings, `running`, the connection | `enqueueString`, `startUp`, `pollingLoop`, `stop` | parent server |
| Space addressing (`src/WebContent/js/QuadSpaces.js`, and an earlier copy in `messageweb/experiments/QuadSpaces`) | none | names of nested cubes | channels of a virtual world |
| Tracker of a page (`src/WebContent/js/QuadSpacesTracker.js`, `GWEMS.js`) | per size of cube: the channel it publishes on and those it subscribes to | `update` in every frame, the socket's events | its session at a server |
| JavaScript engines (`impl/JsEnginePool`) | list of engines | `get`, `giveBack`, timers | `gwems.Js`, timeout cache |
| Netty bootstrap, HTTP handlers, Redis, DynamoDB, demos, vendored libraries | I/O, dead code, examples | | |

A frame arrives in the I/O thread of its connection, which finds or makes the
session and adds a message to its `socketMessageQ`. A pool task drains that
queue and runs the message, which may subscribe, unsubscribe or publish.
Publishing looks up the subscribers in another pool task and adds the message to
their `messageQ`s, and promotes it to the parent server. A timer thread takes
expired sessions to pool tasks that remove their subscriptions. Little of this
shares a lock: the queues, the mapping and the cache each have their own
monitor, and everything between two calls on them may interleave. That is what
is hard here, and what the models are about; `PROJECT.json` lists each hazard at
its line.

What makes each part correct:

- a queue runs its messages one at a time, in order, none lost, and wakes up
  whenever there is something to do, because agents have no other protection;
- a session's two queues block each other and neither loses anything by it;
- an entry of the cache is notified when its time is up, once, and not after it
  was removed or renewed;
- the two maps are one relation;
- the parent sends a server exactly the channels it has subscribers for, and an
  agent that has ended is subscribed to nothing;
- a connection's frames go to a session that will be cleaned up some day, and a
  session in use is not cleaned up;
- a message reaches every settled subscriber on the tree once, and nobody twice;
- what the client of the parent accepts arrives in order and without a gap, up
  to the loss of the connection, and keeps no thread of the pool waiting;
- a message finds the agent it acts for in the context of its thread;
- a page that moves ends up with the channels its tracker believes in, and hears
  those near it and itself.

## The modules

`SerialExecutor` (abstract) <- **`RunnablesQueue`** -> `RunnablesQueueProofs`.
One variable per field, plus `pc` for the tasks of the pool. `Run`, `TakeFirst`
and `NoMore` are the synchronized blocks `run` and `hasMore`; `Loop` and
`Escape` are the ways a message ends, an `Error` not being caught by
`catch (Exception e)`; `Exit` is the way out of the task, during which the next
task may already have started. `SerialExecutor` knows only what was handed over,
what was started and whether something runs.

**`SessionAgent`** composes two instances of `RunnablesQueue` with the session's
monitor, the threads of the pool they share and the `ExecutionContext` of each
thread. A task that has taken a message must enter the monitor, and leaves it
however the message ends; a thread works on one task at a time and starts it
with whatever context (`Leftovers`) its earlier work left. `EnterSocket` and
`EnterMessage` set agent and channel, the `Leave` actions clear what the code
clears on that path: after an exception in a wrapped message the channel stays.
`SessionAgentProofs` proves its safety properties.

**`TimeoutCache`.** `put`, `setTtl` and `remove` are split in two steps under
the monitor (`Retime` takes the `TimedKey` out of the set and changes it,
`Reinsert` puts it back), because the timer thread reads the set without the
monitor: `ReadSize`, `ReadFirst` and `Compare` are its three reads of line 84,
`PollFirst` the synchronized block, which takes whatever is first by then. While
another thread restructures the tree `ReadFirst` may return any element, or throw
although there are others, and that ends the timer thread. `CopyRunners`,
`CallbackEnds`, `CallbackRenews` and `Invalidate` are the pool task: the callbacks
of a key are a list, one that throws takes the rest along, and one may re-time
its own key as `setInterval` and the keep-alive entry of a server with a parent
do. `Invalidate` removes the *`TimedKey`* from a cache of strings. `get` changes
nothing and values are left out. `TimeoutCacheProofs` proves its safety
properties.

`BinaryRelation` (abstract) <- **`TwoWayMapping`**. A map is a function on the
keys it has; `With`, `Without` and `WithoutKey` are the changes the methods make
to one map. `MapSpec` is the mapping by itself. `BinaryRelation` says that a step
adds or removes pairs of one relation, not which method does which. Its theorems are in
`SubscriptionsProofs`, which needs them.

**`Subscriptions`** extends `TwoWayMapping`, which is its `session2channel` with
agents as items and channels as things, and takes `subscribe`, `unsubscribe` and
`unsubscribeAgent` apart at every call they make on the map or on `thePubSub`.
`link` holds what is on its way to the parent, `upstream` what the parent sends.
The code lets a session go on while it is cleaned up; `SilentWhenExpired` restricts
the model to sessions that have stopped by then, which is the hypothesis of
`NoUpstreamLeak`.
`SubscriptionsProofs` proves its properties and those of the mapping.

**`SessionLifecycle`** is one connection: the I/O thread (`TextFrame` ..
`Enqueue`, `CloseFrame` .. `Shut`), the messages of its sessions
(`StartMessage`, `IsOpen`, `Renew`, `RunMessage`), the timer thread
(`TimerLooks`, `Expire`, `TimerDies`) and the expiry callback
(`CallbackUnsubscribes` .. `Invalidate`). It uses queues and timer through what
the other modules show of them: a queue runs one message at a time; the timer
sees that some time is up and then takes whatever is first, due or not, and its
thread may die of looking. `unsubscribeAgent` is one step.
`SessionLifecycleProofs` proves its safety properties.

**`PublishTree`** is one channel on a tree of servers. A server of the tree is
subscribed at its parent as one member of `subs`; `up` and `down` are the
links; `tasks` and `deliveries` are bags of work given to the pools, done in any
order. subscribe is `StartSubscribe`, `TellParent` and `AddSubscriber`,
unsubscribe `StartUnsubscribe`, `LookWhoIsLeft` and `TellParent`, and `doing` says
where each session is, those that stand for servers included. Because of the race
`Subscriptions` shows, a session counts as settled only when no call that has
seen the subscribers without it is still to send an `Unsub`.
`PublishTreeProofs` proves its properties.

`OneWayLink` (abstract) <- **`Uplink`** -> `UplinkProofs`. The client of the
parent: `Call`, `Accept` and `GiveUp` are `offer` with its 100 ms, `Connect`,
`Poll`, `Write` and `Leave` the client's own thread, `ParentHandles` the frames
the parent takes, `LinkCloses` the loss of the connection with any part of what
was under way. The thread goes on writing to a closed connection, as in the code;
what it writes then is `lost`. `OneWayLink` knows what was accepted and what was
received: a prefix.

**`QuadSpaces`** has the functions of `QuadSpaces.js` on integers of `Bits` bits:
`decompose` takes digits -2..1 off every axis until all are at zero, `| 0` cuts
towards zero. **`Tracker`** is `update()` with all it sends, the socket it sends
on (`OnOpen`, `OnClose`) and the session's channels at the server (`Handle`, one
message at a time, any time later). Handling a publish is not yet its lookup of
subscribers, which is a later task of the pool (`Global.java:644-659`): what
`OwnMessagesComeBack` says is that the session is subscribed when the publish is
handled. Powers of two and what the loop of
`decompose` leaves (`TwoTo`, `Left`) are recursive functions, so that
`TrackerProofs` can reason about them.

`MC*` modules give the constants small values. Definitions introduced as
mistakes are variants of an action with a plausible error; no specification uses
them, each shows that a property would notice.

## What is checked

| run | bounds | shows |
|---|---|---|
| RunnablesQueue | 2 messages, 4 calls, 3 tasks, Errors | order, mutual exclusion, the flag tells the truth; implements the serial executor, its fairness included as long as no Error occurs |
| SessionAgent | 2 messages for each queue, 3 threads for both, Errors, 2 contexts left by others | order and liveness of each queue across the monitor; an Error ends only its queue; a message acts for its own session |
| TimeoutCache | 1 key, 1 caller, 2 pool tasks, time 0..1, 3 calls, no callback or 2, which may throw | one notification per arming; removed callbacks stay silent; `first()` throws only in a race with a caller; expiries are notified while the timer thread lives |
| TwoWayMapping | 3 items, 2 things, nulls | inverse maps, no empty sets, implements the relation |
| Subscriptions | 2 agents, 2 channels, 6 calls, sessions silent before cleanup | the parent sends nothing that nobody wants |
| SessionLifecycle | 2 sessions in sequence, 2 frames, time 0..4, ttl 2, renewal 1 | frames find a session; it is watched; renewals keep its time ahead of its messages; every session's callback is called while the timer thread lives |
| PublishTree | 5 servers, 4 sessions, 1 message, 3 calls of subscribe or unsubscribe | at most once, owed messages arrive |
| Uplink | 2 callers, room for 2, 4 calls, texts and byes | nothing accepted vanishes except what is written last; order per caller; implements the link; callers get away; on a connection that holds everything accepted is handled |
| Tracker | 2 axes, 6-bit integers, 7 positions, 2 sizes of cube, up to 2 requests waiting when a frame is computed | the server follows the tracker; it is subscribed to what it publishes on; neighbours and the centre are heard; the name it publishes on adds up to where it is |

The bounds are small but each leaves room for what could go wrong: a task on its
way out while the next runs and a third is spare; a key re-timed while its last
expiry is under way, which one caller suffices for because `put`, `setTtl` and
`remove` hold the monitor; the last unsubscribe of one session crossing the first
subscribe of another; a session and its successor on one connection; neighbours,
siblings and cousins on the tree and the steps of an unsubscribe overtaken by
those of a subscribe at each level; a full queue with one message in the thread's
hand and a caller in front of it; positions next to the origin, on both sides of
it, across cubes of the larger size, and far off with one axis longer than the
other. With one key the order of several keys does not show; what is said of
`TimeoutCache` is proved for any number of them.

### Where the code does something else than its comments say

Each of these is a run in which TLC finds the behaviour.

- `TimeoutCacheLeak`: an expired entry never leaves the cache (`TimeoutCache.java:112`).
- `SubscriptionsStarved`: after crossing subscribe and unsubscribe a subscriber
  gets nothing from the parent (`Global.java:679-684`, `692-696`).
- `TrackerFar`: away from the origin every size of cube is published under the
  name of the smallest one, because `listToString` takes no second argument
  (`QuadSpacesTracker.js:142`); nobody farther off is subscribed to it.

### Known races

The models have the following behaviours, too. For each a property says what a
comment of the code promises, and a configuration of its own, which is not one of
the runs in `PROJECT.json`, lets TLC find soon that the code does not do
it. The properties of the passing runs hold with these behaviours in them, except
that `NoUpstreamLeak` is restricted by `SilentWhenExpired`.

- `TimeoutCacheTimer.cfg` (`ExpiryIsNotified`): a caller re-times a key while the
  timer thread calls `first()` (`TimeoutCache.java:84`); the exception ends the
  thread, and no entry of the server expires any more. Any key that is put or
  re-timed can do that, on a server with a parent as on a root.
- `TimeoutCacheEarly.cfg` (`TakesOnlyDueKeys`): a key is taken before its time
  when a caller re-times the due one between `first()` and `pollFirst()`
  (`TimeoutCache.java:84`, `87`).
- `SessionLifecycleTimer.cfg` (`KeptAlive`): for the same reason a session in use
  can expire: the timer sees that its time is up, a message renews it, and the
  timer takes it (`SessionAgent.java:91`: "so that we keep alive").
- `SessionLifecycleFrames.cfg` (`EveryFrameReachesASession`): a frame is lost when
  the session ends between the two reads of the attribute (`Global.java:256` and
  `283`).
- `SubscriptionsLate.cfg` (`CleanupIsFinal`): a session can subscribe during or
  after its cleanup, and nothing removes that subscription any more
  (`Global.java:703-705`; `102-104`: "all agents have a timeout that unsubscribes
  them").
- `TrackerNames.cfg` (`ChannelContainsAvatar`): `| 0` cuts towards zero
  (`QuadSpaces.js:36`), so at a negative coordinate the cubes of a name do not
  contain the position (`QuadSpaces.js:24`): -3 is named by the cube from 0 to 4,
  and the cube at zero serves for both sides of it.

The following is what the code does and the properties allow, or do not speak of:

- A message that ends in an `Error` leaves the flag of its queue up, and the queue
  is silent for good (`RunnablesQueue.java:67`).
- A channel subscribed between the cleanup's read and `removeItem` stays
  subscribed at the parent (`Global.java:703-710`): `NoUpstreamLeak` with
  `SilentWhenExpired = FALSE`.
- The keep-alive of a link comes every 12 minutes and a session lives for two
  (`Global.java:112`, `203`, `250`): the parent ends the session of a quiet
  child, and the child does not connect again (`GwemsPubSub.java:26`).
- When a wrapped message throws, the channel stays in the context of the thread,
  and a later message from a socket finds it there: `ActsForItsSession` promises
  the channel to messages of `messageQ` and says nothing of its absence.
- A message whose caller gives up at the full queue is lost without a word
  (`WsClientImpl.java:336`), a `Sub` or an `Unsub` like any other.
- Between the unsubscribe and the subscribe of one `update` the server has
  neither the old nor the new channels (`QuadSpacesTracker.js:161`).
- The neighbours of a cube are computed around the point of entry
  (`QuadSpacesTracker.js:152`): somebody near the far side of the same cube may
  be unheard; `NeighboursOfEntryAreHeard` is what holds.
- Positions outside 32 bits wrap.

### Fairness

The pool of a server grows without limit (`Global.java:156`), so a task handed
over is started and goes on: weak fairness of each task. The timer thread and
the I/O threads are threads of their own: weak fairness. The timer thread can die
(`ReadFirst`, `TimerDies`), and the liveness properties that need it,
`LiveTimerNotifies` and `EverySessionEnds`, promise nothing after that. Time passes. Java lets
a waiting thread wait at a monitor as long as others take it; the models bound
the number of calls, so the others come to an end. In `Uplink` a waiting caller
finds room or its 100 ms end, the client's thread goes on in its loop and the
parent reads its connection: weak fairness of each. A handshake may take for
ever and a connection may last for ever, so `Connect` and `LinkCloses` are not
fair; clients promise nothing, so their actions never are. `Tracker`,
`Subscriptions`, `PublishTree` and `TwoWayMapping` have safety properties only
and assume no fairness.

## What is proved

For every number of messages, threads and calls, every set of items and things:

- `RunnablesQueueProofs`: `TypeOK`, `SingleRunner`, `InOrder`, `FlagMeansRunner`,
  `NoLostWakeup`, and that the queue implements
  `SerialExecutor` (`RunsSerially`). The invariant `IInv` adds to them what makes
  them inductive: after an Error nobody drains (`WedgedIsIdle`), without which a
  task that finds the list empty might lower the flag of a queue that an Error
  has silenced. `FlagMeansRunner` carries `SingleRunner`: with the flag down
  nobody drains, so `run` adds the only task. The proof of each action shows
  which conjuncts it can disturb.
- `TimeoutCacheProofs`: `TypeOK`, `QuietSetHasAKey`, `OncePerArming` and
  `SilencedStaysSilent`, for every number of keys, callers and pool tasks. `IInv`
  says who may hold the monitor (`MonitorIsHeld`) and what remains true of the
  timer thread's unprotected reads when it acts on them (`WhatTheTimerKnows`):
  some key is in the set or in the hands of whoever holds the monitor, so with
  the monitor free it is in the set. `OncePerArming` follows from an account per
  key (`Account`): its notifications, the tasks about to copy its callbacks, its
  place in the set and the timer thread's hand together never exceed its armings.
- `SessionLifecycleProofs`: `TypeOK`, `LookupFindsSession`, `SessionIsWatched`,
  `RenewalsKeepUp`, for every number of sessions and frames and every `Ttl` and
  `RenewAfter`. What is needed beside them: a session that a connection, the I/O
  thread or a message can reach is cached (`ReachableIsCached`, true because an
  expiry takes nothing out of the cache, see `TimeoutCacheLeak`), no message has
  run after the next renewal was due (`RenewalIsDue`), and while the client has not
  said goodbye a session's time is at least `Ttl` after its last renewal
  (`RenewedInTime`), outside the renewal itself. None of it depends on when the timer takes a session or whether it
  lives.
- `UplinkProofs`: `TypeOK`, `NothingVanishes`, `CallersInOrder`, and that the
  client implements `OneWayLink` (`ForwardsInOrder`), for every capacity and
  number of callers. The invariant needed: losses come last, because nothing is
  lost while the connection is up and nothing is sent once it is down.
- `SubscriptionsProofs`: for sessions that are silent when they expire
  (`SilentWhenExpired`) `NoUpstreamLeak`, for every number of sessions and
  channels. It speaks of quiet states only;
  what holds in between is `SomebodyLooks`: a channel that the parent sends, or
  will send once it has handled the link, has a subscriber or a process that is
  about to add one or to look for one. Each action that stops looking has seen a
  subscriber or sent an `Unsub` behind every `Sub`. `removeItem` needs
  `CleanupKnows`: the channels read before it are still all there are, because a
  silent session adds none; without that the property is false.
  For any sessions, `TypeOK` and `Spec => MapSpec`: a step of `Subscriptions` does
  to its maps one call of a method or nothing, so that the next theorems hold of
  `session2channel`, too.
- `SubscriptionsProofs`, of `TwoWayMapping` by itself: `MapTypeOK`, `Inverse`,
  `NoEmptySets`, and that the mapping implements `BinaryRelation`
  (`IsARelation`). `MapTypeOK /\ Inverse` is inductive as it stands; the lemmas say
  what the `_get` methods return after each change, and the proofs about
  `Subscriptions` rest on them. `NullAssumption` says that null is neither an item
  nor a thing.
- `PublishTreeProofs`: `TypeOK`, `AtMostOnce` and `OwedIsReceived` on every tree
  with one root (`TreeAssumption`: one server has no parent, and no chain of
  parents is closed in itself). The argument counts the copies of a message for a
  session, which are what can still become the message received by it: on its way
  up, in a task or a delivery, on its way down, or received. There is never more
  than one (`OneCopyOfEach`), because the server a message came from is excepted
  and a message that came down is not promoted again. `OwedIsUnderWay` says that
  there is one for a session that is owed the message, and that the session is
  still settled: the servers on the way to it are subscribed, no `Unsub` of theirs
  is on a link and none is about to be sent. That lasts because whoever begins to
  unsubscribe after that looks again and finds somebody left. `LocalCalls` says
  that among servers only those with a parent are in the middle of a call.
- `SessionAgentProofs`: `TypeOK`, `EachQueueInOrder`, `ActsForItsSession`, and
  that each queue, seen by itself, is a `RunnablesQueue`. Who holds the monitor
  has a message in hand and runs it in the context it entered with; a message
  has been handed out and not yet run exactly while its task waits for the
  monitor, which is why order survives the monitor although two queues use it.
- `TrackerProofs`: `TypeOK`, `ServerFollowsTracker`, `OwnMessagesComeBack`,
  `NeighboursOfEntryAreHeard`, `CentreIsHeard` and `PublishesWhereItIs`, for every
  set of positions, any levels and integers of any width. `IInv` says of the
  tracker that the string and the spaces of a level are of one position
  (`Computed`), that the first update computes all levels (`AllAtOnce`), and that
  a level which publishes on a whole name shares it with all levels below
  (`LongNamesAgree`), which must hold although an update stops at the first level
  whose string has not changed: the name of the smallest cube is subscribed to at
  the smallest level only. `Follows` says of every channel, not only of those in
  use, what the server will have after all that is on the link. The names
  need bounds on digits: after k rounds a coordinate n has about n / 4^k left, up
  to two thirds, so the loop ends and a point less than a third of a cube from
  the origin has no digit at that size. `OwnMessagesComeBack` has the hypothesis
  that no position is too large for the integers (`Fits`), since a name that
  wraps at the smallest level may be short and stand for no cube near the
  tracker; `PublishesWhereItIs` has that of `InRange` in the property: the name on
  which the tracker publishes is of its present position (`NameIsCurrent`), and
  what is cut off on the way to it is less than a smallest cube. The other
  theorems hold for wrapped positions, too.

Each specification's assumptions on its constants (`ThreadsAssumption`,
`SessionsAssumption`, `TreeAssumption` and so on, in the modules) and the
hypotheses named above are the only assumptions of its proofs.

Recursive functions (`TwoTo`, `Left`, the sum in `reconstitute`) are proved to
exist and to be what their definitions say (`Recursion`, in `TrackerProofs`), and
induction over naturals is done with least members of sets, from the
well-foundedness of `<`; the library's rules of induction take an operator as a
parameter and cannot be used here.

Only model-checked: the liveness properties (`ServesAsSerially`,
`OtherQueueLives`, `LiveTimerNotifies`, `EverySessionEnds`, `CallersGetAway`,
`AcceptedIsHandled`), which are out of the prover's reach. Every safety property
and every refinement that a passing run checks has a theorem. `TypeOK` is in the
runs where it says what no other property of the run does, and proved of every
module; `NoLostWakeup` is proved and in no run.

## Not modelled

- Sessions of HTTP posts (`Global.executeHttpMessage`): a session without a
  connection, made for one message and ended by its time, with the callback that
  `SessionLifecycle` has.
- JavaScript engines: `get` returns the last engine of the list and leaves it
  there, so that the pool promises no thread an engine of its own, and the list
  never shrinks. The callback of `setInterval`, which re-times its own key, is
  `CallbackRenews` of `TimeoutCache`.
- The order of the steps in the constructor of `Agent`: a session's key is random
  and nobody has it before the constructor ends.
- The avatars of others in the tracker, which are added when heard and never
  removed, and the times of its messages: any level may be due in any frame.
  A page whose socket has closed stays cut off.
- `Global.stop`: nothing is promised of a stopped server. Counters kept for tests
  and the checks of channel names.
- Netty bootstrap, static files, serialization, Redis (no longer created) and
  DynamoDB keep no state of their own or are not used.
- Most of `src/WebContent/js` is vendored (`three.js`, `physi.js`, `ammo.js` and
  controls): nearly all lines of JavaScript in the repository, and none of the
  system's own logic, which is the Java of `org/gwems` and `gwems` and the
  JavaScript of `QuadSpaces*.js` and `GWEMS.js`.

## Plan

Done, in this order: `RunnablesQueue`, `TimeoutCache`, `TwoWayMapping`,
`Subscriptions`, `SessionLifecycle`, `PublishTree`, `SessionAgent`, `QuadSpaces`
and `Tracker`, `Uplink`; proofs of the safety properties of all of them.

What is left: HTTP sessions in `SessionLifecycle`.
