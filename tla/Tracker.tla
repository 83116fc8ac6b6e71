------------------------------- MODULE Tracker -------------------------------
(***************************************************************************)
(* src/WebContent/js/QuadSpacesTracker.js, the WebSocket of js/GWEMS.js    *)
(* that it sends on, and what the server keeps for that socket.            *)
(*                                                                         *)
(* A page with an avatar publishes its position on the name of the cube it *)
(* is in, for each of several sizes of cubes, and subscribes to the cubes  *)
(* around it.  update() runs in every frame.  What it sends is handled by  *)
(* the server one message at a time, in order (SessionAgent), any time     *)
(* later.                                                                  *)
(***************************************************************************)
EXTENDS QuadSpaces

CONSTANTS Positions,            \* where the avatar may be
          MinLevel, MaxLevel,   \* powers of two of the smallest and past the largest cubes
          MaxPending            \* bound: a frame is computed when at most so many messages wait

ASSUME LevelAssumption == MinLevel \in Nat /\ MaxLevel \in Nat /\ MinLevel < MaxLevel
ASSUME PositionAssumption == Positions \subseteq Vectors
ASSUME PendingAssumption == MaxPending \in Nat

Levels == {l \in MinLevel..(MaxLevel - 1) : (l - MinLevel) % 2 = 0}
Index(l) == (l - MinLevel) \div 2       \* of the level in this.intervals

VARIABLES isOpen,           \* WebSocketClient.isOpen
          ended,            \* the socket has been closed; no page opens another
          position,         \* of the avatar
          string,           \* Level.string: the channel each level publishes on
          subscribeSpaces,  \* Level.subscribeSpaces: the channels it subscribes to
          link,             \* messages on their way to the server, oldest first
          subscribed,       \* the channels of the session at the server
          enteredAt         \* history: where each level was last computed

vars == <<isOpen, ended, position, string, subscribeSpaces, link, subscribed, enteredAt>>

NoName == << >>         \* Level.string of a level that has not been computed

Init == /\ isOpen = FALSE
        /\ ended = FALSE
        /\ position \in Positions
        /\ string = [l \in Levels |-> NoName]
        /\ subscribeSpaces = [l \in Levels |-> {}]
        /\ link = << >>
        /\ subscribed = {}
        /\ enteredAt = [l \in Levels |-> position]

(* All that a tracker has subscribed to.                                   *)
Wanted == UNION {subscribeSpaces[l] : l \in Levels}

-------------------------------------------------------------------------------
(* A mistake for the mutants: the strings of the levels without a cube of  *)
(* their own begin one level late.                                         *)
LateChannelString(v, l) ==
    LET lodlist == decompose(v, MinLevel)
    IN  IF Index(l) <= Len(lodlist) THEN lodlist ELSE << [at |-> Origin, p |-> l] >>

(* `str' of a level.  listToString takes no second argument, so a cube     *)
(* away from the origin is published under its whole name at every level.  *)
ChannelString(v, l) ==
    LET lodlist == decompose(v, MinLevel)
    IN  IF Index(l) < Len(lodlist) THEN lodlist ELSE << [at |-> Origin, p |-> l] >>

(* The levels that update() computes anew: it stops at the first, from the *)
(* smallest up, whose string has not changed.                              *)
Moved(v) == {l \in Levels : \A k \in Levels : k <= l => string[k] # ChannelString(v, k)}

(* GWEMS.subscribe(aMap, socket) and GWEMS.unsubscribe(aMap, socket) send  *)
(* one message for each key; an element of link stands for those of them   *)
(* that the server has not handled yet.                                    *)
Requests(op, channels) ==
    IF channels = {} THEN << >> ELSE << [op |-> op, channels |-> channels] >>

(* getPublishString(level.string, msg) for the levels whose time has come. *)
Publications(due, strings) == Requests("publish", {strings[l] : l \in due})

(* Mistakes for the mutants: what is in both sets is lost when subscribing *)
(* comes first; a message published first reaches no new cube.             *)
SubscribesFirst(left, entered, publications) ==
    Requests("subscribe", entered) \o Requests("unsubscribe", left) \o publications
PublishesFirst(left, entered, publications) ==
    publications \o Requests("unsubscribe", left) \o Requests("subscribe", entered)

(* What one call of update() sends: it unsubscribes from what it left,     *)
(* subscribes to what it entered and only then publishes.                  *)
Sent(left, entered, publications) ==
    Requests("unsubscribe", left) \o Requests("subscribe", entered) \o publications

-------------------------------------------------------------------------------
(* socket.onopen                                                           *)
OnOpen == /\ ~isOpen /\ ~ended
          /\ isOpen' = TRUE
          /\ UNCHANGED <<ended, position, string, subscribeSpaces, link, subscribed, enteredAt>>

(* socket.onclose, and the end of the session at the server.               *)
OnClose == /\ isOpen
           /\ isOpen' = FALSE
           /\ ended' = TRUE
           /\ link' = << >>
           /\ subscribed' = {}
           /\ UNCHANGED <<position, string, subscribeSpaces, enteredAt>>

(* Tracker.update(v, velocity, delta) after the controls have moved the    *)
(* avatar to v; `due' are the levels whose nextSend has passed.            *)
Update(v, due) ==
    LET moved == Moved(v)
        left == UNION {subscribeSpaces[l] : l \in moved}
        entered == UNION {surroundingSpaceNames(v, l) : l \in moved}
    IN  /\ isOpen
        /\ Len(link) <= MaxPending
        /\ position' = v
        /\ string' = [l \in Levels |-> IF l \in moved THEN ChannelString(v, l) ELSE string[l]]
        /\ subscribeSpaces' = [l \in Levels |-> IF l \in moved THEN surroundingSpaceNames(v, l)
                                                              ELSE subscribeSpaces[l]]
        /\ enteredAt' = [l \in Levels |-> IF l \in moved THEN v ELSE enteredAt[l]]
        /\ link' = link \o Sent(left, entered, Publications(due, string'))
        /\ UNCHANGED <<isOpen, ended, subscribed>>

(* "don't start if the socket is not done yet"                             *)
UpdateNotOpen(v) == /\ ~isOpen
                    /\ position' = v
                    /\ UNCHANGED <<isOpen, ended, string, subscribeSpaces, link, subscribed,
                                   enteredAt>>

(* Subscribe, Unsubscribe and Publish at the server, one message.          *)
Handle ==
    /\ link # << >>
    /\ LET op == Head(link).op
           channel == CHOOSE c \in Head(link).channels : TRUE
           others == Head(link).channels \ {channel}
       IN  /\ link' = IF others = {} THEN Tail(link) ELSE [link EXCEPT ![1].channels = others]
           /\ \/ op = "subscribe" /\ subscribed' = subscribed \cup {channel}
              \/ op = "unsubscribe" /\ subscribed' = subscribed \ {channel}
              \/ op = "publish" /\ UNCHANGED subscribed
    /\ UNCHANGED <<isOpen, ended, position, string, subscribeSpaces, enteredAt>>

Next == \/ OnOpen \/ OnClose \/ Handle
        \/ \E v \in Positions : UpdateNotOpen(v) \/ \E due \in SUBSET Levels : Update(v, due)

Spec == Init /\ [][Next]_vars

-------------------------------------------------------------------------------
Names == Seq(Cubes)
TypeOK == /\ isOpen \in BOOLEAN /\ ended \in BOOLEAN
          /\ position \in Positions
          /\ string \in [Levels -> Names]
          /\ \A l \in Levels : subscribeSpaces[l] \subseteq Names
          /\ link \in Seq([op : {"subscribe", "unsubscribe", "publish"}, channels : SUBSET Names])
          /\ subscribed \subseteq Names
          /\ enteredAt \in [Levels -> Positions]

(* What the server will have once it has handled link[1..n]: the last      *)
(* request about a channel decides.                                        *)
SubscribedAfter(n, channel) ==
    LET about == {i \in 1..n : link[i].op # "publish" /\ channel \in link[i].channels}
    IN  IF about = {} THEN channel \in subscribed
        ELSE \E i \in about : link[i].op = "subscribe" /\ \A k \in about : k <= i

(* The server is on its way to exactly the channels the tracker believes   *)
(* to be subscribed to, whatever cubes it left and entered again while its *)
(* requests were under way (update, GWEMS.subscribe, GWEMS.unsubscribe).   *)
ServerFollowsTracker ==
    isOpen => \A channel \in Wanted \cup subscribed \cup UNION {link[i].channels : i \in DOMAIN link} :
                  SubscribedAfter(Len(link), channel) <=> channel \in Wanted

(* When the server handles a message that the tracker publishes, the       *)
(* tracker is subscribed to its channel, on every level (update subscribes *)
(* before it publishes; selfCount counts what comes back).  Who is given   *)
(* the message is looked up later, by a task of the pool                   *)
(* (Global.java:644-659): that is PublishTree's subject.                   *)
OwnMessagesComeBack ==
    \A i \in DOMAIN link :
        link[i].op = "publish" => \A c \in link[i].channels : SubscribedAfter(i - 1, c)

Settled == isOpen /\ link = << >> /\ \A l \in Levels : string[l] # NoName

Near(v, w, distance) == \A a \in Axes : v[a] - w[a] \in -distance..distance

(* A settled tracker hears everybody within three quarters of a cube from  *)
(* where it entered its cube: no cube in between is left out.              *)
NeighboursOfEntryAreHeard ==
    Settled => \A w \in Positions :
        Near(w, enteredAt[MinLevel], (3 * TwoTo[MinLevel]) \div 4)
            => ChannelString(w, MinLevel) \in subscribed

(* At level l everybody less than a third of a cube from the origin        *)
(* publishes on the one cube there, and a settled tracker in the cubes     *)
(* that meet at the origin hears all of them.                              *)
CentreIsHeard ==
    Settled => \A l \in Levels \ {MinLevel} :
        (\A a \in Axes : enteredAt[l][a] \in (1 - TwoTo[l])..(TwoTo[l] - 1)) =>
            \A w \in Positions :
                (\A a \in Axes : 3 * w[a] \in (1 - TwoTo[l])..(TwoTo[l] - 1))
                    => ChannelString(w, l) \in subscribed

(* "Can be added to recover a vector" (QuadSpaces.js, reconstitute): the   *)
(* cubes of the channel that the tracker now publishes on add up to a      *)
(* point less than one smallest cube away from the avatar on every axis.   *)
(* No move leaves an old name behind, and nothing is lost in the digits,   *)
(* whatever their signs and however many more another axis has, as long as *)
(* the integers are wide enough.                                           *)
PublishesWhereItIs ==
    isOpen /\ string[MinLevel] # NoName /\ InRange(position, MinLevel)
        => Near(position, reconstitute(string[MinLevel]), TwoTo[MinLevel] - 1)

(* QuadSpaces.js:24 "a list of quads, low quads first, that contain this   *)
(* vector": the cube that the channel names, 2^MinLevel wide from its      *)
(* least corner up (:17, getMinCorner), has the avatar in it.              *)
ChannelContainsAvatar ==
    isOpen /\ string[MinLevel] # NoName /\ InRange(position, MinLevel) =>
        LET corner == reconstitute(string[MinLevel])
        IN  \A a \in Axes : position[a] - corner[a] \in 0..(TwoTo[MinLevel] - 1)

(* QuadSpacesTracker.js:8 "after 4km we'll be invisible" (see there for    *)
(* each size of cube): somebody within three quarters of a cube of some    *)
(* size, from where the settled tracker computed that size, is heard on    *)
(* some level.                                                             *)
FarIsHeard ==
    Settled => \A w \in Positions :
        (\E l \in Levels : Near(w, enteredAt[l], (3 * TwoTo[l]) \div 4))
            => \E l \in Levels : ChannelString(w, l) \in subscribed
===============================================================================
