---------------------------- MODULE PublishTreeProofs ----------------------------
(***************************************************************************)
(* Theorems about PublishTree, for every tree of servers with one root,    *)
(* every set of sessions and of messages.                                  *)
(*                                                                         *)
(* The argument counts copies.  A copy of the message m for the session a  *)
(* is an m that can still become an m received by a, or is one: a Pub that *)
(* climbs from a server off the way from the root to a; a task on that way *)
(* that excepts nobody on it; a delivery to somebody on it; an m that      *)
(* descends to a server on it; an m received.  There is never more than    *)
(* one, because no server has two children on the way, a child's session   *)
(* is excepted when the message came from it, and a message that came down *)
(* is not promoted again.  There is one as long as the servers on the way  *)
(* are subscribed, so a session that is owed a message is given it.        *)
(***************************************************************************)
EXTENDS PublishTree, TLAPS

(* The way to a session: the servers from the root to its leaf.            *)
On(a) == Path[Home[a]]
Towards(a) == On(a) \cup {a}

(* Path[s] is the least set of servers that holds s and the parents of its *)
(* members.                                                                *)
LEMMA PathIsLeast ==
    ASSUME NEW s \in Servers
    PROVE  /\ s \in Path[s] /\ Path[s] \subseteq Servers /\ Upward(Path[s])
           /\ \A C \in SUBSET Servers : s \in C /\ Upward(C) => Path[s] \subseteq C
  BY TreeAssumption DEF Path, Upward, HasParent

(* A path is its first server and the path of that one's parent.           *)
LEMMA PathByParent ==
    ASSUME NEW s \in Servers, HasParent(s)
    PROVE  Parent[s] \in Servers /\ Path[s] = {s} \cup Path[Parent[s]]
  <1>1. Parent[s] \in Servers
    BY TreeAssumption DEF HasParent
  <1>2. Parent[s] \in Path[s]
    BY PathIsLeast DEF Upward
  <1>3. Path[Parent[s]] \subseteq Path[s]
    BY <1>1, <1>2, PathIsLeast
  <1>4. Upward({s} \cup Path[Parent[s]])
    BY <1>1, PathIsLeast DEF Upward
  <1>5. Path[s] \subseteq {s} \cup Path[Parent[s]]
    BY <1>1, <1>4, PathIsLeast
  <1> QED  BY <1>1, <1>3, <1>5, PathIsLeast

(* The path of a server without a parent is that server.                   *)
LEMMA PathOfRoot ==
    ASSUME NEW s \in Servers, ~HasParent(s)
    PROVE  Path[s] = {s}
  <1>1. {s} \in SUBSET Servers /\ s \in {s} /\ Upward({s})
    BY DEF Upward
  <1> QED  BY <1>1, PathIsLeast, Zenon

(* No server is above itself: such a circle would be a chain of parents    *)
(* closed in itself.                                                       *)
LEMMA NoCircle ==
    ASSUME NEW s \in Servers, HasParent(s)
    PROVE  s \notin Path[Parent[s]]
  <1> SUFFICES ASSUME s \in Path[Parent[s]] PROVE FALSE
    OBVIOUS
  <1> DEFINE p == Parent[s]
             C == {z \in Path[p] : s \in Path[z]}
  <1>1. p \in Servers /\ p \in C /\ C \in SUBSET Servers
    BY PathByParent, PathIsLeast
  <1>2. ASSUME NEW z \in C PROVE HasParent(z) /\ Parent[z] \in C
    <2>1. z \in Servers /\ s \in Path[z]
      BY <1>1, <1>2
    <2>2. CASE z = s
      BY <1>1, <2>2
    <2>3. CASE z # s
      <3>1. HasParent(z)
        BY <2>1, <2>3, PathOfRoot
      <3>2. s \in Path[Parent[z]]
        BY <2>1, <2>3, <3>1, PathByParent
      <3> QED  BY <1>1, <1>2, <3>1, <3>2, PathIsLeast DEF Upward
    <2> QED  BY <2>2, <2>3
  <1> QED  BY <1>1, <1>2, TreeAssumption

(* The root is on every path.                                              *)
LEMMA RootOnPath ==
    ASSUME NEW s \in Servers, NEW u \in Servers, ~HasParent(u)
    PROVE  u \in Path[s]
  <1>1. PICK v \in Path[s] : HasParent(v) => Parent[v] \notin Path[s]
    BY PathIsLeast, TreeAssumption
  <1>2. ~HasParent(v) /\ v \in Servers
    BY <1>1, PathIsLeast DEF Upward
  <1> QED  BY <1>1, <1>2, TreeAssumption

(* Of two servers of a path one is above the other.                        *)
LEMMA PathIsLinear ==
    ASSUME NEW s \in Servers, NEW x \in Path[s], NEW y \in Path[s]
    PROVE  y \in Path[x] \/ x \in Path[y]
  <1> DEFINE G == {u \in Path[s] : \A v \in Path[s] : v \in Path[u] \/ u \in Path[v]}
  <1>1. s \in G /\ G \in SUBSET Servers
    BY PathIsLeast
  <1>2. ASSUME NEW u \in G, HasParent(u) PROVE Parent[u] \in G
    <2>1. Parent[u] \in Path[s] /\ u \in Servers
      BY <1>1, <1>2, PathIsLeast DEF Upward
    <2>2. ASSUME NEW v \in Path[s] PROVE v \in Path[Parent[u]] \/ Parent[u] \in Path[v]
      <3>0. v \in Servers
        BY PathIsLeast
      <3>1. CASE v \in Path[u]
        <4>1. v = u \/ v \in Path[Parent[u]]
          BY <1>2, <2>1, <3>1, PathByParent
        <4> QED  BY <1>2, <2>1, <4>1, PathByParent, PathIsLeast DEF Upward
      <3>2. CASE u \in Path[v]
        BY <1>2, <2>1, <3>0, <3>2, PathIsLeast DEF Upward
      <3> QED  BY <3>1, <3>2
    <2> QED  BY <2>1, <2>2
  <1>3. Path[s] \subseteq G
    BY <1>1, <1>2, PathIsLeast DEF Upward
  <1> QED  BY <1>3

(* A server has at most one child on a path.                               *)
LEMMA OneWayDown ==
    ASSUME NEW s \in Servers, NEW x \in Path[s], NEW y \in Path[s],
           HasParent(x), HasParent(y), Parent[x] = Parent[y]
    PROVE  x = y
  <1>1. x \in Servers /\ y \in Servers
    BY PathIsLeast
  <1>2. y \in Path[x] => y = x \/ y \in Path[Parent[x]]
    BY <1>1, PathByParent
  <1>3. x \in Path[y] => x = y \/ x \in Path[Parent[y]]
    BY <1>1, PathByParent
  <1> QED  BY <1>1, <1>2, <1>3, NoCircle, PathIsLinear

(* Every server of a path but the first has a child on it.                 *)
LEMMA StepDown ==
    ASSUME NEW s \in Servers, NEW u \in Path[s], u # s
    PROVE  \E c \in Path[s] : HasParent(c) /\ Parent[c] = u
  <1> SUFFICES ASSUME \A c \in Path[s] : HasParent(c) => Parent[c] # u PROVE FALSE
    OBVIOUS
  <1>1. Upward(Path[s] \ {u}) /\ s \in Path[s] \ {u} /\ Path[s] \ {u} \in SUBSET Servers
    BY PathIsLeast DEF Upward
  <1> QED  BY <1>1, PathIsLeast

(* The home of a session is a leaf: nobody's parent.                       *)
LEMMA PathMeetsLeaf ==
    ASSUME NEW a \in Sessions
    PROVE  /\ Home[a] \in Servers
           /\ \A c \in Servers : HasParent(c) => Parent[c] # Home[a]
  BY HomeAssumption DEF Inner

-------------------------------------------------------------------------------
(* What is sent up; the tasks and the deliveries of the pools.             *)
Entries == {Sub, Unsub} \cup {Pub(m) : m \in Messages}
Works == [at : Servers, msg : Messages, except : Servers \cup {Nobody}]
Deeds == [to : Addressees, msg : Messages]

(* Where a link holds an entry; the n-th copy of x in a bag. The lemmas    *)
(* say what the operators of PublishTree do to the links and bags in these *)
(* terms, in which a copy that stays keeps its place.                      *)
At(seq, n, e) == n \in DOMAIN seq /\ seq[n] = e
Holds(bag, x, n) == x \in DOMAIN bag /\ n \in 1..bag[x]

(* Append adds one entry and moves none.                                   *)
LEMMA AppendAt ==
    ASSUME NEW S, NEW seq \in Seq(S), NEW d \in S, NEW n, NEW e
    PROVE  /\ At(Append(seq, d), n, e) <=> At(seq, n, e) \/ (n = Len(seq) + 1 /\ e = d)
           /\ ~At(seq, Len(seq) + 1, e)
  BY DEF At

(* Tail moves each entry but the first by one place.                       *)
LEMMA TailAt ==
    ASSUME NEW S, NEW seq \in Seq(S), seq # << >>, NEW n, NEW e
    PROVE  At(Tail(seq), n, e) <=> At(seq, n + 1, e) /\ n \in Nat \ {0}
  BY DEF At

(* The first entry is the head, and every other place has a place before   *)
(* it.                                                                     *)
LEMMA HeadAt ==
    ASSUME NEW S, NEW seq \in Seq(S), seq # << >>, NEW n, NEW e
    PROVE  /\ At(seq, 1, Head(seq))
           /\ At(seq, 1, e) => e = Head(seq)
           /\ At(seq, n, e) => n = 1 \/ (n - 1 \in Nat \ {0} /\ (n - 1) + 1 = n)
  BY DEF At

(* Handing work over adds one copy of each piece of it.                    *)
LEMMA HandHolds ==
    ASSUME NEW bag, IsABag(bag), NEW work, NEW x, NEW n
    PROVE  /\ Holds(Hand(bag, work), x, n) <=>
                  Holds(bag, x, n) \/ (x \in work /\ n = Hand(bag, work)[x])
           /\ x \in work => ~Holds(bag, x, Hand(bag, work)[x])
  BY DEF IsABag, SetToBag, (+), Hand, Holds

(* Done takes one copy out of the bag.                                     *)
LEMMA DoneHolds ==
    ASSUME NEW bag, IsABag(bag), NEW t \in DOMAIN bag, NEW x, NEW n
    PROVE  /\ Holds(Done(bag, t), x, n) <=> Holds(bag, x, n) /\ ~(x = t /\ n = bag[t])
           /\ Holds(bag, t, bag[t])
  BY DEF IsABag, SetToBag, (-), Done, Holds

(* Both keep a bag a bag.                                                  *)
LEMMA BagsStayBags ==
    ASSUME NEW bag, IsABag(bag)
    PROVE  /\ \A work : IsABag(Hand(bag, work)) /\ DOMAIN Hand(bag, work) = DOMAIN bag \cup work
           /\ \A t \in DOMAIN bag : IsABag(Done(bag, t)) /\ DOMAIN Done(bag, t) \subseteq DOMAIN bag
  BY DEF IsABag, SetToBag, (+), (-), Hand, Done

-------------------------------------------------------------------------------
(* The copies of m for a: f says where, x and n which.                     *)
Climbing(a, m, s, n) == s \in Servers \ On(a) /\ At(up[s], n, Pub(m))
Descending(a, m, s, n) == s \in On(a) /\ At(down[s], n, m)
InTask(a, m, t, n) == Holds(tasks, t, n) /\ t.msg = m /\ t.at \in On(a) /\ t.except \notin On(a)
InDelivery(a, m, d, n) == Holds(deliveries, d, n) /\ d.msg = m /\ d.to \in Towards(a)
Arrived(a, m, b, n) == b = a /\ n \in 1..received[a][m]

Copy(a, m, f, x, n) == \/ f = "up" /\ Climbing(a, m, x, n)
                       \/ f = "down" /\ Descending(a, m, x, n)
                       \/ f = "task" /\ InTask(a, m, x, n)
                       \/ f = "delivery" /\ InDelivery(a, m, x, n)
                       \/ f = "received" /\ Arrived(a, m, x, n)

OneCopy(a, m) == \A f, x, n, g, y, r : Copy(a, m, f, x, n) /\ Copy(a, m, g, y, r)
                                          => f = g /\ x = y /\ n = r
SomeCopy(a, m) == \E f, x, n : Copy(a, m, f, x, n)

(* Who subscribes on a server, and whom its tasks except.                  *)
LocalSubscribers ==
    \A s \in Servers : \A x \in subs[s] : \/ x \in Servers /\ HasParent(x) /\ Parent[x] = s
                                          \/ x \in Sessions /\ Home[x] = s
LocalTasks ==
    \A t \in DOMAIN tasks : \/ t.except = Nobody
                            \/ t.except \in Servers /\ HasParent(t.except) /\ Parent[t.except] = t.at

USE DEF On, Towards

(* Promoted changes one link only, if any.                                 *)
LEMMA PromotedLinks ==
    ASSUME NEW links \in [Servers -> Seq(Entries)], NEW s \in Servers, NEW message \in Entries
    PROVE  /\ Promoted(links, s, message) \in [Servers -> Seq(Entries)]
           /\ Promoted(links, s, message)[s] =
                 IF HasParent(s) THEN Append(links[s], message) ELSE links[s]
           /\ \A v \in Servers \ {s} : Promoted(links, s, message)[v] = links[v]
  <1>1. Append(links[s], message) \in Seq(Entries)
    OBVIOUS
  <1> QED  BY <1>1 DEF Promoted

(* more is links with one more message on the link of s, if s has a        *)
(* parent.                                                                 *)
OneMore(links, s, message, more) ==
    /\ more \in [Servers -> Seq(Entries)]
    /\ \A v \in Servers : \A n, e :
          At(more[v], n, e) <=>
             \/ At(links[v], n, e)
             \/ v = s /\ HasParent(s) /\ n = Len(links[s]) + 1 /\ e = message
    /\ \A e : ~At(links[s], Len(links[s]) + 1, e)

(* Promoted adds one entry to the link of a server with a parent.          *)
LEMMA PromotedAt ==
    ASSUME NEW links \in [Servers -> Seq(Entries)], NEW s \in Servers, NEW message \in Entries
    PROVE  OneMore(links, s, message, Promoted(links, s, message))
  <1>1. links[s] \in Seq(Entries)
    OBVIOUS
  <1>2. \A n, e : /\ At(Append(links[s], message), n, e) <=>
                        At(links[s], n, e) \/ (n = Len(links[s]) + 1 /\ e = message)
                  /\ ~At(links[s], Len(links[s]) + 1, e)
    BY <1>1, AppendAt, Zenon
  <1> QED  BY <1>2, PromotedLinks DEF OneMore

(* Taking the head off a link moves the entries of that link.              *)
LEMMA TakenAt ==
    ASSUME NEW S, NEW links \in [Servers -> Seq(S)], NEW s \in Servers, links[s] # << >>
    PROVE  /\ [links EXCEPT ![s] = Tail(@)] \in [Servers -> Seq(S)]
           /\ \A v \in Servers : \A n, e :
                 At([links EXCEPT ![s] = Tail(@)][v], n, e) <=>
                    IF v = s THEN At(links[s], n + 1, e) /\ n \in Nat \ {0} ELSE At(links[v], n, e)
           /\ \A v \in Servers \ {s} : [links EXCEPT ![s] = Tail(@)][v] = links[v]
  <1>1. links[s] \in Seq(S) /\ Tail(links[s]) \in Seq(S)
    OBVIOUS
  <1>2. \A n, e : At(Tail(links[s]), n, e) <=> At(links[s], n + 1, e) /\ n \in Nat \ {0}
    BY <1>1, TailAt, Zenon
  <1> QED  BY <1>1, <1>2

(* more is links with m sent to s.                                         *)
OneSent(links, s, m, more) ==
    /\ \A v \in Servers : \A n, e :
          At(more[v], n, e) <=> At(links[v], n, e) \/ (v = s /\ n = Len(links[s]) + 1 /\ e = m)
    /\ \A e : ~At(links[s], Len(links[s]) + 1, e)

(* Sending adds one entry to a link.                                       *)
LEMMA SentAt ==
    ASSUME NEW S, NEW links \in [Servers -> Seq(S)], NEW s \in Servers, NEW m \in S
    PROVE  OneSent(links, s, m, [links EXCEPT ![s] = Append(@, m)])
  <1>1. links[s] \in Seq(S) /\ Append(links[s], m) \in Seq(S)
    OBVIOUS
  <1>2. \A n, e : /\ At(Append(links[s], m), n, e) <=>
                        At(links[s], n, e) \/ (n = Len(links[s]) + 1 /\ e = m)
                  /\ ~At(links[s], Len(links[s]) + 1, e)
    BY <1>1, AppendAt, Zenon
  <1> QED  BY <1>1, <1>2 DEF OneSent

-------------------------------------------------------------------------------
(* The parent p takes a Pub off the link of its child s and publishes it.  *)
PubTaken(s, p, m, t) ==
    /\ p \in Servers /\ p # s
    /\ t \in Works
    /\ up' \in [Servers -> Seq(Entries)]
    /\ \A v \in Servers : \A n, e :
          At(up'[v], n, e) <=>
             \/ v = s /\ At(up[s], n + 1, e) /\ n \in Nat \ {0}
             \/ v # s /\ At(up[v], n, e)
             \/ v = p /\ HasParent(p) /\ n = Len(up[p]) + 1 /\ e = Pub(m)
    /\ \A e : /\ ~At(up[p], Len(up[p]) + 1, e)
              /\ At(up[s], 1, e) <=> e = Pub(m)
    /\ \A n, e : At(up[s], n, e) => n = 1 \/ (n - 1 \in Nat \ {0} /\ (n - 1) + 1 = n)
    /\ \A x, n : Holds(tasks', x, n) <=> Holds(tasks, x, n) \/ (x = t /\ n = tasks'[t])
    /\ ~Holds(tasks, t, tasks'[t])
    /\ IsABag(tasks') /\ DOMAIN tasks' = DOMAIN tasks \cup {t}

(* The parent p takes a Pub off the link of its child s: what publish does *)
(* to the links and to the tasks.                                          *)
LEMMA PubArrives ==
    ASSUME TypeOK, NEW s \in Servers, HasParent(s), up[s] # << >>, NEW p, p = Parent[s],
           NEW m \in Messages, Head(up[s]) = Pub(m),
           PublishAt([up EXCEPT ![s] = Tail(@)], p, m, s),
           NEW t, t = [at |-> p, msg |-> m, except |-> s]
    PROVE  PubTaken(s, p, m, t)
  <1>1. p \in Servers /\ p # s
    BY PathByParent, NoCircle, PathIsLeast
  <1>2. up \in [Servers -> Seq(Entries)] /\ IsABag(tasks) /\ Pub(m) \in Entries
    BY DEF TypeOK, Entries
  <1>3. PICK links : links = [up EXCEPT ![s] = Tail(@)]
    OBVIOUS
  <1>4. /\ links \in [Servers -> Seq(Entries)]
        /\ links[p] = up[p]
        /\ \A v \in Servers : \A n, e :
              At(links[v], n, e) <=>
                 IF v = s THEN At(up[s], n + 1, e) /\ n \in Nat \ {0} ELSE At(up[v], n, e)
    BY <1>1, <1>2, <1>3, TakenAt
  <1>5. up' = Promoted(links, p, Pub(m)) /\ tasks' = Hand(tasks, {t})
    BY <1>3 DEF PublishAt
  <1>6. /\ up' \in [Servers -> Seq(Entries)]
        /\ \A v \in Servers : \A n, e :
              At(up'[v], n, e) <=>
                 At(links[v], n, e) \/ (v = p /\ HasParent(p) /\ n = Len(links[p]) + 1 /\ e = Pub(m))
        /\ \A e : ~At(links[p], Len(links[p]) + 1, e)
    <2>1. OneMore(links, p, Pub(m), Promoted(links, p, Pub(m)))
      BY <1>1, <1>2, <1>4, PromotedAt, Zenon
    <2> QED  BY <1>5, <2>1 DEF OneMore
  <1>7. /\ \A e : At(up[s], 1, e) <=> e = Pub(m)
        /\ \A n, e : At(up[s], n, e) => n = 1 \/ (n - 1 \in Nat \ {0} /\ (n - 1) + 1 = n)
    <2>1. up[s] \in Seq(Entries)
      BY <1>2
    <2>2. \A n, e : /\ At(up[s], 1, Head(up[s]))
                    /\ At(up[s], 1, e) => e = Head(up[s])
                    /\ At(up[s], n, e) => n = 1 \/ (n - 1 \in Nat \ {0} /\ (n - 1) + 1 = n)
      BY <2>1, HeadAt, Zenon
    <2> QED  BY <2>2
  <1>8. /\ \A x, n : Holds(tasks', x, n) <=> Holds(tasks, x, n) \/ (x \in {t} /\ n = tasks'[x])
        /\ \A x : x \in {t} => ~Holds(tasks, x, tasks'[x])
    <2>1. \A x, n : /\ Holds(Hand(tasks, {t}), x, n) <=>
                          Holds(tasks, x, n) \/ (x \in {t} /\ n = Hand(tasks, {t})[x])
                    /\ x \in {t} => ~Holds(tasks, x, Hand(tasks, {t})[x])
      BY <1>2, HandHolds, Zenon
    <2> QED  BY <1>5, <2>1
  <1>9. IsABag(tasks') /\ DOMAIN tasks' = DOMAIN tasks \cup {t}
    <2>1. IsABag(Hand(tasks, {t})) /\ DOMAIN Hand(tasks, {t}) = DOMAIN tasks \cup {t}
      BY <1>2, BagsStayBags, Zenon
    <2> QED  BY <1>5, <2>1
  <1>10. t \in Works
    BY <1>1 DEF Works
  <1>11. /\ \A x, n : Holds(tasks', x, n) <=> Holds(tasks, x, n) \/ (x = t /\ n = tasks'[t])
         /\ ~Holds(tasks, t, tasks'[t])
    BY <1>8, Zenon
  <1>12. /\ \A v \in Servers : \A n, e :
              At(up'[v], n, e) <=>
                 \/ v = s /\ At(up[s], n + 1, e) /\ n \in Nat \ {0}
                 \/ v # s /\ At(up[v], n, e)
                 \/ v = p /\ HasParent(p) /\ n = Len(up[p]) + 1 /\ e = Pub(m)
         /\ \A e : ~At(up[p], Len(up[p]) + 1, e)
    BY <1>4, <1>6
  <1> QED  BY <1>1, <1>6, <1>7, <1>9, <1>10, <1>11, <1>12, Zenon DEF PubTaken

(* The copies afterwards: a Pub from off the way to a gives way to one     *)
(* copy, which is the task, if the parent is on the way, or the Pub that   *)
(* climbs on, if it is not. A Pub from a server on the way was no copy,    *)
(* and neither is the task that excepts that server.                       *)
LEMMA PubKeepsCopies ==
    ASSUME TypeOK, NEW s \in Servers, HasParent(s), up[s] # << >>,
           NEW m \in Messages, Head(up[s]) = Pub(m),
           PublishAt([up EXCEPT ![s] = Tail(@)], Parent[s], m, s),
           UNCHANGED <<down, deliveries, received>>,
           NEW a \in Sessions, NEW k \in Messages
    PROVE  /\ OneCopy(a, k) => OneCopy(a, k)'
           /\ SomeCopy(a, k)' <=> SomeCopy(a, k)
  <1>1. PICK p : p = Parent[s]
    OBVIOUS
  <1>2. PICK t : t = [at |-> p, msg |-> m, except |-> s]
    OBVIOUS
  <1>a. PICK last, new : last = Len(up[p]) + 1 /\ new = tasks'[t]
    OBVIOUS
  <1>3. /\ p \in Servers /\ p # s
        /\ \A v \in Servers : \A n, e :
              At(up'[v], n, e) <=>
                 \/ v = s /\ At(up[s], n + 1, e) /\ n \in Nat \ {0}
                 \/ v # s /\ At(up[v], n, e)
                 \/ v = p /\ HasParent(p) /\ n = last /\ e = Pub(m)
        /\ \A e : /\ ~At(up[p], last, e)
                  /\ At(up[s], 1, e) <=> e = Pub(m)
        /\ \A n, e : At(up[s], n, e) => n = 1 \/ (n - 1 \in Nat \ {0} /\ (n - 1) + 1 = n)
        /\ \A x, n : Holds(tasks', x, n) <=> Holds(tasks, x, n) \/ (x = t /\ n = new)
        /\ ~Holds(tasks, t, new)
    <2>1. PublishAt([up EXCEPT ![s] = Tail(@)], p, m, s)
      BY <1>1
    <2>2. PubTaken(s, p, m, t)
      BY <1>1, <1>2, <2>1, PubArrives, Zenon
    <2> QED  BY <1>a, <2>2 DEF PubTaken
  <1>4. t.at = p /\ t.msg = m /\ t.except = s
    BY <1>2
  <1>5. /\ s \in On(a) => p \in On(a)
        /\ p \notin On(a) => HasParent(p)
    BY <1>1, <1>3, PathMeetsLeaf, PathIsLeast, RootOnPath DEF Upward
  <1>6. Pub(m) = Pub(k) <=> m = k
    BY DEF Pub
  <1> DEFINE Born(f, x, n) == \/ f = "up" /\ x = p /\ n = last /\ p \notin On(a)
                              \/ f = "task" /\ x = t /\ n = new /\ p \in On(a)
  (* the copy at the head of the link gives way to one new copy            *)
  <1>7. \A f, x, n : Copy(a, k, f, x, n)' /\ Born(f, x, n) => Copy(a, k, "up", s, 1)
    BY <1>3, <1>4, <1>5, <1>6 DEF Copy, Climbing, InTask
  <1>8. Copy(a, k, "up", s, 1) => SomeCopy(a, k)'
    <2> SUFFICES ASSUME Copy(a, k, "up", s, 1) PROVE SomeCopy(a, k)'
      OBVIOUS
    <2>1. s \notin On(a) /\ m = k
      BY <1>3, <1>6 DEF Copy, Climbing
    <2>2. CASE p \in On(a)
      <3>1. InTask(a, k, t, new)'
        BY <1>3, <1>4, <2>1, <2>2 DEF InTask
      <3> QED  BY <3>1 DEF Copy, SomeCopy
    <2>3. CASE p \notin On(a)
      <3>1. Climbing(a, k, p, last)'
        BY <1>3, <1>5, <2>1, <2>3 DEF Climbing
      <3> QED  BY <3>1 DEF Copy, SomeCopy
    <2> QED  BY <2>2, <2>3
  (* those behind it move up, the others stay where they are               *)
  <1>9. \A n : Copy(a, k, "up", s, n)' <=> Copy(a, k, "up", s, n + 1) /\ n \in Nat \ {0}
    BY <1>3 DEF Copy, Climbing
  <1>10. \A f, x, n : ~Born(f, x, n) /\ (f # "up" \/ x # s) =>
                        (Copy(a, k, f, x, n)' <=> Copy(a, k, f, x, n))
    <2> SUFFICES ASSUME NEW f, NEW x, NEW n, ~Born(f, x, n), f # "up" \/ x # s
                 PROVE  Copy(a, k, f, x, n)' <=> Copy(a, k, f, x, n)
      OBVIOUS
    <2>1. CASE f = "up"
      BY <1>3, <2>1 DEF Copy, Climbing
    <2>2. CASE f = "task"
      BY <1>3, <1>4, <1>5, <2>2 DEF Copy, InTask
    <2>3. CASE f \notin {"up", "task"}
      BY <2>3 DEF Copy, Descending, InDelivery, Arrived
    <2> QED  BY <2>1, <2>2, <2>3
  <1>11. \A f, x, n : Born(f, x, n) => ~Copy(a, k, f, x, n)
    BY <1>3, <1>4, <1>5 DEF Copy, Climbing, InTask
  <1>12. \A n : Copy(a, k, "up", s, n) => n = 1 \/ (n - 1 \in Nat \ {0} /\ (n - 1) + 1 = n)
    BY <1>3 DEF Copy, Climbing
  <1>13. \A f, x, n, g, y, r : Born(f, x, n) /\ Born(g, y, r) => f = g /\ x = y /\ n = r
    OBVIOUS
  <1>14. ~Born("up", s, 1)
    BY <1>3
  <1> HIDE DEF Born
  <1>15. ASSUME OneCopy(a, k) PROVE OneCopy(a, k)'
    <2> SUFFICES ASSUME NEW f, NEW x, NEW n, NEW g, NEW y, NEW r,
                        Copy(a, k, f, x, n)', Copy(a, k, g, y, r)'
                 PROVE  f = g /\ x = y /\ n = r
      BY DEF OneCopy
    <2> QED  BY <1>7, <1>9, <1>10, <1>13, <1>15 DEF OneCopy
  <1>16. SomeCopy(a, k)' => SomeCopy(a, k)
    BY <1>7, <1>9, <1>10 DEF SomeCopy
  <1>17. SomeCopy(a, k) => SomeCopy(a, k)'
    <2> SUFFICES ASSUME NEW f, NEW x, NEW n, Copy(a, k, f, x, n) PROVE SomeCopy(a, k)'
      BY DEF SomeCopy
    <2>1. CASE f = "up" /\ x = s /\ n = 1
      BY <1>8, <2>1
    <2>2. CASE f = "up" /\ x = s /\ n # 1
      <3>1. Copy(a, k, "up", s, n - 1)'
        BY <1>9, <1>12, <2>2
      <3> QED  BY <3>1 DEF SomeCopy
    <2>3. CASE f # "up" \/ x # s
      <3>1. Copy(a, k, f, x, n)'
        BY <1>10, <1>11, <2>3
      <3> QED  BY <3>1 DEF SomeCopy
    <2> QED  BY <2>1, <2>2, <2>3
  <1> QED  BY <1>15, <1>16, <1>17

(* Telling the parent of a call changes no copies.                         *)
LEMMA TellKeepsCopies ==
    ASSUME TypeOK, NEW s \in Servers, NEW call \in {Sub, Unsub},
           up' = [up EXCEPT ![s] = Append(@, call)],
           UNCHANGED <<down, tasks, deliveries, received>>,
           NEW a \in Sessions, NEW k \in Messages
    PROVE  \A f, y, n : Copy(a, k, f, y, n)' <=> Copy(a, k, f, y, n)
  <1>1. up \in [Servers -> Seq(Entries)]
    BY DEF TypeOK, Entries
  <1>2. up'[s] = Append(up[s], call) /\ \A v \in Servers \ {s} : up'[v] = up[v]
    BY <1>1
  <1>3. call # Pub(k)
    BY DEF Pub, Sub, Unsub
  <1>4. ASSUME NEW v \in Servers, NEW n
        PROVE  n \in DOMAIN up'[v] /\ up'[v][n] = Pub(k) <=> n \in DOMAIN up[v] /\ up[v][n] = Pub(k)
    <2>1. CASE v # s
      BY <1>2, <2>1
    <2>2. CASE v = s
      <3>1. up[s] \in Seq(Entries)
        BY <1>1
      <3>2. n \in DOMAIN Append(up[s], call) /\ Append(up[s], call)[n] = Pub(k)
                <=> n \in DOMAIN up[s] /\ up[s][n] = Pub(k)
        BY <1>3, <3>1
      <3> QED  BY <1>2, <2>2, <3>2
    <2> QED  BY <2>1, <2>2
  <1>5. \A y, n : Climbing(a, k, y, n)' <=> Climbing(a, k, y, n)
    BY <1>4 DEF Climbing, At
  <1> QED  BY <1>5 DEF Copy, Descending, InTask, InDelivery, Arrived

(* The call that a parent takes off the link was no copy either; the       *)
(* copies behind it move up by one.                                        *)
LEMMA CallTakenKeepsCopies ==
    ASSUME TypeOK, NEW s \in Servers, up[s] # << >>, Head(up[s]) \in {Sub, Unsub},
           up' = [up EXCEPT ![s] = Tail(@)],
           UNCHANGED <<down, tasks, deliveries, received>>,
           NEW a \in Sessions, NEW k \in Messages
    PROVE  /\ OneCopy(a, k) => OneCopy(a, k)'
           /\ SomeCopy(a, k)' <=> SomeCopy(a, k)
  <1>0. up \in [Servers -> Seq(Entries)]
    BY DEF TypeOK, Entries
  <1>a. /\ up[s] \in Seq(Entries) /\ up'[s] = Tail(up[s])
        /\ \A v \in Servers \ {s} : up'[v] = up[v]
    BY <1>0
  <1>b. Pub(k) # Sub /\ Pub(k) # Unsub
    BY DEF Pub, Sub, Unsub
  <1>1. ASSUME NEW n
        PROVE  n \in DOMAIN up'[s] /\ up'[s][n] = Pub(k)
                  <=> n + 1 \in DOMAIN up[s] /\ up[s][n + 1] = Pub(k) /\ n \in Nat
    <2>1. PICK seq : seq = up[s]
      OBVIOUS
    <2>2. seq \in Seq(Entries) /\ seq # << >> /\ up'[s] = Tail(seq)
      BY <1>a, <2>1
    <2>3. Head(seq) = seq[1] /\ seq[1] # Pub(k)
      BY <1>b, <2>1, <2>2
    <2>4. /\ DOMAIN seq = 1 .. Len(seq) /\ Len(seq) \in Nat \ {0}
          /\ DOMAIN Tail(seq) = 1 .. Len(seq) - 1
          /\ \A i \in 1 .. Len(seq) - 1 : Tail(seq)[i] = seq[i + 1]
      BY <2>2
    <2>5. CASE n \in Nat
      <3>1. n \in DOMAIN Tail(seq) <=> n # 0 /\ n + 1 \in DOMAIN seq
        BY <2>4, <2>5
      <3>2. n \in DOMAIN Tail(seq) => Tail(seq)[n] = seq[n + 1]
        BY <2>4
      <3>3. n = 0 => seq[n + 1] # Pub(k)
        BY <2>3
      <3> QED  BY <2>1, <2>2, <2>5, <3>1, <3>2, <3>3
    <2>6. CASE n \notin Nat
      <3>1. n \notin DOMAIN Tail(seq)
        BY <2>4, <2>6
      <3> QED  BY <2>2, <2>6, <3>1
    <2> QED  BY <2>5, <2>6
  <1>3. ASSUME NEW n
        PROVE  Copy(a, k, "up", s, n)' <=> Copy(a, k, "up", s, n + 1) /\ n \in Nat
    BY <1>1 DEF Copy, Climbing, At
  <1>4. ASSUME NEW f, NEW x, NEW n, f # "up" \/ x # s
        PROVE  Copy(a, k, f, x, n)' <=> Copy(a, k, f, x, n)
    <2>1. CASE f = "up"
      BY <1>a, <1>4, <2>1 DEF Copy, Climbing, At
    <2>2. CASE f # "up"
      BY <2>2 DEF Copy, Descending, InTask, InDelivery, Arrived
    <2> QED  BY <2>1, <2>2
  <1>5. ASSUME NEW n, Copy(a, k, "up", s, n) PROVE n - 1 \in Nat /\ n = (n - 1) + 1
    <2>1. n \in DOMAIN up[s] /\ up[s][n] = Pub(k)
      BY <1>5 DEF Copy, Climbing, At
    <2>2. n \in Nat /\ n # 0
      BY <1>a, <2>1
    <2> QED  BY <2>2
  <1>6. ASSUME OneCopy(a, k) PROVE OneCopy(a, k)'
    <2>1. ASSUME NEW f, NEW x, NEW n, NEW g, NEW y, NEW r,
                 Copy(a, k, f, x, n)', Copy(a, k, g, y, r)'
          PROVE  f = g /\ x = y /\ n = r
      BY <1>3, <1>4, <1>6, <2>1 DEF OneCopy
    <2> QED  BY <2>1 DEF OneCopy
  <1>7. SomeCopy(a, k)' => SomeCopy(a, k)
    BY <1>3, <1>4 DEF SomeCopy
  <1>8. SomeCopy(a, k) => SomeCopy(a, k)'
    <2>1. ASSUME NEW n, Copy(a, k, "up", s, n) PROVE Copy(a, k, "up", s, n - 1)'
      BY <1>3, <1>5, <2>1
    <2> QED  BY <1>4, <2>1 DEF SomeCopy
  <1> QED  BY <1>6, <1>7, <1>8

-------------------------------------------------------------------------------
(* A server takes a message off the link from its parent.                  *)
LEMMA ChildKeepsCopies ==
    ASSUME TypeOK, NEW s \in Servers, ChildHandles(s),
           NEW a \in Sessions, NEW k \in Messages
    PROVE  /\ OneCopy(a, k) => OneCopy(a, k)'
           /\ SomeCopy(a, k)' <=> SomeCopy(a, k)
  <1>1. PICK m : m = Head(down[s])
    OBVIOUS
  <1>2. PICK t : t = [at |-> s, msg |-> m, except |-> Nobody]
    OBVIOUS
  <1>3. PICK new : new = tasks'[t]
    OBVIOUS
  <1>4. /\ down[s] # << >> /\ down \in [Servers -> Seq(Messages)] /\ IsABag(tasks)
        /\ down' = [down EXCEPT ![s] = Tail(@)] /\ tasks' = Hand(tasks, {t})
        /\ UNCHANGED <<up, deliveries, received>>
    BY <1>1, <1>2 DEF ChildHandles, TypeOK
  <1>5. \A v \in Servers : \A n, e :
           At(down'[v], n, e) <=>
              IF v = s THEN At(down[s], n + 1, e) /\ n \in Nat \ {0} ELSE At(down[v], n, e)
    BY <1>4, TakenAt
  <1>6. /\ \A e : At(down[s], 1, e) <=> e = m
        /\ \A n, e : At(down[s], n, e) => n = 1 \/ (n - 1 \in Nat \ {0} /\ (n - 1) + 1 = n)
    <2>1. down[s] \in Seq(Messages)
      BY <1>4
    <2>2. \A n, e : /\ At(down[s], 1, Head(down[s]))
                    /\ At(down[s], 1, e) => e = Head(down[s])
                    /\ At(down[s], n, e) => n = 1 \/ (n - 1 \in Nat \ {0} /\ (n - 1) + 1 = n)
      BY <1>4, <2>1, HeadAt, Zenon
    <2> QED  BY <1>1, <2>2
  <1>7. /\ \A x, n : Holds(tasks', x, n) <=> Holds(tasks, x, n) \/ (x = t /\ n = new)
        /\ ~Holds(tasks, t, new)
    <2>1. \A x, n : /\ Holds(Hand(tasks, {t}), x, n) <=>
                          Holds(tasks, x, n) \/ (x \in {t} /\ n = Hand(tasks, {t})[x])
                    /\ x \in {t} => ~Holds(tasks, x, Hand(tasks, {t})[x])
      BY <1>4, HandHolds, Zenon
    <2> QED  BY <1>3, <1>4, <2>1
  <1>8. t.at = s /\ t.msg = m /\ t.except = Nobody /\ Nobody \notin On(a)
    BY <1>2, PathMeetsLeaf, PathIsLeast, NamesAssumption
  <1> DEFINE Born(f, x, n) == f = "task" /\ x = t /\ n = new
  <1>9. Copy(a, k, "task", t, new)' <=> Copy(a, k, "down", s, 1)
    BY <1>6, <1>7, <1>8 DEF Copy, InTask, Descending
  <1>10. \A n : Copy(a, k, "down", s, n)' <=> Copy(a, k, "down", s, n + 1) /\ n \in Nat \ {0}
    BY <1>5 DEF Copy, Descending
  <1>11. \A f, x, n : ~Born(f, x, n) /\ (f # "down" \/ x # s) =>
                        (Copy(a, k, f, x, n)' <=> Copy(a, k, f, x, n))
    <2> SUFFICES ASSUME NEW f, NEW x, NEW n, ~Born(f, x, n), f # "down" \/ x # s
                 PROVE  Copy(a, k, f, x, n)' <=> Copy(a, k, f, x, n)
      OBVIOUS
    <2>1. CASE f = "down"
      BY <1>5, <2>1, PathMeetsLeaf, PathIsLeast DEF Copy, Descending
    <2>2. CASE f = "task"
      BY <1>7, <2>2 DEF Copy, InTask
    <2>3. CASE f \notin {"down", "task"}
      BY <1>4, <2>3 DEF Copy, Climbing, InDelivery, Arrived
    <2> QED  BY <2>1, <2>2, <2>3
  <1>12. \A f, x, n : Born(f, x, n) => ~Copy(a, k, f, x, n)
    BY <1>7 DEF Copy, InTask
  <1>13. \A n : Copy(a, k, "down", s, n) => n = 1 \/ (n - 1 \in Nat \ {0} /\ (n - 1) + 1 = n)
    BY <1>6 DEF Copy, Descending
  <1> HIDE DEF Born
  <1>14. \A f, x, n : Born(f, x, n) <=> f = "task" /\ x = t /\ n = new
    BY DEF Born
  <1>15. ASSUME OneCopy(a, k) PROVE OneCopy(a, k)'
    <2> SUFFICES ASSUME NEW f, NEW x, NEW n, NEW g, NEW y, NEW r,
                        Copy(a, k, f, x, n)', Copy(a, k, g, y, r)'
                 PROVE  f = g /\ x = y /\ n = r
      BY DEF OneCopy
    <2> QED  BY <1>9, <1>10, <1>11, <1>14, <1>15 DEF OneCopy
  <1>16. SomeCopy(a, k)' => SomeCopy(a, k)
    BY <1>9, <1>10, <1>11, <1>14 DEF SomeCopy
  <1>17. SomeCopy(a, k) => SomeCopy(a, k)'
    <2> SUFFICES ASSUME NEW f, NEW x, NEW n, Copy(a, k, f, x, n) PROVE SomeCopy(a, k)'
      BY DEF SomeCopy
    <2>1. CASE f = "down" /\ x = s /\ n = 1
      BY <1>9, <2>1 DEF SomeCopy
    <2>2. CASE f = "down" /\ x = s /\ n # 1
      <3>1. Copy(a, k, "down", s, n - 1)'
        BY <1>10, <1>13, <2>2
      <3> QED  BY <3>1 DEF SomeCopy
    <2>3. CASE f # "down" \/ x # s
      <3>1. Copy(a, k, f, x, n)'
        BY <1>11, <1>12, <2>3
      <3> QED  BY <3>1 DEF SomeCopy
    <2> QED  BY <2>1, <2>2, <2>3
  <1> QED  BY <1>15, <1>16, <1>17

(* A task looks up the subscribers.  Of those it finds, one at most is on  *)
(* the way to the session a: a leaf has sessions for subscribers, and of   *)
(* the children of any other server one at most is above a.                *)
LEMMA OneSubscriberTowards ==
    ASSUME LocalSubscribers, NEW a \in Sessions, NEW u \in On(a),
           NEW x \in subs[u] \cap Towards(a), NEW y \in subs[u] \cap Towards(a)
    PROVE  x = y
  <1>1. u \in Servers /\ On(a) \subseteq Servers /\ a \notin Servers
    BY PathMeetsLeaf, PathIsLeast, NamesAssumption
  <1>2. \A z \in subs[u] \cap Towards(a) :
           \/ z \in On(a) /\ HasParent(z) /\ Parent[z] = u
           \/ z = a /\ Home[a] = u
    BY <1>1, NamesAssumption DEF LocalSubscribers
  <1>3. CASE u = Home[a]
    BY <1>1, <1>2, <1>3, PathMeetsLeaf
  <1>4. CASE u # Home[a]
    BY <1>1, <1>2, <1>4, PathMeetsLeaf, OneWayDown
  <1> QED  BY <1>3, <1>4

(* If the subscriber's part of the tree is in place, it finds one.         *)
LEMMA SubscriberTowards ==
    ASSUME NEW a \in Sessions, Settled(a), NEW u \in On(a)
    PROVE  \E x \in subs[u] : x \in Towards(a)
  <1>1. CASE u = Home[a]
    BY <1>1 DEF Settled
  <1>2. CASE u # Home[a]
    <2>1. PICK c \in Path[Home[a]] : HasParent(c) /\ Parent[c] = u
      BY <1>2, PathMeetsLeaf, StepDown
    <2> QED  BY <2>1 DEF Settled
  <1> QED  BY <1>1, <1>2

(* A task on the way to a gives way to one delivery at most, and to one if *)
(* the part of the tree is in place; a task that is no copy makes none.    *)
LEMMA TaskKeepsCopies ==
    ASSUME TypeOK, LocalSubscribers, LocalTasks, NEW t \in BagToSet(tasks), RunTask(t),
           NEW a \in Sessions, NEW k \in Messages
    PROVE  /\ OneCopy(a, k) => OneCopy(a, k)'
           /\ SomeCopy(a, k)' => SomeCopy(a, k)
           /\ Settled(a) /\ SomeCopy(a, k) => SomeCopy(a, k)'
  <1>1. PICK work : work = {[to |-> x, msg |-> t.msg] : x \in subs[t.at] \ {t.except}}
    OBVIOUS
  <1>2. PICK new : new = deliveries'
    OBVIOUS
  <1>3. /\ t \in DOMAIN tasks /\ IsABag(tasks) /\ IsABag(deliveries) /\ t.at \in Servers
        /\ tasks' = Done(tasks, t) /\ deliveries' = Hand(deliveries, work)
        /\ UNCHANGED <<up, down, received>>
    BY <1>1 DEF RunTask, TypeOK, BagToSet
  <1>4. PICK old : old = tasks[t]
    OBVIOUS
  <1>5. /\ \A x, n : Holds(tasks', x, n) <=> Holds(tasks, x, n) /\ ~(x = t /\ n = old)
        /\ Holds(tasks, t, old)
    <2>1. \A x, n : /\ Holds(Done(tasks, t), x, n) <=> Holds(tasks, x, n) /\ ~(x = t /\ n = tasks[t])
                    /\ Holds(tasks, t, tasks[t])
      BY <1>3, DoneHolds, Zenon
    <2> QED  BY <1>3, <1>4, <2>1
  <1>6. \A d, n : /\ Holds(deliveries', d, n) <=> Holds(deliveries, d, n) \/ (d \in work /\ n = new[d])
                  /\ d \in work => ~Holds(deliveries, d, new[d])
    <2>1. \A d, n : /\ Holds(Hand(deliveries, work), d, n) <=>
                          Holds(deliveries, d, n) \/ (d \in work /\ n = Hand(deliveries, work)[d])
                    /\ d \in work => ~Holds(deliveries, d, Hand(deliveries, work)[d])
      BY <1>3, HandHolds, Zenon
    <2> QED  BY <1>2, <1>3, <2>1
  <1>7. \A d : d \in work => /\ d.to \in subs[t.at] /\ d.to # t.except /\ d.msg = t.msg
                             /\ d = [to |-> d.to, msg |-> d.msg]
    BY <1>1
  (* a task on the way to a excepts nobody on the way to a, and no task    *)
  (* off the way has a subscriber on it                                    *)
  <1>8. \A d \in work : d.to \in Towards(a) => t.at \in On(a) /\ t.except \notin On(a)
    <2> SUFFICES ASSUME NEW d \in work, d.to \in Towards(a)
                 PROVE  t.at \in On(a) /\ t.except \notin On(a)
      OBVIOUS
    <2>1. /\ On(a) \subseteq Servers /\ a \notin Servers /\ Home[a] \in On(a) /\ Upward(On(a))
          /\ Home[a] \in Servers /\ Nobody \notin Servers
      BY PathMeetsLeaf, PathIsLeast, NamesAssumption
    <2>2. PICK x : x = d.to /\ x \in subs[t.at] /\ x # t.except
      BY <1>7
    <2>3. \/ x \in On(a) /\ HasParent(x) /\ Parent[x] = t.at
          \/ x = a /\ Home[a] = t.at
      BY <1>3, <2>1, <2>2, NamesAssumption DEF LocalSubscribers
    <2>4. t.at \in On(a)
      BY <2>1, <2>3 DEF Upward
    <2>5. \/ t.except = Nobody
          \/ t.except \in Servers /\ HasParent(t.except) /\ Parent[t.except] = t.at
      BY <1>3 DEF LocalTasks
    <2>6. ASSUME t.except \in On(a) PROVE FALSE
      <3>1. HasParent(t.except) /\ Parent[t.except] = t.at /\ t.except \in Servers
        BY <2>1, <2>5, <2>6
      <3>2. t.at # Home[a]
        BY <3>1, PathMeetsLeaf
      <3>3. x \in On(a) /\ HasParent(x) /\ Parent[x] = t.at
        BY <2>3, <3>2
      <3> QED  BY <2>1, <2>2, <2>6, <3>1, <3>3, OneWayDown
    <2> QED  BY <2>4, <2>6
  <1> DEFINE Born(f, x, n) == f = "delivery" /\ x \in work /\ n = new[x] /\ x.to \in Towards(a)
  <1>9. \A f, x, n : Copy(a, k, f, x, n)' /\ Born(f, x, n) => Copy(a, k, "task", t, old)
    BY <1>5, <1>7, <1>8 DEF Copy, InTask, InDelivery
  <1>10. \A f, x, n, g, y, r : Born(f, x, n) /\ Born(g, y, r) => f = g /\ x = y /\ n = r
    <2> SUFFICES ASSUME NEW x \in work, NEW y \in work, x.to \in Towards(a), y.to \in Towards(a)
                 PROVE  x = y
      BY DEF Born
    <2>1. x.to = y.to
      BY <1>7, <1>8, OneSubscriberTowards
    <2> QED  BY <1>7, <2>1
  <1>11. \A f, x, n : ~Born(f, x, n) /\ ~(f = "task" /\ x = t /\ n = old) =>
                        (Copy(a, k, f, x, n)' <=> Copy(a, k, f, x, n))
    <2> SUFFICES ASSUME NEW f, NEW x, NEW n, ~Born(f, x, n), ~(f = "task" /\ x = t /\ n = old)
                 PROVE  Copy(a, k, f, x, n)' <=> Copy(a, k, f, x, n)
      OBVIOUS
    <2>1. CASE f = "delivery"
      BY <1>6, <2>1 DEF Copy, InDelivery
    <2>2. CASE f = "task"
      BY <1>5, <2>2 DEF Copy, InTask
    <2>3. CASE f \notin {"delivery", "task"}
      BY <1>3, <2>3 DEF Copy, Climbing, Descending, Arrived
    <2> QED  BY <2>1, <2>2, <2>3
  <1>12. ~Copy(a, k, "task", t, old)'
    BY <1>5 DEF Copy, InTask
  <1>13. \A f, x, n : Born(f, x, n) => ~Copy(a, k, f, x, n)
    BY <1>6 DEF Copy, InDelivery
  <1>14. Settled(a) /\ Copy(a, k, "task", t, old) => SomeCopy(a, k)'
    <2> SUFFICES ASSUME Settled(a), Copy(a, k, "task", t, old) PROVE SomeCopy(a, k)'
      OBVIOUS
    <2>1. t.at \in On(a) /\ t.except \notin On(a) /\ t.msg = k
      BY DEF Copy, InTask
    <2>2. PICK x \in subs[t.at] : x \in Towards(a)
      BY <2>1, SubscriberTowards
    <2>3. x # t.except
      BY <1>3, <2>1, <2>2, NamesAssumption DEF LocalTasks
    <2>4. PICK d : d = [to |-> x, msg |-> t.msg]
      OBVIOUS
    <2>5. d \in work /\ d.msg = k /\ d.to \in Towards(a)
      BY <1>1, <2>1, <2>2, <2>3, <2>4
    <2>6. InDelivery(a, k, d, new[d])'
      BY <1>6, <2>5 DEF InDelivery
    <2> QED  BY <2>6 DEF Copy, SomeCopy
  <1> HIDE DEF Born
  <1>15. ASSUME OneCopy(a, k) PROVE OneCopy(a, k)'
    <2> SUFFICES ASSUME NEW f, NEW x, NEW n, NEW g, NEW y, NEW r,
                        Copy(a, k, f, x, n)', Copy(a, k, g, y, r)'
                 PROVE  f = g /\ x = y /\ n = r
      BY DEF OneCopy
    <2> QED  BY <1>9, <1>10, <1>11, <1>12, <1>15 DEF OneCopy
  <1>16. SomeCopy(a, k)' => SomeCopy(a, k)
    BY <1>9, <1>11, <1>12 DEF SomeCopy
  <1>17. ASSUME Settled(a), SomeCopy(a, k) PROVE SomeCopy(a, k)'
    BY <1>11, <1>13, <1>14, <1>17 DEF SomeCopy
  <1> QED  BY <1>15, <1>16, <1>17

(* A delivery to a session is received there, one to a server goes down    *)
(* the link to it.                                                         *)
LEMMA DeliveryKeepsCopies ==
    ASSUME TypeOK, NEW d \in BagToSet(deliveries), Deliver(d),
           NEW a \in Sessions, NEW k \in Messages
    PROVE  /\ OneCopy(a, k) => OneCopy(a, k)'
           /\ SomeCopy(a, k)' <=> SomeCopy(a, k)
  <1>1. PICK old : old = deliveries[d]
    OBVIOUS
  <1>2. PICK last : last = IF d.to \in Servers THEN Len(down[d.to]) + 1 ELSE received[d.to][d.msg] + 1
    OBVIOUS
  <1>3. /\ d \in DOMAIN deliveries /\ IsABag(deliveries) /\ deliveries' = Done(deliveries, d)
        /\ d.msg \in Messages /\ d.to \in Servers \cup Sessions
        /\ UNCHANGED <<up, tasks>>
        /\ down \in [Servers -> Seq(Messages)]
        /\ received \in [Sessions -> [Messages -> Nat]]
        /\ Servers \cap Sessions = {} /\ On(a) \subseteq Servers
    BY PathMeetsLeaf, PathIsLeast, NamesAssumption DEF Deliver, TypeOK, BagToSet, Addressees
  <1>4. /\ \A x, n : Holds(deliveries', x, n) <=> Holds(deliveries, x, n) /\ ~(x = d /\ n = old)
        /\ Holds(deliveries, d, old)
    <2>1. \A x, n : /\ Holds(Done(deliveries, d), x, n) <=>
                          Holds(deliveries, x, n) /\ ~(x = d /\ n = deliveries[d])
                    /\ Holds(deliveries, d, deliveries[d])
      BY <1>3, DoneHolds, Zenon
    <2> QED  BY <1>1, <1>3, <2>1
  <1>5. \A v \in Servers : \A n, e :
           /\ At(down'[v], n, e) <=> At(down[v], n, e) \/ (v = d.to /\ n = last /\ e = d.msg)
           /\ v = d.to => ~At(down[v], last, e)
    <2>1. CASE d.to \in Servers
      <3>1. down' = [down EXCEPT ![d.to] = Append(@, d.msg)]
        BY <1>3, <2>1 DEF Deliver
      <3>2. OneSent(down, d.to, d.msg, [down EXCEPT ![d.to] = Append(@, d.msg)])
        BY <1>3, <2>1, SentAt, Zenon
      <3> QED  BY <1>2, <2>1, <3>1, <3>2 DEF OneSent
    <2>2. CASE d.to \notin Servers
      BY <2>2 DEF Deliver
    <2> QED  BY <2>1, <2>2
  <1>6. \A n : /\ n \in 1..received'[a][k] <=>
                     n \in 1..received[a][k] \/ (d.to = a /\ d.msg = k /\ n = last)
               /\ d.to = a /\ d.msg = k => last \notin 1..received[a][k]
    <2>1. CASE d.to \in Sessions
      <3>1. received' = [received EXCEPT ![d.to][d.msg] = @ + 1]
        BY <1>3, <2>1 DEF Deliver
      <3>2. received[a][k] \in Nat
        BY <1>3
      <3>3. received'[a][k] = IF d.to = a /\ d.msg = k THEN received[a][k] + 1 ELSE received[a][k]
        BY <1>3, <2>1, <3>1
      <3> QED  BY <1>2, <1>3, <2>1, <3>2, <3>3
    <2>2. CASE d.to \notin Sessions
      BY <2>2 DEF Deliver
    <2> QED  BY <2>1, <2>2
  <1> DEFINE Born(f, x, n) == \/ f = "down" /\ x = d.to /\ n = last /\ d.to \in On(a) /\ d.msg = k
                              \/ f = "received" /\ x = a /\ n = last /\ d.to = a /\ d.msg = k
  <1>7. \A f, x, n : Born(f, x, n) => /\ Copy(a, k, "delivery", d, old)
                                      /\ Copy(a, k, f, x, n)'
                                      /\ ~Copy(a, k, f, x, n)
    <2> SUFFICES ASSUME NEW f, NEW x, NEW n, Born(f, x, n)
                 PROVE  /\ Copy(a, k, "delivery", d, old)
                        /\ Copy(a, k, f, x, n)'
                        /\ ~Copy(a, k, f, x, n)
      OBVIOUS
    <2>1. Copy(a, k, "delivery", d, old)
      BY <1>4 DEF Copy, InDelivery
    <2>2. CASE f = "down"
      <3>1. x = d.to /\ n = last /\ d.to \in On(a) /\ d.msg = k /\ d.to \in Servers
        BY <1>3, <2>2
      <3>2. At(down'[x], n, k) /\ ~At(down[x], n, k)
        BY <1>5, <3>1
      <3>3. Descending(a, k, x, n)' /\ ~Descending(a, k, x, n)
        BY <3>1, <3>2 DEF Descending
      <3> QED  BY <2>1, <2>2, <3>3 DEF Copy
    <2>3. CASE f = "received"
      <3>1. x = a /\ n = last /\ d.to = a /\ d.msg = k
        BY <2>3
      <3>2. Arrived(a, k, x, n)' /\ ~Arrived(a, k, x, n)
        BY <1>6, <3>1 DEF Arrived
      <3> QED  BY <2>1, <2>3, <3>2 DEF Copy
    <2> QED  BY <2>1, <2>2, <2>3
  <1>8. \A f, x, n, g, y, r : Born(f, x, n) /\ Born(g, y, r) => f = g /\ x = y /\ n = r
    BY <1>3
  <1>9. \A f, x, n : ~Born(f, x, n) /\ ~(f = "delivery" /\ x = d /\ n = old) =>
                        (Copy(a, k, f, x, n)' <=> Copy(a, k, f, x, n))
    <2> SUFFICES ASSUME NEW f, NEW x, NEW n, ~Born(f, x, n), ~(f = "delivery" /\ x = d /\ n = old)
                 PROVE  Copy(a, k, f, x, n)' <=> Copy(a, k, f, x, n)
      OBVIOUS
    <2>1. CASE f = "delivery"
      BY <1>4, <2>1 DEF Copy, InDelivery
    <2>2. CASE f = "down"
      BY <1>3, <1>5, <2>2 DEF Copy, Descending
    <2>3. CASE f = "received"
      BY <1>6, <2>3 DEF Copy, Arrived
    <2>4. CASE f \notin {"delivery", "down", "received"}
      BY <1>3, <2>4 DEF Copy, Climbing, InTask
    <2> QED  BY <2>1, <2>2, <2>3, <2>4
  <1>10. ~Copy(a, k, "delivery", d, old)'
    BY <1>4 DEF Copy, InDelivery
  <1>11. Copy(a, k, "delivery", d, old) => \E f, x, n : Born(f, x, n)
    BY <1>3 DEF Copy, InDelivery
  <1> HIDE DEF Born
  <1>12. ASSUME OneCopy(a, k) PROVE OneCopy(a, k)'
    <2> SUFFICES ASSUME NEW f, NEW x, NEW n, NEW g, NEW y, NEW r,
                        Copy(a, k, f, x, n)', Copy(a, k, g, y, r)'
                 PROVE  f = g /\ x = y /\ n = r
      BY DEF OneCopy
    <2> QED  BY <1>7, <1>8, <1>9, <1>10, <1>12 DEF OneCopy
  <1>13. SomeCopy(a, k)' => SomeCopy(a, k)
    BY <1>7, <1>9, <1>10 DEF SomeCopy
  <1>14. SomeCopy(a, k) => SomeCopy(a, k)'
    BY <1>7, <1>9, <1>11 DEF SomeCopy
  <1> QED  BY <1>12, <1>13, <1>14

(* A message that was not published before has one copy then, and those of *)
(* the others stay.                                                        *)
LEMMA PublishMakesOneCopy ==
    ASSUME TypeOK, NEW b \in Sessions, NEW m \in Messages, Publish(b, m),
           NEW a \in Sessions, NEW k \in Messages
    PROVE  /\ k # m => (OneCopy(a, k) => OneCopy(a, k)') /\ (SomeCopy(a, k)' <=> SomeCopy(a, k))
           /\ k = m => (~SomeCopy(a, k) => OneCopy(a, k)' /\ SomeCopy(a, k)')
  <1>1. PICK h : h = Home[b]
    OBVIOUS
  <1>2. PICK t : t = [at |-> h, msg |-> m, except |-> Nobody]
    OBVIOUS
  <1>3. PICK last, new : last = Len(up[h]) + 1 /\ new = tasks'[t]
    OBVIOUS
  <1>4. /\ h \in Servers /\ IsABag(tasks) /\ up \in [Servers -> Seq(Entries)] /\ Pub(m) \in Entries
        /\ up' = Promoted(up, h, Pub(m)) /\ tasks' = Hand(tasks, {t})
        /\ UNCHANGED <<down, deliveries, received>>
    BY <1>1, <1>2, PathMeetsLeaf DEF Publish, PublishAt, TypeOK, Entries
  <1>5. /\ \A v \in Servers : \A n, e :
              At(up'[v], n, e) <=>
                 At(up[v], n, e) \/ (v = h /\ HasParent(h) /\ n = last /\ e = Pub(m))
        /\ \A e : ~At(up[h], last, e)
    <2>1. OneMore(up, h, Pub(m), Promoted(up, h, Pub(m)))
      BY <1>4, PromotedAt, Zenon
    <2> QED  BY <1>3, <1>4, <2>1 DEF OneMore
  <1>6. /\ \A x, n : Holds(tasks', x, n) <=> Holds(tasks, x, n) \/ (x = t /\ n = new)
        /\ ~Holds(tasks, t, new)
    <2>1. \A x, n : /\ Holds(Hand(tasks, {t}), x, n) <=>
                          Holds(tasks, x, n) \/ (x \in {t} /\ n = Hand(tasks, {t})[x])
                    /\ x \in {t} => ~Holds(tasks, x, Hand(tasks, {t})[x])
      BY <1>4, HandHolds, Zenon
    <2> QED  BY <1>3, <1>4, <2>1
  <1>7. t.at = h /\ t.msg = m /\ t.except = Nobody /\ Nobody \notin On(a)
    BY <1>2, PathMeetsLeaf, PathIsLeast, NamesAssumption
  <1>8. h \notin On(a) => HasParent(h)
    BY <1>4, PathMeetsLeaf, RootOnPath
  <1>9. Pub(m) = Pub(k) <=> m = k
    BY DEF Pub
  <1> DEFINE Born(f, x, n) == /\ k = m
                              /\ \/ f = "up" /\ x = h /\ n = last /\ h \notin On(a)
                                 \/ f = "task" /\ x = t /\ n = new /\ h \in On(a)
  <1>10. \A f, x, n : Copy(a, k, f, x, n)' <=> Copy(a, k, f, x, n) \/ Born(f, x, n)
    <2> SUFFICES ASSUME NEW f, NEW x, NEW n
                 PROVE  Copy(a, k, f, x, n)' <=> Copy(a, k, f, x, n) \/ Born(f, x, n)
      OBVIOUS
    <2>1. CASE f = "up"
      BY <1>4, <1>5, <1>8, <1>9, <2>1 DEF Copy, Climbing
    <2>2. CASE f = "task"
      BY <1>6, <1>7, <2>2 DEF Copy, InTask
    <2>3. CASE f \notin {"up", "task"}
      BY <1>4, <2>3 DEF Copy, Descending, InDelivery, Arrived
    <2> QED  BY <2>1, <2>2, <2>3
  <1>11. /\ \A f, x, n, g, y, r : Born(f, x, n) /\ Born(g, y, r) => f = g /\ x = y /\ n = r
         /\ k = m => \E f, x, n : Born(f, x, n)
         /\ k # m => \A f, x, n : ~Born(f, x, n)
    OBVIOUS
  <1> HIDE DEF Born
  <1>12. CASE k # m
    BY <1>10, <1>11, <1>12 DEF OneCopy, SomeCopy
  <1>13. CASE k = m
    BY <1>10, <1>11, <1>13 DEF OneCopy, SomeCopy
  <1> QED  BY <1>12, <1>13

-------------------------------------------------------------------------------
(* A session's call is made at the server it is connected to.              *)
Places == {"nothing", "tell Sub", "add", "look", "tell Unsub"}
LocalCalls == \A x \in Servers : doing[x] # "nothing" => HasParent(x)

LEMMA StationIsThere ==
    ASSUME LocalCalls, NEW x \in Addressees, doing[x] # "nothing"
    PROVE  /\ Station(x) \in Servers
           /\ \/ x \in Sessions /\ Home[x] = Station(x)
              \/ x \in Servers /\ HasParent(x) /\ Parent[x] = Station(x)
  <1>1. CASE x \in Sessions
    BY <1>1, PathMeetsLeaf DEF Station
  <1>2. CASE x \in Servers
    BY <1>2, PathByParent, NamesAssumption DEF LocalCalls, Station
  <1> QED  BY <1>1, <1>2 DEF Addressees

(* The part of the tree of a subscriber stays in place if nobody on the    *)
(* way is unsubscribed and no Unsub is sent from the way or made ready.    *)
LEMMA SettledStays ==
    ASSUME NEW a \in Sessions, Settled(a),
           \A v \in Servers : \A y \in Towards(a) : y \in subs[v] => y \in subs'[v],
           \A v \in On(a) : HasParent(v) => \A n : ~At(up'[v], n, Unsub),
           \A x \in Addressees : Station(x) \in On(a) /\ doing'[x] = "tell Unsub"
                                     => doing[x] = "tell Unsub"
    PROVE  Settled(a)'
  <1>1. /\ Home[a] \in On(a) /\ On(a) \subseteq Servers
        /\ \A v \in On(a) : HasParent(v) => Parent[v] \in Servers
    BY PathMeetsLeaf, PathIsLeast, PathByParent
  <1>2. a \in subs'[Home[a]]
    BY <1>1 DEF Settled
  <1>3. ASSUME NEW v \in On(a), HasParent(v)
        PROVE  /\ v \in subs'[Parent[v]]
               /\ \A n \in DOMAIN up'[v] : up'[v][n] # Unsub
               /\ \A x \in Addressees : Station(x) = v => doing'[x] # "tell Unsub"
    BY <1>1, <1>3 DEF Settled, At
  <1> QED  BY <1>2, <1>3 DEF Settled, Station

(* In a settled part of the tree no Unsub is on a link.                    *)
LEMMA SettledLinks ==
    ASSUME NEW a \in Sessions, Settled(a)
    PROVE  \A v \in On(a) : HasParent(v) => \A n : ~At(up[v], n, Unsub)
  BY DEF Settled, At

(* A Pub changes nothing about who is subscribed.                          *)
LEMMA PubKeepsSettled ==
    ASSUME TypeOK, NEW links \in [Servers -> Seq(Entries)],
           \A v \in Servers : \A n, e : At(links[v], n, e) => \E r : At(up[v], r, e),
           NEW s \in Servers, NEW m \in Messages, up' = Promoted(links, s, Pub(m)),
           UNCHANGED <<subs, doing>>, NEW a \in Sessions, Settled(a)
    PROVE  Settled(a)'
  <1>1. On(a) \subseteq Servers
    BY PathMeetsLeaf, PathIsLeast
  <1>2. \A v \in On(a) : HasParent(v) => \A n : ~At(links[v], n, Unsub)
    BY <1>1, SettledLinks
  <1>3. Pub(m) # Unsub /\ Pub(m) \in Entries
    BY DEF Pub, Unsub, Entries
  <1>4. OneMore(links, s, Pub(m), Promoted(links, s, Pub(m)))
    BY <1>3, PromotedAt, Zenon
  <1>5. \A v \in On(a) : HasParent(v) => \A n : ~At(up'[v], n, Unsub)
    BY <1>1, <1>2, <1>3, <1>4 DEF OneMore
  <1> QED  BY <1>5, SettledStays

(* Each step inside subscribe and unsubscribe leaves it in place: a server *)
(* of it has the next one for a subscriber, so nobody who looks sees none  *)
(* left, and who had seen that before was excluded.                        *)
LEMMA CallStepKeepsSettled ==
    ASSUME TypeOK, LocalCalls, NEW x \in Addressees,
           AddSubscriber(x) \/ LookWhoIsLeft(x) \/ TellParent(x),
           NEW a \in Sessions, Settled(a)
    PROVE  Settled(a)'
  <1>1. /\ doing[x] # "nothing" /\ subs \in [Servers -> SUBSET Addressees]
        /\ doing \in [Addressees -> Places] /\ up \in [Servers -> Seq(Entries)]
    BY DEF AddSubscriber, LookWhoIsLeft, TellParent, TypeOK, Places, Entries
  <1>2. Station(x) \in Servers /\ On(a) \subseteq Servers
    BY <1>1, StationIsThere, PathMeetsLeaf, PathIsLeast
  <1>3. \A v \in On(a) : HasParent(v) => \A n : ~At(up[v], n, Unsub)
    BY SettledLinks
  <1>4. CASE AddSubscriber(x)
    BY <1>1, <1>2, <1>3, <1>4, SettledStays DEF AddSubscriber, GoesOn
  <1>5. CASE LookWhoIsLeft(x)
    <2>1. Station(x) \in On(a) => subs[Station(x)] # {}
      BY SubscriberTowards
    <2> QED  BY <1>1, <1>3, <1>5, <2>1, SettledStays DEF LookWhoIsLeft, GoesOn
  <1>6. CASE TellParent(x)
    <2>1. PICK call \in {Sub, Unsub} : /\ up' = [up EXCEPT ![Station(x)] = Append(@, call)]
                                       /\ call = Unsub => doing[x] = "tell Unsub"
                                       /\ doing' = [doing EXCEPT ![x] = doing'[x]]
                                       /\ doing'[x] \in {"add", "nothing"} /\ UNCHANGED subs
      BY <1>1, <1>6 DEF TellParent, GoesOn, Sub, Unsub
    <2>2. ASSUME NEW v \in On(a), HasParent(v), NEW n PROVE ~At(up'[v], n, Unsub)
      <3>1. CASE v # Station(x)
        BY <1>1, <1>2, <1>3, <2>1, <2>2, <3>1
      <3>2. CASE v = Station(x)
        <4>1. call # Unsub
          BY <2>1, <2>2, <3>2 DEF Settled
        <4>2. up[v] \in Seq(Entries) /\ call \in Entries
          BY <1>1, <1>2 DEF Entries
        <4>3. At(Append(up[v], call), n, Unsub) <=>
                  At(up[v], n, Unsub) \/ (n = Len(up[v]) + 1 /\ Unsub = call)
          BY <4>2, AppendAt
        <4> QED  BY <1>1, <1>2, <1>3, <2>1, <2>2, <3>2, <4>1, <4>3
      <3> QED  BY <3>1, <3>2
    <2>3. \A z \in Addressees : doing'[z] = "tell Unsub" => doing[z] = "tell Unsub"
      BY <1>1, <2>1
    <2> QED  BY <2>1, <2>2, <2>3, SettledStays
  <1> QED  BY <1>4, <1>5, <1>6

(* The first step of a call does, unless it unsubscribes somebody on the   *)
(* way.                                                                    *)
LEMMA CallStartKeepsSettled ==
    ASSUME TypeOK, NEW x \in Addressees, NEW a \in Sessions, Settled(a),
           StartSubscribe(x) \/ (StartUnsubscribe(x) /\ x \notin Towards(a)),
           \A v \in Servers : \A n, e : At(up'[v], n, e) => \E r : At(up[v], r, e)
    PROVE  Settled(a)'
  <1>1. /\ subs \in [Servers -> SUBSET Addressees] /\ doing \in [Addressees -> Places]
        /\ On(a) \subseteq Servers
    BY PathMeetsLeaf, PathIsLeast DEF TypeOK, Places
  <1>2. \A v \in On(a) : HasParent(v) => \A n : ~At(up'[v], n, Unsub)
    BY <1>1, SettledLinks
  <1>3. \A v \in Servers : \A y \in Towards(a) : y \in subs[v] => y \in subs'[v]
    BY <1>1 DEF StartSubscribe, StartUnsubscribe
  <1>4. \A z \in Addressees : doing'[z] = "tell Unsub" => doing[z] = "tell Unsub"
    BY <1>1 DEF StartSubscribe, StartUnsubscribe, GoesOn
  <1> QED  BY <1>2, <1>3, <1>4, SettledStays

-------------------------------------------------------------------------------
(* What a parent finds at the head of a link.                              *)
ParentTakes(s, links) ==
    /\ links = [up EXCEPT ![s] = Tail(@)]
    /\ links \in [Servers -> Seq(Entries)]
    /\ links[s] = Tail(up[s])
    /\ \A v \in Servers \ {s} : links[v] = up[v]
    /\ \A v \in Servers : \A n, e : At(links[v], n, e) => \E r : At(up[v], r, e)
    /\ At(up[s], 1, Head(up[s]))

(* What is left of the links when the head of one is taken.                *)
LEMMA LinksAreTaken ==
    ASSUME TypeOK, NEW s \in Servers, up[s] # << >>
    PROVE  ParentTakes(s, [up EXCEPT ![s] = Tail(@)])
  <1>0. up \in [Servers -> Seq(Entries)]
    BY DEF TypeOK, Entries
  <1>1. up \in [Servers -> Seq(Entries)] /\ up[s] \in Seq(Entries) /\ Tail(up[s]) \in Seq(Entries)
    BY <1>0
  <1>2. PICK links : links = [up EXCEPT ![s] = Tail(@)]
    OBVIOUS
  <1>3. /\ links \in [Servers -> Seq(Entries)]
        /\ \A v \in Servers : \A n, e :
              At(links[v], n, e) <=>
                 IF v = s THEN At(up[s], n + 1, e) /\ n \in Nat \ {0} ELSE At(up[v], n, e)
        /\ \A v \in Servers \ {s} : links[v] = up[v]
    BY <1>1, <1>2, TakenAt
  <1>4. At(up[s], 1, Head(up[s]))
    BY <1>1, HeadAt, Zenon
  <1>5. \A v \in Servers : \A n, e : At(links[v], n, e) => \E r : At(up[v], r, e)
    BY <1>3
  <1> QED  BY <1>1, <1>2, <1>3, <1>4, <1>5 DEF ParentTakes

(* ParentHandles(s) by the kinds of messages: each is one of the three.    *)
LEMMA ParentHandlesOne ==
    ASSUME TypeOK, NEW s \in Servers, ParentHandles(s), NEW links, links = [up EXCEPT ![s] = Tail(@)]
    PROVE  /\ HasParent(s) /\ up[s] # << >>
           /\ UNCHANGED <<down, deliveries, received, published, owed, changes>>
           /\ \/ Head(up[s]) = Sub /\ up' = links /\ StartSubscribe(s) /\ UNCHANGED tasks
              \/ Head(up[s]) = Unsub /\ up' = links /\ StartUnsubscribe(s) /\ UNCHANGED tasks
              \/ \E m \in Messages : /\ Head(up[s]) = Pub(m)
                                     /\ PublishAt(links, Parent[s], m, s)
                                     /\ UNCHANGED <<subs, doing>>
  <1>1. HasParent(s) /\ up[s] # << >> /\ UNCHANGED <<down, deliveries, received, published, owed, changes>>
    BY DEF ParentHandles
  <1>2. Head(up[s]) \in Entries
    <2>1. up \in [Servers -> Seq(Entries)]
      BY DEF TypeOK, Entries
    <2> QED  BY <1>1, <2>1
  <1>3. PICK message : message = Head(up[s])
    OBVIOUS
  <1>4. /\ message.kind = "Sub" => message = Sub
        /\ message.kind = "Unsub" => message = Unsub
        /\ message.kind = "Pub" => message.msg \in Messages /\ message = Pub(message.msg)
    BY <1>2, <1>3 DEF Entries, Sub, Unsub, Pub
  <1>5. \/ message.kind = "Sub" /\ up' = links /\ StartSubscribe(s) /\ UNCHANGED tasks
        \/ message.kind = "Unsub" /\ up' = links /\ StartUnsubscribe(s) /\ UNCHANGED tasks
        \/ /\ message.kind = "Pub" /\ PublishAt(links, Parent[s], message.msg, s)
           /\ UNCHANGED <<subs, doing>>
    BY <1>3 DEF ParentHandles
  <1> QED  BY <1>1, <1>3, <1>4, <1>5

-------------------------------------------------------------------------------
(* The invariant.  Nothing of a message is on its way before it is         *)
(* published, and of no message is there more than one copy for a session; *)
(* where one is owed there is one, and the subscriber's part of the tree   *)
(* is in place.                                                            *)
Unpublished == \A a \in Sessions, m \in Messages : m \notin published => ~SomeCopy(a, m)
OneCopyOfEach == \A a \in Sessions, m \in Messages : OneCopy(a, m)
OwedIsUnderWay == \A o \in owed : Settled(o[1]) /\ SomeCopy(o[1], o[2])

Local == LocalSubscribers /\ LocalTasks /\ LocalCalls
IInv == TypeOK /\ Local /\ Unpublished /\ OneCopyOfEach /\ OwedIsUnderWay

(* The types after the first step of subscribe or unsubscribe,             *)
LEMMA CallKeepsTypes ==
    ASSUME TypeOK, NEW x \in Addressees, StartSubscribe(x) \/ StartUnsubscribe(x)
    PROVE  /\ subs' \in [Servers -> SUBSET Addressees]
           /\ doing' \in [Addressees -> Places]
  <1>1. subs \in [Servers -> SUBSET Addressees] /\ doing \in [Addressees -> Places]
    BY DEF TypeOK, Places
  <1>2. subs' \in [Servers -> SUBSET Addressees]
    BY <1>1 DEF StartSubscribe, StartUnsubscribe
  <1>3. doing' \in [Addressees -> Places]
    BY <1>1 DEF StartSubscribe, StartUnsubscribe, GoesOn, Places
  <1> QED  BY <1>2, <1>3

(* after a later one,                                                      *)
LEMMA CallStepKeepsTypes ==
    ASSUME TypeOK, LocalCalls, NEW x \in Addressees,
           AddSubscriber(x) \/ LookWhoIsLeft(x) \/ TellParent(x)
    PROVE  /\ subs' \in [Servers -> SUBSET Addressees]
           /\ doing' \in [Addressees -> Places]
           /\ up' \in [Servers -> Seq(Entries)]
           /\ UNCHANGED <<down, tasks, deliveries, received, published, owed, changes>>
  <1>1. /\ subs \in [Servers -> SUBSET Addressees] /\ doing \in [Addressees -> Places]
        /\ up \in [Servers -> Seq(Entries)] /\ doing[x] # "nothing"
    BY DEF AddSubscriber, LookWhoIsLeft, TellParent, TypeOK, Places, Entries
  <1>2. Station(x) \in Servers
    BY <1>1, StationIsThere
  <1>3. subs' \in [Servers -> SUBSET Addressees]
    BY <1>1, <1>2 DEF AddSubscriber, LookWhoIsLeft, TellParent
  <1>4. doing' \in [Addressees -> Places]
    BY <1>1 DEF AddSubscriber, LookWhoIsLeft, TellParent, GoesOn, Places
  <1>5. up' \in [Servers -> Seq(Entries)]
    <2>1. \A e \in {Sub, Unsub} : Append(up[Station(x)], e) \in Seq(Entries)
      BY <1>1, <1>2 DEF Entries
    <2> QED  BY <1>1, <2>1 DEF AddSubscriber, LookWhoIsLeft, TellParent
  <1>6. UNCHANGED <<down, tasks, deliveries, received, published, owed, changes>>
    BY DEF AddSubscriber, LookWhoIsLeft, TellParent
  <1> QED  BY <1>3, <1>4, <1>5, <1>6

(* after a call of publish,                                                *)
LEMMA PublishKeepsTypes ==
    ASSUME TypeOK, NEW links \in [Servers -> Seq(Entries)], NEW s \in Servers,
           NEW m \in Messages, NEW x \in Servers \cup {Nobody}, PublishAt(links, s, m, x)
    PROVE  /\ up' \in [Servers -> Seq(Entries)]
           /\ IsABag(tasks') /\ BagToSet(tasks') \subseteq Works
  <1>1. Pub(m) \in Entries
    BY DEF Entries
  <1>2. OneMore(links, s, Pub(m), Promoted(links, s, Pub(m)))
    BY <1>1, PromotedAt, Zenon
  <1>3. PICK t : t = [at |-> s, msg |-> m, except |-> x]
    OBVIOUS
  <1>4. t \in Works
    BY <1>3 DEF Works
  <1>5. IsABag(tasks) /\ DOMAIN tasks \subseteq Works
    BY DEF TypeOK, BagToSet, Works
  <1>6. IsABag(Hand(tasks, {t})) /\ DOMAIN Hand(tasks, {t}) = DOMAIN tasks \cup {t}
    BY <1>5, BagsStayBags, Zenon
  <1> QED  BY <1>2, <1>3, <1>4, <1>5, <1>6 DEF OneMore, PublishAt, BagToSet

(* and after every step.                                                   *)
LEMMA TypesStay ==
    ASSUME TypeOK, LocalCalls, [Next]_vars
    PROVE  TypeOK'
  <1> DEFINE Typed(u, g, l, w, t, d, r, p, o, c) ==
                /\ u \in [Servers -> SUBSET Addressees]
                /\ g \in [Addressees -> Places]
                /\ l \in [Servers -> Seq(Entries)]
                /\ w \in [Servers -> Seq(Messages)]
                /\ IsABag(t) /\ BagToSet(t) \subseteq Works
                /\ IsABag(d) /\ BagToSet(d) \subseteq Deeds
                /\ r \in [Sessions -> [Messages -> Nat]]
                /\ p \subseteq Messages
                /\ o \subseteq Sessions \X p
                /\ c \in 0..MaxChanges
  <1>0. Typed(subs, doing, up, down, tasks, deliveries, received, published, owed, changes)
    BY Zenon DEF TypeOK, Entries, Works, Deeds, Places
  <1> SUFFICES Typed(subs', doing', up', down', tasks', deliveries', received', published', owed', changes')
    BY Zenon DEF TypeOK, Entries, Works, Deeds, Places
  <1>1. ASSUME NEW a \in Sessions, Subscribe(a) \/ Unsubscribe(a)
        PROVE  Typed(subs', doing', up', down', tasks', deliveries', received', published', owed', changes')
    <2>1. a \in Addressees /\ (StartSubscribe(a) \/ StartUnsubscribe(a))
      BY <1>1 DEF Subscribe, Unsubscribe, Addressees
    <2>2. subs' \in [Servers -> SUBSET Addressees] /\ doing' \in [Addressees -> Places]
      BY <2>1, CallKeepsTypes, Zenon
    <2>3. changes' \in 0..MaxChanges
      BY <1>0, <1>1, MaxChangesAssumption DEF Subscribe, Unsubscribe
    <2> QED  BY <1>0, <1>1, <2>2, <2>3 DEF Subscribe, Unsubscribe
  <1>2. ASSUME NEW a \in Sessions, NEW m \in Messages, Publish(a, m)
        PROVE  Typed(subs', doing', up', down', tasks', deliveries', received', published', owed', changes')
    <2>1. PublishAt(up, Home[a], m, Nobody) /\ Home[a] \in Servers
      BY <1>2, PathMeetsLeaf DEF Publish
    <2>2. /\ up' \in [Servers -> Seq(Entries)]
          /\ IsABag(tasks') /\ BagToSet(tasks') \subseteq Works
      BY <1>0, <2>1, PublishKeepsTypes
    <2>3. published' \subseteq Messages /\ owed' \subseteq Sessions \X published'
      BY <1>0, <1>2 DEF Publish
    <2> QED  BY <1>0, <1>2, <2>2, <2>3 DEF Publish
  <1>3. ASSUME NEW s \in Servers, ParentHandles(s)
        PROVE  Typed(subs', doing', up', down', tasks', deliveries', received', published', owed', changes')
    <2>1. PICK links : links = [up EXCEPT ![s] = Tail(@)]
      OBVIOUS
    <2>2. PICK p : p = Parent[s]
      OBVIOUS
    <2>3. /\ HasParent(s) /\ up[s] # << >>
          /\ UNCHANGED <<down, deliveries, received, published, owed, changes>>
          /\ \/ StartSubscribe(s) /\ up' = links /\ UNCHANGED tasks
             \/ StartUnsubscribe(s) /\ up' = links /\ UNCHANGED tasks
             \/ \E m \in Messages : PublishAt(links, p, m, s) /\ UNCHANGED <<subs, doing>>
      BY <1>3, <2>1, <2>2, ParentHandlesOne
    <2>4. ParentTakes(s, [up EXCEPT ![s] = Tail(@)])
      BY <2>3, LinksAreTaken, Zenon
    <2>5. /\ links \in [Servers -> Seq(Entries)] /\ p \in Servers
          /\ s \in Addressees /\ s \in Servers \cup {Nobody}
      BY <2>1, <2>2, <2>3, <2>4, PathByParent DEF ParentTakes, Addressees
    <2>6. CASE (StartSubscribe(s) \/ StartUnsubscribe(s)) /\ up' = links /\ UNCHANGED tasks
      <3>1. subs' \in [Servers -> SUBSET Addressees] /\ doing' \in [Addressees -> Places]
        BY <2>5, <2>6, CallKeepsTypes, Zenon
      <3> QED  BY <1>0, <2>3, <2>5, <2>6, <3>1
    <2>7. ASSUME NEW m \in Messages, PublishAt(links, p, m, s) /\ UNCHANGED <<subs, doing>>
          PROVE  Typed(subs', doing', up', down', tasks', deliveries', received', published', owed', changes')
      <3>1. /\ up' \in [Servers -> Seq(Entries)]
            /\ IsABag(tasks') /\ BagToSet(tasks') \subseteq Works
        BY <2>5, <2>7, PublishKeepsTypes
      <3> QED  BY <1>0, <2>3, <2>7, <3>1
    <2> QED  BY <2>3, <2>6, <2>7
  <1>4. ASSUME NEW s \in Servers, ChildHandles(s)
        PROVE  Typed(subs', doing', up', down', tasks', deliveries', received', published', owed', changes')
    <2>1. PICK t : t = [at |-> s, msg |-> Head(down[s]), except |-> Nobody]
      OBVIOUS
    <2>2. /\ down[s] # << >> /\ down' = [down EXCEPT ![s] = Tail(@)] /\ tasks' = Hand(tasks, {t})
          /\ UNCHANGED <<subs, doing, up, deliveries, received, published, owed, changes>>
      BY <1>4, <2>1 DEF ChildHandles
    <2>3. down[s] \in Seq(Messages)
      BY <1>0
    <2>4. Head(down[s]) \in Messages /\ down' \in [Servers -> Seq(Messages)]
      BY <1>0, <2>2, <2>3
    <2>5. IsABag(Hand(tasks, {t})) /\ DOMAIN Hand(tasks, {t}) = DOMAIN tasks \cup {t}
      BY <1>0, BagsStayBags, Zenon
    <2>6. t \in Works
      BY <2>1, <2>4 DEF Works
    <2>7. IsABag(tasks') /\ BagToSet(tasks') \subseteq Works
      BY <1>0, <2>2, <2>5, <2>6 DEF BagToSet
    <2> QED  BY <1>0, <2>2, <2>4, <2>7
  <1>5. ASSUME NEW t \in BagToSet(tasks), RunTask(t)
        PROVE  Typed(subs', doing', up', down', tasks', deliveries', received', published', owed', changes')
    <2>1. PICK work : work = {[to |-> x, msg |-> t.msg] : x \in subs[t.at] \ {t.except}}
      OBVIOUS
    <2>2. /\ tasks' = Done(tasks, t) /\ deliveries' = Hand(deliveries, work)
          /\ UNCHANGED <<subs, doing, up, down, received, published, owed, changes>>
      BY <1>5, <2>1 DEF RunTask
    <2>3. t \in DOMAIN tasks /\ t.at \in Servers /\ t.msg \in Messages
      BY <1>0, <1>5 DEF BagToSet, Works
    <2>4. work \subseteq Deeds
      BY <1>0, <2>1, <2>3 DEF Deeds
    <2>5. IsABag(Hand(deliveries, work)) /\ DOMAIN Hand(deliveries, work) = DOMAIN deliveries \cup work
      BY <1>0, BagsStayBags, Zenon
    <2>6. IsABag(Done(tasks, t)) /\ DOMAIN Done(tasks, t) \subseteq DOMAIN tasks
      BY <1>0, <2>3, BagsStayBags, Zenon
    <2> QED  BY <1>0, <2>2, <2>4, <2>5, <2>6 DEF BagToSet
  <1>6. ASSUME NEW d \in BagToSet(deliveries), Deliver(d)
        PROVE  Typed(subs', doing', up', down', tasks', deliveries', received', published', owed', changes')
    <2>1. /\ deliveries' = Done(deliveries, d) /\ d \in DOMAIN deliveries
          /\ d.msg \in Messages
          /\ UNCHANGED <<subs, doing, up, tasks, published, owed, changes>>
      BY <1>0, <1>6 DEF Deliver, BagToSet, Deeds
    <2>2. IsABag(Done(deliveries, d)) /\ DOMAIN Done(deliveries, d) \subseteq DOMAIN deliveries
      BY <1>0, <2>1, BagsStayBags, Zenon
    <2>3. /\ down' \in [Servers -> Seq(Messages)]
          /\ received' \in [Sessions -> [Messages -> Nat]]
      <3>1. CASE d.to \in Sessions /\ received' = [received EXCEPT ![d.to][d.msg] = @ + 1] /\ UNCHANGED down
        BY <1>0, <2>1, <3>1
      <3>2. CASE d.to \in Servers /\ down' = [down EXCEPT ![d.to] = Append(@, d.msg)] /\ UNCHANGED received
        <4>1. down[d.to] \in Seq(Messages)
          BY <1>0, <3>2
        <4>2. Append(down[d.to], d.msg) \in Seq(Messages)
          BY <2>1, <4>1
        <4> QED  BY <1>0, <3>2, <4>2
      <3> QED  BY <1>6, <3>1, <3>2 DEF Deliver
    <2> QED  BY <1>0, <2>1, <2>2, <2>3 DEF BagToSet
  <1>7. CASE UNCHANGED vars
    BY <1>0, <1>7 DEF vars
  <1>8. ASSUME NEW x \in Addressees, AddSubscriber(x) \/ LookWhoIsLeft(x) \/ TellParent(x)
        PROVE  Typed(subs', doing', up', down', tasks', deliveries', received', published', owed', changes')
    BY <1>0, <1>8, CallStepKeepsTypes
  <1> QED  BY <1>1, <1>2, <1>3, <1>4, <1>5, <1>6, <1>7, <1>8 DEF Next, Rest

(* Every subscriber of a server stays one of its children or of its own    *)
(* sessions, and a task excepts nobody or a child of its server.           *)
LEMMA LocalStays ==
    ASSUME TypeOK, Local, [Next]_vars
    PROVE  Local'
  <1>0. /\ subs \in [Servers -> SUBSET Addressees] /\ IsABag(tasks)
        /\ doing \in [Addressees -> Places] /\ Servers \cap Sessions = {}
    BY NamesAssumption DEF TypeOK, Places
  <1>1. ASSUME UNCHANGED subs PROVE LocalSubscribers'
    BY <1>1 DEF Local, LocalSubscribers
  <1>2. ASSUME UNCHANGED tasks PROVE LocalTasks'
    BY <1>2 DEF Local, LocalTasks
  <1>11. ASSUME UNCHANGED doing PROVE LocalCalls'
    BY <1>11 DEF Local, LocalCalls
  <1>12. ASSUME NEW x \in Addressees, x \in Servers => HasParent(x), NEW place, GoesOn(x, place)
         PROVE  LocalCalls'
    BY <1>0, <1>12 DEF Local, LocalCalls, GoesOn
  <1>13. ASSUME NEW x \in Addressees, x \in Servers => HasParent(x), UNCHANGED tasks,
                StartSubscribe(x) \/ StartUnsubscribe(x)
         PROVE  Local'
    <2>1. LocalCalls'
      BY <1>12, <1>13 DEF StartSubscribe, StartUnsubscribe
    <2>2. \A s \in Servers : subs'[s] \subseteq subs[s]
      BY <1>0, <1>13 DEF StartSubscribe, StartUnsubscribe
    <2>3. LocalSubscribers'
      BY <2>2 DEF Local, LocalSubscribers
    <2> QED  BY <1>2, <1>13, <2>1, <2>3 DEF Local
  <1>3. ASSUME NEW a \in Sessions, Subscribe(a) \/ Unsubscribe(a) PROVE Local'
    <2>1. a \in Addressees /\ a \notin Servers
      BY <1>0 DEF Addressees
    <2> QED  BY <1>3, <1>13, <2>1 DEF Subscribe, Unsubscribe
  <1>14. ASSUME NEW x \in Addressees, AddSubscriber(x) \/ LookWhoIsLeft(x) \/ TellParent(x)
         PROVE  Local'
    <2>1. doing[x] # "nothing" /\ LocalCalls /\ UNCHANGED tasks
      BY <1>14 DEF AddSubscriber, LookWhoIsLeft, TellParent, Local
    <2>2. /\ Station(x) \in Servers
          /\ \/ x \in Sessions /\ Home[x] = Station(x)
             \/ x \in Servers /\ HasParent(x) /\ Parent[x] = Station(x)
      BY <2>1, StationIsThere, Zenon
    <2>3. LocalCalls'
      BY <1>0, <1>12, <1>14, <2>2 DEF AddSubscriber, LookWhoIsLeft, TellParent
    <2>4. \A s \in Servers : \A y \in subs'[s] : y \in subs[s] \/ (y = x /\ s = Station(x))
      BY <1>0, <1>14 DEF AddSubscriber, LookWhoIsLeft, TellParent
    <2>5. LocalSubscribers'
      BY <2>2, <2>4 DEF Local, LocalSubscribers
    <2> QED  BY <1>2, <2>1, <2>3, <2>5 DEF Local
  <1>4. ASSUME NEW t \in Works, tasks' = Hand(tasks, {t}),
               t.except = Nobody \/ (t.except \in Servers /\ HasParent(t.except) /\ Parent[t.except] = t.at)
        PROVE  LocalTasks'
    <2>1. DOMAIN Hand(tasks, {t}) = DOMAIN tasks \cup {t}
      BY <1>0, BagsStayBags, Zenon
    <2> QED  BY <1>4, <2>1 DEF Local, LocalTasks
  <1>5. ASSUME NEW a \in Sessions, NEW m \in Messages, Publish(a, m) PROVE Local'
    <2>1. PICK t : t = [at |-> Home[a], msg |-> m, except |-> Nobody]
      OBVIOUS
    <2>2. t \in Works /\ t.except = Nobody
      BY <2>1, PathMeetsLeaf DEF Works
    <2>3. tasks' = Hand(tasks, {t}) /\ UNCHANGED <<subs, doing>>
      BY <1>5, <2>1 DEF Publish, PublishAt
    <2> QED  BY <1>1, <1>4, <1>11, <2>2, <2>3 DEF Local
  <1>6. ASSUME NEW s \in Servers, ParentHandles(s) PROVE Local'
    <2>1. PICK links, p : links = [up EXCEPT ![s] = Tail(@)] /\ p = Parent[s]
      OBVIOUS
    <2>2. /\ HasParent(s) /\ p \in Servers
          /\ \/ (StartSubscribe(s) \/ StartUnsubscribe(s)) /\ UNCHANGED tasks
             \/ \E m \in Messages : PublishAt(links, p, m, s) /\ UNCHANGED <<subs, doing>>
      BY <1>6, <2>1, ParentHandlesOne, PathByParent
    <2>3. CASE (StartSubscribe(s) \/ StartUnsubscribe(s)) /\ UNCHANGED tasks
      BY <1>13, <2>2, <2>3 DEF Addressees
    <2>4. ASSUME NEW m \in Messages, PublishAt(links, p, m, s), UNCHANGED <<subs, doing>> PROVE Local'
      <3>1. PICK t : t = [at |-> p, msg |-> m, except |-> s]
        OBVIOUS
      <3>2. t \in Works /\ t.except \in Servers /\ HasParent(t.except) /\ Parent[t.except] = t.at
        BY <2>1, <2>2, <3>1 DEF Works
      <3>3. tasks' = Hand(tasks, {t})
        BY <2>4, <3>1 DEF PublishAt
      <3> QED  BY <1>1, <1>4, <1>11, <2>4, <3>2, <3>3 DEF Local
    <2> QED  BY <2>2, <2>3, <2>4
  <1>7. ASSUME NEW s \in Servers, ChildHandles(s) PROVE Local'
    <2>1. PICK t : t = [at |-> s, msg |-> Head(down[s]), except |-> Nobody]
      OBVIOUS
    <2>2. tasks' = Hand(tasks, {t}) /\ UNCHANGED <<subs, doing>> /\ down[s] # << >>
      BY <1>7, <2>1 DEF ChildHandles
    <2>3. down[s] \in Seq(Messages)
      BY DEF TypeOK
    <2>4. Head(down[s]) \in Messages
      BY <2>2, <2>3
    <2>5. t \in Works /\ t.except = Nobody
      BY <2>1, <2>4 DEF Works
    <2> QED  BY <1>1, <1>4, <1>11, <2>2, <2>5 DEF Local
  <1>8. ASSUME NEW t \in BagToSet(tasks), RunTask(t) PROVE Local'
    <2>1. t \in DOMAIN tasks /\ tasks' = Done(tasks, t) /\ UNCHANGED <<subs, doing>>
      BY <1>8 DEF RunTask, BagToSet
    <2>2. DOMAIN Done(tasks, t) \subseteq DOMAIN tasks
      BY <1>0, <2>1, BagsStayBags, Zenon
    <2>3. LocalTasks'
      BY <2>1, <2>2 DEF Local, LocalTasks
    <2> QED  BY <1>1, <1>11, <2>1, <2>3 DEF Local
  <1>9. ASSUME NEW d \in BagToSet(deliveries), Deliver(d) PROVE Local'
    BY <1>1, <1>2, <1>9, <1>11 DEF Deliver, Local
  <1>10. CASE UNCHANGED vars
    BY <1>1, <1>2, <1>10, <1>11 DEF vars, Local
  <1> QED  BY <1>3, <1>5, <1>6, <1>7, <1>8, <1>9, <1>10, <1>14 DEF Next, Rest

-------------------------------------------------------------------------------
(* The step that publishes k makes one copy of it for each session; every  *)
(* other step keeps the number, except that a task may find nobody to give *)
(* the message to: never when the subscriber's part of the tree is in      *)
(* place.                                                                  *)
Kept(a, k) == /\ OneCopy(a, k) => OneCopy(a, k)'
              /\ SomeCopy(a, k)' => SomeCopy(a, k)
              /\ Settled(a) /\ SomeCopy(a, k) => SomeCopy(a, k)'
Made(a, k) == ~SomeCopy(a, k) => OneCopy(a, k)' /\ SomeCopy(a, k)'
Fresh(k) == k \in published' /\ k \notin published

(* Each step makes one copy of what it publishes and keeps those of the    *)
(* others.                                                                 *)
LEMMA CopiesStay ==
    ASSUME TypeOK, Local, [Next]_vars, NEW a \in Sessions, NEW k \in Messages
    PROVE  /\ published \subseteq published'
           /\ Fresh(k) => Made(a, k)
           /\ ~Fresh(k) => Kept(a, k)
  <1>1. ASSUME UNCHANGED published, Kept(a, k)
        PROVE  published \subseteq published' /\ (Fresh(k) => Made(a, k)) /\ (~Fresh(k) => Kept(a, k))
    BY <1>1 DEF Fresh
  <1>2. ASSUME UNCHANGED <<up, down, tasks, deliveries, received>> PROVE Kept(a, k)
    <2>1. \A f, y, n : Copy(a, k, f, y, n)' <=> Copy(a, k, f, y, n)
      BY <1>2 DEF Copy, Climbing, Descending, InTask, InDelivery, Arrived
    <2> QED  BY <2>1 DEF Kept, OneCopy, SomeCopy
  <1>3. ASSUME NEW b \in Sessions, Subscribe(b) \/ Unsubscribe(b)
        PROVE  published \subseteq published' /\ (Fresh(k) => Made(a, k)) /\ (~Fresh(k) => Kept(a, k))
    BY <1>1, <1>2, <1>3 DEF Subscribe, Unsubscribe
  <1>10. ASSUME NEW x \in Addressees, AddSubscriber(x) \/ LookWhoIsLeft(x) \/ TellParent(x)
         PROVE  published \subseteq published' /\ (Fresh(k) => Made(a, k)) /\ (~Fresh(k) => Kept(a, k))
    <2>1. CASE AddSubscriber(x) \/ LookWhoIsLeft(x)
      BY <1>1, <1>2, <2>1 DEF AddSubscriber, LookWhoIsLeft
    <2>2. CASE TellParent(x)
      <3>1. PICK call \in {Sub, Unsub} : /\ up' = [up EXCEPT ![Station(x)] = Append(@, call)]
                                         /\ UNCHANGED <<down, tasks, deliveries, received, published>>
        BY <2>2 DEF TellParent
      <3>2. Station(x) \in Servers
        BY <2>2, StationIsThere DEF TellParent, Local
      <3>3. \A f, y, n : Copy(a, k, f, y, n)' <=> Copy(a, k, f, y, n)
        BY <3>1, <3>2, TellKeepsCopies
      <3>4. Kept(a, k)
        BY <3>3 DEF Kept, OneCopy, SomeCopy
      <3> QED  BY <1>1, <3>1, <3>4
    <2> QED  BY <1>10, <2>1, <2>2
  <1>4. ASSUME NEW b \in Sessions, NEW m \in Messages, Publish(b, m)
        PROVE  published \subseteq published' /\ (Fresh(k) => Made(a, k)) /\ (~Fresh(k) => Kept(a, k))
    <2>1. published' = published \cup {m} /\ m \notin published
      BY <1>4 DEF Publish
    <2>2. /\ k # m => (OneCopy(a, k) => OneCopy(a, k)') /\ (SomeCopy(a, k)' <=> SomeCopy(a, k))
          /\ k = m => (~SomeCopy(a, k) => OneCopy(a, k)' /\ SomeCopy(a, k)')
      BY <1>4, PublishMakesOneCopy, Zenon
    <2>3. Fresh(k) <=> k = m
      BY <2>1 DEF Fresh
    <2> QED  BY <2>1, <2>2, <2>3 DEF Made, Kept
  <1>5. ASSUME NEW s \in Servers, ParentHandles(s)
        PROVE  published \subseteq published' /\ (Fresh(k) => Made(a, k)) /\ (~Fresh(k) => Kept(a, k))
    <2>1. PICK links : links = [up EXCEPT ![s] = Tail(@)]
      OBVIOUS
    <2>2. /\ HasParent(s) /\ up[s] # << >>
          /\ UNCHANGED <<down, deliveries, received>> /\ UNCHANGED published
          /\ \/ Head(up[s]) \in {Sub, Unsub} /\ up' = links /\ UNCHANGED tasks
             \/ \E m \in Messages : Head(up[s]) = Pub(m) /\ PublishAt(links, Parent[s], m, s)
      BY <1>5, <2>1, ParentHandlesOne
    <2>3. CASE Head(up[s]) \in {Sub, Unsub} /\ up' = links /\ UNCHANGED tasks
      <3>1. /\ OneCopy(a, k) => OneCopy(a, k)'
            /\ SomeCopy(a, k)' <=> SomeCopy(a, k)
        BY <2>1, <2>2, <2>3, CallTakenKeepsCopies
      <3> QED  BY <1>1, <2>2, <3>1 DEF Kept
    <2>4. ASSUME NEW m \in Messages, Head(up[s]) = Pub(m), PublishAt(links, Parent[s], m, s)
          PROVE  published \subseteq published' /\ (Fresh(k) => Made(a, k)) /\ (~Fresh(k) => Kept(a, k))
      <3>1. /\ OneCopy(a, k) => OneCopy(a, k)'
            /\ SomeCopy(a, k)' <=> SomeCopy(a, k)
        BY <2>1, <2>2, <2>4, PubKeepsCopies
      <3> QED  BY <1>1, <2>2, <3>1 DEF Kept
    <2> QED  BY <2>2, <2>3, <2>4
  <1>6. ASSUME NEW s \in Servers, ChildHandles(s)
        PROVE  published \subseteq published' /\ (Fresh(k) => Made(a, k)) /\ (~Fresh(k) => Kept(a, k))
    <2>1. /\ OneCopy(a, k) => OneCopy(a, k)'
          /\ SomeCopy(a, k)' <=> SomeCopy(a, k)
      BY <1>6, ChildKeepsCopies, Zenon
    <2> QED  BY <1>1, <1>6, <2>1 DEF ChildHandles, Kept
  <1>7. ASSUME NEW t \in BagToSet(tasks), RunTask(t)
        PROVE  published \subseteq published' /\ (Fresh(k) => Made(a, k)) /\ (~Fresh(k) => Kept(a, k))
    <2>1. /\ OneCopy(a, k) => OneCopy(a, k)'
          /\ SomeCopy(a, k)' => SomeCopy(a, k)
          /\ Settled(a) /\ SomeCopy(a, k) => SomeCopy(a, k)'
      BY <1>7, TaskKeepsCopies, Zenon DEF Local
    <2> QED  BY <1>1, <1>7, <2>1 DEF RunTask, Kept
  <1>8. ASSUME NEW d \in BagToSet(deliveries), Deliver(d)
        PROVE  published \subseteq published' /\ (Fresh(k) => Made(a, k)) /\ (~Fresh(k) => Kept(a, k))
    <2>1. /\ OneCopy(a, k) => OneCopy(a, k)'
          /\ SomeCopy(a, k)' <=> SomeCopy(a, k)
      BY <1>8, DeliveryKeepsCopies, Zenon
    <2> QED  BY <1>1, <1>8, <2>1 DEF Deliver, Kept
  <1>9. CASE UNCHANGED vars
    <2>1. UNCHANGED published /\ \A f, y, n : Copy(a, k, f, y, n)' <=> Copy(a, k, f, y, n)
      BY <1>9 DEF vars, Copy, Climbing, Descending, InTask, InDelivery, Arrived
    <2> QED  BY <1>1, <2>1 DEF Kept, OneCopy, SomeCopy
  <1> QED  BY <1>3, <1>4, <1>5, <1>6, <1>7, <1>8, <1>9, <1>10 DEF Next, Rest

(* What is owed after a step was owed before, or its message is the one    *)
(* just published; the subscriber's part of the tree is in place.          *)
LEMMA OwedStays ==
    ASSUME TypeOK, Local, [Next]_vars, \A p \in owed : Settled(p[1]),
           NEW o, o \in owed'
    PROVE  /\ o \in owed \/ (o \in Sessions \X Messages /\ Fresh(o[2]))
           /\ Settled(o[1])'
  <1>0. /\ up \in [Servers -> Seq(Entries)] /\ owed \subseteq Sessions \X Messages
        /\ \A v \in Servers : \A n, e : At(up[v], n, e) => \E r : At(up[v], r, e)
    BY DEF TypeOK, Entries
  <1>1. ASSUME UNCHANGED <<subs, doing, up>>, NEW a, Settled(a) PROVE Settled(a)'
    BY <1>1 DEF Settled
  <1>2. ASSUME UNCHANGED <<subs, doing, up, owed>>
        PROVE  (o \in owed \/ (o \in Sessions \X Messages /\ Fresh(o[2]))) /\ Settled(o[1])'
    BY <1>1, <1>2
  <1>3. ASSUME NEW b \in Sessions, Subscribe(b) \/ Unsubscribe(b)
        PROVE  (o \in owed \/ (o \in Sessions \X Messages /\ Fresh(o[2]))) /\ Settled(o[1])'
    <2>1. PICK a : a = o[1]
      OBVIOUS
    <2>2. /\ o \in owed /\ a \in Sessions /\ Settled(a) /\ b \in Addressees /\ up' = up
          /\ (Unsubscribe(b) => a # b)
      BY <1>0, <1>3, <2>1 DEF Subscribe, Unsubscribe, Addressees
    <2>3. StartSubscribe(b) \/ (StartUnsubscribe(b) /\ b \notin Towards(a))
      BY <1>3, <2>2, PathMeetsLeaf, PathIsLeast, NamesAssumption DEF Subscribe, Unsubscribe
    <2>4. Settled(a)'
      BY <2>2, <2>3, CallStartKeepsSettled
    <2> QED  BY <2>1, <2>2, <2>4
  <1>10. ASSUME NEW x \in Addressees, AddSubscriber(x) \/ LookWhoIsLeft(x) \/ TellParent(x)
         PROVE  (o \in owed \/ (o \in Sessions \X Messages /\ Fresh(o[2]))) /\ Settled(o[1])'
    <2>1. PICK a : a = o[1]
      OBVIOUS
    <2>a. owed' = owed /\ LocalCalls
      BY <1>10 DEF AddSubscriber, LookWhoIsLeft, TellParent, Local
    <2>b. o \in owed
      BY <2>a
    <2>2. o \in owed /\ a \in Sessions /\ Settled(a) /\ LocalCalls
      <3>1. o[1] \in Sessions
        BY <1>0, <2>b
      <3>2. Settled(o[1])
        BY <2>b
      <3> QED  BY <2>1, <2>a, <2>b, <3>1, <3>2
    <2>3. Settled(a)'
      BY <1>10, <2>2, CallStepKeepsSettled
    <2> QED  BY <2>1, <2>2, <2>3
  <1>4. ASSUME NEW b \in Sessions, NEW m \in Messages, Publish(b, m)
        PROVE  (o \in owed \/ (o \in Sessions \X Messages /\ Fresh(o[2]))) /\ Settled(o[1])'
    <2>1. PICK h : h = Home[b] /\ h \in Servers
      BY PathMeetsLeaf
    <2>2. PICK a : a = o[1]
      OBVIOUS
    <2>3. /\ up' = Promoted(up, h, Pub(m)) /\ UNCHANGED <<subs, doing>>
          /\ m \notin published /\ m \in published'
          /\ o \in owed \/ (\E c \in Sessions : Settled(c) /\ o = <<c, m>>)
      BY <1>4, <2>1 DEF Publish, PublishAt
    <2>4. /\ a \in Sessions /\ Settled(a)
          /\ o \in owed \/ (o \in Sessions \X Messages /\ Fresh(o[2]))
      BY <1>0, <2>2, <2>3 DEF Fresh
    <2>5. Settled(a)'
      BY <1>0, <2>1, <2>3, <2>4, PubKeepsSettled
    <2> QED  BY <2>2, <2>4, <2>5
  <1>5. ASSUME NEW s \in Servers, ParentHandles(s)
        PROVE  (o \in owed \/ (o \in Sessions \X Messages /\ Fresh(o[2]))) /\ Settled(o[1])'
    <2>1. PICK links, p, a : links = [up EXCEPT ![s] = Tail(@)] /\ p = Parent[s] /\ a = o[1]
      OBVIOUS
    <2>2. /\ HasParent(s) /\ up[s] # << >> /\ UNCHANGED owed
          /\ \/ Head(up[s]) = Sub /\ up' = links /\ StartSubscribe(s)
             \/ Head(up[s]) = Unsub /\ up' = links /\ StartUnsubscribe(s)
             \/ \E m \in Messages : /\ Head(up[s]) = Pub(m) /\ PublishAt(links, p, m, s)
                                    /\ UNCHANGED <<subs, doing>>
      BY <1>5, <2>1, ParentHandlesOne
    <2>3. ParentTakes(s, [up EXCEPT ![s] = Tail(@)])
      BY <2>2, LinksAreTaken, Zenon
    <2>4. /\ links \in [Servers -> Seq(Entries)] /\ p \in Servers /\ s \in Addressees
          /\ \A v \in Servers : \A n, e : At(links[v], n, e) => \E r : At(up[v], r, e)
          /\ At(up[s], 1, Head(up[s]))
      BY <2>1, <2>2, <2>3, PathByParent DEF ParentTakes, Addressees
    <2>5. o \in owed /\ a \in Sessions /\ Settled(a)
      BY <1>0, <2>1, <2>2
    <2>6. Head(up[s]) = Unsub => s \notin Towards(a)
      <3> SUFFICES ASSUME Head(up[s]) = Unsub, s \in Towards(a) PROVE FALSE
        OBVIOUS
      <3>1. s \in On(a)
        BY <2>5, NamesAssumption
      <3>2. \A n \in DOMAIN up[s] : up[s][n] # Unsub
        BY <2>2, <2>5, <3>1 DEF Settled
      <3>3. 1 \in DOMAIN up[s] /\ up[s][1] = Unsub
        BY <2>4 DEF At
      <3> QED  BY <3>2, <3>3
    <2>7. CASE up' = links /\ (StartSubscribe(s) \/ (StartUnsubscribe(s) /\ s \notin Towards(a)))
      <3>1. Settled(a)'
        BY <2>4, <2>5, <2>7, CallStartKeepsSettled
      <3> QED  BY <2>1, <2>5, <3>1
    <2>8. ASSUME NEW m \in Messages, PublishAt(links, p, m, s), UNCHANGED <<subs, doing>>
          PROVE  (o \in owed \/ (o \in Sessions \X Messages /\ Fresh(o[2]))) /\ Settled(o[1])'
      <3>1. up' = Promoted(links, p, Pub(m))
        BY <2>8 DEF PublishAt
      <3>2. Settled(a)'
        BY <2>4, <2>5, <2>8, <3>1, PubKeepsSettled
      <3> QED  BY <2>1, <2>5, <3>2
    <2> QED  BY <2>2, <2>6, <2>7, <2>8
  <1>6. ASSUME NEW s \in Servers, ChildHandles(s)
        PROVE  (o \in owed \/ (o \in Sessions \X Messages /\ Fresh(o[2]))) /\ Settled(o[1])'
    BY <1>2, <1>6 DEF ChildHandles
  <1>7. ASSUME NEW t \in BagToSet(tasks), RunTask(t)
        PROVE  (o \in owed \/ (o \in Sessions \X Messages /\ Fresh(o[2]))) /\ Settled(o[1])'
    BY <1>2, <1>7 DEF RunTask
  <1>8. ASSUME NEW d \in BagToSet(deliveries), Deliver(d)
        PROVE  (o \in owed \/ (o \in Sessions \X Messages /\ Fresh(o[2]))) /\ Settled(o[1])'
    BY <1>2, <1>8 DEF Deliver
  <1>9. CASE UNCHANGED vars
    BY <1>2, <1>9 DEF vars
  <1> QED  BY <1>3, <1>4, <1>5, <1>6, <1>7, <1>8, <1>9, <1>10 DEF Next, Rest

-------------------------------------------------------------------------------
(* The invariant holds at first, when nothing has been sent,               *)
LEMMA InitIInv == Init => IInv
  <1> SUFFICES ASSUME Init PROVE IInv
    OBVIOUS
  <1>1. /\ subs = [s \in Servers |-> {}] /\ doing = [x \in Addressees |-> "nothing"] /\ up = [s \in Servers |-> << >>]
        /\ down = [s \in Servers |-> << >>] /\ tasks = EmptyBag /\ deliveries = EmptyBag
        /\ received = [a \in Sessions |-> [m \in Messages |-> 0]]
        /\ published = {} /\ owed = {} /\ changes = 0
    BY DEF Init
  <1>2. DOMAIN EmptyBag = {} /\ IsABag(EmptyBag)
    BY DEF EmptyBag, SetToBag, IsABag
  <1>3. \A seq : seq = << >> => DOMAIN seq = {}
    OBVIOUS
  <1>4. TypeOK
    BY <1>1, <1>2, MaxChangesAssumption DEF TypeOK, BagToSet
  <1>5. Local
    BY <1>1, <1>2 DEF Local, LocalSubscribers, LocalTasks, LocalCalls, Addressees
  <1>6. ASSUME NEW a \in Sessions, NEW m \in Messages, NEW f, NEW x, NEW n PROVE ~Copy(a, m, f, x, n)
    <2>1. On(a) \subseteq Servers
      BY PathMeetsLeaf, PathIsLeast
    <2> QED  BY <1>1, <1>2, <1>3, <2>1 DEF Copy, Climbing, Descending, InTask, InDelivery, Arrived, At, Holds
  <1>7. Unpublished /\ OneCopyOfEach /\ OwedIsUnderWay
    BY <1>1, <1>6 DEF Unpublished, OneCopyOfEach, OwedIsUnderWay, OneCopy, SomeCopy
  <1> QED  BY <1>4, <1>5, <1>7 DEF IInv

(* and every step keeps it.                                                *)
LEMMA NextIInv == IInv /\ [Next]_vars => IInv'
  <1> SUFFICES ASSUME IInv, [Next]_vars PROVE IInv'
    OBVIOUS
  <1>1. TypeOK /\ Local /\ Unpublished /\ OneCopyOfEach /\ OwedIsUnderWay
    BY DEF IInv
  <1>2. TypeOK' /\ Local'
    BY <1>1, TypesStay, LocalStays DEF Local
  <1>3. ASSUME NEW a \in Sessions, NEW m \in Messages
        PROVE  /\ published \subseteq published'
               /\ Fresh(m) => Made(a, m)
               /\ ~Fresh(m) => Kept(a, m)
    BY <1>1, CopiesStay, Zenon
  <1>4. Unpublished'
    BY <1>1, <1>3 DEF Unpublished, Fresh, Kept
  <1>5. OneCopyOfEach'
    BY <1>1, <1>3 DEF OneCopyOfEach, Unpublished, Fresh, Kept, Made
  <1>6. OwedIsUnderWay'
    <2> SUFFICES ASSUME NEW o, o \in owed' PROVE Settled(o[1])' /\ SomeCopy(o[1], o[2])'
      BY DEF OwedIsUnderWay
    <2>1. \A p \in owed : Settled(p[1]) /\ SomeCopy(p[1], p[2])
      BY <1>1 DEF OwedIsUnderWay
    <2>2. /\ o \in owed \/ (o \in Sessions \X Messages /\ Fresh(o[2]))
          /\ Settled(o[1])'
      BY <1>1, <2>1, OwedStays, Zenon
    <2>3. owed \subseteq Sessions \X published /\ published \subseteq Messages
      BY <1>1 DEF TypeOK
    <2>4. PICK a, m : a = o[1] /\ m = o[2]
      OBVIOUS
    <2>5. a \in Sessions /\ m \in Messages
      BY <2>2, <2>3, <2>4
    <2>6. CASE Fresh(m)
      BY <1>1, <1>3, <2>2, <2>4, <2>5, <2>6 DEF Unpublished, Fresh, Made
    <2>7. CASE ~Fresh(m)
      <3>1. o \in owed
        BY <2>2, <2>4, <2>7
      <3>2. Settled(a) /\ SomeCopy(a, m)
        BY <2>1, <2>4, <3>1
      <3> QED  BY <1>3, <2>2, <2>4, <2>5, <2>7, <3>2 DEF Kept
    <2> QED  BY <2>6, <2>7
  <1> QED  BY <1>2, <1>4, <1>5, <1>6 DEF IInv

(* The inductive invariant holds in every state.                           *)
THEOREM Invariance == Spec => []IInv
  BY InitIInv, NextIInv, PTL DEF Spec

(* The links carry only Sub, Unsub and Pub, the pools hold only tasks and  *)
(* deliveries of published messages for servers and sessions there are,    *)
(* and nobody is owed a message that was not published.                    *)
THEOREM TypeCorrect == Spec => []TypeOK
  <1>1. IInv => TypeOK
    BY DEF IInv
  <1> QED  BY <1>1, Invariance, PTL

(* Global.publish, LocalSubscriberHandler and GwemsPubSub give no session  *)
(* a message twice, whatever tree the servers form and whoever subscribes  *)
(* and unsubscribes while the message climbs and descends.                 *)
THEOREM EachIsGivenOnce == Spec => []AtMostOnce
  <1>1. IInv => AtMostOnce
    <2> SUFFICES ASSUME IInv, NEW a \in Sessions, NEW m \in Messages PROVE received[a][m] <= 1
      BY DEF AtMostOnce
    <2>1. received[a][m] \in Nat
      BY DEF IInv, TypeOK
    <2>2. \A n, k : n \in 1..received[a][m] /\ k \in 1..received[a][m] => n = k
      BY DEF IInv, OneCopyOfEach, OneCopy, Copy, Arrived
    <2>3. 2 \notin 1..received[a][m] \/ 1 \notin 1..received[a][m]
      BY <2>2
    <2> QED  BY <2>1, <2>3
  <1> QED  BY <1>1, Invariance, PTL

(* A session that was subscribed all the way to the root when a message    *)
(* was published, with no Unsub on its way, and that stayed subscribed has *)
(* been given the message when nothing is under way any more: no call that *)
(* others begin later cuts it off, in whatever order its steps are taken.  *)
THEOREM WhatIsOwedArrives == Spec => []OwedIsReceived
  <1>1. IInv => OwedIsReceived
    <2> SUFFICES ASSUME IInv, Drained, NEW o \in owed PROVE received[o[1]][o[2]] = 1
      BY DEF OwedIsReceived
    <2>1. PICK a, m : a = o[1] /\ m = o[2]
      OBVIOUS
    <2>2. a \in Sessions /\ m \in Messages /\ SomeCopy(a, m) /\ received[a][m] \in Nat
      BY <2>1 DEF IInv, TypeOK, OwedIsUnderWay
    <2>3. On(a) \subseteq Servers
      BY <2>2, PathMeetsLeaf, PathIsLeast
    <2>4. \A s \in Servers : DOMAIN up[s] = {} /\ DOMAIN down[s] = {}
      BY DEF Drained
    <2>5. DOMAIN tasks = {} /\ DOMAIN deliveries = {}
      BY DEF Drained, EmptyBag, SetToBag
    <2>6. PICK n : n \in 1..received[a][m]
      BY <2>2, <2>3, <2>4, <2>5 DEF SomeCopy, Copy, Climbing, Descending, InTask, InDelivery, Arrived, At, Holds
    <2>7. \A i, k : i \in 1..received[a][m] /\ k \in 1..received[a][m] => i = k
      BY <2>2 DEF IInv, OneCopyOfEach, OneCopy, Copy, Arrived
    <2>8. 2 \notin 1..received[a][m] \/ 1 \notin 1..received[a][m]
      BY <2>7
    <2>9. received[a][m] = 1
      BY <2>2, <2>6, <2>8
    <2> QED  BY <2>1, <2>9
  <1> QED  BY <1>1, Invariance, PTL
=============================================================================
