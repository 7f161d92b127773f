---------------------------- MODULE ChaosProofs ----------------------------
(***************************************************************************)
(* Fault injection, for any number of replicas, calls and buttons and any  *)
(* capacity of the event log: the isolate button isolates                  *)
(* (IsolationHolds), the fields keep their types, the timeline agrees with *)
(* the partitions in force (TimelineExplains) and the counters of every    *)
(* peer add up (CountersBalance).                                          *)
(***************************************************************************)
EXTENDS Chaos, NaturalFacts, SequenceTheorems

Isolates == [click : Nat, target : Node, others : SUBSET Node,
             outbound : BOOLEAN, intact : BOOLEAN]
Routes == {"partition", "heal", "latency", "drop", "clear", "crash"}
Posts == [node : Node, route : Routes, peer : Node \cup {All}, level : Nat, click : Nat]

Shape ==
  /\ partitioned \in [Node -> SUBSET Node]
  /\ isolates \subseteq Isolates
  /\ posts \subseteq Posts
  /\ clicks \in Nat

\* Replica i refuses j, or a post of g that tells it to is under way.
Refusing(g, i, j) ==
  \/ j \in partitioned[i]
  \/ \E q \in posts : q.node = i /\ q.route = "partition" /\ q.peer = j /\ q.click = g.click

\* How far an isolate that nothing went wrong with has come.
Progress(g) ==
  g.intact =>
    /\ \A o \in Peers(g.target) : o \notin g.others => Refusing(g, g.target, o)
    /\ ~g.outbound => /\ g.others = {}
                      /\ \A o \in Peers(g.target) : Refusing(g, o, g.target)

Inv == Shape /\ \A g \in isolates : Progress(g)

-----------------------------------------------------------------------------
\* A post made by a handler is one.
LEMMA PostTyped ==
  ASSUME NEW i \in Node, NEW route \in Routes, NEW peer \in Node \cup {All},
         NEW level \in Nat, NEW click \in Nat
  PROVE  Post(i, route, peer, level, click) \in Posts
  BY DEF Post, Posts

\* Initially no isolate is under way.
LEMMA InitInv == Init => Inv
  BY DEF Init, Inv, Shape, Progress

\* What keeps the partitions and adds to the posts keeps Refusing.
LEMMA MorePosts ==
  ASSUME Inv, partitioned' = partitioned, posts \subseteq posts', NEW g \in isolates
  PROVE  Progress(g)'
  <1>1. ASSUME NEW i, NEW j, Refusing(g, i, j)
        PROVE  Refusing(g, i, j)'
    BY <1>1 DEF Refusing
  <1> QED
    BY <1>1 DEF Inv, Progress, Peers

\* The buttons, and what isolate posts.
LEMMA ClickInv ==
  ASSUME Inv, NEW i \in Node, NEW peer \in Node \cup {All}, ClickFault(i, peer)
  PROVE  Inv'
  <1>1. PICK q \in Posts : posts' = posts \cup {q}
    <2>1. clicks \in Nat
      BY DEF Inv, Shape
    <2>2. \A route \in {"partition", "heal"} : Post(i, route, peer, 0, clicks) \in Posts
      BY <2>1, PostTyped DEF Routes
    <2>3. ASSUME NEW l \in (0 .. 1) \cup {Bad}
          PROVE  Post(i, "latency", peer, l, clicks) \in Posts
      <3>1. l \in Nat /\ "latency" \in Routes
        BY DEF Routes, Bad, Certain
      <3> QED
        BY <2>1, <3>1, PostTyped
    <2>4. ASSUME NEW l \in (0 .. Certain) \cup {Bad}
          PROVE  Post(i, "drop", peer, l, clicks) \in Posts
      <3>1. l \in Nat /\ "drop" \in Routes
        BY DEF Routes, Bad, Certain
      <3> QED
        BY <2>1, <3>1, PostTyped
    <2>5. \A route \in {"clear", "crash"} : Post(i, route, All, 0, clicks) \in Posts
      BY <2>1, PostTyped DEF Routes
    <2> QED
      BY <2>2, <2>3, <2>4, <2>5 DEF ClickFault
  <1>2. Shape'
    BY <1>1 DEF Inv, Shape, ClickFault, Pressed, faults
  <1>3. \A g \in isolates : Progress(g)'
    BY <1>1, MorePosts DEF ClickFault, faults
  <1> QED
    BY <1>2, <1>3 DEF Inv, ClickFault

\* The clear button only adds posts; those of an isolate are still under way.
LEMMA ClickClearAllInv ==
  ASSUME Inv, ClickClearAll
  PROVE  Inv'
  <1>1. ASSUME NEW i \in Node
        PROVE  Post(i, "clear", All, 0, clicks) \in Posts
    <2>1. clicks \in Nat /\ 0 \in Nat /\ "clear" \in Routes
      BY DEF Inv, Shape, Routes
    <2> QED
      BY <2>1, PostTyped
  <1>2. Shape'
    BY <1>1 DEF Inv, Shape, ClickClearAll, Pressed, faults
  <1>3. \A g \in isolates : Progress(g)'
    BY MorePosts DEF ClickClearAll, faults
  <1> QED
    BY <1>2, <1>3 DEF Inv, ClickClearAll

\* An isolate begins with nothing to show for it.
LEMMA ClickIsolateInv ==
  ASSUME Inv, NEW t \in Node, ClickIsolate(t)
  PROVE  Inv'
  <1>1. PICK new : new = [click |-> clicks, target |-> t, others |-> Peers(t),
                          outbound |-> TRUE, intact |-> TRUE]
    OBVIOUS
  <1>2. new \in Isolates /\ isolates' = isolates \cup {new}
    BY <1>1 DEF Inv, Shape, Isolates, Peers, ClickIsolate
  <1>3. partitioned' = partitioned /\ posts' = posts /\ clicks' = clicks + 1
    BY DEF ClickIsolate, Pressed, faults
  <1>4. Shape'
    <2>1. isolates' \subseteq Isolates
      BY <1>2 DEF Inv, Shape
    <2>2. clicks' \in Nat
      BY <1>3 DEF Inv, Shape
    <2> QED
      BY <1>3, <2>1, <2>2 DEF Inv, Shape
  <1>5. \A g \in isolates : Progress(g)'
    BY <1>3, MorePosts
  <1>6. Progress(new)'
    <2>1. new.outbound /\ new.target = t /\ new.others = Peers(t)
      BY <1>1
    <2> QED
      BY <2>1 DEF Progress
  <1> QED
    BY <1>2, <1>4, <1>5, <1>6 DEF Inv

\* The first half: the target is told to refuse one peer more.
LEMMA IsolateOutboundInv ==
  ASSUME Inv, NEW g \in isolates, IsolateOutbound(g)
  PROVE  Inv'
  <1>1. PICK o \in g.others :
          /\ posts' = posts \cup {Post(g.target, "partition", o, 0, g.click)}
          /\ isolates' = (isolates \ {g}) \cup {[g EXCEPT !.others = @ \ {o}]}
    BY DEF IsolateOutbound
  <1> DEFINE q == Post(g.target, "partition", o, 0, g.click)
             h == [g EXCEPT !.others = @ \ {o}]
  <1>2. g \in Isolates /\ o \in Node
    BY DEF Inv, Shape, Isolates
  <1>3. q \in Posts /\ posts' = posts \cup {q}
    BY <1>1, <1>2, PostTyped DEF Isolates, Routes
  <1>4. h \in Isolates /\ h.target = g.target /\ h.click = g.click /\ h.intact = g.intact
        /\ h.outbound = g.outbound /\ h.others = g.others \ {o}
    BY <1>2 DEF Isolates
  <1>5. Shape'
    BY <1>1, <1>3, <1>4 DEF Inv, Shape, IsolateOutbound, faults
  <1>6. partitioned' = partitioned /\ posts \subseteq posts' /\ q \in posts'
    BY <1>3 DEF IsolateOutbound, faults
  <1>7. Progress(g)' /\ \A f \in isolates : Progress(f)'
    BY <1>6, MorePosts
  <1>8. Refusing(h, g.target, o)'
    BY <1>4, <1>6 DEF Refusing, Post
  <1>9. Progress(h)'
    <2>1. ASSUME NEW i, NEW j, Refusing(g, i, j)'
          PROVE  Refusing(h, i, j)'
      BY <2>1, <1>4 DEF Refusing
    <2>2. h.outbound
      BY <1>4 DEF IsolateOutbound
    <2> QED
      BY <1>4, <1>7, <1>8, <2>1, <2>2 DEF Progress, Peers
  <1> QED
    BY <1>1, <1>5, <1>7, <1>9 DEF Inv

\* The second half: every peer is told to refuse the target.
LEMMA IsolateInboundInv ==
  ASSUME Inv, NEW g \in isolates, IsolateInbound(g)
  PROVE  Inv'
  <1> DEFINE h == [g EXCEPT !.outbound = FALSE]
             q(o) == Post(o, "partition", g.target, 0, g.click)
  <1>1. g \in Isolates
    BY DEF Inv, Shape
  <1>2. inboundPosts(g) = {q(o) : o \in Peers(g.target)}
    BY DEF inboundPosts
  <1>3. inboundPosts(g) \subseteq Posts
    BY <1>1, <1>2, PostTyped DEF Isolates, Routes, Peers
  <1>4. h \in Isolates /\ h.target = g.target /\ h.click = g.click /\ h.intact = g.intact
        /\ h.outbound = FALSE /\ h.others = g.others
    BY <1>1 DEF Isolates
  <1>5. Shape'
    BY <1>3, <1>4 DEF Inv, Shape, IsolateInbound, faults
  <1>6. \A f \in isolates : Progress(f)'
    BY MorePosts DEF IsolateInbound, faults
  <1>7. \A o \in Peers(h.target) : Refusing(h, o, h.target)'
    <2> SUFFICES ASSUME NEW o \in Peers(g.target)
                 PROVE  Refusing(h, o, g.target)'
      BY <1>4 DEF Peers
    <2>1. q(o) \in posts'
      BY <1>2 DEF IsolateInbound
    <2> QED
      BY <1>4, <2>1 DEF Refusing, Post
  <1>8. Progress(h)'
    <2>1. ASSUME NEW i, NEW j, Refusing(g, i, j)'
          PROVE  Refusing(h, i, j)'
      BY <2>1, <1>4 DEF Refusing
    <2> QED
      BY <1>4, <1>6, <1>7, <2>1 DEF Progress, Peers, IsolateInbound
  <1> QED
    BY <1>5, <1>6, <1>8 DEF Inv, IsolateInbound

-----------------------------------------------------------------------------
\* A post that is gone tells nobody to refuse any more; the isolate it
\* belonged to is spoiled.
LEMMA PostLostInv ==
  ASSUME Inv, NEW q \in posts, PostLost(q)
  PROVE  Inv'
  <1> DEFINE spoil(g) == IF g.click = q.click THEN [g EXCEPT !.intact = FALSE] ELSE g
  <1>1. isolates' = {spoil(g) : g \in isolates}
    BY DEF PostLost
  <1>2. \A g \in isolates : spoil(g) \in Isolates
    BY DEF Inv, Shape, Isolates
  <1>3. Shape'
    BY <1>1, <1>2 DEF Inv, Shape, PostLost, faults
  <1>4. ASSUME NEW g \in isolates PROVE Progress(spoil(g))'
    <2>1. CASE g.click = q.click
      <3>1. ~spoil(g).intact
        BY <2>1 DEF Inv, Shape, Isolates
      <3> QED
        BY <3>1 DEF Progress
    <2>2. CASE g.click # q.click
      <3>1. ASSUME NEW i, NEW j, Refusing(g, i, j)
            PROVE  Refusing(g, i, j)'
        BY <2>2, <3>1 DEF Refusing, PostLost, faults
      <3> QED
        BY <2>2, <3>1 DEF Inv, Progress, Peers
    <2> QED
      BY <2>1, <2>2
  <1> QED
    BY <1>1, <1>3, <1>4 DEF Inv

\* A post handled: no isolate loses by it if its replica refuses the peer, or
\* the post is not one to partition.
LEMMA Handled ==
  ASSUME Inv, NEW q \in posts, posts' = posts \ {q},
         NEW g \in isolates, NEW i \in Node, NEW j \in Peers(i), Refusing(g, i, j),
         j \in partitioned[i] => j \in partitioned'[i],
         q.route = "partition" /\ q.node = i /\ q.peer = j => j \in partitioned'[i]
  PROVE  Refusing(g, i, j)'
  BY DEF Refusing

\* A partition that arrives is in force where its post was under way.
LEMMA PartitionInv ==
  ASSUME Inv, NEW q \in posts, Partition(q)
  PROVE  Inv'
  <1> DEFINE P == resolvePeer(q.node, q.peer)
  <1>1. q \in Posts /\ P \subseteq Node
    BY DEF Inv, Shape, resolvePeer, Peers
  <1>2. Shape'
    BY <1>1 DEF Inv, Shape, Partition, Done, Posts
  <1>3. posts' = posts \ {q} /\ isolates' = isolates
    BY DEF Partition, Done
  <1>4. ASSUME NEW g \in isolates, NEW i \in Node, NEW j \in Peers(i), Refusing(g, i, j)
        PROVE  Refusing(g, i, j)'
    <2>1. j \in partitioned[i] => j \in partitioned'[i]
      BY <1>1 DEF Partition, Inv, Shape, Posts
    <2>2. q.node = i /\ q.peer = j => j \in partitioned'[i]
      BY <1>1 DEF Partition, Inv, Shape, Posts, resolvePeer
    <2> QED
      BY <1>3, <1>4, <2>1, <2>2, Handled
  <1>5. \A g \in isolates : g.target \in Node
    BY DEF Inv, Shape, Isolates
  <1>6. \A g \in isolates : Progress(g)'
    BY <1>4, <1>5 DEF Inv, Progress, Peers
  <1> QED
    BY <1>2, <1>3, <1>6 DEF Inv

\* A post nobody understands is not one of an isolate that is intact.
LEMMA UnknownPeerInv ==
  ASSUME Inv, NEW q \in posts, UnknownPeer(q)
  PROVE  Inv'
  <1>1. q \in Posts
    BY DEF Inv, Shape
  <1>2. Shape'
    BY DEF Inv, Shape, UnknownPeer, faults
  <1>3. posts' = posts \ {q} /\ isolates' = isolates /\ partitioned' = partitioned
    BY DEF UnknownPeer, faults
  <1>4. ASSUME NEW g \in isolates, NEW i \in Node, NEW j \in Peers(i), Refusing(g, i, j)
        PROVE  Refusing(g, i, j)'
    <2>1. ~(q.node = i /\ q.peer = j)
      BY DEF UnknownPeer, resolvePeer
    <2> QED
      BY <1>3, <1>4, <2>1, Handled
  <1>5. \A g \in isolates : g.target \in Node
    BY DEF Inv, Shape, Isolates
  <1>6. \A g \in isolates : Progress(g)'
    BY <1>4, <1>5 DEF Inv, Progress, Peers
  <1> QED
    BY <1>2, <1>3, <1>6 DEF Inv

\* Latencies and drops do not concern it, good or bad.
LEMMA SettingInv ==
  ASSUME Inv, NEW q \in posts, SetLatency(q) \/ SetDrop(q) \/ BadLevel(q)
  PROVE  Inv'
  <1>1. /\ posts' = posts \ {q} /\ isolates' = isolates /\ partitioned' = partitioned
        /\ clicks' = clicks /\ q.route # "partition"
    BY DEF SetLatency, SetDrop, BadLevel, Done, faults
  <1>2. Shape'
    BY <1>1 DEF Inv, Shape
  <1>3. ASSUME NEW g \in isolates, NEW i \in Node, NEW j \in Peers(i), Refusing(g, i, j)
        PROVE  Refusing(g, i, j)'
    BY <1>1, <1>3, Handled
  <1>4. \A g \in isolates : g.target \in Node
    BY DEF Inv, Shape, Isolates
  <1>5. \A g \in isolates : Progress(g)'
    BY <1>1, <1>3, <1>4 DEF Inv, Progress, Peers
  <1> QED
    BY <1>1, <1>2, <1>5 DEF Inv

\* What no longer refuses the peers P spoils the isolates that need it.
LEMMA UndoneInv ==
  ASSUME Inv, NEW q \in posts, NEW P \in SUBSET Node, q.route # "partition",
         posts' = posts \ {q}, clicks' = clicks, Undone(q.node, P),
         partitioned' = [partitioned EXCEPT ![q.node] = @ \ P]
  PROVE  Inv'
  <1> DEFINE spoil(g) == IF g.target \in P \cup {q.node} THEN [g EXCEPT !.intact = FALSE] ELSE g
  <1>1. isolates' = {spoil(g) : g \in isolates}
    BY DEF Undone
  <1>2. \A g \in isolates : spoil(g) \in Isolates
    BY DEF Inv, Shape, Isolates
  <1>3. Shape'
    BY <1>1, <1>2 DEF Inv, Shape
  <1>4. ASSUME NEW g \in isolates PROVE Progress(spoil(g))'
    <2>1. CASE g.target \in P \cup {q.node}
      <3>1. ~spoil(g).intact
        BY <2>1 DEF Inv, Shape, Isolates
      <3> QED
        BY <3>1 DEF Progress
    <2>2. CASE g.target \notin P \cup {q.node}
      <3>1. g.target \in Node /\ q.node \in Node
        BY DEF Inv, Shape, Isolates, Posts
      <3>2. ASSUME NEW o \in Peers(g.target), Refusing(g, g.target, o)
            PROVE  Refusing(g, g.target, o)'
        BY <2>2, <3>1, <3>2, Handled DEF Inv, Shape, Peers
      <3>3. ASSUME NEW o \in Peers(g.target), Refusing(g, o, g.target)
            PROVE  Refusing(g, o, g.target)'
        BY <2>2, <3>1, <3>3, Handled DEF Inv, Shape, Peers
      <3> QED
        BY <2>2, <3>2, <3>3 DEF Inv, Progress, Peers
    <2> QED
      BY <2>1, <2>2
  <1> QED
    BY <1>1, <1>3, <1>4 DEF Inv

\* A heal undoes isolates, and marks them.
LEMMA HealInv ==
  ASSUME Inv, NEW q \in posts, Heal(q)
  PROVE  Inv'
  <1>1. resolvePeer(q.node, q.peer) \in SUBSET Node
    BY DEF resolvePeer, Peers
  <1> QED
    BY <1>1, UndoneInv DEF Heal, Done

\* clearAllFaults at a replica, by /admin/fault/clear or by a crash.
LEMMA ClearInv ==
  ASSUME Inv, NEW q \in posts, Clear(q) \/ Crash(q)
  PROVE  Inv'
  <1>1. isolates' = {[g EXCEPT !.intact = FALSE] : g \in isolates}
    <2>1. \A g \in isolates : g.target \in Peers(q.node) \cup {q.node}
      BY DEF Inv, Shape, Isolates, Peers
    <2>2. Undone(q.node, Peers(q.node))
      BY DEF Clear, Crash
    <2> QED
      BY <2>1, <2>2 DEF Undone
  <1>2. \A g \in isolates : LET h == [g EXCEPT !.intact = FALSE] IN h \in Isolates /\ ~h.intact
    BY DEF Inv, Shape, Isolates
  <1>3. posts' = posts \ {q} /\ clicks' = clicks
        /\ partitioned' = [partitioned EXCEPT ![q.node] = {}]
    BY DEF Clear, Crash, Done, clearAllFaults
  <1>4. Shape'
    BY <1>1, <1>2, <1>3 DEF Inv, Shape
  <1>5. \A h \in isolates' : ~h.intact
    BY <1>1, <1>2
  <1> QED
    BY <1>4, <1>5 DEF Inv, Progress

-----------------------------------------------------------------------------
\* Every step, of the transports and the event logs too, keeps the invariant.
LEMMA StepInv == Inv /\ [Next]_vars => Inv'
  <1> SUFFICES ASSUME Inv, [Next]_vars
               PROVE  Inv'
    OBVIOUS
  <1>1. ASSUME UNCHANGED <<partitioned, posts, isolates, clicks>>
        PROVE  Inv'
    BY <1>1, MorePosts DEF Inv, Shape
  <1>2. ASSUME NEW i \in Node, NEW j \in Peers(i), Call(i, j)
        PROVE  Inv'
    BY <1>1, <1>2 DEF Call, faults, dashboard
  <1>3. ASSUME NEW i \in Node, RaftEvent(i)
        PROVE  Inv'
    BY <1>1, <1>3 DEF RaftEvent, faults, dashboard
  <1>4. ASSUME NEW c \in calls, Wake(c) \/ Settled(c)
        PROVE  Inv'
    BY <1>1, <1>4 DEF Wake, Settled, faults, dashboard
  <1>5. CASE UNCHANGED vars
    BY <1>1, <1>5 DEF vars, faults, dashboard
  <1> QED
    BY <1>2, <1>3, <1>4, <1>5, ClickInv, ClickClearAllInv, ClickIsolateInv,
       IsolateOutboundInv, IsolateInboundInv, PostLostInv, UnknownPeerInv, PartitionInv,
       HealInv, SettingInv, ClearInv DEF Next

\* Nothing under way, nothing lost and nothing undone: everybody refuses.
LEMMA InvImplies == Inv => IsolationHolds
  BY DEF Inv, Progress, Refusing, IsolationHolds, Answered

\* For any number of replicas, whatever buttons are pressed while the posts of
\* an isolate are under way, and whichever posts are lost: an isolate that
\* has done its posts without a loss or an undoing has isolated its target
\* (handleFaultAction with the /admin/fault routes).
THEOREM IsolationTheorem == Spec => []IsolationHolds
  BY InitInv, StepInv, InvImplies, PTL DEF Spec

-----------------------------------------------------------------------------
(***************************************************************************)
(* EventLog.add.                                                           *)
(***************************************************************************)
\* The timeline r is b with e at the end and perhaps without its first event;
\* T is the set of its events.
Added(T, b, e, r) ==
  /\ r \in Seq(T)
  /\ Len(r) \in 1 .. capacity
  /\ r[Len(r)] = e
  /\ \E z \in {0, 1} : /\ Len(r) + z = Len(b) + 1
                       /\ \A k \in 1 .. Len(r) - 1 : r[k] = b[k + z]

\* add keeps the newest events, up to the capacity.
LEMMA AddKeepsNewest ==
  ASSUME NEW T, NEW b \in Seq(T), Len(b) \in 0 .. capacity, NEW e \in T
  PROVE  Added(T, b, e, add(b, e))
<1> DEFINE l == Append(b, e)
<1>1. add(b, e) = IF Len(l) > capacity THEN Tail(l) ELSE l
  BY DEF add
<1>2. /\ l \in Seq(T) /\ l # <<>> /\ Len(b) \in Nat /\ Len(l) = Len(b) + 1
      /\ \A k \in 1 .. Len(b) : l[k] = b[k]
      /\ l[Len(b) + 1] = e
  BY AppendProperties
<1>3. capacity \in Nat \ {0}
  BY ChaosAssumption
<1> HIDE DEF l
<1>4. CASE Len(l) > capacity
  <2>1. /\ Tail(l) \in Seq(T)
        /\ Len(Tail(l)) = Len(l) - 1
        /\ \A k \in 1 .. Len(l) - 1 : Tail(l)[k] = l[k + 1]
    BY <1>2, HeadTailProperties
  <2>2. Len(Tail(l)) = Len(b) /\ Len(b) \in 1 .. Len(b) /\ Len(b) \in 1 .. capacity
    BY <1>2, <1>3, <1>4, <2>1
  <2>3. Tail(l)[Len(b)] = e
    BY <1>2, <2>1, <2>2
  <2>4. \A k \in 1 .. Len(b) - 1 : Tail(l)[k] = b[k + 1]
    BY <1>2, <2>1
  <2>5. Len(Tail(l)) + 1 = Len(b) + 1
    BY <2>2
  <2> QED BY <1>1, <1>4, <2>1, <2>2, <2>3, <2>4, <2>5 DEF Added
<1>5. CASE ~(Len(l) > capacity)
  <2>1. Len(l) \in 1 .. capacity /\ Len(l) + 0 = Len(b) + 1
    BY <1>2, <1>3, <1>5
  <2>2. \A k \in 1 .. Len(l) - 1 : l[k] = b[k + 0]
    BY <1>2
  <2> QED BY <1>1, <1>2, <1>5, <2>1, <2>2 DEF Added
<1> QED BY <1>4, <1>5

\* An event that concerns the partition of peer j.
Concerns(e, j) == e.type \in {"partition", "heal", "clear"} /\ j \in e.peers

\* The newest event of b about j is a "partition" exactly if j is refused.
Explains(b, refused, j) ==
  \A n \in 1 .. Len(b) :
    (Concerns(b[n], j) /\ \A k \in 1 .. Len(b) : k > n => ~Concerns(b[k], j))
      => (j \in refused <=> b[n].type = "partition")

\* An event that says whether j is refused now, or that is not about j while
\* nothing changed, keeps the timeline true.
LEMMA AddExplains ==
  ASSUME NEW T, NEW b \in Seq(T), NEW e \in T, NEW r, Added(T, b, e, r), NEW j,
         NEW before, NEW after, Explains(b, before, j),
         Concerns(e, j) => (j \in after <=> e.type = "partition"),
         ~Concerns(e, j) => (j \in after <=> j \in before)
  PROVE  Explains(r, after, j)
<1>1. Len(r) \in Nat \ {0} /\ r[Len(r)] = e /\ Len(b) \in Nat
  BY ChaosAssumption DEF Added
<1>2. PICK z \in {0, 1} : /\ Len(r) + z = Len(b) + 1
                          /\ \A k \in 1 .. Len(r) - 1 : r[k] = b[k + z]
  BY DEF Added
<1> SUFFICES ASSUME NEW n \in 1 .. Len(r), Concerns(r[n], j),
                    \A k \in 1 .. Len(r) : k > n => ~Concerns(r[k], j)
             PROVE  j \in after <=> r[n].type = "partition"
  BY DEF Explains
<1>3. CASE n = Len(r)
  BY <1>1, <1>3
<1>4. CASE n # Len(r)
  <2>1. n \in 1 .. Len(r) - 1 /\ n + z \in 1 .. Len(b) /\ r[n] = b[n + z]
    BY <1>1, <1>2, <1>4
  <2>2. ~Concerns(e, j)
    BY <1>1, <1>4
  <2>3. ASSUME NEW k \in 1 .. Len(b), k > n + z PROVE ~Concerns(b[k], j)
    <3>1. k - z \in 1 .. Len(r) - 1 /\ k - z > n /\ (k - z) + z = k /\ k - z \in 1 .. Len(r)
      BY <1>1, <1>2, <2>1, <2>3
    <3>2. r[k - z] = b[k]
      BY <1>2, <3>1
    <3> QED BY <3>1, <3>2
  <2>4. j \in before <=> b[n + z].type = "partition"
    BY <2>1, <2>3 DEF Explains
  <2> QED BY <2>1, <2>2, <2>4
<1> QED BY <1>3, <1>4

-----------------------------------------------------------------------------
(***************************************************************************)
(* The inductive invariant of the faults and the timelines.                *)
(***************************************************************************)

\* The level a button posts is one the setting can have, or bad.
LevelsOK ==
  \A q \in posts : /\ q.route = "latency" => q.level \in (0 .. 1) \cup {Bad}
                   /\ q.route = "drop" => q.level \in (0 .. Certain) \cup {Bad}

FaultsOK ==
  /\ DOMAIN latency = Node /\ DOMAIN drop = Node
  /\ \A i \in Node : /\ partitioned[i] \subseteq Peers(i)
                     /\ latency[i] \in [Peers(i) \cup {All} -> 0 .. 1]
                     /\ drop[i] \in [Peers(i) \cup {All} -> 0 .. Certain]

IsTimeline(i, b) == b \in Seq(Events(i)) /\ Len(b) \in 1 .. capacity

TimelinesOK ==
  /\ DOMAIN buf = Node
  /\ \A i \in Node : IsTimeline(i, buf[i]) /\ \A j \in Peers(i) : Explains(buf[i], partitioned[i], j)

TimelineInv == Inv /\ LevelsOK /\ FaultsOK /\ TimelinesOK

\* The timeline of a replica just started has no event about a peer.
LEMMA BootTimeline ==
  ASSUME NEW i \in Node
  PROVE  IsTimeline(i, Booted) /\ \A refused, j : Explains(Booted, refused, j)
<1> DEFINE role == Event("raft", {})
           boot == Event("boot", {})
           b == add(<<>>, role)
<1>1. role \in Events(i) /\ boot \in Events(i) /\ \A j : ~Concerns(role, j) /\ ~Concerns(boot, j)
  BY DEF Event, Events, EventTypes, Concerns
<1>2. Booted = add(b, boot)
  BY DEF Booted
<1> HIDE DEF role, boot
<1>3. <<>> \in Seq(Events(i)) /\ Len(<<>>) = 0 /\ 0 \in 0 .. capacity
  BY ChaosAssumption
<1>4. Added(Events(i), <<>>, role, b)
  BY <1>1, <1>3, AddKeepsNewest
<1> HIDE DEF b
<1>5. b \in Seq(Events(i)) /\ Len(b) \in 1 .. capacity /\ Len(b) \in 0 .. capacity
  BY <1>4 DEF Added
<1>6. Added(Events(i), b, boot, Booted)
  BY <1>1, <1>2, <1>5, AddKeepsNewest
<1>7. \A refused, j : Explains(<<>>, refused, j)
  BY DEF Explains
<1>8. \A refused, j : Explains(b, refused, j)
  BY <1>1, <1>3, <1>4, <1>7, AddExplains
<1>9. \A refused, j : Explains(Booted, refused, j)
  BY <1>1, <1>5, <1>6, <1>8, AddExplains
<1> QED BY <1>6, <1>9 DEF Added, IsTimeline

\* The timeline begins as that of a replica just started, and no fault is set.
LEMMA TimelineInvInit == Init => TimelineInv
<1> SUFFICES ASSUME Init PROVE TimelineInv
  OBVIOUS
<1>1. Inv /\ LevelsOK
  BY InitInv DEF Init, LevelsOK
<1>2. FaultsOK
  <2>1. \A i \in Node : /\ NoFault(i) \in [Peers(i) \cup {All} -> 0 .. 1]
                        /\ NoFault(i) \in [Peers(i) \cup {All} -> 0 .. Certain]
    BY DEF NoFault, Certain
  <2> QED BY <2>1 DEF Init, FaultsOK
<1>3. TimelinesOK
  <2>1. DOMAIN buf = Node /\ \A i \in Node : buf[i] = Booted
    BY DEF Init
  <2> QED BY <2>1, BootTimeline DEF TimelinesOK
<1> QED BY <1>1, <1>2, <1>3 DEF TimelineInv

\* What keeps the partitions and the timelines keeps TimelinesOK.
LEMMA SameTimelines ==
  ASSUME TimelinesOK, partitioned' = partitioned, buf' = buf
  PROVE  TimelinesOK'
BY DEF TimelinesOK

\* A replica notes an event that says what happened to its partitions.
LEMMA NotedTimelines ==
  ASSUME TimelinesOK, NEW i \in Node, NEW e \in Events(i),
         buf' = [buf EXCEPT ![i] = add(@, e)],
         \A k \in Node \ {i} : partitioned'[k] = partitioned[k],
         \A j \in Peers(i) :
           /\ Concerns(e, j) => (j \in partitioned'[i] <=> e.type = "partition")
           /\ ~Concerns(e, j) => (j \in partitioned'[i] <=> j \in partitioned[i])
  PROVE  TimelinesOK'
<1>1. DOMAIN buf' = Node /\ \A k \in Node \ {i} : buf'[k] = buf[k]
  BY DEF TimelinesOK
<1>2. buf'[i] = add(buf[i], e)
  BY DEF TimelinesOK
<1>3. IsTimeline(i, buf[i])
  BY DEF TimelinesOK
<1>4. Added(Events(i), buf[i], e, buf'[i])
  <2>1. Len(buf[i]) \in 0 .. capacity
    BY <1>3, ChaosAssumption DEF IsTimeline
  <2> QED BY <1>2, <1>3, <2>1, AddKeepsNewest DEF IsTimeline
<1>5. IsTimeline(i, buf'[i])
  BY <1>4 DEF Added, IsTimeline
<1>6. ASSUME NEW j \in Peers(i) PROVE Explains(buf'[i], partitioned'[i], j)
  <2>1. Explains(buf[i], partitioned[i], j)
    BY DEF TimelinesOK
  <2>2. buf[i] \in Seq(Events(i))
    BY <1>3 DEF IsTimeline
  <2> QED BY <1>4, <2>1, <2>2, AddExplains
<1>7. ASSUME NEW k \in Node
      PROVE  IsTimeline(k, buf'[k]) /\ \A j \in Peers(k) : Explains(buf'[k], partitioned'[k], j)
  <2>1. CASE k = i
    BY <1>5, <1>6, <2>1
  <2>2. CASE k # i
    <3>1. buf'[k] = buf[k] /\ partitioned'[k] = partitioned[k]
      BY <1>1, <2>2
    <3> QED BY <3>1 DEF TimelinesOK
  <2> QED BY <2>1, <2>2
<1> QED BY <1>1, <1>7 DEF TimelinesOK, Peers

-----------------------------------------------------------------------------
(***************************************************************************)
(* The steps.                                                              *)
(***************************************************************************)

\* Of the buttons, only latency and drop post a level.
LEMMA LevelsStep ==
  ASSUME LevelsOK,
         \A q \in posts' \ posts :
           /\ q.route = "latency" => q.level \in (0 .. 1) \cup {Bad}
           /\ q.route = "drop" => q.level \in (0 .. Certain) \cup {Bad}
  PROVE  LevelsOK'
BY DEF LevelsOK

\* The event of a route; a crash has none.
LEMMA RouteEvent ==
  ASSUME NEW q \in Posts, q.route # "crash", NEW i, NEW P, P \subseteq Peers(i)
  PROVE  /\ Event(q.route, P) \in Events(i)
         /\ \A j : Concerns(Event(q.route, P), j)
                    <=> q.route \in {"partition", "heal", "clear"} /\ j \in P
         /\ Event(q.route, P).type = q.route
BY DEF Event, Events, EventTypes, Posts, Routes, Concerns

\* What no route does leaves the faults and the timelines alone.
LEMMA OtherSteps ==
  ASSUME TimelineInv, UNCHANGED <<faults, buf>>, LevelsOK', Inv'
  PROVE  TimelineInv'
<1>1. partitioned' = partitioned /\ latency' = latency /\ drop' = drop /\ buf' = buf
  BY DEF faults
<1>2. TimelinesOK'
  BY <1>1, SameTimelines DEF TimelineInv
<1>3. FaultsOK'
  BY <1>1 DEF TimelineInv, FaultsOK
<1> QED BY <1>2, <1>3 DEF TimelineInv

\* The levels that are posted are those the buttons and fields have.
LEMMA ClickFaultLevels ==
  ASSUME LevelsOK, NEW i, NEW peer, ClickFault(i, peer)
  PROVE  LevelsOK'
<1>1. PICK q \in {Post(i, route, peer, 0, clicks) : route \in {"partition", "heal"}}
                 \cup {Post(i, "latency", peer, l, clicks) : l \in (0 .. 1) \cup {Bad}}
                 \cup {Post(i, "drop", peer, l, clicks) : l \in (0 .. Certain) \cup {Bad}}
                 \cup {Post(i, route, All, 0, clicks) : route \in {"clear", "crash"}} :
              posts' = posts \cup {q}
  BY DEF ClickFault
<1>2. /\ q.route = "latency" => q.level \in (0 .. 1) \cup {Bad}
      /\ q.route = "drop" => q.level \in (0 .. Certain) \cup {Bad}
  BY <1>1 DEF Post
<1> QED BY <1>1, <1>2, LevelsStep

\* A route that sets the faults of one replica.
LEMMA FaultsStep ==
  ASSUME Shape, FaultsOK, NEW i \in Node, NEW P, P \subseteq Peers(i),
         NEW l \in [Peers(i) \cup {All} -> 0 .. 1],
         NEW d \in [Peers(i) \cup {All} -> 0 .. Certain],
         partitioned' = [partitioned EXCEPT ![i] = P],
         latency' = [latency EXCEPT ![i] = l],
         drop' = [drop EXCEPT ![i] = d]
  PROVE  FaultsOK'
BY DEF Shape, FaultsOK, Peers

\* A partition or a heal, and its event.
LEMMA PartitionTimeline ==
  ASSUME TimelineInv, Inv', NEW q \in posts, Partition(q) \/ Heal(q)
  PROVE  TimelineInv'
<1> DEFINE P == resolvePeer(q.node, q.peer)
           i == q.node
           e == Event(q.route, P)
<1>1. q \in Posts /\ i \in Node /\ P \subseteq Peers(i) /\ P \subseteq Node
  BY DEF TimelineInv, Inv, Shape, Posts, resolvePeer, Peers
<1>2. /\ latency' = latency /\ drop' = drop
      /\ buf' = [buf EXCEPT ![i] = add(@, e)]
      /\ posts' = posts \ {q}
      /\ \/ q.route = "partition" /\ partitioned' = [partitioned EXCEPT ![i] = @ \cup P]
         \/ q.route = "heal" /\ partitioned' = [partitioned EXCEPT ![i] = @ \ P]
  BY DEF Partition, Heal, Done
<1>3. /\ e \in Events(i) /\ e.type = q.route
      /\ \A j : Concerns(e, j) <=> q.route \in {"partition", "heal", "clear"} /\ j \in P
  BY <1>1, <1>2, RouteEvent
<1> HIDE DEF e, P, i
<1>4. DOMAIN partitioned = Node /\ DOMAIN latency = Node /\ DOMAIN drop = Node
  BY DEF TimelineInv, Inv, Shape, FaultsOK
<1>5. TimelinesOK'
  <2>1. \A k \in Node \ {i} : partitioned'[k] = partitioned[k]
    BY <1>1, <1>2, <1>4
  <2>2. \A j \in Peers(i) :
           /\ Concerns(e, j) => (j \in partitioned'[i] <=> e.type = "partition")
           /\ ~Concerns(e, j) => (j \in partitioned'[i] <=> j \in partitioned[i])
    BY <1>1, <1>2, <1>3, <1>4
  <2> QED BY <1>1, <1>2, <1>3, <2>1, <2>2, NotedTimelines DEF TimelineInv
<1>6. FaultsOK'
  <2>1. FaultsOK
    BY DEF TimelineInv
  <2>2. partitioned[i] \subseteq Peers(i)
    BY <1>1, <2>1 DEF FaultsOK
  <2>3. partitioned'[i] \subseteq Peers(i) /\ \A k \in Node \ {i} : partitioned'[k] = partitioned[k]
    BY <1>1, <1>2, <1>4, <2>2
  <2> QED BY <1>2, <2>1, <2>3 DEF FaultsOK
<1>7. LevelsOK'
  BY <1>2 DEF TimelineInv, LevelsOK
<1> QED BY <1>5, <1>6, <1>7 DEF TimelineInv

\* A latency or a drop rate, and its event.
LEMMA SettingTimeline ==
  ASSUME TimelineInv, Inv', NEW q \in posts, SetLatency(q) \/ SetDrop(q)
  PROVE  TimelineInv'
<1> DEFINE P == resolvePeer(q.node, q.peer)
           i == q.node
           e == Event(q.route, P)
<1>1. q \in Posts /\ i \in Node /\ P \subseteq Peers(i) /\ P \subseteq Node
  BY DEF TimelineInv, Inv, Shape, Posts, resolvePeer, Peers
<1>2. /\ partitioned' = partitioned
      /\ buf' = [buf EXCEPT ![i] = add(@, e)]
      /\ posts' = posts \ {q}
      /\ P # {} /\ q.level # Bad
      /\ \/ /\ q.route = "latency" /\ drop' = drop
            /\ latency' = [latency EXCEPT ![i][q.peer] = q.level]
         \/ /\ q.route = "drop" /\ latency' = latency
            /\ drop' = [drop EXCEPT ![i][q.peer] = q.level]
  BY DEF SetLatency, SetDrop, Done
<1>3. /\ e \in Events(i) /\ e.type = q.route
      /\ \A j : Concerns(e, j) <=> q.route \in {"partition", "heal", "clear"} /\ j \in P
  BY <1>1, <1>2, RouteEvent
<1>4. q.peer \in Peers(i) \cup {All}
  BY <1>2 DEF resolvePeer
<1> HIDE DEF e, P, i
<1>5. DOMAIN partitioned = Node /\ DOMAIN latency = Node /\ DOMAIN drop = Node
  BY DEF TimelineInv, Inv, Shape, FaultsOK
<1>6. TimelinesOK'
  <2>1. \A j : ~Concerns(e, j)
    BY <1>2, <1>3
  <2> QED BY <1>1, <1>2, <1>3, <2>1, NotedTimelines DEF TimelineInv
<1>7. FaultsOK'
  <2>1. FaultsOK /\ LevelsOK
    BY DEF TimelineInv
  <2>2. CASE q.route = "latency"
    <3>1. q.level \in 0 .. 1
      BY <1>2, <2>1, <2>2 DEF LevelsOK
    <3>2. drop' = drop /\ latency' = [latency EXCEPT ![i][q.peer] = q.level]
      BY <1>2, <2>2
    <3>3. latency[i] \in [Peers(i) \cup {All} -> 0 .. 1]
      BY <1>1, <2>1 DEF FaultsOK
    <3>4. latency'[i] = [latency[i] EXCEPT ![q.peer] = q.level]
      BY <1>1, <1>5, <3>2
    <3>5. latency'[i] \in [Peers(i) \cup {All} -> 0 .. 1]
      BY <1>4, <3>1, <3>3, <3>4
    <3>6. DOMAIN latency' = Node /\ \A k \in Node \ {i} : latency'[k] = latency[k]
      BY <1>1, <1>5, <3>2
    <3> QED BY <1>2, <2>1, <3>2, <3>5, <3>6 DEF FaultsOK
  <2>3. CASE q.route = "drop"
    <3>1. q.level \in 0 .. Certain
      BY <1>2, <2>1, <2>3 DEF LevelsOK
    <3>2. latency' = latency /\ drop' = [drop EXCEPT ![i][q.peer] = q.level]
      BY <1>2, <2>3
    <3>3. drop[i] \in [Peers(i) \cup {All} -> 0 .. Certain]
      BY <1>1, <2>1 DEF FaultsOK
    <3>4. drop'[i] = [drop[i] EXCEPT ![q.peer] = q.level]
      BY <1>1, <1>5, <3>2
    <3>5. drop'[i] \in [Peers(i) \cup {All} -> 0 .. Certain]
      BY <1>4, <3>1, <3>3, <3>4
    <3>6. DOMAIN drop' = Node /\ \A k \in Node \ {i} : drop'[k] = drop[k]
      BY <1>1, <1>5, <3>2
    <3> QED BY <1>2, <2>1, <3>2, <3>5, <3>6 DEF FaultsOK
  <2> QED BY <1>2, <2>2, <2>3
<1>8. LevelsOK'
  BY <1>2 DEF TimelineInv, LevelsOK
<1> QED BY <1>6, <1>7, <1>8 DEF TimelineInv

\* All faults cleared, by the route or by a crash, and the event.
LEMMA ClearTimeline ==
  ASSUME TimelineInv, Inv', NEW q \in posts, Clear(q) \/ Crash(q)
  PROVE  TimelineInv'
<1> DEFINE i == q.node
           e == Event(q.route, Peers(i))
<1>1. q \in Posts /\ i \in Node /\ Peers(i) \subseteq Node
  BY DEF TimelineInv, Inv, Shape, Posts, Peers
<1>2. /\ partitioned' = [partitioned EXCEPT ![i] = {}]
      /\ latency' = [latency EXCEPT ![i] = NoFault(i)]
      /\ drop' = [drop EXCEPT ![i] = NoFault(i)]
      /\ posts' = posts \ {q}
      /\ \/ q.route = "clear" /\ buf' = [buf EXCEPT ![i] = add(@, e)]
         \/ q.route = "crash" /\ buf' = [buf EXCEPT ![i] = Booted]
  BY DEF Clear, Crash, Done, clearAllFaults
<1>3. ASSUME q.route = "clear"
      PROVE  e \in Events(i) /\ e.type = "clear" /\ \A j : Concerns(e, j) <=> j \in Peers(i)
  BY <1>1, <1>3, RouteEvent
<1> HIDE DEF e, i
<1>4. DOMAIN partitioned = Node
  BY DEF TimelineInv, Inv, Shape
<1>5. partitioned'[i] = {} /\ \A k \in Node \ {i} : partitioned'[k] = partitioned[k]
  BY <1>1, <1>2, <1>4
<1>6. TimelinesOK'
  <2>1. CASE q.route = "clear"
    <3>1. e \in Events(i) /\ \A j \in Peers(i) : Concerns(e, j) /\ e.type # "partition"
      BY <1>3, <2>1
    <3>2. buf' = [buf EXCEPT ![i] = add(@, e)]
      BY <1>2, <2>1
    <3> QED BY <1>1, <1>5, <3>1, <3>2, NotedTimelines DEF TimelineInv
  <2>2. CASE q.route = "crash"
    <3>1. TimelinesOK
      BY DEF TimelineInv
    <3>2. /\ DOMAIN buf' = Node /\ buf'[i] = Booted
          /\ \A k \in Node \ {i} : buf'[k] = buf[k]
      BY <1>1, <1>2, <2>2, <3>1 DEF TimelinesOK
    <3>3. ASSUME NEW k \in Node
          PROVE  IsTimeline(k, buf'[k]) /\ \A j \in Peers(k) : Explains(buf'[k], partitioned'[k], j)
      <4>1. CASE k = i
        BY <1>1, <3>2, <4>1, BootTimeline
      <4>2. CASE k # i
        <5>1. buf'[k] = buf[k] /\ partitioned'[k] = partitioned[k]
          BY <1>5, <3>2, <4>2
        <5> QED BY <3>1, <5>1 DEF TimelinesOK
      <4> QED BY <4>1, <4>2
    <3> QED BY <3>2, <3>3 DEF TimelinesOK, Peers
  <2> QED BY <1>2, <2>1, <2>2
<1>7. FaultsOK'
  <2>1. /\ NoFault(i) \in [Peers(i) \cup {All} -> 0 .. 1]
        /\ NoFault(i) \in [Peers(i) \cup {All} -> 0 .. Certain]
    BY DEF NoFault, Certain
  <2>2. {} \subseteq Peers(i)
    OBVIOUS
  <2> QED BY <1>1, <1>2, <2>1, <2>2, FaultsStep DEF TimelineInv, Inv
<1>8. LevelsOK'
  BY <1>2 DEF TimelineInv, LevelsOK
<1> QED BY <1>6, <1>7, <1>8 DEF TimelineInv

\* Every step keeps the timeline's invariant.
LEMMA TimelineInvNext == TimelineInv /\ [Next]_vars => TimelineInv'
<1> SUFFICES ASSUME TimelineInv, [Next]_vars PROVE TimelineInv'
  OBVIOUS
<1>1. Inv'
  BY StepInv DEF TimelineInv
<1>2. ASSUME UNCHANGED <<faults, buf, posts>> PROVE TimelineInv'
  BY <1>1, <1>2, OtherSteps DEF TimelineInv, LevelsOK
<1>3. ASSUME NEW i \in Node, NEW j \in Peers(i), Call(i, j) PROVE TimelineInv'
  BY <1>2, <1>3 DEF Call, dashboard
<1>4. ASSUME NEW i \in Node, NEW peer \in Node \cup {All}, ClickFault(i, peer)
      PROVE  TimelineInv'
  <2>1. LevelsOK'
    BY <1>4, ClickFaultLevels DEF TimelineInv
  <2> QED BY <1>1, <1>4, <2>1, OtherSteps DEF ClickFault
<1>5. ASSUME NEW i \in Node, ClickIsolate(i) PROVE TimelineInv'
  BY <1>2, <1>5 DEF ClickIsolate
<1>6. ASSUME NEW i \in Node, RaftEvent(i) PROVE TimelineInv'
  <2> DEFINE e == Event("raft", {})
  <2>1. /\ buf' = [buf EXCEPT ![i] = add(@, e)] /\ posts' = posts
        /\ partitioned' = partitioned /\ latency' = latency /\ drop' = drop
    BY <1>6 DEF RaftEvent, faults, dashboard
  <2>2. e \in Events(i) /\ \A j : ~Concerns(e, j)
    BY DEF Event, Events, EventTypes, Concerns
  <2> HIDE DEF e
  <2>3. TimelinesOK'
    BY <2>1, <2>2, NotedTimelines DEF TimelineInv
  <2>4. FaultsOK' /\ LevelsOK'
    BY <2>1 DEF TimelineInv, FaultsOK, LevelsOK
  <2> QED BY <1>1, <2>3, <2>4 DEF TimelineInv
<1>7. ASSUME NEW c \in calls, Wake(c) \/ Settled(c) PROVE TimelineInv'
  BY <1>2, <1>7 DEF Wake, Settled, dashboard
<1>8. CASE ClickClearAll
  <2>1. ASSUME NEW q \in posts' \ posts PROVE q.route \in {"clear", "partition"}
    BY <1>8 DEF ClickClearAll, Post
  <2>2. LevelsOK'
    BY <2>1, LevelsStep DEF TimelineInv
  <2> QED BY <1>1, <1>8, <2>2, OtherSteps DEF ClickClearAll
<1>9. ASSUME NEW g \in isolates, IsolateOutbound(g) \/ IsolateInbound(g) PROVE TimelineInv'
  <2>1. ASSUME NEW q \in posts' \ posts PROVE q.route \in {"clear", "partition"}
    BY <1>9 DEF IsolateOutbound, IsolateInbound, inboundPosts, Post
  <2>2. LevelsOK'
    BY <2>1, LevelsStep DEF TimelineInv
  <2> QED BY <1>1, <1>9, <2>2, OtherSteps DEF IsolateOutbound, IsolateInbound
<1>10. ASSUME NEW q \in posts, PostLost(q) \/ BadLevel(q) \/ UnknownPeer(q) PROVE TimelineInv'
  <2>1. posts' \subseteq posts /\ UNCHANGED <<faults, buf>>
    BY <1>10 DEF PostLost, BadLevel, UnknownPeer
  <2>2. LevelsOK'
    BY <2>1 DEF TimelineInv, LevelsOK
  <2> QED BY <1>1, <2>1, <2>2, OtherSteps
<1>11. CASE UNCHANGED vars
  BY <1>2, <1>11 DEF vars, dashboard
<1> QED BY <1>1, <1>3, <1>4, <1>5, <1>6, <1>7, <1>8, <1>9, <1>10, <1>11, PartitionTimeline,
           SettingTimeline, ClearTimeline DEF Next

\* So it holds of every behaviour.
LEMMA TimelineInvariant == Spec => []TimelineInv
BY TimelineInvInit, TimelineInvNext, PTL DEF Spec

\* The newest event of a timeline about the partition of a peer says whether
\* the replica refuses the peer now, however many events were evicted and
\* whatever was posted, lost or restarted.
THEOREM TimelineTheorem == Spec => []TimelineExplains
<1>1. TimelineInv => TimelineExplains
  <2> SUFFICES ASSUME TimelineInv, NEW i \in Node, NEW j \in Peers(i)
               PROVE  LET about == {n \in 1 .. Len(buf[i]) :
                            /\ buf[i][n].type \in {"partition", "heal", "clear"}
                            /\ j \in buf[i][n].peers}
                      IN  about # {} =>
                            (j \in partitioned[i]) = (buf[i][Max(about)].type = "partition")
    BY DEF TimelineExplains
  <2> DEFINE about == {n \in 1 .. Len(buf[i]) :
                         /\ buf[i][n].type \in {"partition", "heal", "clear"}
                         /\ j \in buf[i][n].peers}
  <2>1. Explains(buf[i], partitioned[i], j) /\ Len(buf[i]) \in Nat
    BY ChaosAssumption DEF TimelineInv, TimelinesOK, IsTimeline
  <2>2. about = {n \in 1 .. Len(buf[i]) : Concerns(buf[i][n], j)}
    BY DEF Concerns
  <2>3. ASSUME about # {} PROVE j \in partitioned[i] <=> buf[i][Max(about)].type = "partition"
    <3>1. about \subseteq 0 .. Len(buf[i])
      BY <2>1
    <3> HIDE DEF about
    <3>2. \E x \in about : \A y \in about : x >= y
      BY <2>1, <2>3, <3>1, GreatestNatural
    <3>3. Max(about) \in about /\ \A y \in about : Max(about) >= y
      BY <3>2 DEF Max
    <3> DEFINE m == Max(about)
    <3>4. m \in 1 .. Len(buf[i]) /\ Concerns(buf[i][m], j)
      BY <2>2, <3>3
    <3> HIDE DEF m
    <3>5. \A k \in 1 .. Len(buf[i]) : k > m => ~Concerns(buf[i][k], j)
      <4>1. \A y \in about : m >= y
        BY <3>3 DEF m
      <4>2. ASSUME NEW k \in 1 .. Len(buf[i]), Concerns(buf[i][k], j) PROVE ~(k > m)
        BY <2>1, <2>2, <3>4, <4>1, <4>2
      <4> QED BY <4>2
    <3> QED BY <2>1, <3>4, <3>5 DEF Explains, m
  <2> QED BY <2>3
<1> QED BY <1>1, TimelineInvariant, PTL

-----------------------------------------------------------------------------
(***************************************************************************)
(* The counters of /metrics.                                               *)
(***************************************************************************)

\* The calls of replica i to peer j under way.
Under(i, j) == {c \in calls : c.caller = i /\ c.peer = j}

\* Finitely many calls, of a replica to a peer of it, each with an id of its own.
CallsOK ==
  /\ made \in Nat
  /\ IsFiniteSet(calls)
  /\ \A c \in calls : /\ {"id", "caller", "peer"} \subseteq DOMAIN c
                      /\ c.id \in Nat /\ c.id < made
                      /\ c.caller \in Node /\ c.peer \in Peers(c.caller)
  /\ \A c, d \in calls : c.id = d.id => c = d

StatsOK ==
  /\ DOMAIN stats = Node
  /\ \A i \in Node : stats[i] \in [Peers(i) -> [Counter -> Nat]]

\* The counters s add up with n calls under way.
Adds(s, n) == s.sent = s.ok + s.failed + s.dropped + s.partitioned + n

Balanced == \A i \in Node : \A j \in Peers(i) : Adds(stats[i][j], Cardinality(Under(i, j)))

CountersInv == CallsOK /\ StatsOK /\ Balanced

\* What a step of i about its calls to j leaves alone: the other pairs.
OthersAlone(i, j) ==
  \A a \in Node : \A b \in Peers(a) : (a # i \/ b # j) => Under(a, b)' = Under(a, b)

\* Only the calls under way are finitely many.
LEMMA UnderFinite ==
  ASSUME CallsOK, NEW i, NEW j
  PROVE  IsFiniteSet(Under(i, j)) /\ Cardinality(Under(i, j)) \in Nat
<1>1. Under(i, j) \in SUBSET calls
  BY DEF Under
<1>2. IsFiniteSet(Under(i, j))
  BY <1>1, FS_Subset DEF CallsOK
<1> QED BY <1>2, FS_CardinalityType

\* Counted counts K for one pair.
LEMMA CountedCounts ==
  ASSUME StatsOK, NEW i \in Node, NEW j \in Peers(i), NEW K, stats' = Counted(i, j, K)
  PROVE  /\ StatsOK'
         /\ stats[i][j] \in [Counter -> Nat]
         /\ stats'[i][j] = [k \in Counter |-> IF k \in K THEN stats[i][j][k] + 1
                                                         ELSE stats[i][j][k]]
         /\ \A a \in Node : \A b \in Peers(a) :
              (a # i \/ b # j) => stats'[a][b] = stats[a][b]
<1> DEFINE t == [k \in Counter |-> IF k \in K THEN stats[i][j][k] + 1 ELSE stats[i][j][k]]
<1>1. stats[i] \in [Peers(i) -> [Counter -> Nat]] /\ stats[i][j] \in [Counter -> Nat]
  BY DEF StatsOK
<1>2. t \in [Counter -> Nat]
  BY <1>1
<1>3. stats' = [stats EXCEPT ![i] = [stats[i] EXCEPT ![j] = t]]
  BY DEF Counted
<1> HIDE DEF t
<1>4. stats'[i] = [stats[i] EXCEPT ![j] = t] /\ \A a \in Node : a # i => stats'[a] = stats[a]
  BY <1>3 DEF StatsOK
<1>5. stats'[i] \in [Peers(i) -> [Counter -> Nat]] /\ stats'[i][j] = t
  BY <1>1, <1>2, <1>4
<1>6. StatsOK'
  <2>1. DOMAIN stats' = Node
    BY <1>3 DEF StatsOK
  <2> QED BY <1>4, <1>5, <2>1 DEF StatsOK, Peers
<1>7. \A a \in Node : \A b \in Peers(a) : (a # i \/ b # j) => stats'[a][b] = stats[a][b]
  BY <1>1, <1>4
<1> QED BY <1>1, <1>5, <1>6, <1>7 DEF t

\* A call that starts and ends at once, one that starts, and one that ends.
LEMMA CountedBalances ==
  ASSUME StatsOK, CallsOK, Balanced, CallsOK', NEW i \in Node, NEW j \in Peers(i), NEW K,
         stats' = Counted(i, j, K), OthersAlone(i, j),
         LET before == Cardinality(Under(i, j))
             after  == Cardinality(Under(i, j)') IN
           \/ K \in {{"sent", "partitioned"}, {"sent", "dropped"}} /\ after = before
           \/ K = {"sent"} /\ after = before + 1
           \/ K \in {{"ok"}, {"failed"}} /\ after = before - 1
  PROVE  CountersInv'
<1> DEFINE s == stats[i][j]
           t == stats'[i][j]
           before == Cardinality(Under(i, j))
           after  == Cardinality(Under(i, j)')
<1>1. /\ s \in [Counter -> Nat]
      /\ \A k \in Counter : t[k] = IF k \in K THEN s[k] + 1 ELSE s[k]
      /\ \A a \in Node : \A b \in Peers(a) : (a # i \/ b # j) => stats'[a][b] = stats[a][b]
  <2>1. /\ stats[i][j] \in [Counter -> Nat]
        /\ stats'[i][j] = [k \in Counter |-> IF k \in K THEN stats[i][j][k] + 1
                                                        ELSE stats[i][j][k]]
        /\ \A a \in Node : \A b \in Peers(a) :
             (a # i \/ b # j) => stats'[a][b] = stats[a][b]
    BY CountedCounts
  <2> QED BY <2>1
<1>2. before \in Nat /\ Adds(s, before)
  BY UnderFinite DEF Balanced
<1>3. StatsOK'
  BY CountedCounts
<1>4. \/ K \in {{"sent", "partitioned"}, {"sent", "dropped"}} /\ after = before
      \/ K = {"sent"} /\ after = before + 1
      \/ K \in {{"ok"}, {"failed"}} /\ after = before - 1
  OBVIOUS
<1> HIDE DEF s, t, before, after
<1>5. /\ s.sent \in Nat /\ s.ok \in Nat /\ s.failed \in Nat /\ s.dropped \in Nat
      /\ s.partitioned \in Nat
  BY <1>1 DEF Counter
<1>6. /\ t.sent = IF "sent" \in K THEN s.sent + 1 ELSE s.sent
      /\ t.ok = IF "ok" \in K THEN s.ok + 1 ELSE s.ok
      /\ t.failed = IF "failed" \in K THEN s.failed + 1 ELSE s.failed
      /\ t.dropped = IF "dropped" \in K THEN s.dropped + 1 ELSE s.dropped
      /\ t.partitioned = IF "partitioned" \in K THEN s.partitioned + 1 ELSE s.partitioned
  BY <1>1 DEF Counter
<1>7. Adds(t, after)
  BY <1>2, <1>4, <1>5, <1>6 DEF Adds
<1>8. Balanced'
  <2> SUFFICES ASSUME NEW a \in Node, NEW b \in Peers(a)
               PROVE  Adds(stats'[a][b], Cardinality(Under(a, b)'))
    BY DEF Balanced, Peers, Adds
  <2>1. CASE a = i /\ b = j
    BY <1>7, <2>1 DEF t, after
  <2>2. CASE a # i \/ b # j
    BY <1>1, <2>2 DEF Balanced, OthersAlone
  <2> QED BY <2>1, <2>2
<1> QED BY <1>3, <1>8 DEF CountersInv

\* A step that keeps the counters and the calls.
LEMMA SameCounters ==
  ASSUME CountersInv, stats' = stats, calls' = calls, made' \in Nat, made <= made'
  PROVE  CountersInv'
<1>1. CallsOK'
  BY DEF CountersInv, CallsOK, Peers
<1>2. StatsOK' /\ Balanced'
  BY DEF CountersInv, StatsOK, Balanced, Under, Adds, Peers
<1> QED BY <1>1, <1>2 DEF CountersInv

\* The counters begin at zero with no call under way.
LEMMA CountersInvInit == Init => CountersInv
<1> SUFFICES ASSUME Init PROVE CountersInv
  OBVIOUS
<1>1. CallsOK
  BY FS_EmptySet DEF Init, CallsOK
<1>2. \A i \in Node : NoStats(i) \in [Peers(i) -> [Counter -> Nat]]
  BY DEF NoStats
<1>3. StatsOK
  BY <1>2 DEF Init, StatsOK
<1>4. ASSUME NEW i \in Node, NEW j \in Peers(i) PROVE Adds(stats[i][j], Cardinality(Under(i, j)))
  <2>1. Under(i, j) = {}
    BY DEF Init, Under
  <2>2. Cardinality(Under(i, j)) = 0
    BY <2>1, FS_EmptySet
  <2>3. stats[i][j] = [k \in Counter |-> 0]
    BY DEF Init, NoStats
  <2> QED BY <2>2, <2>3 DEF Adds, Counter
<1> QED BY <1>1, <1>3, <1>4 DEF CountersInv, Balanced

\* A refused or dropped call is counted twice and not under way; one sent is
\* under way, with an id no other has.
LEMMA CallCounters ==
  ASSUME CountersInv, NEW i \in Node, NEW j \in Peers(i), Call(i, j)
  PROVE  CountersInv'
<1>1. CallsOK /\ StatsOK /\ Balanced /\ made \in Nat /\ made' = made + 1
  BY DEF CountersInv, CallsOK, Call
<1>2. CASE Refused(i, j) \/ Dropped(i, j)
  <2>1. PICK K \in {{"sent", "partitioned"}, {"sent", "dropped"}} : stats' = Counted(i, j, K)
    BY <1>2 DEF Refused, Dropped
  <2>2. calls' = calls
    BY <1>2 DEF Refused, Dropped
  <2>3. CallsOK'
    BY <1>1, <2>2 DEF CallsOK, Peers
  <2>4. OthersAlone(i, j) /\ Cardinality(Under(i, j)') = Cardinality(Under(i, j))
    BY <2>2 DEF OthersAlone, Under
  <2> QED BY <1>1, <2>1, <2>3, <2>4, CountedBalances
<1>3. CASE Sent(i, j)
  <2> DEFINE c == [id |-> made, caller |-> i, peer |-> j,
                   asleep |-> effective(latency[i], j) > 0]
  <2>1. calls' = calls \cup {c} /\ stats' = Counted(i, j, {"sent"})
    BY <1>3 DEF Sent
  <2>2. {"id", "caller", "peer"} \subseteq DOMAIN c /\ c.id = made /\ c.caller = i /\ c.peer = j
    OBVIOUS
  <2> HIDE DEF c
  <2>3. IsFiniteSet(calls')
    BY <1>1, <2>1, FS_AddElement DEF CallsOK
  <2>4. CallsOK'
    BY <1>1, <2>1, <2>2, <2>3 DEF CallsOK, Peers
  <2>5. OthersAlone(i, j)
    BY <2>1, <2>2 DEF OthersAlone, Under
  <2>6. Under(i, j)' = Under(i, j) \cup {c} /\ c \notin Under(i, j)
    BY <1>1, <2>1, <2>2 DEF Under, CallsOK
  <2>7. Cardinality(Under(i, j)') = Cardinality(Under(i, j)) + 1
    BY <1>1, <2>6, UnderFinite, FS_AddElement
  <2> QED BY <1>1, <2>1, <2>4, <2>5, <2>7, CountedBalances
<1> QED BY <1>2, <1>3 DEF Call

\* A call that wakes up stays under way.
LEMMA WakeCounters ==
  ASSUME CountersInv, NEW c \in calls, Wake(c)
  PROVE  CountersInv'
<1> DEFINE w == [c EXCEPT !.asleep = FALSE]
<1>1. CallsOK /\ StatsOK /\ Balanced
  BY DEF CountersInv
<1>2. calls' = (calls \ {c}) \cup {w} /\ stats' = stats /\ made' = made
  BY DEF Wake
<1>3. {"id", "caller", "peer"} \subseteq DOMAIN c
  BY <1>1 DEF CallsOK
<1>4. /\ {"id", "caller", "peer"} \subseteq DOMAIN w
      /\ w.id = c.id /\ w.caller = c.caller /\ w.peer = c.peer
  BY <1>3
<1> HIDE DEF w
<1>5. w \notin calls \ {c}
  BY <1>1, <1>4 DEF CallsOK
<1>6. IsFiniteSet(calls')
  BY <1>1, <1>2, FS_AddElement, FS_RemoveElement DEF CallsOK
<1>7. CallsOK'
  BY <1>1, <1>2, <1>4, <1>6 DEF CallsOK, Peers
<1>8. ASSUME NEW i \in Node, NEW j \in Peers(i)
      PROVE  Cardinality(Under(i, j)') = Cardinality(Under(i, j))
  <2>1. CASE c.caller = i /\ c.peer = j
    <3> DEFINE U == Under(i, j)
    <3>1. Under(i, j)' = (U \ {c}) \cup {w} /\ c \in U /\ w \notin U \ {c}
      BY <1>2, <1>4, <1>5, <2>1 DEF Under
    <3>2. IsFiniteSet(U) /\ Cardinality(U) \in Nat
      BY <1>1, UnderFinite
    <3> HIDE DEF U
    <3>3. IsFiniteSet(U \ {c}) /\ Cardinality(U \ {c}) = Cardinality(U) - 1
      BY <3>1, <3>2, FS_RemoveElement
    <3>4. Cardinality((U \ {c}) \cup {w}) = Cardinality(U \ {c}) + 1
      BY <3>1, <3>3, FS_AddElement
    <3> QED BY <3>1, <3>2, <3>3, <3>4 DEF U
  <2>2. CASE ~(c.caller = i /\ c.peer = j)
    <3>1. Under(i, j)' = Under(i, j)
      BY <1>2, <1>4, <2>2 DEF Under
    <3> QED BY <3>1
  <2> QED BY <2>1, <2>2
<1>9. StatsOK'
  BY <1>1, <1>2 DEF StatsOK, Peers
<1>10. ASSUME NEW i \in Node, NEW j \in Peers(i)
       PROVE  Adds(stats'[i][j], Cardinality(Under(i, j)'))
  BY <1>1, <1>2, <1>8 DEF Balanced
<1>11. Balanced'
  BY <1>10 DEF Balanced, Adds, Peers
<1> QED BY <1>7, <1>9, <1>11 DEF CountersInv

\* A call that has its answer is counted once more.
LEMMA SettledCounters ==
  ASSUME CountersInv, NEW c \in calls, Settled(c)
  PROVE  CountersInv'
<1> DEFINE i == c.caller
           j == c.peer
<1>1. CallsOK /\ StatsOK /\ Balanced /\ i \in Node /\ j \in Peers(i)
  BY DEF CountersInv, CallsOK
<1>2. PICK k \in {"ok", "failed"} : stats' = Counted(i, j, {k})
  BY DEF Settled
<1>3. calls' = calls \ {c} /\ made' = made
  BY DEF Settled
<1>4. IsFiniteSet(calls')
  BY <1>1, <1>3, FS_RemoveElement DEF CallsOK
<1>5. CallsOK'
  BY <1>1, <1>3, <1>4 DEF CallsOK, Peers
<1>6. OthersAlone(i, j)
  BY <1>3 DEF OthersAlone, Under
<1>7. Under(i, j)' = Under(i, j) \ {c} /\ c \in Under(i, j)
  BY <1>3 DEF Under
<1> HIDE DEF i, j
<1>8. Cardinality(Under(i, j)') = Cardinality(Under(i, j)) - 1
  BY <1>1, <1>7, UnderFinite, FS_RemoveElement
<1> QED BY <1>1, <1>2, <1>5, <1>6, <1>8, CountedBalances

\* A replica that starts has counted nothing and has no call under way.
LEMMA CrashCounters ==
  ASSUME Inv, CountersInv, NEW q \in posts, Crash(q)
  PROVE  CountersInv'
<1> DEFINE i == q.node
<1>1. CallsOK /\ StatsOK /\ Balanced
  BY DEF CountersInv
<1>2. i \in Node
  BY DEF Inv, Shape, Posts
<1>3. /\ stats' = [stats EXCEPT ![i] = NoStats(i)]
      /\ calls' = {c \in calls : c.caller # i}
      /\ made' = made
  BY DEF Crash
<1> HIDE DEF i
<1>4. calls' \in SUBSET calls
  BY <1>3
<1>5. IsFiniteSet(calls')
  BY <1>1, <1>4, FS_Subset DEF CallsOK
<1>6. CallsOK'
  BY <1>1, <1>3, <1>4, <1>5 DEF CallsOK, Peers
<1>7. /\ stats'[i] = NoStats(i)
      /\ \A a \in Node : a # i => stats'[a] = stats[a]
      /\ DOMAIN stats' = Node
  BY <1>1, <1>2, <1>3 DEF StatsOK
<1>8. NoStats(i) \in [Peers(i) -> [Counter -> Nat]]
  BY DEF NoStats
<1>9. StatsOK'
  BY <1>1, <1>7, <1>8 DEF StatsOK, Peers
<1>10. ASSUME NEW a \in Node, NEW b \in Peers(a)
       PROVE  Adds(stats'[a][b], Cardinality(Under(a, b)'))
  <2>1. CASE a = i
    <3>1. Under(a, b)' = {}
      BY <1>3, <2>1 DEF Under
    <3>2. Cardinality(Under(a, b)') = 0
      BY <3>1, FS_EmptySet
    <3>3. stats'[a][b] = [k \in Counter |-> 0]
      BY <1>7, <2>1 DEF NoStats
    <3> QED BY <3>2, <3>3 DEF Adds, Counter
  <2>2. CASE a # i
    <3>1. Under(a, b)' = Under(a, b)
      BY <1>3, <2>2 DEF Under
    <3> QED BY <1>1, <1>7, <2>2, <3>1 DEF Balanced
  <2> QED BY <2>1, <2>2
<1> QED BY <1>6, <1>9, <1>10 DEF CountersInv, Balanced, Adds, Peers

\* Every step keeps the invariant of the counters.
LEMMA CountersInvNext == Inv /\ CountersInv /\ [Next]_vars => CountersInv'
<1> SUFFICES ASSUME Inv, CountersInv, [Next]_vars PROVE CountersInv'
  OBVIOUS
<1>1. ASSUME stats' = stats, calls' = calls, made' \in {made, made + 1} PROVE CountersInv'
  <2>1. made \in Nat
    BY DEF CountersInv, CallsOK
  <2> QED BY <1>1, <2>1, SameCounters
<1>2. ASSUME NEW i \in Node, NEW peer, \/ ClickFault(i, peer) \/ ClickIsolate(i) \/ RaftEvent(i)
      PROVE  CountersInv'
  BY <1>1, <1>2 DEF ClickFault, ClickIsolate, RaftEvent
<1>3. CASE ClickClearAll
  BY <1>1, <1>3 DEF ClickClearAll
<1>4. ASSUME NEW g \in isolates, IsolateOutbound(g) \/ IsolateInbound(g) PROVE CountersInv'
  BY <1>1, <1>4 DEF IsolateOutbound, IsolateInbound
<1>5. ASSUME NEW q \in posts,
             \/ PostLost(q) \/ BadLevel(q) \/ UnknownPeer(q) \/ Partition(q) \/ Heal(q)
             \/ SetLatency(q) \/ SetDrop(q) \/ Clear(q)
      PROVE  CountersInv'
  BY <1>1, <1>5 DEF PostLost, BadLevel, UnknownPeer, Partition, Heal, SetLatency, SetDrop, Clear
<1>6. CASE UNCHANGED vars
  BY <1>1, <1>6 DEF vars
<1>7. ASSUME NEW i \in Node PROVE ClickIsolate(i) \/ RaftEvent(i) => CountersInv'
  BY <1>2
<1> QED BY <1>2, <1>3, <1>4, <1>5, <1>6, <1>7, CallCounters, WakeCounters, SettledCounters,
           CrashCounters DEF Next

\* So it holds of every behaviour.
LEMMA CountersInvariant == Spec => []CountersInv
BY CountersInvInit, CountersInvNext, TimelineInvariant, PTL DEF Spec, TimelineInv

\* Every call a transport counted as sent was refused, dropped, answered or
\* failed, once, or is under way, whatever was set or cleared while it slept
\* and across restarts.
THEOREM CountersTheorem == Spec => []CountersBalance
<1>1. CountersInv => CountersBalance
  BY DEF CountersInv, Balanced, Adds, Under, CountersBalance
<1> QED BY <1>1, CountersInvariant, PTL

\* A replica refuses, delays and drops calls to peers only, at levels in range
\* although the dashboard posts bad ones; its counters are naturals, one set
\* for each peer; and its timeline has at least one event and no more than
\* the capacity of the EventLog, each of a kind and about peers it may name.
THEOREM ChaosTypeTheorem == Spec => []TypeOK
<1>1. TimelineInv /\ CountersInv => TypeOK
  BY DEF TimelineInv, FaultsOK, TimelinesOK, IsTimeline, CountersInv, StatsOK, TypeOK
<1> QED BY <1>1, TimelineInvariant, CountersInvariant, PTL
=============================================================================
