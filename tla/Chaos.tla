------------------------------- MODULE Chaos -------------------------------
(***************************************************************************)
(* Fault injection: the Transport every call to a peer goes through        *)
(* (replicas/raft/Transport.js), the /admin routes that set its faults     *)
(* (replicas/replicaServer.js), the EventLog they leave a trace in         *)
(* (replicas/raft/EventLog.js) and the buttons of the dashboard that post  *)
(* to the routes (gateway/dashboard/dashboard.js).                         *)
(*                                                                         *)
(* A latency is 0 or 1, a drop probability 0, 1 for one between, or        *)
(* Certain: only whether it is 0 and whether it is certain matters.  What  *)
(* the routes do not take for one, such as a negative latency, is Bad.     *)
(*                                                                         *)
(* A definition named Faulty_ or OffByOne_ is the one after it with a      *)
(* plausible mistake, against which the properties are tried.              *)
(***************************************************************************)
EXTENDS Naturals, Sequences, FiniteSetsExt

CONSTANTS
  Node,        \* the replicas
  All,         \* the peer parameter "all"
  capacity,    \* of the EventLog
  MaxSteps,    \* bound: calls through the transports and events of RaftNode
  MaxClicks    \* bound: buttons pressed

ASSUME ChaosAssumption ==
  /\ All \notin Node
  /\ capacity \in Nat \ {0}
  /\ {MaxSteps, MaxClicks} \subseteq Nat

VARIABLES
  partitioned,  \* replica: _partitionedPeers
  latency,      \* replica: _peerLatencyMs, with _globalLatencyMs at All
  drop,         \* replica: _peerDropProb, with _globalDropProb at All
  stats,        \* replica, peer: _peerStats
  buf,          \* replica: _buf of its EventLog, oldest first
  calls,        \* the calls that went out: asleep, or posted
  made,         \* how many calls were made and events noted
  posts,        \* requests of the dashboard to the /admin routes under way
  isolates,     \* the runs of handleFaultAction("isolate")
  clicks        \* how many buttons were pressed

faults    == <<partitioned, latency, drop>>
dashboard == <<posts, isolates, clicks>>
vars      == <<faults, stats, buf, calls, made, dashboard>>

Certain  == 2
Bad      == Certain + 1
Peers(i) == Node \ {i}
Counter  == {"sent", "ok", "failed", "dropped", "partitioned"}
NoFault(i) == [p \in Peers(i) \cup {All} |-> 0]
NoStats(i) == [j \in Peers(i) |-> [k \in Counter |-> 0]]
Event(type, peers) == [type |-> type, peers |-> peers]

\* What i's EventLog can hold: a crash leaves no event.
EventTypes == {"partition", "heal", "latency", "drop", "clear", "boot", "raft"}
Events(i) == [type : EventTypes, peers : SUBSET Peers(i)]

\* EventLog.add: at capacity the oldest goes.
OffByOne_add(b, e) ==
  LET l == Append(b, e) IN IF Len(l) > capacity + 1 THEN Tail(l) ELSE l
Faulty_add(b, e) ==
  LET l == Append(b, e) IN IF Len(l) > capacity THEN SubSeq(l, 1, capacity) ELSE l
add(b, e) ==
  LET l == Append(b, e) IN IF Len(l) > capacity THEN Tail(l) ELSE l

\* The EventLog of a process just started: node.start emits its role first.
Booted == add(add(<<>>, Event("raft", {})), Event("boot", {}))

Init ==
  /\ partitioned = [i \in Node |-> {}]
  /\ latency = [i \in Node |-> NoFault(i)] /\ drop = [i \in Node |-> NoFault(i)]
  /\ stats = [i \in Node |-> NoStats(i)]
  /\ buf = [i \in Node |-> Booted]
  /\ calls = {} /\ made = 0
  /\ posts = {} /\ isolates = {} /\ clicks = 0

-----------------------------------------------------------------------------
(***************************************************************************)
(* Transport.call; broadcast makes one for each peer.                      *)
(***************************************************************************)

\* _effectiveLatency, _effectiveDrop: what is set for the peer or for all.
effective(setting, j) == Max({setting[j], setting[All]})

\* stats with the counters K of i's calls to j one higher.
Counted(i, j, K) ==
  [stats EXCEPT ![i][j] = [k \in Counter |-> IF k \in K THEN @[k] + 1 ELSE @[k]]]

Faulty_Refused(i, j) ==
  /\ j \in partitioned[i]
  /\ stats' = Counted(i, j, {"partitioned"})
  /\ UNCHANGED calls
Refused(i, j) ==
  /\ j \in partitioned[i]
  /\ stats' = Counted(i, j, {"sent", "partitioned"})
  /\ UNCHANGED calls

Dropped(i, j) ==
  /\ j \notin partitioned[i]
  /\ effective(drop[i], j) > 0
  /\ stats' = Counted(i, j, {"sent", "dropped"})
  /\ UNCHANGED calls

\* The call goes on: after its latency, or at once.
Sent(i, j) ==
  /\ j \notin partitioned[i]
  /\ effective(drop[i], j) < Certain
  /\ stats' = Counted(i, j, {"sent"})
  /\ calls' = calls \cup {[id |-> made, caller |-> i, peer |-> j,
                           asleep |-> effective(latency[i], j) > 0]}

Call(i, j) ==
  /\ made < MaxSteps
  /\ made' = made + 1
  /\ Refused(i, j) \/ Dropped(i, j) \/ Sent(i, j)
  /\ UNCHANGED <<faults, buf, dashboard>>

\* The latency is over.  The faults may have changed: they are not asked again.
Wake(c) ==
  /\ c.asleep
  /\ calls' = (calls \ {c}) \cup {[c EXCEPT !.asleep = FALSE]}
  /\ UNCHANGED <<faults, stats, buf, made, dashboard>>

\* The post has its response, or failed.
Settled(c) ==
  /\ ~c.asleep
  /\ \E k \in {"ok", "failed"} : stats' = Counted(c.caller, c.peer, {k})
  /\ calls' = calls \ {c}
  /\ UNCHANGED <<faults, buf, made, dashboard>>

-----------------------------------------------------------------------------
(***************************************************************************)
(* The buttons.                                                            *)
(***************************************************************************)
Post(i, route, peer, level, click) ==
  [node |-> i, route |-> route, peer |-> peer, level |-> level, click |-> click]

Pressed == clicks < MaxClicks /\ clicks' = clicks + 1

\* A button that posts once to the target.  Nothing keeps the user from
\* choosing the target as its own peer.
ClickFault(i, peer) ==
  /\ Pressed
  /\ \E q \in {Post(i, route, peer, 0, clicks) : route \in {"partition", "heal"}}
          \cup {Post(i, "latency", peer, l, clicks) : l \in (0 .. 1) \cup {Bad}}
          \cup {Post(i, "drop", peer, l, clicks) : l \in (0 .. Certain) \cup {Bad}}
          \cup {Post(i, route, All, 0, clicks) : route \in {"clear", "crash"}} :
       posts' = posts \cup {q}
  /\ UNCHANGED <<faults, stats, buf, calls, made, isolates>>

ClickClearAll ==
  /\ Pressed
  /\ posts' = posts \cup {Post(i, "clear", All, 0, clicks) : i \in Node}
  /\ UNCHANGED <<faults, stats, buf, calls, made, isolates>>

\* intact: every post arrived, and nothing has undone one since.
ClickIsolate(t) ==
  /\ Pressed
  /\ isolates' = isolates \cup
       {[click |-> clicks, target |-> t, others |-> Peers(t), outbound |-> TRUE, intact |-> TRUE]}
  /\ UNCHANGED <<faults, stats, buf, calls, made, posts>>

Answered(g) == \A q \in posts : q.click # g.click

\* The target is told of the others one after the other.
IsolateOutbound(g) ==
  /\ g.outbound
  /\ Answered(g)
  /\ \E o \in g.others :
       /\ posts' = posts \cup {Post(g.target, "partition", o, 0, g.click)}
       /\ isolates' = (isolates \ {g}) \cup {[g EXCEPT !.others = @ \ {o}]}
  /\ UNCHANGED <<faults, stats, buf, calls, made, clicks>>

\* What the others are then told, all at once.
Faulty_inboundPosts(g) ==
  {Post(o, "partition", o, 0, g.click) : o \in Peers(g.target)}
inboundPosts(g) ==
  {Post(o, "partition", g.target, 0, g.click) : o \in Peers(g.target)}

IsolateInbound(g) ==
  /\ g.outbound /\ g.others = {}
  /\ Answered(g)
  /\ posts' = posts \cup inboundPosts(g)
  /\ isolates' = (isolates \ {g}) \cup {[g EXCEPT !.outbound = FALSE]}
  /\ UNCHANGED <<faults, stats, buf, calls, made, clicks>>

\* A post fails; .catch lets the handler go on as if it had not.
PostLost(q) ==
  /\ posts' = posts \ {q}
  /\ isolates' = {IF g.click = q.click THEN [g EXCEPT !.intact = FALSE] ELSE g : g \in isolates}
  /\ UNCHANGED <<faults, stats, buf, calls, made, clicks>>

-----------------------------------------------------------------------------
(***************************************************************************)
(* The /admin routes.                                                      *)
(***************************************************************************)

\* resolvePeer, applyToPeers: nobody if the parameter names no peer.
resolvePeer(i, peer) == IF peer = All THEN Peers(i) ELSE {peer} \cap Peers(i)

\* Replica i no longer refuses the peers P: an isolation that needs one of
\* them refused is over.
Undone(i, P) ==
  isolates' = {IF g.target \in P \cup {i}
               THEN [g EXCEPT !.intact = FALSE] ELSE g : g \in isolates}

\* A route has done its work: the event, and the response.
Done(q, peers) ==
  /\ buf' = [buf EXCEPT ![q.node] = add(@, Event(q.route, peers))]
  /\ posts' = posts \ {q}

\* 400, and no event: a bad level, whatever the peer.
BadLevel(q) ==
  /\ q.route \in {"latency", "drop"} /\ q.level = Bad
  /\ posts' = posts \ {q}
  /\ UNCHANGED <<faults, stats, buf, calls, made, isolates, clicks>>

\* The same for a peer the replica does not have.
UnknownPeer(q) ==
  /\ q.route \notin {"clear", "crash"} /\ q.level # Bad
  /\ resolvePeer(q.node, q.peer) = {}
  /\ posts' = posts \ {q}
  /\ UNCHANGED <<faults, stats, buf, calls, made, isolates, clicks>>

Partition(q) ==
  LET P == resolvePeer(q.node, q.peer) IN
  /\ q.route = "partition" /\ P # {}
  /\ partitioned' = [partitioned EXCEPT ![q.node] = @ \cup P]
  /\ Done(q, P)
  /\ UNCHANGED <<latency, drop, stats, calls, made, isolates, clicks>>

Heal(q) ==
  LET P == resolvePeer(q.node, q.peer) IN
  /\ q.route = "heal" /\ P # {}
  /\ partitioned' = [partitioned EXCEPT ![q.node] = @ \ P]
  /\ Undone(q.node, P)
  /\ Done(q, P)
  /\ UNCHANGED <<latency, drop, stats, calls, made, clicks>>

SetLatency(q) ==
  LET P == resolvePeer(q.node, q.peer) IN
  /\ q.route = "latency" /\ q.level # Bad /\ P # {}
  /\ latency' = [latency EXCEPT ![q.node][q.peer] = q.level]
  /\ Done(q, P)
  /\ UNCHANGED <<partitioned, drop, stats, calls, made, isolates, clicks>>

SetDrop(q) ==
  LET P == resolvePeer(q.node, q.peer) IN
  /\ q.route = "drop" /\ q.level # Bad /\ P # {}
  /\ drop' = [drop EXCEPT ![q.node][q.peer] = q.level]
  /\ Done(q, P)
  /\ UNCHANGED <<partitioned, latency, stats, calls, made, isolates, clicks>>

clearAllFaults(i) ==
  /\ partitioned' = [partitioned EXCEPT ![i] = {}]
  /\ latency' = [latency EXCEPT ![i] = NoFault(i)]
  /\ drop' = [drop EXCEPT ![i] = NoFault(i)]

Clear(q) ==
  /\ q.route = "clear"
  /\ clearAllFaults(q.node)
  /\ Undone(q.node, Peers(q.node))
  /\ Done(q, Peers(q.node))
  /\ UNCHANGED <<stats, calls, made, clicks>>

\* The process exits and is started again: nothing of this is persistent.
Crash(q) ==
  LET i == q.node IN
  /\ q.route = "crash"
  /\ clearAllFaults(i)
  /\ Undone(i, Peers(i))
  /\ stats' = [stats EXCEPT ![i] = NoStats(i)]
  /\ buf' = [buf EXCEPT ![i] = Booted]
  /\ calls' = {c \in calls : c.caller # i}
  /\ posts' = posts \ {q}
  /\ UNCHANGED <<made, clicks>>

\* RaftNode changes its role or has taken a snapshot.
RaftEvent(i) ==
  /\ made < MaxSteps
  /\ made' = made + 1
  /\ buf' = [buf EXCEPT ![i] = add(@, Event("raft", {}))]
  /\ UNCHANGED <<faults, stats, calls, dashboard>>

-----------------------------------------------------------------------------
Next ==
  \/ \E i \in Node : \/ \E j \in Peers(i) : Call(i, j)
                     \/ \E peer \in Node \cup {All} : ClickFault(i, peer)
                     \/ ClickIsolate(i)
                     \/ RaftEvent(i)
  \/ \E c \in calls : Wake(c) \/ Settled(c)
  \/ ClickClearAll
  \/ \E g \in isolates : IsolateOutbound(g) \/ IsolateInbound(g)
  \/ \E q \in posts : \/ PostLost(q) \/ BadLevel(q) \/ UnknownPeer(q)
                      \/ Partition(q) \/ Heal(q) \/ SetLatency(q) \/ SetDrop(q)
                      \/ Clear(q) \/ Crash(q)

Spec == Init /\ [][Next]_vars

-----------------------------------------------------------------------------
\* The fields have their types, and a timeline has at least one event, no more
\* than its capacity, and none that concerns a stranger.
TypeOK ==
  \A i \in Node :
    /\ partitioned[i] \subseteq Peers(i)
    /\ latency[i] \in [Peers(i) \cup {All} -> 0 .. 1]
    /\ drop[i] \in [Peers(i) \cup {All} -> 0 .. Certain]
    /\ stats[i] \in [Peers(i) -> [Counter -> Nat]]
    /\ buf[i] \in Seq(Events(i)) /\ Len(buf[i]) \in 1 .. capacity

\* Every call a transport counts as sent has exactly one outcome, or is under
\* way: for every peer the counters of /metrics add up, whatever faults are
\* set and cleared while calls sleep.
CountersBalance ==
  \A i \in Node : \A j \in Peers(i) :
    LET s == stats[i][j] IN
    s.sent = s.ok + s.failed + s.dropped + s.partitioned
               + Cardinality({c \in calls : c.caller = i /\ c.peer = j})

\* Once the isolate button has done all its posts and none was lost or undone,
\* the target and the others refuse each other, whatever else was pressed
\* while it was waiting.
IsolationHolds ==
  \A g \in isolates :
    (~g.outbound /\ g.intact /\ Answered(g)) =>
      \A o \in Peers(g.target) : o \in partitioned[g.target] /\ g.target \in partitioned[o]

\* The timeline tells the truth about partitions: its newest event that
\* concerns the partition of a peer is a "partition" if and only if the
\* replica refuses the peer now.
TimelineExplains ==
  \A i \in Node : \A j \in Peers(i) :
    LET about == {n \in 1 .. Len(buf[i]) :
                    buf[i][n].type \in {"partition", "heal", "clear"} /\ j \in buf[i][n].peers}
    IN  about # {} => (j \in partitioned[i]) = (buf[i][Max(about)].type = "partition")
=============================================================================
