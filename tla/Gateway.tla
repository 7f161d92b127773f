------------------------------ MODULE Gateway ------------------------------
(***************************************************************************)
(* The way of a stroke: the browser tabs (frontend/canvas.js), the gateway *)
(* that forwards their strokes to the leader and the committed ones back   *)
(* (gateway/gateway.js), and the /stroke endpoint of the replicas with     *)
(* RaftNode.submit behind it (replicas/replicaServer.js).                  *)
(*                                                                         *)
(* The gateway starts a forward for every message and does not wait for    *)
(* the one before: several are under way at a time, each at one of its     *)
(* awaits.  The phase of a forward says which:                             *)
(*   discovering   discoverLeader polls the replicas                       *)
(*   posted        POST /stroke has not been handled                       *)
(*   waiting       the leader appended the stroke, _awaitCommit is pending *)
(*   acked, rejected   the response is on its way back                     *)
(*                                                                         *)
(* Of the replicas there is what RaftNode provides: the committed entries, *)
(* how far each state machine has applied them, which replicas take        *)
(* themselves for the leader, and the log each had as such.  Server is     *)
(* the set of the replicas that may lead; the others only vote and keep    *)
(* copies of these logs.                                                   *)
(*                                                                         *)
(* A definition named Faulty_ or OffByOne_ is the one after it with a      *)
(* plausible mistake, against which the properties are tried.              *)
(***************************************************************************)
EXTENDS StateMachine, FiniteSetsExt, SequencesExt

CONSTANTS
  Server,
  Client,        \* the tabs, each with its CLIENT_ID
  MaxSeq,        \* bound: strokes per tab
  MaxForwards,   \* bound: forwards under way at a time
  MaxLog,        \* bound: entries in the log
  MaxTerm,       \* bound: elections
  MaxDrops,      \* bound: connections lost, gateways killed, pages loaded again or cleared
  MaxRestarts    \* bound: replicas killed and started again

\* null is no replica and no client, and a NOOP is no stroke.
ASSUME GatewayAssumption ==
  /\ Nil \notin Server \cup Client
  /\ Noop \notin [client : Client, seq : 1 .. MaxSeq]
  /\ {MaxSeq, MaxTerm} \subseteq Nat

VARIABLES
  seqCounter,       \* tab: seqCounter
  pendingStrokes,   \* tab: the seqs in pendingStrokes
  connected,        \* tab: ws.readyState is OPEN
  wire,             \* messages from the tab to the gateway, in order
  currentLeader,    \* gateway: currentLeaderUrl and currentLeaderId
  forwards,         \* gateway: the calls of forwardStrokeToLeader under way
  registrations,    \* POST /leader under way, by the replica that sends it
  broadcasts,       \* POST /broadcast under way
  late,             \* POST /stroke the gateway gave up on, still to arrive
  leaders,          \* the replicas whose role is leader, outdated ones too
  ledIn,            \* replica: the term it last won, 0 if none
  logs,             \* replica: its log as leader, [n + 1] with index n
  committed,        \* the entries committed in the cluster
  lastApplied,      \* replica: stateMachine.lastApplied
  shown,            \* tab: the strokes on its canvas
  replayed,         \* tab: replayHistory has run since the page was loaded
  drops, restarts   \* how many

page     == <<shown, replayed>>
tabs     == <<seqCounter, pendingStrokes, connected, wire, drops, page>>
replicas == <<leaders, ledIn, logs, committed, lastApplied, restarts>>
vars     == <<tabs, currentLeader, forwards, registrations, broadcasts, late, replicas>>

Stroke == [client : Client, seq : 1 .. MaxSeq]
Led    == {i \in Server : ledIn[i] > 0}

\* The state machine that applied the first entries of a log.
Machine(log) ==
  LET machine[n \in 0 .. Len(log)] ==
        IF n = 0 THEN EmptyMachine ELSE apply(machine[n - 1], n - 1, log[n].op)
  IN  machine[Len(log)]

MachineOf(i) == Machine(SubSeq(committed, 1, lastApplied[i] + 1))

\* The tabs were opened before anything was drawn, and found no history.
Init ==
  /\ seqCounter = [c \in Client |-> 0]
  /\ pendingStrokes = [c \in Client |-> <<>>]
  /\ connected = [c \in Client |-> FALSE]
  /\ wire = [c \in Client |-> <<>>]
  /\ currentLeader = Nil
  /\ forwards = {} /\ registrations = {} /\ broadcasts = {} /\ late = {}
  /\ leaders = {} /\ committed = <<>>
  /\ ledIn = [i \in Server |-> 0]
  /\ logs = [i \in Server |-> <<>>]
  /\ lastApplied = [i \in Server |-> -1]
  /\ shown = [c \in Client |-> {}]
  /\ replayed = [c \in Client |-> TRUE]
  /\ drops = 0 /\ restarts = 0

-----------------------------------------------------------------------------
(***************************************************************************)
(* The tabs.                                                               *)
(***************************************************************************)

\* onPointerDown, onPointerMove: the stroke is drawn at once, and sendStroke.
SendStroke(c) ==
  LET seq == seqCounter[c] + 1 IN
  /\ seq <= MaxSeq
  /\ seqCounter' = [seqCounter EXCEPT ![c] = seq]
  /\ pendingStrokes' = [pendingStrokes EXCEPT ![c] = Append(@, seq)]
  /\ shown' = [shown EXCEPT ![c] = @ \cup {[client |-> c, seq |-> seq]}]
  /\ wire' = IF connected[c] THEN [wire EXCEPT ![c] = Append(@, seq)] ELSE wire
  /\ UNCHANGED <<connected, drops, replayed, currentLeader, forwards,
                 registrations, broadcasts, late, replicas>>

\* onopen: flushPendingStrokes sends the whole queue, and what is sent again
\* stays in it.
Faulty_Connect(c) ==
  /\ ~connected[c]
  /\ connected' = [connected EXCEPT ![c] = TRUE]
  /\ wire' = [wire EXCEPT ![c] = pendingStrokes[c]]
  /\ pendingStrokes' = [pendingStrokes EXCEPT ![c] = <<>>]
  /\ UNCHANGED <<seqCounter, drops, page, currentLeader, forwards, registrations, broadcasts,
                 late, replicas>>
Connect(c) ==
  /\ ~connected[c]
  /\ connected' = [connected EXCEPT ![c] = TRUE]
  /\ wire' = [wire EXCEPT ![c] = pendingStrokes[c]]
  /\ UNCHANGED <<seqCounter, pendingStrokes, drops, page, currentLeader, forwards,
                 registrations, broadcasts, late, replicas>>

\* onclose, with what had not arrived.
Disconnect(c) ==
  /\ connected[c]
  /\ drops < MaxDrops
  /\ drops' = drops + 1
  /\ connected' = [connected EXCEPT ![c] = FALSE]
  /\ wire' = [wire EXCEPT ![c] = <<>>]
  /\ UNCHANGED <<seqCounter, pendingStrokes, page, currentLeader, forwards, registrations,
                 broadcasts, late, replicas>>

\* onmessage: the echo of a pending stroke takes it off the queue.
Faulty_unmatched(c, s) ==
  LET queue == pendingStrokes[c]
  IN  IF c = s.client THEN Kept(queue, {n \in 1 .. Len(queue) : queue[n] > s.seq}) ELSE queue
unmatched(c, s) ==
  IF c = s.client THEN RemoveFirst(pendingStrokes[c], s.seq) ELSE pendingStrokes[c]

\* POST /broadcast: the gateway sends the stroke to every open connection.  A
\* stroke that was not pending is drawn.
Broadcast(b) ==
  LET pending(c) == c = b.client /\ Contains(pendingStrokes[c], b.seq) IN
  /\ broadcasts' = broadcasts \ {b}
  /\ pendingStrokes' = [c \in Client |-> IF connected[c] THEN unmatched(c, b)
                                         ELSE pendingStrokes[c]]
  /\ shown' = [c \in Client |-> IF connected[c] /\ ~pending(c) THEN shown[c] \cup {b}
                                ELSE shown[c]]
  /\ UNCHANGED <<seqCounter, connected, wire, drops, replayed, currentLeader,
                 forwards, registrations, late, replicas>>

\* The page is loaded again: sessionStorage keeps CLIENT_ID and raft.seq, the
\* queue and the canvas are gone.
Reload(c) ==
  /\ drops < MaxDrops
  /\ drops' = drops + 1
  /\ pendingStrokes' = [pendingStrokes EXCEPT ![c] = <<>>]
  /\ connected' = [connected EXCEPT ![c] = FALSE]
  /\ wire' = [wire EXCEPT ![c] = <<>>]
  /\ shown' = [shown EXCEPT ![c] = {}]
  /\ replayed' = [replayed EXCEPT ![c] = FALSE]
  /\ UNCHANGED <<seqCounter, currentLeader, forwards, registrations, broadcasts, late,
                 replicas>>

\* replayHistory, once after a load: what the first replica to have any
\* strokes has applied, or nothing when none answers with one.
Replay(c, i) ==
  /\ ~replayed[c]
  /\ replayed' = [replayed EXCEPT ![c] = TRUE]
  /\ shown' = [shown EXCEPT ![c] = @ \cup
       {s.op : s \in ToSet(getLogEntries(MachineOf(i), 0, lastApplied[i]))}]
  /\ UNCHANGED <<seqCounter, pendingStrokes, connected, wire, drops, currentLeader,
                 forwards, registrations, broadcasts, late, replicas>>

\* The clear button, of this canvas only.
Clear(c) ==
  /\ drops < MaxDrops
  /\ drops' = drops + 1
  /\ shown' = [shown EXCEPT ![c] = {}]
  /\ UNCHANGED <<seqCounter, pendingStrokes, connected, wire, replayed, currentLeader,
                 forwards, registrations, broadcasts, late, replicas>>

-----------------------------------------------------------------------------
(***************************************************************************)
(* The gateway: forwardStrokeToLeader, up to three attempts.               *)
(***************************************************************************)

\* The attempt with this number begins: with the leader known to the gateway
\* at that moment, or with its discovery.
Attempt(f, attempt, url) ==
  [id |-> f.id, op |-> f.op, attempt |-> attempt, target |-> url,
   phase |-> IF url = Nil THEN "discovering" ELSE "posted", index |-> -1, term |-> 0]

\* What is left of a forward when an attempt failed: nothing after the third.
OffByOne_failed(f, url) == IF f.attempt = 3 THEN {} ELSE {Attempt(f, f.attempt + 1, url)}
Faulty_failed(f, url) ==
  IF url = Nil THEN {Attempt(f, f.attempt, url)}
  ELSE IF f.attempt = 2 THEN {} ELSE {Attempt(f, f.attempt + 1, url)}
failed(f, url) == IF f.attempt = 2 THEN {} ELSE {Attempt(f, f.attempt + 1, url)}

\* ws.on("message")
Receive(c) ==
  LET free == (1 .. MaxForwards) \ {f.id : f \in forwards} IN
  /\ wire[c] # <<>>
  /\ free # {}
  /\ forwards' = forwards \cup
       {Attempt([id |-> Min(free), op |-> [client |-> c, seq |-> Head(wire[c])]],
                0, currentLeader)}
  /\ wire' = [wire EXCEPT ![c] = Tail(@)]
  /\ UNCHANGED <<seqCounter, pendingStrokes, connected, drops, page, currentLeader,
                 registrations, broadcasts, late, replicas>>

\* discoverLeader ends: it found one that takes itself for the leader, or none
\* (replicas that do not answer, a leader that moves between the polls).  The
\* leader may have become known from elsewhere in the meantime.
Discover(f) ==
  /\ f.phase = "discovering"
  /\ currentLeader' \in {currentLeader} \cup leaders
  /\ forwards' = (forwards \ {f}) \cup
       (IF currentLeader' = Nil THEN failed(f, Nil)
        ELSE {Attempt(f, f.attempt, currentLeader')})
  /\ UNCHANGED <<tabs, registrations, broadcasts, late, replicas>>

\* A response with leaderUrl, from a replica that does not lead: the leader it
\* last heard of, which may be itself or nobody.
Redirected(f) ==
  /\ f.phase = "posted"
  /\ f.target \notin leaders
  /\ currentLeader' \in Led \cup {Nil}
  /\ forwards' = (forwards \ {f}) \cup failed(f, currentLeader')
  /\ UNCHANGED <<tabs, registrations, broadcasts, late, replicas>>

\* The timeout of the post, a broken connection or a 503: the gateway forgets
\* the leader and tries again.  A request that was not handled yet may still
\* be; a response on its way back is not seen.
Retry(f) ==
  /\ f.phase # "discovering"
  /\ currentLeader' = Nil
  /\ forwards' = (forwards \ {f}) \cup failed(f, Nil)
  /\ late' = IF f.phase = "posted" THEN late \cup {[op |-> f.op, target |-> f.target]} ELSE late
  /\ UNCHANGED <<tabs, registrations, broadcasts, replicas>>

\* The response of the leader, with the index it gives.
Forwarded(f) ==
  /\ f.phase = "acked"
  /\ forwards' = forwards \ {f}
  /\ UNCHANGED <<tabs, currentLeader, registrations, broadcasts, late, replicas>>

\* POST /leader: the last one to arrive is believed.
Register(i) ==
  /\ registrations' = registrations \ {i}
  /\ currentLeader' = i
  /\ UNCHANGED <<tabs, forwards, broadcasts, late, replicas>>

\* The gateway is killed and starts again.  Its connections and forwards are
\* gone, the requests it had posted are not, and what was being posted to it
\* is lost; a leader goes on announcing itself until it is heard.
RestartGateway ==
  /\ drops < MaxDrops
  /\ drops' = drops + 1
  /\ connected' = [c \in Client |-> FALSE]
  /\ wire' = [c \in Client |-> <<>>]
  /\ currentLeader' = Nil
  /\ forwards' = {} /\ broadcasts' = {}
  /\ late' = late \cup {[op |-> f.op, target |-> f.target] :
                         f \in {g \in forwards : g.phase = "posted"}}
  /\ UNCHANGED <<seqCounter, pendingStrokes, page, registrations, replicas>>

-----------------------------------------------------------------------------
(***************************************************************************)
(* The replicas.                                                           *)
(***************************************************************************)

\* submit, up to its await, of a stroke its dedupe table does not know.
appendStroke(i, op) ==
  /\ i \in leaders
  /\ Seen(MachineOf(i), op) = {}
  /\ Len(logs[i]) < MaxLog
  /\ logs' = [logs EXCEPT ![i] = Append(@, [term |-> ledIn[i], op |-> op])]

\* POST /stroke at a replica that leads or does not know yet that it no longer
\* does.
Submit(f) ==
  /\ f.phase = "posted"
  /\ appendStroke(f.target, f.op)
  /\ forwards' = (forwards \ {f}) \cup
       {[f EXCEPT !.phase = "waiting", !.index = Len(logs[f.target]), !.term = ledIn[f.target]]}
  /\ UNCHANGED <<tabs, currentLeader, registrations, broadcasts, late, leaders, ledIn,
                 committed, lastApplied, restarts>>

\* The fast path: the table knows this or a later stroke of the client.
SubmitCached(f) ==
  LET cached == getDedupeIndex(MachineOf(f.target), f.op) IN
  /\ f.phase = "posted" /\ f.target \in leaders
  /\ cached # Nil
  /\ forwards' = (forwards \ {f}) \cup {[f EXCEPT !.phase = "acked", !.index = cached]}
  /\ UNCHANGED <<tabs, currentLeader, registrations, broadcasts, late, replicas>>

\* A request whose sender gave up on it arrives.  There may be others for the
\* same stroke on their way to the same replica.
SubmitLate(s) ==
  /\ appendStroke(s.target, s.op)
  /\ UNCHANGED <<tabs, currentLeader, forwards, registrations, broadcasts, late, leaders, ledIn,
                 committed, lastApplied, restarts>>

\* _awaitCommit and the rest of submit, when leader i emits "commit" for n.
Faulty_answer(f, i, n) ==
  IF f.index <= n + 1 THEN [f EXCEPT !.phase = "acked"] ELSE f
answer(f, i, n) ==
  LET authoritative == getDedupeIndex(Machine(SubSeq(logs[i], 1, n + 1)), f.op) IN
  IF f.index <= n
  THEN [f EXCEPT !.phase = "acked", !.index = IF authoritative = Nil THEN @ ELSE authoritative]
  ELSE IF f.term # ledIn[i] THEN [f EXCEPT !.phase = "rejected"] ELSE f

\* _maybeAdvanceCommitIndex of leader i reaches n: the entries are applied,
\* those with a stroke posted to the gateway, then those who wait for the
\* commit answered.  An entry a majority has is in the logs of the leaders
\* elected since.
Commit(i, n) ==
  LET prefix == SubSeq(logs[i], 1, n + 1) IN
  /\ i \in leaders
  /\ n > lastApplied[i]
  /\ logs[i][n + 1].term = ledIn[i]
  /\ \A j \in Server : ledIn[j] > ledIn[i] => IsPrefix(prefix, logs[j])
  /\ committed' = IF Len(prefix) > Len(committed) THEN prefix ELSE committed
  /\ lastApplied' = [lastApplied EXCEPT ![i] = n]
  /\ broadcasts' = broadcasts \cup
       {logs[i][k].op : k \in {m \in lastApplied[i] + 2 .. n + 1 : logs[i][m].op # Noop}}
  /\ forwards' = {IF f.phase = "waiting" /\ f.target = i THEN answer(f, i, n) ELSE f
                  : f \in forwards}
  /\ UNCHANGED <<tabs, currentLeader, registrations, late, leaders, ledIn, logs, restarts>>

\* A follower applies what it hears is committed.
Follow(i, n) ==
  /\ i \notin leaders
  /\ lastApplied' = [lastApplied EXCEPT ![i] = n]
  /\ UNCHANGED <<tabs, currentLeader, forwards, registrations, broadcasts, late, leaders, ledIn,
                 logs, committed, restarts>>

\* Replica i becomes leader.  Its log is the one it had as leader, or the
\* first entries of one of a later leader it followed; it has what is
\* committed.  It appends its NOOP and tells the gateway.
Elected(i, j, kept) ==
  LET term == Max({ledIn[k] : k \in Server}) + 1
      log  == SubSeq(logs[j], 1, kept)
  IN  /\ i \notin leaders
      /\ term <= MaxTerm
      /\ \/ j = i /\ kept = Len(logs[i])
         \/ ledIn[j] > ledIn[i]
      /\ IsPrefix(committed, log)
      /\ leaders' = leaders \cup {i}
      /\ ledIn' = [ledIn EXCEPT ![i] = term]
      /\ logs' = [logs EXCEPT ![i] = Append(log, [term |-> term, op |-> Noop])]
      /\ registrations' = registrations \cup {i}
      /\ UNCHANGED <<tabs, currentLeader, forwards, broadcasts, late, committed, lastApplied,
                     restarts>>

\* A leader hears of a newer term; who waits for a commit there goes on waiting.
StepDown(i) ==
  /\ leaders' = leaders \ {i}
  /\ UNCHANGED <<tabs, currentLeader, forwards, registrations, broadcasts, late, ledIn, logs,
                 committed, lastApplied, restarts>>

\* A replica is killed and starts again, without a snapshot.
Restart(i) ==
  /\ restarts < MaxRestarts
  /\ restarts' = restarts + 1
  /\ leaders' = leaders \ {i}
  /\ lastApplied' = [lastApplied EXCEPT ![i] = -1]
  /\ forwards' = {IF f.phase = "waiting" /\ f.target = i THEN [f EXCEPT !.phase = "rejected"]
                  ELSE f : f \in forwards}
  /\ UNCHANGED <<tabs, currentLeader, registrations, broadcasts, late, ledIn, logs, committed>>

-----------------------------------------------------------------------------
GatewayStep(f) == \/ Discover(f)
                  \/ Redirected(f)
                  \/ Retry(f)
                  \/ Forwarded(f)

Next ==
  \/ \E c \in Client : \/ SendStroke(c) \/ Connect(c) \/ Disconnect(c) \/ Receive(c)
                       \/ Reload(c) \/ Clear(c) \/ \E i \in Server : Replay(c, i)
  \/ RestartGateway
  \/ \E b \in broadcasts : Broadcast(b)
  \/ \E f \in forwards : GatewayStep(f) \/ Submit(f) \/ SubmitCached(f)
  \/ \E s \in late : SubmitLate(s)
  \/ \E i \in registrations : Register(i)
  \/ \E i \in leaders : StepDown(i) \/ \E n \in 0 .. Len(logs[i]) - 1 : Commit(i, n)
  \/ \E i \in Server :
       \/ \E n \in lastApplied[i] + 1 .. Len(committed) - 1 : Follow(i, n)
       \/ \E j \in Server : \E kept \in 0 .. Len(logs[j]) : Elected(i, j, kept)
       \/ Restart(i)

Spec == Init /\ [][Next]_vars

\* Every await of a forward ends, if only by the timeout of its request.
FairSpec ==
  Spec /\ \A id \in 1 .. MaxForwards :
            WF_vars(\E f \in forwards : f.id = id /\ GatewayStep(f))

-----------------------------------------------------------------------------
Drawn == Machine(committed).strokes

\* The responses of /stroke with success on their way to the gateway.
Acknowledgements == {f \in forwards : f.phase = "acked"}

\* The fields have their types.
TypeOK ==
  /\ seqCounter \in [Client -> 0 .. MaxSeq]
  /\ \A c \in Client : pendingStrokes[c] \in Seq(1 .. seqCounter[c])
  /\ currentLeader \in Led \cup {Nil}
  /\ leaders \subseteq Led /\ registrations \subseteq Led
  /\ broadcasts \subseteq Stroke
  /\ \A i \in Server : lastApplied[i] \in -1 .. Len(committed) - 1
  /\ \A f \in forwards : f.op \in Stroke /\ f.attempt \in 0 .. 2 /\ f.index \in Nat \cup {-1}

\* A stroke is drawn once, however often a tab, the gateway or a late request
\* hands it in and whichever leaders append it.
RetriesDrawOnce ==
  \A n, k \in 1 .. Len(Drawn) : Drawn[n].op = Drawn[k].op => n = k

\* What a tab shows is committed, or it is the tab's own and still in the
\* queue it sends again: no echo, reconnect, replay or reload leaves a stroke
\* on a canvas that the tab has given up.  Whether sending it again commits it
\* is another matter: one below what the dedupe table has seen is answered as
\* a duplicate and stays in the queue (AckedIsDrawn).
ShownIsKept ==
  \A c \in Client : \A s \in shown[c] :
    \/ s.client = c /\ Contains(pendingStrokes[c], s.seq)
    \/ \E n \in 1 .. Len(committed) : committed[n].op = s

\* The index of an acknowledgement is that of a committed stroke of the same
\* client, the one acknowledged or a later one.
AckNamesCommit ==
  \A a \in Acknowledgements :
    /\ a.index < Len(committed)
    /\ committed[a.index + 1].op # Noop
    /\ committed[a.index + 1].op.client = a.op.client
    /\ committed[a.index + 1].op.seq >= a.op.seq

\* A step that elects no replica at which a submit of an earlier leadership
\* waits for its commit.
NoReelection ==
  \A f \in forwards : f.phase = "waiting" => ledIn'[f.target] = ledIn[f.target]

\* A stroke the leader acknowledged to the gateway is drawn.
AckedIsDrawn ==
  \A a \in Acknowledgements : \E n \in 1 .. Len(Drawn) : Drawn[n].op = a.op

\* Every forward ends, acknowledged or given up, wherever the redirects of
\* replicas with an outdated leaderId lead it.
ForwardsEnd ==
  \A id \in 1 .. MaxForwards :
    (\E f \in forwards : f.id = id) ~> (\A f \in forwards : f.id # id)
=============================================================================
