# Raft Canvas: specifications, model checks and proofs

Raft Canvas is a shared drawing board: browser tabs send strokes to a gateway,
the gateway forwards them to the leader of a Raft cluster of three replicas,
and the committed strokes come back to every tab. This directory holds TLA+
modules of the parts that carry that promise, TLC configurations that check them on
small instances, and TLAPS proofs for every value of the constants.

## The system

| part | state | operations | talks to |
|---|---|---|---|
| `replicas/raft/RaftNode.js` | role, term, vote, leaderId, commitIndex, nextIndex, matchIndex | election timer, heartbeat, submit, handleRequestVote, handleAppendEntries, handleInstallSnapshot, start, readIndex | peers by RPC; Persistence, StateMachine by call; replicaServer by events `role`, `applied`, `commit` |
| `replicas/raft/Persistence.js` | SQLite: term and vote, log rows, newest snapshot | one transaction per method | RaftNode |
| `replicas/raft/StateMachine.js` | strokes, dedupe table (LRU), lastApplied | apply, getSnapshot, restoreSnapshot, getDedupeIndex | RaftNode |
| `replicas/logHistory.js` | none | getLogEntries | `/log` |
| `replicas/raft/Transport.js` | injected partitions, latencies and drops; counters | call, broadcast, fault settings | RaftNode, peers, admin routes |
| `replicas/raft/EventLog.js` | the last events | add, list | replicaServer |
| `replicas/replicaServer.js` | retry timer of the leader's notification | HTTP routes (Raft, strokes, reads, admin), notifyGateway, broadcast of applied strokes | gateway, peers, dashboard |
| `gateway/gateway.js` | currentLeaderUrl, open sockets | forwardStrokeToLeader (3 attempts), discoverLeader, `/leader`, `/broadcast` | tabs by WebSocket, replicas by HTTP |
| `frontend/canvas.js` | clientId, seqCounter, pendingStrokes, the canvas | sendStroke, connect and flush, onmessage, reconnect, reload, replayHistory, clear | gateway, `/log` |
| `gateway/dashboard/dashboard.js` | none between two clicks | fault buttons: one post, isolate, clear all | admin routes |

Logger, benchmarks and the tests keep no state of the system and are not
modelled.

What is hard here: every RPC is an `await`, so a reply meets a state other than
the one its request was built from; calls to one peer are not serialised, so
they overtake each other; a process may be killed between two SQLite
transactions of one handler; logs are compacted on each replica by itself; the
gateway forwards the messages of a tab concurrently, gives up on a request
sooner than the leader does, and hears of leaders from four sources
(registration, discovery, redirect, failure). `PROJECT.json` lists the hazards
line by line.

What makes each part correct: RaftNode, one leader per term, nothing applied is
lost or replaced, all state machines on one log; Persistence, no hole and no forgotten vote
after a crash; StateMachine, the canvas is a function of the log and a
retry draws nothing; gateway and tabs, a stroke is drawn once, an acknowledgement
is about a committed stroke, what a tab shows stays or is sent again, every forward
ends; Transport and EventLog, the counters and the timeline agree with what
happened, and a replica the dashboard isolated is isolated.

## The modules

**Persistence** is the SQLite file as a record, an operator per method. The
log is a function on the set of row keys, because the table does not keep them
contiguous and the code does not check that they are.

**RaftNode** (extends Persistence) is the cluster. Its variables are the
fields of the JavaScript object, plus the messages. An action is a piece of code that runs
without an `await`: `StartElection` is the timer callback up to the broadcast,
`HandleRequestVote` the handler at the peer, `ElectionWon` and
`ElectionSteppedDown` what follows the broadcast. For replication, `Heartbeat` and
`Submit` send; `HandleAppendEntries`, `AppendEntriesMismatch`, `RefuseStaleTerm`,
`HandleInstallSnapshot` and `InstallSnapshotKnown` are the paths of the two
handlers; the `Reply...` actions are the code after the await, with what the
closure captured before it. `Restart` is a kill between two handlers and
`start()`; the `CrashIn...` actions are kills between two transactions of one
handler. The state machine is abstracted to the sequence of entries it applied,
and a snapshot to a copy of it. `decided` is a history variable: every entry
ever applied, with its index.

Requests and replies that are never delivered are lost. `Window` bounds the
calls of one replica to one peer that are under way; a further call displaces
one of the others, which is thereby lost. With `Window = 1` calls are lost but
never overtake each other; with `Window = 2` they do. A reply to a call of a
dead process goes nowhere (`awaited`). A handler is never run twice for one
post, not even when the process dies in it: HTTP does not duplicate and the
transport does not retry.

**ReplicatedLog** is the abstract specification: one log that only grows, and
views that are prefixes of it and move forward, or back to a snapshot on a
restart. RaftNode implements it (`ImplementsReplicatedLog`), with the entries
applied anywhere as the log and the state machines as the views.

**ReadIndex** (extends RaftNode) adds `readIndex` and `/read-linearizable`: a
read notes the commit index (`BeginRead`), has the peers confirm the leadership by
the same `HandleAppendEntries` as every other request (`Probe`), and is
answered from the state machine. `before` remembers the strokes applied
anywhere when it began.

**StateMachine** is the canvas of one replica as a record, an operator per
method, and `getLogEntries` of logHistory.js. The dedupe table is a sequence,
as a JavaScript Map iterates in insertion order. A stroke's coordinates are
left out; its key stands for it. **Canvas** puts several state machines above
one committed log, with apply, snapshot, restart and install at any moment, and
states what should be drawn by a second definition that reads the whole log at
once and knows no table.

**Gateway** (extends StateMachine) is the way of a stroke from the tab through
the gateway to `submit` and back. A forward is a record in a phase, one phase
per await. Below it there is what RaftNode provides rather than RaftNode
itself: the committed entries, who takes itself for the leader (outdated ones
too), the log each had as leader, and elections in which the new leader has all
that is committed and some prefix of an earlier leader's log, so that entries
dropped by one leader can come back under a later one. `Server` is the set of
the replicas that may lead; the others only vote and hold copies. Snapshots do
not occur in this module, so a restarted replica applies from the beginning.
On the side of the tab, `shown` is what is on its canvas: drawn by the
user, by a broadcast, or by the replay after a page load, which reads the history of
any one replica, lagging ones too. The gateway may be killed; with it go its
connections, its forwards and what was being posted to it.

**Chaos** is fault injection: `Call` with its checks in the order of the code, `Wake`
after the injected latency, `Settled`; the admin routes, one action each; the
event log; and the buttons of the dashboard, of which isolate is a sequence of
posts, first one after the other, then several at once. Buttons may be
pressed into one another, a post may be lost without the handler noticing. A latency
is set or not, a drop is impossible, possible or certain, and either may be bad, which
the routes refuse (`BadLevel`). A process that starts has two events in its log
(`Booted`): the role `start()` emits, and the boot.

**MCRaft, MCReadIndex, MCCanvas, MCGateway, MCChaos** add the symmetry sets for
TLC. MCRaft and MCReadIndex also give a view: replies to a vote request that
nobody waits for any more, because the candidate was elected, stepped down or began
another election, are left out of the state. No action reads them and no
property speaks of them, and terms do not go back, so they are never read later
either (a grant of a finished ballot stays in the module for the proof).

Eight modules hold theorems. **NodeProofs**, **AgreementProofs** and
**SafetyProofs** are about RaftNode, each built on the one before it: elections,
types and entries; the argument of Raft over the logs of leaders and their
acknowledgements; each step of RaftNode against that argument;
**CanvasProofs**, **GatewayProofs** and **ChaosProofs** about the module they
are named after. **MachineFacts** has the lemmas on the operators of
StateMachine that the canvas and the gateway need (what `Map.delete`,
`_touchDedupe` and `Array.filter` do to a table or a list), **NaturalFacts**
least and greatest naturals and induction up to a bound.

Definitions named `Faulty_...`, `OffByOne_...` and `Unbounded_...` are mutants:
the definition after them with a plausible mistake. Each property was tried
against such a mistake and finds it.

## The runs

Deadlock is not checked: with every bound used up a model may stop.

| run | instance | states | shows |
|---|---|---|---|
| replication | `UndisturbedSpec`; 3 replicas, 1 election, 1 stroke, Window 2, snapshot after every entry | 114 k | `TypeOK`, `MatchIndexSound`, `EntriesUnique`, `CommitIndexGrows` |
| compaction | 3 replicas, 2 elections, 1 stroke, Window 1, threshold 2 | 588 k | `LogReachesSnapshot`, `LogMatching`, `LeaderCompleteness`, `StateMachineSafety`, `ImplementsReplicatedLog`, `CommittedIsAtHand` |
| crash | 3 replicas, 2 elections, 1 crash anywhere, threshold 1 | 654 k | `ElectionSafety`, `Recoverable`, `CommittedOnQuorum`, `VoteOnce`, `LeaderAppendOnly` |
| eviction | 2 machines, 3 clients, table of 2, log of 4 | 105 k | `TypeOK`, `ReplicasAgree`, `DrawsTheLog`, `HistoryIsComplete` |
| strokes | 1 stroke, 2 elections, 1 restart, log of 4 | 1.29 M | `TypeOK`, `RetriesDrawOnce`, `AckNamesCommit` |
| reconnects | 1 tab with 2 strokes, 1 leader, 1 connection or gateway lost, page reloaded or cleared, fairness | 752 k | `ShownIsKept`, `ForwardsEnd` |
| faults | 3 replicas, 2 buttons, 1 call or event of RaftNode, timeline of 3 | 711 k | `TypeOK`, `CountersBalance`, `IsolationHolds`, `TimelineExplains` |

Why the bounds suffice for what is asked. Three replicas are the deployed
cluster, and the smallest in which a minority can lag. Two elections give an
old and a new leader with conflicting logs, messages of the old one under way
when the new one acts, and a log whose NOOP entries conflict; one stroke next to
the NOOPs makes a log of up to three rows, enough for a prefix, a conflict and a
suffix. The threshold of two leaves rows above a snapshot, the threshold of one
makes every commit a snapshot. In replication a row that the leader counts is in its
snapshot at once, so `MatchIndexSound` is about rows and snapshots alike; two calls to a peer
under way are one that overtakes and one that is overtaken. In Canvas three clients over a table of two
make eviction happen, and happen to a client that comes back. In Gateway, one
stroke has up to three attempts, each of which may arrive late, even more
than once; a log of four holds two NOOPs and a stroke appended twice. Two strokes
of a tab are enough for the echo of one to meet the other in the queue. In Chaos
two buttons are enough for each to interrupt the other, with three
replicas because isolate posts to the others one after the other; a timeline of
three has room for one event beside the two of a start, and evicts from the next on.

What the bounds leave out: three leaderships of RaftNode, calls that overtake
each other across an election where no finding is shown, and more than one crash;
a snapshot older than what its receiver has applied, which takes a threshold of three and
five entries; a lost connection together with an election; a second call
through the transport after the first.

Fairness is assumed in one run. `FairSpec` says that a forward that can go on
through a step of the gateway does: each of its awaits is an axios call with a
timeout (1000 ms for the post, 500 ms for each poll), after which the code
goes on. Nothing is assumed of the replicas, the tabs or the network: `Retry`,
the timeout, is always one of the steps that can be taken.

## Where code and documentation differ

Five runs expect a violation; each is described in `PROJECT.json` with the
sentence it contradicts.

- **overtaken**: an AppendEntries that a later one overtook reaches a follower
  after it compacted those entries. They are written again below the snapshot,
  the follower's `lastIndex` falls behind its own snapshot, it votes for a
  candidate without the committed entries, and another entry is applied at an
  index that was applied before.
- **interrupted**: a crash in `handleInstallSnapshot` after the rows were deleted
  and before the snapshot was saved leaves a hole between the old snapshot and
  the rows that are left.
- **reordered**: two strokes of a tab are forwarded concurrently; when the later
  one is applied first, the dedupe table answers the earlier one as a duplicate
  and it is never drawn.
- **reelected**: a submit that waits over a lost and regained leadership is
  acknowledged although its entry was overwritten, because `_awaitCommit`
  compares the commit index first and the term only then.
- **reads**: `readIndex` asks for a committed entry of the leader's term, but not
  when its commit index lies in its snapshot. A new leader that snapshotted at its commit
  index, and has not learnt yet what else its predecessor committed, then
  serves a read that lacks a stroke applied before the read began.

The passing runs of RaftNode are instances in which calls do not overtake each other
(compaction, crash), or in which they do and no overtaken request is handled (replication);
of Gateway, those without a re-election, or with properties the findings
do not touch.

## The proofs

| theorem | of | property |
|---|---|---|
| ElectionSafetyTheorem, VoteOnceTheorem | RaftNode | `ElectionSafety`, `VoteOnce` |
| TypeTheorem | RaftNode | `TypeOK` |
| LeaderAppendOnlyTheorem, EntriesUniqueTheorem | RaftNode | `LeaderAppendOnly`, `EntriesUnique` |
| RefinementTheorem | RaftNode | `ImplementsReplicatedLog`, from `StateMachineSafety` |
| MachineSafetyTheorem, QuorumTheorem, LeaderTheorem, MatchingTheorem | RaftNode, undisturbed | `StateMachineSafety`, `CommittedOnQuorum`, `LeaderCompleteness`, `LogMatching` |
| RecoveryTheorem | RaftNode, undisturbed | `Recoverable` and `LogReachesSnapshot` |
| CountingTheorem, AtHandTheorem, CommitTheorem | RaftNode, undisturbed | `MatchIndexSound`, `CommittedIsAtHand`, `CommitIndexGrows` |
| UndisturbedRefinement | RaftNode, undisturbed | `ImplementsReplicatedLog`, nothing assumed |
| CanvasTypeTheorem, ReplicasAgreeTheorem, DrawsTheLogTheorem, HistoryTheorem | Canvas | all four |
| GatewayTypeTheorem, ShownIsKeptTheorem, RetriesTheorem, AckTheorem | Gateway | `TypeOK`, `ShownIsKept`, `RetriesDrawOnce`, `AckNamesCommit` |
| ChaosTypeTheorem, IsolationTheorem, TimelineTheorem, CountersTheorem | Chaos | all four |

Each is of the same `Spec` its run checks, those marked undisturbed of
`UndisturbedSpec` (see below), and assumes what the modules assume
of their constants: a finite, non-empty set of replicas (only RaftNode needs
it), `Nil` neither replica nor client, NOOP not a stroke, bounds that are
naturals, a positive limit of the dedupe table and of the event log, `All` (the
target of a request for all replicas in Chaos) not a replica. RefinementTheorem,
RetriesTheorem and AckTheorem have a hypothesis of their own.

### RaftNode: what holds of every step

These hold with lost and overtaking messages, for every `Window`, and with crashes
inside handlers.

- **ElectionSafetyTheorem**: one replica per term acts as
  leader, counting the leaders whose requests are still under way. ElectionSafety
  is not inductive: it says nothing of the votes. `ElectionInv` adds that
  memory and disk agree on term and vote, that candidates and leaders voted for
  themselves, that a grant binds its voter while it stays in the term and no
  voter granted two candidates one term (`GrantsOK`), and that who leads or led a
  term had a majority of such grants (`LeadershipOK`). Every action is shown to
  be a `GoodStep`: terms do not go back, votes within a term do not change, a new
  grant is what the voter has on record, a new leadership has its majority. `GoodStep`
  preserves the invariant, and two majorities of a finite set meet.
- **VoteOnceTheorem**: the same for the disk, as an action property,
  with every crash point.
- **TypeTheorem**: types, and that a snapshot is as long as its
  index says and `lastIndex` bounds the rows. `lastIndex` is a `Max` over the
  rows, so the proof needs that every table of rows is bounded (`IsLog`), and
  that what messages carry is well formed (`CallsOK`), because
  handlers write it into stores and state machines.
- **LeaderAppendOnlyTheorem**: by election safety no request of the leader's own
  term comes from another, so `handleAppendEntries` and `handleInstallSnapshot`
  reach a leader only with a newer term; what is left are its own appends and
  its snapshots, which drop rows they cover.
- **EntriesUniqueTheorem**: index and term name an entry, among all rows, all
  requests under way and everything applied. The invariant `LogInv` adds who
  wrote an entry and how far it got: the owner of its term had a majority and
  nobody else can have that term any more (`EntriesOwned`), while the owner leads it has
  all entries of its term at or below its `lastIndex` (`EntriesReached`), so that
  the next index is new; and everything that is not a leader's append is a copy
  (`CopiesOK`: rows and requests from entries, snapshots and state machines from
  what was applied). Compaction and InstallSnapshot move rows into
  snapshots, hence the care for `lastIndex`. The theorem is the first half of log matching;
  it holds also where the findings overtaken and interrupted break the second.
- **RefinementTheorem**: `Spec /\ []StateMachineSafety => ImplementsReplicatedLog`.
  What was ever applied fills the indexes from 0 on (`DecidedFilled`), as a state
  machine is applied to in order or replaced by a whole snapshot, and all that
  state machines and snapshots have was applied (`CopiesOK`). With one entry per
  index this is a log that each state machine is a prefix of, and every action,
  each crash point included, moves at most one machine: along the log, past its end,
  or back to a prefix. The hypothesis cannot be dropped: the run
  overtaken is a behaviour without it. So the one thing that can break
  the promise of one replicated log is that two replicas apply different entries
  at one index; compaction, InstallSnapshot of an older snapshot, and restarts do not.
  In the instance of the run compaction TLC checks the refinement without the hypothesis.

### RaftNode: what holds without the steps of the findings

The other safety properties are false of `Spec` for some values of the constants. `UndisturbedSpec`
is `Spec` without four kinds of steps, each of which is a place where the
code departs from Raft:

- an AppendEntries is handled although the follower's snapshot and log have overtaken it
  (`Overtaken`: run overtaken);
- a process dies between `truncateFrom` and `appendEntries` when the truncation
  went below its snapshot (`TruncatesBelow`): what it acknowledged is gone from
  the disk for good, unless it is sent again;
- a process dies in `handleInstallSnapshot` after rows were deleted and before the
  snapshot was saved (run interrupted);
- a leader takes a successful reply to an AppendEntries in a later
  term of its own (hazard at `RaftNode.js:311`): with three replicas caller and
  peer are already a majority that keeps the entry; with five, both can have lost it.

All else is allowed: every loss, delay and overtaking that does not end in
the first of these, every other crash inside a handler, any number of elections, any threshold,
compaction and InstallSnapshot at any time, an older snapshot too. Nothing is assumed
of the states, only of the steps. All four can occur with larger bounds: the hypothesis is on
the behaviours of the code, not a fact about it.

The invariant is `SafeInv == LogInv /\ \E G, K : GInv(G, K)`. The two ghosts are what a
store forgets: `G[t]`, the whole log of the leader of term t, from index 0 on
whatever was compacted, and `K`, which replica acknowledged how much of it
to whom. Without them no statement about a compacted entry or a
truncated follower would be inductive: the rows that were counted are gone.
The argument has three parts.

1. An entry is `Chosen` when a majority acknowledged it, in the term it was written,
   to its leader. Every log of a replica, and of a leader, covers (`Cover`) what its owner
   acknowledged in an earlier term; the up-to-date check and the meeting of two
   majorities carry this on to the next leader's log, so a chosen entry is in
   the logs of all later leaders (`Core`, first part of AgreementProofs).
2. Whatever a commit index, a state machine or a snapshot covers lies below a
   chosen entry (`Fixed`), so of two of them one begins with the other. That gives
   state machine safety, and allows a store to stand for a whole log: the snapshot
   below, the rows above (`Shows`). Each method of Persistence, and each order
   of two of them that a handler takes, is shown to leave a store that shows
   the log it should, at every crash point (second part).
3. For each action of RaftNode, the next `G` and `K` (SafetyProofs): an election adds
   `G[t]`, an append of the leader extends it, a success of a follower adds to `K`, all
   else leaves them as they are. Requests and replies under way carry prefixes of
   `G[t]` and names of `K` (`CallGood`), whichever way they overtake each other.

Then **MachineSafetyTheorem** is `Settled` of two entries of `decided`,
**LeaderTheorem** that `G` of the highest term covers what is chosen,
**QuorumTheorem** that a majority acknowledged it and lost none of it since, **MatchingTheorem** that two
logs with one row in common agree with one `G[t]` up to there, **RecoveryTheorem** that a store shows
a log without holes, **CountingTheorem** that what a leader counts is in `K`, and what a peer
acknowledged in this term its log still shows, **AtHandTheorem** that commit index and state machine lie
in one log, which the store shows from its snapshot on, **CommitTheorem** that the rows a request
leaves reach as far as the commit index, and **UndisturbedRefinement** is RefinementTheorem with its hypothesis discharged.

### Canvas

The proof keeps beside the log a history `h` and a reading `d`: the machine and
the indexes drawn after each prefix. They are functions on the prefixes, and
every machine and snapshot is one of the history (`OfHistory`), which gives
**ReplicasAgreeTheorem** at once. **DrawsTheLogTheorem** is that every machine of
the history `Matches` the reading, by induction along the log: the strokes are those
drawn, in order; the table has the clients that were drawn for, by their last stroke, the
most recent ones up to the limit. The key step is that `_touchDedupe` evicts
exactly the client that the reading says has too many others after it, which needs
that the rows of the table rise in index and have distinct clients. The type invariant
(**CanvasTypeTheorem**) follows, and **HistoryTheorem**: as the indexes of the strokes rise,
a filter by index cuts the list at one place.

### Gateway

`GatewayInv` has the types of all parts, and the two facts that tie them
together. What is committed is the beginning of the log of everyone who led in the term of its
last entry or later (`CommittedOK`): of two commits, by whichever old and new
leaders, one begins with the other, so that what is committed stays it. And
what is posted to `/broadcast`, or served by `/log`, is a committed stroke
(`RequestsOK`; for `/log` because a machine draws only strokes of its log,
`MachinesDraw`).
- **ShownIsKeptTheorem** then follows step by step: a stroke gets on a canvas by being
  drawn, and is then in the queue, or by a broadcast or replay, and is then
  committed; it leaves the queue only by its echo, which is committed, or with
  the canvas itself.
- **RetriesTheorem** assumes finitely many tabs and no more than the dedupe table has
  room for (`Cardinality(Client) <= dedupeMaxClients`). The invariant along the log
  (`DrawsOnce`) is that a tab with a stroke drawn has a row in the table with
  that seq or a later one; with distinct clients in the rows and room for all, none
  is evicted. The hypothesis is needed: with one tab more than the table has room for
  (two tabs and a limit of 1) TLC finds a stroke drawn twice, when
  the leader appends it for the post and again for the retry, with a stroke of the
  other tab in between. The code's limit is 10000 tabs (`StateMachine` constructor).
- **AckTheorem** assumes of every step that it elects no replica at which a submit of
  an earlier leadership waits for its commit (`NoReelection`). The run reelected shows
  that `AckNamesCommit` is false without it, the finding on `_awaitCommit`; under it TLC finds no
  violation on the same instance. The invariant `AcksOK`: a submit that waits
  has its own stroke at its index in the log of its target, which has led in no
  later term (`Waits`); one that is acknowledged has the index of a committed
  stroke (`Names`). A submit answered from the dedupe table gets the index in a row,
  and the machine's rows name the strokes of its log at their indexes
  (`RowNames`). An election may cut entries off other logs, never
  off the log of the new leader or of what is committed.

### Chaos

- **IsolationTheorem**: IsolationHolds speaks of an isolate that is done; the invariant
  `Inv` follows one on its way (`Progress`): each refusal it has asked for is in force, or
  the post that asks for it is still under way. The posts a step removes are
  handled, and then the refusal is in force, or lost, and then the isolate is
  not intact; a heal, clear or crash that takes a refusal back spoils the isolates
  that need it.
- **TimelineTheorem** and **ChaosTypeTheorem**: `add` appends and drops at most the oldest event, so the
  newest event about a peer is the one just added, or the one it was before, or
  there is none left. That a clear names all peers, and a restart starts a new
  timeline, is what makes it agree with the partitions after those. The types need also that
  the routes refuse bad levels (`LevelsOK`) and resolve peers, and the counters of `StatsOK`.
- **CountersTheorem**: calls under way have ids of their own (`CallsOK`), so that one that
  ends lowers the number under way by one while its outcome is counted.

### What is only model-checked, and why

- `LogReachesSnapshot`, `Recoverable`, `CommittedOnQuorum`, `LogMatching` and
  `LeaderCompleteness` of `Spec` itself: only the instances of the runs compaction and crash;
  `CommittedIsAtHand` of `Spec`: that of compaction. `MatchIndexSound` and `CommitIndexGrows` are
  false of `Spec`: an overtaken request truncates rows that were acknowledged.
- `AckNamesCommit` without the hypothesis of AckTheorem, in the run strokes; the run reelected refutes it
  for more elections.
- `ForwardsEnd`: liveness under fairness is out of the prover's reach.

Induction over data has no theorem of the library that can be cited here, as
those take an operator as parameter. What the recursive readings of a log
compute is proved by `UpToBound` instead, which says of a set of numbers that it
has all up to a bound when it has the first and with each the next, and follows from
the well-foundedness of the naturals.

## Not modelled

- `stop()`, which is followed by the exit of the process, and the timers (a
  timer may fire at any moment, which contains every timing).
- A candidate's refusals in its own term, which change nothing.
- ReadIndex: reads of a process that is killed, which are gone with it.
- Toolbar, sizing and status of the page; the polling and the display of the
  dashboard; `/status` and `/metrics`, which only read.
- `/heartbeat` and `/sync-log`, which no code calls. `POST /stroke` of the gateway,
  which the benchmarks use, starts the same forward as a message of a tab.
- The effect of Chaos on RaftNode: whatever faults are injected there is a lost or a
  late message, and RaftNode allows each of those at any time.
- A tab that missed a broadcast: it does not read `/log` again before its page is
  loaded again, so nothing is promised about it.
- Gateway: the copies of a log that an earlier leadership of a re-elected leader
  left on replicas that never lead.

## Plan

Done, in this order: Persistence and RaftNode; the abstract log; StateMachine
and Canvas; Gateway; election safety and types proved; reads; reloads, replay
and the loss of a gateway; fault injection, and isolation proved; entries and
leaders' logs proved; the refinement of the abstract log proved from
`StateMachineSafety`; all properties of Canvas and Chaos and the safety of Gateway
that holds in general proved; state machine safety, leader completeness, log matching
and recovery of RaftNode proved without the steps of the findings, and the refinement with them;
acknowledgements of Gateway proved without re-elections under a waiting submit.

Were the code changed so that no disturbing step is left (compare with the
snapshot index in `handleAppendEntries`, save the snapshot and delete the rows
in one transaction, compare the term after the await), `Undisturbed` would hold of
every step, and the same theorems would hold of `Spec`.

And for TLC, where larger instances become feasible: catch-up of a follower as a liveness
property; three leaderships for stale replies; a snapshot older than what its
receiver has applied.
