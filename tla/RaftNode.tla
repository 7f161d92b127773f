------------------------------ MODULE RaftNode ------------------------------
(***************************************************************************)
(* replicas/raft/RaftNode.js: a cluster of replicas, each the object a     *)
(* RaftNode instance is, its SQLite file (Persistence) and its state       *)
(* machine.                                                                *)
(*                                                                         *)
(* JavaScript runs a handler, a timer callback or the code between two     *)
(* awaits to completion, so each of those is one action.  An RPC is an     *)
(* await: the code before it (which builds the request from the state),    *)
(* the handler at the peer, and the code after it (which uses the          *)
(* response together with what it captured before) are three actions, and  *)
(* anything may happen between them.  A message is lost when it is never   *)
(* delivered.                                                              *)
(*                                                                         *)
(* A process may be killed at any point, so also between two SQLite        *)
(* transactions of one handler: the CrashIn actions.                       *)
(*                                                                         *)
(* The state machine is its history, the sequence of the entries applied:  *)
(* applied[i][n + 1] is the entry with index n, stateMachine.lastApplied   *)
(* is Len(applied[i]) - 1, and a snapshot is a copy of that sequence.      *)
(***************************************************************************)
EXTENDS Persistence, FiniteSets

CONSTANTS
  Server,             \* the replicas
  Client,             \* the clientIds of the payloads
  MaxSeq,             \* strokes carry seq 1 .. MaxSeq
  Noop,               \* ENTRY_TYPE.NOOP with a null payload
  SnapshotThreshold,  \* config.snapshotThreshold
  Window,             \* bound: calls of one replica to one peer under way
  MaxElections,       \* bound: election timers that fire, over all the replicas
  MaxIndex,           \* bound: submit appends up to this index
  MaxRestarts         \* bound: crashes, over all the replicas

Stroke == Client \X (1 .. MaxSeq)

ASSUME ServerAssumption == IsFiniteSet(Server) /\ Server # {} /\ Nil \notin Server
ASSUME OpAssumption == Noop \notin Stroke
ASSUME BoundsAssumption ==
  /\ MaxSeq \in Nat
  /\ SnapshotThreshold \in Nat \ {0}
  /\ Window \in Nat \ {0}
  /\ {MaxElections, MaxIndex, MaxRestarts} \subseteq Nat

Follower  == "follower"
Candidate == "candidate"
Leader    == "leader"

VARIABLES
  role,         \* this.role
  leaderId,     \* this.leaderId
  currentTerm,  \* this.currentTerm
  votedFor,     \* this.votedFor
  commitIndex,  \* this.commitIndex
  nextIndex,    \* this.nextIndex, a peer missing from the map as 0
  matchIndex,   \* this.matchIndex, a peer missing from the map as -1
  applied,      \* this.stateMachine
  disk,         \* this.persistence
  voteRequests, \* /request-vote bodies in flight
  voteReplies,  \* their responses
  calls,        \* /append-entries and /install-snapshot calls under way
  elections,    \* how many election timers fired
  restarts,     \* how many processes were killed and started again
  decided       \* history: every <<index, entry>> a replica ever applied

volatile == <<role, leaderId, currentTerm, votedFor, commitIndex,
              nextIndex, matchIndex, applied>>
network  == <<voteRequests, voteReplies, calls>>
bounds   == <<elections, restarts>>
vars     == <<volatile, disk, network, bounds, decided>>

Peers(i) == Server \ {i}
Faulty_Majority == Cardinality(Server) \div 2    \* a mistake, see below
Majority == (Cardinality(Server) \div 2) + 1
Greater(a, b) == IF a > b THEN a ELSE b
Lesser(a, b)  == IF a < b THEN a ELSE b

-----------------------------------------------------------------------------
(***************************************************************************)
(* What the handlers compute from one replica's store p.  A definition     *)
(* named Faulty_ is the one after it with a plausible mistake: the         *)
(* properties are tried against the model that has the mistake.            *)
(***************************************************************************)

\* The term of the entry before the first one sent; -1 where there is none.
prevLogTerm(p, prev) ==
  IF prev >= 0 /\ prev = p.lastSnapshotIndex THEN p.lastSnapshotTerm
  ELSE IF prev \in Rows(p) THEN p.log[prev].term ELSE -1

Faulty_appendLocal(p, term, op) ==
  appendEntries(p, [n \in {Cardinality(Rows(p))} |-> [term |-> term, op |-> op]])
appendLocal(p, term, op) ==
  appendEntries(p, [n \in {lastIndex(p) + 1} |-> [term |-> term, op |-> op]])

\* handleRequestVote: no other candidate has this term's vote.
mayVote(vote, candidateId) == vote \in {Nil, candidateId}

\* handleRequestVote: the candidate's log is at least as long as the voter's.
Faulty_upToDate(p, m) == m.lastLogTerm >= lastTerm(p)
upToDate(p, m) ==
  \/ m.lastLogTerm > lastTerm(p)
  \/ m.lastLogTerm = lastTerm(p) /\ m.lastLogIndex >= lastIndex(p)

\* handleAppendEntries: the consistency check.
Faulty_matched(p, prev, prevTerm) ==
  (prev > p.lastSnapshotIndex /\ prev \in Rows(p)) => p.log[prev].term = prevTerm
matched(p, prev, prevTerm) ==
  \/ prev < 0
  \/ prev = p.lastSnapshotIndex /\ prevTerm = p.lastSnapshotTerm
  \/ prev < p.lastSnapshotIndex
  \/ prev > p.lastSnapshotIndex /\ prev \in Rows(p) /\ p.log[prev].term = prevTerm

\* handleAppendEntries: the sent indexes this log has no row of that term for.
Faulty_Conflicts(p, entries) == DOMAIN entries \ Rows(p)
Conflicts(p, entries) ==
  {n \in DOMAIN entries : n \notin Rows(p) \/ p.log[n].term # entries[n].term}

\* The stores the writes of the entries leave behind: truncateFrom
\* (writeStart), then appendEntries of what is left to write.
Truncated(p, entries) ==
  IF Conflicts(p, entries) = {} THEN p
  ELSE truncateFrom(p, Min(Conflicts(p, entries)))

Stored(p, entries) ==
  IF Conflicts(p, entries) = {} THEN p
  ELSE LET writeStart == Min(Conflicts(p, entries)) IN
       appendEntries(Truncated(p, entries),
                     [n \in {k \in DOMAIN entries : k >= writeStart} |-> entries[n]])

\* handleAppendEntries: whether the commit index follows the leader's.
Faulty_commitFollows(commit, m) == m.leaderCommit # commit
commitFollows(commit, m) == m.leaderCommit > commit

\* _applyCommitted: the loop stops at the commit index or the first gap.
applyCommitted(p, app, commit) ==
  LET reach == {n \in Len(app) .. commit : Len(app) .. n \subseteq Rows(p)}
      lastApplied == Max(reach \cup {Len(app) - 1})
  IN  app \o [k \in 1 .. lastApplied + 1 - Len(app) |-> p.log[Len(app) + k - 1]]

\* _maybeSnapshot: its conditions, and the stores its two writes leave.
SnapshotDue(p, app) ==
  /\ (Len(app) - 1) - p.lastSnapshotIndex >= SnapshotThreshold
  /\ Len(app) - 1 \in Rows(p)

Snapshotted(p, app) ==
  IF SnapshotDue(p, app)
  THEN saveSnapshot(p, Len(app) - 1, p.log[Len(app) - 1].term, app)
  ELSE p

maybeSnapshot(p, app) ==
  IF SnapshotDue(p, app) THEN truncateUpTo(Snapshotted(p, app), Len(app) - 1) ELSE p

\* handleInstallSnapshot: the log that is kept below the new snapshot.
Faulty_Wiped(p, m) == truncateFrom(p, m.lastIncludedIndex + 1)
Wiped(p, m) ==
  IF /\ m.lastIncludedIndex \in Rows(p)
     /\ p.log[m.lastIncludedIndex].term = m.lastIncludedTerm
  THEN truncateUpTo(p, m.lastIncludedIndex)
  ELSE truncateAll(p)

\* getDedupeIndex: a stroke of this client with this or a later seq applied.
Cached(app, s) ==
  \E n \in 1 .. Len(app) :
     /\ app[n].op # Noop
     /\ app[n].op[1] = s[1]
     /\ app[n].op[2] >= s[2]

-----------------------------------------------------------------------------
(***************************************************************************)
(* Steps several handlers share.                                           *)
(***************************************************************************)

\* _becomeFollower(term): the fields, and the store after its write.
becomeFollower(i, term) ==
  /\ role' = [role EXCEPT ![i] = Follower]
  /\ currentTerm' = [currentTerm EXCEPT ![i] = Greater(@, term)]
  /\ votedFor' = [votedFor EXCEPT ![i] = IF term > currentTerm[i] THEN Nil ELSE @]

Faulty_FollowerStore(i, term) ==
  IF term >= currentTerm[i] THEN saveTermAndVote(disk[i], term, Nil) ELSE disk[i]
FollowerStore(i, term) ==
  IF term > currentTerm[i] THEN saveTermAndVote(disk[i], term, Nil) ELSE disk[i]

Record(app) == {<<n - 1, app[n]>> : n \in 1 .. Len(app)}

\* _applyCommitted with the store p and the commit index just set.
Settle(i, p, commit) ==
  LET app == applyCommitted(p, applied[i], commit) IN
  /\ commitIndex' = [commitIndex EXCEPT ![i] = commit]
  /\ applied' = [applied EXCEPT ![i] = app]
  /\ disk' = [disk EXCEPT ![i] = maybeSnapshot(p, app)]
  /\ decided' = decided \cup Record(app)

\* _sendInstallSnapshotTo: no request without a snapshot to send.  A call is
\* the body it posts, then the response with what the caller's closure
\* captured before the await.
sendInstallSnapshotTo(i, j, p) ==
  IF p.lastSnapshotIndex = -1 THEN {}
  ELSE {[type |-> "InstallSnapshot", caller |-> i, peer |-> j, awaited |-> TRUE,
         term |-> currentTerm[i],
         lastIncludedIndex |-> p.lastSnapshotIndex,
         lastIncludedTerm |-> p.lastSnapshotTerm,
         data |-> p.snapshot]}

\* _sendAppendEntriesTo: a peer behind the first row kept gets the snapshot.
sendAppendEntriesTo(i, j, p, next) ==
  IF next < firstIndex(p) THEN sendInstallSnapshotTo(i, j, p)
  ELSE {[type |-> "AppendEntries", caller |-> i, peer |-> j, awaited |-> TRUE,
         term |-> currentTerm[i],
         prevLogIndex |-> next - 1,
         prevLogTerm |-> prevLogTerm(p, next - 1),
         entries |-> getRange(p, next, lastIndex(p)),
         leaderCommit |-> commitIndex[i]]}

\* _sendAppendEntriesToAll with the store p and the next indexes of the peers.
\* A call that would exceed the window to a peer displaces one of the others,
\* which is thereby lost.
sendAppendEntriesToAll(i, p, next) ==
  LET mine(j) == {c \in calls : c.caller = i /\ c.peer = j}
      sent == UNION {sendAppendEntriesTo(i, j, p, next[j]) : j \in Peers(i)}
  IN  \E kept \in SUBSET {c \in calls : c.caller = i} :
        /\ \A j \in Peers(i) :
             Cardinality(kept \cap mine(j)) = Lesser(Cardinality(mine(j)), Window - 1)
        /\ calls' = {c \in calls : c.caller # i} \cup kept \cup sent

IsRequest(c) == c.type \in {"AppendEntries", "InstallSnapshot"}

\* The response of the peer, if the process that made the call still runs.
Respond(m, r) ==
  calls' = (calls \ {m}) \cup (IF m.awaited THEN {r} ELSE {})

\* The last index a request covers, computed after the await from what was
\* captured before it.
Faulty_newMatch(m) == m.prevLogIndex + 1 + Cardinality(DOMAIN m.entries)
newMatch(m) ==
  IF DOMAIN m.entries = {} THEN m.prevLogIndex ELSE Max(DOMAIN m.entries)

AppendReply(m, term, success) ==
  [type |-> "AppendReply", caller |-> m.caller, peer |-> m.peer, term |-> term,
   success |-> success, next |-> m.prevLogIndex + 1,
   newMatch |-> newMatch(m)]

SnapshotReply(m, term) ==
  [type |-> "SnapshotReply", caller |-> m.caller, peer |-> m.peer, term |-> term,
   lastIncludedIndex |-> m.lastIncludedIndex]

-----------------------------------------------------------------------------
Init ==
  /\ role = [i \in Server |-> Follower]
  /\ leaderId = [i \in Server |-> Nil]
  /\ currentTerm = [i \in Server |-> 0]
  /\ votedFor = [i \in Server |-> Nil]
  /\ commitIndex = [i \in Server |-> -1]
  /\ nextIndex = [i \in Server |-> [j \in Peers(i) |-> 0]]
  /\ matchIndex = [i \in Server |-> [j \in Peers(i) |-> -1]]
  /\ applied = [i \in Server |-> <<>>]
  /\ disk = [i \in Server |-> FreshStore]
  /\ voteRequests = {} /\ voteReplies = {} /\ calls = {}
  /\ elections = 0 /\ restarts = 0 /\ decided = {}

-----------------------------------------------------------------------------
(***************************************************************************)
(* Elections.                                                              *)
(***************************************************************************)

\* The election timer fires: _becomeCandidate and the broadcast of the
\* requests.  A leader has no election timer.
StartElection(i) ==
  LET term == currentTerm[i] + 1
      p == saveTermAndVote(disk[i], term, i)
  IN  /\ role[i] # Leader
      /\ elections < MaxElections
      /\ elections' = elections + 1
      /\ role' = [role EXCEPT ![i] = Candidate]
      /\ leaderId' = [leaderId EXCEPT ![i] = Nil]
      /\ currentTerm' = [currentTerm EXCEPT ![i] = term]
      /\ votedFor' = [votedFor EXCEPT ![i] = i]
      /\ disk' = [disk EXCEPT ![i] = p]
      /\ voteRequests' = voteRequests \cup
           {[src |-> i, dst |-> j, term |-> term,
             lastLogIndex |-> lastIndex(p), lastLogTerm |-> lastTerm(p)]
            : j \in Peers(i)}
      /\ UNCHANGED <<commitIndex, nextIndex, matchIndex, applied,
                     voteReplies, calls, restarts, decided>>

\* Each request is posted once, so it is handled at most once.  A refusal in
\* the candidate's own term changes nothing there and is left out.
HandleRequestVote(m) ==
  LET j == m.dst
      newer == m.term > currentTerm[j]
      vote == IF newer THEN Nil ELSE votedFor[j]
      granted == /\ m.term >= currentTerm[j]
                 /\ mayVote(vote, m.src)
                 /\ upToDate(disk[j], m)
      term == Greater(currentTerm[j], m.term)
  IN  /\ role' = IF newer THEN [role EXCEPT ![j] = Follower] ELSE role
      /\ currentTerm' = [currentTerm EXCEPT ![j] = term]
      /\ votedFor' = [votedFor EXCEPT ![j] = IF granted THEN m.src ELSE vote]
      /\ disk' = IF newer \/ granted
                 THEN [disk EXCEPT ![j] = saveTermAndVote(@, term, votedFor'[j])]
                 ELSE disk
      /\ voteRequests' = voteRequests \ {m}
      /\ voteReplies' = IF granted \/ term > m.term
                        THEN voteReplies \cup
                          {[src |-> j, dst |-> m.src, ballot |-> m.term,
                            term |-> term, granted |-> granted]}
                        ELSE voteReplies
      /\ UNCHANGED <<leaderId, commitIndex, nextIndex, matchIndex, applied,
                     calls, bounds, decided>>

\* The candidacy's own vote and the grants that came back for its term.
Voters(i) ==
  {i} \cup {r.src : r \in {v \in voteReplies : /\ v.dst = i
                                               /\ v.ballot = currentTerm[i]
                                               /\ v.granted}}

\* The broadcast settled with a majority: _becomeLeader, its NOOP and the
\* first _sendAppendEntriesToAll.  Without a majority nothing changes.
ElectionWon(i) ==
  LET last == lastIndex(disk[i])
      p == appendLocal(disk[i], currentTerm[i], Noop)
      next == [j \in Peers(i) |-> last + 1]
  IN  /\ role[i] = Candidate
      /\ Cardinality(Voters(i)) >= Majority
      /\ role' = [role EXCEPT ![i] = Leader]
      /\ leaderId' = [leaderId EXCEPT ![i] = i]
      /\ nextIndex' = [nextIndex EXCEPT ![i] = next]
      /\ matchIndex' = [matchIndex EXCEPT ![i] = [j \in Peers(i) |-> -1]]
      /\ disk' = [disk EXCEPT ![i] = p]
      /\ sendAppendEntriesToAll(i, p, next)
      /\ UNCHANGED <<currentTerm, votedFor, commitIndex, applied,
                     voteRequests, voteReplies, bounds, decided>>

\* The broadcast settled and one of the responses has a newer term.
ElectionSteppedDown(r) ==
  LET i == r.dst IN
  /\ role[i] = Candidate
  /\ r.ballot = currentTerm[i]
  /\ r.term > currentTerm[i]
  /\ becomeFollower(i, r.term)
  /\ disk' = [disk EXCEPT ![i] = FollowerStore(i, r.term)]
  /\ UNCHANGED <<leaderId, commitIndex, nextIndex, matchIndex, applied, network,
                 bounds, decided>>

-----------------------------------------------------------------------------
(***************************************************************************)
(* Replication, the leader's side.                                         *)
(***************************************************************************)

\* submit up to its await; a stroke the dedupe table knows changes nothing.
Submit(i, s) ==
  LET p == appendLocal(disk[i], currentTerm[i], s) IN
  /\ role[i] = Leader
  /\ ~Cached(applied[i], s)
  /\ lastIndex(disk[i]) < MaxIndex
  /\ disk' = [disk EXCEPT ![i] = p]
  /\ sendAppendEntriesToAll(i, p, nextIndex[i])
  /\ UNCHANGED <<volatile, voteRequests, voteReplies, bounds, decided>>

\* The heartbeat interval.
Heartbeat(i) ==
  /\ role[i] = Leader
  /\ sendAppendEntriesToAll(i, disk[i], nextIndex[i])
  /\ UNCHANGED <<volatile, disk, voteRequests, voteReplies, bounds, decided>>

\* A response with a newer term: _becomeFollower, whatever the call was.
ReplyNewerTerm(r) ==
  LET i == r.caller IN
  /\ ~IsRequest(r)
  /\ role[i] = Leader
  /\ r.term > currentTerm[i]
  /\ becomeFollower(i, r.term)
  /\ disk' = [disk EXCEPT ![i] = FollowerStore(i, r.term)]
  /\ calls' = calls \ {r}
  /\ UNCHANGED <<leaderId, commitIndex, nextIndex, matchIndex, applied,
                 voteRequests, voteReplies, bounds, decided>>

\* _maybeAdvanceCommitIndex: the highest row of this term that a majority,
\* counting the leader, is known to have.
maybeAdvanceCommitIndex(i, match) ==
  LET p == disk[i]
      agreed == {n \in Rows(p) :
                   /\ n > commitIndex[i]
                   /\ p.log[n].term = currentTerm[i]
                   /\ 1 + Cardinality({j \in Peers(i) : match[j] >= n}) >= Majority}
  IN  IF agreed = {} THEN -1 ELSE Max(agreed)

\* The success branch of _sendAppendEntriesTo after its await: the role is
\* checked, the term the request was sent in is not.
ReplyAppended(r) ==
  LET i == r.caller
      match == [matchIndex[i] EXCEPT ![r.peer] = r.newMatch]
      commit == maybeAdvanceCommitIndex(i, match)
  IN  /\ r.type = "AppendReply"
      /\ role[i] = Leader
      /\ r.term <= currentTerm[i]
      /\ r.success
      /\ matchIndex' = [matchIndex EXCEPT ![i] = match]
      /\ nextIndex' = [nextIndex EXCEPT ![i][r.peer] = r.newMatch + 1]
      /\ IF commit > commitIndex[i]
         THEN Settle(i, disk[i], commit)
         ELSE UNCHANGED <<commitIndex, applied, disk, decided>>
      /\ calls' = calls \ {r}
      /\ UNCHANGED <<role, leaderId, currentTerm, votedFor, voteRequests, voteReplies, bounds>>

\* Its failure branch: one step back from the next index of the request.
ReplyRejected(r) ==
  LET i == r.caller IN
  /\ r.type = "AppendReply"
  /\ role[i] = Leader
  /\ r.term <= currentTerm[i]
  /\ ~r.success
  /\ nextIndex' = [nextIndex EXCEPT ![i][r.peer] = Greater(0, r.next - 1)]
  /\ calls' = calls \ {r}
  /\ UNCHANGED <<role, leaderId, currentTerm, votedFor, commitIndex, matchIndex, applied,
                 disk, voteRequests, voteReplies, bounds, decided>>

\* _sendInstallSnapshotTo after its await.
ReplyInstalled(r) ==
  LET i == r.caller IN
  /\ r.type = "SnapshotReply"
  /\ role[i] = Leader
  /\ r.term <= currentTerm[i]
  /\ matchIndex' = [matchIndex EXCEPT ![i][r.peer] = r.lastIncludedIndex]
  /\ nextIndex' = [nextIndex EXCEPT ![i][r.peer] = r.lastIncludedIndex + 1]
  /\ calls' = calls \ {r}
  /\ UNCHANGED <<role, leaderId, currentTerm, votedFor, commitIndex, applied, disk,
                 voteRequests, voteReplies, bounds, decided>>

-----------------------------------------------------------------------------
(***************************************************************************)
(* Replication, the follower's side.                                       *)
(***************************************************************************)

\* Both handlers refuse a caller of an older term.
RefuseStaleTerm(m) ==
  LET j == m.peer IN
  /\ IsRequest(m)
  /\ m.term < currentTerm[j]
  /\ Respond(m, IF m.type = "AppendEntries"
              THEN AppendReply(m, currentTerm[j], FALSE)
              ELSE SnapshotReply(m, currentTerm[j]))
  /\ UNCHANGED <<volatile, disk, voteRequests, voteReplies, bounds, decided>>

\* Both handlers follow a caller of this or a newer term.
Follow(m) ==
  /\ m.term >= currentTerm[m.peer]
  /\ becomeFollower(m.peer, m.term)
  /\ leaderId' = [leaderId EXCEPT ![m.peer] = m.caller]

\* handleAppendEntries returns early when the previous entry does not match.
AppendEntriesMismatch(m) ==
  LET j == m.peer IN
  /\ m.type = "AppendEntries"
  /\ Follow(m)
  /\ ~matched(disk[j], m.prevLogIndex, m.prevLogTerm)
  /\ disk' = [disk EXCEPT ![j] = FollowerStore(j, m.term)]
  /\ Respond(m, AppendReply(m, m.term, FALSE))
  /\ UNCHANGED <<commitIndex, nextIndex, matchIndex, applied,
                 voteRequests, voteReplies, bounds, decided>>

\* handleAppendEntries to its end: the rows, the commit index, _applyCommitted.
HandleAppendEntries(m) ==
  LET j == m.peer
      p == Stored(FollowerStore(j, m.term), m.entries)
  IN  /\ m.type = "AppendEntries"
      /\ Follow(m)
      /\ matched(disk[j], m.prevLogIndex, m.prevLogTerm)
      /\ IF commitFollows(commitIndex[j], m)
         THEN Settle(j, p, Lesser(m.leaderCommit, lastIndex(p)))
         ELSE /\ disk' = [disk EXCEPT ![j] = p]
              /\ UNCHANGED <<commitIndex, applied, decided>>
      /\ Respond(m, AppendReply(m, m.term, TRUE))
      /\ UNCHANGED <<nextIndex, matchIndex, voteRequests, voteReplies, bounds>>

\* handleInstallSnapshot when this snapshot or a newer one is there already.
InstallSnapshotKnown(m) ==
  LET j == m.peer IN
  /\ m.type = "InstallSnapshot"
  /\ Follow(m)
  /\ m.lastIncludedIndex <= disk[j].lastSnapshotIndex
  /\ disk' = [disk EXCEPT ![j] = FollowerStore(j, m.term)]
  /\ Respond(m, SnapshotReply(m, m.term))
  /\ UNCHANGED <<commitIndex, nextIndex, matchIndex, applied,
                 voteRequests, voteReplies, bounds, decided>>

HandleInstallSnapshot(m) ==
  LET j == m.peer IN
  /\ m.type = "InstallSnapshot"
  /\ Follow(m)
  /\ m.lastIncludedIndex > disk[j].lastSnapshotIndex
  /\ disk' = [disk EXCEPT ![j] =
       saveSnapshot(Wiped(FollowerStore(j, m.term), m),
                    m.lastIncludedIndex, m.lastIncludedTerm, m.data)]
  /\ applied' = [applied EXCEPT ![j] = m.data]
  /\ commitIndex' = [commitIndex EXCEPT ![j] = Greater(@, m.lastIncludedIndex)]
  /\ decided' = decided \cup Record(m.data)
  /\ Respond(m, SnapshotReply(m, m.term))
  /\ UNCHANGED <<nextIndex, matchIndex, voteRequests, voteReplies, bounds>>

-----------------------------------------------------------------------------
(***************************************************************************)
(* Crashes.  The process dies with the store p on disk, and start() runs.  *)
(* Of the calls only those in left go on: a post it was handling gets no   *)
(* answer, and the responses to its own calls have nobody to go to.        *)
(***************************************************************************)
CrashWith(i, p, left) ==
  /\ restarts < MaxRestarts
  /\ restarts' = restarts + 1
  /\ disk' = [disk EXCEPT ![i] = p]
  /\ currentTerm' = [currentTerm EXCEPT ![i] = p.currentTerm]
  /\ votedFor' = [votedFor EXCEPT ![i] = p.votedFor]
  /\ applied' = [applied EXCEPT ![i] = p.snapshot]
  /\ commitIndex' = [commitIndex EXCEPT ![i] = p.lastSnapshotIndex]
  /\ role' = [role EXCEPT ![i] = Follower]
  /\ leaderId' = [leaderId EXCEPT ![i] = Nil]
  /\ nextIndex' = [nextIndex EXCEPT ![i] = [j \in Peers(i) |-> 0]]
  /\ matchIndex' = [matchIndex EXCEPT ![i] = [j \in Peers(i) |-> -1]]
  /\ calls' = {IF c.caller = i THEN [c EXCEPT !.awaited = FALSE] ELSE c :
                c \in {d \in left : d.caller = i => IsRequest(d)}}
  /\ decided' = decided \cup Record(p.snapshot)
  /\ UNCHANGED <<voteReplies, elections>>

\* Between two handlers.
Restart(i) == CrashWith(i, disk[i], calls) /\ UNCHANGED voteRequests

\* In handleRequestVote, after the new term and before the vote is written.
CrashInRequestVote(m) ==
  /\ m.term > currentTerm[m.dst]
  /\ CrashWith(m.dst, saveTermAndVote(disk[m.dst], m.term, Nil), calls)
  /\ voteRequests' = voteRequests \ {m}

\* In handleAppendEntries, after its term, its truncateFrom, its
\* appendEntries or its saveSnapshot.
CrashInAppendEntries(m) ==
  LET j == m.peer
      p == FollowerStore(j, m.term)
      stored == Stored(p, m.entries)
      app == applyCommitted(stored, applied[j],
                            Lesser(m.leaderCommit, lastIndex(stored)))
  IN  /\ m.type = "AppendEntries"
      /\ m.term >= currentTerm[j]
      /\ matched(p, m.prevLogIndex, m.prevLogTerm)
      /\ \/ \E q \in {p, Truncated(p, m.entries), stored} : CrashWith(j, q, calls \ {m})
         \/ /\ commitFollows(commitIndex[j], m)
            /\ CrashWith(j, Snapshotted(stored, app), calls \ {m})
      /\ UNCHANGED voteRequests

\* In handleInstallSnapshot, after its term or after the rows were deleted.
CrashInInstallSnapshot(m) ==
  LET j == m.peer
      p == FollowerStore(j, m.term)
  IN  /\ m.type = "InstallSnapshot"
      /\ m.term >= currentTerm[j]
      /\ m.lastIncludedIndex > p.lastSnapshotIndex
      /\ \E q \in {p, Wiped(p, m)} : CrashWith(j, q, calls \ {m})
      /\ UNCHANGED voteRequests

\* In a leader's _maybeSnapshot, after saveSnapshot.
CrashInSnapshot(r) ==
  LET i == r.caller
      commit == maybeAdvanceCommitIndex(i, [matchIndex[i] EXCEPT ![r.peer] = r.newMatch])
      app == applyCommitted(disk[i], applied[i], commit)
  IN  /\ r.type = "AppendReply"
      /\ role[i] = Leader /\ r.term <= currentTerm[i] /\ r.success
      /\ commit > commitIndex[i]
      /\ SnapshotDue(disk[i], app)
      /\ CrashWith(i, Snapshotted(disk[i], app), calls)
      /\ UNCHANGED voteRequests

-----------------------------------------------------------------------------
Next ==
  \/ \E i \in Server : \/ StartElection(i)
                       \/ ElectionWon(i)
                       \/ Heartbeat(i)
                       \/ Restart(i)
                       \/ \E s \in Stroke : Submit(i, s)
  \/ \E m \in voteRequests : HandleRequestVote(m) \/ CrashInRequestVote(m)
  \/ \E r \in voteReplies : ElectionSteppedDown(r)
  \/ \E m \in calls : \/ RefuseStaleTerm(m)
                      \/ AppendEntriesMismatch(m)
                      \/ HandleAppendEntries(m)
                      \/ InstallSnapshotKnown(m)
                      \/ HandleInstallSnapshot(m)
                      \/ CrashInAppendEntries(m)
                      \/ CrashInInstallSnapshot(m)
  \/ \E r \in calls : \/ ReplyNewerTerm(r)
                      \/ ReplyAppended(r)
                      \/ ReplyRejected(r)
                      \/ ReplyInstalled(r)
                      \/ CrashInSnapshot(r)

Spec == Init /\ [][Next]_vars

-----------------------------------------------------------------------------
(***************************************************************************)
(* The steps in which the code departs from Raft.  The runs that expect a  *)
(* violation show what such a step can do; UndisturbedSpec is the system   *)
(* as long as none is taken.                                               *)
(***************************************************************************)

\* An AppendEntries the replica's snapshot and log have overtaken: its first
\* entries are compacted away, so handleAppendEntries takes them for conflicts
\* and truncates a log that reaches further than the request.
Overtaken(m) ==
  /\ m.term = currentTerm[m.peer]
  /\ m.prevLogIndex < disk[m.peer].lastSnapshotIndex
  /\ Conflicts(disk[m.peer], m.entries) # {}
  /\ newMatch(m) < lastIndex(disk[m.peer])

\* The truncation of handleAppendEntries reaches below the snapshot, so that a
\* crash before appendEntries leaves the snapshot and no row after it.
TruncatesBelow(m) ==
  /\ Conflicts(disk[m.peer], m.entries) # {}
  /\ Min(Conflicts(disk[m.peer], m.entries)) <= disk[m.peer].lastSnapshotIndex

\* No overtaken request is handled, no crash comes between two writes that only
\* together keep the log, and a leader takes a reply only in the term of its
\* request: after its await the code checks the role and not the term.
Undisturbed ==
  \A m \in calls :
    /\ HandleAppendEntries(m) => ~Overtaken(m)
    /\ CrashInAppendEntries(m) =>
         /\ ~Overtaken(m)
         /\ TruncatesBelow(m) =>
              disk'[m.peer] # Truncated(FollowerStore(m.peer, m.term), m.entries)
    /\ CrashInInstallSnapshot(m) => disk'[m.peer] = FollowerStore(m.peer, m.term)
    /\ (ReplyAppended(m) \/ CrashInSnapshot(m)) => m.term = currentTerm[m.caller]

UndisturbedSpec == Init /\ [][Next /\ Undisturbed]_vars

-----------------------------------------------------------------------------
(***************************************************************************)
(* The invariants.                                                         *)
(***************************************************************************)
Index == Nat \cup {-1}
Entry == [term : Nat, op : Stroke \cup {Noop}]

\* What a store knows of an index: its row, or else the snapshot.
Knows(p, n)   == n \in Rows(p) \/ n \in 0 .. p.lastSnapshotIndex
EntryAt(p, n) == IF n \in Rows(p) THEN p.log[n] ELSE p.snapshot[n + 1]
Holds(p, n, e) == Knows(p, n) /\ EntryAt(p, n) = e

StoreOK(p) ==
  /\ p.currentTerm \in Nat
  /\ p.votedFor \in Server \cup {Nil}
  /\ p.lastSnapshotIndex \in Index /\ p.lastSnapshotTerm \in Index
  /\ lastIndex(p) \in Index
  /\ Rows(p) \subseteq 0 .. lastIndex(p)
  /\ \A n \in Rows(p) : p.log[n] \in Entry
  /\ Len(p.snapshot) = p.lastSnapshotIndex + 1

\* The fields have their types, and a snapshot is as long as its index says.
TypeOK ==
  /\ role \in [Server -> {Follower, Candidate, Leader}]
  /\ leaderId \in [Server -> Server \cup {Nil}]
  /\ currentTerm \in [Server -> Nat]
  /\ votedFor \in [Server -> Server \cup {Nil}]
  /\ commitIndex \in [Server -> Index]
  /\ elections \in Nat /\ restarts \in Nat
  /\ \A i \in Server :
       /\ StoreOK(disk[i])
       /\ nextIndex[i] \in [Peers(i) -> Nat]
       /\ matchIndex[i] \in [Peers(i) -> Index]
       /\ \A n \in 1 .. Len(applied[i]) : applied[i][n] \in Entry

\* The replicas that act or acted as leader of a term: the ones that are, and
\* the ones whose requests are still under way.
Leaderships ==
  {<<i, currentTerm[i]>> : i \in {j \in Server : role[j] = Leader}}
    \cup {<<m.caller, m.term>> : m \in {c \in calls : IsRequest(c)}}

\* Only one replica ever acts as leader of a term (_startElection counts the
\* votes after an await; handleRequestVote must not vote twice in a term, not
\* even when the process was killed in between).
ElectionSafety ==
  \A a, b \in Leaderships : a[2] = b[2] => a[1] = b[1]

\* Two logs with a row of the same index and term agree on everything below
\* that both know (what the prevLogIndex check of handleAppendEntries is for).
LogMatching ==
  \A i \in Server : \A j \in Peers(i) :
    LET same == {n \in Rows(disk[i]) \cap Rows(disk[j]) :
                   disk[i].log[n].term = disk[j].log[n].term}
    IN  \A k \in 0 .. Max(same \cup {-1}) :
          Knows(disk[i], k) /\ Knows(disk[j], k) => EntryAt(disk[i], k) = EntryAt(disk[j], k)

\* Every entry there is, with its index: the rows, what AppendEntries requests
\* carry, and what any state machine, and so any snapshot, was ever built from.
RowsOf(log) == {<<n, log[n]>> : n \in DOMAIN log}
Entries ==
  decided
    \cup (UNION {RowsOf(disk[i].log) : i \in Server})
    \cup (UNION {RowsOf(c.entries) : c \in {d \in calls : d.type = "AppendEntries"}})

\* Index and term name an entry (_appendLocal takes the next index from
\* lastIndex, which compaction and InstallSnapshot change): the term checks of
\* handleAppendEntries compare nothing else.
EntriesUnique ==
  \A a, b \in Entries : (a[1] = b[1] /\ a[2].term = b[2].term) => a[2] = b[2]

\* No two replicas, and no two lives of one replica, apply different entries
\* at one index (_applyCommitted on leader and follower, start and
\* handleInstallSnapshot from a snapshot).
StateMachineSafety ==
  \A a, b \in decided : a[1] = b[1] => a[2] = b[2]

\* What was ever applied is on the disks of a majority, in the log or in the
\* snapshot: truncateFrom, truncateUpTo, truncateAll and crashes never take it
\* away from enough replicas for it to be lost.
CommittedOnQuorum ==
  \A d \in decided :
    Cardinality({i \in Server : Holds(disk[i], d[1], d[2])}) >= Majority

\* What a replica says of its log when it asks for or gives a vote
\* (lastIndex, lastTerm) never falls behind its own snapshot.
LogReachesSnapshot ==
  \A i \in Server :
    /\ lastIndex(disk[i]) >= disk[i].lastSnapshotIndex
    /\ lastTerm(disk[i]) >= disk[i].lastSnapshotTerm

\* Log and snapshot together leave no index out, whatever a crash
\* interrupts: start can rebuild the state machine from them.
Recoverable ==
  \A i \in Server : \A n \in 0 .. lastIndex(disk[i]) : Knows(disk[i], n)

\* What is committed and not applied yet is in the rows, so that _applyCommitted,
\* which stops at the first missing row, reaches the commit index: also when
\* rows were truncated, or an older snapshot took the state machine back below
\* the commit index and the rows beside it were kept.
CommittedIsAtHand ==
  \A i \in Server : Len(applied[i]) .. commitIndex[i] \subseteq Rows(disk[i])

\* A leader nobody is ahead of has every entry that was ever applied (the
\* up-to-date check of handleRequestVote, with the terms of compacted logs).
LeaderCompleteness ==
  \A i \in Server :
    (role[i] = Leader /\ \A j \in Server : currentTerm[j] <= currentTerm[i])
      => \A d \in decided : Holds(disk[i], d[1], d[2])

\* What a leader counts a peer for in _maybeAdvanceCommitIndex, an entry of its
\* term up to the peer's matchIndex, the peer has, and with it everything before
\* it that the leader knows, by row or by snapshot: neither requests that arrive
\* late nor replies that do make matchIndex claim too much (the success branch
\* of _sendAppendEntriesTo sets it without looking at what it was).  Of Spec it
\* is false: an overtaken request truncates rows that were acknowledged.
MatchIndexSound ==
  \A i \in Server : \A j \in Peers(i) : \A n \in 0 .. matchIndex[i][j] :
    (/\ role[i] = Leader /\ currentTerm[j] <= currentTerm[i]
     /\ Knows(disk[i], n) /\ EntryAt(disk[i], n).term = currentTerm[i]) =>
       \A k \in 0 .. n : Knows(disk[i], k) => Holds(disk[j], k, EntryAt(disk[i], k))

(***************************************************************************)
(* What no step may do.                                                    *)
(***************************************************************************)

\* The persisted term never goes back and the persisted vote of a term is
\* never changed or forgotten, whatever a crash interrupts.
VoteOnceStep(i) ==
  /\ disk'[i].currentTerm >= disk[i].currentTerm
  /\ (disk'[i].currentTerm = disk[i].currentTerm /\ disk[i].votedFor # Nil)
       => disk'[i].votedFor = disk[i].votedFor
VoteOnce == [][\A i \in Server : VoteOnceStep(i)]_vars

\* A leader whose process lives and whose term stays goes on leading, and its log
\* only grows: no row is overwritten, and none is deleted that its snapshot does
\* not cover (handleAppendEntries and handleInstallSnapshot accept a caller of
\* the replica's own term, whatever its role).
LeaderAppendOnlyStep(i) ==
  (role[i] = Leader /\ currentTerm'[i] = currentTerm[i] /\ restarts' = restarts) =>
    /\ role'[i] = Leader
    /\ lastIndex(disk'[i]) >= lastIndex(disk[i])
    /\ \A n \in Rows(disk[i]) :
         IF n \in Rows(disk'[i]) THEN disk'[i].log[n] = disk[i].log[n]
                                ELSE n <= disk'[i].lastSnapshotIndex
LeaderAppendOnly == [][\A i \in Server : LeaderAppendOnlyStep(i)]_vars

\* While the process lives its commit index never falls, whichever of several
\* requests under way arrives last: handleAppendEntries sets it to the lower of
\* leaderCommit and lastIndex, which must not be below what it was.  Of Spec it
\* is false: an overtaken request lowers lastIndex.
CommitIndexGrows ==
  [][\A i \in Server : restarts' = restarts => commitIndex'[i] >= commitIndex[i]]_vars

(***************************************************************************)
(* The replicas implement one replicated log: the entries applied anywhere *)
(* make up the log, the histories of the state machines are the views.     *)
(***************************************************************************)
DecidedLog ==
  [n \in 1 .. Cardinality({d[1] : d \in decided}) |->
     (CHOOSE d \in decided : d[1] = n - 1)[2]]

RL == INSTANCE ReplicatedLog WITH log <- DecidedLog, views <- applied

\* Every state machine is and stays a prefix of one growing log, across
\* failover, compaction, InstallSnapshot and restarts.
ImplementsReplicatedLog == RL!Spec
=============================================================================
