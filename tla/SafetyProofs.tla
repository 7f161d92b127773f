---------------------------- MODULE SafetyProofs ----------------------------
(***************************************************************************)
(* The safety of RaftNode: no two replicas apply different entries at one  *)
(* index, what was applied is never lost, and log and snapshot together    *)
(* can always be recovered, for every number of replicas, every bound,     *)
(* every loss, delay and overtaking of messages and crashes between the    *)
(* writes of the handlers.                                                 *)
(*                                                                         *)
(* The hypothesis is Undisturbed, which excludes the steps at which the    *)
(* code departs from Raft; the runs overtaken and interrupted show that    *)
(* without it the theorems are false. One lemma for each action of         *)
(* RaftNode says that the invariant of AgreementProofs holds after it,     *)
(* with the ghosts the action leaves.                                      *)
(***************************************************************************)
EXTENDS AgreementProofs

-----------------------------------------------------------------------------
(***************************************************************************)
(* The steps that leave the logs alone.                                    *)
(***************************************************************************)

\* What the lemmas below need of the types.
Typed ==
  /\ DOMAIN role = Server /\ DOMAIN disk = Server /\ DOMAIN currentTerm = Server
  /\ DOMAIN matchIndex = Server /\ DOMAIN nextIndex = Server
  /\ DOMAIN commitIndex = Server /\ DOMAIN applied = Server
  /\ \A i \in Server :
       /\ currentTerm[i] \in Nat /\ commitIndex[i] \in Index
       /\ applied[i] \in Seq(Entry) /\ IsStore(disk[i])
       /\ matchIndex[i] \in [Peers(i) -> Index] /\ nextIndex[i] \in [Peers(i) -> Nat]
  /\ \A c \in calls : /\ CallOK(c) /\ "term" \in DOMAIN c /\ c.term \in Nat
                      /\ c.caller \in Server /\ c.peer \in Server
  /\ \A m \in voteRequests : m.src \in Server /\ m.dst \in Server /\ m.term \in Nat

\* The type invariant has them.
LEMMA DataTyped ==
  ASSUME DataInv
  PROVE  Typed
BY DEF DataInv, ElectionInv, TypesOK, TermsOK, DiskOK, MessagesOK, DataOK, StoresOK,
       MachinesOK, PeersOK, CallsOK, Typed

\* One replica writes its store and its machine.
Moved(i) == \A k \in Server \ {i} : Unmoved(k)

\* What the invariant says of one replica.
LEMMA SoundReplica ==
  ASSUME Typed, NEW G, NEW K, GInv(G, K), NEW i \in Server
  PROVE  /\ Sound(G, K, currentTerm[i], disk[i], commitIndex[i], applied[i])
         /\ IsStore(disk[i]) /\ currentTerm[i] \in Nat /\ commitIndex[i] \in Index
         /\ applied[i] \in Seq(Entry) /\ \A t \in Nat : IsFull(G[t])
         /\ DOMAIN Logs(disk) = Server /\ Logs(disk)[i] = StoreLog(disk[i])
         /\ \E b \in Index : Shows(disk[i], b, StoreLog(disk[i]))
<1>1. Sound(G, K, currentTerm[i], disk[i], commitIndex[i], applied[i])
  BY DEF GInv
<1>2. \A t \in Nat : IsFull(G[t])
  BY LogsAreFull DEF GInv
<1>3. DOMAIN Logs(disk) = Server /\ Logs(disk)[i] = StoreLog(disk[i])
  BY LogsWritten DEF Typed
<1>4. IsStore(disk[i])
  BY DEF Typed
<1>5. \E b \in Index : Shows(disk[i], b, StoreLog(disk[i]))
  <2>1. PICK b, X : Shows(disk[i], b, X)
    BY <1>1 DEF Sound
  <2>2. StoreLog(disk[i]) = X
    BY <1>4, <2>1, ShownLog
  <2>3. b \in Index
    BY <2>1 DEF Shows
  <2> QED BY <2>1, <2>2, <2>3
<1> QED BY <1>1, <1>2, <1>3, <1>4, <1>5 DEF Typed

\* A step that leaves the logs alone, except for new acknowledgements.
LEMMA SameLogsKeep ==
  ASSUME LogInv, DataInv', VoteStep, NEW G, NEW K, GInv(G, K),
         NEW j \in Server, Moved(j), NEW J, MoreAcks(K, J, currentTerm),
         Core(G, J, currentTerm', Logs(disk)),
         StoreLog(disk'[j]) = StoreLog(disk[j]),
         Sound(G, J, currentTerm'[j], disk'[j], commitIndex'[j], applied'[j]),
         role'[j] = Leader => Leads(G, J, currentTerm'[j], StoreLog(disk'[j]), matchIndex'[j]),
         Goes(currentTerm[j], role[j], disk[j], currentTerm'[j], role'[j], disk'[j]),
         \A c \in calls' : CallGood(G, J, c),
         \A m \in voteRequests' : \/ m \in voteRequests
                                  \/ AskGood(m, currentTerm'[m.src], role'[m.src], disk'[m.src]),
         \A v \in voteReplies' :
           \/ v \in voteReplies
           \/ GrantGood(G, J, v, currentTerm'[v.dst], role'[v.dst], StoreLog(disk'[v.dst])),
         decided' \subseteq decided \cup Record(applied'[j])
  PROVE  GInv(G, J)'
<1>1. LogsGrow(G, G) /\ DOMAIN G = Nat
  BY LogsGrowRefl DEF GInv
<1>2. \A k \in Server : StoreLog(disk'[k]) = StoreLog(disk[k])
  BY DEF Moved, Unmoved
<1>3. Core(G, J, currentTerm', Logs(disk'))
  BY <1>2, LogsSame
<1> QED BY <1>1, <1>3, StepKeeps DEF Moved

\* A step that changes neither the logs nor the ghosts.
LEMMA QuietKeeps ==
  ASSUME LogInv, DataInv', VoteStep, NEW G, NEW K, GInv(G, K),
         NEW j \in Server, Moved(j),
         StoreLog(disk'[j]) = StoreLog(disk[j]),
         Sound(G, K, currentTerm[j], disk'[j], commitIndex'[j], applied'[j]),
         role'[j] = Leader => Leads(G, K, currentTerm'[j], StoreLog(disk'[j]), matchIndex'[j]),
         Goes(currentTerm[j], role[j], disk[j], currentTerm'[j], role'[j], disk'[j]),
         \A c \in calls' : CallGood(G, K, c),
         \A m \in voteRequests' : \/ m \in voteRequests
                                  \/ AskGood(m, currentTerm'[m.src], role'[m.src], disk'[m.src]),
         \A v \in voteReplies' :
           \/ v \in voteReplies
           \/ GrantGood(G, K, v, currentTerm'[v.dst], role'[v.dst], StoreLog(disk'[v.dst])),
         decided' \subseteq decided \cup Record(applied'[j])
  PROVE  GInv(G, K)'
<1>1. MoreAcks(K, K, currentTerm)
  BY MoreAcksRefl
<1>2. \A k \in Server : currentTerm'[k] \in Nat /\ currentTerm'[k] >= currentTerm[k]
  BY DEF VoteStep, GoodStep, TypesOK, TermsOK
<1>3. Core(G, K, currentTerm', Logs(disk))
  BY <1>2, TermsKeepCore DEF GInv
<1>4. \A t \in Nat : IsFull(G[t])
  BY LogsAreFull DEF GInv
<1>5. Typed /\ Typed'
  BY DataTyped DEF LogInv, Typed, DataInv, ElectionInv, TypesOK, TermsOK, DiskOK, MessagesOK,
     DataOK, StoresOK, MachinesOK, PeersOK, CallsOK
<1>6. Sound(G, K, currentTerm'[j], disk'[j], commitIndex'[j], applied'[j])
  <2>1. currentTerm[j] \in Nat /\ currentTerm'[j] \in Nat /\ commitIndex'[j] \in Index
    BY <1>5 DEF Typed
  <2> QED BY <1>2, <1>4, <2>1, SoundKept, LogsGrowRefl
<1> QED BY <1>1, <1>3, <1>6, SameLogsKeep

\* The calls of a step that makes no request and answers none.
LEMMA CallsKept ==
  ASSUME NEW G, NEW K, GInv(G, K), calls' \subseteq calls
  PROVE  \A c \in calls' : CallGood(G, K, c)
BY DEF GInv

\* Both handlers and the responses with a newer term.
LEMMA FollowerStoreSame ==
  ASSUME Typed, NEW i \in Server, NEW t, NEW G, NEW K,
         Sound(G, K, currentTerm[i], disk[i], commitIndex[i], applied[i]),
         NEW p, p = FollowerStore(i, t)
  PROVE  /\ Sound(G, K, currentTerm[i], p, commitIndex[i], applied[i])
         /\ IsStore(p) /\ StoreLog(p) = StoreLog(disk[i])
         /\ p.log = disk[i].log /\ p.lastSnapshotIndex = disk[i].lastSnapshotIndex
         /\ p.lastSnapshotTerm = disk[i].lastSnapshotTerm
         /\ lastIndex(p) = lastIndex(disk[i])
<1>1. IsStore(disk[i])
  BY DEF Typed
<1>2. CASE t > currentTerm[i]
  <2>1. p = saveTermAndVote(disk[i], t, Nil)
    BY <1>2 DEF FollowerStore
  <2>2. /\ p.log = disk[i].log /\ p.lastSnapshotIndex = disk[i].lastSnapshotIndex
        /\ p.lastSnapshotTerm = disk[i].lastSnapshotTerm /\ p.snapshot = disk[i].snapshot
        /\ StoreLog(p) = StoreLog(disk[i]) /\ lastIndex(p) = lastIndex(disk[i])
        /\ IsStore(p)
    BY <1>1, <2>1, VoteWritten
  <2> QED BY <2>2, VoteWriteSound
<1>3. CASE ~(t > currentTerm[i])
  BY <1>1, <1>3 DEF FollowerStore
<1> QED BY <1>2, <1>3

-----------------------------------------------------------------------------
(***************************************************************************)
(* The actions that leave the logs alone.                                  *)
(***************************************************************************)

\* _startElection: the new candidate keeps its log and asks with it.
LEMMA StartElectionKeeps ==
  ASSUME LogInv, DataInv', VoteStep, NEW G, NEW K, GInv(G, K), NEW i \in Server, StartElection(i)
  PROVE  GInv(G, K)'
<1> DEFINE p == saveTermAndVote(disk[i], currentTerm[i] + 1, i)
<1>1. Typed
  BY DataTyped DEF LogInv
<1>2. /\ Sound(G, K, currentTerm[i], disk[i], commitIndex[i], applied[i])
      /\ IsStore(disk[i]) /\ currentTerm[i] \in Nat
  BY <1>1, SoundReplica
<1>3. /\ role' = [role EXCEPT ![i] = Candidate]
      /\ currentTerm' = [currentTerm EXCEPT ![i] = currentTerm[i] + 1]
      /\ disk' = [disk EXCEPT ![i] = p]
      /\ UNCHANGED <<commitIndex, nextIndex, matchIndex, applied, voteReplies, calls, decided>>
      /\ \A m \in voteRequests' : m \in voteRequests \/
           (m.src = i /\ m.term = currentTerm[i] + 1
              /\ m.lastLogIndex = lastIndex(p) /\ m.lastLogTerm = lastTerm(p))
  BY DEF StartElection
<1>4. Moved(i) /\ role'[i] = Candidate /\ currentTerm'[i] = currentTerm[i] + 1 /\ disk'[i] = p
  BY <1>1, <1>3 DEF Moved, Unmoved, Typed
<1>5. /\ p.log = disk[i].log /\ p.lastSnapshotIndex = disk[i].lastSnapshotIndex
      /\ p.lastSnapshotTerm = disk[i].lastSnapshotTerm /\ p.snapshot = disk[i].snapshot
      /\ StoreLog(p) = StoreLog(disk[i])
  BY <1>2, VoteWritten
<1> HIDE DEF p
<1>6. Sound(G, K, currentTerm[i], p, commitIndex[i], applied[i])
  BY <1>2, <1>5, VoteWriteSound
<1>7. Goes(currentTerm[i], role[i], disk[i], currentTerm'[i], role'[i], disk'[i])
  BY <1>2, <1>4 DEF Goes
<1>8. \A m \in voteRequests' : \/ m \in voteRequests
                              \/ AskGood(m, currentTerm'[m.src], role'[m.src], disk'[m.src])
  BY <1>2, <1>3, <1>4 DEF AskGood
<1>9. \A c \in calls' : CallGood(G, K, c)
  BY <1>3, CallsKept
<1>10. role'[i] # Leader /\ voteReplies' = voteReplies /\ decided' = decided
       /\ commitIndex'[i] = commitIndex[i] /\ applied'[i] = applied[i]
       /\ StoreLog(disk'[i]) = StoreLog(disk[i])
       /\ Sound(G, K, currentTerm[i], disk'[i], commitIndex'[i], applied'[i])
  BY <1>3, <1>4, <1>5, <1>6 DEF Candidate, Leader
<1> QED BY <1>4, <1>7, <1>8, <1>9, <1>10, QuietKeeps

\* becomeFollower with a store that has the log of before.
LEMMA FollowerKeeps ==
  ASSUME LogInv, DataInv', VoteStep, NEW G, NEW K, GInv(G, K), NEW i \in Server,
         NEW t, NEW p, IsStore(p), StoreLog(p) = StoreLog(disk[i]),
         Sound(G, K, currentTerm[i], p, commitIndex[i], applied[i]),
         role' = [role EXCEPT ![i] = Follower], currentTerm' = [currentTerm EXCEPT ![i] = t],
         disk' = [disk EXCEPT ![i] = p],
         UNCHANGED <<commitIndex, matchIndex, applied, voteRequests, voteReplies, decided>>,
         \A c \in calls' : CallGood(G, K, c)
  PROVE  GInv(G, K)'
<1>1. Typed
  BY DataTyped DEF LogInv
<1>2. Moved(i) /\ role'[i] = Follower /\ disk'[i] = p
  BY <1>1 DEF Moved, Unmoved, Typed
<1>3. role'[i] # Leader /\ Goes(currentTerm[i], role[i], disk[i], currentTerm'[i], role'[i], disk'[i])
  BY <1>2 DEF Goes, Follower, Leader, Candidate
<1>4. Sound(G, K, currentTerm[i], disk'[i], commitIndex'[i], applied'[i])
      /\ StoreLog(disk'[i]) = StoreLog(disk[i])
  BY <1>2
<1> QED BY <1>2, <1>3, <1>4, QuietKeeps

\* becomeFollower with the term of a message.
LEMMA StepDownKeeps ==
  ASSUME LogInv, DataInv', VoteStep, NEW G, NEW K, GInv(G, K), NEW i \in Server, NEW t,
         becomeFollower(i, t), disk' = [disk EXCEPT ![i] = FollowerStore(i, t)],
         UNCHANGED <<commitIndex, matchIndex, applied, voteRequests, voteReplies, decided>>,
         \A c \in calls' : CallGood(G, K, c)
  PROVE  GInv(G, K)'
<1>1. Typed
  BY DataTyped DEF LogInv
<1>2. Sound(G, K, currentTerm[i], disk[i], commitIndex[i], applied[i])
  BY <1>1, SoundReplica
<1> DEFINE p == FollowerStore(i, t)
<1>3. /\ Sound(G, K, currentTerm[i], p, commitIndex[i], applied[i])
      /\ IsStore(p) /\ StoreLog(p) = StoreLog(disk[i])
  BY <1>1, <1>2, FollowerStoreSame
<1>4. /\ role' = [role EXCEPT ![i] = Follower]
      /\ currentTerm' = [currentTerm EXCEPT ![i] = Greater(currentTerm[i], t)]
      /\ disk' = [disk EXCEPT ![i] = p]
  BY DEF becomeFollower
<1> HIDE DEF p
<1> QED BY <1>3, <1>4, FollowerKeeps

\* A candidate or leader hears of a newer term.
LEMMA StepDownsKeep ==
  ASSUME LogInv, DataInv', VoteStep, NEW G, NEW K, GInv(G, K),
         \/ \E r \in voteReplies : ElectionSteppedDown(r)
         \/ \E r \in calls : ReplyNewerTerm(r)
  PROVE  GInv(G, K)'
<1>1. Typed
  BY DataTyped DEF LogInv
<1>2. CASE \E r \in voteReplies : ElectionSteppedDown(r)
  <2>1. PICK r \in voteReplies : ElectionSteppedDown(r)
    BY <1>2
  <2>2. r.dst \in Server
    BY DEF LogInv, DataInv, ElectionInv, TypesOK, MessagesOK
  <2>3. /\ becomeFollower(r.dst, r.term) /\ disk' = [disk EXCEPT ![r.dst] = FollowerStore(r.dst, r.term)]
        /\ UNCHANGED <<commitIndex, matchIndex, applied, voteRequests, voteReplies, decided>>
        /\ calls' = calls
    BY <2>1 DEF ElectionSteppedDown, network
  <2>4. \A c \in calls' : CallGood(G, K, c)
    BY <2>3, CallsKept
  <2> QED BY <2>2, <2>3, <2>4, StepDownKeeps
<1>3. CASE \E r \in calls : ReplyNewerTerm(r)
  <2>1. PICK r \in calls : ReplyNewerTerm(r)
    BY <1>3
  <2>2. r.caller \in Server
    BY <1>1 DEF Typed
  <2>3. /\ becomeFollower(r.caller, r.term)
        /\ disk' = [disk EXCEPT ![r.caller] = FollowerStore(r.caller, r.term)]
        /\ UNCHANGED <<commitIndex, matchIndex, applied, voteRequests, voteReplies, decided>>
        /\ calls' \subseteq calls
    BY <2>1 DEF ReplyNewerTerm
  <2>4. \A c \in calls' : CallGood(G, K, c)
    BY <2>3, CallsKept
  <2> QED BY <2>2, <2>3, <2>4, StepDownKeeps
<1> QED BY <1>2, <1>3

\* The refusals.
LEMMA RefusalsKeep ==
  ASSUME LogInv, DataInv', VoteStep, NEW G, NEW K, GInv(G, K), NEW m \in calls,
         RefuseStaleTerm(m) \/ AppendEntriesMismatch(m)
  PROVE  GInv(G, K)'
<1>1. Typed
  BY DataTyped DEF LogInv
<1> DEFINE j == m.peer
<1>2. /\ j \in Server /\ m.term \in Nat /\ currentTerm[j] \in Nat
      /\ \A c \in calls : CallGood(G, K, c)
  BY <1>1 DEF Typed, GInv
<1>3. CASE RefuseStaleTerm(m)
  <2>1. /\ m.term < currentTerm[j] /\ IsRequest(m)
        /\ Respond(m, IF m.type = "AppendEntries" THEN AppendReply(m, currentTerm[j], FALSE)
                      ELSE SnapshotReply(m, currentTerm[j]))
        /\ UNCHANGED <<role, currentTerm, commitIndex, matchIndex, applied, disk,
                       voteRequests, voteReplies, decided>>
    BY <1>3 DEF RefuseStaleTerm, volatile
  <2>2. CallGood(G, K, AppendReply(m, currentTerm[j], FALSE))
    BY DEF CallGood, AppendReply
  <2>3. ASSUME m.type = "InstallSnapshot" PROVE CallGood(G, K, SnapshotReply(m, currentTerm[j]))
    <3> DEFINE r == SnapshotReply(m, currentTerm[j])
    <3>1. /\ m.lastIncludedIndex \in DOMAIN G[m.term]
          /\ Fixed(G, K, G[m.term], m.lastIncludedIndex, m.term)
      BY <1>2, <2>3 DEF CallGood, InstallGood
    <3>2. IsFull(G[m.term])
      BY <1>2, LogsAreFull DEF GInv
    <3>3. m.lastIncludedIndex \in Nat
      BY <3>1, <3>2, FullBelow
    <3>4. /\ r.type = "SnapshotReply" /\ r.term = currentTerm[j] /\ r.peer = m.peer
          /\ r.lastIncludedIndex = m.lastIncludedIndex
      BY DEF SnapshotReply
    <3> HIDE DEF r
    <3>5. m.term \in 0 .. r.term /\ m.term < r.term
      BY <1>2, <2>1, <3>4
    <3>6. ReplyGood(G, K, r)
      BY <3>1, <3>3, <3>4, <3>5 DEF ReplyGood
    <3>7. CallGood(G, K, r)
      BY <3>4, <3>6 DEF CallGood
    <3> QED BY <3>7 DEF r
  <2>4. m.type # "AppendEntries" => m.type = "InstallSnapshot"
    BY <2>1 DEF IsRequest
  <2>5. CallGood(G, K, IF m.type = "AppendEntries" THEN AppendReply(m, currentTerm[j], FALSE)
                       ELSE SnapshotReply(m, currentTerm[j]))
    BY <2>2, <2>3, <2>4
  <2>6. \A c \in calls' : CallGood(G, K, c)
    BY <1>2, <2>1, <2>5, RespondedGood
  <2>7. Moved(j) /\ Goes(currentTerm[j], role[j], disk[j], currentTerm'[j], role'[j], disk'[j])
    BY <2>1 DEF Moved, Unmoved, Goes
  <2>8. Sound(G, K, currentTerm[j], disk[j], commitIndex[j], applied[j])
    BY <1>1, <1>2, SoundReplica
  <2>9. role'[j] = Leader => Leads(G, K, currentTerm'[j], StoreLog(disk'[j]), matchIndex'[j])
    BY <1>2, <2>1 DEF GInv
  <2> QED BY <1>2, <2>1, <2>6, <2>7, <2>8, <2>9, QuietKeeps
<1>4. CASE AppendEntriesMismatch(m)
  <2>1. /\ becomeFollower(j, m.term) /\ disk' = [disk EXCEPT ![j] = FollowerStore(j, m.term)]
        /\ Respond(m, AppendReply(m, m.term, FALSE))
        /\ UNCHANGED <<commitIndex, matchIndex, applied, voteRequests, voteReplies, decided>>
    BY <1>4 DEF AppendEntriesMismatch, Follow
  <2>2. CallGood(G, K, AppendReply(m, m.term, FALSE))
    BY DEF CallGood, AppendReply
  <2>3. \A c \in calls' : CallGood(G, K, c)
    BY <1>2, <2>1, <2>2, RespondedGood
  <2> QED BY <1>2, <2>1, <2>3, StepDownKeeps
<1> QED BY <1>3, <1>4

\* After a handler of a leader's request the replica is a follower of its term.
LEMMA FollowTerm ==
  ASSUME Typed, NEW m \in calls, Follow(m)
  PROVE  /\ role' = [role EXCEPT ![m.peer] = Follower] /\ role'[m.peer] = Follower
         /\ currentTerm' = [currentTerm EXCEPT ![m.peer] = m.term]
         /\ currentTerm'[m.peer] = m.term /\ currentTerm[m.peer] <= m.term
<1>1. m.peer \in Server /\ m.term \in Nat /\ currentTerm[m.peer] \in Nat
  BY DEF Typed
<1>2. /\ m.term >= currentTerm[m.peer] /\ role' = [role EXCEPT ![m.peer] = Follower]
      /\ currentTerm' = [currentTerm EXCEPT ![m.peer] = Greater(currentTerm[m.peer], m.term)]
  BY DEF Follow, becomeFollower
<1>3. Greater(currentTerm[m.peer], m.term) = m.term
  BY <1>1, <1>2 DEF Greater
<1> QED BY <1>1, <1>2, <1>3 DEF Typed

\* Acknowledgements of the terms after a step are new before it, too.
LEMMA MoreAcksLater ==
  ASSUME NEW K, NEW J, NEW T, NEW S, \A k \in Server : T[k] \in Nat /\ S[k] \in Nat /\ S[k] >= T[k],
         MoreAcks(K, J, S)
  PROVE  MoreAcks(K, J, T)
BY DEF MoreAcks

\* A follower acknowledges what it has of the leader's log.
LEMMA AckedStep ==
  ASSUME LogInv, VoteStep, NEW G, NEW K, NEW L, Core(G, K, currentTerm', L), NEW j \in Server,
         NEW k \in Nat, Agrees(L[j], G[currentTerm'[j]], k),
         NEW J, J = K \cup {<<j, k, currentTerm'[j]>>}
  PROVE  Core(G, J, currentTerm', L) /\ MoreAcks(K, J, currentTerm) /\ K \subseteq J
<1>1. Core(G, J, currentTerm', L) /\ MoreAcks(K, J, currentTerm')
  BY AckKeepsCore
<1>2. \A i \in Server : currentTerm[i] \in Nat /\ currentTerm'[i] \in Nat /\ currentTerm'[i] >= currentTerm[i]
  BY DEF VoteStep, GoodStep, TypesOK, TermsOK, LogInv, DataInv, ElectionInv
<1> QED BY <1>1, <1>2, MoreAcksLater

\* The ghosts after the terms grew.
LEMMA TermsGrown ==
  ASSUME LogInv, VoteStep, NEW G, NEW K, GInv(G, K)
  PROVE  Core(G, K, currentTerm', Logs(disk))
<1>1. \A k \in Server : currentTerm'[k] \in Nat /\ currentTerm'[k] >= currentTerm[k]
  BY DEF VoteStep, GoodStep, TypesOK, TermsOK
<1> QED BY <1>1, TermsKeepCore DEF GInv

\* The calls under way stay true while the ghosts grow.
LEMMA OldCallsGood ==
  ASSUME Typed, NEW G, NEW K, GInv(G, K), NEW H, LogsGrow(G, H), NEW J, K \subseteq J
  PROVE  \A c \in calls : CallGood(H, J, c)
<1>1. \A t \in Nat : IsFull(G[t])
  BY LogsAreFull DEF GInv
<1> QED BY <1>1, CallGoodKept DEF GInv, Typed

\* The answer of handleInstallSnapshot in the term of the request.
LEMMA SnapshotReplyGood ==
  ASSUME NEW G, NEW J, NEW m, m.term \in Nat, m.lastIncludedIndex \in Nat,
         Fixed(G, J, G[m.term], m.lastIncludedIndex, m.term),
         <<m.peer, m.lastIncludedIndex, m.term>> \in J
  PROVE  CallGood(G, J, SnapshotReply(m, m.term))
<1> DEFINE r == SnapshotReply(m, m.term)
<1>1. /\ r.type = "SnapshotReply" /\ r.term = m.term /\ r.peer = m.peer
      /\ r.lastIncludedIndex = m.lastIncludedIndex
  BY DEF SnapshotReply
<1> HIDE DEF r
<1>2. m.term \in 0 .. r.term
  BY <1>1
<1>3. ReplyGood(G, J, r)
  BY <1>1, <1>2 DEF ReplyGood
<1>4. CallGood(G, J, r)
  BY <1>1, <1>3 DEF CallGood
<1> QED BY <1>4 DEF r

\* A snapshot that is not newer than the replica's own.
LEMMA SnapshotKnownKeeps ==
  ASSUME LogInv, DataInv', VoteStep, NEW G, NEW K, GInv(G, K), NEW m \in calls,
         InstallSnapshotKnown(m)
  PROVE  \E J : GInv(G, J)'
<1>1. Typed
  BY DataTyped DEF LogInv
<1> DEFINE j == m.peer
           s == disk[j].lastSnapshotIndex
           n == m.lastIncludedIndex
           U == m.term
           p == FollowerStore(j, U)
           J == K \cup {<<j, n, U>>}
<1>2. /\ m.type = "InstallSnapshot" /\ Follow(m) /\ n <= s
      /\ disk' = [disk EXCEPT ![j] = p] /\ Respond(m, SnapshotReply(m, m.term))
      /\ UNCHANGED <<commitIndex, matchIndex, applied, voteRequests, voteReplies, decided>>
  BY DEF InstallSnapshotKnown
<1>3. /\ j \in Server /\ U \in Nat /\ m \in calls
  BY <1>1 DEF Typed
<1>4. /\ role' = [role EXCEPT ![j] = Follower] /\ role'[j] = Follower
      /\ currentTerm' = [currentTerm EXCEPT ![j] = U]
      /\ currentTerm'[j] = U /\ currentTerm[j] <= U
  BY <1>1, <1>2, FollowTerm
<1>5. /\ Sound(G, K, currentTerm[j], disk[j], commitIndex[j], applied[j])
      /\ IsStore(disk[j]) /\ currentTerm[j] \in Nat /\ commitIndex[j] \in Index
      /\ applied[j] \in Seq(Entry) /\ \A t \in Nat : IsFull(G[t])
      /\ Logs(disk)[j] = StoreLog(disk[j])
  BY <1>1, <1>3, SoundReplica
<1>6. InstallGood(G, K, m)
  BY <1>2 DEF GInv, CallGood
<1>7. /\ Led(G, U) /\ n \in DOMAIN G[U] /\ Fixed(G, K, G[U], n, U)
  BY <1>6 DEF InstallGood
<1>8. n \in Nat
  BY <1>3, <1>5, <1>7, FullBelow
<1>9. s \in Nat /\ n \in 0 .. s
  BY <1>2, <1>5, <1>8 DEF IsStore, IsSnapshot, Index
<1> HIDE DEF s, n, U, p, j
<1>10. Agrees(StoreLog(disk[j]), G[U], n)
  <2>1. Sound(G, K, currentTerm[j], disk[j], s, disk[j].snapshot)
    BY <1>5, CrashSound DEF s
  <2>2. Fixed(G, K, StoreLog(disk[j]), s, currentTerm[j])
    BY <1>9, <2>1 DEF Sound
  <2>3. IsFull(StoreLog(disk[j])) /\ IsFull(G[U])
    <3>1. PICK b, X : Shows(disk[j], b, X)
      BY <1>5 DEF Sound
    <3> QED BY <1>3, <1>5, <3>1, ShownLog, ShowsBounds
  <2>4. Core(G, K, currentTerm, Logs(disk))
    BY DEF GInv
  <2>5. Agrees(StoreLog(disk[j]), G[U], s)
    BY <1>3, <1>4, <1>5, <1>7, <1>9, <2>2, <2>3, <2>4, FixedIsLeaders
  <2> QED BY <1>9, <2>3, <2>5, AgreesUp
<1>11. Core(G, J, currentTerm', Logs(disk)) /\ MoreAcks(K, J, currentTerm) /\ K \subseteq J
  <2>1. Core(G, K, currentTerm', Logs(disk))
    BY TermsGrown
  <2>2. J = K \cup {<<j, n, currentTerm'[j]>>} /\ Agrees(Logs(disk)[j], G[currentTerm'[j]], n)
    BY <1>4, <1>5, <1>10
  <2> HIDE DEF J
  <2> QED BY <1>3, <1>8, <2>1, <2>2, AckedStep
<1>12. /\ Sound(G, K, currentTerm[j], p, commitIndex[j], applied[j])
       /\ IsStore(p) /\ StoreLog(p) = StoreLog(disk[j])
  BY <1>1, <1>3, <1>5, FollowerStoreSame DEF p
<1>13. Moved(j) /\ disk'[j] = p
  BY <1>1, <1>2, <1>3, <1>4 DEF Moved, Unmoved, Typed
<1>14. Sound(G, J, currentTerm'[j], disk'[j], commitIndex'[j], applied'[j])
  <2>1. Sound(G, J, U, p, commitIndex[j], applied[j])
    BY <1>3, <1>4, <1>5, <1>11, <1>12, SoundKept, LogsGrowRefl
  <2> QED BY <1>2, <1>4, <1>13, <2>1
<1>15. \A c \in calls' : CallGood(G, J, c)
  <2>1. Fixed(G, J, G[U], n, U)
    BY <1>3, <1>5, <1>7, <1>8, <1>11, FixedInLeaders, LogsGrowRefl
  <2>2. CallGood(G, J, SnapshotReply(m, m.term))
    BY <1>3, <1>8, <2>1, SnapshotReplyGood DEF n, U, j
  <2>3. \A c \in calls : CallGood(G, J, c)
    BY <1>1, <1>11, OldCallsGood, LogsGrowRefl
  <2> QED BY <1>2, <2>2, <2>3, RespondedGood
<1>16. role'[j] # Leader /\ Goes(currentTerm[j], role[j], disk[j], currentTerm'[j], role'[j], disk'[j])
  BY <1>4 DEF Goes, Follower, Leader, Candidate
<1> HIDE DEF J
<1>17. GInv(G, J)'
  BY <1>2, <1>3, <1>11, <1>12, <1>13, <1>14, <1>15, <1>16, SameLogsKeep
<1> QED BY <1>17

\* The steps of a leader that write nothing.
LEMMA LeaderQuietKeeps ==
  ASSUME LogInv, DataInv', VoteStep, NEW G, NEW K, GInv(G, K), NEW i \in Server,
         UNCHANGED <<role, currentTerm, commitIndex, applied, disk, voteRequests, voteReplies, decided>>,
         \A k \in Server \ {i} : matchIndex'[k] = matchIndex[k],
         role[i] = Leader => Leads(G, K, currentTerm[i], StoreLog(disk[i]), matchIndex'[i]),
         \A c \in calls' : CallGood(G, K, c)
  PROVE  GInv(G, K)'
<1>1. Typed
  BY DataTyped DEF LogInv
<1>2. Moved(i) /\ Goes(currentTerm[i], role[i], disk[i], currentTerm'[i], role'[i], disk'[i])
  BY DEF Moved, Unmoved, Goes
<1>3. Sound(G, K, currentTerm[i], disk[i], commitIndex[i], applied[i])
  BY <1>1, SoundReplica
<1>4. Sound(G, K, currentTerm[i], disk'[i], commitIndex'[i], applied'[i])
      /\ StoreLog(disk'[i]) = StoreLog(disk[i])
      /\ (role'[i] = Leader => Leads(G, K, currentTerm'[i], StoreLog(disk'[i]), matchIndex'[i]))
  BY <1>3
<1> QED BY <1>2, <1>4, QuietKeeps

\* The heartbeat timer: a leader sends what it has.
LEMMA HeartbeatKeeps ==
  ASSUME LogInv, DataInv', VoteStep, NEW G, NEW K, GInv(G, K), NEW i \in Server, Heartbeat(i)
  PROVE  GInv(G, K)'
<1>1. Typed
  BY DataTyped DEF LogInv
<1>2. /\ role[i] = Leader /\ sendAppendEntriesToAll(i, disk[i], nextIndex[i])
      /\ UNCHANGED <<role, currentTerm, commitIndex, applied, matchIndex, disk,
                     voteRequests, voteReplies, decided>>
  BY DEF Heartbeat, volatile
<1>3. /\ Sound(G, K, currentTerm[i], disk[i], commitIndex[i], applied[i])
      /\ IsStore(disk[i]) /\ currentTerm[i] \in Nat /\ commitIndex[i] \in Index
      /\ applied[i] \in Seq(Entry) /\ \A t \in Nat : IsFull(G[t])
  BY <1>1, SoundReplica
<1>4. Leads(G, K, currentTerm[i], StoreLog(disk[i]), matchIndex[i])
  BY <1>2 DEF GInv
<1>5. \A j \in Peers(i) : nextIndex[i][j] \in Nat
  BY <1>1 DEF Typed
<1>6. \A c \in calls' : c \in calls \/ CallGood(G, K, c)
  BY <1>2, <1>3, <1>4, <1>5, SentGood
<1>7. \A c \in calls' : CallGood(G, K, c)
  BY <1>6 DEF GInv
<1> QED BY <1>2, <1>4, <1>7, LeaderQuietKeeps

\* The reply of a mismatch: the leader steps nextIndex back.
LEMMA ReplyRejectedKeeps ==
  ASSUME LogInv, DataInv', VoteStep, NEW G, NEW K, GInv(G, K), NEW r \in calls, ReplyRejected(r)
  PROVE  GInv(G, K)'
<1>1. Typed
  BY DataTyped DEF LogInv
<1>2. /\ UNCHANGED <<role, currentTerm, commitIndex, applied, matchIndex, disk,
                     voteRequests, voteReplies, decided>>
      /\ calls' \subseteq calls /\ r.caller \in Server
  BY <1>1 DEF ReplyRejected, Typed
<1>3. \A c \in calls' : CallGood(G, K, c)
  BY <1>2, CallsKept
<1>4. role[r.caller] = Leader =>
        Leads(G, K, currentTerm[r.caller], StoreLog(disk[r.caller]), matchIndex'[r.caller])
  BY <1>2 DEF GInv
<1> QED BY <1>2, <1>3, <1>4, LeaderQuietKeeps

\* A snapshot the peer answered for: the leader's own, or an earlier one that
\* ends before the entries of the leader's term.
LEMMA ReplyInstalledKeeps ==
  ASSUME LogInv, DataInv', VoteStep, NEW G, NEW K, GInv(G, K), NEW r \in calls, ReplyInstalled(r)
  PROVE  GInv(G, K)'
<1>1. Typed
  BY DataTyped DEF LogInv
<1> DEFINE i == r.caller
           c == r.lastIncludedIndex
           t == currentTerm[i]
           X == StoreLog(disk[i])
<1>2. /\ r.type = "SnapshotReply" /\ role[i] = Leader /\ r.term <= t
      /\ matchIndex' = [matchIndex EXCEPT ![i][r.peer] = c]
      /\ calls' \subseteq calls
      /\ UNCHANGED <<role, currentTerm, commitIndex, applied, disk,
                     voteRequests, voteReplies, decided>>
  BY DEF ReplyInstalled
<1>3. i \in Server /\ t \in Nat /\ r.term \in Nat /\ DOMAIN matchIndex[i] = Peers(i)
  BY <1>1 DEF Typed
<1>4. Leads(G, K, t, X, matchIndex[i])
  BY <1>2, <1>3 DEF GInv
<1>5. Led(G, t) /\ X = G[t]
  BY <1>4, LeadsIsLed DEF Leads
<1>6. ReplyGood(G, K, r)
  BY <1>2 DEF GInv, CallGood
<1>7. c \in Nat
  BY <1>6 DEF ReplyGood
<1>8. PICK V \in 0 .. r.term : /\ Fixed(G, K, G[V], c, V)
                               /\ V < r.term \/ <<r.peer, c, r.term>> \in K
  BY <1>6 DEF ReplyGood
<1>9. Core(G, K, currentTerm, Logs(disk)) /\ \A u \in Nat : IsFull(G[u])
  BY LogsAreFull DEF GInv
<1>10. c \in DOMAIN X /\ \A n \in 0 .. c : Has(X, n, t) => Acked(K, r.peer, n, t)
  <2>1. CASE V < t
    <3>1. V \in Nat /\ V <= t
      BY <1>3, <2>1
    <3>2. /\ Agrees(G[V], G[t], c)
          /\ \A k \in Nat : (V < t /\ Has(G[t], k, t)) => c < k
      BY <1>3, <1>5, <1>7, <1>8, <1>9, <3>1, FixedIsLeaders
    <3>3. \A n \in 0 .. c : ~Has(X, n, t)
      BY <1>5, <1>7, <2>1, <3>2
    <3> QED BY <1>5, <3>2, <3>3 DEF Agrees
  <2>2. CASE ~(V < t)
    <3>1. V = t /\ r.term = t /\ <<r.peer, c, t>> \in K
      BY <1>2, <1>3, <1>8, <2>2
    <3>2. c \in DOMAIN G[t]
      BY <1>8, <3>1 DEF Fixed, Agrees
    <3>3. \A n \in 0 .. c : Acked(K, r.peer, n, t)
      BY <1>7, <3>1 DEF Acked
    <3> QED BY <1>5, <3>2, <3>3
  <2> QED BY <2>1, <2>2
<1> HIDE DEF X, t, c, i
<1>11. Leads(G, K, t, X, matchIndex'[i])
  <2>1. /\ DOMAIN matchIndex'[i] = DOMAIN matchIndex[i]
        /\ \A j \in DOMAIN matchIndex[i] : j # r.peer => matchIndex'[i][j] = matchIndex[i][j]
        /\ r.peer \in DOMAIN matchIndex[i] => matchIndex'[i][r.peer] = c
    BY <1>1, <1>2, <1>3 DEF Typed
  <2> QED BY <1>4, <1>10, <2>1 DEF Leads
<1>12. \A k \in Server \ {i} : matchIndex'[k] = matchIndex[k]
  BY <1>1, <1>2 DEF Typed
<1>13. \A d \in calls' : CallGood(G, K, d)
  BY <1>2, CallsKept
<1>14. role[i] = Leader => Leads(G, K, currentTerm[i], StoreLog(disk[i]), matchIndex'[i])
  BY <1>11 DEF t, X
<1> QED BY <1>2, <1>3, <1>12, <1>13, <1>14, LeaderQuietKeeps

-----------------------------------------------------------------------------
(***************************************************************************)
(* The votes.                                                              *)
(***************************************************************************)

\* What the candidate's request says, the candidate's log is.
LEMMA VoteGood ==
  ASSUME NEW G, NEW K, NEW T, NEW L, Core(G, K, T, L), NEW j \in Server, NEW c \in Server,
         T[j] = T[c], ~Led(G, T[c]),
         NEW p, IsStore(p), NEW a \in Index, Shows(p, a, L[j]),
         NEW q, IsStore(q), NEW b \in Index, Shows(q, b, L[c]),
         NEW m, upToDate(p, m), m.lastLogIndex = lastIndex(q), m.lastLogTerm = lastTerm(q)
  PROVE  Cover(G, K, j, T[c], L[c])
<1>1. /\ lastIndex(p) = a /\ lastTerm(p) = IF a = -1 THEN -1 ELSE L[j][a].term
      /\ lastIndex(q) = b /\ lastTerm(q) = IF b = -1 THEN -1 ELSE L[c][b].term
  BY ShownLog
<1>2. L[j] \in [0 .. a -> Entry] /\ L[c] \in [0 .. b -> Entry]
  BY DEF Shows
<1>3. /\ a \in Int /\ a >= -1 /\ b \in Int /\ b >= -1
      /\ a >= 0 => L[j][a].term \in Nat
      /\ b >= 0 => L[c][b].term \in Nat
  <2>1. a \in Int /\ a >= -1 /\ b \in Int /\ b >= -1
    BY DEF Index
  <2>2. (a >= 0 => a \in 0 .. a) /\ (b >= 0 => b \in 0 .. b)
    BY <2>1
  <2>3. (a >= 0 => L[j][a] \in Entry) /\ (b >= 0 => L[c][b] \in Entry)
    BY <1>2, <2>2
  <2> QED BY <2>1, <2>3 DEF Entry
<1>4. ASSUME a >= 0
      PROVE  b >= 0 /\ \/ L[c][b].term > L[j][a].term
                       \/ L[c][b].term = L[j][a].term /\ b >= a
  <2>1. a # -1 /\ lastTerm(p) = L[j][a].term
    BY <1>1, <1>4
  <2>2. \/ lastTerm(q) > L[j][a].term
        \/ lastTerm(q) = L[j][a].term /\ b >= a
    BY <1>1, <2>1 DEF upToDate
  <2>3. b # -1
    <3> SUFFICES ASSUME b = -1 PROVE FALSE
      OBVIOUS
    <3>1. lastTerm(q) = -1
      BY <1>1
    <3> QED BY <1>3, <1>4, <2>2, <3>1
  <2>4. lastTerm(q) = L[c][b].term
    BY <1>1, <2>3
  <2> QED BY <1>3, <2>2, <2>3, <2>4
<1> QED BY <1>2, <1>4, VoteCovers

\* handleRequestVote: the voter covers a candidate it votes for.
LEMMA HandleRequestVoteKeeps ==
  ASSUME LogInv, DataInv', VoteStep, NEW G, NEW K, GInv(G, K), NEW m \in voteRequests,
         HandleRequestVote(m)
  PROVE  GInv(G, K)'
<1>1. Typed
  BY DataTyped DEF LogInv
<1> DEFINE j == m.dst
           c == m.src
           newer == m.term > currentTerm[j]
           u == Greater(currentTerm[j], m.term)
           vote == IF newer THEN Nil ELSE votedFor[j]
           granted == m.term >= currentTerm[j] /\ mayVote(vote, m.src) /\ upToDate(disk[j], m)
           v == [src |-> j, dst |-> c, ballot |-> m.term, term |-> u, granted |-> granted]
           w == votedFor'[j]
<1>2. /\ granted \in BOOLEAN
      /\ role' = IF newer THEN [role EXCEPT ![j] = Follower] ELSE role
      /\ currentTerm' = [currentTerm EXCEPT ![j] = u]
      /\ disk' = IF newer \/ granted
                 THEN [disk EXCEPT ![j] = saveTermAndVote(disk[j], u, w)] ELSE disk
      /\ granted => m.term >= currentTerm[j] /\ upToDate(disk[j], m)
      /\ v = [src |-> j, dst |-> c, ballot |-> m.term, term |-> u, granted |-> granted]
      /\ \A x \in voteReplies' : x \in voteReplies \/ x = v
      /\ voteRequests' \subseteq voteRequests
      /\ UNCHANGED <<commitIndex, matchIndex, applied, calls, decided>>
  <2>1. granted \in BOOLEAN
    OBVIOUS
  <2>2. role' = IF newer THEN [role EXCEPT ![j] = Follower] ELSE role
    BY DEF HandleRequestVote
  <2>3. currentTerm' = [currentTerm EXCEPT ![j] = u]
    BY DEF HandleRequestVote
  <2>4. disk' = IF newer \/ granted
                THEN [disk EXCEPT ![j] = saveTermAndVote(disk[j], u, w)] ELSE disk
    BY DEF HandleRequestVote
  <2>5. voteReplies' = IF granted \/ u > m.term THEN voteReplies \cup {v} ELSE voteReplies
    BY DEF HandleRequestVote
  <2>6. /\ voteRequests' \subseteq voteRequests
        /\ UNCHANGED <<commitIndex, matchIndex, applied, calls, decided>>
    BY DEF HandleRequestVote
  <2>7. granted => m.term >= currentTerm[j] /\ upToDate(disk[j], m)
    OBVIOUS
  <2>8. \A x \in voteReplies' : x \in voteReplies \/ x = v
    <3> HIDE DEF v, granted
    <3> QED BY <2>5
  <2>9. v = [src |-> j, dst |-> c, ballot |-> m.term, term |-> u, granted |-> granted]
    OBVIOUS
  <2> HIDE DEF v, granted, vote, w
  <2> QED BY <2>1, <2>2, <2>3, <2>4, <2>6, <2>7, <2>8, <2>9
<1> HIDE DEF v, granted, vote, w
<1>3. /\ j \in Server /\ c \in Server /\ m.term \in Nat /\ currentTerm[j] \in Nat
      /\ IsStore(disk[j])
  BY <1>1 DEF Typed
<1>4. /\ u \in Nat /\ u >= currentTerm[j] /\ u >= m.term
      /\ newer => u > currentTerm[j]
      /\ ~newer => u = currentTerm[j]
      /\ granted => u = m.term
  BY <1>2, <1>3 DEF Greater
<1>5. currentTerm'[j] = u /\ \A k \in Server \ {j} : currentTerm'[k] = currentTerm[k]
  BY <1>1, <1>2, <1>3 DEF Typed
<1>6. /\ newer => role'[j] = Follower
      /\ ~newer => role'[j] = role[j]
      /\ \A k \in Server \ {j} : role'[k] = role[k]
  BY <1>1, <1>2, <1>3 DEF Typed
<1>7. /\ disk'[j] = disk[j] \/ disk'[j] = saveTermAndVote(disk[j], u, w)
      /\ \A k \in Server \ {j} : disk'[k] = disk[k]
  BY <1>1, <1>2, <1>3 DEF Typed
<1> HIDE DEF newer, u
<1>8. Moved(j)
  BY <1>2, <1>5, <1>6, <1>7 DEF Moved, Unmoved
<1>9. /\ disk'[j].log = disk[j].log /\ disk'[j].lastSnapshotIndex = disk[j].lastSnapshotIndex
      /\ disk'[j].lastSnapshotTerm = disk[j].lastSnapshotTerm
      /\ disk'[j].snapshot = disk[j].snapshot
      /\ StoreLog(disk'[j]) = StoreLog(disk[j])
      /\ lastIndex(disk'[j]) = lastIndex(disk[j]) /\ lastTerm(disk'[j]) = lastTerm(disk[j])
  BY <1>3, <1>7, VoteWritten
<1>10. Sound(G, K, currentTerm[j], disk'[j], commitIndex'[j], applied'[j])
  <2>1. Sound(G, K, currentTerm[j], disk[j], commitIndex[j], applied[j])
    BY <1>1, <1>3, SoundReplica
  <2>2. Sound(G, K, currentTerm[j], disk'[j], commitIndex[j], applied[j])
    BY <1>9, <2>1, VoteWriteSound
  <2> QED BY <1>2, <2>2
<1>11. Goes(currentTerm[j], role[j], disk[j], currentTerm'[j], role'[j], disk'[j])
  BY <1>4, <1>5, <1>6, <1>9 DEF Goes
<1>12. ASSUME role'[j] = Leader
       PROVE  Leads(G, K, currentTerm'[j], StoreLog(disk'[j]), matchIndex'[j])
  <2>1. ~newer
    BY <1>6, <1>12 DEF Follower, Leader
  <2>2. role[j] = Leader /\ currentTerm'[j] = currentTerm[j]
    BY <1>4, <1>5, <1>6, <1>12, <2>1
  <2>3. Leads(G, K, currentTerm[j], StoreLog(disk[j]), matchIndex[j])
    BY <1>3, <2>2 DEF GInv
  <2> QED BY <1>2, <1>9, <2>2, <2>3
<1>13. \A d \in calls' : CallGood(G, K, d)
  BY <1>2, CallsKept
<1>14. \A k \in Server : /\ StoreLog(disk'[k]) = StoreLog(disk[k]) /\ IsStore(disk'[k])
                         /\ currentTerm[k] \in Nat /\ currentTerm'[k] \in Nat
                         /\ currentTerm'[k] >= currentTerm[k]
  <2> SUFFICES ASSUME NEW k \in Server
               PROVE  /\ StoreLog(disk'[k]) = StoreLog(disk[k]) /\ IsStore(disk'[k])
                      /\ currentTerm[k] \in Nat /\ currentTerm'[k] \in Nat
                      /\ currentTerm'[k] >= currentTerm[k]
    OBVIOUS
  <2>1. currentTerm[k] \in Nat
    BY <1>1 DEF Typed
  <2>2. IsStore(disk'[k])
    BY DEF DataInv, DataOK, StoresOK
  <2>3. CASE k = j
    BY <1>4, <1>5, <1>9, <2>1, <2>2, <2>3
  <2>4. CASE k # j
    BY <1>5, <1>7, <2>1, <2>2, <2>4
  <2> QED BY <2>3, <2>4
<1>15. AskGood(m, currentTerm'[c], role'[c], disk'[c])
  <2>1. AskGood(m, currentTerm[c], role[c], disk[c])
    BY DEF GInv
  <2>2. Goes(currentTerm[c], role[c], disk[c], currentTerm'[c], role'[c], disk'[c])
    BY <1>3, <1>5, <1>6, <1>7, <1>11 DEF Goes
  <2> QED BY <1>3, <1>14, <2>1, <2>2, AskGoodKept
<1>16. GrantGood(G, K, v, currentTerm'[v.dst], role'[v.dst], StoreLog(disk'[v.dst]))
  <2>1. v.src = j /\ v.dst = c /\ v.ballot = m.term /\ v.granted = granted
    BY <1>2
  <2>2. m.term <= currentTerm'[c]
    BY <1>15 DEF AskGood
  <2>3. ASSUME granted, role'[c] = Candidate, currentTerm'[c] = m.term, ~Led(G, currentTerm'[c])
        PROVE  Cover(G, K, j, currentTerm'[c], StoreLog(disk'[c]))
    <3>1. m.lastLogIndex = lastIndex(disk'[c]) /\ m.lastLogTerm = lastTerm(disk'[c])
      BY <1>15, <2>3 DEF AskGood
    <3>2. Core(G, K, currentTerm', Logs(disk))
      BY TermsGrown
    <3>3. Logs(disk)[j] = StoreLog(disk[j]) /\ Logs(disk)[c] = StoreLog(disk'[c])
      BY <1>3, <1>14 DEF Logs
    <3>4. PICK a \in Index : Shows(disk[j], a, StoreLog(disk[j]))
      BY <1>1, <1>3, SoundReplica
    <3>5. PICK d \in Index : Shows(disk'[c], d, StoreLog(disk'[c]))
      <4>1. PICK d \in Index : Shows(disk[c], d, StoreLog(disk[c]))
        BY <1>1, <1>3, SoundReplica
      <4>2. CASE c = j
        <5>1. Shows(disk'[c], d, StoreLog(disk[c]))
          BY <1>9, <4>1, <4>2, SaveTermShows
        <5> QED BY <1>3, <1>14, <5>1
      <4>3. CASE c # j
        BY <1>3, <1>7, <4>1, <4>3
      <4> QED BY <4>2, <4>3
    <3>6. IsStore(disk'[c])
      BY <1>3, <1>14
    <3>7. currentTerm'[j] = currentTerm'[c]
      BY <1>4, <1>5, <2>3
    <3>8. upToDate(disk[j], m)
      BY <1>2, <2>3
    <3>9. Cover(G, K, j, currentTerm'[c], Logs(disk)[c])
      BY <1>3, <2>3, <3>1, <3>2, <3>3, <3>4, <3>5, <3>6, <3>7, <3>8, VoteGood
    <3> QED BY <3>3, <3>9
  <2> QED BY <2>1, <2>2, <2>3 DEF GrantGood
<1> QED BY <1>2, <1>3, <1>8, <1>9, <1>10, <1>11, <1>12, <1>13, <1>16, QuietKeeps

-----------------------------------------------------------------------------
(***************************************************************************)
(* The steps by which a leader's log grows.                                *)
(***************************************************************************)

\* A log agrees with itself before one more entry.
LEMMA LongerAgrees ==
  ASSUME NEW b \in Index, NEW X \in [0 .. b -> Entry], NEW e \in Entry, NEW c \in 0 .. b
  PROVE  Agrees(Longer(X, b, e), X, c)
<1>1. /\ DOMAIN X = 0 .. b /\ DOMAIN Longer(X, b, e) = 0 .. b + 1
      /\ \A n \in 0 .. b : n \in DOMAIN Longer(X, b, e) /\ Longer(X, b, e)[n] = X[n]
      /\ b \in Int
  BY LongerIsFull
<1>2. 0 .. c \subseteq 0 .. b
  BY <1>1
<1> QED BY <1>1, <1>2 DEF Agrees

\* The logs after a step that writes one store.
LEMMA LogsWrittenNext ==
  ASSUME DOMAIN disk = Server, NEW i \in Server, NEW q, disk' = [disk EXCEPT ![i] = q]
  PROVE  Logs(disk') = [Logs(disk) EXCEPT ![i] = StoreLog(q)]
<1>1. \A k \in Server : StoreLog(disk'[k]) = IF k = i THEN StoreLog(q) ELSE StoreLog(disk[k])
  OBVIOUS
<1>2. Logs(disk') = [k \in Server |-> IF k = i THEN StoreLog(q) ELSE StoreLog(disk[k])]
  BY <1>1 DEF Logs
<1>3. [Logs(disk) EXCEPT ![i] = StoreLog(q)] = [k \in Server |-> IF k = i THEN StoreLog(q) ELSE StoreLog(disk[k])]
  BY DEF Logs
<1> QED BY <1>2, <1>3

\* The log of a leader or of a candidate that won, one entry longer.
LEMMA AppendSound ==
  ASSUME NEW G, NEW K, \A t \in Nat : IsFull(G[t]), NEW H, LogsGrow(G, H), NEW t \in Nat,
         NEW p, IsStore(p), NEW c \in Index, NEW app \in Seq(Entry), Sound(G, K, t, p, c, app),
         NEW op \in Stroke \cup {Noop}, NEW b \in Index, Shows(p, b, StoreLog(p)),
         NEW q, q = appendLocal(p, t, op)
  PROVE  /\ Sound(H, K, t, q, c, app)
         /\ StoreLog(q) = Longer(StoreLog(p), b, [term |-> t, op |-> op])
<1> DEFINE X == StoreLog(p)
           e == [term |-> t, op |-> op]
           Y == Longer(X, b, e)
<1>1. Shows(q, b + 1, Y)
  BY AppendLocalShows
<1>2. IsStore(q)
  BY AppendLocalKeepsStore
<1>3. StoreLog(q) = Y
  BY <1>1, <1>2, ShownLog
<1>4. q.lastSnapshotIndex = p.lastSnapshotIndex
  BY DEF appendLocal, appendEntries, IsStore
<1>5. X \in [0 .. b -> Entry] /\ e \in Entry /\ c <= b /\ b \in Int /\ c \in Int
  <2>1. c <= b
    BY CommitInLog
  <2> QED BY <2>1 DEF Shows, Entry, Index
<1> HIDE DEF X, e
<1>6. \A n \in 0 .. b : Y[n] = X[n]
  BY <1>5, LongerIsFull
<1>7. ASSUME c >= 0 PROVE Fixed(H, K, Y, c, t)
  <2>1. c \in Nat /\ c \in 0 .. b /\ Fixed(G, K, X, c, t)
    BY <1>5, <1>7 DEF Sound, X
  <2>2. Agrees(Y, X, c)
    BY <1>5, <2>1, LongerAgrees
  <2> QED BY <2>1, <2>2, FixedKept
<1>8. \A n \in 1 .. Len(app) : app[n] = Y[n - 1]
  <2> SUFFICES ASSUME NEW n \in 1 .. Len(app) PROVE app[n] = Y[n - 1]
    OBVIOUS
  <2>1. Len(app) - 1 <= c /\ Len(app) \in Nat
    BY DEF Sound
  <2>2. n - 1 \in 0 .. b
    BY <1>5, <2>1
  <2> QED BY <1>6, <2>2 DEF Sound, X
<1> HIDE DEF Y
<1>9. Len(app) - 1 <= c /\ q.lastSnapshotIndex <= Len(app) - 1
  BY <1>4 DEF Sound
<1>10. Sound(H, K, t, q, c, app)
  BY <1>1, <1>3, <1>7, <1>8, <1>9 DEF Sound
<1> QED BY <1>3, <1>10 DEF Y, X, e

\* The leader of the longer log leads, its matchIndex kept or reset.
LEMMA AppendLeads ==
  ASSUME NEW G, NEW K, NEW H, NEW t \in Nat, NEW b \in Index, NEW X \in [0 .. b -> Entry],
         NEW e \in Entry, e.term = t, H[t] = Longer(X, b, e),
         NEW match, \/ \A j \in DOMAIN match : match[j] = -1
                    \/ Leads(G, K, t, X, match)
  PROVE  Leads(H, K, t, H[t], match)
<1> DEFINE Y == Longer(X, b, e)
<1>1. /\ DOMAIN X = 0 .. b /\ DOMAIN Y = 0 .. b + 1
      /\ \A n \in 0 .. b : n \in DOMAIN Y /\ Y[n] = X[n]
      /\ b \in Int /\ b + 1 \in Nat /\ Y[b + 1] = e
  BY LongerIsFull
<1> HIDE DEF Y
<1>2. \E d \in Nat : DOMAIN Y = 0 .. d /\ Has(Y, d, t)
  <2>1. b + 1 \in 0 .. b + 1
    BY <1>1
  <2> QED BY <1>1, <2>1 DEF Has
<1>3. ASSUME NEW j \in DOMAIN match
      PROVE  /\ match[j] \in DOMAIN Y \cup {-1}
             /\ \A n \in 0 .. match[j] : Has(Y, n, t) => Acked(K, j, n, t)
  <2>1. CASE match[j] = -1
    BY <2>1
  <2>2. CASE match[j] # -1
    <3>1. /\ match[j] \in 0 .. b
          /\ \A n \in 0 .. match[j] : Has(X, n, t) => Acked(K, j, n, t)
      BY <1>1, <2>2 DEF Leads
    <3>2. \A n \in 0 .. match[j] : n \in 0 .. b
      BY <1>1, <3>1
    <3> QED BY <1>1, <3>1, <3>2 DEF Has
  <2> QED BY <2>1, <2>2
<1> QED BY <1>2, <1>3 DEF Leads, Y

\* The ghosts grow by what the leader appends.
LEMMA AppendGhosts ==
  ASSUME NEW G, NEW K, NEW T, NEW L, Core(G, K, T, L), DOMAIN G = Nat, DOMAIN L = Server,
         NEW i \in Server, NEW t \in Nat, t = T[i], NEW p, IsStore(p), L[i] = StoreLog(p),
         NEW c \in Index, NEW app \in Seq(Entry), Sound(G, K, t, p, c, app),
         NEW op \in Stroke \cup {Noop}, NEW q, q = appendLocal(p, t, op),
         Endorsed(G, K, T, t, StoreLog(p)), Led(G, t) => G[t] = StoreLog(p),
         NEW match, \/ \A j \in DOMAIN match : match[j] = -1
                    \/ Leads(G, K, t, StoreLog(p), match)
  PROVE  \E H : /\ DOMAIN H = Nat /\ LogsGrow(G, H) /\ \A u \in Nat \ {t} : H[u] = G[u]
                /\ Core(H, K, T, [L EXCEPT ![i] = StoreLog(q)])
                /\ Sound(H, K, t, q, c, app) /\ Leads(H, K, t, StoreLog(q), match)
<1> DEFINE X == StoreLog(p)
           e == [term |-> t, op |-> op]
<1>1. \A u \in Nat : IsFull(G[u])
  BY LogsAreFull
<1>2. PICK b \in Index : Shows(p, b, X)
  <2>1. PICK b, Z : Shows(p, b, Z)
    BY DEF Sound
  <2>2. X = Z
    BY <2>1, ShownLog
  <2>3. b \in Index
    BY <2>1 DEF Shows
  <2> QED BY <2>1, <2>2, <2>3
<1>3. X \in [0 .. b -> Entry] /\ e \in Entry /\ e.term = t
  BY <1>2 DEF Shows, Entry
<1> DEFINE Y == Longer(X, b, e)
           H == [G EXCEPT ![t] = Y]
<1>4. H[t] = Y /\ DOMAIN H = Nat /\ \A u \in Nat \ {t} : H[u] = G[u]
  OBVIOUS
<1>5. Core(H, K, T, [L EXCEPT ![i] = Y]) /\ LogsGrow(G, H)
  <2> DEFINE Z == Longer(L[i], b, e)
  <2> HIDE DEF e
  <2>1. L[i] \in [0 .. b -> Entry] /\ e.term = T[i] /\ Endorsed(G, K, T, T[i], L[i])
    BY <1>3
  <2>2. Led(G, T[i]) => G[T[i]] = L[i]
    OBVIOUS
  <2>3. /\ Core([G EXCEPT ![T[i]] = Z], K, T, [L EXCEPT ![i] = Z])
        /\ LogsGrow(G, [G EXCEPT ![T[i]] = Z])
    BY <1>3, <2>1, <2>2, AppendKeepsCore
  <2> QED BY <2>3
<1> HIDE DEF H
<1>6. Sound(H, K, t, q, c, app) /\ StoreLog(q) = Y
  BY <1>1, <1>2, <1>5, AppendSound
<1>7. Leads(H, K, t, H[t], match)
  <2>1. H[t] = Longer(X, b, e)
    BY <1>4
  <2> HIDE DEF e, X, Y
  <2>2. \/ \A j \in DOMAIN match : match[j] = -1
        \/ Leads(G, K, t, X, match)
    BY DEF X
  <2> QED BY <1>3, <2>1, <2>2, AppendLeads
<1> HIDE DEF Y
<1> QED BY <1>4, <1>5, <1>6, <1>7

\* _appendLocal and the requests after it, in submit and _becomeLeader.
LEMMA AppendKeeps ==
  ASSUME LogInv, DataInv', VoteStep, NEW G, NEW K, GInv(G, K), NEW i \in Server,
         NEW op \in Stroke \cup {Noop}, NEW q, q = appendLocal(disk[i], currentTerm[i], op),
         disk' = [disk EXCEPT ![i] = q],
         UNCHANGED <<currentTerm, commitIndex, applied, voteRequests, voteReplies, decided>>,
         role'[i] = Leader,
         \A k \in Server \ {i} : role'[k] = role[k] /\ matchIndex'[k] = matchIndex[k],
         NEW next, \A j \in Peers(i) : next[j] \in Nat, sendAppendEntriesToAll(i, q, next),
         Endorsed(G, K, currentTerm, currentTerm[i], StoreLog(disk[i])),
         Led(G, currentTerm[i]) => G[currentTerm[i]] = StoreLog(disk[i]),
         \/ \A j \in DOMAIN matchIndex'[i] : matchIndex'[i][j] = -1
         \/ Leads(G, K, currentTerm[i], StoreLog(disk[i]), matchIndex'[i])
  PROVE  \E H : GInv(H, K)'
<1>1. Typed
  BY DataTyped DEF LogInv
<1> DEFINE t == currentTerm[i]
<1>2. /\ Sound(G, K, t, disk[i], commitIndex[i], applied[i])
      /\ IsStore(disk[i]) /\ t \in Nat /\ commitIndex[i] \in Index
      /\ applied[i] \in Seq(Entry)
      /\ DOMAIN Logs(disk) = Server /\ Logs(disk)[i] = StoreLog(disk[i])
  BY <1>1, SoundReplica
<1>3. DOMAIN G = Nat /\ Core(G, K, currentTerm, Logs(disk))
  BY DEF GInv
<1>4. PICK H : /\ DOMAIN H = Nat /\ LogsGrow(G, H) /\ \A u \in Nat \ {t} : H[u] = G[u]
               /\ Core(H, K, currentTerm, [Logs(disk) EXCEPT ![i] = StoreLog(q)])
               /\ Sound(H, K, t, q, commitIndex[i], applied[i])
               /\ Leads(H, K, t, StoreLog(q), matchIndex'[i])
  BY <1>2, <1>3, AppendGhosts
<1>5. disk'[i] = q /\ Moved(i) /\ DOMAIN disk = Server
  BY <1>1 DEF Moved, Unmoved, Typed
<1>6. Core(H, K, currentTerm', Logs(disk'))
  <2>1. Logs(disk') = [Logs(disk) EXCEPT ![i] = StoreLog(q)]
    BY <1>5, LogsWrittenNext
  <2> QED BY <1>4, <2>1
<1>7. \A c \in calls' : CallGood(H, K, c)
  <2>1. \A c \in calls : CallGood(H, K, c)
    BY <1>1, <1>4, OldCallsGood
  <2>2. IsStore(q)
    BY <1>2, AppendLocalKeepsStore
  <2>3. \A u \in Nat : IsFull(H[u])
    BY <1>4, LogsAreFull
  <2>4. \A c \in calls' : c \in calls \/ CallGood(H, K, c)
    BY <1>2, <1>4, <2>2, <2>3, SentGood
  <2> QED BY <2>1, <2>4
<1>8. LeadersOwn'
  BY LeaderOwnsNext DEF DataInv
<1>9. \A k \in Server \ {i} : role[k] = Leader => H[currentTerm[k]] = G[currentTerm[k]]
  <2> SUFFICES ASSUME NEW k \in Server, k # i, role[k] = Leader
               PROVE  H[currentTerm[k]] = G[currentTerm[k]]
    OBVIOUS
  <2>1. role'[k] = Leader /\ currentTerm'[k] = currentTerm[k] /\ currentTerm'[i] = t
    OBVIOUS
  <2>2. currentTerm[k] # t
    BY <1>8, <2>1 DEF LeadersOwn
  <2>3. currentTerm[k] \in Nat
    BY <1>1 DEF Typed
  <2> QED BY <1>4, <2>2, <2>3
<1>10. \A u \in Nat : Led(H, u) => Led(G, u) \/ \E l \in Server : Owner(l, u)'
  <2> SUFFICES ASSUME NEW u \in Nat, Led(H, u), u = t PROVE \E l \in Server : Owner(l, u)'
    BY <1>4 DEF Led
  <2>1. Owner(i, currentTerm[i])'
    BY <1>8 DEF LeadersOwn
  <2>2. currentTerm'[i] = u
    OBVIOUS
  <2>3. Owner(i, u)'
    BY <2>1, <2>2
  <2> QED BY <2>3
<1>11. /\ Sound(H, K, currentTerm'[i], disk'[i], commitIndex'[i], applied'[i])
       /\ Leads(H, K, currentTerm'[i], StoreLog(disk'[i]), matchIndex'[i])
       /\ Goes(currentTerm[i], role[i], disk[i], currentTerm'[i], role'[i], disk'[i])
       /\ \A k \in Server \ {i} : Unmoved(k)
  BY <1>4, <1>5 DEF Goes, Leader, Candidate, Moved
<1>12. /\ voteRequests' = voteRequests /\ voteReplies' = voteReplies /\ decided' = decided
       /\ MoreAcks(K, K, currentTerm)
  BY MoreAcksRefl
<1> HIDE DEF t
<1>13. GInv(H, K)'
  BY <1>4, <1>6, <1>7, <1>9, <1>10, <1>11, <1>12, StepKeeps
<1> QED BY <1>13

\* submit.
LEMMA SubmitKeeps ==
  ASSUME LogInv, DataInv', VoteStep, NEW G, NEW K, GInv(G, K), NEW i \in Server,
         NEW s \in Stroke, Submit(i, s)
  PROVE  \E H : GInv(H, K)'
<1>1. Typed
  BY DataTyped DEF LogInv
<1> DEFINE q == appendLocal(disk[i], currentTerm[i], s)
<1>2. /\ role[i] = Leader /\ disk' = [disk EXCEPT ![i] = q]
      /\ sendAppendEntriesToAll(i, q, nextIndex[i])
      /\ UNCHANGED <<role, matchIndex, currentTerm, commitIndex, applied,
                     voteRequests, voteReplies, decided>>
  BY DEF Submit, volatile
<1> HIDE DEF q
<1>3. Leads(G, K, currentTerm[i], StoreLog(disk[i]), matchIndex[i])
  BY <1>2 DEF GInv
<1>4. Led(G, currentTerm[i]) /\ G[currentTerm[i]] = StoreLog(disk[i])
  BY <1>3, LeadsIsLed DEF Leads
<1>5. Endorsed(G, K, currentTerm, currentTerm[i], StoreLog(disk[i]))
  <2>1. currentTerm[i] \in Nat
    BY <1>1 DEF Typed
  <2> QED BY <1>4, <2>1 DEF GInv, Core
<1>6. \A j \in Peers(i) : nextIndex[i][j] \in Nat
  BY <1>1 DEF Typed
<1> QED BY <1>2, <1>3, <1>4, <1>5, <1>6, AppendKeeps DEF q

\* _becomeLeader: the voters endorse the candidate's log.
LEMMA VotersEndorse ==
  ASSUME LogInv, NEW G, NEW K, GInv(G, K), NEW i \in Server, role[i] = Candidate,
         Cardinality(Voters(i)) >= Majority, ~Led(G, currentTerm[i])
  PROVE  Endorsed(G, K, currentTerm, currentTerm[i], StoreLog(disk[i]))
<1> DEFINE U == currentTerm[i]
           X == StoreLog(disk[i])
<1>1. Typed
  BY DataTyped DEF LogInv
<1>2. U \in Nat
  BY <1>1 DEF Typed
<1>3. Cover(G, K, i, U, X)
  <2>1. Cover(G, K, i, U + 1, X)
    BY LogsWritten, <1>1 DEF GInv, Core, Typed
  <2> SUFFICES ASSUME NEW t \in Nat, NEW n \in Nat, t < U, Acked(K, i, n, t), Has(G[t], n, t),
                      Carried(G, n, t, U)
               PROVE  Has(X, n, t)
    BY DEF Cover
  <2>2. Carried(G, n, t, U + 1)
    <3> SUFFICES ASSUME NEW u \in Nat, t < u, u < U + 1, Led(G, u) PROVE Has(G[u], n, t)
      BY DEF Carried
    <3>1. u # U
      OBVIOUS
    <3>2. u < U
      BY <1>2, <3>1
    <3> QED BY <3>2 DEF Carried
  <2>3. t < U + 1
    BY <1>2
  <2> QED BY <2>1, <2>2, <2>3 DEF Cover
<1>4. Voters(i) \in SUBSET Server
  BY DEF Voters, LogInv, DataInv, ElectionInv, TypesOK, MessagesOK
<1>5. \A j \in Voters(i) : currentTerm[j] >= U /\ Cover(G, K, j, U, X)
  <2> SUFFICES ASSUME NEW j \in Voters(i), j # i
               PROVE  currentTerm[j] >= U /\ Cover(G, K, j, U, X)
    BY <1>2, <1>3
  <2>1. PICK v \in voteReplies : v.dst = i /\ v.ballot = U /\ v.granted /\ v.src = j
    BY DEF Voters
  <2>2. GrantGood(G, K, v, currentTerm[i], role[i], StoreLog(disk[i]))
    BY <2>1 DEF GInv
  <2>3. Cover(G, K, j, U, X)
    BY <2>1, <2>2 DEF GrantGood
  <2>4. currentTerm[j] >= U
    BY <1>1, <1>2, <1>4, <2>1 DEF LogInv, DataInv, ElectionInv, GrantsOK, Typed
  <2> QED BY <2>3, <2>4
<1> QED BY <1>4, <1>5 DEF Endorsed, IsQuorum

\* _becomeLeader: the log of the term is the candidate's with the NOOP.
LEMMA ElectionWonKeeps ==
  ASSUME LogInv, DataInv', VoteStep, NEW G, NEW K, GInv(G, K), NEW i \in Server, ElectionWon(i)
  PROVE  \E H : GInv(H, K)'
<1>1. Typed
  BY DataTyped DEF LogInv
<1> DEFINE q == appendLocal(disk[i], currentTerm[i], Noop)
           next == [j \in Peers(i) |-> lastIndex(disk[i]) + 1]
<1>2. /\ role[i] = Candidate /\ Cardinality(Voters(i)) >= Majority
      /\ role' = [role EXCEPT ![i] = Leader]
      /\ matchIndex' = [matchIndex EXCEPT ![i] = [j \in Peers(i) |-> -1]]
      /\ disk' = [disk EXCEPT ![i] = q]
      /\ sendAppendEntriesToAll(i, q, next)
      /\ UNCHANGED <<currentTerm, commitIndex, applied, voteRequests, voteReplies, decided>>
  BY DEF ElectionWon
<1>3. ~Led(G, currentTerm[i])
  <2> SUFFICES ASSUME Led(G, currentTerm[i]) PROVE FALSE
    OBVIOUS
  <2>1. currentTerm[i] \in Nat
    BY <1>1 DEF Typed
  <2>2. PICK l \in Server : Owner(l, currentTerm[i])
    BY <2>1 DEF GInv
  <2> QED BY <1>2, <2>2, CandidateOwnsNothing DEF LogInv, DataInv
<1>4. Endorsed(G, K, currentTerm, currentTerm[i], StoreLog(disk[i]))
  BY <1>2, <1>3, VotersEndorse
<1>5. \A j \in Peers(i) : next[j] \in Nat
  <2>1. lastIndex(disk[i]) \in Index
    BY <1>1, LastIndexBounds DEF Typed
  <2> QED BY <2>1 DEF Index
<1> HIDE DEF q, next
<1>6. /\ role'[i] = Leader
      /\ \A k \in Server \ {i} : role'[k] = role[k] /\ matchIndex'[k] = matchIndex[k]
      /\ \A j \in DOMAIN matchIndex'[i] : matchIndex'[i][j] = -1
  BY <1>1, <1>2 DEF Typed
<1> QED BY <1>2, <1>3, <1>4, <1>5, <1>6, AppendKeeps DEF q

-----------------------------------------------------------------------------
(***************************************************************************)
(* The leader's commit index.                                              *)
(***************************************************************************)

\* A row of the leader's own term that it and enough peers have is chosen.
LEMMA CountedIsFixed ==
  ASSUME NEW G, NEW J, NEW t \in Nat, NEW X, NEW i \in Server, NEW match,
         DOMAIN match = Peers(i), \A j \in Peers(i) : match[j] \in Index,
         Leads(G, J, t, X, match), NEW n \in Nat, Has(X, n, t), Acked(J, i, n, t),
         1 + Cardinality({j \in Peers(i) : match[j] >= n}) >= Majority
  PROVE  Fixed(G, J, X, n, t)
<1> DEFINE P == {j \in Peers(i) : match[j] >= n}
           Q == P \cup {i}
<1>1. IsFiniteSet(P) /\ i \notin P /\ Q \in SUBSET Server
  <2>1. P \subseteq Server /\ i \notin P
    BY DEF Peers
  <2> QED BY <2>1, FS_Subset, ServerAssumption
<1>2. Cardinality(Q) = Cardinality(P) + 1 /\ Cardinality(P) \in Nat
  BY <1>1, FS_AddElement, FS_CardinalityType
<1>3. IsQuorum(Q)
  BY <1>1, <1>2 DEF IsQuorum, Majority
<1>4. \A j \in Q : Acked(J, j, n, t)
  <2> SUFFICES ASSUME NEW j \in P PROVE Acked(J, j, n, t)
    OBVIOUS
  <2>1. n \in 0 .. match[j] /\ j \in DOMAIN match
    BY DEF Index
  <2> QED BY <2>1 DEF Leads
<1> HIDE DEF P, Q
<1>5. X = G[t] /\ n \in DOMAIN X
  BY DEF Leads, Has
<1>6. Chosen(G, J, n, t)
  BY <1>1, <1>3, <1>4, <1>5 DEF Chosen
<1>7. Agrees(X, G[t], n)
  BY <1>5 DEF Agrees
<1> QED BY <1>6, <1>7 DEF Fixed

\* The conditions of _maybeAdvanceCommitIndex on an index n.
Counted(i, match, n) ==
  /\ n \in Nat /\ n \in Rows(disk[i]) /\ disk[i].log[n].term = currentTerm[i]
  /\ 1 + Cardinality({j \in Peers(i) : match[j] >= n}) >= Majority

\* The index _maybeAdvanceCommitIndex finds.
LEMMA AdvanceIsCounted ==
  ASSUME StoresOK, NEW i \in Server, commitIndex[i] \in Index, NEW match,
         NEW n, n = maybeAdvanceCommitIndex(i, match), n > commitIndex[i]
  PROVE  Counted(i, match, n)
<1> DEFINE agreed == {k \in Rows(disk[i]) :
                        /\ k > commitIndex[i]
                        /\ disk[i].log[k].term = currentTerm[i]
                        /\ 1 + Cardinality({j \in Peers(i) : match[j] >= k}) >= Majority}
<1>1. /\ \A k \in Rows(disk[i]) : k \in Nat
      /\ \E b \in Int : \A k \in Rows(disk[i]) : k <= b
  BY DEF StoresOK, IsStore, IsLog, Rows
<1>2. n = IF agreed = {} THEN -1 ELSE Max(agreed)
  BY DEF maybeAdvanceCommitIndex
<1>3. agreed # {}
  BY <1>2 DEF Index
<1>4. n \in agreed
  <2>1. \A k \in agreed : k \in Rows(disk[i])
    OBVIOUS
  <2> HIDE DEF agreed
  <2>2. PICK b \in Int : \A k \in Rows(disk[i]) : k <= b
    BY <1>1
  <2>3. \A k \in agreed : k \in Int /\ k <= b
    BY <1>1, <2>1, <2>2
  <2>4. Max(agreed) \in agreed
    BY <1>3, <2>3, MaxOfBounded
  <2> QED BY <1>2, <1>3, <2>4
<1> QED BY <1>1, <1>4 DEF Counted

\* A row of the store is an entry of its log.
LEMMA RowInLog ==
  ASSUME NEW p, IsStore(p), NEW b, Shows(p, b, StoreLog(p)), NEW n \in Rows(p)
  PROVE  n \in 0 .. b /\ Has(StoreLog(p), n, p.log[n].term)
<1>1. /\ Rows(p) = firstIndex(p) .. b
      /\ firstIndex(p) \in 0 .. p.lastSnapshotIndex + 1
  BY ShownLog
<1>2. /\ b \in Int /\ p.lastSnapshotIndex \in Int /\ DOMAIN StoreLog(p) = 0 .. b
  BY ShowsBounds
<1>3. p.log[n] = StoreLog(p)[n]
  BY DEF Shows
<1>4. n \in 0 .. b
  BY <1>1, <1>2
<1> QED BY <1>2, <1>3, <1>4 DEF Has

\* A leader that counts what it and its peers have.
LEMMA LeaderCounts ==
  ASSUME LogInv, VoteStep, NEW G, NEW K, GInv(G, K), NEW r \in calls,
         r.type = "AppendReply", r.success, role[r.caller] = Leader,
         r.term = currentTerm[r.caller], currentTerm' = currentTerm,
         NEW match, match = [matchIndex[r.caller] EXCEPT ![r.peer] = r.newMatch]
  PROVE  \E J : /\ Core(G, J, currentTerm', Logs(disk)) /\ MoreAcks(K, J, currentTerm)
                /\ Leads(G, J, currentTerm[r.caller], StoreLog(disk[r.caller]), match)
                /\ LET n == maybeAdvanceCommitIndex(r.caller, match)
                   IN  n > commitIndex[r.caller] =>
                         n \in Nat /\ Fixed(G, J, StoreLog(disk[r.caller]), n, currentTerm[r.caller])
<1> DEFINE i == r.caller
           t == currentTerm[i]
           X == StoreLog(disk[i])
           n == maybeAdvanceCommitIndex(i, match)
<1>1. Typed
  BY DataTyped DEF LogInv
<1>2. /\ i \in Server /\ t \in Nat /\ r.peer \in Server /\ r.newMatch \in Index
      /\ IsStore(disk[i]) /\ commitIndex[i] \in Index
      /\ DOMAIN matchIndex[i] = Peers(i) /\ \A j \in Peers(i) : matchIndex[i][j] \in Index
  BY <1>1 DEF Typed, CallOK
<1>3. PICK b \in Index : Shows(disk[i], b, X)
  BY <1>1, <1>2, SoundReplica
<1>4. Leads(G, K, t, X, matchIndex[i])
  BY <1>2 DEF GInv
<1>5. /\ DOMAIN X = 0 .. b /\ b \in Nat /\ X = G[t]
  <2>1. PICK d \in Nat : DOMAIN X = 0 .. d /\ X = G[t]
    BY <1>4 DEF Leads
  <2>2. DOMAIN X = 0 .. b /\ b \in Int
    BY <1>2, <1>3, ShowsBounds
  <2>3. d = b
    BY <2>1, <2>2
  <2> QED BY <2>1, <2>3
<1>6. Core(G, K, currentTerm, Logs(disk)) /\ Logs(disk)[i] = X /\ \A u \in Nat : IsFull(G[u])
  BY <1>1, <1>2, SoundReplica DEF GInv
<1> DEFINE J == K \cup {<<i, b, t>>}
<1>7. Core(G, J, currentTerm', Logs(disk)) /\ MoreAcks(K, J, currentTerm) /\ K \subseteq J
  <2>1. b \in 0 .. b
    BY <1>5
  <2>2. Agrees(X, G[t], b)
    BY <1>5, <2>1 DEF Agrees
  <2>3. Core(G, K, currentTerm', Logs(disk)) /\ currentTerm'[i] = t
    BY <1>6
  <2> HIDE DEF X, t, i
  <2>4. Agrees(Logs(disk)[i], G[currentTerm'[i]], b) /\ J = K \cup {<<i, b, currentTerm'[i]>>}
    BY <1>6, <2>2, <2>3
  <2> HIDE DEF J
  <2> QED BY <1>2, <1>5, <2>3, <2>4, AckedStep
<1>8. Acked(J, i, b, t)
  BY <1>5 DEF Acked
<1> HIDE DEF J
<1>9. r.newMatch \in DOMAIN X \cup {-1}
      /\ \A k \in 0 .. r.newMatch : Has(X, k, t) => Acked(K, r.peer, k, t)
  <2>1. CASE r.newMatch = -1
    BY <2>1
  <2>2. CASE r.newMatch # -1
    <3>1. r.newMatch \in Nat
      BY <1>2, <2>2 DEF Index
    <3>2. <<r.peer, r.newMatch, t>> \in K
      BY <3>1 DEF GInv, CallGood
    <3>3. r.newMatch \in DOMAIN X
      BY <1>2, <1>5, <1>6, <3>1, <3>2 DEF Core, AcksOK
    <3>4. \A k \in 0 .. r.newMatch : Acked(K, r.peer, k, t)
      BY <3>1, <3>2 DEF Acked
    <3> QED BY <3>3, <3>4
  <2> QED BY <2>1, <2>2
<1>10. /\ DOMAIN match = Peers(i)
       /\ \A j \in Peers(i) : match[j] = IF j = r.peer THEN r.newMatch ELSE matchIndex[i][j]
  BY <1>2
<1>11. Leads(G, J, t, X, match)
  <2> HIDE DEF X, t, i
  <2>1. Leads(G, K, t, X, match)
    BY <1>2, <1>4, <1>9, <1>10 DEF Leads
  <2> QED BY <1>2, <1>7, <2>1, LeadsKept, LogsGrowRefl
<1>12. ASSUME n > commitIndex[i] PROVE n \in Nat /\ Fixed(G, J, X, n, t)
  <2>1. StoresOK
    BY DEF LogInv, DataInv, DataOK
  <2>0. Counted(i, match, n)
    <3>1. n = maybeAdvanceCommitIndex(i, match)
      OBVIOUS
    <3> HIDE DEF n, i
    <3> QED BY <1>2, <1>12, <2>1, <3>1, AdvanceIsCounted
  <2> HIDE DEF n
  <2>2. /\ n \in Nat /\ n \in Rows(disk[i]) /\ disk[i].log[n].term = t
        /\ 1 + Cardinality({j \in Peers(i) : match[j] >= n}) >= Majority
    BY <2>0 DEF Counted
  <2>3. n \in 0 .. b /\ Has(X, n, t)
    BY <1>2, <1>3, <2>2, RowInLog
  <2>4. Acked(J, i, n, t)
    BY <1>5, <1>8, <2>2, <2>3 DEF Acked
  <2>5. \A j \in Peers(i) : match[j] \in Index
    BY <1>2, <1>10
  <2> HIDE DEF X, t, i
  <2> QED BY <1>2, <1>10, <1>11, <2>2, <2>3, <2>4, <2>5, CountedIsFixed
<1> QED BY <1>7, <1>11, <1>12

\* The success branch of _sendAppendEntriesTo, in the term of the request.
LEMMA ReplyAppendedKeeps ==
  ASSUME LogInv, DataInv', VoteStep, NEW G, NEW K, GInv(G, K), NEW r \in calls,
         ReplyAppended(r), r.term = currentTerm[r.caller]
  PROVE  \E J : GInv(G, J)'
<1> DEFINE i == r.caller
           t == currentTerm[i]
           p == disk[i]
           match == [matchIndex[i] EXCEPT ![r.peer] = r.newMatch]
           n == maybeAdvanceCommitIndex(i, match)
           h == applyCommitted(p, applied[i], n)
<1>1. Typed
  BY DataTyped DEF LogInv
<1>2. /\ r.type = "AppendReply" /\ role[i] = Leader /\ r.success
      /\ matchIndex' = [matchIndex EXCEPT ![i] = match]
      /\ IF n > commitIndex[i] THEN Settle(i, p, n)
         ELSE UNCHANGED <<commitIndex, applied, disk, decided>>
      /\ calls' \subseteq calls
      /\ UNCHANGED <<role, currentTerm, voteRequests, voteReplies>>
  BY DEF ReplyAppended
<1>3. /\ Sound(G, K, t, p, commitIndex[i], applied[i])
      /\ IsStore(p) /\ t \in Nat /\ commitIndex[i] \in Index
      /\ applied[i] \in Seq(Entry) /\ \A u \in Nat : IsFull(G[u]) /\ i \in Server
  <2>1. i \in Server
    BY <1>1 DEF Typed
  <2> QED BY <1>1, <2>1, SoundReplica
<1> HIDE DEF n
<1>4. PICK J : /\ Core(G, J, currentTerm', Logs(disk)) /\ MoreAcks(K, J, currentTerm)
               /\ Leads(G, J, t, StoreLog(p), match)
               /\ n > commitIndex[i] => n \in Nat /\ Fixed(G, J, StoreLog(p), n, t)
  BY <1>2, LeaderCounts DEF n
<1>5. K \subseteq J
  BY <1>4 DEF MoreAcks
<1>6. Sound(G, J, t, p, commitIndex[i], applied[i])
  BY <1>3, <1>5, SoundKept, LogsGrowRefl
<1>7. /\ StoreLog(disk'[i]) = StoreLog(p) /\ Sound(G, J, t, disk'[i], commitIndex'[i], applied'[i])
      /\ decided' \subseteq decided \cup Record(applied'[i])
      /\ \A k \in Server \ {i} : /\ commitIndex'[k] = commitIndex[k] /\ applied'[k] = applied[k]
                                /\ disk'[k] = disk[k]
  <2>1. CASE n > commitIndex[i]
    <3>1. /\ commitIndex' = [commitIndex EXCEPT ![i] = n] /\ applied' = [applied EXCEPT ![i] = h]
          /\ disk' = [disk EXCEPT ![i] = maybeSnapshot(p, h)]
          /\ decided' = decided \cup Record(h)
      BY <1>2, <2>1 DEF Settle
    <3>2. n \in Index /\ n >= commitIndex[i] /\ (n >= 0 => Fixed(G, J, StoreLog(p), n, t))
      BY <1>3, <1>4, <2>1 DEF Index
    <3>3. SettledWell(G, J, t, p, n, h)
      BY <1>3, <1>6, <3>2, SettleSound
    <3> HIDE DEF h, p, t, i
    <3>4. /\ commitIndex'[i] = n /\ applied'[i] = h /\ disk'[i] = maybeSnapshot(p, h)
          /\ \A k \in Server \ {i} : /\ commitIndex'[k] = commitIndex[k] /\ applied'[k] = applied[k]
                                    /\ disk'[k] = disk[k]
      BY <1>1, <1>3, <3>1 DEF Typed
    <3> QED BY <3>1, <3>3, <3>4 DEF SettledWell
  <2>2. CASE ~(n > commitIndex[i])
    BY <1>2, <1>6, <2>2
  <2> QED BY <2>1, <2>2
<1>8. \A c \in calls' : CallGood(G, J, c)
  BY <1>1, <1>2, <1>5, OldCallsGood, LogsGrowRefl
<1>9. /\ matchIndex'[i] = match /\ \A k \in Server \ {i} : matchIndex'[k] = matchIndex[k]
  BY <1>1, <1>2, <1>3 DEF Typed
<1> HIDE DEF match, p, t, i
<1>10. Moved(i) /\ currentTerm'[i] = t
  BY <1>2, <1>7, <1>9 DEF Moved, Unmoved, t
<1>11. Leads(G, J, currentTerm'[i], StoreLog(disk'[i]), matchIndex'[i])
  BY <1>4, <1>7, <1>9, <1>10
<1>12. role'[i] = Leader /\ Goes(currentTerm[i], role[i], disk[i], currentTerm'[i], role'[i], disk'[i])
  BY <1>2 DEF Goes, Leader, Candidate
<1>13. GInv(G, J)'
  BY <1>2, <1>3, <1>4, <1>7, <1>8, <1>10, <1>11, <1>12, SameLogsKeep DEF p
<1> QED BY <1>13

-----------------------------------------------------------------------------
(***************************************************************************)
(* The handlers of AppendEntries and InstallSnapshot.                      *)
(***************************************************************************)

\* The store q continues the log of the peer of m, in the term of m.
Followed(G, K, m, q) ==
  /\ IsStore(q) /\ Sound(G, K, m.term, q, commitIndex[m.peer], applied[m.peer])
  /\ Follows(StoreLog(disk[m.peer]), StoreLog(q), G, m.term)

\* What the lemmas on one store need of the peer of a request.
PeerReady(G, K, m, p) ==
  /\ IsStore(p) /\ StoreLog(p) = StoreLog(disk[m.peer])
  /\ \E b : Shows(p, b, StoreLog(p))
  /\ Sound(G, K, currentTerm[m.peer], p, commitIndex[m.peer], applied[m.peer])
  /\ From(StoreLog(p), G, currentTerm[m.peer])
  /\ p.lastSnapshotIndex >= 0 => Fixed(G, K, StoreLog(p), p.lastSnapshotIndex, currentTerm[m.peer])
  /\ p.log = disk[m.peer].log /\ p.lastSnapshotIndex = disk[m.peer].lastSnapshotIndex
  /\ p.lastSnapshotTerm = disk[m.peer].lastSnapshotTerm /\ lastIndex(p) = lastIndex(disk[m.peer])
  /\ m.peer \in Server /\ currentTerm[m.peer] \in Nat /\ m.term \in Nat
  /\ commitIndex[m.peer] \in Index /\ applied[m.peer] \in Seq(Entry)
  /\ Core(G, K, currentTerm, Logs(disk))

\* The peer of every request under way is, with the request's term written.
LEMMA PeerIsReady ==
  ASSUME LogInv, NEW G, NEW K, GInv(G, K), NEW m \in calls,
         NEW p, p = FollowerStore(m.peer, m.term)
  PROVE  PeerReady(G, K, m, p)
<1> DEFINE j == m.peer
<1>1. Typed
  BY DataTyped DEF LogInv
<1>2. j \in Server /\ m.term \in Nat
  BY <1>1 DEF Typed
<1>3. /\ Sound(G, K, currentTerm[j], disk[j], commitIndex[j], applied[j])
      /\ IsStore(disk[j]) /\ currentTerm[j] \in Nat /\ commitIndex[j] \in Index
      /\ applied[j] \in Seq(Entry) /\ \A t \in Nat : IsFull(G[t])
      /\ Logs(disk)[j] = StoreLog(disk[j])
  BY <1>1, <1>2, SoundReplica
<1>4. /\ Sound(G, K, currentTerm[j], p, commitIndex[j], applied[j])
      /\ IsStore(p) /\ StoreLog(p) = StoreLog(disk[j])
      /\ p.log = disk[j].log /\ p.lastSnapshotIndex = disk[j].lastSnapshotIndex
      /\ p.lastSnapshotTerm = disk[j].lastSnapshotTerm
      /\ lastIndex(p) = lastIndex(disk[j])
  BY <1>1, <1>2, <1>3, FollowerStoreSame
<1>5. Core(G, K, currentTerm, Logs(disk))
  BY DEF GInv
<1>6. From(StoreLog(p), G, currentTerm[j])
  BY <1>2, <1>3, <1>4, <1>5 DEF Core
<1>7. \E b : Shows(p, b, StoreLog(p))
  <2>1. PICK b, X : Shows(p, b, X)
    BY <1>4 DEF Sound
  <2>2. StoreLog(p) = X
    BY <1>4, <2>1, ShownLog
  <2> QED BY <2>1, <2>2
<1>8. p.lastSnapshotIndex >= 0 => Fixed(G, K, StoreLog(p), p.lastSnapshotIndex, currentTerm[j])
  <2>1. Sound(G, K, currentTerm[j], p, p.lastSnapshotIndex, p.snapshot)
    BY <1>3, <1>4, CrashSound
  <2> QED BY <2>1 DEF Sound
<1> QED BY <1>2, <1>3, <1>4, <1>5, <1>6, <1>7, <1>8 DEF PeerReady

\* A store that shows a log following the leader's is one.
LEMMA FollowedStore ==
  ASSUME NEW G, NEW K, NEW m, NEW p, PeerReady(G, K, m, p), currentTerm[m.peer] <= m.term,
         Led(G, m.term), NEW q, IsStore(q), q.lastSnapshotIndex = p.lastSnapshotIndex,
         NEW c, NEW Z, Shows(q, c, Z), Follows(StoreLog(p), Z, G, m.term)
  PROVE  Followed(G, K, m, q) /\ StoreLog(q) = Z
<1>1. Sound(G, K, m.term, q, commitIndex[m.peer], applied[m.peer])
  BY FollowSound DEF PeerReady
<1>2. StoreLog(q) = Z
  BY ShownLog
<1> QED BY <1>1, <1>2 DEF Followed, PeerReady

\* Writing the term of the request alone follows the leader, too.
LEMMA FollowerFollowed ==
  ASSUME NEW G, NEW K, NEW m, NEW p, PeerReady(G, K, m, p), currentTerm[m.peer] <= m.term,
         Led(G, m.term)
  PROVE  Followed(G, K, m, p)
<1>1. PICK b : Shows(p, b, StoreLog(p))
  BY DEF PeerReady
<1>2. Follows(StoreLog(p), StoreLog(p), G, m.term)
  <2>1. IsFull(StoreLog(p))
    BY <1>1, ShowsBounds DEF PeerReady
  <2>2. From(StoreLog(p), G, m.term)
    <3>1. currentTerm[m.peer] \in Nat /\ m.term \in Nat
      BY DEF PeerReady
    <3>2. 0 .. currentTerm[m.peer] \subseteq 0 .. m.term
      BY <3>1
    <3> QED BY <3>2 DEF PeerReady, From
  <2> QED BY <2>1, <2>2 DEF Follows
<1> QED BY <1>1, <1>2, FollowedStore DEF PeerReady

\* The rows of handleAppendEntries.
LEMMA StoredFollowed ==
  ASSUME NEW G, NEW K, NEW m, NEW p, PeerReady(G, K, m, p), currentTerm[m.peer] <= m.term,
         AppendGood(G, K, m), m.prevLogIndex \in Index, IsLog(m.entries),
         matched(p, m.prevLogIndex, m.prevLogTerm), ~Overtaken(m),
         NEW q, q = Stored(p, m.entries)
  PROVE  /\ Followed(G, K, m, q)
         /\ newMatch(m) >= 0 => Agrees(StoreLog(q), G[m.term], newMatch(m))
<1> DEFINE V == currentTerm[m.peer]
<1>1. PICK b : Shows(p, b, StoreLog(p))
  BY DEF PeerReady
<1>2. NotOvertaking(p, V, m)
  <2>1. Conflicts(p, m.entries) = Conflicts(disk[m.peer], m.entries)
    BY DEF PeerReady, Conflicts, Rows
  <2>2. /\ V \in Nat /\ m.term \in Nat /\ newMatch(m) \in Int /\ lastIndex(p) \in Int
        /\ m.prevLogIndex \in Int /\ p.lastSnapshotIndex \in Int
    <3>1. p.lastSnapshotIndex \in Int /\ b \in Int /\ lastIndex(p) = b
      BY <1>1, ShowsBounds, ShownLog DEF PeerReady
    <3>2. newMatch(m) \in Int
      BY DEF AppendGood, Index
    <3> QED BY <3>1, <3>2 DEF PeerReady, Index
  <2>3. /\ lastIndex(p) = lastIndex(disk[m.peer])
        /\ p.lastSnapshotIndex = disk[m.peer].lastSnapshotIndex
    BY DEF PeerReady
  <2> QED BY <2>1, <2>2, <2>3 DEF NotOvertaking, Overtaken
<1>3. PICK c, Z : /\ Shows(q, c, Z) /\ Follows(StoreLog(p), Z, G, m.term)
                  /\ newMatch(m) >= 0 => Agrees(Z, G[m.term], newMatch(m))
  BY <1>1, <1>2, StoredFollows DEF PeerReady
<1>4. IsStore(q) /\ q.lastSnapshotIndex = p.lastSnapshotIndex
  <2>1. IsStore(q)
    BY StoredIsStore DEF PeerReady
  <2>2. q.lastSnapshotIndex = p.lastSnapshotIndex
    BY DEF Stored, Truncated, truncateFrom, appendEntries, PeerReady, IsStore
  <2> QED BY <2>1, <2>2
<1>5. Led(G, m.term)
  BY DEF AppendGood
<1> QED BY <1>3, <1>4, <1>5, FollowedStore

\* Between its two writes.
LEMMA TruncatedFollowed ==
  ASSUME NEW G, NEW K, NEW m, NEW p, PeerReady(G, K, m, p), currentTerm[m.peer] <= m.term,
         AppendGood(G, K, m), m.prevLogIndex \in Index, IsLog(m.entries),
         matched(p, m.prevLogIndex, m.prevLogTerm), ~TruncatesBelow(m),
         NEW q, q = Truncated(p, m.entries)
  PROVE  Followed(G, K, m, q)
<1>1. PICK b : Shows(p, b, StoreLog(p))
  BY DEF PeerReady
<1>2. Conflicts(p, m.entries) # {} => Min(Conflicts(p, m.entries)) > p.lastSnapshotIndex
  <2> SUFFICES ASSUME Conflicts(p, m.entries) # {}
               PROVE  Min(Conflicts(p, m.entries)) > p.lastSnapshotIndex
    OBVIOUS
  <2>1. Conflicts(p, m.entries) = Conflicts(disk[m.peer], m.entries)
    BY DEF PeerReady, Conflicts, Rows
  <2>2. p.lastSnapshotIndex \in Int
    BY <1>1, ShowsBounds DEF PeerReady
  <2> DEFINE w == Min(Conflicts(p, m.entries))
  <2>3. w \in 0 .. b + 1 /\ b \in Int
    BY <1>1, ConflictPoint, ShowsBounds DEF PeerReady
  <2>4. ~(w <= p.lastSnapshotIndex)
    BY <2>1 DEF TruncatesBelow, PeerReady
  <2> HIDE DEF w
  <2>5. w > p.lastSnapshotIndex
    BY <2>2, <2>3, <2>4
  <2> QED BY <2>5 DEF w
<1>3. PICK c, Z : Shows(q, c, Z) /\ Follows(StoreLog(p), Z, G, m.term)
  BY <1>1, <1>2, TruncatedFollows DEF PeerReady
<1>4. IsStore(q) /\ q.lastSnapshotIndex = p.lastSnapshotIndex
  <2>1. IsStore(q)
    BY StoredIsStore DEF PeerReady
  <2>2. q.lastSnapshotIndex = p.lastSnapshotIndex
    BY DEF Truncated, truncateFrom, PeerReady, IsStore
  <2> QED BY <2>1, <2>2
<1>5. Led(G, m.term)
  BY DEF AppendGood
<1> QED BY <1>3, <1>4, <1>5, FollowedStore

\* The commit index a follower takes over and what it then applies.
LEMMA AppendSettled ==
  ASSUME NEW G, NEW K, NEW m, NEW p, PeerReady(G, K, m, p), AppendGood(G, K, m),
         m.leaderCommit \in Index, NEW q, Followed(G, K, m, q),
         newMatch(m) >= 0 => Agrees(StoreLog(q), G[m.term], newMatch(m)),
         commitFollows(commitIndex[m.peer], m),
         NEW d, d = Lesser(m.leaderCommit, lastIndex(q)),
         NEW h, h = applyCommitted(q, applied[m.peer], d)
  PROVE  /\ Sound(G, K, m.term, maybeSnapshot(q, h), d, h)
         /\ Sound(G, K, m.term, Snapshotted(q, h), d, h)
         /\ StoreLog(maybeSnapshot(q, h)) = StoreLog(q)
         /\ StoreLog(Snapshotted(q, h)) = StoreLog(q)
<1> DEFINE U == m.term
           c == commitIndex[m.peer]
           k == newMatch(m)
           Z == StoreLog(q)
<1>1. /\ c \in Index /\ c \in Int /\ c >= -1 /\ U \in Nat /\ applied[m.peer] \in Seq(Entry)
      /\ \A t \in Nat : IsFull(G[t])
  BY LogsAreFull DEF PeerReady, Index
<1>2. /\ m.leaderCommit \in Nat /\ m.leaderCommit > c
  BY <1>1 DEF commitFollows, Index
<1>3. k \in Nat /\ m.leaderCommit \in 0 .. k
  <2>1. k \in Index /\ m.leaderCommit <= k
    BY DEF AppendGood
  <2> QED BY <1>2, <2>1 DEF Index
<1>4. PICK b : Shows(q, b, Z)
  <2>1. PICK b, Y : Shows(q, b, Y)
    BY DEF Followed, Sound
  <2>2. Z = Y
    BY <2>1, ShownLog DEF Followed
  <2> QED BY <2>1, <2>2
<1>5. /\ DOMAIN Z = 0 .. b /\ b \in Int /\ IsFull(Z) /\ lastIndex(q) = b
  BY <1>4, ShowsBounds, ShownLog DEF Followed
<1>6. Agrees(Z, G[U], k)
  BY <1>3
<1> HIDE DEF Z, k
<1>7. d = m.leaderCommit
  <2>1. k \in 0 .. b
    BY <1>5, <1>6 DEF Agrees
  <2> QED BY <1>3, <1>5, <2>1 DEF Lesser
<1>8. Fixed(G, K, Z, d, U)
  <2>1. Agrees(Z, G[U], d)
    BY <1>1, <1>3, <1>5, <1>6, <1>7, AgreesUp
  <2>2. Fixed(G, K, G[U], d, U)
    BY <1>2, <1>7 DEF AppendGood
  <2> QED BY <1>1, <1>2, <1>7, <2>1, <2>2, FixedKept, LogsGrowRefl
<1>9. d \in Index /\ d >= c
  BY <1>1, <1>2, <1>7 DEF Index
<1>10. IsStore(q) /\ Sound(G, K, U, q, c, applied[m.peer])
  BY DEF Followed
<1> HIDE DEF U, c
<1>11. SettledWell(G, K, m.term, q, d, h)
  BY <1>1, <1>8, <1>9, <1>10, SettleSound DEF Z, U, c
<1> QED BY <1>11 DEF SettledWell

\* The ghosts when a replica follows a leader's log.
LEMMA FollowedCore ==
  ASSUME LogInv, VoteStep, NEW G, NEW K, GInv(G, K), NEW j \in Server,
         Led(G, currentTerm'[j]), NEW Z, Follows(StoreLog(disk[j]), Z, G, currentTerm'[j])
  PROVE  Core(G, K, currentTerm', [Logs(disk) EXCEPT ![j] = Z])
<1>1. Typed
  BY DataTyped DEF LogInv
<1>2. Core(G, K, currentTerm', Logs(disk))
  BY TermsGrown
<1>3. DOMAIN Logs(disk) = Server /\ Logs(disk)[j] = StoreLog(disk[j])
  BY <1>1, SoundReplica
<1> QED BY <1>2, <1>3, FollowKeepsCore DEF Follows

\* A replica takes a log, and may acknowledge what it shares with its leader.
LEMMA WrittenKeeps ==
  ASSUME LogInv, DataInv', VoteStep, NEW G, NEW K, GInv(G, K), NEW j \in Server, Moved(j),
         disk' = [disk EXCEPT ![j] = disk'[j]],
         NEW J, K \subseteq J, MoreAcks(K, J, currentTerm),
         Core(G, J, currentTerm', [Logs(disk) EXCEPT ![j] = StoreLog(disk'[j])]),
         \/ Sound(G, K, currentTerm'[j], disk'[j], commitIndex'[j], applied'[j])
         \/ Sound(G, J, currentTerm'[j], disk'[j], commitIndex'[j], applied'[j]),
         role'[j] = Follower, \A c \in calls' : CallGood(G, J, c),
         voteRequests' \subseteq voteRequests, voteReplies' = voteReplies,
         decided' \subseteq decided \cup Record(applied'[j])
  PROVE  GInv(G, J)'
<1>1. Typed
  BY DataTyped DEF LogInv
<1>2. Core(G, J, currentTerm', Logs(disk'))
  <2>1. Logs(disk') = [Logs(disk) EXCEPT ![j] = StoreLog(disk'[j])]
    BY <1>1, LogsWrittenNext DEF Typed
  <2> QED BY <2>1
<1>3. Sound(G, J, currentTerm'[j], disk'[j], commitIndex'[j], applied'[j])
  <2>1. currentTerm'[j] \in Nat /\ commitIndex'[j] \in Index
    BY DEF DataInv, DataOK, MachinesOK, VoteStep, TypesOK, TermsOK
  <2>2. \A t \in Nat : IsFull(G[t])
    BY LogsAreFull DEF GInv
  <2> QED BY <2>1, <2>2, SoundKept, LogsGrowRefl
<1>4. role'[j] # Leader /\ Goes(currentTerm[j], role[j], disk[j], currentTerm'[j], role'[j], disk'[j])
  BY DEF Goes, Follower, Leader, Candidate
<1>5. LogsGrow(G, G) /\ DOMAIN G = Nat
  BY LogsGrowRefl DEF GInv
<1> QED BY <1>2, <1>3, <1>4, <1>5, StepKeeps DEF Moved

\* An acknowledgement of the log just written.
LEMMA AckWritten ==
  ASSUME LogInv, VoteStep, NEW G, NEW K, NEW L, DOMAIN L = Server, NEW j \in Server, NEW Z,
         Core(G, K, currentTerm', [L EXCEPT ![j] = Z]),
         NEW k \in Index, k >= 0 => Agrees(Z, G[currentTerm'[j]], k)
  PROVE  \E J : /\ Core(G, J, currentTerm', [L EXCEPT ![j] = Z])
                /\ MoreAcks(K, J, currentTerm) /\ K \subseteq J
                /\ k >= 0 => <<j, k, currentTerm'[j]>> \in J
<1>1. CASE k >= 0
  <2> DEFINE J == K \cup {<<j, k, currentTerm'[j]>>}
             M == [L EXCEPT ![j] = Z]
  <2>1. k \in Nat /\ M[j] = Z
    BY <1>1 DEF Index
  <2>2. <<j, k, currentTerm'[j]>> \in J
    OBVIOUS
  <2>3. Agrees(M[j], G[currentTerm'[j]], k) /\ J = K \cup {<<j, k, currentTerm'[j]>>}
    BY <1>1, <2>1
  <2> HIDE DEF J, M
  <2>4. Core(G, K, currentTerm', M)
    BY DEF M
  <2>5. Core(G, J, currentTerm', M) /\ MoreAcks(K, J, currentTerm) /\ K \subseteq J
    BY <2>1, <2>3, <2>4, AckedStep
  <2> QED BY <2>2, <2>5 DEF M
<1>2. CASE ~(k >= 0)
  BY <1>2, MoreAcksRefl
<1> QED BY <1>1, <1>2

\* handleAppendEntries to its end.
LEMMA HandleAppendEntriesKeeps ==
  ASSUME LogInv, DataInv', VoteStep, NEW G, NEW K, GInv(G, K), NEW m \in calls,
         HandleAppendEntries(m), ~Overtaken(m)
  PROVE  \E J : GInv(G, J)'
<1> DEFINE j == m.peer
           U == m.term
           p == FollowerStore(j, U)
           q == Stored(p, m.entries)
           d == Lesser(m.leaderCommit, lastIndex(q))
           h == applyCommitted(q, applied[j], d)
           k == newMatch(m)
<1>1. Typed
  BY DataTyped DEF LogInv
<1>2. /\ m.type = "AppendEntries" /\ Follow(m)
      /\ matched(disk[j], m.prevLogIndex, m.prevLogTerm)
      /\ IF commitFollows(commitIndex[j], m) THEN Settle(j, q, d)
         ELSE /\ disk' = [disk EXCEPT ![j] = q] /\ UNCHANGED <<commitIndex, applied, decided>>
      /\ Respond(m, AppendReply(m, m.term, TRUE))
      /\ UNCHANGED <<matchIndex, voteRequests, voteReplies>>
  BY DEF HandleAppendEntries
<1>3. /\ j \in Server /\ U \in Nat /\ m.prevLogIndex \in Index /\ m.leaderCommit \in Index
      /\ IsLog(m.entries)
  BY <1>1, <1>2 DEF Typed, CallOK
<1>4. /\ role' = [role EXCEPT ![j] = Follower] /\ role'[j] = Follower
      /\ currentTerm' = [currentTerm EXCEPT ![j] = U]
      /\ currentTerm'[j] = U /\ currentTerm[j] <= U
  BY <1>1, <1>2, FollowTerm
<1>5. PeerReady(G, K, m, p)
  BY PeerIsReady
<1>6. AppendGood(G, K, m)
  BY <1>2 DEF GInv, CallGood
<1>7. Led(G, U) /\ k \in Index
  BY <1>6 DEF AppendGood
<1> HIDE DEF p
<1>8. matched(p, m.prevLogIndex, m.prevLogTerm)
  BY <1>2, <1>5 DEF matched, PeerReady, Rows
<1>9. /\ Followed(G, K, m, q)
      /\ k >= 0 => Agrees(StoreLog(q), G[U], k)
  BY <1>3, <1>4, <1>5, <1>6, <1>8, StoredFollowed
<1> HIDE DEF q
<1>10. /\ Sound(G, K, U, disk'[j], commitIndex'[j], applied'[j])
       /\ StoreLog(disk'[j]) = StoreLog(q)
       /\ decided' \subseteq decided \cup Record(applied'[j])
       /\ disk' = [disk EXCEPT ![j] = disk'[j]]
       /\ \A i \in Server \ {j} : commitIndex'[i] = commitIndex[i] /\ applied'[i] = applied[i]
  <2>1. CASE commitFollows(commitIndex[j], m)
    <3>1. /\ commitIndex' = [commitIndex EXCEPT ![j] = d] /\ applied' = [applied EXCEPT ![j] = h]
          /\ disk' = [disk EXCEPT ![j] = maybeSnapshot(q, h)]
          /\ decided' = decided \cup Record(h)
      BY <1>2, <2>1 DEF Settle
    <3>2. Sound(G, K, U, maybeSnapshot(q, h), d, h) /\ StoreLog(maybeSnapshot(q, h)) = StoreLog(q)
      <4>1. d = Lesser(m.leaderCommit, lastIndex(q)) /\ h = applyCommitted(q, applied[m.peer], d)
        OBVIOUS
      <4> HIDE DEF d, h
      <4> QED BY <1>3, <1>5, <1>6, <1>9, <2>1, <4>1, AppendSettled
    <3> HIDE DEF h, d, j
    <3>3. /\ commitIndex'[j] = d /\ applied'[j] = h /\ disk'[j] = maybeSnapshot(q, h)
          /\ \A i \in Server \ {j} : commitIndex'[i] = commitIndex[i] /\ applied'[i] = applied[i]
      BY <1>1, <1>3, <3>1 DEF Typed
    <3> QED BY <3>1, <3>2, <3>3
  <2>2. CASE ~commitFollows(commitIndex[j], m)
    <3>1. disk' = [disk EXCEPT ![j] = q] /\ UNCHANGED <<commitIndex, applied, decided>>
      BY <1>2, <2>2
    <3>2. disk'[j] = q
      BY <1>1, <1>3, <3>1 DEF Typed
    <3>3. Sound(G, K, U, q, commitIndex[j], applied[j])
      BY <1>9 DEF Followed
    <3> HIDE DEF j, U
    <3> QED BY <3>1, <3>2, <3>3
  <2> QED BY <2>1, <2>2
<1> HIDE DEF d, h
<1>11. Moved(j)
  BY <1>1, <1>2, <1>3, <1>4, <1>10 DEF Moved, Unmoved, Typed
<1>12. Core(G, K, currentTerm', [Logs(disk) EXCEPT ![j] = StoreLog(q)])
  <2>1. Follows(StoreLog(disk[j]), StoreLog(q), G, currentTerm'[j]) /\ Led(G, currentTerm'[j])
    BY <1>4, <1>7, <1>9 DEF Followed
  <2> HIDE DEF j, U
  <2> QED BY <1>3, <2>1, FollowedCore
<1>13. PICK J : /\ Core(G, J, currentTerm', [Logs(disk) EXCEPT ![j] = StoreLog(q)])
                /\ MoreAcks(K, J, currentTerm) /\ K \subseteq J
                /\ k >= 0 => <<j, k, currentTerm'[j]>> \in J
  <2>1. DOMAIN Logs(disk) = Server
    BY DEF Logs
  <2>2. k >= 0 => Agrees(StoreLog(q), G[currentTerm'[j]], k)
    BY <1>4, <1>9
  <2> HIDE DEF k, U, j
  <2> QED BY <1>3, <1>7, <1>12, <2>1, <2>2, AckWritten
<1>14. \A c \in calls' : CallGood(G, J, c)
  <2> DEFINE r == AppendReply(m, m.term, TRUE)
  <2>1. r.type = "AppendReply" /\ r.peer = j /\ r.newMatch = k /\ r.term = U
    BY DEF AppendReply
  <2> HIDE DEF r
  <2>2. CallGood(G, J, r)
    BY <1>4, <1>13, <2>1 DEF CallGood
  <2>3. \A c \in calls : CallGood(G, J, c)
    BY <1>1, <1>13, OldCallsGood, LogsGrowRefl
  <2> QED BY <1>2, <2>2, <2>3, RespondedGood DEF r
<1>15. GInv(G, J)'
  <2>1. /\ Core(G, J, currentTerm', [Logs(disk) EXCEPT ![j] = StoreLog(disk'[j])])
        /\ Sound(G, K, currentTerm'[j], disk'[j], commitIndex'[j], applied'[j])
    BY <1>4, <1>10, <1>13
  <2> HIDE DEF j, U
  <2> QED BY <1>2, <1>3, <1>4, <1>10, <1>11, <1>13, <1>14, <2>1, WrittenKeeps
<1> QED BY <1>15

\* handleInstallSnapshot with a snapshot the replica does not have.
LEMMA HandleInstallSnapshotKeeps ==
  ASSUME LogInv, DataInv', VoteStep, NEW G, NEW K, GInv(G, K), NEW m \in calls,
         HandleInstallSnapshot(m)
  PROVE  \E J : GInv(G, J)'
<1> DEFINE j == m.peer
           U == m.term
           s == m.lastIncludedIndex
           p == FollowerStore(j, U)
           q == saveSnapshot(Wiped(p, m), m.lastIncludedIndex, m.lastIncludedTerm, m.data)
           d == Greater(commitIndex[j], s)
<1>1. Typed
  BY DataTyped DEF LogInv
<1>2. /\ m.type = "InstallSnapshot" /\ Follow(m) /\ s > disk[j].lastSnapshotIndex
      /\ disk' = [disk EXCEPT ![j] = q] /\ applied' = [applied EXCEPT ![j] = m.data]
      /\ commitIndex' = [commitIndex EXCEPT ![j] = d]
      /\ decided' = decided \cup Record(m.data)
      /\ Respond(m, SnapshotReply(m, m.term))
      /\ UNCHANGED <<matchIndex, voteRequests, voteReplies>>
  BY DEF HandleInstallSnapshot
<1>3. j \in Server /\ U \in Nat /\ IsSnapshot(s, m.lastIncludedTerm, m.data)
  BY <1>1, <1>2 DEF Typed, CallOK
<1>4. /\ role' = [role EXCEPT ![j] = Follower] /\ role'[j] = Follower
      /\ currentTerm' = [currentTerm EXCEPT ![j] = U]
      /\ currentTerm'[j] = U /\ currentTerm[j] <= U
  BY <1>1, <1>2, FollowTerm
<1>5. PeerReady(G, K, m, p)
  BY PeerIsReady
<1>6. InstallGood(G, K, m)
  BY <1>2 DEF GInv, CallGood
<1>7. /\ Led(G, U) /\ s \in DOMAIN G[U] /\ Fixed(G, K, G[U], s, U)
      /\ \A t \in Nat : IsFull(G[t])
  BY <1>6, LogsAreFull DEF InstallGood, GInv
<1>8. s \in Nat
  BY <1>3, <1>7, FullBelow
<1>9. s > p.lastSnapshotIndex
  BY <1>2, <1>5 DEF PeerReady
<1>10. IsStore(q) /\ q.lastSnapshotIndex = s
  <2>1. IsStore(Wiped(p, m))
    <3>1. StoresOK
      BY DEF LogInv, DataInv, DataOK
    <3> QED BY <1>3, <3>1, FollowerStoreIsStore
  <2> HIDE DEF p
  <2>2. IsStore(q)
    BY <1>3, <2>1, WritesKeepStore
  <2>3. q.lastSnapshotIndex = s
    BY <2>1 DEF saveSnapshot, IsStore
  <2> QED BY <2>2, <2>3
<1> HIDE DEF p
<1>11. PICK c, Z : /\ Shows(q, c, Z) /\ Follows(StoreLog(p), Z, G, U)
                   /\ Agrees(Z, G[U], s)
  <2>1. PICK b : Shows(p, b, StoreLog(p))
    BY <1>5 DEF PeerReady
  <2>2. q = saveSnapshot(Wiped(p, m), m.lastIncludedIndex, m.lastIncludedTerm, m.data)
    OBVIOUS
  <2> HIDE DEF q
  <2> QED BY <1>4, <1>5, <1>6, <1>8, <1>9, <2>1, <2>2, InstalledFollows DEF PeerReady
<1> HIDE DEF q
<1>12. Sound(G, K, U, q, d, m.data) /\ StoreLog(q) = Z
  <2>1. /\ Sound(G, K, currentTerm[j], p, commitIndex[j], applied[j]) /\ IsStore(p)
        /\ currentTerm[j] \in Nat /\ commitIndex[j] \in Index /\ Core(G, K, currentTerm, Logs(disk))
    BY <1>5 DEF PeerReady
  <2>2. m.data \in Seq(Entry) /\ Len(m.data) = s + 1
    BY <1>3 DEF IsSnapshot
  <2>3. Sound(G, K, U, q, d, m.data)
    BY <1>3, <1>4, <1>6, <1>8, <1>10, <1>11, <2>1, <2>2, InstallSound
  <2> QED BY <1>10, <1>11, <2>3, ShownLog
<1>13. Core(G, K, currentTerm', [Logs(disk) EXCEPT ![j] = Z])
  <2>1. Follows(StoreLog(disk[j]), Z, G, currentTerm'[j]) /\ Led(G, currentTerm'[j])
    BY <1>4, <1>5, <1>7, <1>11 DEF PeerReady
  <2> HIDE DEF j, U
  <2> QED BY <1>3, <2>1, FollowedCore
<1>14. PICK J : /\ Core(G, J, currentTerm', [Logs(disk) EXCEPT ![j] = Z])
                /\ MoreAcks(K, J, currentTerm) /\ K \subseteq J
                /\ s >= 0 => <<j, s, currentTerm'[j]>> \in J
  <2>1. DOMAIN Logs(disk) = Server
    BY DEF Logs
  <2>2. s >= 0 => Agrees(Z, G[currentTerm'[j]], s)
    BY <1>4, <1>11
  <2>3. s \in Index
    BY <1>8 DEF Index
  <2> HIDE DEF s, U, j
  <2> QED BY <1>3, <1>13, <2>1, <2>2, <2>3, AckWritten
<1>15. \A c2 \in calls' : CallGood(G, J, c2)
  <2>1. Fixed(G, J, G[U], s, U)
    BY <1>3, <1>7, <1>8, <1>14, FixedInLeaders, LogsGrowRefl
  <2>2. CallGood(G, J, SnapshotReply(m, m.term))
    BY <1>3, <1>4, <1>8, <1>14, <2>1, SnapshotReplyGood
  <2>3. \A c2 \in calls : CallGood(G, J, c2)
    BY <1>1, <1>14, OldCallsGood, LogsGrowRefl
  <2> QED BY <1>2, <2>2, <2>3, RespondedGood
<1> HIDE DEF d
<1>16. /\ disk'[j] = q /\ applied'[j] = m.data /\ commitIndex'[j] = d
       /\ \A i \in Server \ {j} : commitIndex'[i] = commitIndex[i] /\ applied'[i] = applied[i]
  BY <1>1, <1>2, <1>3 DEF Typed
<1>17. Moved(j)
  BY <1>1, <1>2, <1>3, <1>4, <1>16 DEF Moved, Unmoved, Typed
<1>18. GInv(G, J)'
  <2>1. /\ Core(G, J, currentTerm', [Logs(disk) EXCEPT ![j] = StoreLog(disk'[j])])
        /\ Sound(G, K, currentTerm'[j], disk'[j], commitIndex'[j], applied'[j])
        /\ disk' = [disk EXCEPT ![j] = disk'[j]]
    BY <1>2, <1>4, <1>12, <1>14, <1>16
  <2>2. decided' \subseteq decided \cup Record(applied'[j])
    BY <1>2, <1>16
  <2> HIDE DEF j, U
  <2> QED BY <1>2, <1>3, <1>4, <1>14, <1>15, <1>17, <2>1, <2>2, WrittenKeeps
<1> QED BY <1>18

-----------------------------------------------------------------------------
(***************************************************************************)
(* The crashes, between handlers and inside them.                          *)
(***************************************************************************)

\* The calls a crash leaves under way.
LEMMA CrashCallsGood ==
  ASSUME Typed, NEW G, NEW J, \A c \in calls : CallGood(G, J, c), NEW i \in Server, NEW p,
         NEW left \in SUBSET calls, CrashWith(i, p, left)
  PROVE  \A c \in calls' : CallGood(G, J, c)
<1> SUFFICES ASSUME NEW e \in calls' PROVE CallGood(G, J, e)
  OBVIOUS
<1>1. PICK c \in calls : /\ c.caller = i => IsRequest(c)
                         /\ e = IF c.caller = i THEN [c EXCEPT !.awaited = FALSE] ELSE c
  BY DEF CrashWith
<1>2. CASE c.caller = i
  <2>1. CallGood(G, J, [c EXCEPT !.awaited = FALSE])
    BY <1>1, <1>2, AwaitedGood DEF Typed
  <2> QED BY <1>1, <1>2, <2>1
<1>3. CASE c.caller # i
  BY <1>1, <1>3
<1> QED BY <1>2, <1>3

\* A process dies with the store p and starts again.
LEMMA CrashKeeps ==
  ASSUME LogInv, DataInv', VoteStep, NEW G, NEW K, GInv(G, K), NEW i \in Server,
         NEW p, IsStore(p), NEW left \in SUBSET calls, CrashWith(i, p, left), voteRequests' \subseteq voteRequests,
         NEW J, K \subseteq J, MoreAcks(K, J, currentTerm),
         Core(G, J, currentTerm', [Logs(disk) EXCEPT ![i] = StoreLog(p)]),
         NEW c \in Index, NEW app \in Seq(Entry), Sound(G, J, p.currentTerm, p, c, app)
  PROVE  GInv(G, J)'
<1>1. Typed
  BY DataTyped DEF LogInv
<1>2. /\ disk' = [disk EXCEPT ![i] = p] /\ currentTerm' = [currentTerm EXCEPT ![i] = p.currentTerm]
      /\ applied' = [applied EXCEPT ![i] = p.snapshot]
      /\ commitIndex' = [commitIndex EXCEPT ![i] = p.lastSnapshotIndex]
      /\ role' = [role EXCEPT ![i] = Follower]
      /\ matchIndex' = [matchIndex EXCEPT ![i] = [j \in Peers(i) |-> -1]]
      /\ decided' = decided \cup Record(p.snapshot) /\ voteReplies' = voteReplies
  BY DEF CrashWith
<1>3. /\ disk'[i] = p /\ currentTerm'[i] = p.currentTerm /\ applied'[i] = p.snapshot
      /\ commitIndex'[i] = p.lastSnapshotIndex /\ role'[i] = Follower /\ Moved(i)
  BY <1>1, <1>2 DEF Typed, Moved, Unmoved
<1>4. \A t \in Nat : IsFull(G[t])
  BY LogsAreFull DEF GInv
<1>5. Sound(G, J, p.currentTerm, p, p.lastSnapshotIndex, p.snapshot)
  <2>1. p.currentTerm \in Nat
    BY <1>3 DEF VoteStep, TypesOK, TermsOK
  <2> QED BY <1>4, <2>1, CrashSound
<1>6. \A d \in calls' : CallGood(G, J, d)
  <2>1. \A d \in calls : CallGood(G, J, d)
    BY <1>1, OldCallsGood, LogsGrowRefl
  <2> QED BY <1>1, <2>1, CrashCallsGood
<1>7. /\ Sound(G, J, currentTerm'[i], disk'[i], commitIndex'[i], applied'[i])
      /\ Core(G, J, currentTerm', [Logs(disk) EXCEPT ![i] = StoreLog(disk'[i])])
      /\ disk' = [disk EXCEPT ![i] = disk'[i]]
      /\ decided' \subseteq decided \cup Record(applied'[i])
  BY <1>2, <1>3, <1>5
<1> QED BY <1>2, <1>3, <1>6, <1>7, WrittenKeeps

\* The log on disk is the one of before.
LEMMA CrashSameLog ==
  ASSUME LogInv, DataInv', VoteStep, NEW G, NEW K, GInv(G, K), NEW i \in Server,
         NEW p, IsStore(p), StoreLog(p) = StoreLog(disk[i]), p.currentTerm >= currentTerm[i],
         Sound(G, K, currentTerm[i], p, commitIndex[i], applied[i]),
         NEW left \in SUBSET calls, CrashWith(i, p, left), voteRequests' \subseteq voteRequests
  PROVE  GInv(G, K)'
<1>1. Typed
  BY DataTyped DEF LogInv
<1>2. Core(G, K, currentTerm', [Logs(disk) EXCEPT ![i] = StoreLog(p)])
  <2>1. Core(G, K, currentTerm', Logs(disk))
    BY TermsGrown
  <2>2. [Logs(disk) EXCEPT ![i] = StoreLog(p)] = Logs(disk)
    BY DEF Logs
  <2> QED BY <2>1, <2>2
<1>3. /\ currentTerm[i] \in Nat /\ commitIndex[i] \in Index /\ applied[i] \in Seq(Entry)
      /\ \A t \in Nat : IsFull(G[t])
  BY <1>1, SoundReplica
<1>4. p.currentTerm \in Nat
  <2>1. currentTerm'[i] = p.currentTerm
    BY <1>1 DEF CrashWith, Typed
  <2> QED BY <2>1 DEF VoteStep, TypesOK, TermsOK
<1>5. Sound(G, K, p.currentTerm, p, commitIndex[i], applied[i])
  BY <1>3, <1>4, SoundKept, LogsGrowRefl
<1>6. MoreAcks(K, K, currentTerm) /\ K \subseteq K
  BY MoreAcksRefl
<1> QED BY <1>2, <1>3, <1>5, <1>6, CrashKeeps

\* A process is killed between two handlers, or before it wrote its vote.
LEMMA RestartsKeep ==
  ASSUME LogInv, DataInv', VoteStep, NEW G, NEW K, GInv(G, K),
         \/ \E i \in Server : Restart(i)
         \/ \E m \in voteRequests : CrashInRequestVote(m)
  PROVE  GInv(G, K)'
<1>1. Typed
  BY DataTyped DEF LogInv
<1>2. CASE \E i \in Server : Restart(i)
  <2>1. PICK i \in Server : Restart(i)
    BY <1>2
  <2>2. CrashWith(i, disk[i], calls) /\ voteRequests' \subseteq voteRequests
    BY <2>1 DEF Restart
  <2>3. /\ Sound(G, K, currentTerm[i], disk[i], commitIndex[i], applied[i])
        /\ IsStore(disk[i]) /\ currentTerm[i] \in Nat
    BY <1>1, SoundReplica
  <2>4. disk[i].currentTerm >= currentTerm[i]
    BY <2>3 DEF LogInv, DataInv, ElectionInv, TypesOK, DiskOK, StoresVote
  <2> QED BY <2>2, <2>3, <2>4, CrashSameLog
<1>3. CASE \E m \in voteRequests : CrashInRequestVote(m)
  <2>1. PICK m \in voteRequests : CrashInRequestVote(m)
    BY <1>3
  <2> DEFINE i == m.dst
             p == saveTermAndVote(disk[i], m.term, Nil)
  <2>2. i \in Server /\ CrashWith(i, p, calls) /\ voteRequests' \subseteq voteRequests
        /\ m.term > currentTerm[i]
    BY <1>1, <2>1 DEF CrashInRequestVote, Typed
  <2>3. /\ Sound(G, K, currentTerm[i], disk[i], commitIndex[i], applied[i])
        /\ IsStore(disk[i]) /\ currentTerm[i] \in Nat
    BY <1>1, <2>2, SoundReplica
  <2>4. /\ p.log = disk[i].log /\ p.lastSnapshotIndex = disk[i].lastSnapshotIndex
        /\ p.lastSnapshotTerm = disk[i].lastSnapshotTerm /\ p.snapshot = disk[i].snapshot
        /\ StoreLog(p) = StoreLog(disk[i]) /\ IsStore(p)
    BY <2>3, VoteWritten
  <2>5. p.currentTerm = m.term
    BY <2>3 DEF saveTermAndVote, IsStore
  <2>6. p.currentTerm >= currentTerm[i]
    BY <1>1, <2>2, <2>3, <2>5 DEF Typed
  <2> HIDE DEF p, i
  <2>7. Sound(G, K, currentTerm[i], p, commitIndex[i], applied[i])
    BY <2>3, <2>4, VoteWriteSound
  <2> QED BY <2>2, <2>4, <2>6, <2>7, CrashSameLog
<1> QED BY <1>2, <1>3

\* A follower dies with a log that follows its leader's.
LEMMA CrashFollowed ==
  ASSUME LogInv, DataInv', VoteStep, NEW G, NEW K, GInv(G, K), NEW m \in calls,
         Led(G, m.term), NEW q, IsStore(q), q.currentTerm = m.term,
         Follows(StoreLog(disk[m.peer]), StoreLog(q), G, m.term),
         NEW c \in Index, NEW app \in Seq(Entry), Sound(G, K, m.term, q, c, app),
         CrashWith(m.peer, q, calls \ {m}), UNCHANGED voteRequests
  PROVE  GInv(G, K)'
<1>1. Typed
  BY DataTyped DEF LogInv
<1>2. m.peer \in Server
  BY <1>1 DEF Typed
<1>3. currentTerm'[m.peer] = m.term
  BY <1>1, <1>2 DEF CrashWith, Typed
<1>4. Core(G, K, currentTerm', [Logs(disk) EXCEPT ![m.peer] = StoreLog(q)])
  BY <1>2, <1>3, FollowedCore
<1>5. MoreAcks(K, K, currentTerm) /\ K \subseteq K
  BY MoreAcksRefl
<1> QED BY <1>2, <1>4, <1>5, CrashKeeps

\* The term of a store handleAppendEntries and handleInstallSnapshot write.
LEMMA FollowerTerm ==
  ASSUME LogInv, NEW m \in calls, m.term >= currentTerm[m.peer],
         NEW p, p = FollowerStore(m.peer, m.term)
  PROVE  p.currentTerm = m.term
<1>1. Typed
  BY DataTyped DEF LogInv
<1>2. m.peer \in Server /\ m.term \in Nat /\ currentTerm[m.peer] \in Nat /\ IsStore(disk[m.peer])
  BY <1>1 DEF Typed
<1>3. disk[m.peer].currentTerm = currentTerm[m.peer]
  BY <1>2 DEF LogInv, DataInv, ElectionInv, TypesOK, DiskOK, StoresVote
<1> QED BY <1>2, <1>3 DEF FollowerStore, saveTermAndVote, IsStore

\* The writes after the term was written keep it.
LEMMA WritesKeepTerm ==
  ASSUME NEW p, IsStore(p)
  PROVE  /\ \A e : Truncated(p, e).currentTerm = p.currentTerm
         /\ \A e : Stored(p, e).currentTerm = p.currentTerm
         /\ \A h : Snapshotted(p, h).currentTerm = p.currentTerm
<1>1. \A e : Truncated(p, e).currentTerm = p.currentTerm
  BY DEF Truncated, truncateFrom, IsStore
<1>2. \A e : Stored(p, e).currentTerm = p.currentTerm
  BY DEF Stored, Truncated, truncateFrom, appendEntries, IsStore
<1>3. \A h : Snapshotted(p, h).currentTerm = p.currentTerm
  BY DEF Snapshotted, saveSnapshot, IsStore
<1> QED BY <1>1, <1>2, <1>3

\* The four places in handleAppendEntries.
LEMMA CrashInAppendEntriesKeeps ==
  ASSUME LogInv, DataInv', VoteStep, NEW G, NEW K, GInv(G, K), NEW m \in calls,
         CrashInAppendEntries(m), ~Overtaken(m),
         TruncatesBelow(m) => disk'[m.peer] # Truncated(FollowerStore(m.peer, m.term), m.entries)
  PROVE  GInv(G, K)'
<1> DEFINE j == m.peer
           p == FollowerStore(j, m.term)
           s == Stored(p, m.entries)
           d == Lesser(m.leaderCommit, lastIndex(s))
           h == applyCommitted(s, applied[j], d)
<1>1. Typed
  BY DataTyped DEF LogInv
<1>2. /\ m.type = "AppendEntries" /\ m.term >= currentTerm[j]
      /\ matched(p, m.prevLogIndex, m.prevLogTerm) /\ UNCHANGED voteRequests
      /\ \/ \E q \in {p, Truncated(p, m.entries), s} : CrashWith(j, q, calls \ {m})
         \/ commitFollows(commitIndex[j], m) /\ CrashWith(j, Snapshotted(s, h), calls \ {m})
  BY DEF CrashInAppendEntries
<1>3. /\ j \in Server /\ m.term \in Nat /\ currentTerm[j] \in Nat /\ currentTerm[j] <= m.term
      /\ m.prevLogIndex \in Index /\ m.leaderCommit \in Index /\ IsLog(m.entries)
  BY <1>1, <1>2 DEF Typed, CallOK
<1>4. PeerReady(G, K, m, p)
  BY PeerIsReady
<1>5. AppendGood(G, K, m) /\ Led(G, m.term)
  BY <1>2 DEF GInv, CallGood, AppendGood
<1>6. /\ IsStore(p) /\ p.currentTerm = m.term
      /\ commitIndex[j] \in Index /\ applied[j] \in Seq(Entry)
  BY <1>2, <1>4, FollowerTerm DEF PeerReady
<1>7. TruncatesBelow(m) => disk'[j] # Truncated(p, m.entries)
  OBVIOUS
<1> HIDE DEF p
<1>8. /\ Followed(G, K, m, s)
      /\ newMatch(m) >= 0 => Agrees(StoreLog(s), G[m.term], newMatch(m))
  BY <1>2, <1>3, <1>4, <1>5, StoredFollowed
<1>9. Followed(G, K, m, p)
  BY <1>3, <1>4, <1>5, FollowerFollowed
<1> HIDE DEF d, h
<1>10. ASSUME NEW q, CrashWith(j, q, calls \ {m}), Followed(G, K, m, q), q.currentTerm = m.term
       PROVE  GInv(G, K)'
  BY <1>2, <1>5, <1>6, <1>10, CrashFollowed DEF Followed
<1>11. CASE CrashWith(j, p, calls \ {m})
  BY <1>6, <1>9, <1>10, <1>11
<1>12. CASE CrashWith(j, Truncated(p, m.entries), calls \ {m})
  <2>1. disk'[j] = Truncated(p, m.entries)
    BY <1>1, <1>3, <1>12 DEF CrashWith, Typed
  <2>2. ~TruncatesBelow(m)
    BY <1>7, <2>1
  <2>3. Followed(G, K, m, Truncated(p, m.entries))
    BY <1>2, <1>3, <1>4, <1>5, <2>2, TruncatedFollowed
  <2> QED BY <1>6, <1>10, <1>12, <2>3, WritesKeepTerm
<1>13. s.currentTerm = m.term
  BY <1>6, WritesKeepTerm
<1> HIDE DEF s
<1>14. CASE CrashWith(j, s, calls \ {m})
  BY <1>8, <1>10, <1>13, <1>14
<1>15. CASE commitFollows(commitIndex[j], m) /\ CrashWith(j, Snapshotted(s, h), calls \ {m})
  <2>1. /\ Sound(G, K, m.term, Snapshotted(s, h), d, h)
        /\ StoreLog(Snapshotted(s, h)) = StoreLog(s)
    <3>1. d = Lesser(m.leaderCommit, lastIndex(s)) /\ h = applyCommitted(s, applied[j], d)
      BY DEF d, h
    <3> QED BY <1>3, <1>4, <1>5, <1>8, <1>15, <3>1, AppendSettled
  <2>2. d \in Index
    <3>1. lastIndex(s) \in Index
      BY <1>8, LastIndexBounds DEF Followed
    <3> QED BY <1>3, <3>1 DEF d, Lesser
  <2>3. h \in Seq(Entry)
    BY <1>6, <1>8, <2>2, AppliedIsHistory DEF h, Followed
  <2>4. IsStore(Snapshotted(s, h)) /\ Snapshotted(s, h).currentTerm = m.term
    BY <1>8, <1>13, <2>3, SnapshottedIsStore, WritesKeepTerm DEF Followed
  <2>5. Follows(StoreLog(disk[m.peer]), StoreLog(Snapshotted(s, h)), G, m.term)
    BY <1>8, <2>1 DEF Followed
  <2> QED BY <1>2, <1>5, <1>15, <2>1, <2>2, <2>3, <2>4, <2>5, CrashFollowed
<1> QED BY <1>2, <1>11, <1>12, <1>14, <1>15

\* After the term of handleInstallSnapshot was written.
LEMMA CrashInInstallSnapshotKeeps ==
  ASSUME LogInv, DataInv', VoteStep, NEW G, NEW K, GInv(G, K), NEW m \in calls,
         CrashInInstallSnapshot(m), disk'[m.peer] = FollowerStore(m.peer, m.term)
  PROVE  GInv(G, K)'
<1> DEFINE p == FollowerStore(m.peer, m.term)
<1>1. Typed
  BY DataTyped DEF LogInv
<1>2. PICK q : /\ CrashWith(m.peer, q, calls \ {m}) /\ m.type = "InstallSnapshot"
               /\ m.term >= currentTerm[m.peer] /\ UNCHANGED voteRequests
  BY DEF CrashInInstallSnapshot
<1>3. /\ m.peer \in Server /\ m.term \in Nat /\ currentTerm[m.peer] \in Nat
  BY <1>1 DEF Typed
<1>4. q = p
  <2>1. disk'[m.peer] = q
    BY <1>1, <1>2, <1>3 DEF CrashWith, Typed
  <2> QED BY <2>1
<1>5. PeerReady(G, K, m, p) /\ p.currentTerm = m.term
  BY <1>2, PeerIsReady, FollowerTerm
<1>6. Led(G, m.term)
  BY <1>2 DEF GInv, CallGood, InstallGood
<1> HIDE DEF p
<1>7. Followed(G, K, m, p)
  BY <1>2, <1>3, <1>5, <1>6, FollowerFollowed
<1>8. commitIndex[m.peer] \in Index /\ applied[m.peer] \in Seq(Entry)
  BY <1>5 DEF PeerReady
<1> QED BY <1>2, <1>4, <1>5, <1>6, <1>7, <1>8, CrashFollowed DEF Followed

\* A leader dies in its _maybeSnapshot.
LEMMA CrashInSnapshotKeeps ==
  ASSUME LogInv, DataInv', VoteStep, NEW G, NEW K, GInv(G, K), NEW r \in calls,
         CrashInSnapshot(r), r.term = currentTerm[r.caller]
  PROVE  \E J : GInv(G, J)'
<1> DEFINE i == r.caller
           t == currentTerm[i]
           p == disk[i]
           match == [matchIndex[i] EXCEPT ![r.peer] = r.newMatch]
           n == maybeAdvanceCommitIndex(i, match)
           h == applyCommitted(p, applied[i], n)
           q == Snapshotted(p, h)
<1>1. Typed
  BY DataTyped DEF LogInv
<1>2. /\ r.type = "AppendReply" /\ role[i] = Leader /\ r.success
      /\ n > commitIndex[i] /\ CrashWith(i, q, calls) /\ UNCHANGED voteRequests
  BY DEF CrashInSnapshot
<1>3. /\ Sound(G, K, t, p, commitIndex[i], applied[i])
      /\ IsStore(p) /\ t \in Nat /\ commitIndex[i] \in Index
      /\ applied[i] \in Seq(Entry) /\ \A u \in Nat : IsFull(G[u]) /\ i \in Server
      /\ DOMAIN Logs(disk) = Server /\ Logs(disk)[i] = StoreLog(p)
  <2>1. i \in Server
    BY <1>1 DEF Typed
  <2> QED BY <1>1, <2>1, SoundReplica
<1> HIDE DEF n
<1>4. q.currentTerm = t /\ currentTerm' = currentTerm
  <2>1. p.currentTerm = t
    BY <1>3 DEF LogInv, DataInv, ElectionInv, TypesOK, DiskOK, StoresVote
  <2> HIDE DEF h, p
  <2>2. q.currentTerm = t
    BY <1>3, <2>1, WritesKeepTerm
  <2> HIDE DEF q
  <2>3. currentTerm' = [currentTerm EXCEPT ![i] = q.currentTerm]
    BY <1>2 DEF CrashWith
  <2>4. currentTerm \in [Server -> Nat] /\ i \in Server
    BY <1>3 DEF LogInv, DataInv, ElectionInv, TypesOK, TermsOK
  <2>5. t = currentTerm[i]
    BY DEF t
  <2> HIDE DEF t, i
  <2>6. currentTerm' = [currentTerm EXCEPT ![i] = currentTerm[i]]
    BY <2>2, <2>3, <2>5
  <2>7. currentTerm' = currentTerm
    BY <2>4, <2>6
  <2> QED BY <2>2, <2>7
<1>5. PICK J : /\ Core(G, J, currentTerm', Logs(disk)) /\ MoreAcks(K, J, currentTerm)
               /\ Leads(G, J, t, StoreLog(p), match)
               /\ n > commitIndex[i] => n \in Nat /\ Fixed(G, J, StoreLog(p), n, t)
  BY <1>2, <1>4, LeaderCounts DEF n
<1>6. K \subseteq J
  BY <1>5 DEF MoreAcks
<1>7. Sound(G, J, t, p, commitIndex[i], applied[i])
  BY <1>3, <1>6, SoundKept, LogsGrowRefl
<1>8. n \in Index /\ n >= commitIndex[i] /\ (n >= 0 => Fixed(G, J, StoreLog(p), n, t))
  BY <1>2, <1>3, <1>5 DEF Index
<1>9. Sound(G, J, t, q, n, h) /\ StoreLog(q) = StoreLog(p)
  <2>1. \A u \in Nat : IsFull(G[u])
    BY <1>3
  <2>2. IsStore(p) /\ commitIndex[i] \in Index /\ applied[i] \in Seq(Entry)
    BY <1>3
  <2>3. n \in Index /\ n >= commitIndex[i]
    BY <1>8
  <2>4. n >= 0 => Fixed(G, J, StoreLog(p), n, t)
    BY <1>8
  <2>5. SettledWell(G, J, t, p, n, h)
    BY <1>7, <2>1, <2>2, <2>3, <2>4, SettleSound
  <2> HIDE DEF h, p, t, i
  <2> QED BY <2>5 DEF SettledWell
<1>10. h \in Seq(Entry)
  BY <1>3, <1>8, AppliedIsHistory
<1> HIDE DEF h
<1>11. IsStore(q)
  BY <1>3, <1>10, SnapshottedIsStore
<1> HIDE DEF q
<1>12. Core(G, J, currentTerm', [Logs(disk) EXCEPT ![i] = StoreLog(q)])
  <2>1. [Logs(disk) EXCEPT ![i] = StoreLog(q)] = Logs(disk)
    <3>1. Logs(disk)[i] = StoreLog(q) /\ i \in Server
      BY <1>3, <1>9
    <3> HIDE DEF i, p, t, match
    <3> QED BY <3>1 DEF Logs
  <2> QED BY <1>5, <2>1
<1>13. GInv(G, J)'
  <2>1. Sound(G, J, q.currentTerm, q, n, h)
    BY <1>4, <1>9
  <2> HIDE DEF i, t, p
  <2> QED BY <1>2, <1>3, <1>5, <1>6, <1>8, <1>10, <1>11, <1>12, <2>1, CrashKeeps
<1> QED BY <1>13

-----------------------------------------------------------------------------
(***************************************************************************)
(* The invariant of every undisturbed behaviour, and what follows from it. *)
(***************************************************************************)

\* The inductive invariant: with the logs the leaders of all terms had and the
\* acknowledgements ever sent.
SafeInv == LogInv /\ \E G, K : GInv(G, K)

\* The log of an empty store.
NoLog == [n \in 0 .. -1 |-> n]

\* An empty store shows the empty log.
LEMMA NoLogShown == /\ IsFull(NoLog) /\ DOMAIN NoLog = {}
                    /\ Shows(FreshStore, -1, NoLog) /\ StoreLog(FreshStore) = NoLog
<1>1. DOMAIN NoLog = {}
  BY DEF NoLog
<1>2. IsFull(NoLog)
  BY <1>1 DEF IsFull, NoLog, Index
<1>3. IsStore(FreshStore)
  <2>1. IsLog(FreshStore.log)
    BY DEF FreshStore, IsLog
  <2> QED BY <2>1 DEF IsStore, IsSnapshot, FreshStore, Index
<1>4. Shows(FreshStore, -1, NoLog)
  BY <1>1 DEF Shows, FreshStore, Rows, NoLog, Index, lastIndex
<1>5. StoreLog(FreshStore) = NoLog
  BY <1>3, <1>4, ShownLog
<1> QED BY <1>1, <1>2, <1>4, <1>5

\* It holds before the first election: no leaders, no acknowledgements.
LEMMA SafeInvInit == Init => SafeInv
<1> SUFFICES ASSUME Init PROVE SafeInv
  OBVIOUS
<1> DEFINE G == [t \in Nat |-> NoLog]
<1>1. LogInv
  BY LogInvInit
<1>2. \A i \in Server : disk[i] = FreshStore /\ currentTerm[i] = 0
  BY DEF Init
<1>3. Core(G, {}, currentTerm, Logs(disk))
  <2>1. \A t \in Nat : IsFull(G[t]) /\ From(G[t], G, t)
    BY NoLogShown DEF From
  <2>2. \A i \in Server : Logs(disk)[i] = NoLog
    BY <1>2, NoLogShown DEF Logs
  <2>3. \A i \in Server : From(NoLog, G, currentTerm[i])
    BY NoLogShown DEF From
  <2>4. AcksOK(G, {}, currentTerm, Logs(disk))
    BY DEF AcksOK
  <2>5. \A t \in Nat : ~Led(G, t)
    BY NoLogShown DEF Led
  <2>6. \A j \in Server : \A U : Cover(G, {}, j, U, NoLog)
    BY DEF Cover, Acked
  <2> HIDE DEF G
  <2>7. \A i \in Server : currentTerm[i] \in Nat /\ IsFull(NoLog)
    BY <1>2, NoLogShown
  <2> QED BY <2>1, <2>2, <2>3, <2>4, <2>5, <2>6, <2>7 DEF Core
<1>4. \A i \in Server : Sound(G, {}, currentTerm[i], disk[i], commitIndex[i], applied[i])
  BY <1>2, NoLogShown DEF Sound, Init, FreshStore
<1>5. \A t \in Nat : ~Led(G, t)
  BY NoLogShown DEF Led
<1>6. GInv(G, {})
  BY <1>3, <1>4, <1>5 DEF GInv, Init, Follower, Leader
<1> QED BY <1>1, <1>6 DEF SafeInv

\* Every step that Undisturbed allows keeps it, with ghosts that grew.
LEMMA UndisturbedKeeps ==
  ASSUME LogInv, DataInv', VoteStep, NEW G, NEW K, GInv(G, K), Next, Undisturbed
  PROVE  \E H, J : GInv(H, J)'
<1>1. CASE \E i \in Server : \/ StartElection(i) \/ Heartbeat(i) \/ Restart(i)
  BY <1>1, StartElectionKeeps, HeartbeatKeeps, RestartsKeep
<1>2. CASE \E i \in Server : ElectionWon(i) \/ \E s \in Stroke : Submit(i, s)
  BY <1>2, ElectionWonKeeps, SubmitKeeps
<1>3. CASE \E m \in voteRequests : HandleRequestVote(m) \/ CrashInRequestVote(m)
  BY <1>3, HandleRequestVoteKeeps, RestartsKeep
<1>4. CASE \/ \E r \in voteReplies : ElectionSteppedDown(r)
           \/ \E r \in calls : ReplyNewerTerm(r)
  BY <1>4, StepDownsKeep
<1>5. CASE \E m \in calls : RefuseStaleTerm(m) \/ AppendEntriesMismatch(m)
  BY <1>5, RefusalsKeep
<1>6. CASE \E m \in calls : HandleAppendEntries(m) \/ CrashInAppendEntries(m)
  BY <1>6, HandleAppendEntriesKeeps, CrashInAppendEntriesKeeps DEF Undisturbed
<1>7. CASE \E m \in calls : InstallSnapshotKnown(m) \/ HandleInstallSnapshot(m)
  BY <1>7, SnapshotKnownKeeps, HandleInstallSnapshotKeeps
<1>8. CASE \E m \in calls : CrashInInstallSnapshot(m)
  BY <1>8, CrashInInstallSnapshotKeeps DEF Undisturbed
<1>9. CASE \E r \in calls : ReplyAppended(r) \/ CrashInSnapshot(r)
  BY <1>9, ReplyAppendedKeeps, CrashInSnapshotKeeps DEF Undisturbed
<1>10. CASE \E r \in calls : ReplyRejected(r) \/ ReplyInstalled(r)
  BY <1>10, ReplyRejectedKeeps, ReplyInstalledKeeps
<1> QED BY <1>1, <1>2, <1>3, <1>4, <1>5, <1>6, <1>7, <1>8, <1>9, <1>10 DEF Next

\* The invariant is inductive under Undisturbed.
LEMMA SafeInvNext == SafeInv /\ [Next /\ Undisturbed]_vars => SafeInv'
<1> SUFFICES ASSUME SafeInv, [Next /\ Undisturbed]_vars PROVE SafeInv'
  OBVIOUS
<1>1. LogInv /\ DataInv /\ ElectionInv
  BY DEF SafeInv, LogInv, DataInv
<1>2. LogInv' /\ DataInv'
  <2>1. LogInv'
    BY <1>1, LogInvNext
  <2> QED BY <2>1 DEF LogInv
<1>3. PICK G, K : GInv(G, K)
  BY DEF SafeInv
<1>4. \E H, J : GInv(H, J)'
  <2>1. CASE Next /\ Undisturbed
    <3>1. VoteStep
      BY <1>1, <2>1, NextVoteStep
    <3> QED BY <1>1, <1>2, <1>3, <2>1, <3>1, UndisturbedKeeps
  <2>2. CASE UNCHANGED vars
    <3>1. GInv(G, K)'
      <4>1. UNCHANGED <<role, currentTerm, votedFor, commitIndex, matchIndex, applied, disk,
                        voteRequests, voteReplies, calls, decided>>
        BY <2>2 DEF vars, volatile, network
      <4>2. \A l, t : Owner(l, t) => Owner(l, t)'
        BY <4>1 DEF Owner, Elected, GrantedBy
      <4>3. DOMAIN G = Nat /\ Core(G, K, currentTerm', Logs(disk'))
        BY <1>3, <4>1 DEF GInv
      <4> QED BY <1>3, <4>1, <4>2, <4>3 DEF GInv
    <3> QED BY <3>1
  <2> QED BY <2>1, <2>2
<1> QED BY <1>2, <1>4 DEF SafeInv

\* It holds in every state of every undisturbed behaviour.
LEMMA UndisturbedSafe == UndisturbedSpec => []SafeInv
BY SafeInvInit, SafeInvNext, PTL DEF UndisturbedSpec

\* An applied entry has an index and is an entry.
LEMMA DecidedIndexes ==
  ASSUME LogInv, NEW d \in decided
  PROVE  d[1] \in Nat /\ d[2] \in Entry
BY DEF LogInv, EntriesTyped, Entries

\* The log of a replica, as its store shows it.
LEMMA ReplicaShows ==
  ASSUME LogInv, NEW G, NEW K, GInv(G, K), NEW i \in Server
  PROVE  /\ IsStore(disk[i]) /\ IsFull(StoreLog(disk[i])) /\ lastIndex(disk[i]) \in Int
         /\ lastIndex(disk[i]) >= disk[i].lastSnapshotIndex
         /\ From(StoreLog(disk[i]), G, currentTerm[i]) /\ currentTerm[i] \in Nat
         /\ Shows(disk[i], lastIndex(disk[i]), StoreLog(disk[i]))
         /\ DOMAIN StoreLog(disk[i]) = 0 .. lastIndex(disk[i])
         /\ Rows(disk[i]) \subseteq 0 .. lastIndex(disk[i])
<1>1. IsStore(disk[i])
  BY DEF LogInv, DataInv, DataOK, StoresOK
<1>2. \E b, X : Shows(disk[i], b, X)
  BY DEF GInv, Sound
<1>3. PICK b, X : Shows(disk[i], b, X)
  BY <1>2
<1>4. lastIndex(disk[i]) = b /\ StoreLog(disk[i]) = X
  BY <1>1, <1>3, ShownLog
<1>5. /\ b \in Int /\ disk[i].lastSnapshotIndex \in Int
      /\ disk[i].lastSnapshotIndex <= b /\ DOMAIN X = 0 .. b /\ IsFull(X)
  BY <1>1, <1>3, ShowsBounds
<1>6. /\ From(StoreLog(disk[i]), G, currentTerm[i]) /\ currentTerm[i] \in Nat
  BY DEF GInv, Core, Logs
<1>7. Rows(disk[i]) \subseteq 0 .. b
  BY <1>1, <1>4, LastIndexBounds
<1> QED BY <1>1, <1>3, <1>4, <1>5, <1>6, <1>7

\* A replica knows every entry of the log it shows.
LEMMA ReplicaHolds ==
  ASSUME LogInv, NEW G, NEW K, GInv(G, K), NEW i \in Server,
         NEW n \in DOMAIN StoreLog(disk[i])
  PROVE  Knows(disk[i], n) /\ EntryAt(disk[i], n) = StoreLog(disk[i])[n]
<1>1. /\ IsStore(disk[i]) /\ Shows(disk[i], lastIndex(disk[i]), StoreLog(disk[i]))
      /\ DOMAIN StoreLog(disk[i]) = 0 .. lastIndex(disk[i])
  BY ReplicaShows
<1> QED BY <1>1, ShownEntries

\* Applied entries are settled, and only one can be at an index.
LEMMA SafeMachines == SafeInv => StateMachineSafety
<1> SUFFICES ASSUME SafeInv, NEW a \in decided, NEW b \in decided, a[1] = b[1]
             PROVE  a[2] = b[2]
  BY DEF StateMachineSafety
<1>1. PICK G, K : GInv(G, K)
  BY DEF SafeInv
<1>2. a[1] \in Nat
  BY DecidedIndexes DEF SafeInv
<1>3. Core(G, K, currentTerm, Logs(disk)) /\ Settled(G, K, a) /\ Settled(G, K, b)
  BY <1>1 DEF GInv
<1> QED BY <1>2, <1>3, SettledOnce

\* A settled entry is in the logs of a majority, which show it.
LEMMA SafeQuorums == SafeInv => CommittedOnQuorum
<1> SUFFICES ASSUME SafeInv, NEW d \in decided
             PROVE  Cardinality({i \in Server : Holds(disk[i], d[1], d[2])}) >= Majority
  BY DEF CommittedOnQuorum
<1> DEFINE S == {i \in Server : Holds(disk[i], d[1], d[2])}
<1>1. PICK G, K : GInv(G, K)
  BY DEF SafeInv
<1>2. LogInv /\ d[1] \in Nat
  BY DecidedIndexes DEF SafeInv
<1>3. Core(G, K, currentTerm, Logs(disk)) /\ Settled(G, K, d)
  BY <1>1 DEF GInv
<1>4. PICK Q \in SUBSET Server :
        IsQuorum(Q) /\ \A j \in Q : d[1] \in DOMAIN Logs(disk)[j] /\ Logs(disk)[j][d[1]] = d[2]
  BY <1>2, <1>3, SettledOnQuorum
<1>5. Q \subseteq S
  <2> SUFFICES ASSUME NEW j \in Q PROVE Holds(disk[j], d[1], d[2])
    BY <1>4
  <2>1. d[1] \in DOMAIN StoreLog(disk[j]) /\ StoreLog(disk[j])[d[1]] = d[2]
    BY <1>4 DEF Logs
  <2>2. Knows(disk[j], d[1]) /\ EntryAt(disk[j], d[1]) = StoreLog(disk[j])[d[1]]
    BY <1>1, <1>2, <1>4, <2>1, ReplicaHolds
  <2> QED BY <2>1, <2>2 DEF Holds
<1>6. IsFiniteSet(S) /\ Cardinality(Q) <= Cardinality(S)
  <2>1. IsFiniteSet(S)
    BY FS_Subset, ServerAssumption
  <2> QED BY <1>5, <2>1, FS_Subset
<1>7. Cardinality(S) \in Nat /\ Cardinality(Q) \in Nat /\ Majority \in Nat
  <2>1. IsFiniteSet(Q)
    BY <1>5, <1>6, FS_Subset
  <2>2. Cardinality(Server) \in Nat
    BY ServerAssumption, FS_CardinalityType
  <2> QED BY <1>6, <2>1, <2>2, FS_CardinalityType DEF Majority
<1>8. Cardinality(Q) >= Majority
  BY <1>4 DEF IsQuorum
<1> HIDE DEF S
<1> QED BY <1>6, <1>7, <1>8 DEF S

\* The logs are copied from leaders, with all that is below an entry.
LEMMA SafeLogsMatch == SafeInv => LogMatching
<1> SUFFICES ASSUME SafeInv, NEW i \in Server, NEW j \in Peers(i)
             PROVE  LET same == {n \in Rows(disk[i]) \cap Rows(disk[j]) :
                                   disk[i].log[n].term = disk[j].log[n].term}
                    IN  \A k \in 0 .. Max(same \cup {-1}) :
                          Knows(disk[i], k) /\ Knows(disk[j], k)
                            => EntryAt(disk[i], k) = EntryAt(disk[j], k)
  BY DEF LogMatching
<1> DEFINE X == StoreLog(disk[i])
           Y == StoreLog(disk[j])
           same == {n \in Rows(disk[i]) \cap Rows(disk[j]) :
                      disk[i].log[n].term = disk[j].log[n].term}
           n == Max(same \cup {-1})
<1>1. PICK G, K : GInv(G, K)
  BY DEF SafeInv
<1>2. LogInv /\ j \in Server
  BY DEF SafeInv, Peers
<1>3. /\ From(X, G, currentTerm[i]) /\ DOMAIN X = 0 .. lastIndex(disk[i])
      /\ lastIndex(disk[i]) \in Int /\ Rows(disk[i]) \subseteq 0 .. lastIndex(disk[i])
      /\ From(Y, G, currentTerm[j]) /\ DOMAIN Y = 0 .. lastIndex(disk[j])
      /\ lastIndex(disk[j]) \in Int /\ Rows(disk[j]) \subseteq 0 .. lastIndex(disk[j])
  BY <1>1, <1>2, ReplicaShows
<1> SUFFICES ASSUME NEW k \in 0 .. n PROVE EntryAt(disk[i], k) = EntryAt(disk[j], k)
  OBVIOUS
<1>4. n \in same
  <2>1. \A m \in same \cup {-1} : m \in Int /\ m <= Greater(lastIndex(disk[i]), 0)
    BY <1>3 DEF Greater
  <2>2. Greater(lastIndex(disk[i]), 0) \in Int
    BY <1>3 DEF Greater
  <2>3. n \in same \cup {-1}
    <3> HIDE DEF same
    <3> QED BY <2>1, <2>2, MaxOfBounded
  <2> HIDE DEF n, same
  <2>4. n # -1
    BY <2>1, <2>3
  <2> QED BY <2>3, <2>4
<1>5. /\ n \in Rows(disk[i]) /\ n \in Rows(disk[j]) /\ n \in DOMAIN X /\ n \in DOMAIN Y
      /\ disk[i].log[n].term = disk[j].log[n].term
  BY <1>3, <1>4
<1>6. EntryAt(disk[i], n) = X[n] /\ EntryAt(disk[j], n) = Y[n]
  BY <1>1, <1>2, <1>5, ReplicaHolds
<1>7. X[n].term = Y[n].term
  BY <1>5, <1>6 DEF EntryAt
<1> HIDE DEF X, Y, n, same
<1>8. Has(X, n, X[n].term) /\ Has(Y, n, X[n].term)
  BY <1>5, <1>7 DEF Has
<1>9. Agrees(X, Y, n)
  BY <1>3, <1>8, SameTermAgrees
<1>10. X[k] = Y[k]
  BY <1>9 DEF Agrees
<1>11. k \in DOMAIN X /\ k \in DOMAIN Y
  BY <1>3, <1>5
<1> QED BY <1>1, <1>2, <1>10, <1>11, ReplicaHolds DEF X, Y

\* A store shows a log without holes.
LEMMA SafeRecovers == SafeInv => Recoverable
<1> SUFFICES ASSUME SafeInv, NEW i \in Server, NEW n \in 0 .. lastIndex(disk[i])
             PROVE  Knows(disk[i], n)
  BY DEF Recoverable
<1>1. PICK G, K : GInv(G, K)
  BY DEF SafeInv
<1>2. DOMAIN StoreLog(disk[i]) = 0 .. lastIndex(disk[i])
  BY <1>1, ReplicaShows DEF SafeInv
<1> QED BY <1>1, <1>2, ReplicaHolds DEF SafeInv

\* A store shows a log its snapshot is a part of, and terms grow along it.
LEMMA SafeReaches == SafeInv => LogReachesSnapshot
<1> SUFFICES ASSUME SafeInv, NEW i \in Server
             PROVE  /\ lastIndex(disk[i]) >= disk[i].lastSnapshotIndex
                    /\ lastTerm(disk[i]) >= disk[i].lastSnapshotTerm
  BY DEF LogReachesSnapshot
<1> DEFINE p == disk[i]
           X == StoreLog(p)
           b == lastIndex(p)
           s == p.lastSnapshotIndex
<1>1. PICK G, K : GInv(G, K)
  BY DEF SafeInv
<1>2. /\ IsStore(p) /\ b \in Int /\ b >= s /\ From(X, G, currentTerm[i]) /\ IsFull(X)
      /\ Shows(p, b, X) /\ DOMAIN X = 0 .. b
  BY <1>1, ReplicaShows DEF SafeInv
<1>3. \A t \in Nat : IsFull(G[t]) /\ From(G[t], G, t)
  BY <1>1 DEF GInv, Core
<1> HIDE DEF p
<1>4. lastTerm(p) = IF b = -1 THEN -1 ELSE X[b].term
  BY <1>2, ShownLog
<1>5. /\ s = -1 => p.lastSnapshotTerm = -1
      /\ s >= 0 => p.lastSnapshotTerm = X[s].term
  BY <1>2 DEF Shows
<1>6. s \in Int /\ s >= -1
  BY <1>2, ShowsBounds
<1> HIDE DEF X, b, s
<1>7. lastTerm(p) >= p.lastSnapshotTerm
  <2>1. CASE b = -1
    <3>1. s = -1
      BY <1>2, <1>6, <2>1
    <3> QED BY <1>4, <1>5, <2>1, <3>1
  <2>2. CASE b # -1
    <3>1. b \in DOMAIN X /\ b >= 0
      BY <1>2, <1>6, <2>2
    <3>2. X[b].term \in Nat /\ \A m \in 0 .. b : X[m].term \in Nat /\ X[m].term <= X[b].term
      <4>1. b \in 0 .. b
        BY <1>2, <3>1
      <4> QED BY <1>2, <1>3, <3>1, <4>1, TermsGrow
    <3>3. CASE s = -1
      BY <1>4, <1>5, <2>2, <3>2, <3>3
    <3>4. CASE s >= 0
      <4>1. s \in 0 .. b
        BY <1>2, <1>6, <3>4
      <4> QED BY <1>4, <1>5, <2>2, <3>2, <3>4, <4>1
    <3> QED BY <1>6, <3>3, <3>4
  <2> QED BY <2>1, <2>2
<1> QED BY <1>2, <1>7 DEF p, b, s

\* A leader that nobody is ahead of has every settled entry in its log.
LEMMA SafeLeaders == SafeInv => LeaderCompleteness
<1> SUFFICES ASSUME SafeInv, NEW i \in Server, role[i] = Leader,
                    \A j \in Server : currentTerm[j] <= currentTerm[i], NEW d \in decided
             PROVE  Holds(disk[i], d[1], d[2])
  BY DEF LeaderCompleteness
<1> DEFINE X == StoreLog(disk[i])
           V == currentTerm[i]
<1>1. PICK G, K : GInv(G, K)
  BY DEF SafeInv
<1>2. LogInv /\ d[1] \in Nat
  BY DecidedIndexes DEF SafeInv
<1>3. Core(G, K, currentTerm, Logs(disk)) /\ X = G[V] /\ Led(G, V) /\ V \in Nat
  <2>1. Core(G, K, currentTerm, Logs(disk)) /\ V \in Nat
    BY <1>1 DEF GInv, Core
  <2>2. Leads(G, K, V, X, matchIndex[i])
    BY <1>1 DEF GInv
  <2> HIDE DEF X, V
  <2> QED BY <2>1, <2>2 DEF Leads, Led, Has
<1>4. PICK t \in Nat : Fixed(G, K, G[t], d[1], t) /\ d[2] = G[t][d[1]]
  BY <1>1 DEF GInv, Settled
<1>5. t <= V
  <2>1. PICK n \in Nat, u \in Nat : u <= t /\ Chosen(G, K, n, u) /\ Agrees(G[t], G[u], d[1])
    BY <1>4 DEF Fixed
  <2>2. Led(G, t)
    BY <2>1 DEF Agrees, Led
  <2>3. PICK l \in Server : Owner(l, t)
    BY <1>1, <2>2 DEF GInv
  <2>4. t <= currentTerm[l] /\ currentTerm[l] \in Nat
    BY <1>3, <2>3 DEF Owner, Core
  <2> QED BY <1>3, <2>3, <2>4
<1>6. IsFull(G[t])
  BY <1>3 DEF Core
<1>7. Agrees(G[t], G[V], d[1])
  BY <1>2, <1>3, <1>4, <1>5, <1>6, FixedIsLeaders
<1>8. d[1] \in DOMAIN X /\ X[d[1]] = d[2]
  <2> HIDE DEF X, V
  <2>1. d[1] \in 0 .. d[1]
    BY <1>2
  <2> QED BY <1>3, <1>4, <1>7, <2>1 DEF Agrees
<1>9. Knows(disk[i], d[1]) /\ EntryAt(disk[i], d[1]) = X[d[1]]
  BY <1>1, <1>2, <1>8, ReplicaHolds
<1> QED BY <1>8, <1>9 DEF Holds

\* A peer acknowledged what its matchIndex says, and has it as long as it stays
\* in the term.
LEMMA SafeCounts == SafeInv => MatchIndexSound
<1> SUFFICES ASSUME SafeInv, NEW i \in Server, NEW j \in Peers(i), NEW n \in 0 .. matchIndex[i][j],
                    role[i] = Leader, currentTerm[j] <= currentTerm[i],
                    Knows(disk[i], n), EntryAt(disk[i], n).term = currentTerm[i],
                    NEW k \in 0 .. n, Knows(disk[i], k)
             PROVE  Holds(disk[j], k, EntryAt(disk[i], k))
  BY DEF MatchIndexSound
<1> DEFINE X == StoreLog(disk[i])
           Y == StoreLog(disk[j])
           V == currentTerm[i]
           match == matchIndex[i]
<1>1. PICK G, K : GInv(G, K)
  BY DEF SafeInv
<1>2. LogInv /\ j \in Server
  BY DEF SafeInv, Peers
<1>3. Typed
  BY <1>2, DataTyped DEF LogInv
<1>4. /\ Core(G, K, currentTerm, Logs(disk)) /\ Leads(G, K, V, X, match)
      /\ V \in Nat /\ currentTerm[j] \in Nat /\ match \in [Peers(i) -> Index]
      /\ Logs(disk)[j] = Y
  BY <1>1, <1>2, <1>3, SoundReplica DEF GInv, Typed
<1>5. IsFull(X) /\ IsFull(Y)
  BY <1>1, <1>2, ReplicaShows
<1>6. X = G[V] /\ match[j] \in DOMAIN X \cup {-1} /\ j \in DOMAIN match
      /\ (Has(X, n, V) => Acked(K, j, n, V))
  BY <1>4 DEF Leads
<1>7. n \in Nat /\ k \in Nat /\ n \in DOMAIN X /\ k \in DOMAIN X
  <2>1. match[j] \in Int /\ n \in Nat /\ n <= match[j]
    BY <1>4, <1>6 DEF Index
  <2>2. match[j] \in DOMAIN X
    BY <1>6, <2>1
  <2>3. 0 .. match[j] \subseteq DOMAIN X
    BY <1>5, <2>2, FullBelow
  <2> QED BY <2>1, <2>3
<1>8. EntryAt(disk[i], n) = X[n] /\ EntryAt(disk[i], k) = X[k]
  BY <1>1, <1>2, <1>7, ReplicaHolds
<1> HIDE DEF X, Y, V, match
<1>9. Has(X, n, V)
  BY <1>7, <1>8 DEF Has, V
<1>10. PICK q \in Nat : q >= n /\ <<j, q, V>> \in K
  BY <1>6, <1>9 DEF Acked
<1>11. V <= currentTerm[j] /\ (V = currentTerm[j] => Agrees(Y, G[V], q))
  BY <1>2, <1>4, <1>10 DEF Core, AcksOK
<1>12. Agrees(Y, X, q)
  BY <1>4, <1>6, <1>11 DEF V
<1>13. k \in DOMAIN Y /\ Y[k] = X[k]
  <2>1. k \in 0 .. q
    BY <1>7, <1>10
  <2> QED BY <1>5, <1>12, <2>1, AgreesUp DEF Agrees
<1>14. Knows(disk[j], k) /\ EntryAt(disk[j], k) = Y[k]
  BY <1>1, <1>2, <1>13, ReplicaHolds DEF Y
<1> QED BY <1>8, <1>13, <1>14 DEF Holds

\* The log a store shows reaches the commit index, and the rows begin at the
\* latest where the state machine has to go on.
LEMMA SafeAtHand == SafeInv => CommittedIsAtHand
<1> SUFFICES ASSUME SafeInv, NEW i \in Server
             PROVE  Len(applied[i]) .. commitIndex[i] \subseteq Rows(disk[i])
  BY DEF CommittedIsAtHand
<1> DEFINE p == disk[i]
           c == commitIndex[i]
           app == applied[i]
<1>1. PICK G, K : GInv(G, K)
  BY DEF SafeInv
<1>2. LogInv /\ Typed
  BY DataTyped DEF SafeInv, LogInv
<1>3. /\ Sound(G, K, currentTerm[i], p, c, app) /\ IsStore(p) /\ c \in Index
      /\ app \in Seq(Entry) /\ \A t \in Nat : IsFull(G[t])
  BY <1>1, <1>2, SoundReplica
<1> HIDE DEF p, c, app
<1>4. PICK b, X : Shows(p, b, X)
  BY <1>3 DEF Sound
<1>5. c <= b
  BY <1>3, <1>4, CommitInLog
<1>6. /\ b \in Int /\ p.lastSnapshotIndex \in Int /\ c \in Int /\ Len(app) \in Nat
      /\ p.lastSnapshotIndex <= Len(app) - 1
  BY <1>3, <1>4, ShowsBounds DEF Index, Sound
<1>7. PICK f \in 0 .. p.lastSnapshotIndex + 1 : Rows(p) = f .. b
  BY <1>4 DEF Shows
<1>8. Len(app) .. c \subseteq f .. b
  BY <1>5, <1>6
<1> QED BY <1>7, <1>8 DEF p, c, app

\* A follower's commit index follows the leader's, and its log reaches both.
LEMMA FollowerCommits ==
  ASSUME LogInv, NEW G, NEW K, GInv(G, K), NEW m \in calls, HandleAppendEntries(m), ~Overtaken(m),
         NEW i \in Server
  PROVE  commitIndex'[i] >= commitIndex[i]
<1> DEFINE j == m.peer
           c == commitIndex[j]
           p == FollowerStore(j, m.term)
           q == Stored(p, m.entries)
           d == Lesser(m.leaderCommit, lastIndex(q))
<1>1. Typed
  BY DataTyped DEF LogInv
<1>2. /\ m.type = "AppendEntries" /\ Follow(m)
      /\ matched(disk[j], m.prevLogIndex, m.prevLogTerm)
      /\ \/ commitFollows(c, m) /\ commitIndex' = [commitIndex EXCEPT ![j] = d]
         \/ commitIndex' = commitIndex
  BY DEF HandleAppendEntries, Settle
<1>3. /\ j \in Server /\ m.prevLogIndex \in Index /\ m.leaderCommit \in Index
      /\ IsLog(m.entries) /\ c \in Index /\ commitIndex[i] \in Index
      /\ DOMAIN commitIndex = Server
  BY <1>1, <1>2 DEF Typed, CallOK
<1>4. currentTerm[j] <= m.term
  BY <1>1, <1>2, FollowTerm
<1>5. PeerReady(G, K, m, p)
  BY PeerIsReady
<1>6. AppendGood(G, K, m)
  BY <1>2 DEF GInv, CallGood
<1> HIDE DEF p
<1>7. matched(p, m.prevLogIndex, m.prevLogTerm)
  BY <1>2, <1>5 DEF matched, PeerReady, Rows
<1>8. Followed(G, K, m, q)
  BY <1>3, <1>4, <1>5, <1>6, <1>7, StoredFollowed
<1> HIDE DEF q
<1>9. lastIndex(q) \in Int /\ c <= lastIndex(q)
  <2>1. IsStore(q) /\ Sound(G, K, m.term, q, c, applied[j])
    BY <1>8 DEF Followed
  <2>2. PICK b, X : Shows(q, b, X)
    BY <2>1 DEF Sound
  <2>3. lastIndex(q) = b /\ b \in Int
    BY <2>1, <2>2, ShownLog, ShowsBounds
  <2>4. \A t \in Nat : IsFull(G[t])
    BY LogsAreFull DEF GInv
  <2> QED BY <1>3, <2>1, <2>2, <2>3, <2>4, CommitInLog
<1>10. ASSUME commitFollows(c, m) PROVE d >= c
  BY <1>3, <1>9, <1>10 DEF commitFollows, Index, Lesser
<1>11. commitIndex[i] \in Int
  BY <1>3 DEF Index
<1> HIDE DEF c, d
<1> QED BY <1>2, <1>3, <1>10, <1>11 DEF c

\* No step of a process that lives lowers its commit index.
LEMMA CommitsGrow ==
  ASSUME SafeInv, SafeInv', Next /\ Undisturbed, restarts' = restarts, NEW i \in Server
  PROVE  commitIndex'[i] >= commitIndex[i]
<1>1. LogInv /\ Typed /\ restarts \in Nat
  BY DataTyped DEF SafeInv, LogInv, DataInv, DataOK, CountsOK
<1>2. commitIndex[i] \in Int /\ DOMAIN commitIndex = Server /\ commitIndex'[i] \in Int
  BY <1>1 DEF Typed, Index, SafeInv, LogInv, DataInv, DataOK, MachinesOK
<1>3. CASE commitIndex' = commitIndex
  BY <1>2, <1>3
<1>4. CASE \E m \in calls : HandleAppendEntries(m)
  <2>1. PICK m \in calls : HandleAppendEntries(m)
    BY <1>4
  <2>2. PICK G, K : GInv(G, K)
    BY DEF SafeInv
  <2>3. ~Overtaken(m)
    BY <2>1 DEF Undisturbed
  <2> QED BY <1>1, <2>1, <2>2, <2>3, FollowerCommits
<1>5. CASE \E m \in calls : HandleInstallSnapshot(m)
  <2>1. PICK m \in calls : HandleInstallSnapshot(m)
    BY <1>5
  <2>2. /\ commitIndex' = [commitIndex EXCEPT ![m.peer] = Greater(@, m.lastIncludedIndex)]
        /\ m.type = "InstallSnapshot"
    BY <2>1 DEF HandleInstallSnapshot
  <2>3. m.lastIncludedIndex \in Int
    BY <1>1, <2>2 DEF Typed, CallOK, IsSnapshot, Index
  <2> QED BY <1>2, <2>2, <2>3 DEF Greater
<1>6. CASE \E r \in calls : ReplyAppended(r)
  <2>1. PICK r \in calls : ReplyAppended(r)
    BY <1>6
  <2>2. \/ commitIndex' = commitIndex
        \/ \E d : d > commitIndex[r.caller] /\ commitIndex' = [commitIndex EXCEPT ![r.caller] = d]
    BY <2>1 DEF ReplyAppended, Settle
  <2> QED BY <1>2, <2>2
<1>7. CASE \/ \E k \in Server : Restart(k)
           \/ \E m \in voteRequests : CrashInRequestVote(m)
           \/ \E m \in calls : \/ CrashInAppendEntries(m) \/ CrashInInstallSnapshot(m)
                               \/ CrashInSnapshot(m)
  <2>1. PICK k, p, left : CrashWith(k, p, left)
    BY <1>7 DEF Restart, CrashInRequestVote, CrashInAppendEntries, CrashInInstallSnapshot,
                CrashInSnapshot
  <2>2. restarts' = restarts + 1
    BY <2>1 DEF CrashWith
  <2> QED BY <1>1, <2>2
<1>8. CASE \/ \E k \in Server : \/ StartElection(k) \/ ElectionWon(k) \/ Heartbeat(k)
                                \/ \E s \in Stroke : Submit(k, s)
           \/ \E m \in voteRequests : HandleRequestVote(m)
           \/ \E r \in voteReplies : ElectionSteppedDown(r)
           \/ \E m \in calls : \/ RefuseStaleTerm(m) \/ AppendEntriesMismatch(m)
                               \/ InstallSnapshotKnown(m) \/ ReplyNewerTerm(m)
                               \/ ReplyRejected(m) \/ ReplyInstalled(m)
  <2>1. commitIndex' = commitIndex
    BY <1>8 DEF StartElection, ElectionWon, Heartbeat, Submit, HandleRequestVote,
                ElectionSteppedDown, RefuseStaleTerm, AppendEntriesMismatch,
                InstallSnapshotKnown, ReplyNewerTerm, ReplyRejected, ReplyInstalled, volatile
  <2> QED BY <1>3, <2>1
<1> QED BY <1>4, <1>5, <1>6, <1>7, <1>8 DEF Next

-----------------------------------------------------------------------------
(***************************************************************************)
(* The theorems: what Raft promises, for every number of replicas, every   *)
(* bound and every loss, delay, repetition and overtaking of messages,     *)
(* with crashes between the writes of the handlers, as long as no step of  *)
(* Undisturbed's list is taken.                                            *)
(***************************************************************************)

\* No two replicas, and no two lives of one, apply different entries at one
\* index: _applyCommitted on leader and follower, start and
\* handleInstallSnapshot from a snapshot.
THEOREM MachineSafetyTheorem == UndisturbedSpec => []StateMachineSafety
BY UndisturbedSafe, SafeMachines, PTL

\* What was ever applied stays on the disks of a majority, in the log or in the
\* snapshot, through truncateFrom, truncateUpTo, truncateAll and crashes.
THEOREM QuorumTheorem == UndisturbedSpec => []CommittedOnQuorum
BY UndisturbedSafe, SafeQuorums, PTL

\* A leader that no replica is ahead of has every entry ever applied: the
\* up-to-date check of handleRequestVote, with the terms of compacted logs.
THEOREM LeaderTheorem == UndisturbedSpec => []LeaderCompleteness
BY UndisturbedSafe, SafeLeaders, PTL

\* Two logs with a row of the same index and term agree on all below that both
\* know: the check of prevLogIndex and prevLogTerm in handleAppendEntries.
THEOREM MatchingTheorem == UndisturbedSpec => []LogMatching
BY UndisturbedSafe, SafeLogsMatch, PTL

\* Log and snapshot leave no index out, and the log a replica asks for votes
\* with never falls behind its snapshot: start can rebuild the state machine
\* after a crash between any two writes.
THEOREM RecoveryTheorem == UndisturbedSpec => [](Recoverable /\ LogReachesSnapshot)
BY UndisturbedSafe, SafeRecovers, SafeReaches, PTL

\* What a leader counts a peer for, the peer has, with all before it: the
\* matchIndex that the code after an await sets, whatever was overtaken.
THEOREM CountingTheorem == UndisturbedSpec => []MatchIndexSound
BY UndisturbedSafe, SafeCounts, PTL

\* What is committed and not applied is in the rows: _applyCommitted never stops
\* at a missing row, not even after an older snapshot took the machine back.
THEOREM AtHandTheorem == UndisturbedSpec => []CommittedIsAtHand
BY UndisturbedSafe, SafeAtHand, PTL

\* The commit index of a living process never falls: handleAppendEntries and
\* handleInstallSnapshot never set it below what it was.
THEOREM CommitTheorem == UndisturbedSpec => CommitIndexGrows
<1>1. SafeInv /\ [Next /\ Undisturbed]_vars
        => [\A i \in Server : restarts' = restarts => commitIndex'[i] >= commitIndex[i]]_vars
  BY CommitsGrow, SafeInvNext
<1> QED BY <1>1, UndisturbedSafe, PTL DEF UndisturbedSpec, CommitIndexGrows

\* Without a disturbing step the replicas implement one replicated log, with no
\* assumption about what they apply.
THEOREM UndisturbedRefinement == UndisturbedSpec => ImplementsReplicatedLog
<1>1. [Next /\ Undisturbed]_vars => [Next]_vars
  OBVIOUS
<1>2. UndisturbedSpec => Spec
  BY <1>1, PTL DEF UndisturbedSpec, Spec
<1>3. UndisturbedSpec => []StateMachineSafety
  BY MachineSafetyTheorem
<1> QED BY <1>2, <1>3, RefinementTheorem, PTL
=============================================================================
