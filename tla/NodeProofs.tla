----------------------------- MODULE NodeProofs -----------------------------
(***************************************************************************)
(* What holds of RaftNode in every behaviour, for every number of          *)
(* replicas, every bound, every loss, delay and overtaking of messages and *)
(* every crash inside a handler: one leader for a term (ElectionSafety),   *)
(* votes that stay (VoteOnce), the types (TypeOK), a leader's log that     *)
(* only grows (LeaderAppendOnly) and entries that index and term name      *)
(* (EntriesUnique). The last theorem is the refinement of ReplicatedLog,   *)
(* as long as one entry is applied at an index; SafetyProofs says when     *)
(* that is so.                                                             *)
(***************************************************************************)
EXTENDS RaftNode, NaturalFacts, FiniteSetTheorems, SequenceTheorems, TLAPS

-----------------------------------------------------------------------------
(***************************************************************************)
(* Election safety of RaftNode, for every number of replicas, every bound  *)
(* and every loss, delay and overtaking of messages.                       *)
(*                                                                         *)
(* The argument: a vote is on disk before the reply that grants it exists, *)
(* and it is never changed within a term (GoodStep), so the grants that    *)
(* were ever given are consistent (GrantsOK); whoever leads or has led a   *)
(* term had a majority of them (LeadershipOK); two majorities meet.        *)
(***************************************************************************)

\* What is on disk of the term and the vote is what is in memory, and the
\* messages name replicas and terms.
StoresVote(p, term, vote) ==
  /\ {"currentTerm", "votedFor"} \subseteq DOMAIN p
  /\ p.currentTerm = term
  /\ p.votedFor = vote

TermsOK ==
  /\ role \in [Server -> {Follower, Candidate, Leader}]
  /\ currentTerm \in [Server -> Nat]
  /\ votedFor \in [Server -> Server \cup {Nil}]

DiskOK ==
  /\ DOMAIN disk = Server
  /\ \A i \in Server : StoresVote(disk[i], currentTerm[i], votedFor[i])

MessagesOK ==
  /\ \A m \in voteRequests : m.src \in Server /\ m.dst \in Server /\ m.term \in Nat
  /\ \A r \in voteReplies :
       r.src \in Server /\ r.dst \in Server /\ r.ballot \in Nat /\ r.term \in Nat
  /\ \A c \in calls :
       /\ {"type", "caller", "peer", "term"} \subseteq DOMAIN c
       /\ c.caller \in Server /\ c.peer \in Server /\ c.term \in Nat

TypesOK == TermsOK /\ DiskOK /\ MessagesOK

\* A candidate and a leader have voted for themselves.
RolesOK == \A i \in Server : role[i] # Follower => votedFor[i] = i

\* A grant binds its voter while the voter stays in the term, and no voter
\* has granted two candidates the same term.
GrantsOK ==
  /\ \A r \in voteReplies : r.granted =>
       /\ r.ballot <= currentTerm[r.src]
       /\ r.ballot = currentTerm[r.src] => votedFor[r.src] = r.dst
  /\ \A r, q \in voteReplies :
       (r.granted /\ q.granted /\ r.src = q.src /\ r.ballot = q.ballot) => r.dst = q.dst

GrantedBy(j, i, t) ==
  \E r \in voteReplies : r.granted /\ r.src = j /\ r.dst = i /\ r.ballot = t

Elected(i, t) ==
  \E Q \in SUBSET Server :
    /\ Cardinality(Q) >= Majority
    /\ \A j \in Q : j = i \/ GrantedBy(j, i, t)

\* Whoever acts or acted as leader of a term was elected in it, voted for
\* itself in it, and for nobody else.
LeadershipOK ==
  \A l \in Leaderships :
    /\ l[2] <= currentTerm[l[1]]
    /\ l[2] = currentTerm[l[1]] => votedFor[l[1]] = l[1]
    /\ \A r \in voteReplies :
         (r.granted /\ r.src = l[1] /\ r.ballot = l[2]) => r.dst = l[1]
    /\ Elected(l[1], l[2])

ElectionInv == TypesOK /\ RolesOK /\ GrantsOK /\ LeadershipOK

-----------------------------------------------------------------------------
(***************************************************************************)
(* What every step of RaftNode does to the votes.                          *)
(***************************************************************************)
GoodStep ==
  /\ \A j \in Server : currentTerm'[j] >= currentTerm[j]
  /\ \A j \in Server :
       (currentTerm'[j] = currentTerm[j] /\ votedFor[j] # Nil)
         => votedFor'[j] = votedFor[j]
  /\ voteReplies \subseteq voteReplies'
  /\ \A r \in voteReplies' : r.granted =>
       \/ r \in voteReplies
       \/ r.ballot = currentTerm'[r.src] /\ votedFor'[r.src] = r.dst
  /\ \A l \in Leaderships' :
       \/ l \in Leaderships
       \/ /\ l[2] = currentTerm'[l[1]]
          /\ votedFor'[l[1]] = l[1]
          /\ Elected(l[1], l[2])

\* The leader or former leader a leadership names is a replica.
LEMMA LeadershipTypes ==
  ASSUME TypesOK
  PROVE  \A l \in Leaderships : l[1] \in Server /\ l[2] \in Nat
  BY DEF TypesOK, TermsOK, MessagesOK, Leaderships

\* A step that is a GoodStep keeps the grants consistent and the leaders elected.
LEMMA GoodStepPreserves ==
  ASSUME ElectionInv, TypesOK', RolesOK', GoodStep
  PROVE  ElectionInv'
<1>1. ASSUME NEW r \in voteReplies', r.granted
      PROVE  /\ r.ballot <= currentTerm'[r.src]
             /\ r.ballot = currentTerm'[r.src] => votedFor'[r.src] = r.dst
  <2>1. r.src \in Server /\ r.dst \in Server /\ r.ballot \in Nat
    BY DEF TypesOK, MessagesOK
  <2>2. CASE r \in voteReplies
    <3>1. /\ r.ballot <= currentTerm[r.src]
          /\ r.ballot = currentTerm[r.src] => votedFor[r.src] = r.dst
      BY <1>1, <2>2 DEF ElectionInv, GrantsOK
    <3>2. /\ currentTerm'[r.src] >= currentTerm[r.src]
          /\ currentTerm'[r.src] = currentTerm[r.src] /\ votedFor[r.src] # Nil
               => votedFor'[r.src] = votedFor[r.src]
      BY <2>1 DEF GoodStep
    <3>3. currentTerm[r.src] \in Nat /\ currentTerm'[r.src] \in Nat
      BY <2>1 DEF ElectionInv, TypesOK, TermsOK
    <3>4. r.dst # Nil
      BY <2>1, ServerAssumption
    <3> QED BY <2>1, <3>1, <3>2, <3>3, <3>4
  <2>3. CASE r \notin voteReplies
    <3>1. r.ballot = currentTerm'[r.src] /\ votedFor'[r.src] = r.dst
      BY <1>1, <2>3 DEF GoodStep
    <3> QED BY <3>1, <2>1
  <2> QED BY <2>2, <2>3
<1>2. ASSUME NEW r \in voteReplies', NEW q \in voteReplies', r.granted, q.granted,
             r.src = q.src, r.ballot = q.ballot
      PROVE  r.dst = q.dst
  <2>1. CASE r \in voteReplies /\ q \in voteReplies
    BY <1>2, <2>1 DEF ElectionInv, GrantsOK
  <2>2. CASE r \notin voteReplies \/ q \notin voteReplies
    <3>1. r.ballot = currentTerm'[r.src]
      BY <1>2, <2>2 DEF GoodStep
    <3> QED BY <1>1, <1>2, <3>1
  <2> QED BY <2>1, <2>2
<1>3. GrantsOK'
  BY <1>1, <1>2 DEF GrantsOK
<1>4. ASSUME NEW i, NEW t, Elected(i, t)
      PROVE  Elected(i, t)'
  BY <1>4 DEF GoodStep, Elected, GrantedBy
<1>5. ASSUME NEW l \in Leaderships'
      PROVE  /\ l[2] <= currentTerm'[l[1]]
             /\ l[2] = currentTerm'[l[1]] => votedFor'[l[1]] = l[1]
             /\ \A r \in voteReplies' :
                  (r.granted /\ r.src = l[1] /\ r.ballot = l[2]) => r.dst = l[1]
             /\ Elected(l[1], l[2])'
  <2>1. l[1] \in Server /\ l[2] \in Nat
    BY <1>5, LeadershipTypes DEF TypesOK, TermsOK, MessagesOK, Leaderships
  <2>2. currentTerm[l[1]] \in Nat /\ currentTerm'[l[1]] \in Nat
    BY <2>1 DEF ElectionInv, TypesOK, TermsOK
  <2>3. l[1] # Nil
    BY <2>1, ServerAssumption
  <2>4. /\ currentTerm'[l[1]] >= currentTerm[l[1]]
        /\ currentTerm'[l[1]] = currentTerm[l[1]] /\ votedFor[l[1]] # Nil
             => votedFor'[l[1]] = votedFor[l[1]]
    BY <2>1 DEF GoodStep
  <2>5. CASE l \in Leaderships
    <3>1. /\ l[2] <= currentTerm[l[1]]
          /\ l[2] = currentTerm[l[1]] => votedFor[l[1]] = l[1]
          /\ Elected(l[1], l[2])
      BY <2>5 DEF ElectionInv, LeadershipOK
    <3>2. l[2] <= currentTerm'[l[1]] /\ (l[2] = currentTerm'[l[1]] => votedFor'[l[1]] = l[1])
      BY <2>1, <2>2, <2>3, <2>4, <3>1
    <3>3. ASSUME NEW r \in voteReplies', r.granted, r.src = l[1], r.ballot = l[2]
          PROVE  r.dst = l[1]
      <4>1. CASE r \in voteReplies
        BY <2>5, <3>3, <4>1 DEF ElectionInv, LeadershipOK
      <4>2. CASE r \notin voteReplies
        BY <3>2, <3>3, <4>2 DEF GoodStep
      <4> QED BY <4>1, <4>2
    <3> QED BY <1>4, <3>1, <3>2, <3>3
  <2>6. CASE l \notin Leaderships
    <3>1. /\ l[2] = currentTerm'[l[1]]
          /\ votedFor'[l[1]] = l[1]
          /\ Elected(l[1], l[2])
      BY <1>5, <2>6 DEF GoodStep
    <3>2. \A r \in voteReplies' :
            (r.granted /\ r.src = l[1] /\ r.ballot = l[2]) => r.dst = l[1]
      BY <1>1, <3>1
    <3> QED BY <1>4, <2>2, <3>1, <3>2
  <2> QED BY <2>5, <2>6
<1>6. LeadershipOK'
  BY <1>5 DEF LeadershipOK
<1> QED BY <1>3, <1>6 DEF ElectionInv

-----------------------------------------------------------------------------
(***************************************************************************)
(* The writes of Persistence: saveTermAndVote is the only one that touches *)
(* the term and the vote.                                                  *)
(***************************************************************************)

\* saveTermAndVote stores the term and the vote it is given.
LEMMA SaveTermAndVoteStores ==
  ASSUME NEW p, NEW t, NEW v, NEW u, NEW w, StoresVote(p, u, w)
  PROVE  StoresVote(saveTermAndVote(p, t, v), t, v)
  BY DEF StoresVote, saveTermAndVote

\* The other writes of Persistence leave the term and the vote alone.
LEMMA WritesKeepVote ==
  ASSUME NEW p, NEW t, NEW v, StoresVote(p, t, v)
  PROVE  /\ \A e : StoresVote(appendEntries(p, e), t, v)
         /\ \A n : StoresVote(truncateFrom(p, n), t, v)
         /\ \A n : StoresVote(truncateUpTo(p, n), t, v)
         /\ StoresVote(truncateAll(p), t, v)
         /\ \A n, k, b : StoresVote(saveSnapshot(p, n, k, b), t, v)
  BY DEF StoresVote, appendEntries, truncateFrom, truncateUpTo, truncateAll, saveSnapshot

\* So do the stores RaftNode builds from those writes.
LEMMA HandlersKeepVote ==
  ASSUME NEW p, NEW t, NEW v, StoresVote(p, t, v)
  PROVE  /\ \A k, op : StoresVote(appendLocal(p, k, op), t, v)
         /\ \A e : StoresVote(Truncated(p, e), t, v)
         /\ \A e : StoresVote(Stored(p, e), t, v)
         /\ \A app : StoresVote(Snapshotted(p, app), t, v)
         /\ \A app : StoresVote(maybeSnapshot(p, app), t, v)
         /\ \A m : StoresVote(Wiped(p, m), t, v)
<1>1. \A k, op : StoresVote(appendLocal(p, k, op), t, v)
  BY WritesKeepVote DEF appendLocal
<1>2. ASSUME NEW e PROVE StoresVote(Truncated(p, e), t, v)
  BY WritesKeepVote DEF Truncated
<1>3. ASSUME NEW e PROVE StoresVote(Stored(p, e), t, v)
  <2>1. \A x : StoresVote(appendEntries(Truncated(p, e), x), t, v)
    BY <1>2, WritesKeepVote
  <2> QED BY <2>1 DEF Stored
<1>4. ASSUME NEW app PROVE StoresVote(Snapshotted(p, app), t, v)
  BY WritesKeepVote DEF Snapshotted
<1>5. ASSUME NEW app PROVE StoresVote(maybeSnapshot(p, app), t, v)
  <2>1. \A n : StoresVote(truncateUpTo(Snapshotted(p, app), n), t, v)
    BY <1>4, WritesKeepVote
  <2> QED BY <2>1 DEF maybeSnapshot
<1>6. ASSUME NEW m PROVE StoresVote(Wiped(p, m), t, v)
  BY WritesKeepVote DEF Wiped
<1> QED BY <1>1, <1>2, <1>3, <1>4, <1>5, <1>6

-----------------------------------------------------------------------------
(***************************************************************************)
(* The calls: what a step may add to the leaderships.                      *)
(***************************************************************************)

\* Only calls of the leader i in its term are new.
LEMMA SendsAsLeader ==
  ASSUME TypesOK, NEW i \in Server, NEW p, NEW next, sendAppendEntriesToAll(i, p, next)
  PROVE  \A c \in calls' :
           \/ c \in calls
           \/ /\ {"type", "caller", "peer", "term"} \subseteq DOMAIN c
              /\ c.caller = i /\ c.peer \in Server /\ c.term = currentTerm[i]
<1>1. ASSUME NEW j \in Peers(i), NEW c \in sendAppendEntriesTo(i, j, p, next[j])
      PROVE  /\ {"type", "caller", "peer", "term"} \subseteq DOMAIN c
             /\ c.caller = i /\ c.peer \in Server /\ c.term = currentTerm[i]
  BY <1>1 DEF sendAppendEntriesTo, sendInstallSnapshotTo, Peers
<1> QED BY <1>1 DEF sendAppendEntriesToAll

\* A step after which nobody leads or calls who did not lead or call before.
QuietRoles ==
  \A i \in Server : role'[i] = Leader => role[i] = Leader /\ currentTerm'[i] = currentTerm[i]

QuietCalls ==
  \A c \in calls' : IsRequest(c) => <<c.caller, c.term>> \in Leaderships

\* A quiet step adds no leadership.
LEMMA QuietLeaderships ==
  ASSUME QuietRoles, QuietCalls
  PROVE  Leaderships' \subseteq Leaderships
<1>1. ASSUME NEW i \in Server, role'[i] = Leader
      PROVE  <<i, currentTerm'[i]>> \in Leaderships
  BY <1>1 DEF QuietRoles, Leaderships
<1> QED BY <1>1 DEF Leaderships, QuietCalls

\* Sending as the leader one is adds no leadership.
LEMMA LeaderSendsQuietly ==
  ASSUME ElectionInv, NEW i \in Server, role[i] = Leader,
         NEW p, NEW next, sendAppendEntriesToAll(i, p, next),
         UNCHANGED <<voteRequests, voteReplies>>
  PROVE  QuietCalls /\ MessagesOK'
<1>1. \A c \in calls' :
        \/ c \in calls
        \/ /\ {"type", "caller", "peer", "term"} \subseteq DOMAIN c
           /\ c.caller = i /\ c.peer \in Server /\ c.term = currentTerm[i]
  BY SendsAsLeader DEF ElectionInv
<1>2. QuietCalls
  BY <1>1 DEF QuietCalls, Leaderships
<1>3. MessagesOK'
  BY <1>1 DEF ElectionInv, TypesOK, TermsOK, MessagesOK
<1> QED BY <1>2, <1>3

\* Taking a call off the network, or putting a response in its place, adds no
\* leadership; a response carries a term of its peer.
LEMMA AnswersQuietly ==
  ASSUME ElectionInv, UNCHANGED <<voteRequests, voteReplies>>,
         \A c \in calls' :
           \/ c \in calls
           \/ /\ ~IsRequest(c)
              /\ {"type", "caller", "peer", "term"} \subseteq DOMAIN c
              /\ c.caller \in Server /\ c.peer \in Server /\ c.term \in Nat
  PROVE  QuietCalls /\ MessagesOK'
<1>1. QuietCalls
  BY DEF QuietCalls, Leaderships
<1>2. MessagesOK'
  BY DEF ElectionInv, TypesOK, MessagesOK
<1> QED BY <1>1, <1>2

\* The response to a call is not a request, so it adds no leadership.
LEMMA RespondAnswers ==
  ASSUME ElectionInv, UNCHANGED <<voteRequests, voteReplies>>,
         NEW m \in calls, NEW t \in Nat, NEW r,
         \/ r = SnapshotReply(m, t)
         \/ \E success \in BOOLEAN : r = AppendReply(m, t, success),
         Respond(m, r)
  PROVE  QuietCalls /\ MessagesOK'
<1>1. m.caller \in Server /\ m.peer \in Server
  BY DEF ElectionInv, TypesOK, MessagesOK
<1>2. /\ ~IsRequest(r)
      /\ {"type", "caller", "peer", "term"} \subseteq DOMAIN r
      /\ r.caller = m.caller /\ r.peer = m.peer /\ r.term = t
  BY DEF IsRequest, SnapshotReply, AppendReply
<1>3. \A c \in calls' : c \in calls \/ c = r
  BY DEF Respond
<1> QED BY <1>1, <1>2, <1>3, AnswersQuietly

-----------------------------------------------------------------------------
(***************************************************************************)
(* Three shapes of steps.                                                  *)
(***************************************************************************)
VoteStep == TypesOK' /\ RolesOK' /\ GoodStep

\* Steps that leave the votes alone.
LEMMA NoVoteStep ==
  ASSUME ElectionInv, MessagesOK', QuietCalls,
         UNCHANGED <<role, currentTerm, votedFor, voteReplies>>,
         DOMAIN disk' = Server,
         \A i \in Server : StoresVote(disk'[i], currentTerm[i], votedFor[i])
  PROVE  VoteStep
<1>1. TypesOK'
  BY DEF ElectionInv, TypesOK, TermsOK, DiskOK
<1>2. RolesOK'
  BY DEF ElectionInv, RolesOK
<1>3. GoodStep
  <2>1. \A j \in Server : currentTerm[j] >= currentTerm[j]
    BY DEF ElectionInv, TypesOK, TermsOK
  <2>2. QuietRoles
    BY DEF QuietRoles
  <2> QED BY <2>1, <2>2, QuietLeaderships DEF GoodStep
<1> QED BY <1>1, <1>2, <1>3 DEF VoteStep

\* Steps after which one replica is a follower of its own or a newer term,
\* with its vote where the term is its own: stepping down and starting again.
LEMMA FollowerStep ==
  ASSUME ElectionInv, MessagesOK', QuietCalls, UNCHANGED voteReplies,
         NEW i \in Server, NEW t \in Nat, NEW v \in Server \cup {Nil}, NEW p,
         t >= currentTerm[i],
         t = currentTerm[i] => v = votedFor[i],
         role' = [role EXCEPT ![i] = Follower],
         currentTerm' = [currentTerm EXCEPT ![i] = t],
         votedFor' = [votedFor EXCEPT ![i] = v],
         disk' = [disk EXCEPT ![i] = p],
         StoresVote(p, t, v)
  PROVE  VoteStep
<1>1. TermsOK'
  BY DEF ElectionInv, TypesOK, TermsOK
<1>2. DiskOK'
  BY DEF ElectionInv, TypesOK, TermsOK, DiskOK
<1>3. RolesOK'
  BY DEF ElectionInv, TypesOK, TermsOK, RolesOK
<1>4. QuietRoles
  BY DEF QuietRoles, ElectionInv, TypesOK, TermsOK, Follower, Leader
<1>5. \A j \in Server : /\ currentTerm'[j] >= currentTerm[j]
                        /\ currentTerm'[j] = currentTerm[j] => votedFor'[j] = votedFor[j]
  BY DEF ElectionInv, TypesOK, TermsOK
<1>6. GoodStep
  BY <1>4, <1>5, QuietLeaderships DEF GoodStep
<1> QED BY <1>1, <1>2, <1>3, <1>6 DEF VoteStep, TypesOK

\* The store _becomeFollower leaves behind has the term and the vote it sets.
LEMMA FollowerStoreStores ==
  ASSUME ElectionInv, NEW i \in Server, NEW term \in Nat
  PROVE  StoresVote(FollowerStore(i, term), Greater(currentTerm[i], term),
                    IF term > currentTerm[i] THEN Nil ELSE votedFor[i])
<1>1. StoresVote(disk[i], currentTerm[i], votedFor[i]) /\ currentTerm[i] \in Nat
  BY DEF ElectionInv, TypesOK, TermsOK, DiskOK
<1>2. CASE term > currentTerm[i]
  <2>1. Greater(currentTerm[i], term) = term
    BY <1>1, <1>2 DEF Greater
  <2>2. StoresVote(saveTermAndVote(disk[i], term, Nil), term, Nil)
    BY <1>1, SaveTermAndVoteStores
  <2> QED BY <1>2, <2>1, <2>2 DEF FollowerStore
<1>3. CASE ~(term > currentTerm[i])
  <2>1. Greater(currentTerm[i], term) = currentTerm[i]
    BY <1>1, <1>3 DEF Greater
  <2> QED BY <1>1, <1>3, <2>1 DEF FollowerStore
<1> QED BY <1>2, <1>3

\* _becomeFollower and any writes after it that keep the term and the vote.
LEMMA StepDownStep ==
  ASSUME ElectionInv, MessagesOK', QuietCalls, UNCHANGED voteReplies,
         NEW i \in Server, NEW term \in Nat, becomeFollower(i, term),
         NEW p, disk' = [disk EXCEPT ![i] = p],
         \A t, v : StoresVote(FollowerStore(i, term), t, v) => StoresVote(p, t, v)
  PROVE  VoteStep
<1> DEFINE t == Greater(currentTerm[i], term)
           v == IF term > currentTerm[i] THEN Nil ELSE votedFor[i]
<1>1. currentTerm[i] \in Nat /\ votedFor[i] \in Server \cup {Nil}
  BY DEF ElectionInv, TypesOK, TermsOK
<1>2. t \in Nat /\ t >= currentTerm[i] /\ v \in Server \cup {Nil}
  BY <1>1 DEF Greater
<1>3. t = currentTerm[i] => v = votedFor[i]
  BY <1>1 DEF Greater
<1>4. StoresVote(p, t, v)
  BY FollowerStoreStores
<1>5. /\ role' = [role EXCEPT ![i] = Follower]
      /\ currentTerm' = [currentTerm EXCEPT ![i] = t]
      /\ votedFor' = [votedFor EXCEPT ![i] = v]
  BY DEF becomeFollower
<1> HIDE DEF t, v
<1> QED BY <1>2, <1>3, <1>4, <1>5, FollowerStep

-----------------------------------------------------------------------------
(***************************************************************************)
(* The actions, one lemma per group.                                       *)
(***************************************************************************)

\* submit and the heartbeat send in the leader's own term.
LEMMA LeaderActions ==
  ASSUME ElectionInv, NEW i \in Server,
         Heartbeat(i) \/ \E s \in Stroke : Submit(i, s)
  PROVE  VoteStep
<1>1. StoresVote(disk[i], currentTerm[i], votedFor[i]) /\ DOMAIN disk = Server
  BY DEF ElectionInv, TypesOK, DiskOK
<1>2. CASE Heartbeat(i)
  <2>1. QuietCalls /\ MessagesOK'
    BY <1>2, LeaderSendsQuietly DEF Heartbeat
  <2>2. UNCHANGED <<role, currentTerm, votedFor, voteReplies, disk>>
    BY <1>2 DEF Heartbeat, volatile
  <2> QED BY <2>1, <2>2, NoVoteStep DEF ElectionInv, TypesOK, DiskOK
<1>3. ASSUME NEW s \in Stroke, Submit(i, s)
      PROVE  VoteStep
  <2> DEFINE p == appendLocal(disk[i], currentTerm[i], s)
  <2>1. QuietCalls /\ MessagesOK'
    BY <1>3, LeaderSendsQuietly DEF Submit
  <2>2. /\ UNCHANGED <<role, currentTerm, votedFor, voteReplies>>
        /\ disk' = [disk EXCEPT ![i] = p]
    BY <1>3 DEF Submit, volatile
  <2>3. StoresVote(p, currentTerm[i], votedFor[i])
    BY <1>1, HandlersKeepVote
  <2> HIDE DEF p
  <2>4. DOMAIN disk' = Server /\ \A j \in Server : StoresVote(disk'[j], currentTerm[j], votedFor[j])
    BY <1>1, <2>2, <2>3 DEF ElectionInv, TypesOK, DiskOK
  <2> QED BY <2>1, <2>2, <2>4, NoVoteStep
<1> QED BY <1>2, <1>3

\* The continuations of the leader's calls, among them the step down.
LEMMA ReplyActions ==
  ASSUME ElectionInv, NEW r \in calls,
         \/ ReplyNewerTerm(r)
         \/ ReplyAppended(r)
         \/ ReplyRejected(r)
         \/ ReplyInstalled(r)
  PROVE  VoteStep
<1>1. r.caller \in Server /\ r.term \in Nat
  BY DEF ElectionInv, TypesOK, MessagesOK
<1>2. /\ DOMAIN disk = Server
      /\ \A j \in Server : StoresVote(disk[j], currentTerm[j], votedFor[j])
  BY DEF ElectionInv, TypesOK, DiskOK
<1>3. calls' \subseteq calls /\ UNCHANGED <<voteRequests, voteReplies>>
  BY DEF ReplyNewerTerm, ReplyAppended, ReplyRejected, ReplyInstalled
<1>4. QuietCalls /\ MessagesOK'
  BY <1>3, AnswersQuietly
<1>5. CASE ReplyNewerTerm(r)
  BY <1>1, <1>3, <1>4, <1>5, StepDownStep DEF ReplyNewerTerm
<1>6. CASE ReplyAppended(r)
  <2>1. UNCHANGED <<role, currentTerm, votedFor, voteReplies>>
    BY <1>6 DEF ReplyAppended
  <2>2. \/ UNCHANGED disk
        \/ \E app : disk' = [disk EXCEPT ![r.caller] = maybeSnapshot(disk[r.caller], app)]
    BY <1>6 DEF ReplyAppended, Settle
  <2>3. \A app : StoresVote(maybeSnapshot(disk[r.caller], app),
                            currentTerm[r.caller], votedFor[r.caller])
    BY <1>1, <1>2, HandlersKeepVote
  <2>4. DOMAIN disk' = Server /\ \A j \in Server : StoresVote(disk'[j], currentTerm[j], votedFor[j])
    BY <1>1, <1>2, <2>2, <2>3
  <2> QED BY <1>4, <2>1, <2>4, NoVoteStep
<1>7. CASE ReplyRejected(r) \/ ReplyInstalled(r)
  <2>1. UNCHANGED <<role, currentTerm, votedFor, voteReplies, disk>>
    BY <1>7 DEF ReplyRejected, ReplyInstalled
  <2> QED BY <1>2, <1>4, <2>1, NoVoteStep
<1> QED BY <1>5, <1>6, <1>7

\* The handlers of /append-entries and /install-snapshot.
LEMMA RequestActions ==
  ASSUME ElectionInv, NEW m \in calls,
         \/ RefuseStaleTerm(m)
         \/ AppendEntriesMismatch(m)
         \/ HandleAppendEntries(m)
         \/ InstallSnapshotKnown(m)
         \/ HandleInstallSnapshot(m)
  PROVE  VoteStep
<1>1. m.peer \in Server /\ m.term \in Nat /\ currentTerm[m.peer] \in Nat
  BY DEF ElectionInv, TypesOK, TermsOK, MessagesOK
<1>2. UNCHANGED <<voteRequests, voteReplies>>
  BY DEF RefuseStaleTerm, AppendEntriesMismatch, HandleAppendEntries,
         InstallSnapshotKnown, HandleInstallSnapshot
<1>3. QuietCalls /\ MessagesOK'
  <2>1. \E t \in Nat : \E r :
          /\ r = SnapshotReply(m, t) \/ \E success \in BOOLEAN : r = AppendReply(m, t, success)
          /\ Respond(m, r)
    BY <1>1 DEF RefuseStaleTerm, AppendEntriesMismatch, HandleAppendEntries,
                InstallSnapshotKnown, HandleInstallSnapshot
  <2> QED BY <1>2, <2>1, RespondAnswers
<1>4. CASE RefuseStaleTerm(m)
  <2>1. UNCHANGED <<role, currentTerm, votedFor, voteReplies, disk>>
    BY <1>4 DEF RefuseStaleTerm, volatile
  <2> QED BY <1>3, <2>1, NoVoteStep DEF ElectionInv, TypesOK, DiskOK
<1>5. CASE AppendEntriesMismatch(m) \/ InstallSnapshotKnown(m)
  <2>1. /\ becomeFollower(m.peer, m.term)
        /\ disk' = [disk EXCEPT ![m.peer] = FollowerStore(m.peer, m.term)]
    BY <1>5 DEF AppendEntriesMismatch, InstallSnapshotKnown, Follow
  <2> QED BY <1>1, <1>2, <1>3, <2>1, StepDownStep
<1>6. CASE HandleAppendEntries(m)
  <2> DEFINE q == FollowerStore(m.peer, m.term)
  <2>1. /\ becomeFollower(m.peer, m.term)
        /\ \/ disk' = [disk EXCEPT ![m.peer] = Stored(q, m.entries)]
           \/ \E app : disk' = [disk EXCEPT ![m.peer] =
                                  maybeSnapshot(Stored(q, m.entries), app)]
    BY <1>6 DEF HandleAppendEntries, Follow, Settle
  <2>2. ASSUME NEW t, NEW v, StoresVote(q, t, v)
        PROVE  /\ StoresVote(Stored(q, m.entries), t, v)
               /\ \A app : StoresVote(maybeSnapshot(Stored(q, m.entries), app), t, v)
    <3> HIDE DEF q
    <3>1. StoresVote(Stored(q, m.entries), t, v)
      BY <2>2, HandlersKeepVote
    <3> QED BY <3>1, HandlersKeepVote
  <2>3. PICK p : /\ disk' = [disk EXCEPT ![m.peer] = p]
                 /\ \/ p = Stored(q, m.entries)
                    \/ \E app : p = maybeSnapshot(Stored(q, m.entries), app)
    BY <2>1
  <2> QED BY <1>1, <1>2, <1>3, <2>1, <2>2, <2>3, StepDownStep
<1>7. CASE HandleInstallSnapshot(m)
  <2> DEFINE q == FollowerStore(m.peer, m.term)
             p == saveSnapshot(Wiped(q, m), m.lastIncludedIndex, m.lastIncludedTerm, m.data)
  <2>1. becomeFollower(m.peer, m.term) /\ disk' = [disk EXCEPT ![m.peer] = p]
    BY <1>7 DEF HandleInstallSnapshot, Follow
  <2>2. ASSUME NEW t, NEW v, StoresVote(q, t, v)
        PROVE  StoresVote(p, t, v)
    <3>1. StoresVote(Wiped(q, m), t, v)
      BY <2>2, HandlersKeepVote
    <3> QED BY <3>1, WritesKeepVote
  <2> HIDE DEF p
  <2> QED BY <1>1, <1>2, <1>3, <2>1, <2>2, StepDownStep
<1> QED BY <1>4, <1>5, <1>6, <1>7

\* start() after a crash that left the store p behind.
LEMMA CrashStep ==
  ASSUME ElectionInv, NEW i \in Server, NEW p, NEW left \in SUBSET calls, CrashWith(i, p, left),
         voteRequests' \subseteq voteRequests,
         NEW t \in Nat, NEW v \in Server \cup {Nil}, StoresVote(p, t, v),
         t >= currentTerm[i], t = currentTerm[i] => v = votedFor[i]
  PROVE  VoteStep
<1>1. ASSUME NEW c \in calls'
      PROVE  /\ {"type", "caller", "peer", "term"} \subseteq DOMAIN c
             /\ \E d \in calls : /\ c.type = d.type /\ c.caller = d.caller
                                 /\ c.peer = d.peer /\ c.term = d.term
  <2>1. PICK d \in calls : c = IF d.caller = i THEN [d EXCEPT !.awaited = FALSE] ELSE d
    BY <1>1 DEF CrashWith
  <2>2. {"type", "caller", "peer", "term"} \subseteq DOMAIN d
    BY DEF ElectionInv, TypesOK, MessagesOK
  <2> QED BY <2>1, <2>2
<1>2. QuietCalls
  BY <1>1 DEF QuietCalls, Leaderships, IsRequest
<1>3. UNCHANGED voteReplies
  BY DEF CrashWith
<1>4. MessagesOK'
  BY <1>1, <1>3 DEF ElectionInv, TypesOK, MessagesOK
<1>5. /\ role' = [role EXCEPT ![i] = Follower]
      /\ currentTerm' = [currentTerm EXCEPT ![i] = t]
      /\ votedFor' = [votedFor EXCEPT ![i] = v]
      /\ disk' = [disk EXCEPT ![i] = p]
  BY DEF CrashWith, StoresVote
<1> QED BY <1>2, <1>3, <1>4, <1>5, FollowerStep

\* A crash inside a handler that began with _becomeFollower(term).
LEMMA CrashAfterStepDown ==
  ASSUME ElectionInv, NEW i \in Server, NEW term \in Nat, NEW p, NEW left \in SUBSET calls, CrashWith(i, p, left),
         voteRequests' \subseteq voteRequests,
         \A t, v : StoresVote(FollowerStore(i, term), t, v) => StoresVote(p, t, v)
  PROVE  VoteStep
<1> DEFINE t == Greater(currentTerm[i], term)
           v == IF term > currentTerm[i] THEN Nil ELSE votedFor[i]
<1>1. currentTerm[i] \in Nat /\ votedFor[i] \in Server \cup {Nil}
  BY DEF ElectionInv, TypesOK, TermsOK
<1>2. t \in Nat /\ t >= currentTerm[i] /\ v \in Server \cup {Nil}
  BY <1>1 DEF Greater
<1>3. t = currentTerm[i] => v = votedFor[i]
  BY <1>1 DEF Greater
<1>4. StoresVote(p, t, v)
  BY FollowerStoreStores
<1> HIDE DEF t, v
<1> QED BY <1>2, <1>3, <1>4, CrashStep

\* A crash, wherever it falls, brings back the term and the vote on disk.
LEMMA CrashActions ==
  ASSUME ElectionInv,
         \/ \E i \in Server : Restart(i)
         \/ \E m \in voteRequests : CrashInRequestVote(m)
         \/ \E m \in calls : CrashInAppendEntries(m) \/ CrashInInstallSnapshot(m)
         \/ \E r \in calls : CrashInSnapshot(r)
  PROVE  VoteStep
<1>1. ASSUME NEW i \in Server
      PROVE  /\ StoresVote(disk[i], currentTerm[i], votedFor[i])
             /\ currentTerm[i] \in Nat /\ currentTerm[i] >= currentTerm[i]
             /\ votedFor[i] \in Server \cup {Nil}
  BY DEF ElectionInv, TypesOK, TermsOK, DiskOK
<1>2. ASSUME NEW i \in Server, Restart(i)
      PROVE  VoteStep
  BY <1>1, <1>2, CrashStep DEF Restart
<1>3. ASSUME NEW m \in voteRequests, CrashInRequestVote(m)
      PROVE  VoteStep
  <2>1. m.dst \in Server /\ m.term \in Nat
    BY DEF ElectionInv, TypesOK, MessagesOK
  <2>2. CrashWith(m.dst, FollowerStore(m.dst, m.term), calls) /\ voteRequests' \subseteq voteRequests
    BY <1>3 DEF CrashInRequestVote, FollowerStore
  <2> QED BY <2>1, <2>2, CrashAfterStepDown
<1>4. ASSUME NEW m \in calls, CrashInAppendEntries(m)
      PROVE  VoteStep
  <2> DEFINE q == FollowerStore(m.peer, m.term)
  <2>1. m.peer \in Server /\ m.term \in Nat
    BY DEF ElectionInv, TypesOK, MessagesOK
  <2>2. PICK p : /\ CrashWith(m.peer, p, calls \ {m})
                 /\ \/ p = q
                    \/ p = Truncated(q, m.entries)
                    \/ p = Stored(q, m.entries)
                    \/ \E app : p = Snapshotted(Stored(q, m.entries), app)
    BY <1>4 DEF CrashInAppendEntries
  <2>3. ASSUME NEW t, NEW v, StoresVote(q, t, v)
        PROVE  StoresVote(p, t, v)
    <3> HIDE DEF q
    <3>1. StoresVote(Truncated(q, m.entries), t, v) /\ StoresVote(Stored(q, m.entries), t, v)
      BY <2>3, HandlersKeepVote
    <3>2. \A app : StoresVote(Snapshotted(Stored(q, m.entries), app), t, v)
      BY <3>1, HandlersKeepVote
    <3> QED BY <2>2, <2>3, <3>1, <3>2
  <2>4. voteRequests' \subseteq voteRequests
    BY <1>4 DEF CrashInAppendEntries
  <2> QED BY <2>1, <2>2, <2>3, <2>4, CrashAfterStepDown
<1>5. ASSUME NEW m \in calls, CrashInInstallSnapshot(m)
      PROVE  VoteStep
  <2> DEFINE q == FollowerStore(m.peer, m.term)
  <2>1. m.peer \in Server /\ m.term \in Nat
    BY DEF ElectionInv, TypesOK, MessagesOK
  <2>2. PICK p : CrashWith(m.peer, p, calls \ {m}) /\ (p = q \/ p = Wiped(q, m))
    BY <1>5 DEF CrashInInstallSnapshot
  <2>3. ASSUME NEW t, NEW v, StoresVote(q, t, v)
        PROVE  StoresVote(p, t, v)
    BY <2>2, <2>3, HandlersKeepVote
  <2>4. voteRequests' \subseteq voteRequests
    BY <1>5 DEF CrashInInstallSnapshot
  <2> QED BY <2>1, <2>2, <2>3, <2>4, CrashAfterStepDown
<1>6. ASSUME NEW r \in calls, CrashInSnapshot(r)
      PROVE  VoteStep
  <2>1. r.caller \in Server
    BY DEF ElectionInv, TypesOK, MessagesOK
  <2>2. PICK app : CrashWith(r.caller, Snapshotted(disk[r.caller], app), calls)
    BY <1>6 DEF CrashInSnapshot
  <2>3. StoresVote(Snapshotted(disk[r.caller], app), currentTerm[r.caller], votedFor[r.caller])
    BY <1>1, <2>1, HandlersKeepVote
  <2>4. voteRequests' \subseteq voteRequests
    BY <1>6 DEF CrashInSnapshot
  <2> QED BY <1>1, <2>1, <2>2, <2>3, <2>4, CrashStep
<1> QED BY <1>2, <1>3, <1>4, <1>5, <1>6

\* A candidate votes for itself in a term nobody of its votes is in.
LEMMA StartElectionStep ==
  ASSUME ElectionInv, NEW i \in Server, StartElection(i)
  PROVE  VoteStep
<1> DEFINE t == currentTerm[i] + 1
           p == saveTermAndVote(disk[i], t, i)
<1>1. currentTerm[i] \in Nat /\ t \in Nat /\ t > currentTerm[i]
  BY DEF ElectionInv, TypesOK, TermsOK
<1>2. StoresVote(p, t, i)
  BY SaveTermAndVoteStores DEF ElectionInv, TypesOK, DiskOK
<1>3. /\ role' = [role EXCEPT ![i] = Candidate]
      /\ currentTerm' = [currentTerm EXCEPT ![i] = t]
      /\ votedFor' = [votedFor EXCEPT ![i] = i]
      /\ disk' = [disk EXCEPT ![i] = p]
      /\ UNCHANGED <<voteReplies, calls>>
  BY DEF StartElection
<1>4. \A m \in voteRequests' : m.src \in Server /\ m.dst \in Server /\ m.term \in Nat
  BY <1>1 DEF StartElection, Peers, ElectionInv, TypesOK, MessagesOK
<1> HIDE DEF t, p
<1>5. TypesOK'
  <2>1. TermsOK'
    BY <1>1, <1>3 DEF ElectionInv, TypesOK, TermsOK
  <2>2. DiskOK'
    BY <1>2, <1>3 DEF ElectionInv, TypesOK, TermsOK, DiskOK
  <2>3. MessagesOK'
    BY <1>3, <1>4 DEF ElectionInv, TypesOK, MessagesOK
  <2> QED BY <2>1, <2>2, <2>3 DEF TypesOK
<1>6. RolesOK'
  BY <1>3 DEF ElectionInv, TypesOK, TermsOK, RolesOK
<1>7. QuietRoles
  BY <1>3 DEF QuietRoles, ElectionInv, TypesOK, TermsOK, Candidate, Leader
<1>8. QuietCalls
  BY <1>3 DEF QuietCalls, Leaderships
<1>9. \A j \in Server : /\ currentTerm'[j] >= currentTerm[j]
                        /\ currentTerm'[j] = currentTerm[j] => votedFor'[j] = votedFor[j]
  BY <1>1, <1>3 DEF ElectionInv, TypesOK, TermsOK
<1>10. GoodStep
  BY <1>3, <1>7, <1>8, <1>9, QuietLeaderships DEF GoodStep
<1> QED BY <1>5, <1>6, <1>10 DEF VoteStep

\* A vote goes to one candidate of a term, and is on disk with the reply.
LEMMA HandleRequestVoteStep ==
  ASSUME ElectionInv, NEW m \in voteRequests, HandleRequestVote(m)
  PROVE  VoteStep
<1> DEFINE j == m.dst
           newer == m.term > currentTerm[j]
           vote == IF newer THEN Nil ELSE votedFor[j]
           granted == /\ m.term >= currentTerm[j]
                      /\ mayVote(vote, m.src)
                      /\ upToDate(disk[j], m)
           t == Greater(currentTerm[j], m.term)
           v == IF granted THEN m.src ELSE vote
           reply == [src |-> j, dst |-> m.src, ballot |-> m.term, term |-> t,
                     granted |-> granted]
<1>1. /\ role' = IF newer THEN [role EXCEPT ![j] = Follower] ELSE role
      /\ currentTerm' = [currentTerm EXCEPT ![j] = t]
      /\ votedFor' = [votedFor EXCEPT ![j] = v]
      /\ disk' = IF newer \/ granted
                 THEN [disk EXCEPT ![j] = saveTermAndVote(disk[j], t, votedFor'[j])] ELSE disk
      /\ voteRequests' = voteRequests \ {m}
      /\ voteReplies' = IF granted \/ t > m.term THEN voteReplies \cup {reply} ELSE voteReplies
      /\ UNCHANGED calls
  BY DEF HandleRequestVote
<1>2. /\ j \in Server /\ m.src \in Server /\ m.term \in Nat
      /\ currentTerm[j] \in Nat /\ votedFor[j] \in Server \cup {Nil}
      /\ StoresVote(disk[j], currentTerm[j], votedFor[j])
  BY DEF ElectionInv, TypesOK, TermsOK, DiskOK, MessagesOK
<1>3. t \in Nat /\ t >= currentTerm[j] /\ t >= m.term /\ v \in Server \cup {Nil}
  BY <1>2 DEF Greater
<1>4. granted => t = m.term /\ v = m.src
  BY <1>2 DEF Greater
<1>5. t = currentTerm[j] /\ votedFor[j] # Nil => v = votedFor[j]
  BY <1>2 DEF Greater, mayVote
<1>6. ~newer => t = currentTerm[j]
  BY <1>2 DEF Greater
<1>7. ~newer /\ ~granted => v = votedFor[j]
  OBVIOUS
<1>8. /\ reply.src = j /\ reply.dst = m.src /\ reply.ballot = m.term /\ reply.term = t
      /\ reply.granted = granted
  OBVIOUS
<1> HIDE DEF j, newer, vote, granted, t, v, reply
<1>9. votedFor'[j] = v /\ currentTerm'[j] = t
  BY <1>1, <1>2 DEF ElectionInv, TypesOK, TermsOK
<1>10. StoresVote(saveTermAndVote(disk[j], t, v), t, v)
  BY <1>2, SaveTermAndVoteStores
<1>11. TypesOK'
  <2>1. TermsOK'
    BY <1>1, <1>3 DEF ElectionInv, TypesOK, TermsOK
  <2>2. DiskOK'
    <3>1. DOMAIN disk' = Server
      BY <1>1 DEF ElectionInv, TypesOK, DiskOK
    <3>2. ASSUME NEW k \in Server, k # j
          PROVE  StoresVote(disk'[k], currentTerm'[k], votedFor'[k])
      <4>1. disk'[k] = disk[k] /\ currentTerm'[k] = currentTerm[k] /\ votedFor'[k] = votedFor[k]
        BY <1>1, <3>2 DEF ElectionInv, TypesOK, TermsOK, DiskOK
      <4> QED BY <4>1 DEF ElectionInv, TypesOK, DiskOK
    <3>3. StoresVote(disk'[j], currentTerm'[j], votedFor'[j])
      <4>1. CASE newer \/ granted
        <5>1. disk'[j] = saveTermAndVote(disk[j], t, v)
          BY <1>1, <1>2, <1>9, <4>1 DEF ElectionInv, TypesOK, DiskOK
        <5> QED BY <1>9, <1>10, <5>1
      <4>2. CASE ~newer /\ ~granted
        BY <1>1, <1>2, <1>6, <1>7, <1>9, <4>2
      <4> QED BY <4>1, <4>2
    <3> QED BY <3>1, <3>2, <3>3 DEF DiskOK
  <2>3. MessagesOK'
    BY <1>1, <1>2, <1>3, <1>8 DEF ElectionInv, TypesOK, MessagesOK
  <2> QED BY <2>1, <2>2, <2>3 DEF TypesOK
<1>12. RolesOK'
  <2> SUFFICES ASSUME NEW k \in Server, role'[k] # Follower
               PROVE  votedFor'[k] = k
    BY DEF RolesOK
  <2>1. CASE k # j
    BY <1>1, <2>1 DEF ElectionInv, TypesOK, TermsOK, RolesOK
  <2>2. CASE k = j
    <3>1. ~newer
      BY <1>1, <1>2, <2>2 DEF ElectionInv, TypesOK, TermsOK
    <3>2. votedFor[j] = j
      BY <1>1, <1>2, <2>2, <3>1 DEF ElectionInv, RolesOK
    <3> QED BY <1>2, <1>5, <1>6, <1>9, <2>2, <3>1, <3>2, ServerAssumption
  <2> QED BY <2>1, <2>2
<1>13. QuietRoles
  <2> SUFFICES ASSUME NEW k \in Server, role'[k] = Leader
               PROVE  role[k] = Leader /\ currentTerm'[k] = currentTerm[k]
    BY DEF QuietRoles
  <2>1. CASE k # j
    BY <1>1, <2>1 DEF ElectionInv, TypesOK, TermsOK
  <2>2. CASE k = j
    <3>1. ~newer
      BY <1>1, <1>2, <2>2 DEF ElectionInv, TypesOK, TermsOK, Follower, Leader
    <3> QED BY <1>1, <1>6, <1>9, <2>2, <3>1
  <2> QED BY <2>1, <2>2
<1>14. QuietCalls
  BY <1>1 DEF QuietCalls, Leaderships
<1>15. \A k \in Server : /\ currentTerm'[k] >= currentTerm[k]
                         /\ currentTerm'[k] = currentTerm[k] /\ votedFor[k] # Nil
                              => votedFor'[k] = votedFor[k]
  <2> SUFFICES ASSUME NEW k \in Server
               PROVE  /\ currentTerm'[k] >= currentTerm[k]
                      /\ currentTerm'[k] = currentTerm[k] /\ votedFor[k] # Nil
                           => votedFor'[k] = votedFor[k]
    OBVIOUS
  <2>1. CASE k # j
    BY <1>1, <2>1 DEF ElectionInv, TypesOK, TermsOK
  <2>2. CASE k = j
    BY <1>3, <1>5, <1>9, <2>2
  <2> QED BY <2>1, <2>2
<1>16. \A r \in voteReplies' : r.granted =>
         r \in voteReplies \/ (r.ballot = currentTerm'[r.src] /\ votedFor'[r.src] = r.dst)
  BY <1>1, <1>4, <1>8, <1>9
<1>17. voteReplies \subseteq voteReplies'
  BY <1>1
<1>18. GoodStep
  BY <1>13, <1>14, <1>15, <1>16, <1>17, QuietLeaderships DEF GoodStep
<1> QED BY <1>11, <1>12, <1>18 DEF VoteStep

\* A new leader has the grants of a majority in its term.
LEMMA ElectionWonStep ==
  ASSUME ElectionInv, NEW i \in Server, ElectionWon(i)
  PROVE  VoteStep
<1> DEFINE p == appendLocal(disk[i], currentTerm[i], Noop)
           next == [j \in Peers(i) |-> lastIndex(disk[i]) + 1]
<1>1. /\ role[i] = Candidate
      /\ Cardinality(Voters(i)) >= Majority
      /\ role' = [role EXCEPT ![i] = Leader]
      /\ disk' = [disk EXCEPT ![i] = p]
      /\ sendAppendEntriesToAll(i, p, next)
      /\ UNCHANGED <<currentTerm, votedFor, voteRequests, voteReplies>>
  BY DEF ElectionWon
<1>2. StoresVote(p, currentTerm[i], votedFor[i])
  BY HandlersKeepVote DEF ElectionInv, TypesOK, DiskOK
<1>3. \A c \in calls' :
        \/ c \in calls
        \/ /\ {"type", "caller", "peer", "term"} \subseteq DOMAIN c
           /\ c.caller = i /\ c.peer \in Server /\ c.term = currentTerm[i]
  BY <1>1, SendsAsLeader DEF ElectionInv
<1> HIDE DEF p, next
<1>4. votedFor[i] = i /\ currentTerm[i] \in Nat
  BY <1>1 DEF ElectionInv, RolesOK, TypesOK, TermsOK, Candidate, Follower
<1>5. Elected(i, currentTerm[i])
  <2>1. Voters(i) \in SUBSET Server
    BY DEF Voters, ElectionInv, TypesOK, MessagesOK
  <2>2. \A j \in Voters(i) : j = i \/ GrantedBy(j, i, currentTerm[i])
    BY DEF Voters, GrantedBy
  <2> QED BY <1>1, <2>1, <2>2 DEF Elected
<1>6. TypesOK'
  <2>1. TermsOK'
    BY <1>1 DEF ElectionInv, TypesOK, TermsOK
  <2>2. DiskOK'
    BY <1>1, <1>2 DEF ElectionInv, TypesOK, DiskOK
  <2>3. MessagesOK'
    BY <1>1, <1>3, <1>4 DEF ElectionInv, TypesOK, MessagesOK
  <2> QED BY <2>1, <2>2, <2>3 DEF TypesOK
<1>7. RolesOK'
  BY <1>1, <1>4 DEF ElectionInv, TypesOK, TermsOK, RolesOK
<1>8. \A l \in Leaderships' : l \in Leaderships \/ l = <<i, currentTerm[i]>>
  <2>1. ASSUME NEW k \in Server, role'[k] = Leader
        PROVE  <<k, currentTerm'[k]>> \in Leaderships \/ k = i
    BY <1>1, <2>1 DEF ElectionInv, TypesOK, TermsOK, Leaderships
  <2>2. ASSUME NEW c \in calls', IsRequest(c)
        PROVE  <<c.caller, c.term>> \in Leaderships \/ <<c.caller, c.term>> = <<i, currentTerm[i]>>
    BY <1>3, <2>2 DEF Leaderships
  <2> QED BY <1>1, <2>1, <2>2 DEF Leaderships
<1>9. \A j \in Server : currentTerm[j] >= currentTerm[j]
  BY DEF ElectionInv, TypesOK, TermsOK
<1>10. GoodStep
  <2>1. ASSUME NEW l \in Leaderships', l \notin Leaderships
        PROVE  l[2] = currentTerm'[l[1]] /\ votedFor'[l[1]] = l[1] /\ Elected(l[1], l[2])
    BY <1>1, <1>4, <1>5, <1>8, <2>1
  <2> QED BY <1>1, <1>9, <2>1 DEF GoodStep
<1> QED BY <1>6, <1>7, <1>10 DEF VoteStep

\* A candidate that hears of a newer term gives up.
LEMMA ElectionSteppedDownStep ==
  ASSUME ElectionInv, NEW r \in voteReplies, ElectionSteppedDown(r)
  PROVE  VoteStep
<1>1. r.dst \in Server /\ r.term \in Nat
  BY DEF ElectionInv, TypesOK, MessagesOK
<1>2. UNCHANGED <<voteRequests, voteReplies, calls>>
  BY DEF ElectionSteppedDown, network
<1>3. QuietCalls /\ MessagesOK'
  BY <1>2, AnswersQuietly
<1> QED BY <1>1, <1>2, <1>3, StepDownStep DEF ElectionSteppedDown

-----------------------------------------------------------------------------
(***************************************************************************)
(* The theorems.                                                           *)
(***************************************************************************)

\* Every step of the cluster is a VoteStep.
LEMMA NextVoteStep ==
  ASSUME ElectionInv, Next
  PROVE  VoteStep
BY LeaderActions, ReplyActions, RequestActions, CrashActions, StartElectionStep,
   HandleRequestVoteStep, ElectionWonStep, ElectionSteppedDownStep DEF Next

\* A step that changes nothing is one too.
LEMMA StutterVoteStep ==
  ASSUME ElectionInv, UNCHANGED vars
  PROVE  VoteStep
<1>1. UNCHANGED <<role, currentTerm, votedFor, disk, voteRequests, voteReplies, calls>>
  BY DEF vars, volatile, network
<1>2. QuietCalls /\ MessagesOK'
  BY <1>1, AnswersQuietly
<1> QED BY <1>1, <1>2, NoVoteStep DEF ElectionInv, TypesOK, DiskOK

\* Before the first election nobody has voted or led.
LEMMA ElectionInvInit == Init => ElectionInv
<1> SUFFICES ASSUME Init PROVE ElectionInv
  OBVIOUS
<1>1. TypesOK
  BY DEF Init, TypesOK, TermsOK, DiskOK, MessagesOK, StoresVote, FreshStore, Follower
<1>2. Leaderships = {}
  BY DEF Init, Leaderships, Follower, Leader
<1> QED BY <1>1, <1>2 DEF Init, ElectionInv, RolesOK, GrantsOK, LeadershipOK, Follower

\* The invariant is inductive.
LEMMA ElectionInvNext == ElectionInv /\ [Next]_vars => ElectionInv'
BY NextVoteStep, StutterVoteStep, GoodStepPreserves DEF VoteStep

\* It holds in every state of every behaviour.
LEMMA ElectionInvariant == Spec => []ElectionInv
BY ElectionInvInit, ElectionInvNext, PTL DEF Spec

\* Two majorities of the replicas have one in common, which voted once.
LEMMA ElectionInvSafe == ElectionInv => ElectionSafety
<1> SUFFICES ASSUME ElectionInv, NEW a \in Leaderships, NEW b \in Leaderships, a[2] = b[2]
             PROVE  a[1] = b[1]
  BY DEF ElectionSafety
<1>1. PICK P \in SUBSET Server : /\ Cardinality(P) >= Majority
                                 /\ \A j \in P : j = a[1] \/ GrantedBy(j, a[1], a[2])
  BY DEF ElectionInv, LeadershipOK, Elected
<1>2. PICK Q \in SUBSET Server : /\ Cardinality(Q) >= Majority
                                 /\ \A j \in Q : j = b[1] \/ GrantedBy(j, b[1], b[2])
  BY DEF ElectionInv, LeadershipOK, Elected
<1>3. /\ Cardinality(Server) \in Nat /\ Cardinality(P) \in Nat /\ Cardinality(Q) \in Nat
      /\ IsFiniteSet(Server)
  BY FS_CardinalityType, FS_Subset, ServerAssumption
<1>4. Cardinality(P) + Cardinality(Q) > Cardinality(Server)
  BY <1>1, <1>2, <1>3 DEF Majority
<1>5. PICK j \in Server : j \in P /\ j \in Q
  BY <1>3, <1>4, FS_MajoritiesIntersect
<1>6. ASSUME NEW l \in Leaderships, NEW k, GrantedBy(l[1], k, l[2])
      PROVE  k = l[1]
  BY <1>6 DEF GrantedBy, ElectionInv, LeadershipOK
<1>7. CASE j = a[1] \/ j = b[1]
  BY <1>1, <1>2, <1>5, <1>6, <1>7
<1>8. CASE GrantedBy(j, a[1], a[2]) /\ GrantedBy(j, b[1], b[2])
  BY <1>8 DEF GrantedBy, ElectionInv, GrantsOK
<1> QED BY <1>1, <1>2, <1>5, <1>7, <1>8

\* Only one replica ever acts as leader of a term, for any number of replicas,
\* terms, crashes and messages.
THEOREM ElectionSafetyTheorem == Spec => []ElectionSafety
BY ElectionInvariant, ElectionInvSafe, PTL

\* The persisted term never goes back and a persisted vote is never changed
\* within its term.
THEOREM VoteOnceTheorem == Spec => VoteOnce
<1>1. ElectionInv /\ [Next]_vars => [\A i \in Server : VoteOnceStep(i)]_vars
  <2> SUFFICES ASSUME ElectionInv, Next, NEW i \in Server
               PROVE  VoteOnceStep(i)
    OBVIOUS
  <2>1. VoteStep
    BY NextVoteStep
  <2>2. /\ disk[i].currentTerm = currentTerm[i] /\ disk[i].votedFor = votedFor[i]
        /\ disk'[i].currentTerm = currentTerm'[i] /\ disk'[i].votedFor = votedFor'[i]
    BY <2>1 DEF VoteStep, ElectionInv, TypesOK, DiskOK, StoresVote
  <2> QED BY <2>1, <2>2 DEF VoteStep, GoodStep, VoteOnceStep
<1> QED BY <1>1, ElectionInvariant, PTL DEF Spec, VoteOnce

-----------------------------------------------------------------------------
(***************************************************************************)
(* The type invariant of RaftNode, for every value of the constants: the   *)
(* stores, the state machines and the indexes a leader keeps have their    *)
(* types, and a snapshot is as long as its index says.                     *)
(*                                                                         *)
(* lastIndex takes the largest key of a table of rows.  That there is one  *)
(* is the first lemma; the tables stay bounded because every write adds a  *)
(* bounded table.  The messages carry stores and parts of stores, so       *)
(* their contents are part of the inductive invariant (DataOK).            *)
(***************************************************************************)

\* A set of integers bounded above has a largest element, and Max gives it.
LEMMA MaxOfBounded ==
  ASSUME NEW b \in Int, NEW S, S # {}, \A x \in S : x \in Int /\ x <= b
  PROVE  Max(S) \in S /\ \A y \in S : y <= Max(S)
<1> DEFINE T == {b - x : x \in S}
<1>1. T \subseteq Nat /\ T # {}
  OBVIOUS
<1>2. PICK t \in T : \A u \in T : t <= u
  BY <1>1, LeastNatural
<1>3. PICK x \in S : t = b - x
  BY <1>2
<1>4. ASSUME NEW y \in S PROVE x >= y
  <2>1. b - x <= b - y
    BY <1>2, <1>3
  <2> QED BY <2>1
<1>5. \E z \in S : \A y \in S : z >= y
  BY <1>4
<1>6. Max(S) \in S /\ \A y \in S : Max(S) >= y
  BY <1>5 DEF Max
<1> QED BY <1>6

-----------------------------------------------------------------------------
(***************************************************************************)
(* The inductive invariant.                                                *)
(***************************************************************************)

\* A table of rows, as in log_entries and in the entries of a request.
IsLog(f) ==
  /\ \A n \in DOMAIN f : n \in Nat /\ f[n] \in Entry
  /\ \E b \in Int : \A n \in DOMAIN f : n <= b

IsSnapshot(n, t, blob) ==
  n \in Index /\ t \in Index /\ blob \in Seq(Entry) /\ Len(blob) = n + 1

\* A store, but for the term and the vote, of which ElectionInv tells.
IsStore(p) ==
  /\ {"lastSnapshotIndex", "lastSnapshotTerm", "log", "snapshot"} \subseteq DOMAIN p
  /\ IsSnapshot(p.lastSnapshotIndex, p.lastSnapshotTerm, p.snapshot)
  /\ IsLog(p.log)

CallOK(c) ==
  /\ "type" \in DOMAIN c /\ "caller" \in DOMAIN c /\ "peer" \in DOMAIN c
  /\ c.peer \in Peers(c.caller)
  /\ c.type = "AppendEntries" =>
       /\ {"prevLogIndex", "prevLogTerm", "entries", "leaderCommit"} \subseteq DOMAIN c
       /\ c.prevLogIndex \in Index /\ c.leaderCommit \in Index
       /\ IsLog(c.entries)
  /\ c.type = "InstallSnapshot" =>
       /\ {"lastIncludedIndex", "lastIncludedTerm", "data"} \subseteq DOMAIN c
       /\ IsSnapshot(c.lastIncludedIndex, c.lastIncludedTerm, c.data)
  /\ c.type = "AppendReply" => c.newMatch \in Index /\ c.next \in Nat
  /\ c.type = "SnapshotReply" => c.lastIncludedIndex \in Index

StoresOK == \A i \in Server : IsStore(disk[i])

MachinesOK ==
  /\ applied \in [Server -> Seq(Entry)]
  /\ commitIndex \in [Server -> Index]

\* The indexes of a leader are per peer, and it knows a leader or none.
PeersOK ==
  /\ leaderId \in [Server -> Server \cup {Nil}]
  /\ DOMAIN nextIndex = Server /\ DOMAIN matchIndex = Server
  /\ \A i \in Server : /\ nextIndex[i] \in [Peers(i) -> Nat]
                       /\ matchIndex[i] \in [Peers(i) -> Index]

CallsOK == \A c \in calls : CallOK(c)

CountsOK == elections \in Nat /\ restarts \in Nat

DataOK == StoresOK /\ MachinesOK /\ PeersOK /\ CallsOK /\ CountsOK

-----------------------------------------------------------------------------
(***************************************************************************)
(* What the operators of Persistence and the helpers of the handlers       *)
(* return.                                                                 *)
(***************************************************************************)

\* The largest key of a table that is not empty.
LEMMA LargestRow ==
  ASSUME NEW f, IsLog(f), DOMAIN f # {}
  PROVE  Max(DOMAIN f) \in DOMAIN f /\ \A n \in DOMAIN f : n <= Max(DOMAIN f)
<1>1. PICK b \in Int : \A n \in DOMAIN f : n <= b
  BY DEF IsLog
<1>2. \A n \in DOMAIN f : n \in Int /\ n <= b
  BY <1>1 DEF IsLog
<1> QED BY <1>2, MaxOfBounded

\* lastIndex is an index, and no row is beyond it.
LEMMA LastIndexBounds ==
  ASSUME NEW p, IsStore(p)
  PROVE  lastIndex(p) \in Index /\ Rows(p) \subseteq 0 .. lastIndex(p)
<1>1. CASE Rows(p) = {}
  BY <1>1 DEF lastIndex, IsStore, IsSnapshot
<1>2. CASE Rows(p) # {}
  <2>1. IsLog(p.log)
    BY DEF IsStore
  <2>2. Max(Rows(p)) \in Rows(p) /\ \A n \in Rows(p) : n <= Max(Rows(p))
    BY <1>2, <2>1, LargestRow DEF Rows
  <2>3. \A n \in Rows(p) : n \in Nat
    BY <2>1 DEF IsLog, Rows
  <2>4. lastIndex(p) = Max(Rows(p))
    BY <1>2 DEF lastIndex
  <2> QED BY <2>2, <2>3, <2>4 DEF Index
<1> QED BY <1>1, <1>2

\* A part of a table is a table.
LEMMA SelectIsLog ==
  ASSUME NEW p, NEW keys, IsLog(p.log)
  PROVE  IsLog(Select(p, keys))
<1>1. /\ DOMAIN Select(p, keys) \subseteq DOMAIN p.log
      /\ \A n \in DOMAIN Select(p, keys) : Select(p, keys)[n] = p.log[n]
  BY DEF Select, Rows
<1> HIDE DEF Select
<1> QED BY <1>1 DEF IsLog

\* The writes of a store leave a store behind.
LEMMA WritesKeepStore ==
  ASSUME NEW p, IsStore(p)
  PROVE  /\ \A t, v : IsStore(saveTermAndVote(p, t, v))
         /\ \A n : IsStore(truncateFrom(p, n))
         /\ \A n : IsStore(truncateUpTo(p, n))
         /\ IsStore(truncateAll(p))
         /\ \A n, t, blob : IsSnapshot(n, t, blob) => IsStore(saveSnapshot(p, n, t, blob))
<1>1. ASSUME NEW f, IsLog(f) PROVE IsStore([p EXCEPT !.log = f])
  BY <1>1 DEF IsStore
<1>2. ASSUME NEW keys PROVE IsStore([p EXCEPT !.log = Select(p, keys)])
  BY <1>1, SelectIsLog DEF IsStore
<1>3. \A t, v : IsStore(saveTermAndVote(p, t, v))
  BY DEF IsStore, saveTermAndVote
<1>4. \A n, t, blob : IsSnapshot(n, t, blob) => IsStore(saveSnapshot(p, n, t, blob))
  BY DEF IsStore, saveSnapshot
<1> QED BY <1>2, <1>3, <1>4 DEF truncateFrom, truncateUpTo, truncateAll

\* appendEntries of a table.
LEMMA AppendKeepsStore ==
  ASSUME NEW p, IsStore(p), NEW e, IsLog(e)
  PROVE  IsStore(appendEntries(p, e))
<1> DEFINE f == [n \in Rows(p) \cup DOMAIN e |-> IF n \in DOMAIN e THEN e[n] ELSE p.log[n]]
<1>1. PICK a \in Int : \A n \in Rows(p) : n <= a
  BY DEF IsStore, IsLog, Rows
<1>2. PICK b \in Int : \A n \in DOMAIN e : n <= b
  BY DEF IsLog
<1>3. \A n \in DOMAIN f : n \in Nat /\ f[n] \in Entry
  BY DEF IsStore, IsLog, Rows
<1>4. ASSUME NEW n \in DOMAIN f PROVE n <= Greater(a, b)
  <2>1. n \in Nat /\ (n <= a \/ n <= b)
    BY <1>1, <1>2, <1>3
  <2> QED BY <2>1 DEF Greater
<1>5. IsLog(f)
  <2>1. Greater(a, b) \in Int
    BY DEF Greater
  <2> QED BY <1>3, <1>4, <2>1 DEF IsLog
<1> HIDE DEF f
<1>6. IsStore([p EXCEPT !.log = f])
  BY <1>5 DEF IsStore
<1> QED BY <1>6 DEF appendEntries, f

\* _appendLocal appends one row after the last.
LEMMA AppendLocalKeepsStore ==
  ASSUME NEW p, IsStore(p), NEW t \in Nat, NEW op \in Stroke \cup {Noop}
  PROVE  IsStore(appendLocal(p, t, op))
<1> DEFINE e == [n \in {lastIndex(p) + 1} |-> [term |-> t, op |-> op]]
<1>1. lastIndex(p) \in Index
  BY LastIndexBounds
<1>2. lastIndex(p) + 1 \in Nat
  BY <1>1 DEF Index
<1>3. IsLog(e)
  <2>1. \A n \in DOMAIN e : n \in Nat /\ n <= lastIndex(p) + 1
    BY <1>2
  <2>2. \A n \in DOMAIN e : e[n] \in Entry
    BY DEF Entry
  <2> QED BY <1>2, <2>1, <2>2 DEF IsLog
<1> HIDE DEF e
<1>4. IsStore(appendEntries(p, e))
  BY <1>3, AppendKeepsStore
<1> QED BY <1>4 DEF appendLocal, e

\* The writes of handleAppendEntries.
LEMMA StoredIsStore ==
  ASSUME NEW p, IsStore(p), NEW entries, IsLog(entries)
  PROVE  IsStore(Truncated(p, entries)) /\ IsStore(Stored(p, entries))
<1>1. IsStore(Truncated(p, entries))
  BY WritesKeepStore DEF Truncated
<1>2. ASSUME NEW w PROVE IsLog([n \in {k \in DOMAIN entries : k >= w} |-> entries[n]])
  <2> DEFINE f == [n \in {k \in DOMAIN entries : k >= w} |-> entries[n]]
  <2>1. DOMAIN f \subseteq DOMAIN entries /\ \A n \in DOMAIN f : f[n] = entries[n]
    OBVIOUS
  <2> HIDE DEF f
  <2>2. IsLog(f)
    BY <2>1 DEF IsLog
  <2> QED BY <2>2 DEF f
<1>3. ASSUME NEW w
      PROVE  IsStore(appendEntries(Truncated(p, entries),
                       [n \in {k \in DOMAIN entries : k >= w} |-> entries[n]]))
  BY <1>1, <1>2, AppendKeepsStore
<1>4. IsStore(Stored(p, entries))
  BY <1>3 DEF Stored
<1> QED BY <1>1, <1>4

\* _applyCommitted appends rows of the log to what was applied.
LEMMA AppliedIsHistory ==
  ASSUME NEW p, IsStore(p), NEW app \in Seq(Entry), NEW commit \in Index
  PROVE  applyCommitted(p, app, commit) \in Seq(Entry)
<1> DEFINE reach == {n \in Len(app) .. commit : Len(app) .. n \subseteq Rows(p)}
           last == Max(reach \cup {Len(app) - 1})
           more == [k \in 1 .. last + 1 - Len(app) |-> p.log[Len(app) + k - 1]]
<1>1. Len(app) \in Nat /\ commit \in Int
  BY DEF Index
<1>2. \A n \in reach \cup {Len(app) - 1} : n \in Int /\ n <= Greater(commit, Len(app) - 1)
  BY <1>1 DEF Greater
<1>3. Greater(commit, Len(app) - 1) \in Int
  BY <1>1 DEF Greater
<1>4. last \in reach \cup {Len(app) - 1}
  <2> HIDE DEF reach
  <2> QED BY <1>2, <1>3, MaxOfBounded
<1>5. last + 1 - Len(app) \in Nat
  <2> HIDE DEF last
  <2> QED BY <1>1, <1>4
<1>6. ASSUME NEW k \in 1 .. last + 1 - Len(app)
      PROVE  p.log[Len(app) + k - 1] \in Entry
  <2>1. last \in reach
    <3>1. CASE last = Len(app) - 1
      <4> HIDE DEF last
      <4> QED BY <1>1, <1>6, <3>1
    <3> QED BY <1>4, <3>1
  <2>2. Len(app) + k - 1 \in Len(app) .. last
    <3> HIDE DEF last
    <3> QED BY <1>1, <1>5, <1>6, <1>2, <1>4
  <2>3. Len(app) .. last \subseteq Rows(p)
    <3> HIDE DEF last
    <3> QED BY <2>1
  <2>4. Len(app) + k - 1 \in Rows(p)
    BY <2>2, <2>3
  <2> QED BY <2>4 DEF IsStore, IsLog, Rows
<1>7. more \in Seq(Entry)
  <2> HIDE DEF last
  <2> QED BY <1>5, <1>6
<1> HIDE DEF more
<1>8. app \o more \in Seq(Entry)
  BY <1>7
<1> QED BY <1>8 DEF applyCommitted, more

\* The writes of _maybeSnapshot.
LEMMA SnapshottedIsStore ==
  ASSUME NEW p, IsStore(p), NEW app \in Seq(Entry)
  PROVE  IsStore(Snapshotted(p, app)) /\ IsStore(maybeSnapshot(p, app))
<1>1. CASE SnapshotDue(p, app)
  <2>1. Len(app) \in Nat /\ Len(app) - 1 \in Index
    BY DEF Index
  <2>2. p.log[Len(app) - 1] \in Entry
    BY <1>1 DEF SnapshotDue, IsStore, IsLog, Rows
  <2>3. IsSnapshot(Len(app) - 1, p.log[Len(app) - 1].term, app)
    BY <2>1, <2>2 DEF IsSnapshot, Entry, Index
  <2>4. IsStore(Snapshotted(p, app))
    BY <1>1, <2>3, WritesKeepStore DEF Snapshotted
  <2>5. IsStore(truncateUpTo(Snapshotted(p, app), Len(app) - 1))
    BY <2>4, WritesKeepStore
  <2> QED BY <2>4, <2>5 DEF maybeSnapshot
<1>2. CASE ~SnapshotDue(p, app)
  BY <1>2 DEF Snapshotted, maybeSnapshot
<1> QED BY <1>1, <1>2

\* _becomeFollower and the deletions of handleInstallSnapshot.
LEMMA FollowerStoreIsStore ==
  ASSUME StoresOK, NEW i \in Server, NEW t
  PROVE  IsStore(FollowerStore(i, t)) /\ \A m : IsStore(Wiped(FollowerStore(i, t), m))
<1>1. IsStore(FollowerStore(i, t))
  BY WritesKeepStore DEF FollowerStore, StoresOK
<1>2. ASSUME NEW m PROVE IsStore(Wiped(FollowerStore(i, t), m))
  BY <1>1, WritesKeepStore DEF Wiped
<1> QED BY <1>1, <1>2

\* _maybeAdvanceCommitIndex picks a row or nothing.
LEMMA AdvanceIsIndex ==
  ASSUME StoresOK, NEW i \in Server, NEW match
  PROVE  maybeAdvanceCommitIndex(i, match) \in Index
<1> DEFINE agreed == {n \in Rows(disk[i]) :
                        /\ n > commitIndex[i]
                        /\ disk[i].log[n].term = currentTerm[i]
                        /\ 1 + Cardinality({j \in Peers(i) : match[j] >= n}) >= Majority}
<1>1. /\ \A n \in Rows(disk[i]) : n \in Nat
      /\ \E b \in Int : \A n \in Rows(disk[i]) : n <= b
  BY DEF StoresOK, IsStore, IsLog, Rows
<1>2. agreed \subseteq Rows(disk[i])
  OBVIOUS
<1>3. agreed # {} => Max(agreed) \in Nat
  <2> HIDE DEF agreed
  <2> SUFFICES ASSUME agreed # {} PROVE Max(agreed) \in Nat
    OBVIOUS
  <2>1. PICK b \in Int : \A n \in Rows(disk[i]) : n <= b
    BY <1>1
  <2>2. \A n \in agreed : n \in Int /\ n <= b
    BY <1>1, <1>2, <2>1
  <2>3. Max(agreed) \in agreed
    BY <2>2, MaxOfBounded
  <2> QED BY <1>1, <1>2, <2>3
<1>4. maybeAdvanceCommitIndex(i, match) = IF agreed = {} THEN -1 ELSE Max(agreed)
  BY DEF maybeAdvanceCommitIndex
<1> HIDE DEF agreed
<1> QED BY <1>3, <1>4 DEF Index

-----------------------------------------------------------------------------
(***************************************************************************)
(* The calls.                                                              *)
(***************************************************************************)

\* The bodies of the requests are well formed.
LEMMA SentCallsOK ==
  ASSUME CallsOK, MachinesOK, NEW i \in Server, NEW p, IsStore(p), NEW next,
         \A j \in Peers(i) : next[j] \in Nat,
         sendAppendEntriesToAll(i, p, next)
  PROVE  CallsOK'
<1>1. ASSUME NEW j \in Peers(i), NEW c \in sendInstallSnapshotTo(i, j, p)
      PROVE  CallOK(c)
  BY <1>1 DEF sendInstallSnapshotTo, CallOK, IsStore
<1>2. ASSUME NEW j \in Peers(i), NEW n \in Nat, NEW c \in sendAppendEntriesTo(i, j, p, n)
      PROVE  CallOK(c)
  <2>1. CASE n < firstIndex(p)
    BY <1>1, <1>2, <2>1 DEF sendAppendEntriesTo
  <2>2. CASE ~(n < firstIndex(p))
    <3>1. /\ DOMAIN c = {"type", "caller", "peer", "awaited", "term", "prevLogIndex",
                         "prevLogTerm", "entries", "leaderCommit"}
          /\ c.type = "AppendEntries" /\ c.caller = i /\ c.peer = j
          /\ c.prevLogIndex = n - 1
          /\ c.entries = getRange(p, n, lastIndex(p))
          /\ c.leaderCommit = commitIndex[i]
      BY <1>2, <2>2 DEF sendAppendEntriesTo
    <3>2. IsLog(c.entries)
      BY <3>1, SelectIsLog DEF getRange, IsStore
    <3>3. c.prevLogIndex \in Index /\ c.leaderCommit \in Index
      BY <1>2, <3>1 DEF Index, MachinesOK
    <3> QED BY <3>1, <3>2, <3>3 DEF CallOK
  <2> QED BY <2>1, <2>2
<1>3. \A c \in calls' : \/ c \in calls
                        \/ \E j \in Peers(i) : c \in sendAppendEntriesTo(i, j, p, next[j])
  BY DEF sendAppendEntriesToAll
<1> QED BY <1>2, <1>3 DEF CallsOK

\* The responses are, too.
LEMMA RespondedCallsOK ==
  ASSUME CallsOK, NEW m \in calls, NEW t, NEW r,
         \/ m.type = "InstallSnapshot" /\ r = SnapshotReply(m, t)
         \/ /\ m.type = "AppendEntries"
            /\ \E success \in BOOLEAN : r = AppendReply(m, t, success),
         Respond(m, r)
  PROVE  CallsOK'
<1>1. CallOK(m)
  BY DEF CallsOK
<1>2. CASE m.type = "InstallSnapshot" /\ r = SnapshotReply(m, t)
  <2>1. CallOK(r)
    BY <1>1, <1>2 DEF CallOK, SnapshotReply, IsSnapshot
  <2> QED BY <2>1 DEF Respond, CallsOK
<1>3. CASE m.type = "AppendEntries" /\ \E success \in BOOLEAN : r = AppendReply(m, t, success)
  <2>1. m.prevLogIndex \in Index /\ IsLog(m.entries)
    BY <1>1, <1>3 DEF CallOK
  <2>2. newMatch(m) \in Index
    <3>1. CASE DOMAIN m.entries = {}
      BY <2>1, <3>1 DEF newMatch
    <3>2. CASE DOMAIN m.entries # {}
      <4>1. Max(DOMAIN m.entries) \in DOMAIN m.entries
        BY <2>1, <3>2, LargestRow
      <4> QED BY <2>1, <3>2, <4>1 DEF newMatch, IsLog, Index
    <3> QED BY <3>1, <3>2
  <2>3. /\ r.type = "AppendReply" /\ r.caller = m.caller /\ r.peer = m.peer
        /\ r.newMatch = newMatch(m) /\ r.next = m.prevLogIndex + 1
        /\ {"type", "caller", "peer"} \subseteq DOMAIN r
    BY <1>3 DEF AppendReply
  <2>4. r.next \in Nat
    BY <2>1, <2>3 DEF Index
  <2>5. CallOK(r)
    BY <1>1, <2>2, <2>3, <2>4 DEF CallOK
  <2> QED BY <2>5 DEF Respond, CallsOK
<1> QED BY <1>2, <1>3

-----------------------------------------------------------------------------
(***************************************************************************)
(* The steps.                                                              *)
(***************************************************************************)
DataInv == ElectionInv /\ DataOK

\* A step of replica i that writes a store.
LEMMA StoreWritten ==
  ASSUME DataInv, NEW i \in Server, NEW p, IsStore(p), disk' = [disk EXCEPT ![i] = p]
  PROVE  StoresOK'
BY DEF DataInv, DataOK, StoresOK, ElectionInv, TypesOK, DiskOK

\* _applyCommitted, after which store and state machine are what they were.
LEMMA SettleOK ==
  ASSUME DataInv, NEW i \in Server, NEW p, IsStore(p), NEW commit \in Index,
         Settle(i, p, commit)
  PROVE  StoresOK' /\ MachinesOK'
<1> DEFINE app == applyCommitted(p, applied[i], commit)
<1>1. applied[i] \in Seq(Entry)
  BY DEF DataInv, DataOK, MachinesOK
<1>2. app \in Seq(Entry)
  BY <1>1, AppliedIsHistory
<1>3. /\ commitIndex' = [commitIndex EXCEPT ![i] = commit]
      /\ applied' = [applied EXCEPT ![i] = app]
      /\ disk' = [disk EXCEPT ![i] = maybeSnapshot(p, app)]
  BY DEF Settle
<1> HIDE DEF app
<1>4. StoresOK'
  BY <1>2, <1>3, SnapshottedIsStore, StoreWritten
<1>5. MachinesOK'
  BY <1>2, <1>3 DEF DataInv, DataOK, MachinesOK
<1> QED BY <1>4, <1>5

\* start, after the process died with the store p.
LEMMA CrashOK ==
  ASSUME DataInv, NEW i \in Server, NEW p, IsStore(p),
         NEW left \in SUBSET calls, CrashWith(i, p, left)
  PROVE  DataOK'
<1>1. StoresOK'
  BY StoreWritten DEF CrashWith
<1>2. MachinesOK'
  BY DEF CrashWith, DataInv, DataOK, MachinesOK, IsStore, IsSnapshot
<1>3. PeersOK'
  <2>1. [j \in Peers(i) |-> 0] \in [Peers(i) -> Nat]
    OBVIOUS
  <2>2. [j \in Peers(i) |-> -1] \in [Peers(i) -> Index]
    BY DEF Index
  <2> QED BY <2>1, <2>2 DEF CrashWith, DataInv, DataOK, PeersOK
<1>4. CallsOK'
  <2>1. ASSUME NEW c, CallOK(c) PROVE CallOK([c EXCEPT !.awaited = FALSE])
    BY <2>1 DEF CallOK
  <2>2. \A c \in calls' : \E d \in calls : c = d \/ c = [d EXCEPT !.awaited = FALSE]
    BY DEF CrashWith
  <2> QED BY <2>1, <2>2 DEF DataInv, DataOK, CallsOK
<1>5. CountsOK'
  BY DEF CrashWith, DataInv, DataOK, CountsOK
<1> QED BY <1>1, <1>2, <1>3, <1>4, <1>5 DEF DataOK

\* The elections touch the term, the vote and, when won, the peers' indexes.
LEMMA ElectionActionsOK ==
  ASSUME DataInv, NEW i \in Server, StartElection(i) \/ ElectionWon(i)
  PROVE  DataOK'
<1>1. IsStore(disk[i])
  BY DEF DataInv, DataOK, StoresOK
<1>2. CASE StartElection(i)
  <2>1. IsStore(saveTermAndVote(disk[i], currentTerm[i] + 1, i))
    BY <1>1, WritesKeepStore
  <2>2. StoresOK'
    BY <1>2, <2>1, StoreWritten DEF StartElection
  <2>3. MachinesOK' /\ CallsOK'
    BY <1>2 DEF StartElection, DataInv, DataOK, MachinesOK, CallsOK
  <2>4. PeersOK' /\ CountsOK'
    BY <1>2 DEF StartElection, DataInv, DataOK, PeersOK, CountsOK
  <2> QED BY <2>2, <2>3, <2>4 DEF DataOK
<1>3. CASE ElectionWon(i)
  <2> DEFINE p == appendLocal(disk[i], currentTerm[i], Noop)
             next == [j \in Peers(i) |-> lastIndex(disk[i]) + 1]
  <2>1. currentTerm[i] \in Nat
    BY DEF DataInv, ElectionInv, TypesOK, TermsOK
  <2>2. IsStore(p)
    BY <1>1, <2>1, AppendLocalKeepsStore
  <2>3. lastIndex(disk[i]) + 1 \in Nat
    BY <1>1, LastIndexBounds DEF Index
  <2>4. next \in [Peers(i) -> Nat] /\ [j \in Peers(i) |-> -1] \in [Peers(i) -> Index]
    BY <2>3 DEF Index
  <2>5. /\ disk' = [disk EXCEPT ![i] = p]
        /\ sendAppendEntriesToAll(i, p, next)
        /\ leaderId' = [leaderId EXCEPT ![i] = i]
        /\ nextIndex' = [nextIndex EXCEPT ![i] = next]
        /\ matchIndex' = [matchIndex EXCEPT ![i] = [j \in Peers(i) |-> -1]]
        /\ UNCHANGED <<commitIndex, applied, elections, restarts>>
    BY <1>3 DEF ElectionWon, bounds
  <2> HIDE DEF p, next
  <2>6. StoresOK'
    BY <2>2, <2>5, StoreWritten
  <2>7. CallsOK'
    BY <2>2, <2>4, <2>5, SentCallsOK DEF DataInv, DataOK
  <2>8. MachinesOK' /\ CountsOK'
    BY <2>5 DEF DataInv, DataOK, MachinesOK, CountsOK
  <2>9. PeersOK'
    BY <2>4, <2>5 DEF DataInv, DataOK, PeersOK
  <2> QED BY <2>6, <2>7, <2>8, <2>9 DEF DataOK
<1> QED BY <1>2, <1>3

\* So do the votes given and the answers to a candidate.
LEMMA VoteActionsOK ==
  ASSUME DataInv,
         \/ \E m \in voteRequests : HandleRequestVote(m)
         \/ \E r \in voteReplies : ElectionSteppedDown(r)
  PROVE  DataOK'
<1>1. CASE \E m \in voteRequests : HandleRequestVote(m)
  <2>1. PICK m \in voteRequests : HandleRequestVote(m)
    BY <1>1
  <2>2. m.dst \in Server
    BY DEF DataInv, ElectionInv, TypesOK, MessagesOK
  <2>3. /\ \/ disk' = disk
           \/ \E t, v : disk' = [disk EXCEPT ![m.dst] = saveTermAndVote(disk[m.dst], t, v)]
        /\ UNCHANGED <<leaderId, commitIndex, nextIndex, matchIndex, applied, calls,
                       elections, restarts>>
    BY <2>1 DEF HandleRequestVote, bounds
  <2>4. \A t, v : IsStore(saveTermAndVote(disk[m.dst], t, v))
    BY <2>2, WritesKeepStore DEF DataInv, DataOK, StoresOK
  <2>5. StoresOK'
    BY <2>2, <2>3, <2>4, StoreWritten DEF DataInv, DataOK, StoresOK
  <2> QED BY <2>3, <2>5 DEF DataInv, DataOK, MachinesOK, PeersOK, CallsOK, CountsOK
<1>2. CASE \E r \in voteReplies : ElectionSteppedDown(r)
  <2>1. PICK r \in voteReplies : ElectionSteppedDown(r)
    BY <1>2
  <2>2. r.dst \in Server
    BY DEF DataInv, ElectionInv, TypesOK, MessagesOK
  <2>3. StoresOK'
    BY <2>1, <2>2, FollowerStoreIsStore, StoreWritten DEF ElectionSteppedDown, DataInv, DataOK
  <2>4. UNCHANGED <<leaderId, commitIndex, nextIndex, matchIndex, applied, calls,
                    elections, restarts>>
    BY <2>1 DEF ElectionSteppedDown, network, bounds
  <2> QED BY <2>3, <2>4 DEF DataInv, DataOK, MachinesOK, PeersOK, CallsOK, CountsOK
<1> QED BY <1>1, <1>2

\* submit and the heartbeat.
LEMMA LeaderActionsOK ==
  ASSUME DataInv, NEW i \in Server, Heartbeat(i) \/ \E s \in Stroke : Submit(i, s)
  PROVE  DataOK'
<1>1. IsStore(disk[i]) /\ \A j \in Peers(i) : nextIndex[i][j] \in Nat
  BY DEF DataInv, DataOK, StoresOK, PeersOK
<1>2. CASE Heartbeat(i)
  <2>1. /\ sendAppendEntriesToAll(i, disk[i], nextIndex[i])
        /\ UNCHANGED <<disk, leaderId, commitIndex, nextIndex, matchIndex, applied,
                       elections, restarts>>
    BY <1>2 DEF Heartbeat, volatile, bounds
  <2>2. CallsOK'
    BY <1>1, <2>1, SentCallsOK DEF DataInv, DataOK
  <2> QED BY <2>1, <2>2 DEF DataInv, DataOK, StoresOK, MachinesOK, PeersOK, CountsOK
<1>3. CASE \E s \in Stroke : Submit(i, s)
  <2>1. PICK s \in Stroke : Submit(i, s)
    BY <1>3
  <2> DEFINE p == appendLocal(disk[i], currentTerm[i], s)
  <2>2. /\ disk' = [disk EXCEPT ![i] = p]
        /\ sendAppendEntriesToAll(i, p, nextIndex[i])
        /\ UNCHANGED <<leaderId, commitIndex, nextIndex, matchIndex, applied,
                       elections, restarts>>
    BY <2>1 DEF Submit, volatile, bounds
  <2>3. IsStore(p)
    BY <1>1, AppendLocalKeepsStore DEF DataInv, ElectionInv, TypesOK, TermsOK
  <2> HIDE DEF p
  <2>4. StoresOK' /\ CallsOK'
    BY <1>1, <2>2, <2>3, StoreWritten, SentCallsOK DEF DataInv, DataOK
  <2> QED BY <2>2, <2>4 DEF DataInv, DataOK, MachinesOK, PeersOK, CountsOK
<1> QED BY <1>2, <1>3

\* The continuations of the leader's calls.
LEMMA ReplyActionsOK ==
  ASSUME DataInv, NEW r \in calls,
         ReplyNewerTerm(r) \/ ReplyAppended(r) \/ ReplyRejected(r) \/ ReplyInstalled(r)
  PROVE  DataOK'
<1>1. r.caller \in Server /\ r.peer \in Peers(r.caller) /\ CallOK(r)
  BY DEF DataInv, DataOK, CallsOK, CallOK, ElectionInv, TypesOK, MessagesOK
<1>2. CallsOK'
  BY DEF ReplyNewerTerm, ReplyAppended, ReplyRejected, ReplyInstalled, DataInv, DataOK, CallsOK
<1>3. CountsOK'
  BY DEF ReplyNewerTerm, ReplyAppended, ReplyRejected, ReplyInstalled, bounds,
         DataInv, DataOK, CountsOK
<1>4. /\ nextIndex[r.caller] \in [Peers(r.caller) -> Nat]
      /\ matchIndex[r.caller] \in [Peers(r.caller) -> Index]
  BY <1>1 DEF DataInv, DataOK, PeersOK
<1>5. CASE ReplyNewerTerm(r)
  <2>1. StoresOK'
    BY <1>1, <1>5, FollowerStoreIsStore, StoreWritten DEF ReplyNewerTerm, DataInv, DataOK
  <2> QED BY <1>2, <1>3, <1>5, <2>1
          DEF ReplyNewerTerm, DataInv, DataOK, MachinesOK, PeersOK
<1>6. CASE ReplyAppended(r)
  <2> DEFINE match == [matchIndex[r.caller] EXCEPT ![r.peer] = r.newMatch]
             commit == maybeAdvanceCommitIndex(r.caller, match)
  <2>1. r.newMatch \in Index
    BY <1>1, <1>6 DEF ReplyAppended, CallOK
  <2>2. r.newMatch + 1 \in Nat
    BY <2>1 DEF Index
  <2>3. commit \in Index
    BY <1>1, AdvanceIsIndex DEF DataInv, DataOK
  <2>4. /\ \/ Settle(r.caller, disk[r.caller], commit)
           \/ UNCHANGED <<commitIndex, applied, disk>>
        /\ matchIndex' = [matchIndex EXCEPT ![r.caller] = match]
        /\ nextIndex' = [nextIndex EXCEPT ![r.caller][r.peer] = r.newMatch + 1]
        /\ leaderId' = leaderId
    BY <1>6 DEF ReplyAppended
  <2>5. match \in [Peers(r.caller) -> Index]
    BY <1>1, <1>4, <2>1
  <2> HIDE DEF match, commit
  <2>6. StoresOK' /\ MachinesOK'
    <3>1. IsStore(disk[r.caller])
      BY <1>1 DEF DataInv, DataOK, StoresOK
    <3> QED BY <1>1, <2>3, <2>4, <3>1, SettleOK DEF DataInv, DataOK, StoresOK, MachinesOK
  <2>7. PeersOK'
    BY <1>1, <1>4, <2>2, <2>4, <2>5 DEF DataInv, DataOK, PeersOK
  <2> QED BY <1>2, <1>3, <2>6, <2>7 DEF DataOK
<1>7. CASE ReplyRejected(r)
  <2>1. Greater(0, r.next - 1) \in Nat
    BY <1>1, <1>7 DEF ReplyRejected, CallOK, Greater
  <2>2. PeersOK'
    BY <1>1, <1>4, <1>7, <2>1 DEF ReplyRejected, DataInv, DataOK, PeersOK
  <2> QED BY <1>2, <1>3, <1>7, <2>2
          DEF ReplyRejected, DataInv, DataOK, StoresOK, MachinesOK
<1>8. CASE ReplyInstalled(r)
  <2>1. r.lastIncludedIndex \in Index /\ r.lastIncludedIndex + 1 \in Nat
    BY <1>1, <1>8 DEF ReplyInstalled, CallOK, Index
  <2>2. PeersOK'
    BY <1>1, <1>4, <1>8, <2>1 DEF ReplyInstalled, DataInv, DataOK, PeersOK
  <2> QED BY <1>2, <1>3, <1>8, <2>2
          DEF ReplyInstalled, DataInv, DataOK, StoresOK, MachinesOK
<1> QED BY <1>5, <1>6, <1>7, <1>8

\* The handlers of the calls.
LEMMA RequestActionsOK ==
  ASSUME DataInv, NEW m \in calls,
         \/ RefuseStaleTerm(m) \/ AppendEntriesMismatch(m) \/ HandleAppendEntries(m)
         \/ InstallSnapshotKnown(m) \/ HandleInstallSnapshot(m)
  PROVE  DataOK'
<1>1. m.caller \in Server /\ m.peer \in Server /\ CallOK(m) /\ CallsOK
  BY DEF DataInv, DataOK, CallsOK, ElectionInv, TypesOK, MessagesOK
<1>2. IsStore(FollowerStore(m.peer, m.term)) /\ IsStore(Wiped(FollowerStore(m.peer, m.term), m))
  BY <1>1, FollowerStoreIsStore DEF DataInv, DataOK
<1>3. CallsOK'
  <2>1. CASE RefuseStaleTerm(m)
    BY <1>1, <2>1, RespondedCallsOK DEF RefuseStaleTerm, IsRequest
  <2>2. CASE AppendEntriesMismatch(m) \/ HandleAppendEntries(m)
    BY <1>1, <2>2, RespondedCallsOK DEF AppendEntriesMismatch, HandleAppendEntries
  <2>3. CASE InstallSnapshotKnown(m) \/ HandleInstallSnapshot(m)
    BY <1>1, <2>3, RespondedCallsOK DEF InstallSnapshotKnown, HandleInstallSnapshot
  <2> QED BY <2>1, <2>2, <2>3
<1>4. CountsOK'
  BY DEF RefuseStaleTerm, AppendEntriesMismatch, HandleAppendEntries, InstallSnapshotKnown,
         HandleInstallSnapshot, bounds, DataInv, DataOK, CountsOK
<1>5. PeersOK'
  <2>1. UNCHANGED <<nextIndex, matchIndex>>
    BY DEF RefuseStaleTerm, AppendEntriesMismatch, HandleAppendEntries, InstallSnapshotKnown,
           HandleInstallSnapshot, volatile
  <2>2. leaderId' = leaderId \/ leaderId' = [leaderId EXCEPT ![m.peer] = m.caller]
    BY DEF RefuseStaleTerm, AppendEntriesMismatch, HandleAppendEntries, InstallSnapshotKnown,
           HandleInstallSnapshot, Follow, volatile
  <2> QED BY <1>1, <2>1, <2>2 DEF DataInv, DataOK, PeersOK
<1>6. StoresOK' /\ MachinesOK'
  <2>1. CASE RefuseStaleTerm(m)
    BY <2>1 DEF RefuseStaleTerm, volatile, DataInv, DataOK, StoresOK, MachinesOK
  <2>2. CASE AppendEntriesMismatch(m) \/ InstallSnapshotKnown(m)
    <3>1. StoresOK'
      BY <1>1, <1>2, <2>2, StoreWritten DEF AppendEntriesMismatch, InstallSnapshotKnown
    <3> QED BY <2>2, <3>1 DEF AppendEntriesMismatch, InstallSnapshotKnown,
                              DataInv, DataOK, MachinesOK
  <2>3. CASE HandleAppendEntries(m)
    <3> DEFINE p == Stored(FollowerStore(m.peer, m.term), m.entries)
               commit == Lesser(m.leaderCommit, lastIndex(p))
    <3>1. m.leaderCommit \in Index /\ IsLog(m.entries)
      BY <1>1, <2>3 DEF HandleAppendEntries, CallOK
    <3>2. IsStore(p)
      BY <1>2, <3>1, StoredIsStore
    <3>3. commit \in Index
      BY <3>1, <3>2, LastIndexBounds DEF Lesser
    <3>4. \/ Settle(m.peer, p, commit)
          \/ disk' = [disk EXCEPT ![m.peer] = p] /\ UNCHANGED <<commitIndex, applied>>
      BY <2>3 DEF HandleAppendEntries
    <3> HIDE DEF p, commit
    <3> QED BY <1>1, <3>2, <3>3, <3>4, SettleOK, StoreWritten DEF DataInv, DataOK, MachinesOK
  <2>4. CASE HandleInstallSnapshot(m)
    <3>1. IsSnapshot(m.lastIncludedIndex, m.lastIncludedTerm, m.data)
      BY <1>1, <2>4 DEF HandleInstallSnapshot, CallOK
    <3>2. IsStore(saveSnapshot(Wiped(FollowerStore(m.peer, m.term), m),
                               m.lastIncludedIndex, m.lastIncludedTerm, m.data))
      BY <1>2, <3>1, WritesKeepStore
    <3>3. StoresOK'
      BY <1>1, <2>4, <3>2, StoreWritten DEF HandleInstallSnapshot
    <3>4. MachinesOK'
      BY <1>1, <2>4, <3>1 DEF HandleInstallSnapshot, DataInv, DataOK, MachinesOK,
                              IsSnapshot, Greater, Index
    <3> QED BY <3>3, <3>4
  <2> QED BY <2>1, <2>2, <2>3, <2>4
<1> QED BY <1>3, <1>4, <1>5, <1>6 DEF DataOK

\* A crash inside a handler leaves one of the stores the handler goes through.
LEMMA CrashActionsOK ==
  ASSUME DataInv,
         \/ \E i \in Server : Restart(i)
         \/ \E m \in voteRequests : CrashInRequestVote(m)
         \/ \E m \in calls : \/ CrashInAppendEntries(m)
                             \/ CrashInInstallSnapshot(m)
                             \/ CrashInSnapshot(m)
  PROVE  DataOK'
<1>0. \A i \in Server : IsStore(disk[i])
  BY DEF DataInv, DataOK, StoresOK
<1>1. CASE \E i \in Server : Restart(i)
  BY <1>0, <1>1, CrashOK DEF Restart
<1>2. CASE \E m \in voteRequests : CrashInRequestVote(m)
  <2>1. PICK m \in voteRequests : CrashInRequestVote(m)
    BY <1>2
  <2>2. m.dst \in Server
    BY DEF DataInv, ElectionInv, TypesOK, MessagesOK
  <2>3. IsStore(saveTermAndVote(disk[m.dst], m.term, Nil))
    BY <1>0, <2>2, WritesKeepStore
  <2> QED BY <2>1, <2>2, <2>3, CrashOK DEF CrashInRequestVote
<1>3. CASE \E m \in calls : CrashInAppendEntries(m)
  <2>1. PICK m \in calls : CrashInAppendEntries(m)
    BY <1>3
  <2> DEFINE p == FollowerStore(m.peer, m.term)
             stored == Stored(p, m.entries)
             app == applyCommitted(stored, applied[m.peer],
                                   Lesser(m.leaderCommit, lastIndex(stored)))
  <2>2. m.peer \in Server /\ CallOK(m)
    BY DEF DataInv, DataOK, CallsOK, ElectionInv, TypesOK, MessagesOK
  <2>3. IsStore(p)
    BY <2>2, FollowerStoreIsStore DEF DataInv, DataOK
  <2>4. m.leaderCommit \in Index /\ IsLog(m.entries)
    BY <2>1, <2>2 DEF CrashInAppendEntries, CallOK
  <2> HIDE DEF p
  <2>5. IsStore(Truncated(p, m.entries)) /\ IsStore(stored)
    BY <2>3, <2>4, StoredIsStore
  <2> HIDE DEF stored
  <2>6. app \in Seq(Entry)
    <3>1. Lesser(m.leaderCommit, lastIndex(stored)) \in Index
      BY <2>4, <2>5, LastIndexBounds DEF Lesser
    <3> QED BY <2>2, <2>5, <3>1, AppliedIsHistory DEF DataInv, DataOK, MachinesOK
  <2> HIDE DEF app
  <2>7. IsStore(Snapshotted(stored, app))
    BY <2>5, <2>6, SnapshottedIsStore
  <2>8. \E q \in {p, Truncated(p, m.entries), stored, Snapshotted(stored, app)} :
          CrashWith(m.peer, q, calls \ {m})
    BY <2>1 DEF CrashInAppendEntries, p, stored, app
  <2> QED BY <2>2, <2>3, <2>5, <2>7, <2>8, CrashOK
<1>4. CASE \E m \in calls : CrashInInstallSnapshot(m)
  <2>1. PICK m \in calls : CrashInInstallSnapshot(m)
    BY <1>4
  <2>2. m.peer \in Server
    BY DEF DataInv, ElectionInv, TypesOK, MessagesOK
  <2>3. IsStore(FollowerStore(m.peer, m.term)) /\ IsStore(Wiped(FollowerStore(m.peer, m.term), m))
    BY <2>2, FollowerStoreIsStore DEF DataInv, DataOK
  <2> QED BY <2>1, <2>2, <2>3, CrashOK DEF CrashInInstallSnapshot
<1>5. CASE \E m \in calls : CrashInSnapshot(m)
  <2>1. PICK r \in calls : CrashInSnapshot(r)
    BY <1>5
  <2> DEFINE commit == maybeAdvanceCommitIndex(r.caller,
                         [matchIndex[r.caller] EXCEPT ![r.peer] = r.newMatch])
             app == applyCommitted(disk[r.caller], applied[r.caller], commit)
  <2>2. r.caller \in Server
    BY DEF DataInv, ElectionInv, TypesOK, MessagesOK
  <2>3. commit \in Index
    BY <2>2, AdvanceIsIndex DEF DataInv, DataOK
  <2> HIDE DEF commit
  <2>4. app \in Seq(Entry)
    BY <1>0, <2>2, <2>3, AppliedIsHistory DEF DataInv, DataOK, MachinesOK
  <2> HIDE DEF app
  <2>5. IsStore(Snapshotted(disk[r.caller], app))
    BY <1>0, <2>2, <2>4, SnapshottedIsStore
  <2>6. CrashWith(r.caller, Snapshotted(disk[r.caller], app), calls)
    BY <2>1 DEF CrashInSnapshot, app, commit
  <2> QED BY <2>2, <2>5, <2>6, CrashOK
<1> QED BY <1>1, <1>2, <1>3, <1>4, <1>5

-----------------------------------------------------------------------------
(***************************************************************************)
(* The theorem.                                                            *)
(***************************************************************************)

\* Nothing but an empty cluster to begin with.
LEMMA DataOKInit == Init => DataOK
<1> SUFFICES ASSUME Init PROVE DataOK
  OBVIOUS
<1>1. ASSUME NEW i \in Server PROVE IsStore(disk[i])
  <2>1. disk[i] = FreshStore
    BY DEF Init
  <2>2. IsLog(FreshStore.log)
    BY DEF FreshStore, IsLog
  <2> QED BY <2>1, <2>2 DEF IsStore, IsSnapshot, FreshStore, Index
<1>2. StoresOK /\ CallsOK /\ CountsOK
  BY <1>1 DEF Init, StoresOK, CallsOK, CountsOK
<1>3. MachinesOK /\ PeersOK
  BY DEF Init, MachinesOK, PeersOK, Index
<1> QED BY <1>2, <1>3 DEF DataOK

\* Every step keeps the data well formed.
LEMMA DataOKNext == ElectionInv /\ DataOK /\ [Next]_vars => DataOK'
<1> SUFFICES ASSUME DataInv, [Next]_vars PROVE DataOK'
  BY DEF DataInv
<1>1. CASE Next
  BY <1>1, ElectionActionsOK, VoteActionsOK, LeaderActionsOK, ReplyActionsOK,
     RequestActionsOK, CrashActionsOK DEF Next
<1>2. CASE UNCHANGED vars
  BY <1>2 DEF vars, volatile, network, bounds, DataInv, DataOK, StoresOK, MachinesOK,
              PeersOK, CallsOK, CountsOK
<1> QED BY <1>1, <1>2

\* The two invariants together have every conjunct of TypeOK.
LEMMA DataInvTypes == ElectionInv /\ DataOK => TypeOK
<1> SUFFICES ASSUME ElectionInv, DataOK PROVE TypeOK
  OBVIOUS
<1>1. ASSUME NEW i \in Server PROVE StoreOK(disk[i])
  <2>1. IsStore(disk[i])
    BY DEF DataOK, StoresOK
  <2>2. disk[i].currentTerm \in Nat /\ disk[i].votedFor \in Server \cup {Nil}
    BY DEF ElectionInv, TypesOK, TermsOK, DiskOK, StoresVote
  <2>3. lastIndex(disk[i]) \in Index /\ Rows(disk[i]) \subseteq 0 .. lastIndex(disk[i])
    BY <2>1, LastIndexBounds
  <2>4. \A n \in Rows(disk[i]) : disk[i].log[n] \in Entry
    BY <2>1 DEF IsStore, IsLog, Rows
  <2> QED BY <2>1, <2>2, <2>3, <2>4 DEF StoreOK, IsStore, IsSnapshot
<1>2. ASSUME NEW i \in Server, NEW n \in 1 .. Len(applied[i]) PROVE applied[i][n] \in Entry
  BY DEF DataOK, MachinesOK
<1> QED BY <1>1, <1>2 DEF TypeOK, ElectionInv, TypesOK, TermsOK, DataOK, MachinesOK, PeersOK,
                         CountsOK

\* The type invariant, for every value of the constants: no table of rows has
\* a key beyond lastIndex, and every snapshot on disk is as long as its
\* lastSnapshotIndex says, also after a crash between two writes.
THEOREM TypeTheorem == Spec => []TypeOK
BY ElectionInvariant, DataOKInit, DataOKNext, DataInvTypes, PTL DEF Spec

-----------------------------------------------------------------------------
(***************************************************************************)
(* The logs of RaftNode, for every value of the constants: a leader's log  *)
(* only grows (LeaderAppendOnly), and index and term name an entry         *)
(* (EntriesUnique).  Both hold with lost and overtaking messages and with  *)
(* crashes inside handlers.  The replicas implement one replicated log as  *)
(* long as no two of them apply different entries at one index.            *)
(***************************************************************************)

-----------------------------------------------------------------------------
(***************************************************************************)
(* A leader's log only grows.                                              *)
(***************************************************************************)

\* lastIndex depends on nothing but the rows and the snapshot's index.
LEMMA SameLastIndex ==
  ASSUME NEW p, NEW q, q.log = p.log, q.lastSnapshotIndex = p.lastSnapshotIndex
  PROVE  lastIndex(q) = lastIndex(p) /\ Rows(q) = Rows(p)
BY DEF lastIndex, Rows

\* The store q is p with the entry e appended.
Grown(p, q, e) ==
  /\ Rows(q) = Rows(p) \cup {lastIndex(p) + 1}
  /\ \A n \in Rows(p) : q.log[n] = p.log[n]
  /\ q.log[lastIndex(p) + 1] = e
  /\ q.snapshot = p.snapshot
  /\ lastIndex(q) = lastIndex(p) + 1

\* _appendLocal adds a row after the last and leaves the others.
LEMMA AppendLocalGrows ==
  ASSUME NEW p, IsStore(p), NEW t \in Nat, NEW op \in Stroke \cup {Noop}
  PROVE  Grown(p, appendLocal(p, t, op), [term |-> t, op |-> op])
<1> DEFINE q == appendLocal(p, t, op)
           last == lastIndex(p) + 1
           f == [n \in Rows(p) \cup {last} |->
                   IF n \in {last} THEN [term |-> t, op |-> op] ELSE p.log[n]]
<1>1. lastIndex(p) \in Index /\ Rows(p) \subseteq 0 .. lastIndex(p)
  BY LastIndexBounds
<1>2. last \in Nat /\ last \notin Rows(p) /\ \A n \in Rows(p) : n \in Nat /\ n <= last
  BY <1>1 DEF Index
<1>3. q = [p EXCEPT !.log = f]
  BY DEF appendLocal, appendEntries
<1>4. q.log = f /\ q.snapshot = p.snapshot
  BY <1>3 DEF IsStore
<1> HIDE DEF q
<1>5. Rows(q) = Rows(p) \cup {last}
  BY <1>4 DEF Rows
<1>6. /\ \A n \in Rows(p) : q.log[n] = p.log[n]
      /\ q.log[last] = [term |-> t, op |-> op]
  BY <1>2, <1>4
<1> HIDE DEF last
<1>7. Max(Rows(q)) = last
  <2>1. \A n \in Rows(q) : n \in Int /\ n <= last
    BY <1>2, <1>5
  <2>2. Max(Rows(q)) \in Rows(q) /\ \A n \in Rows(q) : n <= Max(Rows(q))
    BY <1>2, <1>5, <2>1, MaxOfBounded
  <2>3. last \in Rows(q)
    BY <1>5
  <2>4. Max(Rows(q)) <= last /\ last <= Max(Rows(q)) /\ Max(Rows(q)) \in Int
    BY <2>1, <2>2, <2>3
  <2> QED BY <1>2, <2>4
<1>8. lastIndex(q) = last
  BY <1>5, <1>7 DEF lastIndex
<1> QED BY <1>4, <1>5, <1>6, <1>8 DEF last, q, Grown

\* _maybeSnapshot deletes rows only up to its snapshot, and does not move the
\* end of the log.
LEMMA MaybeSnapshotKeeps ==
  ASSUME NEW p, IsStore(p), NEW app \in Seq(Entry), NEW q, q = maybeSnapshot(p, app)
  PROVE  /\ Rows(q) \subseteq Rows(p)
         /\ \A n \in Rows(q) : q.log[n] = p.log[n]
         /\ \A n \in Rows(p) \ Rows(q) : n <= q.lastSnapshotIndex
         /\ lastIndex(q) >= lastIndex(p)
<1>1. lastIndex(p) \in Index /\ Rows(p) \subseteq 0 .. lastIndex(p)
  BY LastIndexBounds
<1>2. CASE ~SnapshotDue(p, app)
  BY <1>1, <1>2 DEF maybeSnapshot, Index
<1>3. CASE SnapshotDue(p, app)
  <2> DEFINE last == Len(app) - 1
  <2>1. last \in Rows(p) /\ last \in Int
    BY <1>3 DEF SnapshotDue
  <2>2. /\ q.log = Select(p, {n \in Rows(p) : n > last})
        /\ q.lastSnapshotIndex = last
    <3>1. q = truncateUpTo(Snapshotted(p, app), last)
      BY <1>3 DEF maybeSnapshot
    <3>2. Snapshotted(p, app) = saveSnapshot(p, last, p.log[last].term, app)
      BY <1>3 DEF Snapshotted
    <3> QED BY <3>1, <3>2 DEF truncateUpTo, saveSnapshot, IsStore, Select, Rows
  <2> HIDE DEF last
  <2>3. Rows(q) = {n \in Rows(p) : n > last} /\ \A n \in Rows(q) : q.log[n] = p.log[n]
    BY <2>2 DEF Select, Rows
  <2>4. lastIndex(q) >= lastIndex(p)
    <3>1. lastIndex(p) = Max(Rows(p))
      BY <2>1 DEF lastIndex
    <3>2. \A n \in Rows(p) : n \in Int /\ n <= lastIndex(p)
      BY <1>1
    <3>3. Max(Rows(p)) \in Rows(p)
      BY <1>1, <2>1, <3>2, MaxOfBounded DEF Index
    <3>4. CASE Rows(q) = {}
      <4>1. ~(lastIndex(p) > last)
        BY <2>3, <3>1, <3>3, <3>4
      <4>2. lastIndex(q) = last
        BY <2>2, <3>4 DEF lastIndex
      <4> QED BY <1>1, <2>1, <4>1, <4>2 DEF Index
    <3>5. CASE Rows(q) # {}
      <4>1. Max(Rows(q)) \in Rows(q) /\ \A n \in Rows(q) : n <= Max(Rows(q))
        <5>1. lastIndex(p) \in Int /\ \A n \in Rows(q) : n \in Int /\ n <= lastIndex(p)
          BY <1>1, <2>3, <3>2 DEF Index
        <5> QED BY <3>5, <5>1, MaxOfBounded
      <4>2. lastIndex(p) \in Rows(q)
        <5>1. PICK n \in Rows(q) : TRUE
          BY <3>5
        <5>2. n \in Int /\ n > last /\ n <= lastIndex(p) /\ lastIndex(p) \in Int
          BY <2>3, <3>1, <3>2, <3>3, <5>1
        <5>3. lastIndex(p) > last /\ lastIndex(p) \in Rows(p)
          BY <2>1, <3>1, <3>3, <5>2
        <5> QED BY <2>3, <5>3
      <4>3. lastIndex(q) = Max(Rows(q))
        BY <3>5 DEF lastIndex
      <4> QED BY <4>1, <4>2, <4>3
    <3> QED BY <3>4, <3>5
  <2> QED BY <1>1, <2>1, <2>2, <2>3, <2>4
<1> QED BY <1>2, <1>3

\* A step that leaves the role, the rows and the snapshot's index of a replica.
LEMMA KeepsLog ==
  ASSUME DataInv, NEW i \in Server, role'[i] = role[i],
         disk'[i].log = disk[i].log,
         disk'[i].lastSnapshotIndex = disk[i].lastSnapshotIndex
  PROVE  LeaderAppendOnlyStep(i)
<1>1. lastIndex(disk'[i]) = lastIndex(disk[i]) /\ Rows(disk'[i]) = Rows(disk[i])
  BY SameLastIndex
<1>2. lastIndex(disk[i]) \in Int
  BY LastIndexBounds DEF DataInv, DataOK, StoresOK, Index
<1> QED BY <1>1, <1>2 DEF LeaderAppendOnlyStep

\* A request of the replica's own term comes from that term's leader, so a
\* leader that follows a caller has moved to a newer term.
LEMMA LeaderFollowsNewer ==
  ASSUME ElectionInv, CallsOK, NEW m \in calls, IsRequest(m), Follow(m),
         role[m.peer] = Leader
  PROVE  currentTerm'[m.peer] # currentTerm[m.peer]
<1>1. m.caller \in Server /\ m.peer \in Server /\ m.term \in Nat
  BY DEF ElectionInv, TypesOK, MessagesOK
<1>2. m.peer # m.caller
  BY <1>1 DEF CallsOK, CallOK, Peers
<1>3. <<m.peer, currentTerm[m.peer]>> \in Leaderships /\ <<m.caller, m.term>> \in Leaderships
  BY <1>1 DEF Leaderships
<1>4. m.term # currentTerm[m.peer]
  BY <1>2, <1>3, ElectionInvSafe DEF ElectionSafety
<1>5. currentTerm \in [Server -> Nat] /\ m.term >= currentTerm[m.peer]
  BY DEF Follow, ElectionInv, TypesOK, TermsOK
<1>6. currentTerm'[m.peer] = Greater(currentTerm[m.peer], m.term)
  BY <1>1, <1>5 DEF Follow, becomeFollower
<1> QED BY <1>1, <1>4, <1>5, <1>6 DEF Greater

\* Elections: the one they are about does not lead, or its log stays.
LEMMA ElectionsAppendOnly ==
  ASSUME DataInv, NEW k \in Server, StartElection(k) \/ ElectionWon(k), NEW i \in Server
  PROVE  LeaderAppendOnlyStep(i)
<1>1. role[k] # Leader
  BY DEF StartElection, ElectionWon, Candidate, Leader
<1>2. CASE i = k
  BY <1>1, <1>2 DEF LeaderAppendOnlyStep
<1>3. CASE i # k
  <2>1. role'[i] = role[i] /\ disk'[i] = disk[i]
    BY <1>3 DEF StartElection, ElectionWon, DataInv, ElectionInv, TypesOK, TermsOK, DiskOK
  <2> QED BY <2>1, KeepsLog
<1> QED BY <1>2, <1>3

\* saveTermAndVote leaves the log alone.
LEMMA VotesAppendOnly ==
  ASSUME DataInv, NEW i \in Server,
         \/ \E m \in voteRequests : HandleRequestVote(m)
         \/ \E r \in voteReplies : ElectionSteppedDown(r)
         \/ \E r \in calls : ReplyNewerTerm(r)
  PROVE  LeaderAppendOnlyStep(i)
<1>1. IsStore(disk[i]) /\ DOMAIN disk = Server /\ TermsOK
  BY DEF DataInv, DataOK, StoresOK, ElectionInv, TypesOK, DiskOK
<1>2. \A t, v : /\ saveTermAndVote(disk[i], t, v).log = disk[i].log
                /\ saveTermAndVote(disk[i], t, v).lastSnapshotIndex = disk[i].lastSnapshotIndex
  BY <1>1 DEF saveTermAndVote, IsStore
<1>3. /\ disk'[i].log = disk[i].log
      /\ disk'[i].lastSnapshotIndex = disk[i].lastSnapshotIndex
  BY <1>1, <1>2 DEF HandleRequestVote, ElectionSteppedDown, ReplyNewerTerm, FollowerStore
<1>4. role'[i] = role[i] \/ role[i] # Leader \/ currentTerm'[i] # currentTerm[i]
  <2>1. CASE \E m \in voteRequests : HandleRequestVote(m)
    <3>1. PICK m \in voteRequests : HandleRequestVote(m)
      BY <2>1
    <3>2. m.term \in Nat /\ m.dst \in Server
      BY DEF DataInv, ElectionInv, TypesOK, MessagesOK
    <3>3. /\ m.term > currentTerm[m.dst] \/ role' = role
          /\ role' = role \/ role' = [role EXCEPT ![m.dst] = Follower]
          /\ currentTerm' = [currentTerm EXCEPT ![m.dst] = Greater(@, m.term)]
      BY <3>1 DEF HandleRequestVote
    <3>4. /\ role \in [Server -> {Follower, Candidate, Leader}]
          /\ currentTerm \in [Server -> Nat]
      BY <1>1 DEF TermsOK
    <3>5. CASE i = m.dst
      BY <3>2, <3>3, <3>4, <3>5 DEF Greater
    <3>6. CASE i # m.dst
      BY <3>2, <3>3, <3>4, <3>6
    <3> QED BY <3>5, <3>6
  <2>2. CASE \E r \in voteReplies : ElectionSteppedDown(r)
    BY <1>1, <2>2 DEF ElectionSteppedDown, becomeFollower, TermsOK, Candidate, Leader
  <2>3. CASE \E r \in calls : ReplyNewerTerm(r)
    <3>1. PICK r \in calls : ReplyNewerTerm(r)
      BY <2>3
    <3>2. r.term \in Nat /\ r.caller \in Server
      BY DEF DataInv, ElectionInv, TypesOK, MessagesOK
    <3> QED BY <1>1, <3>1, <3>2 DEF ReplyNewerTerm, becomeFollower, TermsOK, Greater
  <2> QED BY <2>1, <2>2, <2>3
<1> QED BY <1>3, <1>4, KeepsLog DEF LeaderAppendOnlyStep

\* A row appended after the last.
LEMMA AppendedAppendOnly ==
  ASSUME NEW i \in Server, IsStore(disk[i]), currentTerm[i] \in Nat,
         NEW op \in Stroke \cup {Noop}, role'[i] = role[i],
         disk'[i] = appendLocal(disk[i], currentTerm[i], op)
  PROVE  LeaderAppendOnlyStep(i)
<1>1. Grown(disk[i], appendLocal(disk[i], currentTerm[i], op), [term |-> currentTerm[i], op |-> op])
  BY AppendLocalGrows
<1>2. lastIndex(disk[i]) \in Int
  BY LastIndexBounds DEF Index
<1> QED BY <1>1, <1>2 DEF LeaderAppendOnlyStep, Grown

\* A leader appends at its end, and compacts below its snapshot.
LEMMA LeaderWritesAppendOnly ==
  ASSUME DataInv, NEW i \in Server,
         \/ \E k \in Server : Heartbeat(k) \/ \E s \in Stroke : Submit(k, s)
         \/ \E r \in calls : ReplyAppended(r) \/ ReplyRejected(r) \/ ReplyInstalled(r)
  PROVE  LeaderAppendOnlyStep(i)
<1>1. IsStore(disk[i]) /\ DOMAIN disk = Server /\ currentTerm[i] \in Nat
  BY DEF DataInv, DataOK, StoresOK, ElectionInv, TypesOK, TermsOK, DiskOK
<1>2. role'[i] = role[i]
  BY DEF Heartbeat, Submit, ReplyAppended, ReplyRejected, ReplyInstalled, volatile
<1>3. CASE \E k \in Server : Heartbeat(k)
  BY <1>2, <1>3, KeepsLog DEF Heartbeat
<1>4. CASE \E r \in calls : ReplyRejected(r) \/ ReplyInstalled(r)
  BY <1>2, <1>4, KeepsLog DEF ReplyRejected, ReplyInstalled
<1>5. CASE \E k \in Server : \E s \in Stroke : Submit(k, s)
  <2>1. PICK k \in Server, s \in Stroke : Submit(k, s)
    BY <1>5
  <2>2. CASE k # i
    BY <1>1, <1>2, <2>1, <2>2, KeepsLog DEF Submit
  <2>3. CASE k = i
    <3>1. disk'[i] = appendLocal(disk[i], currentTerm[i], s)
      BY <1>1, <2>1, <2>3 DEF Submit
    <3>2. s \in Stroke \cup {Noop}
      BY <2>1
    <3> QED BY <1>1, <1>2, <3>1, <3>2, AppendedAppendOnly
  <2> QED BY <2>2, <2>3
<1>6. CASE \E r \in calls : ReplyAppended(r)
  <2>1. PICK r \in calls : ReplyAppended(r)
    BY <1>6
  <2> DEFINE commit == maybeAdvanceCommitIndex(r.caller,
                         [matchIndex[r.caller] EXCEPT ![r.peer] = r.newMatch])
             app == applyCommitted(disk[r.caller], applied[r.caller], commit)
  <2>2. r.caller \in Server
    BY DEF DataInv, ElectionInv, TypesOK, MessagesOK
  <2>3. commit \in Index
    BY <2>2, AdvanceIsIndex DEF DataInv, DataOK
  <2>4. disk' = disk \/ disk' = [disk EXCEPT ![r.caller] = maybeSnapshot(disk[r.caller], app)]
    BY <2>1 DEF ReplyAppended, Settle
  <2> HIDE DEF commit
  <2>5. app \in Seq(Entry)
    BY <2>2, <2>3, AppliedIsHistory DEF DataInv, DataOK, StoresOK, MachinesOK
  <2> HIDE DEF app
  <2>6. CASE r.caller # i \/ disk' = disk
    BY <1>1, <1>2, <2>4, <2>6, KeepsLog
  <2>7. CASE r.caller = i /\ disk' # disk
    <3>1. disk'[i] = maybeSnapshot(disk[i], app)
      BY <1>1, <2>4, <2>7
    <3>2. /\ Rows(disk'[i]) \subseteq Rows(disk[i])
          /\ \A n \in Rows(disk'[i]) : disk'[i].log[n] = disk[i].log[n]
          /\ \A n \in Rows(disk[i]) \ Rows(disk'[i]) : n <= disk'[i].lastSnapshotIndex
          /\ lastIndex(disk'[i]) >= lastIndex(disk[i])
      BY <1>1, <2>5, <3>1, MaybeSnapshotKeeps
    <3> QED BY <1>2, <3>2 DEF LeaderAppendOnlyStep
  <2> QED BY <2>6, <2>7
<1> QED BY <1>3, <1>4, <1>5, <1>6

\* A replica that accepts another's log does not lead in that term.
LEMMA FollowersAppendOnly ==
  ASSUME DataInv, NEW m \in calls,
         \/ RefuseStaleTerm(m) \/ AppendEntriesMismatch(m) \/ HandleAppendEntries(m)
         \/ InstallSnapshotKnown(m) \/ HandleInstallSnapshot(m),
         NEW i \in Server
  PROVE  LeaderAppendOnlyStep(i)
<1>1. CASE RefuseStaleTerm(m)
  BY <1>1, KeepsLog DEF RefuseStaleTerm, volatile
<1>2. CASE ~RefuseStaleTerm(m)
  <2>1. IsRequest(m) /\ Follow(m)
    BY <1>2 DEF AppendEntriesMismatch, HandleAppendEntries, InstallSnapshotKnown,
                HandleInstallSnapshot, IsRequest
  <2>2. CASE i = m.peer
    BY <2>1, <2>2, LeaderFollowsNewer DEF LeaderAppendOnlyStep, DataInv, DataOK
  <2>3. CASE i # m.peer
    <3>1. disk'[i] = disk[i]
      BY <1>2, <2>3 DEF AppendEntriesMismatch, HandleAppendEntries, Settle,
            InstallSnapshotKnown, HandleInstallSnapshot, DataInv, ElectionInv, TypesOK, DiskOK
    <3>2. role'[i] = role[i]
      BY <2>1, <2>3 DEF Follow, becomeFollower, DataInv, ElectionInv, TypesOK, TermsOK
    <3> QED BY <3>1, <3>2, KeepsLog
  <2> QED BY <2>2, <2>3
<1> QED BY <1>1, <1>2

\* A crash is told by the count of restarts.
LEMMA CrashesAppendOnly ==
  ASSUME DataInv,
         \/ \E k \in Server : Restart(k)
         \/ \E m \in voteRequests : CrashInRequestVote(m)
         \/ \E m \in calls : \/ CrashInAppendEntries(m)
                             \/ CrashInInstallSnapshot(m)
                             \/ CrashInSnapshot(m),
         NEW i \in Server
  PROVE  LeaderAppendOnlyStep(i)
<1>1. restarts' = restarts + 1
  BY DEF Restart, CrashInRequestVote, CrashInAppendEntries, CrashInInstallSnapshot,
         CrashInSnapshot, CrashWith
<1> QED BY <1>1 DEF LeaderAppendOnlyStep, DataInv, DataOK, CountsOK

\* No step of any replica overwrites the log of a leader that stays one.
LEMMA NextAppendOnly ==
  ASSUME DataInv, Next, NEW i \in Server
  PROVE  LeaderAppendOnlyStep(i)
BY ElectionsAppendOnly, VotesAppendOnly, LeaderWritesAppendOnly, FollowersAppendOnly,
   CrashesAppendOnly DEF Next

\* The type invariant's argument holds in every state of every behaviour.
LEMMA DataInvariant == Spec => []DataInv
<1>1. Init => DataInv
  BY ElectionInvInit, DataOKInit DEF DataInv
<1>2. DataInv /\ [Next]_vars => DataInv'
  BY ElectionInvNext, DataOKNext DEF DataInv
<1> QED BY <1>1, <1>2, PTL DEF Spec

\* While it leads, a replica overwrites no row and deletes none that its
\* snapshot does not cover.
THEOREM LeaderAppendOnlyTheorem == Spec => LeaderAppendOnly
<1>1. DataInv /\ [Next]_vars => [\A i \in Server : LeaderAppendOnlyStep(i)]_vars
  BY NextAppendOnly
<1> QED BY <1>1, DataInvariant, PTL DEF Spec, LeaderAppendOnly

-----------------------------------------------------------------------------
(***************************************************************************)
(* Index and term name an entry.                                           *)
(*                                                                         *)
(* Every entry has an owner, a replica that was elected in the entry's     *)
(* term.  Entries are only ever copied, except by _appendLocal of a        *)
(* leader, which is the one owner of its term and takes an index that no   *)
(* entry of the term has reached: a leader's lastIndex never goes back,    *)
(* and before it was elected there was no entry of its term.               *)
(***************************************************************************)

\* A replica led the term t, and will not be a candidate of it again.
Owner(l, t) ==
  /\ t <= currentTerm[l]
  /\ t = currentTerm[l] => votedFor[l] = l /\ role[l] # Candidate
  /\ \A r \in voteReplies : (r.granted /\ r.src = l /\ r.ballot = t) => r.dst = l
  /\ Elected(l, t)

EntriesOwned == \A x \in Entries : \E l \in Server : Owner(l, x[2].term)

EntriesReached ==
  \A x \in Entries : \A i \in Server :
    (role[i] = Leader /\ currentTerm[i] = x[2].term) => x[1] <= lastIndex(disk[i])

EntriesTyped == \A x \in Entries : x[1] \in Nat /\ x[2] \in Entry

\* What state machines and snapshots are built from was applied.
Copied(c, E, D) ==
  /\ c.type = "AppendEntries" => RowsOf(c.entries) \subseteq E
  /\ c.type = "InstallSnapshot" => Record(c.data) \subseteq D

Built(p, E, D) == RowsOf(p.log) \subseteq E /\ Record(p.snapshot) \subseteq D

CopiesOK ==
  /\ \A i \in Server : Record(applied[i]) \subseteq decided
  /\ \A i \in Server : Built(disk[i], Entries, decided)
  /\ \A c \in calls : Copied(c, Entries, decided)

LogInv ==
  /\ DataInv /\ CopiesOK /\ EntriesTyped
  /\ EntriesOwned /\ EntriesReached /\ EntriesUnique

\* What the writes of Persistence leave behind was there or is what they write.
LEMMA WritesKeepBuilt ==
  ASSUME NEW p, IsStore(p), NEW E, NEW D, Built(p, E, D)
  PROVE  /\ \A t, v : Built(saveTermAndVote(p, t, v), E, D)
         /\ \A n : Built(truncateFrom(p, n), E, D)
         /\ \A n : Built(truncateUpTo(p, n), E, D)
         /\ Built(truncateAll(p), E, D)
         /\ \A n, t, blob : Record(blob) \subseteq D => Built(saveSnapshot(p, n, t, blob), E, D)
<1>1. ASSUME NEW keys PROVE Built([p EXCEPT !.log = Select(p, keys)], E, D)
  <2>1. [p EXCEPT !.log = Select(p, keys)].snapshot = p.snapshot
    BY DEF IsStore
  <2>2. [p EXCEPT !.log = Select(p, keys)].log = Select(p, keys)
    BY DEF IsStore
  <2>3. RowsOf(Select(p, keys)) \subseteq RowsOf(p.log)
    BY DEF RowsOf, Select, Rows
  <2> QED BY <2>1, <2>2, <2>3 DEF Built
<1>2. \A t, v : Built(saveTermAndVote(p, t, v), E, D)
  BY DEF Built, IsStore, saveTermAndVote
<1>3. \A n, t, blob : Record(blob) \subseteq D => Built(saveSnapshot(p, n, t, blob), E, D)
  BY DEF Built, IsStore, saveSnapshot
<1> QED BY <1>1, <1>2, <1>3 DEF truncateFrom, truncateUpTo, truncateAll

\* appendEntries writes the entries it is given.
LEMMA AppendKeepsBuilt ==
  ASSUME NEW p, IsStore(p), NEW E, NEW D, Built(p, E, D), NEW e, RowsOf(e) \subseteq E
  PROVE  Built(appendEntries(p, e), E, D)
<1> DEFINE f == [n \in Rows(p) \cup DOMAIN e |-> IF n \in DOMAIN e THEN e[n] ELSE p.log[n]]
<1>1. RowsOf(f) \subseteq E
  BY DEF Built, RowsOf, Rows
<1> HIDE DEF f
<1>2. [p EXCEPT !.log = f].log = f /\ [p EXCEPT !.log = f].snapshot = p.snapshot
  BY DEF IsStore
<1>3. Built([p EXCEPT !.log = f], E, D)
  BY <1>1, <1>2 DEF Built
<1> QED BY <1>3 DEF appendEntries, f

\* _appendLocal writes one new entry, after the last index.
LEMMA AppendLocalBuilt ==
  ASSUME NEW p, IsStore(p), NEW E, NEW D, Built(p, E, D), NEW t, NEW op,
         <<lastIndex(p) + 1, [term |-> t, op |-> op]>> \in E
  PROVE  Built(appendLocal(p, t, op), E, D)
<1> DEFINE e == [n \in {lastIndex(p) + 1} |-> [term |-> t, op |-> op]]
<1>1. RowsOf(e) \subseteq E
  BY DEF RowsOf
<1> HIDE DEF e
<1>2. Built(appendEntries(p, e), E, D)
  BY <1>1, AppendKeepsBuilt
<1> QED BY <1>2 DEF appendLocal, e

\* The writes of handleAppendEntries and of handleInstallSnapshot's log.
LEMMA HandlersKeepBuilt ==
  ASSUME NEW p, IsStore(p), NEW E, NEW D, Built(p, E, D)
  PROVE  /\ \A m : Built(Wiped(p, m), E, D)
         /\ \A entries : RowsOf(entries) \subseteq E /\ IsLog(entries) =>
              Built(Truncated(p, entries), E, D) /\ Built(Stored(p, entries), E, D)
<1>1. \A m : Built(Wiped(p, m), E, D)
  BY WritesKeepBuilt DEF Wiped
<1>2. ASSUME NEW entries, RowsOf(entries) \subseteq E, IsLog(entries)
      PROVE  Built(Truncated(p, entries), E, D) /\ Built(Stored(p, entries), E, D)
  <2>1. Built(Truncated(p, entries), E, D)
    BY WritesKeepBuilt DEF Truncated
  <2>2. IsStore(Truncated(p, entries))
    BY <1>2, StoredIsStore
  <2>3. ASSUME NEW w
        PROVE  RowsOf([n \in {k \in DOMAIN entries : k >= w} |-> entries[n]]) \subseteq E
    BY <1>2 DEF RowsOf
  <2>4. \A w : Built(appendEntries(Truncated(p, entries),
                       [n \in {k \in DOMAIN entries : k >= w} |-> entries[n]]), E, D)
    BY <2>1, <2>2, <2>3, AppendKeepsBuilt
  <2>5. Built(Stored(p, entries), E, D)
    BY <2>4 DEF Stored
  <2> QED BY <2>1, <2>5
<1> QED BY <1>1, <1>2

\* The writes of _maybeSnapshot.
LEMMA SnapshottedBuilt ==
  ASSUME NEW p, IsStore(p), NEW E, NEW D, Built(p, E, D),
         NEW app \in Seq(Entry), Record(app) \subseteq D
  PROVE  Built(Snapshotted(p, app), E, D) /\ Built(maybeSnapshot(p, app), E, D)
<1>1. Built(Snapshotted(p, app), E, D)
  BY WritesKeepBuilt DEF Snapshotted
<1>2. IsStore(Snapshotted(p, app))
  BY SnapshottedIsStore
<1>3. \A n : Built(truncateUpTo(Snapshotted(p, app), n), E, D)
  BY <1>1, <1>2, WritesKeepBuilt
<1> QED BY <1>1, <1>3 DEF maybeSnapshot

\* _applyCommitted applies the row of each index at that index.
LEMMA AppliedFromRows ==
  ASSUME NEW p, IsStore(p), NEW app \in Seq(Entry), NEW commit \in Index
  PROVE  Record(applyCommitted(p, app, commit)) \subseteq Record(app) \cup RowsOf(p.log)
<1> DEFINE reach == {n \in Len(app) .. commit : Len(app) .. n \subseteq Rows(p)}
           last == Max(reach \cup {Len(app) - 1})
           size == last + 1 - Len(app)
           more == [k \in 1 .. size |-> p.log[Len(app) + k - 1]]
<1>1. Len(app) \in Nat /\ commit \in Int
  BY DEF Index
<1>2. \A n \in reach \cup {Len(app) - 1} : n \in Int /\ n <= Greater(commit, Len(app) - 1)
  BY <1>1 DEF Greater
<1>3. Greater(commit, Len(app) - 1) \in Int
  BY <1>1 DEF Greater
<1>4. last \in reach \cup {Len(app) - 1}
  <2> HIDE DEF reach
  <2> QED BY <1>2, <1>3, MaxOfBounded
<1>5. size \in Nat
  <2> HIDE DEF last
  <2> QED BY <1>1, <1>4
<1>6. ASSUME NEW k \in 1 .. size
      PROVE  Len(app) + k - 1 \in Rows(p) /\ more[k] = p.log[Len(app) + k - 1]
  <2>1. last \in reach
    <3>1. CASE last = Len(app) - 1
      <4> HIDE DEF last
      <4> QED BY <1>1, <1>6, <3>1
    <3> QED BY <1>4, <3>1
  <2>2. Len(app) + k - 1 \in Len(app) .. last
    <3> HIDE DEF last
    <3> QED BY <1>1, <1>5, <1>6, <1>2, <1>4
  <2>3. Len(app) .. last \subseteq Rows(p)
    <3> HIDE DEF last
    <3> QED BY <2>1
  <2> QED BY <2>2, <2>3
<1> HIDE DEF size
<1>7. more \in Seq(Entry) /\ Len(more) = size
  <2>1. \A k \in 1 .. size : p.log[Len(app) + k - 1] \in Entry
    BY <1>6 DEF IsStore, IsLog, Rows
  <2> QED BY <1>5, <2>1
<1> HIDE DEF more
<1>8. ASSUME NEW n \in 1 .. Len(app \o more)
      PROVE  <<n - 1, (app \o more)[n]>> \in Record(app) \cup RowsOf(p.log)
  <2>1. CASE n <= Len(app)
    <3>1. n \in 1 .. Len(app) /\ (app \o more)[n] = app[n]
      BY <1>7, <2>1
    <3> QED BY <3>1 DEF Record
  <2>2. CASE n > Len(app)
    <3>1. n - Len(app) \in 1 .. size /\ (app \o more)[n] = more[n - Len(app)]
      BY <1>5, <1>7, <2>2
    <3>2. Len(app) + (n - Len(app)) - 1 = n - 1
      BY <1>1
    <3>3. n - 1 \in Rows(p) /\ (app \o more)[n] = p.log[n - 1]
      BY <1>6, <3>1, <3>2
    <3> QED BY <3>3 DEF RowsOf, Rows
  <2> QED BY <1>1, <2>1, <2>2
<1>9. Record(app \o more) \subseteq Record(app) \cup RowsOf(p.log)
  BY <1>8 DEF Record
<1> QED BY <1>9 DEF applyCommitted, more, size

\* A step after which everything is built from the entries E and from what was
\* applied, and was applied from E.
StepCopies(E) ==
  /\ decided \subseteq decided' /\ decided' \subseteq E
  /\ \A i \in Server : Record(applied'[i]) \subseteq decided' /\ Built(disk'[i], E, decided')
  /\ \A c \in calls' : Copied(c, E, decided')

\* Such a step makes no entry but those of E.
LEMMA StepEntries ==
  ASSUME NEW E, StepCopies(E)
  PROVE  Entries' \subseteq E
BY DEF StepCopies, Entries, Built, Copied

\* After such a step everything is a copy again.
LEMMA StepCopiesOK ==
  ASSUME NEW E, StepCopies(E)
  PROVE  CopiesOK'
<1>1. \A i \in Server : RowsOf(disk'[i].log) \subseteq Entries'
  BY DEF Entries
<1>2. \A c \in calls' : c.type = "AppendEntries" => RowsOf(c.entries) \subseteq Entries'
  BY DEF Entries
<1> QED BY <1>1, <1>2 DEF StepCopies, CopiesOK, Built, Copied

\* What there was before a step still is built from what there is.
LEMMA StillBuilt ==
  ASSUME CopiesOK, NEW E, Entries \subseteq E, NEW D, decided \subseteq D
  PROVE  /\ decided \subseteq E
         /\ \A i \in Server : Record(applied[i]) \subseteq D /\ Built(disk[i], E, D)
         /\ \A c \in calls : Copied(c, E, D)
<1>1. decided \subseteq Entries
  BY DEF Entries
<1> QED BY <1>1 DEF CopiesOK, Built, Copied

\* The requests carry parts of the store they are built from.
LEMMA SentCopied ==
  ASSUME CopiesOK, NEW i \in Server, NEW p, NEW E, Built(p, E, decided), Entries \subseteq E,
         NEW next, sendAppendEntriesToAll(i, p, next)
  PROVE  \A c \in calls' : Copied(c, E, decided)
<1>1. ASSUME NEW j \in Peers(i), NEW c \in sendAppendEntriesTo(i, j, p, next[j])
      PROVE  Copied(c, E, decided)
  <2>1. CASE next[j] < firstIndex(p)
    <3>1. c.type = "InstallSnapshot" /\ c.data = p.snapshot
      BY <1>1, <2>1 DEF sendAppendEntriesTo, sendInstallSnapshotTo
    <3> QED BY <3>1 DEF Copied, Built
  <2>2. CASE ~(next[j] < firstIndex(p))
    <3>1. c.type = "AppendEntries" /\ c.entries = Select(p, next[j] .. lastIndex(p))
      BY <1>1, <2>2 DEF sendAppendEntriesTo, getRange
    <3>2. RowsOf(Select(p, next[j] .. lastIndex(p))) \subseteq RowsOf(p.log)
      BY DEF RowsOf, Select, Rows
    <3> QED BY <3>1, <3>2 DEF Copied, Built
  <2> QED BY <2>1, <2>2
<1>2. \A c \in calls : Copied(c, E, decided)
  BY StillBuilt
<1> QED BY <1>1, <1>2 DEF sendAppendEntriesToAll

\* A response carries no entry.
LEMMA RespondedCopied ==
  ASSUME NEW E, NEW D, \A c \in calls : Copied(c, E, D), NEW m \in calls, NEW r,
         ~IsRequest(r), Respond(m, r)
  PROVE  \A c \in calls' : Copied(c, E, D)
<1>1. Copied(r, E, D)
  BY DEF Copied, IsRequest
<1> QED BY <1>1 DEF Respond

\* The replies of followers carry no entries.
LEMMA RepliesAreNoRequests ==
  ASSUME NEW m, NEW t, NEW success
  PROVE  ~IsRequest(AppendReply(m, t, success)) /\ ~IsRequest(SnapshotReply(m, t))
BY DEF IsRequest, AppendReply, SnapshotReply

\* A step of replica i that writes the store p and applies app.
LEMMA WriteCopies ==
  ASSUME DataInv, CopiesOK, NEW E, Entries \subseteq E, NEW i \in Server, NEW p, NEW app,
         disk' = [disk EXCEPT ![i] = p], applied' = [applied EXCEPT ![i] = app],
         decided \subseteq decided', decided' \subseteq E,
         Built(p, E, decided'), Record(app) \subseteq decided',
         \A c \in calls' : Copied(c, E, decided')
  PROVE  StepCopies(E)
<1>1. DOMAIN disk = Server /\ DOMAIN applied = Server
  BY DEF DataInv, ElectionInv, TypesOK, DiskOK, DataOK, MachinesOK
<1>2. \A k \in Server : Record(applied[k]) \subseteq decided' /\ Built(disk[k], E, decided')
  BY StillBuilt
<1>3. ASSUME NEW k \in Server
      PROVE  Record(applied'[k]) \subseteq decided' /\ Built(disk'[k], E, decided')
  BY <1>1, <1>2
<1> QED BY <1>3 DEF StepCopies

\* _applyCommitted and _maybeSnapshot.
LEMMA SettleCopies ==
  ASSUME DataInv, CopiesOK, NEW i \in Server, NEW p, IsStore(p),
         Built(p, Entries, decided), NEW commit \in Index, Settle(i, p, commit),
         \A c \in calls' : Copied(c, Entries, decided')
  PROVE  StepCopies(Entries)
<1> DEFINE app == applyCommitted(p, applied[i], commit)
<1>1. applied[i] \in Seq(Entry)
  BY DEF DataInv, DataOK, MachinesOK
<1>2. app \in Seq(Entry) /\ Record(app) \subseteq Record(applied[i]) \cup RowsOf(p.log)
  BY <1>1, AppliedIsHistory, AppliedFromRows
<1>3. Record(applied[i]) \subseteq decided /\ decided \subseteq Entries
  BY DEF CopiesOK, Entries
<1>4. /\ applied' = [applied EXCEPT ![i] = app]
      /\ disk' = [disk EXCEPT ![i] = maybeSnapshot(p, app)]
      /\ decided' = decided \cup Record(app)
  BY DEF Settle
<1> HIDE DEF app
<1>5. decided \subseteq decided' /\ decided' \subseteq Entries /\ Record(app) \subseteq decided'
  BY <1>2, <1>3, <1>4 DEF Built
<1>6. Built(p, Entries, decided')
  BY <1>5 DEF Built
<1>7. Built(maybeSnapshot(p, app), Entries, decided')
  BY <1>2, <1>5, <1>6, SnapshottedBuilt
<1> QED BY <1>4, <1>5, <1>7, WriteCopies

\* start loads the snapshot of the store the crash left, which may be one that
\* was not yet loaded by anything (the crash came after saveSnapshot).
LEMMA CrashCopies ==
  ASSUME DataInv, CopiesOK, NEW i \in Server, NEW p, RowsOf(p.log) \subseteq Entries,
         Record(p.snapshot) \subseteq Entries,
         NEW left \in SUBSET calls, CrashWith(i, p, left)
  PROVE  StepCopies(Entries)
<1>1. /\ disk' = [disk EXCEPT ![i] = p]
      /\ applied' = [applied EXCEPT ![i] = p.snapshot]
      /\ decided' = decided \cup Record(p.snapshot)
  BY DEF CrashWith
<1>2. decided \subseteq decided' /\ decided' \subseteq Entries
  BY <1>1 DEF Entries
<1>3. Built(p, Entries, decided') /\ Record(p.snapshot) \subseteq decided'
  BY <1>1 DEF Built
<1>4. ASSUME NEW c \in calls' PROVE Copied(c, Entries, decided')
  <2>1. PICK d \in calls : c = d \/ c = [d EXCEPT !.awaited = FALSE]
    BY DEF CrashWith
  <2>2. Copied(d, Entries, decided') /\ CallOK(d)
    BY <1>2, StillBuilt DEF DataInv, DataOK, CallsOK
  <2>3. c.type = d.type
    BY <2>1, <2>2 DEF CallOK
  <2>4. d.type = "AppendEntries" => c.entries = d.entries
    BY <2>1, <2>2 DEF CallOK
  <2>5. d.type = "InstallSnapshot" => c.data = d.data
    BY <2>1, <2>2 DEF CallOK
  <2> QED BY <2>2, <2>3, <2>4, <2>5 DEF Copied
<1> QED BY <1>1, <1>2, <1>3, <1>4, WriteCopies

\* Steps that apply nothing.
LEMMA NothingApplied ==
  ASSUME CopiesOK, NEW E, Entries \subseteq E, UNCHANGED <<applied, decided>>,
         \A i \in Server : Built(disk'[i], E, decided),
         \A c \in calls' : Copied(c, E, decided)
  PROVE  StepCopies(E)
BY DEF CopiesOK, StepCopies, Entries

\* saveTermAndVote copies the log as it is.
LEMMA VotesCopy ==
  ASSUME DataInv, CopiesOK, UNCHANGED <<applied, decided>>, calls' \subseteq calls,
         \A i \in Server : \/ disk'[i] = disk[i]
                           \/ \E t, v : disk'[i] = saveTermAndVote(disk[i], t, v)
  PROVE  StepCopies(Entries)
<1>1. \A i \in Server : IsStore(disk[i]) /\ Built(disk[i], Entries, decided)
  BY DEF DataInv, DataOK, StoresOK, CopiesOK
<1>2. \A i \in Server : Built(disk'[i], Entries, decided)
  BY <1>1, WritesKeepBuilt
<1>3. \A c \in calls' : Copied(c, Entries, decided)
  BY DEF CopiesOK
<1> QED BY <1>2, <1>3, NothingApplied

\* Elections and the replies that write no log.
LEMMA VoteActionsCopy ==
  ASSUME DataInv, CopiesOK,
         \/ \E i \in Server : StartElection(i)
         \/ \E m \in voteRequests : HandleRequestVote(m)
         \/ \E r \in voteReplies : ElectionSteppedDown(r)
         \/ \E r \in calls : ReplyNewerTerm(r) \/ ReplyRejected(r) \/ ReplyInstalled(r)
  PROVE  StepCopies(Entries)
<1>1. UNCHANGED <<applied, decided>> /\ calls' \subseteq calls
  BY DEF StartElection, HandleRequestVote, ElectionSteppedDown, ReplyNewerTerm,
         ReplyRejected, ReplyInstalled, network
<1>2. DOMAIN disk = Server
  BY DEF DataInv, ElectionInv, TypesOK, DiskOK
<1>3. ASSUME NEW k \in Server
      PROVE  disk'[k] = disk[k] \/ \E t, v : disk'[k] = saveTermAndVote(disk[k], t, v)
  <2>1. CASE \E i \in Server : StartElection(i)
    BY <1>2, <2>1 DEF StartElection
  <2>2. CASE \E m \in voteRequests : HandleRequestVote(m)
    BY <1>2, <2>2 DEF HandleRequestVote
  <2>3. CASE \/ \E r \in voteReplies : ElectionSteppedDown(r)
             \/ \E r \in calls : ReplyNewerTerm(r)
    BY <1>2, <2>3 DEF ElectionSteppedDown, ReplyNewerTerm, FollowerStore
  <2>4. CASE \E r \in calls : ReplyRejected(r) \/ ReplyInstalled(r)
    BY <2>4 DEF ReplyRejected, ReplyInstalled
  <2> QED BY <2>1, <2>2, <2>3, <2>4
<1> QED BY <1>1, <1>3, VotesCopy

\* The heartbeat sends what the leader has.
LEMMA HeartbeatCopies ==
  ASSUME DataInv, CopiesOK, NEW i \in Server, Heartbeat(i)
  PROVE  StepCopies(Entries)
<1>1. /\ UNCHANGED <<applied, decided, disk>>
      /\ sendAppendEntriesToAll(i, disk[i], nextIndex[i])
  BY DEF Heartbeat, volatile
<1>2. \A k \in Server : Built(disk[k], Entries, decided)
  BY DEF CopiesOK
<1>3. \A c \in calls' : Copied(c, Entries, decided)
  BY <1>1, <1>2, SentCopied
<1> QED BY <1>1, <1>2, <1>3, NothingApplied

\* The one new entry is the one _appendLocal writes, in submit and when an
\* election was won.
LEMMA AppendCopies ==
  ASSUME DataInv, CopiesOK, NEW i \in Server, NEW op, NEW next,
         UNCHANGED <<applied, decided>>,
         disk' = [disk EXCEPT ![i] = appendLocal(disk[i], currentTerm[i], op)],
         sendAppendEntriesToAll(i, appendLocal(disk[i], currentTerm[i], op), next)
  PROVE  StepCopies(Entries \cup {<<lastIndex(disk[i]) + 1, [term |-> currentTerm[i], op |-> op]>>})
<1> DEFINE x == <<lastIndex(disk[i]) + 1, [term |-> currentTerm[i], op |-> op]>>
           E == Entries \cup {x}
           p == appendLocal(disk[i], currentTerm[i], op)
<1>1. IsStore(disk[i]) /\ Entries \subseteq E /\ x \in E /\ DOMAIN disk = Server
  BY DEF DataInv, DataOK, StoresOK, ElectionInv, TypesOK, DiskOK
<1>2. x = <<lastIndex(disk[i]) + 1, [term |-> currentTerm[i], op |-> op]>>
  OBVIOUS
<1> HIDE DEF x, E
<1>3. \A k \in Server : Built(disk[k], E, decided)
  BY <1>1, StillBuilt
<1>4. Built(p, E, decided)
  BY <1>1, <1>2, <1>3, AppendLocalBuilt
<1> HIDE DEF p
<1>5. \A c \in calls' : Copied(c, E, decided)
  BY <1>1, <1>4, SentCopied DEF p
<1>6. \A k \in Server : Built(disk'[k], E, decided)
  BY <1>1, <1>3, <1>4 DEF p
<1>7. StepCopies(E)
  BY <1>1, <1>5, <1>6, NothingApplied
<1> QED BY <1>7 DEF E, x

\* The leader's commit index moves.
LEMMA ReplyAppendedCopies ==
  ASSUME DataInv, CopiesOK, NEW r \in calls, ReplyAppended(r)
  PROVE  StepCopies(Entries)
<1> DEFINE commit == maybeAdvanceCommitIndex(r.caller,
                       [matchIndex[r.caller] EXCEPT ![r.peer] = r.newMatch])
<1>1. r.caller \in Server
  BY DEF DataInv, ElectionInv, TypesOK, MessagesOK
<1>2. commit \in Index
  BY <1>1, AdvanceIsIndex DEF DataInv, DataOK
<1>3. /\ \/ Settle(r.caller, disk[r.caller], commit)
         \/ UNCHANGED <<applied, disk, decided>>
      /\ calls' \subseteq calls
  BY DEF ReplyAppended
<1> HIDE DEF commit
<1>4. IsStore(disk[r.caller]) /\ \A i \in Server : Built(disk[i], Entries, decided)
  BY <1>1 DEF DataInv, DataOK, StoresOK, CopiesOK
<1>5. CASE Settle(r.caller, disk[r.caller], commit)
  <2>1. decided \subseteq decided'
    BY <1>5 DEF Settle
  <2>2. \A c \in calls' : Copied(c, Entries, decided')
    BY <1>3, <2>1, StillBuilt
  <2> QED BY <1>1, <1>2, <1>4, <1>5, <2>2, SettleCopies
<1>6. CASE UNCHANGED <<applied, disk, decided>>
  <2>1. \A c \in calls' : Copied(c, Entries, decided)
    BY <1>3 DEF CopiesOK
  <2> QED BY <1>4, <1>6, <2>1, NothingApplied
<1> QED BY <1>3, <1>5, <1>6

\* The store after _becomeFollower.
LEMMA FollowerStoreBuilt ==
  ASSUME DataInv, CopiesOK, NEW i \in Server, NEW t, NEW D, decided \subseteq D
  PROVE  Built(FollowerStore(i, t), Entries, D) /\ IsStore(FollowerStore(i, t))
<1>1. IsStore(disk[i]) /\ Built(disk[i], Entries, D)
  BY StillBuilt DEF DataInv, DataOK, StoresOK
<1> QED BY <1>1, WritesKeepBuilt, WritesKeepStore DEF FollowerStore

\* What a follower accepts was in the request or in its own store.
LEMMA RequestsCopy ==
  ASSUME DataInv, CopiesOK, NEW m \in calls,
         \/ RefuseStaleTerm(m) \/ AppendEntriesMismatch(m) \/ HandleAppendEntries(m)
         \/ InstallSnapshotKnown(m) \/ HandleInstallSnapshot(m)
  PROVE  StepCopies(Entries)
<1>1. m.caller \in Server /\ m.peer \in Server /\ CallOK(m) /\ Copied(m, Entries, decided)
  BY DEF DataInv, DataOK, CallsOK, ElectionInv, TypesOK, MessagesOK, CopiesOK
<1>2. DOMAIN disk = Server /\ DOMAIN applied = Server
  BY DEF DataInv, ElectionInv, TypesOK, DiskOK, DataOK, MachinesOK
<1>3. \A i \in Server : Built(disk[i], Entries, decided)
  BY DEF CopiesOK
<1>4. PICK r : ~IsRequest(r) /\ Respond(m, r)
  BY RepliesAreNoRequests DEF RefuseStaleTerm, AppendEntriesMismatch, HandleAppendEntries,
     InstallSnapshotKnown, HandleInstallSnapshot
<1>5. ASSUME NEW D, decided \subseteq D
      PROVE  \A c \in calls' : Copied(c, Entries, D)
  BY <1>4, <1>5, StillBuilt, RespondedCopied
<1>6. CASE RefuseStaleTerm(m)
  <2>1. UNCHANGED <<applied, disk, decided>>
    BY <1>6 DEF RefuseStaleTerm, volatile
  <2> QED BY <1>3, <1>5, <2>1, NothingApplied
<1>7. CASE AppendEntriesMismatch(m) \/ InstallSnapshotKnown(m)
  <2>1. /\ disk' = [disk EXCEPT ![m.peer] = FollowerStore(m.peer, m.term)]
        /\ UNCHANGED <<applied, decided>>
    BY <1>7 DEF AppendEntriesMismatch, InstallSnapshotKnown
  <2>2. Built(FollowerStore(m.peer, m.term), Entries, decided)
    BY <1>1, FollowerStoreBuilt
  <2>3. \A i \in Server : Built(disk'[i], Entries, decided)
    BY <1>2, <1>3, <2>1, <2>2
  <2> QED BY <1>5, <2>1, <2>3, NothingApplied
<1>8. CASE HandleAppendEntries(m)
  <2> DEFINE p == Stored(FollowerStore(m.peer, m.term), m.entries)
             commit == Lesser(m.leaderCommit, lastIndex(p))
  <2>1. m.leaderCommit \in Index /\ IsLog(m.entries) /\ RowsOf(m.entries) \subseteq Entries
    BY <1>1, <1>8 DEF HandleAppendEntries, CallOK, Copied
  <2>2. IsStore(p) /\ Built(p, Entries, decided)
    BY <1>1, <2>1, FollowerStoreBuilt, StoredIsStore, HandlersKeepBuilt
  <2>3. commit \in Index
    BY <2>1, <2>2, LastIndexBounds DEF Lesser
  <2>4. \/ Settle(m.peer, p, commit)
        \/ disk' = [disk EXCEPT ![m.peer] = p] /\ UNCHANGED <<applied, decided>>
    BY <1>8 DEF HandleAppendEntries
  <2> HIDE DEF p, commit
  <2>5. CASE Settle(m.peer, p, commit)
    <3>1. decided \subseteq decided'
      BY <2>5 DEF Settle
    <3>2. \A c \in calls' : Copied(c, Entries, decided')
      BY <1>5, <3>1
    <3> QED BY <1>1, <2>2, <2>3, <2>5, <3>2, SettleCopies
  <2>6. CASE disk' = [disk EXCEPT ![m.peer] = p] /\ UNCHANGED <<applied, decided>>
    <3>1. \A i \in Server : Built(disk'[i], Entries, decided)
      BY <1>2, <1>3, <2>2, <2>6
    <3> QED BY <1>5, <2>6, <3>1, NothingApplied
  <2> QED BY <2>4, <2>5, <2>6
<1>9. CASE HandleInstallSnapshot(m)
  <2> DEFINE p == saveSnapshot(Wiped(FollowerStore(m.peer, m.term), m),
                               m.lastIncludedIndex, m.lastIncludedTerm, m.data)
  <2>1. Record(m.data) \subseteq decided /\ decided \subseteq Entries
    BY <1>1, <1>9 DEF HandleInstallSnapshot, Copied, Entries
  <2>2. /\ disk' = [disk EXCEPT ![m.peer] = p]
        /\ applied' = [applied EXCEPT ![m.peer] = m.data]
        /\ decided' = decided \cup Record(m.data)
    BY <1>9 DEF HandleInstallSnapshot
  <2>3. decided' = decided
    BY <2>1, <2>2
  <2>4. /\ IsStore(Wiped(FollowerStore(m.peer, m.term), m))
        /\ Built(Wiped(FollowerStore(m.peer, m.term), m), Entries, decided)
    BY <1>1, FollowerStoreBuilt, FollowerStoreIsStore, HandlersKeepBuilt DEF DataInv, DataOK
  <2>5. Built(p, Entries, decided')
    BY <2>1, <2>3, <2>4, WritesKeepBuilt
  <2> HIDE DEF p
  <2>6. \A c \in calls' : Copied(c, Entries, decided')
    BY <1>5, <2>3
  <2> QED BY <1>1, <2>1, <2>2, <2>3, <2>5, <2>6, WriteCopies
<1> QED BY <1>6, <1>7, <1>8, <1>9

\* What a crash leaves on disk is one of the stores the handler goes through.
LEMMA CrashesCopy ==
  ASSUME DataInv, CopiesOK,
         \/ \E i \in Server : Restart(i)
         \/ \E m \in voteRequests : CrashInRequestVote(m)
         \/ \E m \in calls : \/ CrashInAppendEntries(m)
                             \/ CrashInInstallSnapshot(m)
                             \/ CrashInSnapshot(m)
  PROVE  StepCopies(Entries)
<1>0. /\ \A i \in Server : IsStore(disk[i]) /\ Built(disk[i], Entries, decided)
      /\ \A i \in Server : applied[i] \in Seq(Entry) /\ Record(applied[i]) \subseteq decided
      /\ decided \subseteq Entries
  BY DEF DataInv, DataOK, StoresOK, MachinesOK, CopiesOK, Entries
<1>1. ASSUME NEW i \in Server, NEW p, Built(p, Entries, Entries),
             NEW left \in SUBSET calls, CrashWith(i, p, left)
      PROVE  StepCopies(Entries)
  BY <1>1, CrashCopies DEF Built
<1>2. ASSUME NEW p, Built(p, Entries, decided) PROVE Built(p, Entries, Entries)
  BY <1>0, <1>2 DEF Built
<1>3. CASE \E i \in Server : Restart(i)
  BY <1>0, <1>1, <1>2, <1>3 DEF Restart
<1>4. CASE \E m \in voteRequests : CrashInRequestVote(m)
  <2>1. PICK m \in voteRequests : CrashInRequestVote(m)
    BY <1>4
  <2>2. m.dst \in Server
    BY DEF DataInv, ElectionInv, TypesOK, MessagesOK
  <2>3. Built(saveTermAndVote(disk[m.dst], m.term, Nil), Entries, decided)
    BY <1>0, <2>2, WritesKeepBuilt
  <2> QED BY <1>1, <1>2, <2>1, <2>2, <2>3 DEF CrashInRequestVote
<1>5. CASE \E m \in calls : CrashInAppendEntries(m)
  <2>1. PICK m \in calls : CrashInAppendEntries(m)
    BY <1>5
  <2> DEFINE p == FollowerStore(m.peer, m.term)
             stored == Stored(p, m.entries)
             app == applyCommitted(stored, applied[m.peer],
                                   Lesser(m.leaderCommit, lastIndex(stored)))
  <2>2. m.peer \in Server /\ CallOK(m) /\ Copied(m, Entries, decided)
    BY DEF DataInv, DataOK, CallsOK, ElectionInv, TypesOK, MessagesOK, CopiesOK
  <2>3. IsStore(p) /\ Built(p, Entries, decided)
    BY <2>2, FollowerStoreBuilt
  <2>4. m.leaderCommit \in Index /\ IsLog(m.entries) /\ RowsOf(m.entries) \subseteq Entries
    BY <2>1, <2>2 DEF CrashInAppendEntries, CallOK, Copied
  <2> HIDE DEF p
  <2>5. /\ IsStore(stored) /\ Built(stored, Entries, decided)
        /\ Built(Truncated(p, m.entries), Entries, decided)
    BY <2>3, <2>4, StoredIsStore, HandlersKeepBuilt
  <2> HIDE DEF stored
  <2>6. Built(Snapshotted(stored, app), Entries, Entries)
    <3>1. Lesser(m.leaderCommit, lastIndex(stored)) \in Index
      BY <2>4, <2>5, LastIndexBounds DEF Lesser
    <3>2. /\ app \in Seq(Entry)
          /\ Record(app) \subseteq Record(applied[m.peer]) \cup RowsOf(stored.log)
      BY <1>0, <2>2, <2>5, <3>1, AppliedIsHistory, AppliedFromRows
    <3>3. Record(app) \subseteq Entries
      BY <1>0, <2>2, <2>5, <3>2 DEF Built
    <3> HIDE DEF app
    <3> QED BY <1>2, <2>5, <3>2, <3>3, SnapshottedBuilt
  <2>7. \E q \in {p, Truncated(p, m.entries), stored, Snapshotted(stored, app)} :
          CrashWith(m.peer, q, calls \ {m})
    BY <2>1 DEF CrashInAppendEntries, p, stored
  <2> HIDE DEF app
  <2> QED BY <1>1, <1>2, <2>2, <2>3, <2>5, <2>6, <2>7
<1>6. CASE \E m \in calls : CrashInInstallSnapshot(m)
  <2>1. PICK m \in calls : CrashInInstallSnapshot(m)
    BY <1>6
  <2>2. m.peer \in Server
    BY DEF DataInv, ElectionInv, TypesOK, MessagesOK
  <2>3. /\ Built(FollowerStore(m.peer, m.term), Entries, decided)
        /\ Built(Wiped(FollowerStore(m.peer, m.term), m), Entries, decided)
    BY <2>2, FollowerStoreBuilt, HandlersKeepBuilt
  <2> QED BY <1>1, <1>2, <2>1, <2>2, <2>3 DEF CrashInInstallSnapshot
<1>7. CASE \E m \in calls : CrashInSnapshot(m)
  <2>1. PICK r \in calls : CrashInSnapshot(r)
    BY <1>7
  <2> DEFINE commit == maybeAdvanceCommitIndex(r.caller,
                         [matchIndex[r.caller] EXCEPT ![r.peer] = r.newMatch])
             app == applyCommitted(disk[r.caller], applied[r.caller], commit)
  <2>2. r.caller \in Server
    BY DEF DataInv, ElectionInv, TypesOK, MessagesOK
  <2>3. commit \in Index
    BY <2>2, AdvanceIsIndex DEF DataInv, DataOK
  <2>4. CrashWith(r.caller, Snapshotted(disk[r.caller], app), calls)
    BY <2>1 DEF CrashInSnapshot
  <2> HIDE DEF commit
  <2>5. /\ app \in Seq(Entry)
        /\ Record(app) \subseteq Record(applied[r.caller]) \cup RowsOf(disk[r.caller].log)
    BY <1>0, <2>2, <2>3, AppliedIsHistory, AppliedFromRows
  <2>6. Record(app) \subseteq Entries
    BY <1>0, <2>2, <2>5 DEF Built
  <2> HIDE DEF app
  <2>7. Built(Snapshotted(disk[r.caller], app), Entries, Entries)
    BY <1>0, <1>2, <2>2, <2>5, <2>6, SnapshottedBuilt
  <2> QED BY <1>1, <2>2, <2>4, <2>7
<1> QED BY <1>3, <1>4, <1>5, <1>6, <1>7

\* What a step does to the role of a replica, but for an election it wins.
KeepsRole(k) ==
  /\ role'[k] = Leader =>
       /\ role[k] = Leader /\ currentTerm'[k] = currentTerm[k]
       /\ restarts' = restarts \/ disk'[k] = disk[k]
  /\ role'[k] = Candidate => role[k] = Candidate \/ currentTerm'[k] > currentTerm[k]

\* A step that makes one replica a follower.
LEMMA FollowerKeepsRole ==
  ASSUME DataInv, NEW i \in Server, NEW t, NEW p,
         role' = [role EXCEPT ![i] = Follower],
         currentTerm' = [currentTerm EXCEPT ![i] = t],
         disk' = [disk EXCEPT ![i] = p]
  PROVE  \A k \in Server : KeepsRole(k)
<1>1. DOMAIN role = Server /\ DOMAIN currentTerm = Server /\ DOMAIN disk = Server
  BY DEF DataInv, ElectionInv, TypesOK, TermsOK, DiskOK
<1>2. role'[i] = Follower
  BY <1>1
<1>3. ASSUME NEW k \in Server, k # i
      PROVE  role'[k] = role[k] /\ currentTerm'[k] = currentTerm[k] /\ disk'[k] = disk[k]
  BY <1>1, <1>3
<1>4. KeepsRole(i)
  BY <1>2 DEF KeepsRole, Follower, Candidate, Leader
<1>5. ASSUME NEW k \in Server, k # i PROVE KeepsRole(k)
  BY <1>3, <1>5 DEF KeepsRole
<1> QED BY <1>4, <1>5

\* Every step but ElectionWon.
LEMMA NextKeepsRole ==
  ASSUME DataInv, Next, ~\E i \in Server : ElectionWon(i)
  PROVE  \A k \in Server : KeepsRole(k)
<1>1. TermsOK /\ DOMAIN disk = Server /\ MessagesOK
  BY DEF DataInv, ElectionInv, TypesOK, DiskOK
<1>2. CASE \E i \in Server : StartElection(i)
  <2>1. PICK i \in Server : StartElection(i)
    BY <1>2
  <2>2. ASSUME NEW k \in Server PROVE KeepsRole(k)
    <3>1. CASE k = i
      <4>1. role'[k] = Candidate /\ currentTerm'[k] > currentTerm[k]
        BY <1>1, <2>1, <3>1 DEF StartElection, TermsOK
      <4> QED BY <4>1 DEF KeepsRole, Candidate, Leader
    <3>2. CASE k # i
      BY <1>1, <2>1, <3>2 DEF StartElection, TermsOK, KeepsRole
    <3> QED BY <3>1, <3>2
  <2> QED BY <2>2
<1>3. CASE \E m \in voteRequests : HandleRequestVote(m)
  <2>1. PICK m \in voteRequests : HandleRequestVote(m)
    BY <1>3
  <2>2. m.dst \in Server /\ m.term \in Nat /\ restarts' = restarts
    BY <1>1, <2>1 DEF MessagesOK, HandleRequestVote, bounds
  <2>3. ASSUME NEW k \in Server PROVE KeepsRole(k)
    <3>1. CASE role'[k] = Follower
      BY <3>1 DEF KeepsRole, Follower, Candidate, Leader
    <3>2. CASE role'[k] # Follower
      <4>1. role'[k] = role[k] /\ currentTerm'[k] = currentTerm[k]
        BY <1>1, <2>1, <2>2, <3>2 DEF HandleRequestVote, TermsOK, Greater
      <4> QED BY <2>2, <4>1 DEF KeepsRole
    <3> QED BY <3>1, <3>2
  <2> QED BY <2>3
<1>4. CASE \/ \E i \in Server : Heartbeat(i) \/ \E s \in Stroke : Submit(i, s)
           \/ \E r \in calls : ReplyAppended(r) \/ ReplyRejected(r) \/ ReplyInstalled(r)
           \/ \E m \in calls : RefuseStaleTerm(m)
  <2>1. UNCHANGED <<role, currentTerm, restarts>>
    BY <1>4 DEF Heartbeat, Submit, ReplyAppended, ReplyRejected, ReplyInstalled,
                RefuseStaleTerm, volatile, bounds
  <2> QED BY <2>1 DEF KeepsRole
<1>5. CASE \/ \E r \in voteReplies : ElectionSteppedDown(r)
           \/ \E r \in calls : ReplyNewerTerm(r)
  <2>1. CASE \E r \in voteReplies : ElectionSteppedDown(r)
    <3>1. PICK r \in voteReplies : ElectionSteppedDown(r)
      BY <2>1
    <3>2. /\ r.dst \in Server /\ becomeFollower(r.dst, r.term)
          /\ disk' = [disk EXCEPT ![r.dst] = FollowerStore(r.dst, r.term)]
      BY <1>1, <3>1 DEF ElectionSteppedDown, MessagesOK
    <3> QED BY <3>2, FollowerKeepsRole DEF becomeFollower
  <2>2. CASE \E r \in calls : ReplyNewerTerm(r)
    <3>1. PICK r \in calls : ReplyNewerTerm(r)
      BY <2>2
    <3>2. /\ r.caller \in Server /\ becomeFollower(r.caller, r.term)
          /\ disk' = [disk EXCEPT ![r.caller] = FollowerStore(r.caller, r.term)]
      BY <1>1, <3>1 DEF ReplyNewerTerm, MessagesOK
    <3> QED BY <3>2, FollowerKeepsRole DEF becomeFollower
  <2> QED BY <1>5, <2>1, <2>2
<1>6. CASE \E m \in calls : \/ AppendEntriesMismatch(m) \/ HandleAppendEntries(m)
                            \/ InstallSnapshotKnown(m) \/ HandleInstallSnapshot(m)
  <2>1. PICK m \in calls : \/ AppendEntriesMismatch(m) \/ HandleAppendEntries(m)
                           \/ InstallSnapshotKnown(m) \/ HandleInstallSnapshot(m)
    BY <1>6
  <2>2. becomeFollower(m.peer, m.term) /\ m.peer \in Server
    BY <1>1, <2>1 DEF AppendEntriesMismatch, HandleAppendEntries, InstallSnapshotKnown,
                      HandleInstallSnapshot, Follow, MessagesOK
  <2>3. \E p : disk' = [disk EXCEPT ![m.peer] = p]
    BY <2>1 DEF AppendEntriesMismatch, HandleAppendEntries, Settle, InstallSnapshotKnown,
                HandleInstallSnapshot
  <2> QED BY <2>2, <2>3, FollowerKeepsRole DEF becomeFollower
<1>7. CASE \/ \E i \in Server : Restart(i)
           \/ \E m \in voteRequests : CrashInRequestVote(m)
           \/ \E m \in calls : \/ CrashInAppendEntries(m)
                               \/ CrashInInstallSnapshot(m)
                               \/ CrashInSnapshot(m)
  <2>1. PICK i \in Server : \E p : \E left \in SUBSET calls : CrashWith(i, p, left)
    BY <1>1, <1>7 DEF Restart, CrashInRequestVote, CrashInAppendEntries,
                      CrashInInstallSnapshot, CrashInSnapshot, MessagesOK
  <2>2. PICK p, left : left \in SUBSET calls /\ CrashWith(i, p, left)
    BY <2>1
  <2> QED BY <2>2, FollowerKeepsRole DEF CrashWith
<1> QED BY <1>2, <1>3, <1>4, <1>5, <1>6, <1>7 DEF Next

\* An owner of a term stays its owner.
LEMMA OwnerKept ==
  ASSUME ElectionInv, VoteStep, NEW l \in Server, NEW t \in Nat, Owner(l, t),
         role'[l] = Candidate => role[l] = Candidate \/ currentTerm'[l] > currentTerm[l]
  PROVE  Owner(l, t)'
<1>1. /\ currentTerm[l] \in Nat /\ currentTerm'[l] \in Nat /\ currentTerm'[l] >= currentTerm[l]
      /\ currentTerm'[l] = currentTerm[l] /\ votedFor[l] # Nil => votedFor'[l] = votedFor[l]
      /\ l # Nil
  BY ServerAssumption DEF ElectionInv, VoteStep, GoodStep, TypesOK, TermsOK
<1>2. t <= currentTerm'[l]
  BY <1>1 DEF Owner
<1>3. t = currentTerm'[l] => votedFor'[l] = l /\ role'[l] # Candidate
  BY <1>1 DEF Owner
<1>4. ASSUME NEW r \in voteReplies', r.granted, r.src = l, r.ballot = t
      PROVE  r.dst = l
  <2>1. CASE r \in voteReplies
    BY <1>4, <2>1 DEF Owner
  <2>2. CASE r \notin voteReplies
    BY <1>3, <1>4, <2>2 DEF VoteStep, GoodStep
  <2> QED BY <2>1, <2>2
<1>5. Elected(l, t)'
  BY DEF Owner, VoteStep, GoodStep, Elected, GrantedBy
<1> QED BY <1>2, <1>3, <1>4, <1>5 DEF Owner

\* A candidate with a majority of the votes is the first to lead its term.
LEMMA CandidateOwnsNothing ==
  ASSUME ElectionInv, NEW i \in Server, role[i] = Candidate,
         Cardinality(Voters(i)) >= Majority,
         NEW l \in Server, Owner(l, currentTerm[i])
  PROVE  FALSE
<1> DEFINE t == currentTerm[i]
<1>1. PICK P \in SUBSET Server : /\ Cardinality(P) >= Majority
                                 /\ \A j \in P : j = l \/ GrantedBy(j, l, t)
  BY DEF Owner, Elected
<1>2. Voters(i) \in SUBSET Server
  BY DEF Voters, ElectionInv, TypesOK, MessagesOK
<1>3. \A j \in Voters(i) : j = i \/ GrantedBy(j, i, t)
  BY DEF Voters, GrantedBy
<1>4. /\ Cardinality(Server) \in Nat /\ Cardinality(P) \in Nat
      /\ Cardinality(Voters(i)) \in Nat /\ IsFiniteSet(Server)
  BY <1>2, FS_CardinalityType, FS_Subset, ServerAssumption
<1>5. Cardinality(P) + Cardinality(Voters(i)) > Cardinality(Server)
  BY <1>1, <1>4 DEF Majority
<1>6. PICK j \in Server : j \in P /\ j \in Voters(i)
  BY <1>2, <1>4, <1>5, FS_MajoritiesIntersect
<1>7. l # i
  BY DEF Owner
<1>8. votedFor[i] = i
  BY DEF ElectionInv, RolesOK, Candidate, Follower
<1>9. ASSUME GrantedBy(l, i, t) PROVE FALSE
  BY <1>7, <1>9 DEF GrantedBy, Owner
<1>10. ASSUME GrantedBy(i, l, t) PROVE FALSE
  BY <1>7, <1>8, <1>10 DEF GrantedBy, ElectionInv, GrantsOK
<1>11. ASSUME GrantedBy(j, l, t), GrantedBy(j, i, t) PROVE FALSE
  BY <1>7, <1>11 DEF GrantedBy, ElectionInv, GrantsOK
<1> QED BY <1>1, <1>3, <1>6, <1>7, <1>9, <1>10, <1>11

\* A leader owns its term, and leads it alone.
LeadersOwn ==
  \A i \in Server : role[i] = Leader =>
    /\ Owner(i, currentTerm[i])
    /\ \A k \in Server : role[k] = Leader /\ currentTerm[k] = currentTerm[i] => k = i

\* Of ElectionInv, what a leader's writes need.
LEMMA LeaderOwns == ElectionInv => LeadersOwn
<1> SUFFICES ASSUME ElectionInv, NEW i \in Server, role[i] = Leader
             PROVE  /\ Owner(i, currentTerm[i])
                    /\ \A k \in Server :
                         role[k] = Leader /\ currentTerm[k] = currentTerm[i] => k = i
  BY DEF LeadersOwn
<1>1. \A k \in Server : role[k] = Leader => <<k, currentTerm[k]>> \in Leaderships
  BY DEF Leaderships
<1>2. Owner(i, currentTerm[i])
  <2>1. <<i, currentTerm[i]>> \in Leaderships
    BY <1>1
  <2> QED BY <2>1 DEF ElectionInv, LeadershipOK, Owner, Leader, Candidate
<1> QED BY <1>1, <1>2, ElectionInvSafe DEF ElectionSafety

\* The same after a step.
LEMMA LeaderOwnsNext == ElectionInv' => LeadersOwn'
BY LeaderOwns, PTL

\* The steps that write no new entry.
LEMMA CopyingKeepsLogInv ==
  ASSUME LogInv, DataInv', VoteStep, StepCopies(Entries),
         \A k \in Server : KeepsRole(k) /\ LeaderAppendOnlyStep(k)
  PROVE  LogInv'
<1>1. Entries' \subseteq Entries
  BY StepEntries
<1>2. EntriesTyped' /\ EntriesUnique' /\ CopiesOK'
  BY <1>1, StepCopiesOK DEF LogInv, EntriesTyped, EntriesUnique
<1>3. EntriesOwned'
  <2> SUFFICES ASSUME NEW x \in Entries'
               PROVE  \E l \in Server : Owner(l, x[2].term)'
    BY DEF EntriesOwned
  <2>1. x[2].term \in Nat
    BY <1>1 DEF LogInv, EntriesTyped, Entry
  <2>2. PICK l \in Server : Owner(l, x[2].term)
    BY <1>1 DEF LogInv, EntriesOwned
  <2>3. Owner(l, x[2].term)'
    BY <2>1, <2>2, OwnerKept DEF LogInv, DataInv, KeepsRole
  <2> QED BY <2>3
<1>4. EntriesReached'
  <2> SUFFICES ASSUME NEW x \in Entries', NEW i \in Server, role'[i] = Leader,
                      currentTerm'[i] = x[2].term
               PROVE  x[1] <= lastIndex(disk'[i])
    BY DEF EntriesReached
  <2>1. role[i] = Leader /\ currentTerm'[i] = currentTerm[i]
    BY DEF KeepsRole
  <2>2. x[1] <= lastIndex(disk[i])
    BY <1>1, <2>1 DEF LogInv, EntriesReached
  <2>3. lastIndex(disk'[i]) >= lastIndex(disk[i])
    <3>1. CASE restarts' = restarts
      BY <2>1, <3>1 DEF LeaderAppendOnlyStep
    <3>2. CASE disk'[i] = disk[i]
      BY <3>2, LastIndexBounds DEF LogInv, DataInv, DataOK, StoresOK, Index
    <3> QED BY <3>1, <3>2 DEF KeepsRole
  <2>4. x[1] \in Int /\ lastIndex(disk[i]) \in Int /\ lastIndex(disk'[i]) \in Int
    <3>1. IsStore(disk[i]) /\ IsStore(disk'[i])
      BY DEF LogInv, DataInv, DataOK, StoresOK
    <3> QED BY <1>1, <3>1, LastIndexBounds DEF LogInv, EntriesTyped, Index
  <2> QED BY <2>2, <2>3, <2>4
<1> QED BY <1>2, <1>3, <1>4 DEF LogInv

\* The step of a leader, new or not, that writes the one entry after its last.
LEMMA AppendingKeepsLogInv ==
  ASSUME LogInv, ElectionInv', DataInv', VoteStep, NEW i \in Server,
         NEW op \in Stroke \cup {Noop},
         StepCopies(Entries \cup
           {<<lastIndex(disk[i]) + 1, [term |-> currentTerm[i], op |-> op]>>}),
         \/ role[i] = Leader
         \/ role[i] = Candidate /\ Cardinality(Voters(i)) >= Majority,
         role'[i] = Leader, currentTerm' = currentTerm,
         lastIndex(disk'[i]) = lastIndex(disk[i]) + 1,
         \A k \in Server : k # i => role'[k] = role[k] /\ disk'[k] = disk[k]
  PROVE  LogInv'
<1> DEFINE e == [term |-> currentTerm[i], op |-> op]
           x == <<lastIndex(disk[i]) + 1, e>>
<1>1. Entries' \subseteq Entries \cup {x}
  BY StepEntries
<1>2. currentTerm[i] \in Nat /\ lastIndex(disk[i]) \in Index /\ lastIndex(disk'[i]) \in Int
  <2>1. currentTerm[i] \in Nat
    BY DEF LogInv, DataInv, ElectionInv, TypesOK, TermsOK
  <2>2. IsStore(disk[i]) /\ IsStore(disk'[i])
    BY DEF LogInv, DataInv, DataOK, StoresOK
  <2> QED BY <2>1, <2>2, LastIndexBounds DEF Index
<1>3. x[1] \in Nat /\ x[2] \in Entry /\ x[1] = lastIndex(disk[i]) + 1 /\ x[2] = e
      /\ x[2].term = currentTerm[i]
  BY <1>2 DEF Index, Entry
<1>4. CopiesOK'
  BY StepCopiesOK
<1> HIDE DEF x
<1>5. EntriesTyped'
  BY <1>1, <1>3 DEF LogInv, EntriesTyped
<1>6. \A y \in Entries : y[1] \in Nat /\ y[2].term \in Nat /\ \E l \in Server : Owner(l, y[2].term)
  BY DEF LogInv, EntriesTyped, EntriesOwned, Entry
<1>7. ASSUME NEW y \in Entries, y[2].term = currentTerm[i]
      PROVE  role[i] = Leader /\ y[1] <= lastIndex(disk[i])
  <2>1. role[i] = Leader
    BY <1>6, <1>7, CandidateOwnsNothing DEF LogInv, DataInv
  <2> QED BY <1>7, <2>1 DEF LogInv, EntriesReached
<1>8. EntriesUnique'
  <2>1. ASSUME NEW y \in Entries, y[1] = x[1], y[2].term = x[2].term
        PROVE  FALSE
    BY <1>2, <1>3, <1>6, <1>7, <2>1 DEF Index
  <2> QED BY <1>1, <2>1 DEF LogInv, EntriesUnique
<1>9. EntriesOwned'
  <2> SUFFICES ASSUME NEW y \in Entries'
               PROVE  \E l \in Server : Owner(l, y[2].term)'
    BY DEF EntriesOwned
  <2>1. CASE y \in Entries
    <3>1. PICK l \in Server : Owner(l, y[2].term)
      BY <1>6, <2>1
    <3>2. role'[l] = Candidate => role[l] = Candidate
      BY DEF Leader, Candidate
    <3>3. Owner(l, y[2].term)'
      BY <1>6, <2>1, <3>1, <3>2, OwnerKept DEF LogInv, DataInv
    <3> QED BY <3>3
  <2>2. CASE y = x
    <3>1. Owner(i, currentTerm[i])'
      BY LeaderOwnsNext DEF LeadersOwn
    <3> QED BY <1>3, <2>2, <3>1
  <2> QED BY <1>1, <2>1, <2>2
<1>10. EntriesReached'
  <2> SUFFICES ASSUME NEW y \in Entries', NEW k \in Server, role'[k] = Leader,
                      currentTerm'[k] = y[2].term
               PROVE  y[1] <= lastIndex(disk'[k])
    BY DEF EntriesReached
  <2>1. CASE k = i
    BY <1>1, <1>2, <1>3, <1>6, <1>7, <2>1 DEF Index
  <2>2. CASE k # i
    <3>1. currentTerm[k] # currentTerm[i]
      BY <2>2, LeaderOwnsNext DEF LeadersOwn
    <3>2. y \in Entries
      BY <1>1, <1>3, <3>1
    <3>3. y[1] <= lastIndex(disk[k])
      BY <2>2, <3>2 DEF LogInv, EntriesReached
    <3> QED BY <2>2, <3>3
  <2> QED BY <2>1, <2>2
<1> QED BY <1>4, <1>5, <1>8, <1>9, <1>10 DEF LogInv

\* ElectionWon and submit are such steps.
LEMMA AppendsKeepLogInv ==
  ASSUME LogInv, ElectionInv', DataInv', VoteStep, NEW i \in Server,
         ElectionWon(i) \/ \E s \in Stroke : Submit(i, s)
  PROVE  LogInv'
<1>1. /\ role \in [Server -> {Follower, Candidate, Leader}] /\ DOMAIN disk = Server
      /\ IsStore(disk[i]) /\ currentTerm[i] \in Nat
  BY DEF LogInv, DataInv, DataOK, StoresOK, ElectionInv, TypesOK, TermsOK, DiskOK
<1>2a. PICK op \in Stroke \cup {Noop} : \E next :
        /\ disk' = [disk EXCEPT ![i] = appendLocal(disk[i], currentTerm[i], op)]
        /\ sendAppendEntriesToAll(i, appendLocal(disk[i], currentTerm[i], op), next)
  BY DEF ElectionWon, Submit
<1>2. PICK next :
        /\ disk' = [disk EXCEPT ![i] = appendLocal(disk[i], currentTerm[i], op)]
        /\ sendAppendEntriesToAll(i, appendLocal(disk[i], currentTerm[i], op), next)
  BY <1>2a
<1>3. /\ UNCHANGED <<currentTerm, applied, decided>>
      /\ role' = role \/ role' = [role EXCEPT ![i] = Leader]
      /\ \/ role[i] = Leader
         \/ /\ role[i] = Candidate /\ Cardinality(Voters(i)) >= Majority
            /\ role' = [role EXCEPT ![i] = Leader]
  BY DEF ElectionWon, Submit, volatile
<1>4. StepCopies(Entries \cup {<<lastIndex(disk[i]) + 1, [term |-> currentTerm[i], op |-> op]>>})
  BY <1>2, <1>3, AppendCopies DEF LogInv
<1>5. Grown(disk[i], appendLocal(disk[i], currentTerm[i], op), [term |-> currentTerm[i], op |-> op])
  BY <1>1, AppendLocalGrows
<1>6. disk'[i] = appendLocal(disk[i], currentTerm[i], op)
  BY <1>1, <1>2
<1>7. lastIndex(disk'[i]) = lastIndex(disk[i]) + 1
  BY <1>5, <1>6 DEF Grown
<1>8. role'[i] = Leader /\ \A k \in Server : k # i => role'[k] = role[k] /\ disk'[k] = disk[k]
  BY <1>1, <1>2, <1>3
<1> QED BY <1>3, <1>4, <1>7, <1>8, AppendingKeepsLogInv

\* The stores start empty.
LEMMA LogInvInit == Init => LogInv
<1> SUFFICES ASSUME Init PROVE LogInv
  OBVIOUS
<1>1. DataInv
  BY ElectionInvInit, DataOKInit DEF DataInv
<1>2. \A i \in Server : /\ disk[i].log = [n \in {} |-> Nil]
                        /\ disk[i].snapshot = <<>> /\ applied[i] = <<>>
  BY DEF Init, FreshStore
<1>3. RowsOf([n \in {} |-> Nil]) = {} /\ Record(<<>>) = {}
  BY DEF RowsOf, Record
<1>4. Entries = {}
  BY <1>2, <1>3 DEF Init, Entries
<1>5. CopiesOK
  BY <1>2, <1>3 DEF Init, CopiesOK, Built
<1> QED BY <1>1, <1>4, <1>5 DEF LogInv, EntriesTyped, EntriesOwned, EntriesReached, EntriesUnique

\* Every step keeps the invariant.
LEMMA LogInvNext == LogInv /\ [Next]_vars => LogInv'
<1> SUFFICES ASSUME LogInv, [Next]_vars PROVE LogInv'
  OBVIOUS
<1>1. DataInv /\ ElectionInv /\ CopiesOK
  BY DEF LogInv, DataInv
<1>2. ElectionInv' /\ DataInv'
  BY <1>1, ElectionInvNext, DataOKNext DEF DataInv
<1>3. VoteStep
  BY <1>1, NextVoteStep, StutterVoteStep
<1>4. CASE \E i \in Server : ElectionWon(i) \/ \E s \in Stroke : Submit(i, s)
  BY <1>2, <1>3, <1>4, AppendsKeepLogInv
<1>5. CASE Next /\ ~\E i \in Server : ElectionWon(i) \/ \E s \in Stroke : Submit(i, s)
  <2>1. StepCopies(Entries)
    BY <1>1, <1>5, VoteActionsCopy, HeartbeatCopies, ReplyAppendedCopies, RequestsCopy,
       CrashesCopy DEF Next
  <2>2. \A k \in Server : KeepsRole(k) /\ LeaderAppendOnlyStep(k)
    BY <1>1, <1>5, NextKeepsRole, NextAppendOnly
  <2> QED BY <1>2, <1>3, <2>1, <2>2, CopyingKeepsLogInv
<1>6. CASE UNCHANGED vars
  <2>1. UNCHANGED <<role, currentTerm, votedFor, applied, disk, voteReplies, calls,
                    restarts, decided>>
    BY <1>6 DEF vars, volatile, network, bounds
  <2>2. StepCopies(Entries)
    BY <1>1, <2>1, VotesCopy
  <2>3. \A k \in Server : KeepsRole(k) /\ LeaderAppendOnlyStep(k)
    BY <1>1, <2>1, KeepsLog DEF KeepsRole
  <2> QED BY <1>2, <1>3, <2>2, <2>3, CopyingKeepsLogInv
<1> QED BY <1>4, <1>5, <1>6

\* No two entries of the cluster share index and term: not in the logs, not in
\* a request, not in what any life of any replica ever applied, whatever is
\* lost, overtaken or interrupted.
THEOREM EntriesUniqueTheorem == Spec => []EntriesUnique
<1>1. LogInv => EntriesUnique
  BY DEF LogInv
<1> QED BY <1>1, LogInvInit, LogInvNext, PTL DEF Spec

-----------------------------------------------------------------------------
(***************************************************************************)
(* The replicated log.  What was ever applied fills the indexes from 0 on, *)
(* because a state machine is applied to in order or taken from a snapshot *)
(* as a whole.  If it also has one entry per index it is a log, of which   *)
(* every state machine is a prefix, and a step that changes a state        *)
(* machine moves it along this log or back on it.                          *)
(***************************************************************************)

Indexes(D) == {d[1] : d \in D}
OneEach(D) == \A a, b \in D : a[1] = b[1] => a[2] = b[2]
Filled(D, n) == n \in Nat /\ Indexes(D) = 0 .. n - 1

\* L is the log of the applied entries D, n of them.
IsLogOf(L, D, n) ==
  /\ L \in Seq(Entry) /\ Len(L) = n
  /\ \A d \in D : d[1] \in 0 .. n - 1 /\ L[d[1] + 1] = d[2]

\* DecidedLog, of any set of applied entries.
LogOf(D) ==
  [n \in 1 .. Cardinality({d[1] : d \in D}) |-> (CHOOSE d \in D : d[1] = n - 1)[2]]

\* The entries at the indexes, one each, are a log.
LEMMA LogOfDecided ==
  ASSUME NEW D, \A d \in D : d[2] \in Entry, OneEach(D), NEW n, Filled(D, n)
  PROVE  IsLogOf(LogOf(D), D, n)
<1> DEFINE c(k) == CHOOSE d \in D : d[1] = k - 1
<1>1. n \in Nat /\ {d[1] : d \in D} = 0 .. n - 1
  BY DEF Filled, Indexes
<1>2. Cardinality(0 .. n - 1) = n
  <2>1. 0 \in Int /\ n - 1 \in Int
    BY <1>1
  <2>2. Cardinality(0 .. n - 1) = IF 0 > n - 1 THEN 0 ELSE (n - 1) - 0 + 1
    BY <2>1, FS_Interval
  <2> QED BY <1>1, <2>2
<1>3. LogOf(D) = [k \in 1 .. n |-> c(k)[2]]
  BY <1>1, <1>2 DEF LogOf
<1>4. ASSUME NEW k \in 1 .. n
      PROVE  c(k) \in D /\ c(k)[1] = k - 1
  <2>1. k - 1 \in 0 .. n - 1
    BY <1>1
  <2>2. \E d \in D : d[1] = k - 1
    BY <1>1, <2>1
  <2> QED BY <2>2
<1> HIDE DEF c
<1>5. ASSUME NEW d \in D
      PROVE  d[1] \in 0 .. n - 1 /\ c(d[1] + 1)[2] = d[2]
  <2>1. d[1] \in 0 .. n - 1
    BY <1>1
  <2>2. d[1] + 1 \in 1 .. n /\ (d[1] + 1) - 1 = d[1]
    BY <1>1, <2>1
  <2>3. c(d[1] + 1) \in D /\ c(d[1] + 1)[1] = d[1]
    BY <1>4, <2>2
  <2> QED BY <2>1, <2>3 DEF OneEach
<1>6. LogOf(D) \in Seq(Entry) /\ Len(LogOf(D)) = n
  BY <1>1, <1>3, <1>4
<1>7. \A d \in D : LogOf(D)[d[1] + 1] = d[2]
  BY <1>1, <1>3, <1>5
<1> QED BY <1>5, <1>6, <1>7 DEF IsLogOf

\* Two histories that agree as far as the shorter one goes: one begins with the other.
LEMMA AgreeingExtends ==
  ASSUME NEW S, NEW u \in Seq(S), NEW v \in Seq(S), Len(u) >= Len(v),
         \A k \in 1 .. Len(v) : u[k] = v[k]
  PROVE  RL!Extends(u, v)
<1>1. Len(u) \in Nat /\ Len(v) \in Nat
  OBVIOUS
<1>2. \A k \in 1 .. Len(v) : u[k] \in S
  BY <1>1
<1> DEFINE r == SubSeq(u, 1, Len(v))
<1>3. /\ r \in Seq(S) /\ Len(r) = Len(v)
      /\ \A k \in 1 .. Len(v) : r[k] = u[k]
  <2>1. /\ r \in Seq(S) /\ Len(r) = IF 1 <= Len(v) THEN Len(v) - 1 + 1 ELSE 0
        /\ \A k \in 1 .. Len(v) - 1 + 1 : r[k] = u[1 + k - 1]
    BY <1>1, <1>2, SubSeqProperties
  <2> HIDE DEF r
  <2> QED BY <1>1, <2>1
<1> HIDE DEF r
<1>4. r = v
  BY <1>3, SeqEqual
<1> QED BY <1>4 DEF RL!Extends, r

\* A history of applied entries is a prefix of their log.
LEMMA HistoryIsPrefix ==
  ASSUME NEW L, NEW D, NEW n \in Nat, IsLogOf(L, D, n), NEW s \in Seq(Entry), Record(s) \subseteq D
  PROVE  /\ Len(s) <= n /\ \A k \in 1 .. Len(s) : s[k] = L[k]
         /\ RL!Extends(L, s)
<1>1. Len(s) \in Nat /\ L \in Seq(Entry) /\ Len(L) = n
  BY DEF IsLogOf
<1>2. ASSUME NEW k \in 1 .. Len(s) PROVE k <= n /\ s[k] = L[k]
  <2>1. <<k - 1, s[k]>> \in D
    BY DEF Record
  <2>2. k - 1 \in 0 .. n - 1 /\ L[(k - 1) + 1] = s[k]
    BY <2>1 DEF IsLogOf
  <2> QED BY <1>1, <2>2
<1>3. Len(s) <= n
  <2>1. CASE Len(s) = 0
    BY <2>1
  <2>2. CASE Len(s) # 0
    BY <1>1, <1>2, <2>2
  <2> QED BY <2>1, <2>2
<1>4. RL!Extends(L, s)
  BY <1>1, <1>2, <1>3, AgreeingExtends
<1> QED BY <1>2, <1>3, <1>4

\* A history recorded with what was applied before fills its indexes.
LEMMA RecordFills ==
  ASSUME NEW D, NEW n, Filled(D, n), NEW s \in Seq(Entry)
  PROVE  Filled(D \cup Record(s), Greater(n, Len(s)))
<1>1. Len(s) \in Nat /\ n \in Nat /\ Indexes(D) = 0 .. n - 1
  BY DEF Filled
<1>2. Indexes(Record(s)) = 0 .. Len(s) - 1
  <2>1. ASSUME NEW k \in 0 .. Len(s) - 1 PROVE k \in Indexes(Record(s))
    <3>1. k + 1 \in 1 .. Len(s) /\ (k + 1) - 1 = k
      BY <1>1
    <3>2. <<(k + 1) - 1, s[k + 1]>> \in Record(s)
      BY <3>1 DEF Record
    <3> QED BY <3>1, <3>2 DEF Indexes
  <2>2. ASSUME NEW k \in Indexes(Record(s)) PROVE k \in 0 .. Len(s) - 1
    <3>1. PICK m \in 1 .. Len(s) : k = m - 1
      BY DEF Indexes, Record
    <3> QED BY <1>1, <3>1
  <2> QED BY <2>1, <2>2
<1>3. Indexes(D \cup Record(s)) = Indexes(D) \cup Indexes(Record(s))
  BY DEF Indexes
<1>4. (0 .. n - 1) \cup (0 .. Len(s) - 1) = 0 .. Greater(n, Len(s)) - 1
  BY <1>1 DEF Greater
<1>5. Greater(n, Len(s)) \in Nat
  BY <1>1 DEF Greater
<1> QED BY <1>1, <1>2, <1>3, <1>4, <1>5 DEF Filled

\* A history recorded leaves the log as it is, or it is longer and is the log now.
LEMMA RecordExtends ==
  ASSUME NEW D, NEW n, Filled(D, n), NEW L, IsLogOf(L, D, n), NEW s \in Seq(Entry),
         NEW M, IsLogOf(M, D \cup Record(s), Greater(n, Len(s)))
  PROVE  /\ Len(s) <= n => M = L
         /\ Len(s) > n => M = s /\ RL!Extends(M, L)
<1>1. Len(s) \in Nat /\ n \in Nat /\ Indexes(D) = 0 .. n - 1
  BY DEF Filled
<1>2. L \in Seq(Entry) /\ Len(L) = n /\ M \in Seq(Entry) /\ Len(M) = Greater(n, Len(s))
  BY DEF IsLogOf
<1>3. ASSUME NEW k \in 1 .. n PROVE M[k] = L[k]
  <2>1. k - 1 \in Indexes(D) /\ (k - 1) + 1 = k
    BY <1>1
  <2>2. PICK d \in D : d[1] = k - 1
    BY <2>1 DEF Indexes
  <2>3. L[d[1] + 1] = d[2] /\ M[d[1] + 1] = d[2]
    BY DEF IsLogOf
  <2> QED BY <2>1, <2>2, <2>3
<1>4. CASE Len(s) <= n
  <2>1. Len(M) = n
    BY <1>1, <1>2, <1>4 DEF Greater
  <2>2. M = L
    BY <1>2, <1>3, <2>1, SeqEqual
  <2> QED BY <1>1, <1>4, <2>2
<1>5. CASE Len(s) > n
  <2>1. Len(M) = Len(s) /\ Greater(n, Len(s)) \in Nat
    BY <1>1, <1>2, <1>5 DEF Greater
  <2>2. \A k \in 1 .. Len(s) : s[k] = M[k]
    BY <2>1, HistoryIsPrefix
  <2>3. M = s
    BY <1>2, <2>1, <2>2, SeqEqual
  <2>4. RL!Extends(M, L)
    BY <1>1, <1>2, <1>3, <1>5, <2>1, AgreeingExtends
  <2> QED BY <1>1, <1>5, <2>3, <2>4
<1> QED BY <1>1, <1>4, <1>5

\* The state machine of i moves, or nothing is applied at all.
MachineStep(i) ==
  /\ \A j \in Server \ {i} : applied'[j] = applied[j]
  /\ decided' = decided \cup Record(applied'[i])

\* _applyCommitted moves one state machine.
LEMMA SettleMoves ==
  ASSUME DataInv, NEW i \in Server, NEW p, NEW commit, Settle(i, p, commit)
  PROVE  MachineStep(i)
BY DEF Settle, MachineStep, DataInv, DataOK, MachinesOK

\* Every action moves the state machine of one replica, or none.
LEMMA NextMoves ==
  ASSUME DataInv, Next
  PROVE  UNCHANGED <<applied, decided>> \/ \E i \in Server : MachineStep(i)
<1>1. applied \in [Server -> Seq(Entry)]
  BY DEF DataInv, DataOK, MachinesOK
<1>2. /\ \A m \in voteRequests : m.dst \in Server
      /\ \A c \in calls : c.caller \in Server /\ c.peer \in Server
  BY DEF DataInv, ElectionInv, TypesOK, MessagesOK
<1>3. CASE \/ \E i \in Server : \/ StartElection(i) \/ ElectionWon(i) \/ Heartbeat(i)
                                \/ \E s \in Stroke : Submit(i, s)
           \/ \E m \in voteRequests : HandleRequestVote(m)
           \/ \E r \in voteReplies : ElectionSteppedDown(r)
           \/ \E m \in calls : \/ RefuseStaleTerm(m) \/ AppendEntriesMismatch(m)
                               \/ InstallSnapshotKnown(m) \/ ReplyNewerTerm(m)
                               \/ ReplyRejected(m) \/ ReplyInstalled(m)
  BY <1>3 DEF StartElection, ElectionWon, Heartbeat, Submit, HandleRequestVote,
              ElectionSteppedDown, RefuseStaleTerm, AppendEntriesMismatch,
              InstallSnapshotKnown, ReplyNewerTerm, ReplyRejected, ReplyInstalled, volatile
<1>4. CASE \E m \in calls : HandleAppendEntries(m) \/ ReplyAppended(m)
  <2>1. PICK m \in calls : HandleAppendEntries(m) \/ ReplyAppended(m)
    BY <1>4
  <2>2. \/ UNCHANGED <<applied, decided>>
        \/ \E i \in {m.caller, m.peer} : \E p, commit : Settle(i, p, commit)
    BY <2>1 DEF HandleAppendEntries, ReplyAppended
  <2> QED BY <1>2, <2>2, SettleMoves
<1>5. CASE \E m \in calls : HandleInstallSnapshot(m)
  <2>1. PICK m \in calls : HandleInstallSnapshot(m)
    BY <1>5
  <2>2. /\ applied' = [applied EXCEPT ![m.peer] = m.data]
        /\ decided' = decided \cup Record(m.data)
    BY <2>1 DEF HandleInstallSnapshot
  <2> QED BY <1>1, <1>2, <2>2 DEF MachineStep
<1>6. CASE \/ \E i \in Server : Restart(i)
           \/ \E m \in voteRequests : CrashInRequestVote(m)
           \/ \E m \in calls : \/ CrashInAppendEntries(m) \/ CrashInInstallSnapshot(m)
                               \/ CrashInSnapshot(m)
  <2>1. PICK i \in Server : \E p : \E left \in SUBSET calls : CrashWith(i, p, left)
    BY <1>2, <1>6 DEF Restart, CrashInRequestVote, CrashInAppendEntries,
                      CrashInInstallSnapshot, CrashInSnapshot
  <2>2. PICK p, left : left \in SUBSET calls /\ CrashWith(i, p, left)
    BY <2>1
  <2>3. /\ applied' = [applied EXCEPT ![i] = p.snapshot]
        /\ decided' = decided \cup Record(p.snapshot)
    BY <2>2 DEF CrashWith
  <2> QED BY <1>1, <2>3 DEF MachineStep
<1> QED BY <1>3, <1>4, <1>5, <1>6 DEF Next

DecidedFilled == \E n : Filled(decided, n)

\* The applied entries keep filling the indexes from 0 on.
LEMMA DecidedFilledNext == LogInv /\ LogInv' /\ DecidedFilled /\ [Next]_vars => DecidedFilled'
<1> SUFFICES ASSUME LogInv, LogInv', DecidedFilled, [Next]_vars PROVE DecidedFilled'
  OBVIOUS
<1>1. CASE UNCHANGED <<applied, decided>>
  BY <1>1 DEF DecidedFilled
<1>2. CASE \E i \in Server : MachineStep(i)
  <2>1. PICK i \in Server : MachineStep(i)
    BY <1>2
  <2>2. applied'[i] \in Seq(Entry)
    BY DEF LogInv, DataInv, DataOK, MachinesOK
  <2>3. PICK n : Filled(decided, n)
    BY DEF DecidedFilled
  <2>4. Filled(decided \cup Record(applied'[i]), Greater(n, Len(applied'[i])))
    BY <2>2, <2>3, RecordFills
  <2> QED BY <2>1, <2>4 DEF MachineStep, DecidedFilled
<1>3. UNCHANGED vars => UNCHANGED <<applied, decided>>
  BY DEF vars, volatile
<1> QED BY <1>1, <1>2, <1>3, NextMoves DEF LogInv

\* When one entry is applied at each index, moving a state machine is a step
\* of the replicated log.
LEMMA MovesAlongLog ==
  ASSUME LogInv, LogInv', DecidedFilled, StateMachineSafety, StateMachineSafety',
         NEW i \in Server, MachineStep(i)
  PROVE  [RL!Next]_<<DecidedLog, applied>>
<1> DEFINE s == applied'[i]
           t == applied[i]
<1>1. /\ applied \in [Server -> Seq(Entry)] /\ applied' \in [Server -> Seq(Entry)]
      /\ s \in Seq(Entry) /\ t \in Seq(Entry)
  BY DEF LogInv, DataInv, DataOK, MachinesOK
<1>2. /\ Record(t) \subseteq decided /\ decided' = decided \cup Record(s)
      /\ \A j \in Server \ {i} : applied'[j] = applied[j]
  BY DEF MachineStep, LogInv, CopiesOK
<1>3. /\ \A d \in decided : d[2] \in Entry
      /\ \A d \in decided' : d[2] \in Entry
  BY DEF LogInv, EntriesTyped, Entries
<1>4. OneEach(decided) /\ OneEach(decided')
  BY DEF StateMachineSafety, OneEach
<1>5. DecidedLog = LogOf(decided) /\ DecidedLog' = LogOf(decided')
  BY DEF DecidedLog, LogOf
<1>6. PICK n : Filled(decided, n)
  BY DEF DecidedFilled
<1> HIDE DEF s, t
<1>7. IsLogOf(DecidedLog, decided, n)
  BY <1>3, <1>4, <1>5, <1>6, LogOfDecided
<1>8. Filled(decided', Greater(n, Len(s)))
  BY <1>1, <1>2, <1>6, RecordFills
<1>9. IsLogOf(DecidedLog', decided', Greater(n, Len(s)))
  BY <1>3, <1>4, <1>5, <1>8, LogOfDecided
<1>10. /\ Len(s) <= n => DecidedLog' = DecidedLog
       /\ Len(s) > n => DecidedLog' = s /\ RL!Extends(DecidedLog', DecidedLog)
  BY <1>1, <1>2, <1>6, <1>7, <1>9, RecordExtends
<1>11. /\ Len(s) \in Nat /\ Len(t) \in Nat /\ n \in Nat
       /\ Greater(n, Len(s)) \in Nat
  BY <1>1, <1>6 DEF Filled, Greater
<1>12. /\ RL!Extends(DecidedLog', s) /\ \A k \in 1 .. Len(s) : s[k] = DecidedLog'[k]
  BY <1>1, <1>2, <1>9, <1>11, HistoryIsPrefix
<1>13. Len(t) <= n /\ \A k \in 1 .. Len(t) : t[k] = DecidedLog'[k]
  <2>1. Len(t) <= n
    BY <1>1, <1>2, <1>7, <1>11, HistoryIsPrefix
  <2>2. Record(t) \subseteq decided'
    BY <1>2
  <2> QED BY <1>1, <1>9, <1>11, <2>1, <2>2, HistoryIsPrefix
<1>14. CASE Len(s) > Len(t)
  <2>1. RL!Extends(s, t)
    BY <1>1, <1>11, <1>12, <1>13, <1>14, AgreeingExtends
  <2>2. RL!Advance(i)
    BY <1>10, <1>11, <1>12, <1>14, <2>1 DEF RL!Advance, s, t
  <2> QED BY <1>2, <2>2 DEF RL!Next
<1>15. CASE Len(s) < Len(t)
  <2>1. RL!Extends(t, s)
    BY <1>1, <1>11, <1>12, <1>13, <1>15, AgreeingExtends
  <2>2. RL!Recover(i)
    BY <1>10, <1>11, <1>13, <1>15, <2>1 DEF RL!Recover, s, t
  <2> QED BY <1>2, <2>2 DEF RL!Next
<1>16. CASE Len(s) = Len(t)
  <2>1. s = t
    BY <1>1, <1>11, <1>12, <1>13, <1>16, SeqEqual
  <2>2. applied' = applied
    BY <1>1, <1>2, <2>1 DEF s, t
  <2>3. DecidedLog' = DecidedLog
    BY <1>10, <1>11, <1>13, <1>16
  <2> QED BY <2>2, <2>3
<1> QED BY <1>11, <1>14, <1>15, <1>16

\* The replicas implement one replicated log, on which every state machine is
\* across failover, compaction, InstallSnapshot, restarts and crashes inside
\* handlers, as long as no two of them apply different entries at one index
\* (StateMachineSafety, of which the run overtaken shows when it breaks).
THEOREM RefinementTheorem == Spec /\ []StateMachineSafety => ImplementsReplicatedLog
<1>1. Init => RL!Init /\ DecidedFilled
  <2> SUFFICES ASSUME Init PROVE RL!Init /\ DecidedFilled
    OBVIOUS
  <2>1. decided = {} /\ applied = [i \in Server |-> <<>>]
    BY DEF Init
  <2>2. Filled(decided, 0)
    BY <2>1 DEF Filled, Indexes
  <2>3. DecidedLog = <<>>
    <3>1. \A d \in decided : d[2] \in Entry
      BY <2>1
    <3>2. OneEach(decided)
      BY <2>1 DEF OneEach
    <3>3. IsLogOf(LogOf(decided), decided, 0)
      BY <2>2, <3>1, <3>2, LogOfDecided
    <3>4. LogOf(decided) = <<>>
      BY <3>3, EmptySeq DEF IsLogOf
    <3> QED BY <3>4 DEF DecidedLog, LogOf
  <2> QED BY <2>1, <2>2, <2>3 DEF RL!Init, DecidedFilled
<1>2. /\ LogInv /\ LogInv' /\ DecidedFilled /\ StateMachineSafety /\ StateMachineSafety'
      /\ [Next]_vars
      => [RL!Next]_<<DecidedLog, applied>>
  <2> SUFFICES ASSUME LogInv, LogInv', DecidedFilled, StateMachineSafety, StateMachineSafety',
                      [Next]_vars
               PROVE  [RL!Next]_<<DecidedLog, applied>>
    OBVIOUS
  <2>1. \/ UNCHANGED <<applied, decided>>
        \/ \E i \in Server : MachineStep(i)
    BY NextMoves DEF LogInv, vars, volatile
  <2>2. UNCHANGED decided => DecidedLog' = DecidedLog
    BY DEF DecidedLog
  <2> QED BY <2>1, <2>2, MovesAlongLog
<1>3. Spec => []LogInv
  BY LogInvInit, LogInvNext, PTL DEF Spec
<1> QED BY <1>1, <1>2, <1>3, DecidedFilledNext, PTL DEF Spec, ImplementsReplicatedLog, RL!Spec
=============================================================================
