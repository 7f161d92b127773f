----------------------------- MODULE ReadIndex -----------------------------
(***************************************************************************)
(* readIndex of replicas/raft/RaftNode.js and the /read-linearizable       *)
(* endpoint that serves what it allows: a leader notes its commit index,   *)
(* has a majority confirm with an empty AppendEntries that it still leads, *)
(* and answers from its state machine.                                     *)
(*                                                                         *)
(* A read is under way at its two awaits: "probing" until the broadcast    *)
(* settles, "confirmed" until lastApplied reaches the index it noted.  The *)
(* processes are not killed here: with its process a read is gone.         *)
(***************************************************************************)
EXTENDS RaftNode

CONSTANT MaxReads   \* bound: reads, over all the replicas

VARIABLE reads      \* the calls of readIndex, the answered ones too

Strokes(history) == {d \in history : d[2].op # Noop}

ReadInit == Init /\ reads = {}

\* readIndex up to its broadcast.  The leader has committed an entry of its
\* term, or what it has committed is in its snapshot.
BeginRead(i) ==
  LET p == disk[i]
      commit == commitIndex[i]
      currentTermCommitted == commit \in Rows(p) /\ p.log[commit].term = currentTerm[i]
  IN  /\ Cardinality(reads) < MaxReads
      /\ role[i] = Leader
      /\ \/ commit \in 0 .. p.lastSnapshotIndex
         \/ currentTermCommitted
      /\ reads' = reads \cup
           {[phase |-> "probing", leader |-> i, term |-> currentTerm[i], readIdx |-> commit,
             prevLogIndex |-> lastIndex(p), prevLogTerm |-> lastTerm(p),
             waiting |-> Peers(i), acks |-> {i}, newer |-> 0,
             before |-> Strokes(decided), strokes |-> {}]}
      /\ UNCHANGED vars

\* The AppendEntries of the read, whose response only the read waits for.
ProbeBody(r, j) ==
  [type |-> "AppendEntries", caller |-> r.leader, peer |-> j, awaited |-> FALSE,
   term |-> r.term, prevLogIndex |-> r.prevLogIndex, prevLogTerm |-> r.prevLogTerm,
   entries |-> <<>>, leaderCommit |-> r.readIdx]

\* A peer handles it, perhaps after the broadcast gave up on it.
Probe(r, j) ==
  LET m == ProbeBody(r, j)
      probed == [r EXCEPT !.waiting = @ \ {j}]
      answered(reply) == IF r.phase = "probing" THEN reply ELSE probed
  IN  \/ /\ HandleAppendEntries(m)
         /\ reads' = (reads \ {r}) \cup {answered([probed EXCEPT !.acks = @ \cup {j}])}
      \/ /\ AppendEntriesMismatch(m)
         /\ reads' = (reads \ {r}) \cup {probed}
      \/ /\ RefuseStaleTerm(m)
         /\ reads' = (reads \ {r}) \cup
              {answered([probed EXCEPT !.newer = Greater(@, currentTerm[j])])}

\* The broadcast settled and a response has a newer term: _becomeFollower.
ReadSteppedDown(r) ==
  LET i == r.leader IN
  /\ r.phase = "probing"
  /\ r.newer > currentTerm[i]
  /\ becomeFollower(i, r.newer)
  /\ disk' = [disk EXCEPT ![i] = FollowerStore(i, r.newer)]
  /\ reads' = (reads \ {r}) \cup {[r EXCEPT !.phase = "failed"]}
  /\ UNCHANGED <<leaderId, commitIndex, nextIndex, matchIndex, applied, network, bounds, decided>>

\* The broadcast settled, a majority answered with success, and the replica
\* leads in the same term.  A read that fails here changes nothing.
ReadConfirmed(r) ==
  LET i == r.leader IN
  /\ r.phase = "probing"
  /\ r.newer <= currentTerm[i]
  /\ Cardinality(r.acks) >= Majority
  /\ role[i] = Leader /\ currentTerm[i] = r.term
  /\ reads' = (reads \ {r}) \cup {[r EXCEPT !.phase = "confirmed"]}
  /\ UNCHANGED vars

\* lastApplied has reached readIdx: /read-linearizable answers with the
\* strokes of the state machine.
ReadServed(r) ==
  /\ r.phase = "confirmed"
  /\ Len(applied[r.leader]) - 1 >= r.readIdx
  /\ reads' = (reads \ {r}) \cup
       {[r EXCEPT !.phase = "served", !.strokes = Strokes(Record(applied[r.leader]))]}
  /\ UNCHANGED vars

ReadStep ==
  \/ \E i \in Server : BeginRead(i)
  \/ \E r \in reads : \/ \E j \in r.waiting : Probe(r, j)
                      \/ ReadSteppedDown(r)
                      \/ ReadConfirmed(r)
                      \/ ReadServed(r)

ReadSpec == ReadInit /\ [][ReadStep \/ (Next /\ UNCHANGED reads)]_<<vars, reads>>

-----------------------------------------------------------------------------
\* A read that is served returns every stroke that some replica had applied,
\* and so may have been acknowledged, when the read began.
ReadsLinearizable ==
  \A r \in reads : r.phase = "served" => r.before \subseteq r.strokes
=============================================================================
