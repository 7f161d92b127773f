------------------------------- MODULE Canvas -------------------------------
(***************************************************************************)
(* The state machines of the replicas above one committed log: each        *)
(* applies the entries in order, at its own pace, takes snapshots of its   *)
(* own, installs those of others and starts again from its last one.       *)
(*                                                                         *)
(* The log is what RaftNode is shown to provide (ReplicatedLog).           *)
(***************************************************************************)
EXTENDS StateMachine

CONSTANTS
  Server,
  Client,
  MaxSeq,   \* strokes carry seq 1 .. MaxSeq
  MaxLog    \* bound: entries in the log

\* null is no client, and a NOOP is no stroke.
ASSUME CanvasAssumption ==
  /\ MaxSeq \in Nat
  /\ Nil \notin Client
  /\ Noop \notin [client : Client \cup {Nil}, seq : 0 .. MaxSeq]

Op == [client : Client, seq : 1 .. MaxSeq] \cup {[client |-> Nil, seq |-> 0], Noop}

VARIABLES
  log,     \* the committed entries, log[n + 1] with index n
  sm,      \* sm[i]: this.stateMachine of replica i
  saved    \* saved[i]: the latest row of its snapshots table, Nil if none

vars == <<log, sm, saved>>

Init ==
  /\ log = <<>>
  /\ sm = [i \in Server |-> EmptyMachine]
  /\ saved = [i \in Server |-> Nil]

Commit(op) ==
  /\ Len(log) < MaxLog
  /\ log' = Append(log, op)
  /\ UNCHANGED <<sm, saved>>

\* One round of the loop in _applyCommitted.
ApplyNext(i) ==
  LET n == sm[i].lastApplied + 1 IN
  /\ n < Len(log)
  /\ sm' = [sm EXCEPT ![i] = apply(@, n, log[n + 1])]
  /\ UNCHANGED <<log, saved>>

\* _maybeSnapshot, at whatever threshold.
TakeSnapshot(i) ==
  /\ sm[i].lastApplied >= 0
  /\ saved' = [saved EXCEPT ![i] = [index |-> sm[i].lastApplied, blob |-> getSnapshot(sm[i])]]
  /\ UNCHANGED <<log, sm>>

\* start
Restart(i) ==
  /\ sm' = [sm EXCEPT ![i] = IF saved[i] = Nil THEN EmptyMachine
                             ELSE restoreSnapshot(saved[i].blob, saved[i].index)]
  /\ UNCHANGED <<log, saved>>

\* handleInstallSnapshot with the latest snapshot of a peer.
Install(i, j) ==
  /\ saved[j] # Nil
  /\ IF saved[i] = Nil THEN TRUE ELSE saved[j].index > saved[i].index
  /\ saved' = [saved EXCEPT ![i] = saved[j]]
  /\ sm' = [sm EXCEPT ![i] = restoreSnapshot(saved[j].blob, saved[j].index)]
  /\ UNCHANGED log

Next ==
  \/ \E op \in Op : Commit(op)
  \/ \E i \in Server : \/ ApplyNext(i)
                       \/ TakeSnapshot(i)
                       \/ Restart(i)
                       \/ \E j \in Server \ {i} : Install(i, j)

Spec == Init /\ [][Next]_vars

-----------------------------------------------------------------------------
(***************************************************************************)
(* The reference: what the log says should be drawn, read off the whole    *)
(* log at once.  drawn[n] is the set of the indexes below n that draw.  A  *)
(* client is remembered as long as fewer than dedupeMaxClients other       *)
(* clients have drawn since it last did.                                   *)
(***************************************************************************)
LastDrawn(drawn, c) ==
  LET mine == {n \in drawn : log[n + 1].client = c}
  IN  IF mine = {} THEN -1 ELSE CHOOSE n \in mine : \A k \in mine : n >= k

Forgotten(drawn, c) ==
  Cardinality({d \in Client : LastDrawn(drawn, d) > LastDrawn(drawn, c)}) >= dedupeMaxClients

Draws(drawn, op) ==
  /\ op # Noop
  /\ \/ op.client = Nil
     \/ LastDrawn(drawn, op.client) = -1
     \/ Forgotten(drawn, op.client)
     \/ log[LastDrawn(drawn, op.client) + 1].seq < op.seq

Drawn ==
  LET drawn[n \in 0 .. Len(log)] ==
        IF n = 0 THEN {}
        ELSE IF Draws(drawn[n - 1], log[n]) THEN drawn[n - 1] \cup {n - 1} ELSE drawn[n - 1]
  IN  drawn

\* The fields have their types.
TypeOK ==
  /\ log \in Seq(Op)
  /\ \A i \in Server :
       /\ sm[i].lastApplied \in -1 .. Len(log) - 1
       /\ Len(sm[i].dedupe) <= dedupeMaxClients
       /\ \A n \in 1 .. Len(sm[i].strokes) : sm[i].strokes[n].op \in Op \ {Noop}

\* Replicas that applied as much have the same strokes and the same dedupe
\* table in the same order, however they got there: _maybeSnapshot relies on
\* the snapshot being a function of the applied entries.
ReplicasAgree ==
  \A i, j \in Server : sm[i].lastApplied = sm[j].lastApplied => sm[i] = sm[j]

\* The strokes s are those drawn, in the order of the log, and the dedupe table
\* has the last stroke drawn of each client known.
Known(drawn) == {c \in Client : LastDrawn(drawn, c) >= 0 /\ ~Forgotten(drawn, c)}

IsDrawn(s, table, drawn) ==
  /\ {s[n].index : n \in 1 .. Len(s)} = drawn
  /\ \A n \in 1 .. Len(s) : /\ s[n].op = log[s[n].index + 1]
                            /\ n > 1 => s[n - 1].index < s[n].index
  /\ {<<table[n].client, table[n].index>> : n \in 1 .. Len(table)}
       = {<<c, LastDrawn(drawn, c)>> : c \in Known(drawn)}

\* The strokes are those the whole log calls for, and eviction and the moves to
\* the end of the dedupe table follow the strokes drawn, not the retries.
DrawsTheLog ==
  \A i \in Server : IsDrawn(sm[i].strokes, sm[i].dedupe, Drawn[sm[i].lastApplied + 1])

\* What /log serves from fromIndex is what this replica drew there, and a
\* reader who asks again from one past the last index gets the rest.
HistoryIsComplete ==
  \A i \in Server :
    LET commit == sm[i].lastApplied
        all == getLogEntries(sm[i], 0, commit)
    IN  /\ all = sm[i].strokes
        /\ \A n \in 0 .. commit :
             getLogEntries(sm[i], 0, n) \o getLogEntries(sm[i], n + 1, commit) = all
=============================================================================
