---------------------------- MODULE Persistence ----------------------------
(***************************************************************************)
(* replicas/raft/Persistence.js: the SQLite file of one replica, as a      *)
(* record, and one operator per method.  A method that writes returns the  *)
(* store it leaves behind; each of them is one SQLite transaction, so a    *)
(* crash falls before or after it, never inside.                           *)
(*                                                                         *)
(*   raft_meta    currentTerm, votedFor, lastSnapshotIndex/Term            *)
(*   log_entries  log, a function on the set of the row keys (idx); the    *)
(*                table does not keep the keys contiguous                  *)
(*   snapshots    snapshot, the state_blob of the newest row.  The row is  *)
(*                written in the transaction that writes                   *)
(*                lastSnapshotIndex, so lastSnapshotIndex = -1 says that   *)
(*                the table is empty                                       *)
(***************************************************************************)
EXTENDS Integers, Sequences, FiniteSetsExt

CONSTANT Nil     \* SQL NULL and JavaScript null

(***************************************************************************)
(* The schema's defaults and the single row INSERTed by the constructor.   *)
(* A definition named Faulty_ is the one after it with a plausible         *)
(* mistake, against which the properties are tried.                        *)
(***************************************************************************)
Faulty_FreshStore ==
  [currentTerm       |-> 0,
   votedFor          |-> Nil,
   lastSnapshotIndex |-> 0,
   lastSnapshotTerm  |-> 0,
   log               |-> [n \in {} |-> Nil],
   snapshot          |-> <<>>]

FreshStore ==
  [currentTerm       |-> 0,
   votedFor          |-> Nil,
   lastSnapshotIndex |-> -1,
   lastSnapshotTerm  |-> -1,
   log               |-> [n \in {} |-> Nil],
   snapshot          |-> <<>>]

Rows(p) == DOMAIN p.log

(***************************************************************************)
(* Reads.  getEntry(n) is p.log[n], and null when n is not a row.          *)
(***************************************************************************)
lastIndex(p) == IF Rows(p) = {} THEN p.lastSnapshotIndex ELSE Max(Rows(p))

lastTerm(p) ==
  IF Rows(p) = {} THEN p.lastSnapshotTerm ELSE p.log[Max(Rows(p))].term

firstIndex(p) ==
  IF Rows(p) = {} THEN p.lastSnapshotIndex + 1 ELSE Min(Rows(p))

Select(p, keys) == [n \in Rows(p) \cap keys |-> p.log[n]]

getRange(p, fromIdx, toIdx) == Select(p, fromIdx .. toIdx)

(***************************************************************************)
(* Writes.                                                                 *)
(***************************************************************************)
saveTermAndVote(p, term, vote) ==
  [p EXCEPT !.currentTerm = term, !.votedFor = vote]

\* INSERT OR REPLACE of a batch: a row already there is overwritten, every
\* other row stays.
appendEntries(p, entries) ==
  [p EXCEPT !.log =
     [n \in Rows(p) \cup DOMAIN entries |->
        IF n \in DOMAIN entries THEN entries[n] ELSE p.log[n]]]

truncateFrom(p, fromIdx) ==
  [p EXCEPT !.log = Select(p, {n \in Rows(p) : n < fromIdx})]

truncateUpTo(p, toIdx) ==
  [p EXCEPT !.log = Select(p, {n \in Rows(p) : n > toIdx})]

truncateAll(p) == [p EXCEPT !.log = Select(p, {})]

Faulty_saveSnapshot(p, lastIncludedIndex, lastIncludedTerm, stateBlob) ==
  [p EXCEPT !.lastSnapshotTerm = lastIncludedTerm, !.snapshot = stateBlob]
saveSnapshot(p, lastIncludedIndex, lastIncludedTerm, stateBlob) ==
  [p EXCEPT !.lastSnapshotIndex = lastIncludedIndex,
            !.lastSnapshotTerm  = lastIncludedTerm,
            !.snapshot          = stateBlob]
=============================================================================
