---------------------------- MODULE StateMachine ----------------------------
(***************************************************************************)
(* replicas/raft/StateMachine.js: the canvas of one replica, as a record,  *)
(* and one operator per method; replicas/logHistory.js, which serves it.   *)
(*                                                                         *)
(* An op is Noop or a stroke [client, seq]; client = Nil is a stroke       *)
(* without an idempotency key.  What a stroke draws is left out.  The      *)
(* JavaScript Map of the dedupe table iterates in insertion order, so the  *)
(* table is a sequence, oldest key first.                                  *)
(*                                                                         *)
(* A definition named Faulty_ or Unbounded_ is the one after it with a     *)
(* plausible mistake, against which the properties are tried.              *)
(***************************************************************************)
EXTENDS Integers, Sequences, FiniteSets, SequencesExt

CONSTANTS
  Noop,              \* ENTRY_TYPE.NOOP
  Nil,               \* null and undefined
  dedupeMaxClients   \* the limit of the dedupe table

ASSUME DedupeAssumption == dedupeMaxClients \in Nat \ {0}

EmptyMachine == [strokes |-> <<>>, dedupe |-> <<>>, lastApplied |-> -1]

Keyed(op) == op.client # Nil

\* The dedupe entries of a client (at most one), with this or a later seq.
Faulty_Seen(sm, op) ==
  {n \in 1 .. Len(sm.dedupe) : sm.dedupe[n].client = op.client /\ sm.dedupe[n].seq > op.seq}
Seen(sm, op) ==
  {n \in 1 .. Len(sm.dedupe) : sm.dedupe[n].client = op.client /\ sm.dedupe[n].seq >= op.seq}

\* The index the dedupe table has for a stroke, Nil if it has none.
getDedupeIndex(sm, op) ==
  IF Seen(sm, op) = {} THEN Nil ELSE sm.dedupe[CHOOSE n \in Seen(sm, op) : TRUE].index

\* Map.delete; a client has at most one entry.
Without(dedupe, c) ==
  LET at == {n \in 1 .. Len(dedupe) : dedupe[n].client = c}
  IN  IF at = {} THEN dedupe ELSE RemoveAt(dedupe, CHOOSE n \in at : TRUE)

\* The key moves to the end of the table; beyond the limit the oldest one goes.
Faulty_touchDedupe(dedupe, op, index) ==
  IF \E n \in 1 .. Len(dedupe) : dedupe[n].client = op.client
  THEN [n \in 1 .. Len(dedupe) |->
          IF dedupe[n].client = op.client
          THEN [client |-> op.client, seq |-> op.seq, index |-> index] ELSE dedupe[n]]
  ELSE LET added == Append(dedupe, [client |-> op.client, seq |-> op.seq, index |-> index])
       IN  IF Len(added) > dedupeMaxClients THEN Tail(added) ELSE added
Unbounded_touchDedupe(dedupe, op, index) ==
  Append(Without(dedupe, op.client), [client |-> op.client, seq |-> op.seq, index |-> index])
touchDedupe(dedupe, op, index) ==
  LET moved == Append(Without(dedupe, op.client),
                      [client |-> op.client, seq |-> op.seq, index |-> index])
  IN  IF Len(moved) > dedupeMaxClients THEN Tail(moved) ELSE moved

\* An entry that was applied before, a NOOP, a duplicate, a stroke to draw.
apply(sm, index, op) ==
  IF index <= sm.lastApplied THEN sm
  ELSE IF op = Noop \/ (Keyed(op) /\ Seen(sm, op) # {})
  THEN [sm EXCEPT !.lastApplied = index]
  ELSE [strokes     |-> Append(sm.strokes, [index |-> index, op |-> op]),
        dedupe      |-> IF Keyed(op) THEN touchDedupe(sm.dedupe, op, index) ELSE sm.dedupe,
        lastApplied |-> index]

\* Array.filter: the elements of s at the positions K, in order.
Kept(s, K) ==
  LET kept[n \in 0 .. Len(s)] == IF n = 0 THEN <<>>
                                 ELSE IF n \in K THEN Append(kept[n - 1], s[n]) ELSE kept[n - 1]
  IN  kept[Len(s)]

getStrokesFrom(sm, fromIndex) ==
  Kept(sm.strokes, {n \in 1 .. Len(sm.strokes) : sm.strokes[n].index >= fromIndex})

getSnapshot(sm) == [strokes |-> sm.strokes, dedupe |-> sm.dedupe]

Faulty_restoreSnapshot(blob, lastIncludedIndex) ==
  [strokes |-> blob.strokes, dedupe |-> <<>>, lastApplied |-> lastIncludedIndex]
restoreSnapshot(blob, lastIncludedIndex) ==
  [strokes |-> blob.strokes, dedupe |-> blob.dedupe, lastApplied |-> lastIncludedIndex]

\* logHistory.js getLogEntries: the strokes of GET /log, up to the commit index.
Faulty_getLogEntries(sm, fromIndex, toIndex) ==
  LET s == getStrokesFrom(sm, fromIndex)
  IN  Kept(s, {n \in 1 .. Len(s) : s[n].index < toIndex})
getLogEntries(sm, fromIndex, toIndex) ==
  LET s == getStrokesFrom(sm, fromIndex)
  IN  Kept(s, {n \in 1 .. Len(s) : s[n].index <= toIndex})
=============================================================================
