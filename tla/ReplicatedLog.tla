--------------------------- MODULE ReplicatedLog ---------------------------
(***************************************************************************)
(* What the cluster promises to those who read a replica's state machine:  *)
(* there is one log that only grows, and what a replica has applied is a   *)
(* prefix of it.  A replica moves forward along the log; a step that       *)
(* reaches past its end extends it.  A replica that starts again falls     *)
(* back to a prefix of what it had, its last snapshot.                     *)
(***************************************************************************)
EXTENDS Sequences, Naturals

CONSTANT Server

VARIABLES
  log,    \* the entries decided so far
  views   \* views[i]: the entries replica i has applied

Extends(s, t) == Len(s) >= Len(t) /\ SubSeq(s, 1, Len(t)) = t

Init ==
  /\ log = <<>>
  /\ views = [i \in Server |-> <<>>]

Advance(i) ==
  /\ Len(views'[i]) > Len(views[i])
  /\ Extends(views'[i], views[i])
  /\ Extends(log', views'[i])
  /\ \/ log' = log
     \/ Extends(log', log) /\ log' = views'[i]

Recover(i) ==
  /\ Len(views'[i]) < Len(views[i])
  /\ Extends(views[i], views'[i])
  /\ log' = log

Next ==
  \E i \in Server :
    /\ Advance(i) \/ Recover(i)
    /\ \A j \in Server \ {i} : views'[j] = views[j]

Spec == Init /\ [][Next]_<<log, views>>
=============================================================================
