---------------------------- MODULE MCReadIndex ----------------------------
(***************************************************************************)
(* A small cluster with reads for TLC, with the view of MCRaft.            *)
(***************************************************************************)
EXTENDS ReadIndex, TLC

Symmetry == Permutations(Server) \cup Permutations(Client)

awaited == {r \in voteReplies : role[r.dst] = Candidate /\ r.ballot = currentTerm[r.dst]}
View == <<volatile, disk, voteRequests, awaited, calls, bounds, decided, reads>>
=============================================================================
