------------------------------- MODULE MCRaft -------------------------------
(***************************************************************************)
(* Small clusters for TLC.  The replicas are interchangeable, and so are   *)
(* the clients: no definition of RaftNode tells two of them apart.         *)
(***************************************************************************)
EXTENDS RaftNode, TLC

Symmetry == Permutations(Server) \cup Permutations(Client)

\* Two states are one for TLC if they only differ in responses to a broadcast
\* whose candidate was elected, stepped down or started another one: nothing
\* waits for those (the guard of _startElection after its await), and no
\* property speaks of them.
awaited == {r \in voteReplies : role[r.dst] = Candidate /\ r.ballot = currentTerm[r.dst]}
View == <<volatile, disk, voteRequests, awaited, calls, bounds, decided>>
=============================================================================
