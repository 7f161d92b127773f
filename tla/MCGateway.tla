----------------------------- MODULE MCGateway -----------------------------
(***************************************************************************)
(* Small instances of Gateway for TLC; tabs and replicas are               *)
(* interchangeable.                                                        *)
(***************************************************************************)
EXTENDS Gateway

Symmetry == Permutations(Server) \cup Permutations(Client)
=============================================================================
