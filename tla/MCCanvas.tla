------------------------------ MODULE MCCanvas ------------------------------
(***************************************************************************)
(* Small instances of Canvas for TLC; replicas and clients are             *)
(* interchangeable.                                                        *)
(***************************************************************************)
EXTENDS Canvas, TLC

Symmetry == Permutations(Server) \cup Permutations(Client)
=============================================================================
