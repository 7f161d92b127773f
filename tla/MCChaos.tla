------------------------------ MODULE MCChaos ------------------------------
(***************************************************************************)
(* Small instances of Chaos for TLC; the replicas are interchangeable.     *)
(***************************************************************************)
EXTENDS Chaos, TLC

Symmetry == Permutations(Node)
=============================================================================
