------------------------------- MODULE MCLog -------------------------------
(***************************************************************************)
(* Log for TLC.                                                            *)
(***************************************************************************)
EXTENDS Log, TLC

Symmetry == Permutations(Op) \cup Permutations(Block)
=============================================================================
