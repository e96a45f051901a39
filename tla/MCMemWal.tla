------------------------------ MODULE MCMemWal ------------------------------
(***************************************************************************)
(* Instances of MemWal for TLC.                                            *)
(***************************************************************************)
EXTENDS MemWal, TLC

Symmetry == Permutations(Writers)
=============================================================================
