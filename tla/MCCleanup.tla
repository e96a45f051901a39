---------------------------- MODULE MCCleanup ----------------------------
(***************************************************************************)
(* An instance of Cleanup for TLC: transactions write deletion files, whose*)
(* listing depends on what is kept and on nothing else.                    *)
(***************************************************************************)
EXTENDS Cleanup, TLC

CONSTANTS base, t1, t2, c1, c2

KindOf   == [f \in Files |-> IF f = base THEN "data" ELSE "deletion"]
Symmetry == Permutations(Cleaners) \cup Permutations(Txns)
=============================================================================
