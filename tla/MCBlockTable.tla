---------------------------- MODULE MCBlockTable ----------------------------
(* Instances of BlockTable for TLC. *)
EXTENDS BlockTable, TLC

CONSTANTS f1, f2

MCFiles == {f1, f2}

\* The files are interchangeable.
Symmetry == Permutations(MCFiles)
=============================================================================
