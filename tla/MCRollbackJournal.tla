--------------------------- MODULE MCRollbackJournal ---------------------------
(* Instances of RollbackJournal for TLC. *)
EXTENDS RollbackJournal, TLC

CONSTANTS d1, d2, rootBat, newBat

MCData == {d1, d2}
MCBats == {rootBat, newBat}

\* Data blocks are interchangeable.
Symmetry == Permutations(MCData)
=============================================================================
