--------------------------- MODULE MCRollbackReplay ---------------------------
(* Instances of RollbackReplay for TLC. *)
EXTENDS RollbackReplay, TLC

CONSTANTS d1, d2, d3, bat

MCData == {d1, d2, d3}
MCBats == {bat}

\* Data blocks are interchangeable.
Symmetry == Permutations(MCData)
=============================================================================
