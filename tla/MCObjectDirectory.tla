-------------------------- MODULE MCObjectDirectory --------------------------
(* Instances of ObjectDirectory for TLC. *)
EXTENDS ObjectDirectory, TLC

CONSTANTS b1, b2, b3, x, y

\* Names that share none, one and two characters, one of them with no more than the
\* character that leads to its block.
MCNames == {<<1, 1, 1>>, <<1, 1, 2>>, <<1, 2>>, <<2>>, <<3>>}

MCDataBlock == {b1, b2, b3}
MCContents == {x, y}

\* Blocks and contents are interchangeable.
Symmetry == Permutations(MCDataBlock) \cup Permutations(MCContents)
=============================================================================
