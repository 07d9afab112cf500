----------------------------- MODULE MCJournalIndex -----------------------------
(* Instances of JournalIndex for TLC. *)
EXTENDS JournalIndex

\* Every subset of six segments is an array, every segment is looked for in it,
\* and the differences fit the int.
MCSegments == 0 .. 5
=============================================================================
