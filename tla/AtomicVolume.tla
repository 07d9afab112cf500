----------------------------- MODULE AtomicVolume -----------------------------
(***************************************************************************)
(* What the journal promises about the blocks of a volume: there is one    *)
(* content that a load after a crash brings back, the program changes      *)
(* blocks in a working copy, and a checkpoint replaces the one by the      *)
(* other, all blocks at once.                                              *)
(***************************************************************************)
EXTENDS Naturals

CONSTANTS Blocks, Contents

VARIABLES stored, working

Init ==
    /\ stored \in [Blocks -> Contents]
    /\ working = stored

Change(b) ==
    /\ working' \in [Blocks -> Contents]
    /\ \A a \in Blocks \ {b} : working'[a] = working[a]
    /\ UNCHANGED stored

Checkpoint ==
    /\ stored' = working
    /\ UNCHANGED working

Next == Checkpoint \/ \E b \in Blocks : Change(b)

Spec == Init /\ [][Next]_<<stored, working>>
=============================================================================
