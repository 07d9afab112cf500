----------------------------- MODULE BlockChains -----------------------------
(***************************************************************************)
(* What the block allocator of an object-store volume promises its files:  *)
(* every file is a sequence of blocks, no block is in two places, and the  *)
(* only changes are that one free block is put at the end of one file and  *)
(* that one block is taken from the front of one file.                     *)
(***************************************************************************)
EXTENDS Naturals, Sequences

CONSTANTS
    Files,
    Blocks      \* blocks that can hold the data of a file

VARIABLE chain  \* the blocks of each file, in order

Range(s) == {s[i] : i \in DOMAIN s}

Used == UNION {Range(chain[f]) : f \in Files}

Init == chain = [f \in Files |-> <<>>]

Extend(f, b) ==
    /\ b \in Blocks \ Used
    /\ chain' = [chain EXCEPT ![f] = Append(@, b)]

Drop(f) ==
    /\ chain[f] # <<>>
    /\ chain' = [chain EXCEPT ![f] = Tail(@)]

Next == \E f \in Files : Drop(f) \/ \E b \in Blocks : Extend(f, b)

Spec == Init /\ [][Next]_chain
=============================================================================
