----------------------------- MODULE NamedObjects -----------------------------
(***************************************************************************)
(* What an object-store volume promises its callers about names: a name    *)
(* has the content it was given last, or none, and a call for one name     *)
(* changes no other (sack_vfs_os in src/src/sack/sack.cc).                 *)
(***************************************************************************)
CONSTANTS
    Names,
    Contents,
    Absent      \* what a name has that is not there; none of Contents

VARIABLE stored

Init == stored = [n \in Names |-> Absent]

\* What a call makes of s: one name is written or removed.
After(s) == {[s EXCEPT ![n] = v] : n \in Names, v \in Contents \cup {Absent}}

Next == stored' \in After(stored)

Spec == Init /\ [][Next]_stored
=============================================================================
