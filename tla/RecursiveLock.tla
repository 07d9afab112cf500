---------------------------- MODULE RecursiveLock ----------------------------
(***************************************************************************)
(* What a critical section promises: a thread may enter it when no other   *)
(* thread is inside, as often as it likes, and is inside until it has left *)
(* as often as it entered.                                                 *)
(***************************************************************************)
EXTENDS Naturals

CONSTANT Threads

VARIABLE
    held        \* how often each thread is inside

Init == held = [t \in Threads |-> 0]

Enter(t) ==
    /\ \A u \in Threads \ {t} : held[u] = 0
    /\ held' = [held EXCEPT ![t] = @ + 1]

Leave(t) ==
    /\ held[t] > 0
    /\ held' = [held EXCEPT ![t] = @ - 1]

Next == \E t \in Threads : Enter(t) \/ Leave(t)

Spec == Init /\ [][Next]_held

\* The code in the section is only run by a single thread.
SingleThread == \A t, u \in Threads : held[t] > 0 /\ held[u] > 0 => t = u
=============================================================================
