--------------------------- MODULE CriticalSection ---------------------------
(***************************************************************************)
(* EnterCriticalSecEx, EnterCriticalSecNoWaitEx and LeaveCriticalSecEx of   *)
(* src/src/sack/sack.cc: the recursive lock every other part of the         *)
(* library is built on (the portable one, not Windows' own).                *)
(*                                                                         *)
(* The fields are looked at and changed by the thread that has exchanged   *)
(* dwUpdating for 1.  A thread that finds the section taken puts itself    *)
(* into dwThreadWaiting and keeps what was there in a local variable,       *)
(* prior, so that the waiting threads form a stack linked through their    *)
(* own frames.  It then sleeps until it is woken, for 25 ms at most, and   *)
(* tries again.  The one field read without dwUpdating is dwThreadID,      *)
(* before the sleep.                                                        *)
(***************************************************************************)
EXTENDS Integers, FiniteSets

CONSTANTS
    Threads,
    OpenSpace,  \* threads that use the answer of a try like OpenSpaceExx does
    MaxDepth,   \* bound: sections of a thread, one in the other
    MaxEnters   \* bound: calls to enter of a behaviour

ASSUME ThreadsAssumption == IsFiniteSet(Threads) /\ OpenSpace \subseteq Threads
ASSUME BoundAssumption == MaxDepth \in Nat /\ MaxEnters \in Nat

\* Values of thread identifiers that no thread has: 0 and 1.
Nobody == "nobody"
Bottom == "bottom"
ASSUME NamesAssumption == Nobody \notin Threads /\ Bottom \notin Threads

VARIABLES
    dwUpdating,         \* who has exchanged it, where the code has 1
    dwLocks,
    dwThreadID,
    dwThreadWaiting,
    found,              \* what each thread has read of the fields under dwUpdating
    prior,              \* of each thread's EnterCriticalSecEx
    pc,                 \* where each thread is
    waking,             \* dwWaiting of each thread's LeaveCriticalSecEx
    held,               \* sections each thread has to leave, as its code believes
    enters,             \* calls to enter so far
    broken              \* threads that reached a DebugBreak

fields == <<dwLocks, dwThreadID, dwThreadWaiting>>
vars == <<dwUpdating, fields, found, prior, pc, waking, held, enters, broken>>

Waiter == Threads \cup {Nobody, Bottom}

\* "run" is the caller's code.
Trying == {"try", "trying"}
Entering == {"enter", "entering", "refused", "asleep"}
Leaving == {"leave", "leaving", "wake"}

TypeOK ==
    /\ dwUpdating \in Threads \cup {Nobody}
    /\ dwLocks \in Nat
    /\ dwThreadID \in Threads \cup {Nobody}
    /\ dwThreadWaiting \in Threads \cup {Nobody}
    /\ found \in [Threads -> {"none", "free", "mine", "taken"}]
    /\ prior \in [Threads -> Waiter]
    /\ pc \in [Threads -> {"run"} \cup Trying \cup Entering \cup Leaving]
    /\ waking \in [Threads -> Threads \cup {Nobody}]
    /\ held \in [Threads -> 0 .. MaxDepth]
    /\ enters \in 0 .. MaxEnters
    /\ broken \subseteq Threads

\* InitializeCriticalSec.
Init ==
    /\ dwUpdating = Nobody /\ dwLocks = 0
    /\ dwThreadID = Nobody /\ dwThreadWaiting = Nobody
    /\ found = [t \in Threads |-> "none"]
    /\ prior = [t \in Threads |-> Nobody]
    /\ pc = [t \in Threads |-> "run"]
    /\ waking = [t \in Threads |-> Nobody]
    /\ held = [t \in Threads |-> 0]
    /\ enters = 0
    /\ broken = {}

Goto(t, p) == pc' = [pc EXCEPT ![t] = p]

\* The caller of a try that got the answer d goes on as if it were inside.
TakenAsEntered(t, d) == IF t \in OpenSpace THEN d # 0 ELSE d = 1

\* EnterCriticalSecNoWaitEx returns d.  EnterCriticalSecEx goes on if it is 0, the
\* caller of a try gets it whatever it is.
Answer(t, d) ==
    /\ Goto(t, IF d = 0 /\ pc[t] \in Entering THEN "refused" ELSE "run")
    /\ held' = IF d = 1 \/ (pc[t] \in Trying /\ TakenAsEntered(t, d))
               THEN [held EXCEPT ![t] = @ + 1] ELSE held
-----------------------------------------------------------------------------
\* A thread calls EnterCriticalSecEx or tries to enter.
CallEnter(t) ==
    /\ pc[t] = "run" /\ held[t] < MaxDepth /\ enters < MaxEnters
    /\ enters' = enters + 1
    /\ \E p \in {"enter", "try"} : Goto(t, p)
    /\ UNCHANGED <<dwUpdating, fields, found, prior, waking, held, broken>>

\* mutant: the answer of the XCHG is not looked at.
ExchangeUnchecked(t) ==
    /\ pc[t] \in {"enter", "try", "leave"}
    /\ dwUpdating' = t
    /\ Goto(t, CASE pc[t] = "enter" -> "entering" [] pc[t] = "try" -> "trying"
                 [] pc[t] = "leave" -> "leaving")
    /\ UNCHANGED <<fields, found, prior, waking, held, enters, broken>>

\* XCHG of dwUpdating succeeds.
Exchange(t) ==
    /\ pc[t] \in {"enter", "try", "leave"}
    /\ dwUpdating = Nobody
    /\ dwUpdating' = t
    /\ Goto(t, CASE pc[t] = "enter" -> "entering" [] pc[t] = "try" -> "trying"
                 [] pc[t] = "leave" -> "leaving")
    /\ UNCHANGED <<fields, found, prior, waking, held, enters, broken>>

\* XCHG finds it taken: -1.  The other two calls relinquish and try again.
TryIsBusy(t) ==
    /\ pc[t] = "try"
    /\ dwUpdating # Nobody
    /\ Answer(t, -1)
    /\ UNCHANGED <<dwUpdating, fields, found, prior, waking, enters, broken>>

\* Who has the section is read first; what follows relies on it.
Look(t) ==
    /\ pc[t] \in {"entering", "trying", "leaving"} /\ found[t] = "none"
    /\ found' = [found EXCEPT ![t] = IF dwLocks = 0 THEN "free"
                                     ELSE IF dwThreadID = t THEN "mine" ELSE "taken"]
    /\ UNCHANGED <<dwUpdating, fields, prior, pc, waking, held, enters, broken>>

\* dwUpdating is given up, and with it what was read.
DoneUpdating(t) ==
    /\ dwUpdating' = Nobody
    /\ found' = [found EXCEPT ![t] = "none"]

BreakIf(t, test) == broken' = IF test THEN broken \cup {t} ELSE broken

Deciding(t, what) == pc[t] \in {"entering", "trying"} /\ found[t] = what

\* mutant: the mark of the first waiter is taken for a waiter.
ClaimForBottom(t) ==
    /\ Deciding(t, "free")
    /\ dwThreadWaiting \notin {t, Nobody} => prior[t] = Nobody
    /\ dwThreadWaiting' = IF dwThreadWaiting # t THEN dwThreadWaiting ELSE prior[t]
    /\ prior' = [prior EXCEPT ![t] = Nobody]
    /\ BreakIf(t, dwThreadWaiting = Nobody /\ prior[t] \notin {Nobody, Bottom})
    /\ dwThreadID' = t /\ dwLocks' = 1
    /\ DoneUpdating(t)
    /\ Answer(t, 1)
    /\ UNCHANGED <<waking, enters>>

\* mutant: a thread that waits is let in whoever's turn it is.
ClaimOutOfTurn(t) ==
    /\ Deciding(t, "free")
    /\ dwThreadWaiting' = IF dwThreadWaiting # t THEN dwThreadWaiting
                          ELSE IF prior[t] = Bottom THEN Nobody ELSE prior[t]
    /\ prior' = [prior EXCEPT ![t] = Nobody]
    /\ BreakIf(t, dwThreadWaiting = Nobody /\ prior[t] \notin {Nobody, Bottom})
    /\ dwThreadID' = t /\ dwLocks' = 1
    /\ DoneUpdating(t)
    /\ Answer(t, 1)
    /\ UNCHANGED <<waking, enters>>

\* The section is free, and nobody waits, or this thread is the last that began to
\* wait, or it has just come: it claims the section.
Claim(t) ==
    /\ Deciding(t, "free")
    /\ dwThreadWaiting \notin {t, Nobody} => prior[t] = Nobody
    /\ dwThreadWaiting' = IF dwThreadWaiting # t THEN dwThreadWaiting
                          ELSE IF prior[t] = Bottom THEN Nobody ELSE prior[t]
    /\ prior' = [prior EXCEPT ![t] = Nobody]
    /\ BreakIf(t, dwThreadWaiting = Nobody /\ prior[t] \notin {Nobody, Bottom})
    /\ dwThreadID' = t /\ dwLocks' = 1
    /\ DoneUpdating(t)
    /\ Answer(t, 1)
    /\ UNCHANGED <<waking, enters>>

\* The section is free but it is another waiter's turn.
NotMyTurn(t) ==
    /\ Deciding(t, "free")
    /\ dwThreadWaiting \notin {t, Nobody} /\ prior[t] # Nobody
    /\ DoneUpdating(t)
    /\ Answer(t, 0)
    /\ UNCHANGED <<fields, prior, waking, enters, broken>>

\* The thread is inside already.
EnterAgain(t) ==
    /\ Deciding(t, "mine")
    /\ dwLocks' = dwLocks + 1
    /\ DoneUpdating(t)
    /\ Answer(t, 1)
    /\ UNCHANGED <<dwThreadID, dwThreadWaiting, prior, waking, enters, broken>>

\* mutant: the waiter before this one is not kept.
BeginWaitAlone(t) ==
    /\ Deciding(t, "taken") /\ pc[t] = "entering"
    /\ prior[t] = Nobody /\ dwThreadWaiting # t
    /\ prior' = [prior EXCEPT ![t] = Bottom]
    /\ dwThreadWaiting' = t
    /\ DoneUpdating(t)
    /\ Answer(t, 0)
    /\ UNCHANGED <<dwLocks, dwThreadID, waking, enters, broken>>

\* Another thread is inside: this one becomes the waiter, on top of the last one.
BeginWait(t) ==
    /\ Deciding(t, "taken") /\ pc[t] = "entering"
    /\ prior[t] = Nobody /\ dwThreadWaiting # t
    /\ prior' = [prior EXCEPT ![t] = IF dwThreadWaiting = Nobody THEN Bottom ELSE dwThreadWaiting]
    /\ dwThreadWaiting' = t
    /\ DoneUpdating(t)
    /\ Answer(t, 0)
    /\ UNCHANGED <<dwLocks, dwThreadID, waking, enters, broken>>

\* It waits already, or has no prior to keep a waiter in.  The two DebugBreaks: no
\* waiter is left, or the waiter is the one this thread keeps.
WaitOn(t) ==
    /\ Deciding(t, "taken")
    /\ pc[t] = "trying" \/ prior[t] # Nobody \/ dwThreadWaiting = t
    /\ LET lost == pc[t] = "entering" /\ prior[t] # Nobody /\ dwThreadWaiting = Nobody
           twice == /\ pc[t] = "entering" /\ prior[t] # Nobody /\ dwThreadWaiting # t
                    /\ prior[t] = dwThreadWaiting
       IN  /\ BreakIf(t, lost \/ twice)
           /\ dwThreadWaiting' = IF lost THEN t ELSE dwThreadWaiting
           /\ prior' = IF twice THEN [prior EXCEPT ![t] = Nobody] ELSE prior
    /\ DoneUpdating(t)
    /\ Answer(t, 0)
    /\ UNCHANGED <<dwLocks, dwThreadID, waking, enters>>
-----------------------------------------------------------------------------
\* EnterCriticalSecEx, after 0: it sleeps if somebody is inside, as far as a look
\* without dwUpdating can tell.
Sleep(t) ==
    /\ pc[t] = "refused"
    /\ Goto(t, IF dwThreadID = Nobody THEN "enter" ELSE "asleep")
    /\ UNCHANGED <<dwUpdating, fields, found, prior, waking, held, enters, broken>>

\* mutant: the sleep has no limit.
AwakeIfWoken(t) == FALSE

\* The 25 ms are over, or an early wake was remembered.
Awake(t) ==
    /\ pc[t] = "asleep"
    /\ Goto(t, "enter")
    /\ UNCHANGED <<dwUpdating, fields, found, prior, waking, held, enters, broken>>

\* A thread calls LeaveCriticalSecEx.
CallLeave(t) ==
    /\ pc[t] = "run" /\ held[t] > 0
    /\ Goto(t, "leave")
    /\ UNCHANGED <<dwUpdating, fields, found, prior, waking, held, enters, broken>>

\* It has exchanged dwUpdating.  The waiter is looked at before dwUpdating is given
\* up, and stays in its place.  LeaveCriticalSecNoWakeEx wakes nobody.
Release(t) ==
    LET mine == found[t] = "mine"
        last == mine /\ dwLocks = 1
    IN  /\ pc[t] = "leaving" /\ found[t] # "none"
        /\ held' = [held EXCEPT ![t] = @ - 1]
        /\ DoneUpdating(t)
        /\ BreakIf(t, ~mine)
        /\ dwLocks' = IF mine THEN dwLocks - 1 ELSE dwLocks
        /\ dwThreadID' = IF last THEN Nobody ELSE dwThreadID
        /\ \/ last /\ waking' = [waking EXCEPT ![t] = dwThreadWaiting] /\ Goto(t, "wake")
           \/ UNCHANGED waking /\ Goto(t, "run")
        /\ UNCHANGED <<dwThreadWaiting, prior, enters>>

\* WakeNamedThreadSleeperEx of the waiter that was seen, if there was one.
Wake(t) ==
    /\ pc[t] = "wake"
    /\ pc' = [u \in Threads |-> IF u = t THEN "run"
                                ELSE IF u = waking[t] /\ pc[u] = "asleep" THEN "enter" ELSE pc[u]]
    /\ waking' = [waking EXCEPT ![t] = Nobody]
    /\ UNCHANGED <<dwUpdating, fields, found, prior, held, enters, broken>>

Decide(t) ==
    Claim(t) \/ NotMyTurn(t) \/ EnterAgain(t) \/ BeginWait(t) \/ WaitOn(t)

\* The steps of a call in progress that wait for nothing.
Proceed(t) == TryIsBusy(t) \/ Look(t) \/ Decide(t) \/ Sleep(t) \/ Awake(t) \/ Release(t) \/ Wake(t)

Next == \E t \in Threads : CallEnter(t) \/ CallLeave(t) \/ Exchange(t) \/ Proceed(t)

Spec == Init /\ [][Next]_vars

\* A thread in a call is scheduled, and its sleep ends.  dwUpdating is held for a few
\* instructions, so a thread that tries again and again gets it.  Callers leave.
Fairness ==
    \A t \in Threads :
        WF_vars(Proceed(t)) /\ WF_vars(CallLeave(t)) /\ SF_vars(Exchange(t))

FairSpec == Spec /\ Fairness
-----------------------------------------------------------------------------
\* The threads whose frame is on the stack of waiters.
Waiting == {t \in Threads : prior[t] # Nobody}

\* s lists the waiting threads, the first that came first: each keeps the one
\* before it, and dwThreadWaiting is the last.
IsStack(n, s) ==
    /\ Waiting = {s[i] : i \in 1 .. n}
    /\ \A i, j \in 1 .. n : s[i] = s[j] => i = j
    /\ \A i \in 1 .. n : prior[s[i]] = IF i = 1 THEN Bottom ELSE s[i - 1]
    /\ dwThreadWaiting = IF n = 0 THEN Nobody ELSE s[n]

\* The waiters form one stack, from dwThreadWaiting through every waiting thread
\* once to the bottom: no thread is lost from it when threads come, barge in, wake
\* out of turn or leave (prior against dwThreadWaiting in EnterCriticalSecNoWaitEx).
WaitersAreStacked ==
    /\ \A t \in Waiting : pc[t] \in Entering
    /\ \E n \in 0 .. Cardinality(Threads) : \E s \in [1 .. n -> Threads] : IsStack(n, s)

\* dwThreadID and dwLocks are who is inside and how often: what a thread has to leave
\* is what the section counts, whichever way it entered.
HeldIsCounted ==
    /\ held = [t \in Threads |-> IF t = dwThreadID THEN dwLocks ELSE 0]
    /\ dwThreadID = Nobody <=> dwLocks = 0

\* The code's own checks: no waiter without a turn, none twice, no leave of a section
\* of another thread (the DebugBreaks of enter and leave).
NeverBreaks == broken = {}

\* Every EnterCriticalSecEx comes back: no waiter sleeps for ever beside a free
\* section (the 25 ms of EnterCriticalSecEx against LeaveCriticalSecNoWakeEx).
EntersReturn == \A t \in Threads : pc[t] \in Entering ~> pc[t] = "run"

Lock == INSTANCE RecursiveLock

\* The section is a recursive lock: whoever comes in finds no other thread inside.
ImplementsLock == Lock!Spec

\* The code between enter and leave is only run by a single thread (sack.cc, where
\* EnterCriticalSec is described).
SingleThread == Lock!SingleThread
=============================================================================
