------------------------ MODULE CriticalSection_proofs ------------------------
(***************************************************************************)
(* Proofs about CriticalSection for any threads and bounds, when every     *)
(* caller of a try takes only 1 for an answer that lets it in.             *)
(***************************************************************************)
EXTENDS CriticalSection, FiniteSetTheorems, TLAPS

\* A thread between the exchange of dwUpdating and giving it up has it alone.
UpdatingIsExclusive ==
    \A t \in Threads :
        /\ pc[t] \in {"entering", "trying", "leaving"} => dwUpdating = t
        /\ found[t] # "none" => pc[t] \in {"entering", "trying", "leaving"}

\* So what it has read stays true.
FoundIsTrue ==
    \A t \in Threads :
        /\ found[t] = "free" => dwLocks = 0
        /\ found[t] = "mine" => dwThreadID = t
        /\ found[t] = "taken" => dwLocks # 0 /\ dwThreadID # t

\* Threads call enter within the bound and leave what they have entered.
CallsAreInBounds ==
    \A t \in Threads :
        /\ pc[t] \in Trying \cup Entering => held[t] < MaxDepth
        /\ pc[t] \in {"leave", "leaving"} => held[t] > 0

\* A thread that is inside does not wait.
WaitersAreOutside == \A t \in Threads : prior[t] # Nobody => dwThreadID # t

\* WaitersAreStacked, for a stack of any height.
Stacked ==
    /\ \A t \in Waiting : pc[t] \in Entering
    /\ \E n \in Nat : \E s \in [1 .. n -> Threads] : IsStack(n, s)

IInv ==
    /\ TypeOK
    /\ UpdatingIsExclusive
    /\ FoundIsTrue
    /\ CallsAreInBounds
    /\ HeldIsCounted
    /\ WaitersAreOutside
    /\ Stacked
    /\ NeverBreaks

LEMMA InitInv == Init => IInv
<1> SUFFICES ASSUME Init PROVE IInv
    OBVIOUS
<1> USE ThreadsAssumption, BoundAssumption, NamesAssumption DEF Init, Waiter, Trying, Entering, Leaving
<1>1. TypeOK BY DEF TypeOK
<1>2. UpdatingIsExclusive /\ FoundIsTrue /\ CallsAreInBounds
        /\ HeldIsCounted /\ WaitersAreOutside /\ NeverBreaks
    BY DEF UpdatingIsExclusive, FoundIsTrue, CallsAreInBounds, HeldIsCounted, WaitersAreOutside,
           NeverBreaks
<1>3. Stacked
    <2>1. Waiting = {} BY DEF Waiting
    <2> DEFINE s == [i \in 1 .. 0 |-> Nobody]
    <2>2. s \in [1 .. 0 -> Threads] /\ 1 .. 0 = {} OBVIOUS
    <2>3. IsStack(0, s) BY <2>1, <2>2 DEF IsStack
    <2> QED BY <2>1, <2>2, <2>3 DEF Stacked
<1> QED BY <1>1, <1>2, <1>3 DEF IInv

\* Every part of the invariant but the stack, step by step.  A step that relies on
\* what was read is taken by the thread that has dwUpdating.
Others ==
    /\ TypeOK /\ UpdatingIsExclusive /\ FoundIsTrue
    /\ CallsAreInBounds /\ HeldIsCounted /\ WaitersAreOutside

LEMMA OthersNext ==
    ASSUME OpenSpace = {}, IInv, NEW t \in Threads,
           CallEnter(t) \/ CallLeave(t) \/ Exchange(t) \/ Proceed(t)
    PROVE  Others'
<1> USE BoundAssumption, NamesAssumption
        DEF IInv, Others, TypeOK, UpdatingIsExclusive, FoundIsTrue, CallsAreInBounds, HeldIsCounted,
            WaitersAreOutside, fields, Waiter, Trying, Entering, Leaving, Goto, Answer, TakenAsEntered, BreakIf,
            DoneUpdating, Deciding
<1>1. CASE CallEnter(t)   BY <1>1 DEF CallEnter
<1>2. CASE CallLeave(t)   BY <1>2 DEF CallLeave
<1>3. CASE Exchange(t)    BY <1>3 DEF Exchange
<1>4. CASE TryIsBusy(t)   BY <1>4 DEF TryIsBusy
<1>5. CASE Look(t)        BY <1>5 DEF Look
<1>6. CASE Claim(t)       BY <1>6 DEF Claim
<1>7. CASE NotMyTurn(t)   BY <1>7 DEF NotMyTurn
<1>8. CASE EnterAgain(t)  BY <1>8 DEF EnterAgain
<1>9. CASE BeginWait(t)   BY <1>9 DEF BeginWait
<1>10. CASE WaitOn(t)     BY <1>10 DEF WaitOn
<1>11. CASE Sleep(t)      BY <1>11 DEF Sleep
<1>12. CASE Awake(t)      BY <1>12 DEF Awake
<1>13. CASE Release(t)    BY <1>13 DEF Release
<1>14. CASE Wake(t)       BY <1>14 DEF Wake
<1> QED
    BY <1>1, <1>2, <1>3, <1>4, <1>5, <1>6, <1>7, <1>8, <1>9, <1>10, <1>11, <1>12, <1>13, <1>14
    DEF Proceed, Decide

\* The height of the stack is 0 exactly if nobody waits.
LEMMA EmptyStack ==
    ASSUME NEW n \in Nat, NEW s \in [1 .. n -> Threads], IsStack(n, s)
    PROVE  /\ n = 0 <=> Waiting = {}
           /\ n = 0 <=> dwThreadWaiting = Nobody
           /\ n # 0 => dwThreadWaiting = s[n] /\ s[n] \in Waiting
<1>1. CASE n = 0 BY <1>1 DEF IsStack
<1>2. CASE n # 0
    <2>1. n \in 1 .. n BY <1>2
    <2>2. s[n] \in Waiting BY <2>1 DEF IsStack
    <2>3. dwThreadWaiting = s[n] BY <1>2 DEF IsStack
    <2>4. dwThreadWaiting # Nobody BY <2>1, <2>3, NamesAssumption
    <2> QED BY <1>2, <2>2, <2>3, <2>4
<1> QED BY <1>1, <1>2

\* A step that leaves prior and dwThreadWaiting alone leaves the stack alone.
LEMMA StackStays ==
    ASSUME Stacked, prior' = prior, dwThreadWaiting' = dwThreadWaiting,
           \A u \in Waiting : pc'[u] \in Entering
    PROVE  Stacked'
<1>1. Waiting' = Waiting BY DEF Waiting
<1>2. PICK n \in Nat : \E s \in [1 .. n -> Threads] : IsStack(n, s) BY DEF Stacked
<1>3. PICK s \in [1 .. n -> Threads] : IsStack(n, s) BY <1>2
<1>4. IsStack(n, s)' BY <1>1, <1>3 DEF IsStack
<1> QED BY <1>1, <1>4 DEF Stacked, Entering

\* BeginWait puts the thread on top.
LEMMA Push ==
    ASSUME TypeOK, Stacked, NEW t \in Threads, BeginWait(t)
    PROVE  Stacked'
<1> USE NamesAssumption DEF TypeOK, BeginWait
<1>1. PICK n \in Nat : \E s \in [1 .. n -> Threads] : IsStack(n, s) BY DEF Stacked
<1>2. PICK s \in [1 .. n -> Threads] : IsStack(n, s) BY <1>1
<1> DEFINE r == [i \in 1 .. n + 1 |-> IF i = n + 1 THEN t ELSE s[i]]
<1>3. t \notin Waiting /\ Waiting' = Waiting \cup {t} BY DEF Waiting, Nobody, Bottom
<1>4. r \in [1 .. n + 1 -> Threads] OBVIOUS
<1>5. Waiting' = {r[i] : i \in 1 .. n + 1}
    <2>1. Waiting = {s[i] : i \in 1 .. n} BY <1>2 DEF IsStack
    <2>2. \A i \in 1 .. n : i \in 1 .. n + 1 /\ r[i] = s[i] OBVIOUS
    <2>3. n + 1 \in 1 .. n + 1 /\ r[n + 1] = t OBVIOUS
    <2>4. \A i \in 1 .. n + 1 : i = n + 1 \/ i \in 1 .. n OBVIOUS
    <2>5. \A u \in Waiting' : \E i \in 1 .. n + 1 : u = r[i] BY <1>3, <2>1, <2>2, <2>3
    <2>6. \A i \in 1 .. n + 1 : r[i] \in Waiting' BY <1>3, <2>1, <2>2, <2>3, <2>4
    <2> HIDE DEF r
    <2> QED BY <2>5, <2>6
<1>6. \A i, j \in 1 .. n + 1 : r[i] = r[j] => i = j
    BY <1>2, <1>3 DEF IsStack
<1>7. \A i \in 1 .. n + 1 : prior'[r[i]] = IF i = 1 THEN Bottom ELSE r[i - 1]
    <2> SUFFICES ASSUME NEW i \in 1 .. n + 1 PROVE prior'[r[i]] = IF i = 1 THEN Bottom ELSE r[i - 1]
        OBVIOUS
    <2>1. CASE i = n + 1 BY <2>1, <1>2, EmptyStack DEF IsStack
    <2>2. CASE i # n + 1
        <3>1. i \in 1 .. n /\ r[i] = s[i] /\ s[i] # t BY <2>2, <1>2, <1>3 DEF IsStack
        <3>2. prior'[s[i]] = prior[s[i]] BY <3>1
        <3>3. prior[s[i]] = IF i = 1 THEN Bottom ELSE s[i - 1] BY <3>1, <1>2 DEF IsStack
        <3> QED BY <3>1, <3>2, <3>3
    <2> QED BY <2>1, <2>2
<1>8. dwThreadWaiting' = r[n + 1] OBVIOUS
<1> HIDE DEF r
<1>9. IsStack(n + 1, r)'
    <2>1. n + 1 # 0 OBVIOUS
    <2> QED BY <2>1, <1>5, <1>6, <1>7, <1>8 DEF IsStack
<1>10. \A u \in Waiting' : pc'[u] \in Entering
    BY <1>3 DEF Stacked, Answer, Goto, Entering
<1>11. n + 1 \in Nat OBVIOUS
<1> QED BY <1>4, <1>9, <1>10, <1>11 DEF Stacked, Entering

\* Claim takes the thread off the top, if it is on the stack at all, and finds no
\* thread that waits without a waiter.
LEMMA Pop ==
    ASSUME TypeOK, Stacked, NEW t \in Threads, Claim(t)
    PROVE  Stacked' /\ broken' = broken
<1> USE NamesAssumption DEF TypeOK, Claim
<1>1. PICK n \in Nat : \E s \in [1 .. n -> Threads] : IsStack(n, s) BY DEF Stacked
<1>2. PICK s \in [1 .. n -> Threads] : IsStack(n, s) BY <1>1
<1>3. Waiting' = Waiting \ {t} BY DEF Waiting
<1>4. broken' = broken BY <1>2, EmptyStack DEF BreakIf, Waiting
<1>5. \A u \in Waiting' : pc'[u] \in Entering
    BY <1>3 DEF Stacked, Answer, Goto, Entering, Waiting
<1>6. CASE t \notin Waiting
    <2>1. Waiting' = Waiting /\ dwThreadWaiting' = dwThreadWaiting
        BY <1>6, <1>2, <1>3, EmptyStack
    <2>2. \A u \in Waiting : prior'[u] = prior[u] BY <1>6
    <2>3. IsStack(n, s)' BY <2>1, <2>2, <1>2 DEF IsStack
    <2> QED BY <1>4, <1>5, <2>3 DEF Stacked, Entering
<1>7. CASE t \in Waiting
    <2>1. n # 0 /\ dwThreadWaiting = t /\ s[n] = t
        BY <1>7, <1>2, EmptyStack DEF Waiting
    <2> DEFINE r == [i \in 1 .. n - 1 |-> s[i]]
    <2>2. n - 1 \in Nat /\ r \in [1 .. n - 1 -> Threads] BY <2>1
    <2>3. \A i \in 1 .. n : s[i] = t <=> i = n BY <2>1, <1>2 DEF IsStack
    <2>4. Waiting' = {r[i] : i \in 1 .. n - 1}
        BY <2>1, <2>3, <1>2, <1>3 DEF IsStack
    <2>5. \A i, j \in 1 .. n - 1 : r[i] = r[j] => i = j BY <2>1, <1>2 DEF IsStack
    <2>6. \A i \in 1 .. n - 1 : prior'[r[i]] = IF i = 1 THEN Bottom ELSE r[i - 1]
        BY <2>1, <2>3, <1>2 DEF IsStack
    <2>7. dwThreadWaiting' = IF n - 1 = 0 THEN Nobody ELSE r[n - 1]
        BY <2>1, <1>2 DEF IsStack
    <2>8. IsStack(n - 1, r)' BY <2>4, <2>5, <2>6, <2>7 DEF IsStack
    <2> QED BY <1>4, <1>5, <2>2, <2>8 DEF Stacked, Entering
<1> QED BY <1>6, <1>7

\* The other steps move no waiter, and no DebugBreak is reached: what a thread
\* leaves is its own, and the waiter a thread keeps is below it.
LEMMA OtherStackSteps ==
    ASSUME IInv, NEW t \in Threads,
           CallEnter(t) \/ CallLeave(t) \/ Exchange(t) \/ TryIsBusy(t) \/ Look(t) \/ NotMyTurn(t)
               \/ EnterAgain(t) \/ WaitOn(t) \/ Sleep(t) \/ Awake(t) \/ Release(t) \/ Wake(t),
           ~EnterAgain(t) \/ pc[t] \in Trying \/ prior[t] = Nobody
    PROVE  Stacked' /\ broken' = broken
<1> USE NamesAssumption DEF Goto, Answer, DoneUpdating, fields
<1>0. TypeOK /\ Stacked BY DEF IInv
<1>1. prior' = prior /\ dwThreadWaiting' = dwThreadWaiting /\ broken' = broken
    <2>1. CASE WaitOn(t)
        <3>1. PICK n \in Nat : \E s \in [1 .. n -> Threads] : IsStack(n, s) BY <1>0 DEF Stacked
        <3>2. PICK s \in [1 .. n -> Threads] : IsStack(n, s) BY <3>1
        <3>3. ASSUME prior[t] # Nobody, dwThreadWaiting # t
              PROVE  dwThreadWaiting # Nobody /\ prior[t] # dwThreadWaiting
            <4>1. t \in Waiting BY <3>3 DEF Waiting
            <4>2. n # 0 /\ dwThreadWaiting = s[n] /\ dwThreadWaiting # Nobody
                BY <4>1, <3>2, EmptyStack
            <4>3. PICK i \in 1 .. n : t = s[i] BY <4>1, <3>2 DEF IsStack
            <4>4. CASE i = 1
                BY <4>2, <4>3, <4>4, <3>2 DEF IsStack
            <4>5. CASE i # 1
                <5>1. i - 1 \in 1 .. n /\ n \in 1 .. n /\ i - 1 # n BY <4>5
                <5>2. prior[t] = s[i - 1] BY <4>3, <4>5, <3>2 DEF IsStack
                <5> QED BY <5>1, <5>2, <4>2, <3>2 DEF IsStack
            <4> QED BY <4>4, <4>5
        <3>4. dwThreadWaiting = Nobody => prior[t] = Nobody
            BY <3>2, EmptyStack DEF Waiting
        <3> QED BY <2>1, <3>3, <3>4 DEF WaitOn, BreakIf
    <2>2. CASE Release(t)
        <3>1. found[t] = "mine"
            BY <2>2 DEF IInv, Release, CallsAreInBounds, HeldIsCounted, UpdatingIsExclusive,
                        FoundIsTrue, TypeOK
        <3> QED BY <2>2, <3>1 DEF Release, BreakIf
    <2> QED BY <2>1, <2>2 DEF CallEnter, CallLeave, Exchange, TryIsBusy, Look, NotMyTurn, EnterAgain,
                              Sleep, Awake, Wake
<1>2. \A u \in Waiting : pc'[u] \in Entering
    <2> SUFFICES ASSUME NEW u \in Waiting PROVE pc'[u] \in Entering
        OBVIOUS
    <2>1. u \in Threads /\ prior[u] # Nobody /\ pc[u] \in Entering BY <1>0 DEF Waiting, Stacked
    <2> QED BY <2>1, <1>0 DEF TypeOK, CallEnter, CallLeave, Exchange, TryIsBusy, Look, NotMyTurn,
            EnterAgain, WaitOn, Sleep, Awake, Release, Wake, Deciding, Entering, Trying
<1> QED BY <1>0, <1>1, <1>2, StackStays

\* The invariant is inductive when every caller of a try takes only 1 for entered.
LEMMA NextInv == OpenSpace = {} /\ IInv /\ [Next]_vars => IInv'
<1> SUFFICES ASSUME OpenSpace = {}, IInv, [Next]_vars PROVE IInv'
    OBVIOUS
<1>1. CASE UNCHANGED vars
    <2>1. prior' = prior /\ dwThreadWaiting' = dwThreadWaiting /\ pc' = pc
        BY <1>1 DEF vars, fields
    <2>2. Stacked' BY <2>1, StackStays DEF IInv, Stacked
    <2> QED BY <1>1, <2>2 DEF IInv, TypeOK, UpdatingIsExclusive, FoundIsTrue, CallsAreInBounds,
                              HeldIsCounted, WaitersAreOutside, NeverBreaks, vars, fields
<1>2. ASSUME NEW t \in Threads, CallEnter(t) \/ CallLeave(t) \/ Exchange(t) \/ Proceed(t)
      PROVE  IInv'
    <2>1. Others' BY <1>2, OthersNext
    <2>2. Stacked' /\ NeverBreaks'
        <3>1. CASE Claim(t) BY <3>1, Pop DEF IInv, NeverBreaks
        <3>2. CASE BeginWait(t) BY <3>2, Push DEF IInv, NeverBreaks, BeginWait
        <3>3. EnterAgain(t) => pc[t] \in Trying \/ prior[t] = Nobody
            BY DEF IInv, EnterAgain, Deciding, FoundIsTrue, WaitersAreOutside
        <3> QED BY <1>2, <3>1, <3>2, <3>3, OtherStackSteps DEF IInv, NeverBreaks, Proceed, Decide
    <2> QED BY <2>1, <2>2 DEF Others, IInv
<1> QED BY <1>1, <1>2 DEF Next

LEMMA SpecInv == ASSUME OpenSpace = {} PROVE Spec => []IInv
<1>1. Init => IInv BY InitInv
<1>2. IInv /\ [Next]_vars => IInv' BY NextInv
<1> QED BY <1>1, <1>2, PTL DEF Spec

\* Type correctness of the section and of its threads' frames.
THEOREM SectionTyping == ASSUME OpenSpace = {} PROVE Spec => []TypeOK
<1>1. IInv => TypeOK BY DEF IInv
<1> QED BY <1>1, SpecInv, PTL

\* The section's own count is what its threads have to leave, whoever they are and
\* however deep they are inside.
THEOREM CountIsHeld == ASSUME OpenSpace = {} PROVE Spec => []HeldIsCounted
<1>1. IInv => HeldIsCounted BY DEF IInv
<1> QED BY <1>1, SpecInv, PTL

\* The waiters' frames form one stack under dwThreadWaiting, for any number of them.
THEOREM StackOfWaiters == ASSUME OpenSpace = {} PROVE Spec => []WaitersAreStacked
<1>1. IInv => WaitersAreStacked
    <2> SUFFICES ASSUME IInv PROVE WaitersAreStacked
        OBVIOUS
    <2>1. PICK n \in Nat : \E s \in [1 .. n -> Threads] : IsStack(n, s) BY DEF IInv, Stacked
    <2>2. PICK s \in [1 .. n -> Threads] : IsStack(n, s) BY <2>1
    <2>3. n \in 0 .. Cardinality(Threads)
        <3>1. s \in Injection(1 .. n, Threads) BY <2>2 DEF IsStack, Injection, IsInjective
        <3>2. Cardinality(1 .. n) <= Cardinality(Threads) BY <3>1, FS_Injection, ThreadsAssumption
        <3>3. Cardinality(1 .. n) = n BY FS_Interval
        <3>4. Cardinality(Threads) \in Nat BY FS_CardinalityType, ThreadsAssumption
        <3> QED BY <3>2, <3>3, <3>4
    <2>4. \A t \in Waiting : pc[t] \in Entering BY DEF IInv, Stacked
    <2> QED BY <2>2, <2>3, <2>4 DEF WaitersAreStacked
<1> QED BY <1>1, SpecInv, PTL

\* None of the code's DebugBreaks is ever reached.
THEOREM DebugBreaksAreUnreachable == ASSUME OpenSpace = {} PROVE Spec => []NeverBreaks
<1>1. IInv => NeverBreaks BY DEF IInv
<1> QED BY <1>1, SpecInv, PTL

\* A step of a thread is a step of the abstract lock or leaves it alone.
LEMMA StepIsLockStep ==
    ASSUME OpenSpace = {}, IInv, NEW t \in Threads,
           CallEnter(t) \/ CallLeave(t) \/ Exchange(t) \/ Proceed(t)
    PROVE  [Lock!Next]_held
<1> USE DEF IInv, TypeOK, FoundIsTrue, CallsAreInBounds, HeldIsCounted, UpdatingIsExclusive,
            Answer, TakenAsEntered, Deciding, Trying, Entering
<1>1. CASE Claim(t)
    <2>1. Lock!Enter(t) BY <1>1 DEF Claim, Lock!Enter
    <2> QED BY <2>1 DEF Lock!Next
<1>2. CASE EnterAgain(t)
    <2>1. Lock!Enter(t) BY <1>2 DEF EnterAgain, Lock!Enter
    <2> QED BY <2>1 DEF Lock!Next
<1>3. CASE Release(t)
    <2>1. Lock!Leave(t) BY <1>3 DEF Release, Lock!Leave
    <2> QED BY <2>1 DEF Lock!Next
<1>4. CASE CallEnter(t) \/ CallLeave(t) \/ Exchange(t) \/ TryIsBusy(t) \/ Look(t) \/ NotMyTurn(t)
             \/ BeginWait(t) \/ WaitOn(t) \/ Sleep(t) \/ Awake(t) \/ Wake(t)
    BY <1>4 DEF CallEnter, CallLeave, Exchange, TryIsBusy, Look, NotMyTurn, BeginWait, WaitOn, Sleep,
                Awake, Wake
<1> QED BY <1>1, <1>2, <1>3, <1>4 DEF Proceed, Decide

\* The critical section is a recursive lock: no thread enters beside another one.
THEOREM SectionImplementsLock == ASSUME OpenSpace = {} PROVE Spec => ImplementsLock
<1>1. Init => Lock!Init BY DEF Init, Lock!Init
<1>2. IInv /\ [Next]_vars => [Lock!Next]_held
    <2> SUFFICES ASSUME IInv, [Next]_vars PROVE [Lock!Next]_held
        OBVIOUS
    <2>1. CASE UNCHANGED vars BY <2>1 DEF vars
    <2>2. CASE Next BY <2>2, StepIsLockStep DEF Next
    <2> QED BY <2>1, <2>2
<1> QED BY <1>1, <1>2, SpecInv, PTL DEF Spec, ImplementsLock, Lock!Spec
=============================================================================
