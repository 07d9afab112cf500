------------------------- MODULE VolumeFlusher_proofs -------------------------
(***************************************************************************)
(* Proofs about VolumeFlusher for any clients, slots and number of         *)
(* operations.  The safety properties hold without fairness.               *)
(***************************************************************************)
EXTENDS VolumeFlusher, TLAPS

\* While the flusher keeps the lock nothing changes a slot, so the flags it found
\* stay as they were, and after its flush there is none.
PassIsStable ==
    /\ fpc \in {"check", "flush", "clear", "release"} => dirty = {}
    /\ fpc \in {"clear", "release"} => dirty2 = {}

\* The exit handlers run after all calls, and no call begins after l.exited.
ExitIsLast ==
    /\ exited <=> xpc # "running"
    /\ exited => \A c \in Clients : cpc[c] = "idle"

\* The inductive invariant.
IInv ==
    /\ TypeOK
    /\ LockIsExclusive
    /\ PassIsStable
    /\ OwedIsFlagged
    /\ NoLostWake
    /\ ExitIsLast
    /\ ExitLeavesNothing

\* A step of the flusher keeps the invariant.  The pass from FlusherScan to
\* FlusherRelease runs under the lock, so it leaves nothing owed when it ends.
LEMMA FlusherSteps == IInv /\ Flusher => IInv'
<1> SUFFICES ASSUME IInv, Flusher PROVE IInv'
    OBVIOUS
<1> USE DEF IInv, TypeOK, FlusherPlaces, LockIsExclusive, HasLock, FlusherHasLock, PassIsStable,
            OwedIsFlagged, NoLostWake, ExitIsLast, ExitLeavesNothing, clientVars
<1>1. CASE FlusherStart   BY <1>1 DEF FlusherStart
<1>2. CASE FlusherTry     BY <1>2 DEF FlusherTry
<1>3. CASE FlusherScan    BY <1>3 DEF FlusherScan
<1>4. CASE FlusherNap     BY <1>4 DEF FlusherNap
<1>5. CASE FlusherCheck   BY <1>5 DEF FlusherCheck
<1>6. CASE FlusherFlush   BY <1>6 DEF FlusherFlush, Written
<1>7. CASE FlusherClear   BY <1>7 DEF FlusherClear
<1>8. CASE FlusherRelease BY <1>8 DEF FlusherRelease
<1>9. CASE FlusherWake    BY <1>9 DEF FlusherWake
<1> QED
    BY <1>1, <1>2, <1>3, <1>4, <1>5, <1>6, <1>7, <1>8, <1>9 DEF Flusher

\* A step of a client in its locked section, or to and from it, keeps the
\* invariant.  The flusher is not in its pass then, so PassIsStable is not at
\* stake, and a client that polishes is still going to.
LEMMA SectionSteps ==
    ASSUME NEW c \in Clients,
           IInv,
           Acquire(c) \/ Release(c) \/ FlushVolume(c)
               \/ \E s \in Slots : Change(c, s) \/ Evict(c, s)
    PROVE  IInv'
<1> USE DEF IInv, TypeOK, ClientPlaces, LockIsExclusive, HasLock, FlusherHasLock, PassIsStable,
            OwedIsFlagged, NoLostWake, ExitIsLast, ExitLeavesNothing, Goto
<1>1. CASE Acquire(c)
    <2>1. PICK place \in {"locked", "flushVolume"} :
              (place = "flushVolume" => cpc[c] = "idle") /\ Goto(c, place)
        BY <1>1 DEF Acquire
    <2>2. ops' \in 0 .. MaxOps
        BY <1>1, OpsAssumption DEF Acquire
    <2>3. TypeOK'
        BY <1>1, <2>1, <2>2 DEF Acquire
    <2>4. LockIsExclusive'
        BY <1>1, <2>1 DEF Acquire
    <2>5. NoLostWake'
        BY <1>1, <2>1 DEF Acquire
    <2> QED
        BY <1>1, <2>1, <2>3, <2>4, <2>5 DEF Acquire
<1>2. CASE Release(c)
    <2>1. LockIsExclusive'
        BY <1>2 DEF Release
    <2>2. NoLostWake'
        BY <1>2 DEF Release
    <2> QED
        BY <1>2, <2>1, <2>2 DEF Release
<1>3. CASE FlushVolume(c)
    <2>1. LockIsExclusive'
        BY <1>3 DEF FlushVolume, Written
    <2> QED
        BY <1>3, <2>1 DEF FlushVolume, Written
<1>4. CASE \E s \in Slots : Change(c, s)
    <2>1. PICK s \in Slots : Change(c, s)
        BY <1>4
    <2>2. ~FlusherHasLock /\ ~exited
        BY <2>1 DEF Change
    <2> QED
        BY <2>1, <2>2 DEF Change
<1>5. CASE \E s \in Slots : Evict(c, s)
    <2>1. PICK s \in Slots : Evict(c, s)
        BY <1>5
    <2>2. ~FlusherHasLock /\ ~exited
        BY <2>1 DEF Evict
    <2> QED
        BY <2>1, <2>2 DEF Evict, Written
<1> QED
    BY <1>1, <1>2, <1>3, <1>4, <1>5

\* Polishing keeps the invariant: while the flusher sleeps vol->flushing is
\* clear, so the client that polishes goes on to wake it.
LEMMA PolishSteps ==
    ASSUME NEW c \in Clients, IInv, Polish(c) \/ Wake(c)
    PROVE  IInv'
<1> USE DEF IInv, TypeOK, ClientPlaces, LockIsExclusive, HasLock, FlusherHasLock, PassIsStable,
            OwedIsFlagged, NoLostWake, ExitIsLast, ExitLeavesNothing, Goto
<1>1. CASE Polish(c)
    <2>1. LockIsExclusive'
        BY <1>1 DEF Polish
    <2>2. NoLostWake'
        BY <1>1 DEF Polish
    <2> QED
        BY <1>1, <2>1, <2>2 DEF Polish
<1>2. CASE Wake(c)
    <2>1. LockIsExclusive'
        BY <1>2 DEF Wake
    <2> QED
        BY <1>2, <2>1 DEF Wake
<1> QED
    BY <1>1, <1>2

\* A step of the exit handlers keeps the invariant: no client is in a call.
LEMMA ExitSteps == IInv /\ (Exit \/ Exiting) => IInv'
<1> SUFFICES ASSUME IInv, Exit \/ Exiting PROVE IInv'
    OBVIOUS
<1> USE DEF IInv, TypeOK, LockIsExclusive, HasLock, FlusherHasLock, PassIsStable,
            OwedIsFlagged, NoLostWake, ExitIsLast, ExitLeavesNothing
<1>1. CASE Exit        BY <1>1 DEF Exit
<1>2. CASE ExitAcquire BY <1>2 DEF ExitAcquire
<1>3. CASE ExitFlush   BY <1>3 DEF ExitFlush, Written
<1> QED
    BY <1>1, <1>2, <1>3 DEF Exiting

\* The invariant holds in every state.
THEOREM Invariance == Spec => []IInv
<1>1. Init => IInv
    <2> SUFFICES ASSUME Init PROVE IInv
        OBVIOUS
    <2>1. TypeOK
        <3>1. ops \in 0 .. MaxOps
            BY OpsAssumption DEF Init
        <3>2. cpc \in [Clients -> ClientPlaces]
            BY DEF Init, ClientPlaces
        <3> QED
            BY <3>1, <3>2 DEF Init, TypeOK, FlusherPlaces
    <2>2. LockIsExclusive
        BY DEF Init, LockIsExclusive, HasLock, FlusherHasLock
    <2>3. PassIsStable /\ OwedIsFlagged /\ NoLostWake /\ ExitIsLast /\ ExitLeavesNothing
        BY DEF Init, PassIsStable, OwedIsFlagged, NoLostWake, ExitIsLast, ExitLeavesNothing
    <2> QED
        BY <2>1, <2>2, <2>3 DEF IInv
<1>2. IInv /\ [Next]_vars => IInv'
    <2> SUFFICES ASSUME IInv, [Next]_vars PROVE IInv'
        OBVIOUS
    <2>1. CASE \E c \in Clients : Acquire(c) \/ Client(c)
        BY <2>1, SectionSteps, PolishSteps DEF Client
    <2>5. CASE \E c \in Clients, s \in Slots : Change(c, s) \/ Evict(c, s)
        BY <2>5, SectionSteps
    <2>2. CASE Flusher
        BY <2>2, FlusherSteps
    <2>3. CASE Exit \/ Exiting
        BY <2>3, ExitSteps
    <2>4. CASE UNCHANGED vars
        BY <2>4 DEF vars, IInv, TypeOK, LockIsExclusive, HasLock, FlusherHasLock, PassIsStable,
            OwedIsFlagged, NoLostWake, ExitIsLast, ExitLeavesNothing
    <2> QED
        BY <2>1, <2>2, <2>3, <2>4, <2>5 DEF Next
<1> QED
    BY <1>1, <1>2, PTL DEF Spec

\* The types, and vol->flushing against the place of the flusher.
THEOREM FlusherTyping == Spec => []TypeOK
BY Invariance, PTL DEF IInv

\* vol->lock admits one thread at a time, the exit handlers included.
THEOREM MutualExclusion == Spec => []LockIsExclusive
BY Invariance, PTL DEF IInv

\* The protocol between sack_vfs_os_polish_volume, which reads vol->flushing
\* without the lock, and volume_flusher, which resets it before it releases the
\* lock and sleeps, loses no wake.
THEOREM NoWakeIsLost == Spec => []NoLostWake
BY Invariance, PTL DEF IInv

\* No flag is lost between the flusher, the flushes and the clients.
THEOREM NoFlagIsLost == Spec => []OwedIsFlagged
BY Invariance, PTL DEF IInv

\* When the flush of flushVolumes has ended, no slot is left to be written.
THEOREM ExitFlushesAll == Spec => []ExitLeavesNothing
BY Invariance, PTL DEF IInv
=============================================================================
