----------------------------- MODULE VolumeFlusher -----------------------------
(***************************************************************************)
(* Who writes the changed cache slots of an object-store volume, and when  *)
(* (sack_vfs_os in src/src/sack/sack.cc).                                   *)
(*                                                                         *)
(* Operations change slots under the spin lock vol->lock.  A caller that   *)
(* has finished polishes the volume: it wakes the volume's flusher thread  *)
(* unless vol->flushing says the flusher is awake.  The flusher waits for  *)
(* a pass that finds no change, writes what earlier passes found, and      *)
(* sleeps for as long as nobody wakes it.  A wake is remembered by the     *)
(* sleeper's semaphore, so it may come before the sleep.  When the process *)
(* exits, flushVolumes tells the flusher and flushes the volume itself.    *)
(***************************************************************************)
EXTENDS Naturals

CONSTANTS
    Clients,    \* threads that operate on the volume
    Silent,     \* those whose operation does not polish (createIndex, setTime)
    Slots,      \* cache slots below BC(ROLLBACK)
    MayExit,    \* whether the process may exit
    MaxOps      \* bound: locked sections the clients run in a behaviour

ASSUME ClientsAssumption == Silent \subseteq Clients
ASSUME ExitAssumption == MayExit \in BOOLEAN
ASSUME OpsAssumption == MaxOps \in Nat

VARIABLES
    lock,       \* vol->lock
    dirty,      \* vol->dirty: changed since the flusher's last pass
    dirty2,     \* vol->_dirty: found changed by an earlier pass
    flushing,   \* vol->flushing: the flusher is awake
    exited,     \* l.exited
    token,      \* a wake of the flusher has not been slept off
    cpc,        \* where each client is
    fpc,        \* where the flusher is
    xpc,        \* where the thread that runs the exit handlers is
    owed,       \* ghost: slots changed by clients that polish, not yet written
    ops         \* locked sections begun

vars == <<lock, dirty, dirty2, flushing, exited, token, cpc, fpc, xpc, owed, ops>>

\* A client is outside, holds the lock, has released it with its call not yet
\* finished, or has found the flusher not awake.
ClientPlaces == {"idle", "locked", "flushVolume", "unlocked", "wake"}

FlusherPlaces ==
    {"start", "try", "scan", "busy", "nap", "check", "flush", "clear", "release", "sleep", "done"}

TypeOK ==
    /\ lock \in BOOLEAN
    /\ dirty \subseteq Slots /\ dirty2 \subseteq Slots /\ owed \subseteq Slots
    /\ flushing \in BOOLEAN /\ exited \in BOOLEAN /\ token \in BOOLEAN
    /\ cpc \in [Clients -> ClientPlaces]
    /\ fpc \in FlusherPlaces
    /\ fpc \in {"start", "release", "sleep"} => ~flushing
    /\ fpc \in {"try", "scan", "busy", "nap", "check", "flush", "clear"} => flushing
    /\ xpc \in {"running", "flush", "locked", "done"}
    /\ ops \in 0 .. MaxOps

\* The volume has been loaded: _os_ValidateBAT polished it, so the thread exists.
Init ==
    /\ lock = FALSE
    /\ dirty = {} /\ dirty2 = {} /\ owed = {}
    /\ flushing = FALSE /\ exited = FALSE /\ token = FALSE
    /\ cpc = [c \in Clients |-> "idle"]
    /\ fpc = "start"
    /\ xpc = "running"
    /\ ops = 0

Goto(c, place) == cpc' = [cpc EXCEPT ![c] = place]

\* Every changed slot of S is written, and neither flag is left on it.
Written(S) ==
    /\ dirty' = dirty \ S
    /\ dirty2' = dirty2 \ S
    /\ owed' = owed \ S
-----------------------------------------------------------------------------
\* LockedExchange( &vol->lock, 1 ) returned 0.  A call of the addon may run
\* several locked sections (fileWrite: truncate, write, close) before it polishes.
Acquire(c) ==
    /\ cpc[c] \in {"idle", "unlocked"}
    /\ ~exited
    /\ ops < MaxOps
    /\ ~lock
    /\ lock' = TRUE
    /\ ops' = ops + 1
    /\ \E place \in {"locked", "flushVolume"} :
           /\ place = "flushVolume" => cpc[c] = "idle"
           /\ Goto(c, place)
    /\ UNCHANGED <<dirty, dirty2, flushing, exited, token, fpc, xpc, owed>>

\* The section smudges a slot (and records it in the journal, see RollbackJournal).
Change(c, s) ==
    /\ cpc[c] = "locked"
    /\ dirty' = dirty \cup {s}
    /\ owed' = IF c \in Silent THEN owed ELSE owed \cup {s}
    /\ UNCHANGED <<lock, dirty2, flushing, exited, token, cpc, fpc, xpc, ops>>

\* The section needs the slot for another block: the change is written.
Evict(c, s) ==
    /\ cpc[c] = "locked"
    /\ s \in dirty \cup dirty2
    /\ Written({s})
    /\ UNCHANGED <<lock, flushing, exited, token, cpc, fpc, xpc, ops>>

Release(c) ==
    /\ cpc[c] = "locked"
    /\ lock' = FALSE
    /\ Goto(c, "unlocked")
    /\ UNCHANGED <<dirty, dirty2, flushing, exited, token, fpc, xpc, owed, ops>>

\* mutant: the flusher is woken only while it is awake.
PolishInverted(c) ==
    /\ cpc[c] = "unlocked"
    /\ Goto(c, IF ~flushing \/ c \in Silent THEN "idle" ELSE "wake")
    /\ UNCHANGED <<lock, dirty, dirty2, flushing, exited, token, fpc, xpc, owed, ops>>

\* sack_vfs_os_polish_volume reads vol->flushing without the lock.
Polish(c) ==
    /\ cpc[c] = "unlocked"
    /\ Goto(c, IF flushing \/ c \in Silent THEN "idle" ELSE "wake")
    /\ UNCHANGED <<lock, dirty, dirty2, flushing, exited, token, fpc, xpc, owed, ops>>

\* WakeThread: the semaphore keeps the wake for the next sleep.
Wake(c) ==
    /\ cpc[c] = "wake"
    /\ token' = TRUE
    /\ Goto(c, "idle")
    /\ UNCHANGED <<lock, dirty, dirty2, flushing, exited, fpc, xpc, owed, ops>>

\* The flush of the JavaScript API: sack_vfs_os_flush_volume.
FlushVolume(c) ==
    /\ cpc[c] = "flushVolume"
    /\ Written(dirty \cup dirty2)
    /\ lock' = FALSE
    /\ Goto(c, "idle")
    /\ UNCHANGED <<flushing, exited, token, fpc, xpc, ops>>
-----------------------------------------------------------------------------
clientVars == <<cpc, xpc, exited, ops>>

\* The flusher is awake until it sleeps forever.
FlusherStart ==
    /\ fpc = "start"
    /\ flushing' = TRUE
    /\ fpc' = "try"
    /\ UNCHANGED <<clientVars, lock, dirty, dirty2, token, owed>>

FlusherTry ==
    /\ fpc = "try"
    /\ lock' = TRUE
    /\ fpc' = IF lock THEN "busy" ELSE "scan"
    /\ UNCHANGED <<clientVars, dirty, dirty2, flushing, token, owed>>

\* mutant: the flag of an earlier pass is dropped.
FlusherScanForgets ==
    /\ fpc = "scan"
    /\ dirty2' = dirty
    /\ dirty' = {}
    /\ lock' = (dirty = {})
    /\ fpc' = IF dirty = {} THEN "check" ELSE "nap"
    /\ UNCHANGED <<clientVars, flushing, token, owed>>

\* mutant: the flag is kept when the change is aged.
FlusherScanKeeps ==
    /\ fpc = "scan"
    /\ dirty2' = dirty2 \cup dirty
    /\ lock' = (dirty = {})
    /\ fpc' = IF dirty = {} THEN "check" ELSE "nap"
    /\ UNCHANGED <<clientVars, dirty, flushing, token, owed>>

\* mutant: the lock is released whether or not there were changes.
FlusherScanReleases ==
    /\ fpc = "scan"
    /\ dirty2' = dirty2 \cup dirty
    /\ dirty' = {}
    /\ lock' = FALSE
    /\ fpc' = IF dirty = {} THEN "check" ELSE "nap"
    /\ UNCHANGED <<clientVars, flushing, token, owed>>

\* A pass over the slots: changes are aged and the lock released; if there are
\* none the lock is kept.
FlusherScan ==
    /\ fpc = "scan"
    /\ dirty2' = dirty2 \cup dirty
    /\ dirty' = {}
    /\ lock' = (dirty = {})
    /\ fpc' = IF dirty = {} THEN "check" ELSE "nap"
    /\ UNCHANGED <<clientVars, flushing, token, owed>>

\* The sleep of 10 or 256 ms ends, by its time or by a wake.
FlusherNap ==
    /\ fpc \in {"busy", "nap"}
    /\ token' = FALSE
    /\ fpc' = IF exited THEN "done" ELSE "try"
    /\ UNCHANGED <<clientVars, lock, dirty, dirty2, flushing, owed>>

\* The flusher holds the lock and reads l.exited.
FlusherCheck ==
    /\ fpc = "check"
    /\ fpc' = IF exited THEN "done" ELSE "flush"
    /\ UNCHANGED <<clientVars, lock, dirty, dirty2, flushing, token, owed>>

\* The slots an earlier pass found, and no later one, are written.
FlusherFlush ==
    /\ fpc = "flush"
    /\ Written(dirty2 \ dirty)
    /\ fpc' = "clear"
    /\ UNCHANGED <<clientVars, lock, flushing, token>>

\* mutant: vol->flushing is not reset before the sleep.
FlusherClearMissing ==
    /\ fpc = "clear"
    /\ fpc' = "release"
    /\ UNCHANGED <<clientVars, lock, dirty, dirty2, flushing, token, owed>>

FlusherClear ==
    /\ fpc = "clear"
    /\ flushing' = FALSE
    /\ fpc' = "release"
    /\ UNCHANGED <<clientVars, lock, dirty, dirty2, token, owed>>

FlusherRelease ==
    /\ fpc = "release"
    /\ lock' = FALSE
    /\ fpc' = "sleep"
    /\ UNCHANGED <<clientVars, dirty, dirty2, flushing, token, owed>>

\* WakeableSleep( SLEEP_FOREVER ) returns only when a wake is there.
FlusherWake ==
    /\ fpc = "sleep"
    /\ token
    /\ token' = FALSE
    /\ fpc' = IF exited THEN "done" ELSE "start"
    /\ UNCHANGED <<clientVars, lock, dirty, dirty2, flushing, owed>>
-----------------------------------------------------------------------------
\* The exit handlers run when no client is in a call: flushVolumes sets l.exited ...
Exit ==
    /\ MayExit
    /\ xpc = "running"
    /\ \A c \in Clients : cpc[c] = "idle"
    /\ exited' = TRUE
    /\ xpc' = "flush"
    /\ UNCHANGED <<lock, dirty, dirty2, flushing, token, cpc, fpc, owed, ops>>

\* ... spins for the lock ...
ExitAcquire ==
    /\ xpc = "flush"
    /\ ~lock
    /\ lock' = TRUE
    /\ xpc' = "locked"
    /\ UNCHANGED <<dirty, dirty2, flushing, exited, token, cpc, fpc, owed, ops>>

\* mutant: only the slots the flusher has aged are written.
ExitFlushAged ==
    /\ xpc = "locked"
    /\ Written(dirty2)
    /\ lock' = FALSE
    /\ xpc' = "done"
    /\ UNCHANGED <<flushing, exited, token, cpc, fpc, ops>>

\* ... and flushes the volume.
ExitFlush ==
    /\ xpc = "locked"
    /\ Written(dirty \cup dirty2)
    /\ lock' = FALSE
    /\ xpc' = "done"
    /\ UNCHANGED <<flushing, exited, token, cpc, fpc, ops>>

Client(c) ==
    \/ Release(c) \/ Polish(c) \/ Wake(c) \/ FlushVolume(c)

Flusher ==
    \/ FlusherStart \/ FlusherTry \/ FlusherScan \/ FlusherNap \/ FlusherCheck
    \/ FlusherFlush \/ FlusherClear \/ FlusherRelease \/ FlusherWake

Exiting == ExitAcquire \/ ExitFlush

Next ==
    \/ \E c \in Clients : Acquire(c) \/ Client(c)
    \/ \E c \in Clients, s \in Slots : Change(c, s) \/ Evict(c, s)
    \/ Flusher
    \/ Exit \/ Exiting

Spec == Init /\ [][Next]_vars

\* A thread that can run does: a client in a call returns from it, the flusher's
\* sleeps end, the exit handlers proceed.  Nobody has to begin a call, and nothing
\* is assumed of who gets the lock when several want it.
Fairness ==
    /\ \A c \in Clients : WF_vars(Client(c))
    /\ WF_vars(Flusher)
    /\ WF_vars(Exiting)

FairSpec == Spec /\ Fairness
-----------------------------------------------------------------------------
HasLock(c) == cpc[c] \in {"locked", "flushVolume"}

FlusherHasLock == fpc \in {"scan", "check", "flush", "clear", "release"}

\* vol->lock admits one thread: two clients, a client and the flusher, or the exit
\* handlers and the flusher never work on the cache at the same time.
LockIsExclusive ==
    /\ \A c \in Clients : HasLock(c) =>
           /\ lock /\ ~FlusherHasLock /\ xpc # "locked"
           /\ \A d \in Clients \ {c} : ~HasLock(d)
    /\ FlusherHasLock => lock /\ xpc # "locked"
    /\ xpc = "locked" => lock

\* No wake is lost (sack_vfs_os_polish_volume against the end of volume_flusher):
\* if the flusher sleeps although a change is to be written, a wake is waiting for
\* it or a client in a call is still going to send one.
NoLostWake ==
    fpc = "sleep" /\ owed # {} =>
        token \/ \E c \in Clients \ Silent : cpc[c] \in {"locked", "unlocked", "wake"}

\* A slot whose change is still to be written has one of the two flags.
OwedIsFlagged == owed \subseteq dirty \cup dirty2

\* polish "waits a short time of no dirty updates" (sack.cc, at its declaration),
\* and then the changes reach the disk: every change of a call that polishes is
\* written in the end, once the clients leave the volume alone, unless the process
\* exits before (see ExitLeavesNothing and ExitCompletes).
ChangesAreWritten == owed # {} ~> (owed = {} \/ exited)

\* The flush of the exit handlers leaves nothing behind, and nothing is changed
\* after it.
ExitLeavesNothing == xpc = "done" => dirty = {} /\ dirty2 = {}

\* "have lock, break; no new changes; flush dirty sectors(if any)" (sack.cc, in
\* volume_flusher) and flushVolumes: when the process exits, the volume is flushed.
\* The code does not do this and no configuration lists it: TLC finds the flusher
\* gone with the lock and the exit waiting for it.
ExitCompletes == exited ~> xpc = "done"
=============================================================================
