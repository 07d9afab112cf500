\* Two clients that polish and one that does not; the process may exit between their
\* calls.  The clients stop after MaxOps locked sections, and then the flusher sleeps:
\* the system may stop.
CONSTANTS
    c1 = c1
    c2 = c2
    silent = silent
    s1 = s1
    s2 = s2
    Clients <- MCClients
    Silent <- MCSilent
    Slots <- MCSlots
    MayExit = TRUE
    MaxOps = 4
SPECIFICATION FairSpec
CHECK_DEADLOCK FALSE
INVARIANTS
    TypeOK
    LockIsExclusive
    NoLostWake
    OwedIsFlagged
    ExitLeavesNothing
PROPERTIES
    ChangesAreWritten
