SPECIFICATION FairSpec
CONSTANTS
    t1 = t1
    t2 = t2
    t3 = t3
    t4 = t4
    Threads <- MCThreads
    OpenSpace = {}
    MaxDepth = 2
    MaxEnters = 4
CHECK_DEADLOCK FALSE
INVARIANTS
    TypeOK
    WaitersAreStacked
    NeverBreaks
PROPERTIES
    EntersReturn
    ImplementsLock
