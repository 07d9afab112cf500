\* Two data blocks, the root BAT and a BAT added by volume growth; the header
\* block holds two entries, so that a third overflows.
CONSTANTS
    d1 = d1
    d2 = d2
    rootBat = rootBat
    newBat = newBat
    Data <- MCData
    Bats <- MCBats
    RootBat <- rootBat
    HeaderEntries = 2
    MaxEntry = 5
    MaxVersion = 5
SPECIFICATION Spec
SYMMETRY Symmetry
INVARIANTS
    TypeOK
    DataRecoverable
    ReplayRestoresData
    CopyReachable
    UnwrittenIsFlagged
PROPERTIES
    CheckpointIsWorkingState
    ImplementsVolume
