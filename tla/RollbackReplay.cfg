\* Three data blocks and a BAT in two slots: every replay of more than one entry
\* reuses slots.  The entries of a crash come in any order.
CONSTANTS
    d1 = d1
    d2 = d2
    d3 = d3
    bat = bat
    Data <- MCData
    Bats <- MCBats
    Slots = 2
    MaxChanges = 2
SPECIFICATION Spec
SYMMETRY Symmetry
INVARIANTS
    TypeOK
    RestoredIsKept
PROPERTIES
    ReplayIsIdempotent
