SPECIFICATION Spec
CONSTANTS
    Chars = {1, 2, 3}
    Names <- MCNames
    Contents <- MCContents
    Capacity = 2
    Careful = FALSE
    DirBlocks = 6
    DataBlock <- MCDataBlock
    MaxOpen = 2
    MaxOps = 6
    b1 = b1
    b2 = b2
    b3 = b3
    x = x
    y = y
SYMMETRY Symmetry
INVARIANT LookupsEnd
CHECK_DEADLOCK FALSE
