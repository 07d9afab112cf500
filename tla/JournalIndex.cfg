CONSTANTS
    Segments <- MCSegments
    Half = 6
SPECIFICATION FairSpec
INVARIANTS
    TypeOK
    SortedSet
    IndexIsExact
PROPERTIES
    SearchEnds
