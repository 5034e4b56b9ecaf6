CONSTANTS
    start = 3
    end = 17
    Layouts <- MCLayouts
    N = 4
    UsizeMax = 63
    Regions <- MCRegions
    Counts = {1, 2, 3, 15}
SPECIFICATION BumpSpec
INVARIANTS
    TypeOK
    LiveBlocksDisjoint
    CounterCountsLive
    Accounting
PROPERTIES
    ResetOnlyWhenEmpty
    ImplementsFrameAllocator
