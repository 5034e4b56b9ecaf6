CONSTANTS
    CELL = 1048576
    Machines <- MCMachines
    PAGE_SIZE = 512
    LARGE = 2048
    GIGA = 8192
    EarlyTables = 4
    HeapPages = 2
SPECIFICATION Spec
INVARIANTS
    TypeOK
    MemoryIntact
    BootPanicsJustified
    EveryNodeProbed
    PowerTargetsOwner
