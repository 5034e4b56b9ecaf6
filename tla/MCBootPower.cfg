CONSTANTS
    CELL = 1048576
    Machines <- MCTwoControllers
    PAGE_SIZE = 512
    LARGE = 2048
    GIGA = 8192
    EarlyTables = 4
    HeapPages = 2
SPECIFICATION Spec
INVARIANT
    ProviderReplaced
