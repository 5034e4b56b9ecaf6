CONSTANTS
    PAGE_LEVELS = 3
    W = 2
    PageSize <- MCPageSize
    Frames = 12
    Garbage <- MCGarbage
    KernelMaps <- MCKernelMaps
    UserMaps <- MCUserMaps
    Protects <- MCProtects
SPECIFICATION FairSpec
INVARIANTS
    TypeOK
    TablesInitialised
    TablesFormTree
    UserPagesPrivate
PROPERTIES
    DirtyPagesPinned
    ImplementsAddressSpace
    CallsReturn
