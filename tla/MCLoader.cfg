CONSTANTS
    USIZE_MAX = 65535
    Archives <- MCArchives
    PAGE_SIZE = 4
    UserPages = 4
    StackPages = 1
    MaxSegments = 3
SPECIFICATION Spec
INVARIANTS
    TypeOK
    FindsInit
    LoadedExactly
    RefusalsJustified
