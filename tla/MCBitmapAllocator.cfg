CONSTANTS
    N = 4
    Regions <- MCRegions
    Counts = {1, 2, 3, 4}
SPECIFICATION FairSpec
INVARIANTS
    TypeOK
    DescriptorsMatchFrames
    FreeNeverPanics
    MetadataOutsideFrames
PROPERTIES
    ImplementsFrameAllocator
    CallsReturn
