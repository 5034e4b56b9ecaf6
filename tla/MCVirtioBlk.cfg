CONSTANTS
    Sizes <- MCSizes
SPECIFICATION FairSpec
INVARIANTS
    TypeOK
    FreeListApart
    SubmitAssertions
    DeviceSeesRequests
    TransferComplete
    IndexNeverWraps
PROPERTIES
    TransfersReturn
\* A panic ends the run.
CHECK_DEADLOCK FALSE
