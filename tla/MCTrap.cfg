CONSTANTS
    Irqs <- MCIrqs
    Faults <- MCFaults
    CodeLen = 3
    MaxTraps = 4
SPECIFICATION FairSpec
INVARIANTS
    TypeOK
    StackDiscipline
    HandlerNotInterrupted
PROPERTIES
    ContextResumed
    TrapsEnd
\* A halted hart waits forever.
CHECK_DEADLOCK FALSE
