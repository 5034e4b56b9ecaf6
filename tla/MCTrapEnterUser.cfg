CONSTANTS
    Irqs <- MCIrqs
    Faults <- MCFaults
    CodeLen = 3
    MaxTraps = 4
SPECIFICATION Spec
PROPERTY
    StartsAtEntry
CHECK_DEADLOCK FALSE
