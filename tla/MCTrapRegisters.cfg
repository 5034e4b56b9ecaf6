CONSTANTS
    Irqs <- MCIrqs
    Faults <- MCFaults
    CodeLen = 3
    MaxTraps = 4
SPECIFICATION Spec
PROPERTY
    RegistersRestored
CHECK_DEADLOCK FALSE
