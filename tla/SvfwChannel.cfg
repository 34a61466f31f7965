SPECIFICATION Spec
CONSTANTS
    PlainLengths <- MCPlainLengths
    MaxSent = 2
INVARIANTS
    DeliveredAsSent
    FaultHasCause
PROPERTIES
    EverythingArrives
    ImplementsFifo
\* A receive task that has ended takes no further step.
CHECK_DEADLOCK FALSE
