SPECIFICATION Spec
CONSTANTS
    MaxRequests = 3
    TimeoutEnabled = TRUE
INVARIANTS
    AwaitedInOrder
    QueueHoldsTheRest
    SendFaultHasCause
PROPERTIES
    SendEnds
CHECK_DEADLOCK FALSE
