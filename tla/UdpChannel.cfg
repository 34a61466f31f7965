SPECIFICATION Spec
CONSTANTS
    Endpoints = {e1, e2}
    Users = {u1}
    MaxDatagrams = 3
    MaxCalls = 1
SYMMETRY Symmetry
CONSTRAINT RaceOrRefusal
INVARIANTS
    OneLiveClient
    DeliveredOnce
    NobodyIsDeaf
    LoopEndsForCause
    DisposalReachesAll
CHECK_DEADLOCK FALSE
