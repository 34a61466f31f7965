SPECIFICATION Spec
CONSTANTS
    s1 = s1
    s2 = s2
    g1 = g1
    g2 = g2
    zero = zero
    SessionKeys <- MCSessionKeys
    GameKeys <- MCGameKeys
    NoKey = zero
    TimeoutEnabled = TRUE
INVARIANTS
    TypeOK
    AdmissionBindsIssuedKey
    RepliesUnderSessionKey
    OpenAfterDisconnectOnlyForRefusal
    EndedReceiveLeavesSocketClosed
PROPERTIES
    ConnectionIsGivenUp
    ImplementsProtocol
\* A connection that has ended takes no further step.
CHECK_DEADLOCK FALSE
