SPECIFICATION Spec
CONSTANTS
    s1 = s1
    s2 = s2
    g1 = g1
    g2 = g2
    zero = zero
    SessionKeys <- MCSessionKeys
    GameKeys <- MCGameKeys
    NoKey = zero
    TimeoutEnabled = TRUE
INVARIANT
    NeverServicesDisconnected
CHECK_DEADLOCK FALSE
