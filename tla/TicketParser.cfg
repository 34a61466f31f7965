SPECIFICATION Spec
CONSTANTS
    PayloadLengths <- AllLengths
    FieldLengths = {0, 3, 300}
INVARIANTS
    ParsedInside
    ReadsStayNear
PROPERTIES
    OverrunIsNoticed
CHECK_DEADLOCK FALSE
