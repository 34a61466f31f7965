SPECIFICATION LogSpec
CONSTANTS
    Main = main
    Threads = {main, t1}
    PartCounts = {3, 4}
    MaxEntries = 2
    MaxServers = 2
INVARIANTS
    LogTypeOK
    EachPartOnce
    ShownInOrder
PROPERTIES
    ErrorsAreKept
    EntriesAreShown
CHECK_DEADLOCK FALSE
