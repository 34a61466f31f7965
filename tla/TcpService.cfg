\* Two clients; the process may hold one socket or two.
SPECIFICATION Spec
CONSTANTS
    Clients = {c1, c2}
    NoClient = NoClient
    SocketLimits = {1, 2}
    MaxUnread = 1
    Refusable = {c1}
INVARIANTS
    SocketsFollowReceive
    DisconnectReportIsRight
PROPERTIES
    BacklogIsServed
\* When the clients are gone and nobody polls nothing happens any more.
CHECK_DEADLOCK FALSE
