SPECIFICATION Spec
CONSTANTS
    Default = Default
    Names = {Default, Other}
    Ports <- MCPorts
    DefaultLogin = 1
    DefaultAuth = 2
    MaxKeys = 2
    MaxEdits = 1
INVARIANT
    PublicFileIsPublic
