\* A browser that sends two requests over one or two connections.
CONSTANTS
    MaxRequests = 2
    MaxConnections = 2
SPECIFICATION Spec
INVARIANTS
    InTurn
    Told
    Prompt
    OneSession
CHECK_DEADLOCK FALSE
