\* One connection, and the socket after it.
CONSTANTS
    Channels = {c1}
    Peers = {p1}
    Names = {n1}
    None = None
    MaxSockets = 2
    MaxInbox = 2
    MaxTicks = 1
SPECIFICATION Spec
INVARIANTS
    CatchesUp
    FreshSocketIsBlank
CHECK_DEADLOCK FALSE
