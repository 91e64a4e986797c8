\* One connection, and peers with two names.
CONSTANTS
    Channels = {c1}
    Peers = {p1}
    Names = {n1, n2}
    None = None
    MaxSockets = 2
    MaxInbox = 2
    MaxTicks = 1
SPECIFICATION Spec
INVARIANT
    NamesFollow
CHECK_DEADLOCK FALSE
