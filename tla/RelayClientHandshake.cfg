\* Two connections on which nobody joins a channel.
CONSTANTS
    Channels = {}
    Peers = {}
    Names = {}
    None = None
    MaxSockets = 3
    MaxInbox = 2
    MaxTicks = 1
SPECIFICATION FairSpec
INVARIANT
    HelloHasSocket
PROPERTY
    HandshakeEnds
CHECK_DEADLOCK FALSE
