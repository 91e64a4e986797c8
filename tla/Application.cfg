CONSTANTS
    Fds = {f1, f2}
    Calls = {c1}
    MaxEvents = 2
    MaxArrivals = 2
    MaxTicks = 1
    MaxWasted = 0
    MaxDropped = 0
    Clients = {f1}
    MaxPackets = 5
SPECIFICATION AppSpec
INVARIANTS
    InOrder
    NoStaleWatch
    Outlives
PROPERTIES
    PostsRun
CHECK_DEADLOCK FALSE
