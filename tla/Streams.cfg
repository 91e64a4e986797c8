\* A file or socket of two bytes written into a socket.
CONSTANTS
    MaxUnits = 3
    FileSize = 2
    Room = 1
SPECIFICATION Spec
INVARIANTS
    InOrder
    GracefulLosesNothing
    ClosedOnce
    Awaits
CHECK_DEADLOCK FALSE
