\* Ticks run when they are due.
CONSTANTS
  Clients = {c1}
  Period = 2
  UdpKeepAlive = 6
  MaxInactivity = 14
  MaxPosted = 1
  Stalls = FALSE
SPECIFICATION Spec
INVARIANTS
  SilentIsDropped
  InactiveIsDropped
  UdpKeptAlive
PROPERTY
  GraceGiven
