\* Ticks pile up while the pump is busy.
CONSTANTS
  Clients = {c1}
  Period = 2
  UdpKeepAlive = 6
  MaxInactivity = 14
  MaxPosted = 2
  Stalls = TRUE
SPECIFICATION Spec
PROPERTY
  GraceGiven
