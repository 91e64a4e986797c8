CONSTANTS
  Accepts = {a1, a2, a3}
  Sockets = {s1, s2, s3}
  Ips = {i1, i2}
  MaxTotal = 1
  MaxPending = 1
  MaxCalls = 4
  MaxAttempts = 3
  Ideal = 2
SPECIFICATION EndSpec
INVARIANT RelayMirrorsServer
INVARIANT Told
INVARIANT Attended
INVARIANT PoolKeepsUp
CHECK_DEADLOCK FALSE
