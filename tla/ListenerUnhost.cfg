CONSTANTS
  Accepts = {a1, a2, a3}
  Sockets = {s1, s2, s3}
  Ips = {i1, i2}
  MaxTotal = 1
  MaxPending = 1
SPECIFICATION Spec
INVARIANT EmptyAfterUnhost
