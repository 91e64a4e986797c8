\* An application that answers whenever it likes, and makes channels itself.
CONSTANTS
  Clients = {c1, c2}
  Channels = {h1}
  ChannelNames = {n1}
  Names <- MCNames
  Lower <- MCLower
  None = None
  Slots = {s1, s2}
  Deferred = TRUE
  MayCreate = TRUE
SPECIFICATION Spec
SYMMETRY Symmetry
INVARIANTS
  MembershipSymmetric
  JoinedIsOpen
  NamesUnique
  ViewAgrees
