\* The bundled application, three clients on one channel.
CONSTANTS
  Clients = {c1, c2, c3}
  Channels = {h1}
  ChannelNames = {n1}
  Names <- MCNames
  Lower <- MCLower
  None = None
  Slots = {s1}
  Deferred = FALSE
  MayCreate = FALSE
SPECIFICATION Spec
SYMMETRY Symmetry
INVARIANTS
  MembershipSymmetric
  NamesUnique
  ViewAgrees
  MessageAttributable
