\* The bundled application, two clients and two channels.
CONSTANTS
  Clients = {c1, c2}
  Channels = {h1, h2}
  ChannelNames = {n1, n2}
  Names <- MCName
  Lower <- MCLowerName
  None = None
  Slots = {s1}
  Deferred = FALSE
  MayCreate = FALSE
SPECIFICATION FairSpec
INVARIANTS
  ListedIsInhabited
  ChannelNamesUnique
  MessageAttributable
PROPERTY
  UnhostEnds
