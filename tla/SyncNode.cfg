CONSTANTS
  Slots = {s1, s2}
  Peers = {p1}
  o1 = o1
  Openers = {o1}
  Calls <- OneOpener
  NULL = NULL
  MaxOutbound = 1
  MaxInbound = 2
  MaxTaken = 1
SPECIFICATION SyncSpec
INVARIANTS
  SyncNodeAsked
PROPERTIES
  SyncResumes
