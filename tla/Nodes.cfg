CONSTANTS
  Slots = {s1, s2}
  Peers = {p1}
  o1 = o1
  o2 = o2
  Openers = {o1, o2}
  Calls <- TwoOpeners
  NULL = NULL
  MaxOutbound = 2
  MaxInbound = 1
  MaxTaken = 1
SPECIFICATION FairSpec
CHECK_DEADLOCK FALSE
INVARIANTS
  TypeOK
  
  
  
PROPERTIES
  DisconnectedDeleted
