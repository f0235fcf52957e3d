CONSTANTS
  n1 = n1
  n2 = n2
  Nodes = {n1, n2}
  Blocks <- TreeBlocks
  Genesis = 0
  Parent <- TreeParent
  First <- TwoNodes
  Mineable = {6}
  NoHash = NoHash
  nLimit = 2
  MaxBreaks = 1
SPECIFICATION FairSpec
CHECK_DEADLOCK FALSE

PROPERTIES Converge
