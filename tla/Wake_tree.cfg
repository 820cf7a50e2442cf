SPECIFICATION FairSpec
CONSTANTS
  hub = hub
  n1 = n1
  n2 = n2
  n3 = n3
  n4 = n4
  Nodes = {hub, n1, n2, n3}
  HUB = hub
  NoNode = NoNode
  Layouts <- Everywhere
INVARIANTS
  TypeOK
  WindowInv
PROPERTIES
  RoundIsExact
  GrowsTree
  WindowEnds
