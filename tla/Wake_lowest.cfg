SPECIFICATION Spec
CONSTANTS
  hub = hub
  n1 = n1
  n2 = n2
  n3 = n3
  n4 = n4
  Nodes = {hub, n1, n2, n3, n4}
  HUB = hub
  NoNode = NoNode
  Layouts <- Detour
INVARIANTS
  LowestHopHeard
