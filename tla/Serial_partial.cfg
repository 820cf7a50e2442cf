SPECIFICATION Spec
CONSTANTS
  Web = {w1}
  Poll = poll
  Commands <- MCCommands
  Configs <- MCConfigs
  Air <- MCAnnounces
  Rssi <- MCRssi
  RingSize = 30
  LineMax = 24
  QueueDepth = 1
  Cuts = {2}
  MaxLoad = 2
INVARIANTS
  PartialDropped
