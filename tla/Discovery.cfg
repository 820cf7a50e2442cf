SPECIFICATION Spec
CONSTANTS
  Second = 4
  Period = 20
  Slack = 1
  Listen = 8
  MaxCandidates = 2
  Window = 4
  Intervals = {28, 30}
  DefaultInterval = 30
  Late = {0, 1}
  Latest = 1
  Root = 0
  Rssi <- MCRssi
  Strays <- MCStrays
  Cap = 62
  MissCap = 5
INVARIANTS
  TypeOK
  ParentIsBest
  FewMisses
  OfflineOnlyAfterMiss
PROPERTIES
  DeadShownOffline
