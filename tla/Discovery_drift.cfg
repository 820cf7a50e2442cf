SPECIFICATION Spec
CONSTANTS
  Second = 4
  Period = 20
  Slack = 1
  Listen = 8
  MaxCandidates = 1
  Window = 4
  Intervals = {27, 28, 29, 30}
  DefaultInterval = 30
  Late = {0, 1}
  Latest = 1
  Root = 0
  Rssi <- MCRssi
  Strays = {}
  Cap = 62
  MissCap = 9
INVARIANTS
  FewMisses
