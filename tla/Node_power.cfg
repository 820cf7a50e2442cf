SPECIFICATION FairSpec
CONSTANTS
  Addresses = {1, 2}
  Intervals = {30, 60}
  Thresholds = {2000, 3000}
  DefaultInterval = 30
  DefaultThreshold = 2000
  Prepared = {{}, {"node_id"}, {"node_id", "node_cfg"}}
  Unset = Unset
INVARIANTS
  TypeOK
  ClaimSurvives
  SleepsAsConfigured
PROPERTIES
  ResetLeadsToPairing
  KeepsAnnouncing
