SPECIFICATION FairSpec
CONSTANTS
  MaxVersion = 2
  LineCap = 1
  QueueCap = 2
  MaxRestarts = 1
  MaxPowerLosses = 1
INVARIANTS
  TypeOK
  AckedIsDurable
PROPERTIES
  NeverBack
  EndsConfigured
