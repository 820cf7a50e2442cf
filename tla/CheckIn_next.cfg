SPECIFICATION SpecNext
CONSTANTS
  MaxVersion = 1
  LineCap = 1
  QueueCap = 2
  MaxRestarts = 0
  MaxPowerLosses = 0
PROPERTIES
  TakesEffectNext
