SPECIFICATION Spec
CONSTANTS
  MaxId = 2
  MaxWire = 1
  FactoryIds = {7}
  Senders = {1}
  w1 = w1
  w2 = w2
  Workers = {w1, w2}
  Requests = {"claim", "reset", "config", "discover"}
  BadLines = TRUE
SYMMETRY Threads
INVARIANTS
  TypeOK
  HubInv
  DiskReferences
PROPERTIES
  KeepsBook
  NoTakeover
