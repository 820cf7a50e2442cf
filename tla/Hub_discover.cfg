SPECIFICATION Spec
CONSTANTS
  MaxId = 2
  MaxWire = 1
  FactoryIds = {1, 7}
  Senders = {1}
  w1 = w1
  w2 = w2
  Workers = {w1, w2}
  Requests = {"claim", "discover"}
  BadLines = FALSE
SYMMETRY Threads
INVARIANTS
  ListsUnclaimed
