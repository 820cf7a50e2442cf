SPECIFICATION Spec
CONSTANTS
  MaxId = 2
  MaxWire = 1
  FactoryIds = {1}
  Senders = {1}
  w1 = w1
  w2 = w2
  Workers = {w1, w2}
  Requests = {"claim", "config"}
  BadLines = FALSE
SYMMETRY Threads
INVARIANTS
  PollRuns
