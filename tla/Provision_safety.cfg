\* Two items, two workers, two nodes, the payment event published twice, one retry,
\* one crash or stale heartbeat.
SPECIFICATION Spec
CONSTANTS
  Items = {i1, i2}
  Workers = {w1, w2}
  Nodes = {n1, n2}
  Entries = {e1, e2}
  MaxRetries = 1
  MaxFaults = 1
  None = None
SYMMETRY Symmetry
CHECK_DEADLOCK FALSE
INVARIANTS
  ActiveIsBacked
  NotifiedOnce
  CompletedIsActive
PROPERTIES
  OnlyForward
