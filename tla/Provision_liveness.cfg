\* One item, two workers, the payment event published twice, one retry, one crash
\* or stale heartbeat.
SPECIFICATION FairSpec
CONSTANTS
  Items = {i1}
  Workers = {w1, w2}
  Nodes = {n1}
  Entries = {e1, e2}
  MaxRetries = 1
  MaxFaults = 1
  None = None
CHECK_DEADLOCK FALSE
PROPERTIES
  OperationsEnd
  PaidIsProvisioned
