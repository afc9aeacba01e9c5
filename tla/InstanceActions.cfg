SPECIFICATION FairSpec
CONSTANTS
  w1 = w1
  w2 = w2
  Workers = {w1, w2}
  Slots <- MCSlots
  None = None
  MaxRetries = 1
  MaxEvents = 2
  MaxFaults = 1
INVARIANTS
  KeyIsLive
PROPERTIES
  Converges
