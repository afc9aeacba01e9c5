\* Two handlers and one worker around one subscription: racing orders, webhooks
\* that repeat, disagree and share external ids, and transactions that fail.
SPECIFICATION Spec
CONSTANTS
  h1 = h1  h2 = h2  w1 = w1  w2 = w2  o1 = o1  o2 = o2  k1 = k1  k2 = k2
  s1 = s1  s2 = s2  x1 = x1  x2 = x2  e1 = e1  e2 = e2  e3 = e3
  Handlers = {h1, h2}
  Workers = {w1}
  Orders = {o1, o2}
  Keys = {k1, k2}
  Subs = {s1}
  Webhooks <- MixedWebhooks
  Cycle = 2
  Grace = 1
  FirstEnd <- EndsAtOne
  BatchSize = 1
  MaxTime = 2
  MaxCancels = 1
  MaxFailures = 1
  None = None
SYMMETRY HandlerAndKeySymmetry
INVARIANTS
  CapturedOnce
  AcceptedIsCaptured
  PeriodsArePaidFor
  OneOrderPerKey
