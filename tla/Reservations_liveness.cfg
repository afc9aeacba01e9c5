SPECIFICATION FairSpec
CONSTANTS
  n1 = n1  n2 = n2  o1 = o1  o2 = o2
  w1 = w1  w2 = w2
  Nodes = {n1, n2}
  Ops = {o1, o2}
  Workers = {w1, w2}
  NoNode = NoNode
  NoWorker = NoWorker
  Resources <- MCResources
  Measured <- MCMeasured
  Demand <- MCDemand
  Suitable <- MCSuitableApart
  Rank <- MCRank
  FirstTotal <- MCFirstTotal
  Reports = {0, 1, 2}
  Agents = {}
  NoOp = NoOp
  MaxFaults = 0
PROPERTIES CallsEnd OrphansSettle
CHECK_DEADLOCK FALSE
