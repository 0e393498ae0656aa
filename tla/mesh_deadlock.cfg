CONSTANTS
  r1 = r1  r2 = r2  r3 = r3  d1 = d1  d2 = d2
  Req = {r1, r2}
  NoReq = NoReq
  NumEndpoints = 1
  ServiceOf <- OneService
  PriorityOf <- LowestPriority
  Downstream = {d1, d2}
  Downstreams <- BothDownstreams
  Fanout <- Dfanout
  CpuCount = 1
  ExtraLimit = 0
  OverNum = 0
  OverDen = 1
  Ratios = {}
  LeafLimit = 1
  LeafRatios = {}
SPECIFICATION MeshFairSpec
PROPERTY EveryRequestAnswered
CHECK_DEADLOCK FALSE
