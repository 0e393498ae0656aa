CONSTANTS
  r1 = r1  r2 = r2  r3 = r3  d1 = d1  d2 = d2
  Req = {r2, r3}
  NoReq = NoReq
  NumEndpoints = 3
  ServiceOf <- MixedServiceOf
  PriorityOf <- LowestPriority
  Downstream = {d1, d2}
  Downstreams <- BothDownstreams
  Fanout <- MixedFanout
  CpuCount = 1
  ExtraLimit = 0
  OverNum = 0
  OverDen = 1
  Ratios = {}
  LeafLimit = 1
  LeafRatios = {1, 2}
SPECIFICATION MeshFairSpec
INVARIANTS MeshTypeOK CallsMatchLeaves CreditsConserved NoCircularWait
PROPERTIES EveryRequestAnswered LeavesAreSidecars
