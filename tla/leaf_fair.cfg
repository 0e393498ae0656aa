CONSTANTS
  r1 = r1  r2 = r2  r3 = r3  r4 = r4  r5 = r5  d1 = d1  d2 = d2
  Req = {r1, r2, r4}
  NoReq = NoReq
  NumEndpoints = 2
  ServiceOf <- LeafServiceOf
  PriorityOf <- LeafPriorityOf
  Downstream = {}
  Downstreams <- LeafDownstreams
  Fanout <- LeafFanout
  CpuCount = 1
  ExtraLimit <- MinusOne
  OverNum = 0
  OverDen = 2
  Ratios = {}
SPECIFICATION FairSpec
PROPERTY EveryRequestGranted
