CONSTANTS
  r1 = r1  r2 = r2  r3 = r3  r4 = r4  r5 = r5  d1 = d1  d2 = d2
  Req = {r1, r2, r3}
  NoReq = NoReq
  NumEndpoints = 2
  ServiceOf <- OneService
  PriorityOf <- TwoPriorities
  Downstream = {}
  Downstreams <- LeafDownstreams
  Fanout <- LeafFanout
  CpuCount = 1
  ExtraLimit <- MinusOne
  OverNum = 1
  OverDen = 1
  Ratios = {}
SPECIFICATION FairSpec
PROPERTY EveryRequestGranted
