\* An endpoint of each fan-out kind with a limit of 1, two requests for pfanout.
CONSTANTS
  r1 = r1  r2 = r2  r3 = r3  r4 = r4  r5 = r5  d1 = d1  d2 = d2
  Req = {r1, r2, r3, r4}
  NoReq = NoReq
  NumEndpoints = 3
  ServiceOf <- MixedServiceOf
  PriorityOf <- LowestPriority
  Downstream = {d1, d2}
  Downstreams <- BothDownstreams
  Fanout <- MixedFanout
  CpuCount = 1
  ExtraLimit <- MinusOne
  OverNum = 0
  OverDen = 1
  Ratios = {}
SPECIFICATION Spec
INVARIANTS InFlightCountsActive FanoutConsistent NoIdleCredit NoAbort
