\* Two endpoints, all three priorities, limits that move: the round robin
\* reaches every priority, requests of one endpoint overtake those of the other
\* and pops fail on either limit.
CONSTANTS
  r1 = r1  r2 = r2  r3 = r3  r4 = r4  r5 = r5  d1 = d1  d2 = d2
  Req = {r1, r2, r3, r4}
  NoReq = NoReq
  NumEndpoints = 2
  ServiceOf <- LeafServiceOf
  PriorityOf <- LeafPriorityOf
  Downstream = {}
  Downstreams <- LeafDownstreams
  Fanout <- LeafFanout
  CpuCount = 1
  ExtraLimit <- MinusOne
  OverNum = 1
  OverDen = 2
  Ratios = {1, 2}
SPECIFICATION Spec
INVARIANTS TypeOK QueueHoldsWaiting NoStrandedRequest
PROPERTIES GrantsWithinLimits OvertakingBounded
