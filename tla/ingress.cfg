\* Five clients, the AIMD cap moves between 1 and 3: drops, grants, responses
\* and cap changes interleave.
CONSTANTS
  c1 = c1 c2 = c2 c3 = c3 c4 = c4 c5 = c5
  Client = {c1, c2, c3, c4, c5}
  PoolSize = 5
  InitialCap = 2
  MaxCap = 3
  MaxIncrease = 1
  AdjNum = 2
  AdjDen = 1
  Impatient = {}
SPECIFICATION FairSpec
INVARIANTS TypeOK CreditCycle OnePlace DropsAwaitGrant NoAbort
PROPERTIES EveryRequestAnswered WorkerSpec
