\* Two requests for the hosted service and a sub-request share two messages.
CONSTANTS
  k1 = k1 k2 = k2 k3 = k3 m1 = m1 m2 = m2
  Call = {k1, k2, k3}
  Ingress = {k1, k2}
  Message = {m1, m2}
  NoMessage = NoMessage
  RequestLen = 2
  ResponseLen = 2
  Habits = {"cancel"}
SPECIFICATION FairSpec
INVARIANTS TypeOK ProvidersLive MessagesReturned LookupsSucceed
PROPERTIES RelaySpec EveryCallAnswered
CHECK_DEADLOCK FALSE
