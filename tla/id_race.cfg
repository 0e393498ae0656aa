\* Two threads of an ingress; the lane does not wrap.
CONSTANTS
  w1 = w1 w2 = w2 m1 = m1 m2 = m2 m3 = m3 m4 = m4
  Worker = {w1, w2}
  Message = {m1, m2, m3, m4}
  WorkerOf <- TwoWorkers
  NoMessage = NoMessage
  Lane = 16
  IsIngress = TRUE
  MaxCounter = 8
SPECIFICATION Spec
INVARIANT NoDuplicateId
CHECK_DEADLOCK FALSE
