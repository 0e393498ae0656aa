\* A single-threaded sidecar: the branch lane has four values and wraps twice
\* while four RPCs come and go.
CONSTANTS
  w1 = w1 w2 = w2 m1 = m1 m2 = m2 m3 = m3 m4 = m4
  Worker = {w1}
  Message = {m1, m2, m3, m4}
  WorkerOf <- OneWorker
  NoMessage = NoMessage
  Lane = 4
  IsIngress = FALSE
  MaxCounter = 9
SPECIFICATION Spec
INVARIANTS TypeOK ParentFound AbortsOnlyAfterWrap
CHECK_DEADLOCK FALSE
