\* Two clients that connect again and again, two descriptors; UserData runs out
\* after a few connections, write buffers when three WRITEs are in the ring.
CONSTANTS
  c1 = c1 c2 = c2 f1 = f1 f2 = f2 p1 = p1 p2 = p2
  NoConn = NoConn
  NoRpc = NoRpc
  Client = {c1, c2}
  Fd = {f1, f2}
  Pool = {p1, p2}
  UserDataCount = 13
  BufferCount = 3
  MaxStream = 2
  MaxRejects = 2
SPECIFICATION Spec
INVARIANTS TypeOK NoStaleUserData WriteBuffersAccounted PoliteConnectionsReachable OneRpcPerConnection NoProtocolAbort
PROPERTY WorkerServed
CHECK_DEADLOCK FALSE
