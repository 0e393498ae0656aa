\* A rejected request leaves its READ armed; the end of that connection, or more
\* data on it, closes the descriptor a second time, when another connection has it.
CONSTANTS
  c1 = c1 c2 = c2 f1 = f1 f2 = f2 p1 = p1 p2 = p2
  NoConn = NoConn
  NoRpc = NoRpc
  Client = {c1, c2}
  Fd = {f1, f2}
  Pool = {p1, p2}
  UserDataCount = 13
  BufferCount = 3
  MaxStream = 2
  MaxRejects = 2
SPECIFICATION Spec
INVARIANT ConnectionsReachable
CHECK_DEADLOCK FALSE
