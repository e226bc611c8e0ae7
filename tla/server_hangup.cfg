SPECIFICATION Spec
CONSTANTS
  Clients = {k1, k2, k3}
  Workers = {w1, w2}
  Fds <- MCFds
  ssock = ssock
  BUFFER_SHUFFLING = 2
  EPOLL_SIZE = 2
  TCSNum = 2
  Perm <- MCPerm
  Faults = {"target_hangs_up"}
  Closed = Closed
  NoMsg = NoMsg
INVARIANTS OwnAnswer
SYMMETRY Symmetric
CHECK_DEADLOCK FALSE
