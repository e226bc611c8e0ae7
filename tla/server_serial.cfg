SPECIFICATION Spec
CONSTANTS
  Clients = {k1, k2, k3}
  Workers = {w1}
  Fds <- MCFds
  ssock = ssock
  BUFFER_SHUFFLING = 1
  EPOLL_SIZE = 2
  TCSNum = 2
  Perm <- MCPerm
  Faults = {"target_hangs_up", "client_leaves"}
  Closed = Closed
  NoMsg = NoMsg
INVARIANTS UncrossedUnlessRefused
SYMMETRY Symmetric
CHECK_DEADLOCK FALSE
