SPECIFICATION Spec
CONSTANTS
  Clients = {k1, k2}
  Workers = {w1}
  Fds <- MCFds
  ssock = ssock
  BUFFER_SHUFFLING = 1
  EPOLL_SIZE = 2
  TCSNum = 2
  Perm <- MCPerm
  Faults = {"target_refuses"}
  Closed = Closed
  NoMsg = NoMsg
INVARIANTS AnswersOnly
SYMMETRY Symmetric
CHECK_DEADLOCK FALSE
