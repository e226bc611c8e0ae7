SPECIFICATION Spec
CONSTANTS
  Clients = {k1, k2, k3}
  Workers = {w1, w2}
  Fds <- MCFds
  ssock = ssock
  BUFFER_SHUFFLING = 2
  EPOLL_SIZE = 2
  TCSNum = 1
  Perm <- MCPerm
  Faults = {"client_leaves"}
  Closed = Closed
  NoMsg = NoMsg
INVARIANTS TypeOK OwnAnswer OwnRequest FreshTickets OneTicket BufferBound IInv
PROPERTIES BatchHandOff RelaySafety
SYMMETRY Symmetric
