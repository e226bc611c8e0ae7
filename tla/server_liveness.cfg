SPECIFICATION FairSpec
CONSTANTS
  Clients = {k1, k2}
  Workers = {w1, w2}
  Fds <- MCFds
  ssock = ssock
  BUFFER_SHUFFLING = 2
  EPOLL_SIZE = 2
  TCSNum = 2
  Perm <- MCPerm
  Faults = {"client_leaves"}
  Closed = Closed
  NoMsg = NoMsg
PROPERTIES ClosedAfterAnswer AskedIsServed WorkersReturn RelaySpec
