SPECIFICATION SilentFairSpec
CONSTANTS
  Clients = {k1, k2}
  Workers = {w1}
  Fds <- MCFds
  ssock = ssock
  BUFFER_SHUFFLING = 1
  EPOLL_SIZE = 2
  TCSNum = 2
  Perm <- MCPerm
  Faults = {}
  Closed = Closed
  NoMsg = NoMsg
PROPERTIES AskedIsServed
