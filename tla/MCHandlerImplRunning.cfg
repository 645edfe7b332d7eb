\* A reset admitted before Connect runs after it.
CONSTANTS
  t1 = t1
  t2 = t2
  c1 = c1
  c2 = c2
  Threads = {t1, t2}
  Clients = {c1, c2}
  Peer <- MCPeer
  Pids = {p1, p2}
  NoPid = NoPid
  NoThread = NoThread
  NoClient = NoClient
  OnlyHolderDisconnects = TRUE
SPECIFICATION HandlerSpec
INVARIANTS
  AcquiredMeansRunning
CHECK_DEADLOCK FALSE
