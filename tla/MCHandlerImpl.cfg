\* Two connections of two clients; two pids leave room for an orphaned script.
CONSTANTS
  t1 = t1
  t2 = t2
  c1 = c1
  c2 = c2
  Threads = {t1, t2}
  Clients = {c1, c2}
  Peer <- MCPeer
  Pids = {p1, p2}
  NoPid = NoPid
  NoThread = NoThread
  NoClient = NoClient
  OnlyHolderDisconnects = TRUE
SPECIFICATION HandlerFairSpec
INVARIANTS
  HandlerTypeOK
  ExclusiveHolder
  LockDiscipline
PROPERTIES
  UsesFirmwareFSM
  AdmittedRequestEnds
\* The daemon may terminate, and sessions end.
CHECK_DEADLOCK FALSE
