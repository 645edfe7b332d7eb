\* Two connections, with failing system calls; the second port already wraps.
CONSTANTS
  MaxHandlers = 2
  SyscallsMayFail = TRUE
  PortSpace = 3
  StartingPort = 1
  DaemonPort = 1
SPECIFICATION ServerFairSpec
INVARIANTS
  ServerTypeOK
  JoinOnce
  Registered
  LastOneAtMost
PROPERTIES
  EndedHandlerReaped
  CancelledHandlerEnds
  ShutdownWithClients
\* Run returns, or the daemon terminates.
CHECK_DEADLOCK FALSE
