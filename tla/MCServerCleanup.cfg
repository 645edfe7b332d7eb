\* Run notifies the cleanup thread without its mutex.
CONSTANTS
  MaxHandlers = 2
  SyscallsMayFail = FALSE
  PortSpace = 8
  StartingPort = 2
  DaemonPort = 1
SPECIFICATION ServerFairSpec
PROPERTIES
  CleanupFinishes
\* Run returns, or the daemon terminates.
CHECK_DEADLOCK FALSE
