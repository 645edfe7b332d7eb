\* Two processes that start the daemon.
CONSTANTS
  Procs = {p1, p2}
  Commands = {"launch"}
  ConnAttemptCount = 0
  SyscallsMayFail = FALSE
SPECIFICATION DaemonSpec
INVARIANTS
  OneAuthority
\* Commands end.
CHECK_DEADLOCK FALSE
