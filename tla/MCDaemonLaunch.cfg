\* Three processes, every command, failing system calls, one retry.
CONSTANTS
  Procs = {p1, p2, p3}
  Commands = {"launch", "debug", "status", "connect", "kill"}
  ConnAttemptCount = 1
  SyscallsMayFail = TRUE
SPECIFICATION DaemonFairSpec
INVARIANTS
  DaemonTypeOK
  PortOwner
  LaunchVerdict
  RaceHasWinner
PROPERTIES
  LaunchReturns
  ConnectEnds
\* Commands end.
CHECK_DEADLOCK FALSE
