\* Every error is sent twice.
CONSTANTS
  Procs = {1, 8}
  MaxCalls = 3
  ErrorSizes = {20}
SPECIFICATION ChannelSpec
INVARIANTS
  OwnAnswer
\* The session ends.
CHECK_DEADLOCK FALSE
