\* Texts that fit, that overrun the buffer by one byte, and that are refused.
CONSTANTS
  Procs = {1, 2, 3, 4, 5, 8, 9, 10, 11, 12}
  LibraryProcs = {1, 8}
  MaxCalls = 4
  ErrorSizes = {20, 255, 256}
  CommandLines <- MCCommandLines
SPECIFICATION CLIFairSpec
INVARIANTS
  CLITypeOK
  TruthUntilError
  Backlog
  ParsesAsHelp
  VerdictTrue
PROPERTIES
  CallReturns
  SessionEnds
\* The session ends.
CHECK_DEADLOCK FALSE
