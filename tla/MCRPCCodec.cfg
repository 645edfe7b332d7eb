\* Names and paths on both sides of every limit: 74/75, 127/128, 201/202, 230/231, 254 ... 256.
CONSTANTS
  Names = {0, 9, 74, 75, 104, 122, 123, 201, 202, 203, 230, 231, 249, 250, 254, 255, 256, 300}
  Paths = {0, 40, 126, 127, 128, 252, 253, 254, 255, 256, 300}
  Pids = {7, 31415, 4194304}
  Reasons = {60, 255, 256, 257}
  MbPortSize = 12
SPECIFICATION CodecSpec
INVARIANTS
  CodecTypeOK
  Exact
  AnswersFit
\* The daemon may break.
CHECK_DEADLOCK FALSE
