CONSTANTS
  Warps = {w1, w2, w3}
  Size = 2
  Quota = 2
  Modulus = 6
  GpuSync = TRUE
SPECIFICATION FairSpec
INVARIANTS NoAnalysisAtEnd AllReceived
PROPERTIES ComesToRest LeaderServed
CHECK_DEADLOCK FALSE
