CONSTANTS
  Warps = {w1, w2}
  Size = 2
  Quota = 2
  Modulus = 5
  GpuSync = FALSE
SPECIFICATION Spec
INVARIANT PushedVisible
CHECK_DEADLOCK FALSE
