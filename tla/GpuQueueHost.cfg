CONSTANTS
  Warps = {w1, w2, w3}
  Size = 2
  Quota = 2
  Modulus = 6
  GpuSync = FALSE
SPECIFICATION Spec
INVARIANTS TypeOK SlotExclusive ReaderAlone OneLeader TailBound AllReceived
PROPERTY ImplementsStream
CHECK_DEADLOCK FALSE
