CONSTANTS
  Objects = {o1, o2}
  Size = 3
  Base <- MCBase
  Large = {o2}
  FragmentRatio = 1
  FragmentLen = 2
  Values = {0, 1}
  Ctxs = {1, 2}
  Reads <- Regions
  Writes <- WriteRegions
  ReadTraceIgnore = FALSE
  MaxOps = 3
  MaxAccesses = 3
SPECIFICATION Spec
INVARIANTS
  FlowReaches
  RangesExact
  ShadowOutside
CHECK_DEADLOCK FALSE
