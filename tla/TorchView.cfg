CONSTANTS
  Threads = {t1, t2}
  Context <- OneContext
  Blocks <- TwoBlocks
  Tensors <- TwoTensors
  ArgLists <- SomeArgLists
  MaxDepth = 1
  MaxNodes = 3
SYMMETRY ThreadSymmetry
SPECIFICATION Spec
INVARIANTS ForestShape UniqueInTree AccessesKept RangesFit
PROPERTIES DeletedNotInSnapshot MarksLineUp
CHECK_DEADLOCK FALSE
