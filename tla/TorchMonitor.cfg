CONSTANTS
  Threads = {t1, t2}
  Blocks = {b1}
  Frames = {f1, f2, none}
  NoFrames = none
  MaxDepth = 2
  MaxOps = 3
SPECIFICATION Spec
SYMMETRY Symmetry
INVARIANTS
  LevelsExact
  BlocksKnown
  KernelFrames
CHECK_DEADLOCK FALSE
