CONSTANTS
  Cubins = {"c","d"}
  Mods = {1, 2}
  SymbolPcs <- MCSymbolPcs
  Broken = {"d"}
  Threads = {t1, t2}
  Kernels = {1, 2, 3}
  ModuleOf <- MCModuleOf
  Direct <- MCDirect
  Records <- MCRecords
  Warp = 2
  Objects <- MCObjects
  StaleSizes = {0, 1}
  PcViewsLimit = 1
  MemViewsLimit = 1
  MaxTraces = 2
  MaxRecords = 3
SYMMETRY Symmetry
SPECIFICATION Spec
INVARIANTS
  RefusalsJustified
  RedundancyExact
  ViewsAreTop
CHECK_DEADLOCK FALSE
