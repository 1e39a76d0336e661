CONSTANTS
  AppThreads = {t1, t2}
  AnalysisThreads = {a1, a2}
  Ranges <- TwoRanges
  SubRanges <- OneRange
  MaxOps = 4
  MaxTraces = 1
  DataFlow = FALSE
SYMMETRY Symmetry
SPECIFICATION Spec
INVARIANTS SnapshotsInOrder AttributionInOrder RefusedOnlyOld
CHECK_DEADLOCK FALSE
