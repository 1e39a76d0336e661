CONSTANTS
  Ranges <- MCRanges
  SubRanges <- MCSubRanges
  CopyRanges <- MCCopyRanges
  Streams = {s1, s2}
  MaxOps = 4
  MaxInFlight = 2
SPECIFICATION Spec
INVARIANTS
  OperationsExact
  UsagesExact
  ConflictsOrdered
  SubWritesKept
  FlushProgresses
SYMMETRY StreamSymmetry
