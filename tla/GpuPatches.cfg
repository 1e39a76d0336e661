CONSTANTS
  LogWarp = 2
  Tile = 2
  Threads = {t1, t2}
  Patches = {"address", "aux", "torch_aux", "torchview"}
  Records <- MCRecords
  Dict <- MCDict
  TorchDict <- MCTorchDict
  Addresses = {1, 3, 4, 5, 7, 8}
  Pcs = {0, 1}
  WordBits = 4
  IntBits = 2
  MaxBegun = 3
SYMMETRY Symmetry
SPECIFICATION PatchSpec
INVARIANTS
  IntervalsExact
  MarksCover
  ViewMarksMasked
CHECK_DEADLOCK FALSE
