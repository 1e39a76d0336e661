--------------------------- MODULE MCTorchMonitor ---------------------------
(* TorchMonitor for TLC: threads are alike, and so are stacks of Python.    *)
EXTENDS TorchMonitor, TLC

Symmetry == Permutations(Threads) \cup Permutations(Frames \ {NoFrames})

=============================================================================
