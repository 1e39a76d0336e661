-------------------------- MODULE MCMemorySnapshot --------------------------
(* Small instances of MemorySnapshot for TLC. *)
EXTENDS MemorySnapshot, TLC

\* Two neighbours; one range.
TwoRanges == {[start |-> 0, end |-> 2], [start |-> 2, end |-> 4]}
OneRange  == {[start |-> 0, end |-> 2]}

\* The threads of a kind are interchangeable.
Symmetry == Permutations(AppThreads) \cup Permutations(AnalysisThreads)
=============================================================================
