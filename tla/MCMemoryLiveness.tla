-------------------------- MODULE MCMemoryLiveness --------------------------
(* Small instances of MemoryLiveness: two places for objects, the first of  *)
(* which holds two sub-allocations next to each other.                      *)
EXTENDS MemoryLiveness, TLC

R(a, b) == [start |-> a, end |-> b]

StreamSymmetry == Permutations(Streams)

MCRanges     == {R(2, 6), R(6, 7)}
MCSubRanges  == {R(2, 4), R(4, 6)}
MCCopyRanges == {R(2, 4), R(3, 5), R(6, 7)}
=============================================================================
