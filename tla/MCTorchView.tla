---------------------------- MODULE MCTorchView ----------------------------
(* Small instances of TorchView for TLC. *)
EXTENDS TorchView, TLC

\* Two blocks that do not overlap.
TwoBlocks == {[ptr |-> 1, size |-> 2], [ptr |-> 3, size |-> 2]}

\* A tensor that fills the first block, and a view of its second half.
Base  == [ptr |-> 1, meta |-> 1, len |-> 2, dim |-> 1]
Slice == [ptr |-> 2, meta |-> 2, len |-> 1, dim |-> 1]

TwoTensors == {Base, Slice}

\* Nothing, two tensors, and a tensor behind an argument that is none.
SomeArgLists == {<<>>, <<Base, Slice>>, <<NoTensor, Slice>>}

\* All threads launch in one context.
OneContext == [t \in Threads |-> 0]

ThreadSymmetry == Permutations(Threads)
=============================================================================
