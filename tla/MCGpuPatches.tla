---------------------------- MODULE MCGpuPatches ----------------------------
(* Small instances of GpuPatches: warps of four lanes.                      *)
EXTENDS GpuPatches

R(a, b) == [start |-> a, end |-> b]

\* Lanes on one address, or inactive, and lanes with a gap in any of
\* a few orders.
MCRecords ==
  [address : {a \in [Lanes -> {0, 2}] : a[1] # 0}, size : {2}, flags : {{"read", "write"}}]
    \cup {[address |-> (0 :> a[1] @@ 1 :> a[2] @@ 2 :> a[3] @@ 3 :> a[4]), size |-> 1, flags |-> {"read"}] :
            a \in {<<3, 1, 0, 5>>, <<5, 4, 1, 2>>, <<0, 7, 3, 3>>, <<1, 7, 5, 3>>}}

Symmetry == Permutations(Threads)
MCDict      == <<R(2, 4), R(4, 5), R(6, 7), R(7, 8), R(8, 9)>>
MCTorchDict == <<R(2, 3), R(3, 4)>>
=============================================================================
