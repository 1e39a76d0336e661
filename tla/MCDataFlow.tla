----------------------------- MODULE MCDataFlow -----------------------------
(* Small instances of DataFlow.                                             *)
EXTENDS DataFlow

\* Two objects side by side.
MCBase == [o \in Objects |-> IF o \in Large THEN Size ELSE 0]
\* Reads that leave gaps and close them, also across the objects.
Regions == {<<0, 1>>, <<1, 2>>, <<2, 3>>, <<1, 5>>}
\* Writes from the start of an object and from inside, that overlap when they come
\* from the right to the left, in pieces, and across the objects.
WriteRegions == {<<0, 2>>, <<1, 2>>, <<3, 4>>, <<5, 6>>, <<2, 5>>}
=============================================================================
