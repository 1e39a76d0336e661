-------------------------- MODULE MCTraceAnalysis --------------------------
(* Small instances of TraceAnalysis.                                        *)
EXTENDS TraceAnalysis

Symmetry == Permutations(Threads)

\* Two modules of one cubin, loaded at different places, and a cubin that
\* cannot be read.
MCSymbolPcs == [x \in Cubins \X Mods |-> IF x[2] = 1 THEN <<4, 2>> ELSE <<3, 5, 1>>]
MCDirect == {<<"c", 2>>}
MCObjects == {<<10, 12>>}
MCModuleOf == [k \in Kernels |-> IF k = 3 THEN <<"d", 1>> ELSE <<"c", k>>]

Access(flags, pc, active, size, address, value) ==
  [flags |-> flags, pc |-> pc, thread |-> Min(active), active |-> active, size |-> size,
   address |-> [lane \in active |-> address], value |-> [lane \in active |-> value]]

\* A store of two units and one of a single unit inside it, an atomic, a load of
\* both lanes outside of an object, the end of one lane.
MCRecords ==
  {Access({"WRITE"}, 4, {0}, 2, 10, <<0, 1>>),
   Access({"WRITE"}, 5, {0}, 1, 11, <<1>>),
   Access({"READ", "WRITE"}, 2, {0, 1}, 1, 11, <<0>>),
   Access({"READ", "SHARED"}, 2, {1}, 1, 3, <<0>>),
   Access({"READ"}, 1, {0}, 2, 11, <<0, 0>>),
   Access({"EXIT"}, 6, {0}, 0, 0, <<>>)}
=============================================================================
