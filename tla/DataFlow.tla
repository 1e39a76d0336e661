------------------------------ MODULE DataFlow ------------------------------
(***************************************************************************)
(* The data flow analysis (redshow/src/analysis/data_flow.cpp; the code of *)
(* data_dependency.cpp is the same): the graph of calling contexts through *)
(* which data flows, the ranges a kernel accessed, and the copy of device  *)
(* memory on the host from which redundancy is measured.  The profiled     *)
(* program has one thread, as the analysis demands, and an operation is    *)
(* complete when it is reported.  REDSHOW_ANALYSIS_DATA_FLOW_HASH is off.  *)
(***************************************************************************)
EXTENDS Integers, FiniteSets, FiniteSetsExt, Sequences

CONSTANTS
  Objects,      \* memory objects (their operation ids)
  Size,         \* bytes of an object
  Base,         \* address of an object
  Large,        \* objects above _FRAGMENT_SIZE_LIMIT
  FragmentRatio,\* 1 / _FRAGMENT_RATIO_LIMIT
  FragmentLen,  \* _FRAGMENT_LEN_LIMIT
  Values,       \* values of a byte
  Ctxs,         \* calling contexts
  Reads,        \* regions a kernel may read, as <<start, end>>
  Writes,       \* regions a kernel may write
  ReadTraceIgnore, \* REDSHOW_ANALYSIS_READ_TRACE_IGNORE
  MaxOps,       \* bound on operations
  MaxAccesses   \* bound on the accesses of a kernel

ASSUME FlowAssumption ==
  /\ Size \in Nat \ {0} /\ FragmentRatio \in Nat /\ FragmentLen \in Nat
  /\ MaxOps \in Nat /\ MaxAccesses \in Nat
  /\ Large \subseteq Objects /\ Ctxs \subseteq Nat \ {0} /\ ReadTraceIgnore \in BOOLEAN
  /\ Base \in [Objects -> Nat]
  /\ \A p, q \in Objects : p # q => Base[p] + Size <= Base[q] \/ Base[q] + Size <= Base[p]
  /\ Reads \cup Writes \subseteq {r \in Nat \X Nat : r[1] < r[2]}

Bytes == 0 .. Size - 1
Host == 0                \* HOST_MEMORY_CTX_ID

VARIABLES
  device,     \* contents of the objects on the device
  value, value_cache, \* Memory::value and Memory::value_cache
  op_node,    \* _op_node of the objects allocated so far
  mem_ctx,    \* the context that allocated an object
  edges,      \* _graph: from <<from, to, memory, type>> to the metrics of the edge
  trace,      \* _trace, with the number of accesses; NoTrace between kernels
  count,
  writer,     \* the context that wrote a byte last (history)
  touched,    \* bytes the kernel read and wrote, and the device before (history)
  flows,      \* <<writer, reader, object>> of bytes that were read (history)
  written,    \* bytes written so far, and the ones left as they were (history)
  inside,     \* objects a kernel wrote from inside or in overlapping ranges, or whose
              \* data comes from such an object (history)
  overlapped  \* some kernel's ranges overlapped (history)

vars == <<device, value, value_cache, op_node, mem_ctx, edges, trace,
          count, writer, touched, flows, written, inside, overlapped>>

NoTrace == [n |-> -1]
NoTouch == [read |-> {}, write |-> {}, before |-> <<>>]
Allocated == DOMAIN op_node
Span(r) == r[1] .. r[2] - 1
Total(rs, f(_)) == FoldSet(LAMBDA r, n : n + f(r), 0, rs)
SpanOf(rs) == UNION {Span(r) : r \in rs}
Put(f, o, x) == [q \in DOMAIN f \cup {o} |-> IF q = o THEN x ELSE f[q]]

-----------------------------------------------------------------------------
(* merge_memory_range, on a set of ranges with different starts *)

\* Mutant: the range to the left is dropped when it reaches the new one.
StartOf(l, r) == r[1]

\* The start of the merged range.
MergedStart(l, r) == l[1]

\* prev is the range with the largest start up to the one of r.  Without it the
\* ranges to the right are not looked at.
merge_memory_range(memory, r) ==
  LET left  == {x \in memory : x[1] <= r[1]}
      l     == CHOOSE x \in left : \A y \in left : y[1] <= x[1]
      joins == l[2] >= r[1]
      right == {x \in memory : x[1] > l[1] /\ x[1] <= r[2]}
      over  == {x \in right : x[2] >= r[2]}
      stop  == CHOOSE x \in over : \A y \in over : x[1] <= y[1]
      gone  == IF over = {} THEN right ELSE {x \in right : x[1] <= stop[1]}
  IN IF left = {} THEN memory \cup {r}
     ELSE IF joins /\ l[2] >= r[2] THEN memory
     ELSE (memory \ (gone \cup (IF joins THEN {l} ELSE {})))
            \cup {<<IF joins THEN MergedStart(l, r) ELSE r[1], IF over = {} THEN r[2] ELSE stop[2]>>}

-----------------------------------------------------------------------------
(* The graph *)

\* link_ctx_node and update_edge_metrics, as a record of what an edge gains
link_ctx_node(src, dst, mem, type, redundancy, overwrite, len) ==
  [edge |-> <<src, dst, mem, type>>, redundancy |-> redundancy, overwrite |-> overwrite, count |-> len]

\* Mutant: the object points to the new context before the edge is drawn.
link_op_node_late(o, ctx, redundancy, overwrite) ==
  link_ctx_node(ctx, ctx, mem_ctx[o], "ORDER", redundancy, overwrite, Size)

\* link_op_node and update_op_metrics: from the context the object was written by last
link_op_node(o, ctx, redundancy, overwrite) ==
  link_ctx_node(op_node[o], ctx, mem_ctx[o], "ORDER", redundancy, overwrite, Size)

\* The graph with links given by a function
Linked(links) ==
  LET of(e) == {i \in DOMAIN links : links[i].edge = e}
      old(e) == IF e \in DOMAIN edges THEN edges[e] ELSE [redundancy |-> 0, overwrite |-> 0, count |-> 0]
  IN [e \in DOMAIN edges \cup {links[i].edge : i \in DOMAIN links} |->
        [redundancy |-> FoldSet(LAMBDA i, n : n + links[i].redundancy, old(e).redundancy, of(e)),
         overwrite  |-> FoldSet(LAMBDA i, n : n + links[i].overwrite, old(e).overwrite, of(e)),
         count      |-> FoldSet(LAMBDA i, n : n + links[i].count, old(e).count, of(e))]]

-----------------------------------------------------------------------------
(* Operations between kernels *)

Ready == trace = NoTrace /\ count < MaxOps

\* memory_op_callback: the copy is taken from the device; value_cache is not
\* initialized.
Malloc(o, ctx) ==
  /\ Ready /\ o \notin Allocated
  /\ op_node' = Put(op_node, o, ctx)
  /\ mem_ctx' = Put(mem_ctx, o, ctx)
  /\ \E d \in Values, junk \in Values :
       /\ device' = Put(device, o, [b \in Bytes |-> d])
       /\ value_cache' = Put(value_cache, o, [b \in Bytes |-> junk])
  /\ value' = Put(value, o, device'[o])
  /\ writer' = Put(writer, o, [b \in Bytes |-> ctx])
  /\ count' = count + 1
  /\ UNCHANGED <<edges, trace, touched, flows, written, inside, overlapped>>

Set(f, r, v) == [b \in Bytes |-> IF b \in Span(r) THEN v ELSE f[b]]
Same(f, g, bs) == Cardinality({b \in bs : f[b] = g[b]})
Rewritten(same, n) == [same |-> written.same + same, bytes |-> written.bytes + n]

\* memset_op_callback
Memset(o, ctx, r, v) ==
  /\ Ready /\ o \in Allocated
  /\ op_node' = [op_node EXCEPT ![o] = ctx]
  /\ device' = [device EXCEPT ![o] = Set(@, r, v)]
  /\ value' = [value EXCEPT ![o] = Set(@, r, v)]
  /\ edges' = Linked(<<link_op_node(o, ctx, Same(value[o], value'[o], Span(r)), r[2] - r[1])>>)
  /\ written' = Rewritten(Same(device[o], device'[o], Span(r)), r[2] - r[1])
  /\ writer' = [writer EXCEPT ![o] = Set(@, r, ctx)]
  /\ count' = count + 1
  /\ UNCHANGED <<value_cache, mem_ctx, trace, touched, flows, inside, overlapped>>

\* memcpy_op_callback from the host: the destination is one of its writes.
CopyFromHost(o, ctx, r, v) ==
  /\ Ready /\ o \in Allocated
  /\ op_node' = [op_node EXCEPT ![o] = ctx]
  /\ device' = [device EXCEPT ![o] = Set(@, r, v)]
  /\ value' = [value EXCEPT ![o] = Set(@, r, v)]
  /\ edges' = Linked(<<link_op_node(o, ctx, Same(value[o], value'[o], Span(r)), r[2] - r[1]),
                       link_ctx_node(Host, ctx, Host, "READ", 0, r[2] - r[1], r[2] - r[1])>>)
  /\ written' = Rewritten(Same(device[o], device'[o], Span(r)), r[2] - r[1])
  /\ writer' = [writer EXCEPT ![o] = Set(@, r, ctx)]
  /\ count' = count + 1
  /\ UNCHANGED <<value_cache, mem_ctx, trace, touched, flows, inside, overlapped>>

ReadFlows(o, bs, ctx) == {<<writer[o][b], ctx, o>> : b \in bs}

\* memcpy_op_callback to the host: a sink.
CopyToHost(o, ctx, r) ==
  /\ Ready /\ o \in Allocated
  /\ \E same \in {0, r[2] - r[1]} : edges' = Linked(
       <<link_ctx_node(ctx, Host, mem_ctx[o], "SINK", same, r[2] - r[1], r[2] - r[1]),
         link_ctx_node(op_node[o], ctx, mem_ctx[o], "READ", 0, r[2] - r[1], Size)>>)
  /\ flows' = flows \cup ReadFlows(o, Span(r), ctx)
  /\ count' = count + 1
  /\ UNCHANGED <<device, value, value_cache, op_node, mem_ctx, trace, writer, touched, written, inside, overlapped>>

\* memcpy_op_callback between objects, from the first bytes to the last ones: the
\* destination is dealt with before the source, which may be the same object.
CopyOnDevice(src, dst, ctx, len) ==
  /\ Ready /\ {src, dst} \subseteq Allocated /\ (src = dst => 2 * len <= Size)
  /\ LET to == Size - len
         moved(f, g) == [b \in Bytes |-> IF b >= to THEN f[b - to] ELSE g[b]]
         after == [op_node EXCEPT ![dst] = ctx]
     IN
     /\ op_node' = after
     /\ device' = [device EXCEPT ![dst] = moved(device[src], @)]
     /\ value' = [value EXCEPT ![dst] = moved(value[src], @)]
     /\ edges' = Linked(<<link_op_node(dst, ctx, Same(value[dst], value'[dst], to .. Size - 1), len),
                          link_ctx_node(after[src], ctx, mem_ctx[src], "READ", 0, len, Size)>>)
     /\ written' = Rewritten(Same(device[dst], device'[dst], to .. Size - 1), len)
     /\ flows' = flows \cup ReadFlows(src, 0 .. len - 1, ctx)
     /\ inside' = IF src \in inside THEN inside \cup {dst} ELSE inside
     /\ writer' = [writer EXCEPT ![dst] = [b \in Bytes |-> IF b >= to THEN ctx ELSE @[b]]]
  /\ count' = count + 1
  /\ UNCHANGED <<value_cache, mem_ctx, trace, touched, overlapped>>

-----------------------------------------------------------------------------
(* Kernels *)

\* analysis_begin: a trace that an earlier launch of the kernel left is empty.
AnalysisBegin ==
  /\ Ready /\ Allocated # {}
  /\ trace' = [n |-> 0, read |-> [o \in Objects |-> {}], write |-> [o \in Objects |-> {}]]
  /\ touched' = [NoTouch EXCEPT !.before = device]
  /\ UNCHANGED <<device, value, value_cache, op_node, mem_ctx, edges, count, writer, flows, written, inside, overlapped>>

\* The bytes of the objects in a region; the device has no others.
BytesIn(r) == {x \in Allocated \X Bytes : Base[x[1]] + x[2] \in Span(r)}
Accessible(r) == \A a \in Span(r) : \E x \in BytesIn(r) : Base[x[1]] + x[2] = a

\* Where the loop of trace_analyze_address_analysis goes on after object o.
End(r, o) == Base[o] + Size

\* trace_analyze_address_analysis: the pieces of a region, by object.
Pieces(r) ==
  LET f[a \in Nat] ==
        LET below == {o \in Allocated : Base[o] <= a}
            o     == CHOOSE x \in below : \A y \in below : Base[y] <= Base[x]
        IN IF a >= r[2] \/ below = {} THEN {}
           ELSE IF a >= Base[o] + Size THEN {}
           ELSE {<<o, <<a - Base[o], Min({r[2], Base[o] + Size}) - Base[o]>>>>} \cup f[End(r, o)]
  IN f[r[1]]

\* The ranges of an object with the pieces of a region merged into them
Merged(f, r) ==
  [o \in Objects |-> FoldSet(LAMBDA p, m : merge_memory_range(m, p[2]), f[o], {p \in Pieces(r) : p[1] = o})]

\* unit_access with the flag of a read, for a region.
UnitRead(r) ==
  /\ trace # NoTrace /\ trace.n < MaxAccesses /\ Accessible(r)
  /\ trace' = [trace EXCEPT !.n = @ + 1,
       !.read = IF ~ReadTraceIgnore THEN Merged(@, r)
                ELSE [o \in Objects |-> IF @[o] = {} THEN {p[2] : p \in {q \in Pieces(r) : q[1] = o}} ELSE @[o]]]
  /\ touched' = [touched EXCEPT !.read = @ \cup BytesIn(r)]
  /\ UNCHANGED <<device, value, value_cache, op_node, mem_ctx, edges, count, writer, flows, written, inside, overlapped>>

\* unit_access with the flag of a write; the device has been written.
UnitWrite(r, v) ==
  /\ trace # NoTrace /\ trace.n < MaxAccesses /\ Accessible(r)
  /\ trace' = [trace EXCEPT !.n = @ + 1, !.write = Merged(@, r)]
  /\ device' = [o \in Allocated |-> [b \in Bytes |-> IF <<o, b>> \in BytesIn(r) THEN v ELSE device[o][b]]]
  /\ touched' = [touched EXCEPT !.write = @ \cup BytesIn(r)]
  /\ UNCHANGED <<value, value_cache, op_node, mem_ctx, edges, count, writer, flows, written, inside, overlapped>>

Written == {o \in Allocated : trace.write[o] # {}}
ReadObjects == {o \in Allocated : trace.read[o] # {}}

Length(rs) == Total(rs, LAMBDA r : r[2] - r[1])

\* The policy for the copy: single ranges for few bytes of a large object in few
\* pieces.
Fragmented(o) ==
  /\ o \in Large
  /\ Length(trace.write[o]) * FragmentRatio < Size
  /\ Cardinality(trace.write[o]) < FragmentLen

Overlap(rs) == Length(rs) > Cardinality(SpanOf(rs))

\* The redundancy of the ranges of an object, one after the other: a byte that a
\* range before has brought up to date is the same.
RedundancyOf(o, cache) ==
  Same(value[o], cache, SpanOf(trace.write[o]))
    + Length(trace.write[o]) - Cardinality(SpanOf(trace.write[o]))

\* Mutant: the copy of a fragmented object is left to the other policy.
CachedWhole(o) ==
  [b \in Bytes |-> IF ~Fragmented(o) /\ b \in SpanOf(trace.write[o]) THEN device[o][b] ELSE value_cache[o][b]]

\* What is copied to value_cache: from the first start to the end of the last
\* range, and from the start of the object on the device.
Cached(o) ==
  LET rs    == trace.write[o]
      start == Min({r[1] : r \in rs})
      end   == (CHOOSE r \in rs : \A q \in rs : q[1] <= r[1])[2]
  IN IF Fragmented(o)
     THEN [b \in Bytes |-> IF b \in SpanOf(rs) THEN device[o][b] ELSE value_cache[o][b]]
     ELSE [b \in Bytes |-> IF start <= b /\ b < end THEN device[o][b - start] ELSE value_cache[o][b]]

\* kernel_op_callback, with op_callback around it: reads are dealt with before
\* writes, they come from the writers so far.
KernelEnd(ctx) ==
  /\ trace # NoTrace
  /\ value_cache' = [o \in Allocated |-> IF o \in Written THEN Cached(o) ELSE value_cache[o]]
  /\ value' = [o \in Allocated |-> [b \in Bytes |->
                 IF b \in SpanOf(trace.write[o]) THEN value_cache'[o][b] ELSE value[o][b]]]
  /\ edges' = Linked([i \in ({"R"} \X ReadObjects) \cup ({"W"} \X Written) |->
       LET o == i[2] IN
       IF i[1] = "R"
       THEN link_ctx_node(op_node[o], ctx, mem_ctx[o], "READ", 0,
                          IF ReadTraceIgnore THEN Size ELSE Length(trace.read[o]), Size)
       ELSE link_op_node(o, ctx, RedundancyOf(o, value_cache'[o]), Length(trace.write[o]))])
  /\ op_node' = [o \in Allocated |-> IF o \in Written THEN ctx ELSE op_node[o]]
  /\ written' = Rewritten(Cardinality({x \in touched.write : touched.before[x[1]][x[2]] = device[x[1]][x[2]]}),
                          Cardinality(touched.write))
  /\ flows' = flows \cup {<<writer[x[1]][x[2]], ctx, x[1]>> : x \in touched.read}
  /\ writer' = [o \in Allocated |-> [b \in Bytes |-> IF <<o, b>> \in touched.write THEN ctx ELSE writer[o][b]]]
  /\ inside' = inside \cup {o \in Written : ~Fragmented(o) /\
                               (0 \notin SpanOf(trace.write[o]) \/ Overlap(trace.write[o]))}
  /\ overlapped' = (overlapped \/ \E o \in Written : Overlap(trace.write[o]))
  /\ trace' = NoTrace /\ touched' = NoTouch
  /\ count' = count + 1
  /\ UNCHANGED <<device, mem_ctx>>

-----------------------------------------------------------------------------
Init ==
  /\ device = <<>> /\ value = <<>> /\ value_cache = <<>>
  /\ op_node = <<>> /\ mem_ctx = <<>> /\ edges = <<>>
  /\ trace = NoTrace /\ count = 0
  /\ writer = <<>> /\ touched = NoTouch /\ flows = {} /\ written = [same |-> 0, bytes |-> 0]
  /\ inside = {} /\ overlapped = FALSE

Next ==
  \/ \E o \in Objects, ctx \in Ctxs :
       \/ Malloc(o, ctx)
       \/ \E r \in {<<0, Size>>, <<1, Size>>} :
            \/ \E v \in Values : Memset(o, ctx, r, v) \/ CopyFromHost(o, ctx, r, v)
            \/ CopyToHost(o, ctx, r)
       \/ \E dst \in Objects, len \in {1, Size} : CopyOnDevice(o, dst, ctx, len)
  \/ AnalysisBegin
  \/ \E r \in Reads : UnitRead(r)
  \/ \E r \in Writes, v \in Values : UnitWrite(r, v)
  \/ \E ctx \in Ctxs : KernelEnd(ctx)

Spec == Init /\ [][Next]_vars

-----------------------------------------------------------------------------
(* Properties *)

\* The edges of object o lead from one context to another: it is in every set that
\* holds the contexts after the first one and after those in the set.
Leads(o, from, to) ==
  LET es == {e \in DOMAIN edges : e[3] = mem_ctx[o] /\ e[4] # "SINK"}
  IN \A S \in SUBSET (Ctxs \cup {Host}) :
       (\A e \in es : e[1] \in S \cup {from} => e[2] \in S) => to \in S

\* If a context read a byte, the graph has a way for that object from the context
\* that wrote the byte last to the reader, although the analysis keeps one writer
\* per object only (link_op_node, link_ctx_node).
FlowReaches == \A x \in flows : Leads(x[3], x[1], x[2])

\* The ranges of a kernel cover exactly the bytes it accessed, whatever the order
\* of the accesses and although a region may span objects (merge_memory_range,
\* trace_analyze_address_analysis); with reads ignored, one range stands for
\* an object that was read.
RangesExact ==
  trace # NoTrace => \A o \in Objects :
    /\ SpanOf(trace.write[o]) = {x[2] : x \in {y \in touched.write : y[1] = o}}
    /\ ~ReadTraceIgnore => SpanOf(trace.read[o]) = {x[2] : x \in {y \in touched.read : y[1] = o}}
    /\ (trace.read[o] = {}) = ({y \in touched.read : y[1] = o} = {})

Order == {e \in DOMAIN edges : e[4] = "ORDER"}

\* Between kernels the copy on the host is what the device holds, and the edges
\* of writes count exactly the bytes that were written, and the ones of them that
\* were left as they were ("Compute redundancy and update host").  It fails when a
\* kernel writes an object that is copied as one range from inside, or in ranges
\* that overlap.
ShadowExact ==
  trace = NoTrace =>
    /\ value = device
    /\ Total(Order, LAMBDA e : edges[e].redundancy) = written.same
    /\ Total(Order, LAMBDA e : edges[e].overwrite) = written.bytes

\* What holds for any kernels (Cached, update_op_metrics).  The copy is right for
\* every object but those that were copied as one range after a kernel had written
\* them from inside or in overlapping ranges, and what was copied from them.  Every
\* byte written is counted, none twice unless ranges overlapped; the bytes left as
\* they were are counted exactly until then, and are never more than those written.
ShadowOutside ==
  trace = NoTrace =>
    /\ \A o \in Allocated \ inside : value[o] = device[o]
    /\ inside = {} /\ ~overlapped => Total(Order, LAMBDA e : edges[e].redundancy) = written.same
    /\ Total(Order, LAMBDA e : edges[e].overwrite) >= written.bytes
    /\ ~overlapped => Total(Order, LAMBDA e : edges[e].overwrite) = written.bytes
    /\ \A e \in Order : edges[e].redundancy <= edges[e].overwrite

=============================================================================
