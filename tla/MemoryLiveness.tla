--------------------------- MODULE MemoryLiveness ---------------------------
(***************************************************************************)
(* The memory liveness analysis (redshow/src/analysis/memory_liveness.cpp, *)
(* built with REDSHOW_GPU_ANALYSIS and REDSHOW_TORCH_SUBMEMORY_ANALYSIS):  *)
(* for every memory object and every sub-allocation of the framework the   *)
(* operations that touched it, the memory in use and its peaks, and the    *)
(* graph of module DependencyGraph, which the flush takes apart into       *)
(* topological levels.                                                     *)
(*                                                                         *)
(* The tool gives each operation an id when it happens.  Allocations,      *)
(* copies and memsets report at once, a kernel reports what it touched     *)
(* after it has run, in three steps between which other threads go on: in  *)
(* this build analysis_begin takes no lock.                                *)
(***************************************************************************)
EXTENDS DependencyGraph, FiniteSetsExt

CONSTANTS
  Ranges,      \* [start, end) pairs cudaMalloc may return
  SubRanges,   \* [start, end) pairs the framework's allocator may return
  CopyRanges,  \* [start, end) pairs a copy or a memset may name
  Streams,
  MaxOps,      \* bound on the operation ids
  MaxInFlight  \* bound on the kernels that have not reported yet

AllRanges == Ranges \cup SubRanges \cup CopyRanges

ASSUME LivenessAssumption ==
  /\ MaxOps \in Nat /\ MaxInFlight \in Nat
  /\ \A r \in AllRanges : r.start \in Nat \ {0} /\ r.end \in Nat /\ r.start < r.end

OpIds == 1 .. MaxOps

VARIABLES
  op,        \* the tool's operation counter
  live,      \* device objects: id of the allocation -> range
  sub_live,  \* sub-allocations: id of the allocation -> range
  inflight,  \* kernels that have not returned from redshow_kernel_end
  memories,  \* the tables of the objects
  submemories, \* the tables of the sub-allocations
  graph,
  op_node,   \* operations with a calling context
  phase,     \* "run", then the flush: "topo", "done"
  top_index, level, \* dump_topological_order: round, and operation -> round
  touched,   \* <<object, operation>> that happened and was reported (history)
  accesses,  \* <<object, operation, "r" or "w">> of the marked accesses (history)
  sub_written \* <<sub-allocation, operation>> of copies and memsets that wrote (history)

device == <<live, sub_live>>
tables == <<memories, submemories, graph, op_node>>
flush == <<phase, top_index, level>>
history == <<touched, accesses, sub_written>>
vars == <<op, device, inflight, tables, flush, history>>

-----------------------------------------------------------------------------
(* The tables, once for objects and once for sub-allocations *)

Len2(r) == r.end - r.start

EmptyTable ==
  [current      |-> EmptyMap, \* _current_memories: id -> range
   addresses    |-> EmptyMap, \* _addresses_map: start -> id
   operations   |-> {},       \* _operations: <<object, operation, kind>>
   usage        |-> 0,        \* _current_memory_usage
   peak         |-> 0,        \* _current_memory_peak
   optimal_peak |-> 0,        \* _optimal_memory_peak
   peak_kernel  |-> 0]        \* _memory_peak_kernel

Erase(map, k) == [x \in DOMAIN map \ {k} |-> map[x]]

\* Mutant: an address that was once known keeps its object.
EraseNot(map, k) == map

\* _addresses_map.erase(address)
EraseAddress(map, k) == Erase(map, k)

\* try_emplace: a key that is present keeps its value.
TryEmplace(map, k, v) == IF k \in DOMAIN map THEN map ELSE Put(map, k, v)

\* Mutant: an object that is listed keeps the operation it is listed with.
operation_register_once(T, objs, o, kind) ==
  LET new == {m \in objs : \A x \in T.operations : x[1] # m} IN
  [T EXCEPT !.operations = @ \cup {<<m, o, kind>> : m \in new}]

\* An operation is listed once per object, with its first kind.
memory_operation_register(T, objs, o, kind) ==
  LET new == {m \in objs : \A x \in T.operations : x[1] # m \/ x[2] # o} IN
  [T EXCEPT !.operations = @ \cup {<<m, o, kind>> : m \in new}]

Peak(T, usage) == IF usage > T.peak THEN usage ELSE T.peak

\* memory_op_callback
Allocated(T, o, r) ==
  LET U == [T EXCEPT !.current = TryEmplace(@, o, r),
                     !.addresses = TryEmplace(@, r.start, o),
                     !.usage = @ + Len2(r),
                     !.peak = Peak(T, T.usage + Len2(r))] IN
  memory_operation_register(U, {o}, o, "ALLOC")

\* memfree_op_callback; the object is looked up by the address that is freed.
Freed(T, o, r) ==
  LET m == T.addresses[r.start] IN
  memory_operation_register(
    [T EXCEPT !.addresses = EraseAddress(@, r.start),
              !.current = Erase(@, m),
              !.usage = @ - Len2(r)], {m}, o, "FREE")

SumLen(map, ids) == MapThenSumSet(LAMBDA m : Len2(map[m]), ids)

\* update_aux_hit for the start addresses the kernel hit.
update_aux_hit(T, o, starts) ==
  LET ids == {T.addresses[a] : a \in starts}
      use == SumLen(T.current, ids)
      U   == memory_operation_register(T, ids, o, "ACCESS") IN
  IF T.optimal_peak < use THEN [U EXCEPT !.optimal_peak = use, !.peak_kernel = o] ELSE U

\* Map::prev on start addresses, 0 for end()
PrevStart(T, a) ==
  LET below == {x \in DOMAIN T.addresses : x <= a} IN
  IF below = {} THEN 0 ELSE CHOOSE x \in below : \A y \in below : y <= x

\* Mutant: the sub-allocations that start inside the range.
SubsStarting(T, r) == {T.addresses[a] : a \in {x \in DOMAIN T.addresses : r.start <= x /\ x < r.end}}

\* From liter to riter: the sub-allocations a copy or a memset is counted for.
SubsOf(T, r) ==
  IF PrevStart(T, r.start) = 0 THEN {}
  ELSE {T.addresses[a] : a \in {x \in DOMAIN T.addresses :
          PrevStart(T, r.start) <= x /\ x <= PrevStart(T, r.end)}}

\* A copy out of the device is counted only if the range ends at or beyond the
\* start of another sub-allocation.
SubsReadOf(T, r) ==
  IF PrevStart(T, r.start) = PrevStart(T, r.end) THEN {} ELSE SubsOf(T, r)

-----------------------------------------------------------------------------
(* Operations of the application, with the callbacks they cause *)

Overlaps(r, q) == r.start < q.end /\ q.start < r.end
Inside(r, q)   == q.start <= r.start /\ r.end <= q.end

\* The object redshow_memory_query finds for the start of a range.
ObjectOf(r) == CHOOSE m \in DOMAIN live : Inside(r, live[m])
OnDevice(r) == \E m \in DOMAIN live : Inside(r, live[m])

\* The next operation, which reads the objects R and writes the objects W.
NextOp(R, W) ==
  /\ phase = "run"
  /\ op < MaxOps
  /\ op' = op + 1
  /\ touched' = touched \cup ((R \cup W) \X {op + 1})
  /\ accesses' = accesses \cup (R \X {op + 1} \X {"r"}) \cup (W \X {op + 1} \X {"w"})
  /\ UNCHANGED flush

\* memory_op_callback
Malloc(r, s) ==
  /\ \A m \in DOMAIN live : ~ Overlaps(live[m], r)
  /\ NextOp({}, {op + 1})
  /\ live' = Put(live, op + 1, r)
  /\ memories' = Allocated(memories, op + 1, r)
  /\ graph' = update_graph_at_malloc(graph, op + 1, s)
  /\ op_node' = op_node \cup {op + 1}
  /\ UNCHANGED <<sub_live, inflight, submemories, sub_written>>

\* The objects that kernel k hits.
Hit(k) == k.read \cup k.write \cup k.atomic

InUse(ids) == \E k \in inflight : ids \cap (Hit(k) \cup k.sub) # {}

\* memfree_op_callback.  An object is released after the launches that use it
\* have returned.
MemFree(m, s) ==
  /\ ~ InUse({m})
  /\ \A x \in DOMAIN sub_live : ~ Inside(sub_live[x], live[m])
  /\ NextOp({}, {m})
  /\ live' = Erase(live, m)
  /\ memories' = Freed(memories, op + 1, live[m])
  /\ graph' = update_graph_at_free(graph, op + 1, s, memories.addresses[live[m].start])
  /\ op_node' = op_node \cup {op + 1}
  /\ UNCHANGED <<sub_live, inflight, submemories, sub_written>>

SubMalloc(r) ==
  /\ OnDevice(r)
  /\ \A x \in DOMAIN sub_live : ~ Overlaps(sub_live[x], r)
  /\ NextOp({}, {})
  /\ sub_live' = Put(sub_live, op + 1, r)
  /\ submemories' = Allocated(submemories, op + 1, r)
  /\ UNCHANGED <<live, inflight, memories, graph, op_node, sub_written>>

SubFree(x) ==
  /\ ~ InUse({x})
  /\ NextOp({}, {})
  /\ sub_live' = Erase(sub_live, x)
  /\ submemories' = Freed(submemories, op + 1, sub_live[x])
  /\ UNCHANGED <<live, inflight, memories, graph, op_node, sub_written>>

\* What a write to r changes, if it starts in a sub-allocation.
SubsWritten(r) ==
  {x \in DOMAIN sub_live : /\ Overlaps(sub_live[x], r)
                           /\ \E y \in DOMAIN sub_live : /\ sub_live[y].start <= r.start
                                                         /\ r.start < sub_live[y].end}

\* The device memory of r is written in stream s.
Written(r, s, kind) ==
  /\ OnDevice(r)
  /\ NextOp({}, {ObjectOf(r)})
  /\ sub_written' = sub_written \cup {<<x, op + 1>> : x \in SubsWritten(r)}
  /\ graph' = update_graph_at_access(graph, op + 1, s, {}, {ObjectOf(r)})
  /\ memories' = memory_operation_register(memories, {ObjectOf(r)}, op + 1, kind)
  /\ submemories' = memory_operation_register(submemories, SubsOf(submemories, r), op + 1, kind)
  /\ op_node' = op_node \cup {op + 1}
  /\ UNCHANGED <<device, inflight>>

\* memset_op_callback
MemSet(r, s) == Written(r, s, "SET")

\* memcpy_op_callback from the host to the device
CopyFromHost(r, s) == Written(r, s, "COPYT")

\* memcpy_op_callback from the device to the host
CopyToHost(r, s) ==
  /\ OnDevice(r)
  /\ NextOp({ObjectOf(r)}, {})
  /\ graph' = update_graph_at_access(graph, op + 1, s, {ObjectOf(r)}, {})
  /\ memories' = memory_operation_register(memories, {ObjectOf(r)}, op + 1, "COPYF")
  /\ submemories' = memory_operation_register(submemories, SubsReadOf(submemories, r), op + 1, "COPYF")
  /\ op_node' = op_node \cup {op + 1}
  /\ UNCHANGED <<device, inflight, sub_written>>

\* memcpy_op_callback from device to device, with the streams of both sides
CopyOnDevice(src, dst, src_stream, dst_stream) ==
  /\ OnDevice(src) /\ OnDevice(dst)
  /\ NextOp({ObjectOf(src)}, {ObjectOf(dst)})
  /\ sub_written' = sub_written \cup {<<x, op + 1>> : x \in SubsWritten(dst)}
  /\ graph' = update_graph_at_access(
                update_graph_at_access(graph, op + 1, src_stream, {ObjectOf(src)}, {}),
                op + 1, dst_stream, {}, {ObjectOf(dst)})
  /\ memories' = memory_operation_register(
                   memory_operation_register(memories, {ObjectOf(src)}, op + 1, "COPYF"),
                   {ObjectOf(dst)}, op + 1, "COPYT")
  /\ submemories' = memory_operation_register(
                      memory_operation_register(submemories, SubsReadOf(submemories, src), op + 1, "COPYF"),
                      SubsOf(submemories, dst), op + 1, "COPYT")
  /\ op_node' = op_node \cup {op + 1}
  /\ UNCHANGED <<device, inflight>>

\* A kernel starts; it reads the objects R, writes the objects W, does nothing
\* but atomics on the objects A, and touches the sub-allocations S of them.
Launch(s, R, W, A, S) ==
  /\ R \cap W = {} /\ A \cap (R \cup W) = {}
  /\ \A x \in S : \E m \in R \cup W \cup A : Inside(sub_live[x], live[m])
  /\ Cardinality(inflight) < MaxInFlight
  /\ NextOp({}, {})
  /\ inflight' = inflight \cup {[op |-> op + 1, stream |-> s, read |-> R, write |-> W,
                                 atomic |-> A, sub |-> S, stage |-> "run"]}
  /\ UNCHANGED <<device, tables, sub_written>>

Starts(rs, ids) == {rs[m].start : m \in ids}

Advance(k, from, to) ==
  /\ k.stage = from
  /\ inflight' = (inflight \ {k}) \cup {[k EXCEPT !.stage = to]}

\* analysis_begin adds the kernel's dictionaries of hits to the tables: first
\* update_aux_hit for the objects,
AnalysisHit(k) ==
  /\ Advance(k, "run", "hit")
  /\ memories' = update_aux_hit(memories, k.op, Starts(live, Hit(k)))
  /\ touched' = touched \cup (Hit(k) \X {k.op})
  /\ UNCHANGED <<op, device, submemories, graph, op_node, flush, accesses, sub_written>>

\* then update_graph_at_kernel,
AnalysisGraph(k) ==
  LET objects(ids) == {memories.addresses[a] : a \in Starts(live, ids)} IN
  /\ Advance(k, "hit", "graph")
  /\ graph' = update_graph_at_kernel(graph, k.op, k.stream,
                objects(Hit(k)), objects(k.read), objects(k.write))
  /\ accesses' = accesses \cup (k.read \X {k.op} \X {"r"}) \cup (k.write \X {k.op} \X {"w"})
  /\ UNCHANGED <<op, device, memories, submemories, op_node, flush, touched, sub_written>>

\* then update_aux_hit for the sub-allocations.
AnalysisSubHit(k) ==
  /\ Advance(k, "graph", "analysed")
  /\ submemories' = update_aux_hit(submemories, k.op, Starts(sub_live, k.sub))
  /\ UNCHANGED <<op, device, memories, graph, op_node, flush, history>>

\* kernel_op_callback; the trace of the kernel may have been refused before.
KernelEnd(k) ==
  /\ k.stage \in {"run", "analysed"}
  /\ inflight' = inflight \ {k}
  /\ op_node' = op_node \cup {k.op}
  /\ UNCHANGED <<op, device, memories, submemories, graph, flush, history>>

-----------------------------------------------------------------------------
(* flush *)

Flush ==
  /\ phase = "run" /\ inflight = {}
  /\ phase' = "topo"
  /\ UNCHANGED <<op, device, inflight, tables, top_index, level, history>>

\* One round of dump_topological_order.  A round that finds no node to remove
\* changes nothing but top_index, which is followed up to MaxOps.
TopologicalRound ==
  /\ phase = "topo" /\ graph.nodes # {}
  /\ top_index <= MaxOps
  /\ LET ns == get_no_inedge_nodes(graph) IN
     /\ graph' = remove_nodes(graph, ns)
     /\ level' = [n \in DOMAIN level \cup ns |-> IF n \in ns THEN top_index ELSE level[n]]
  /\ top_index' = top_index + 1
  /\ UNCHANGED <<op, device, inflight, memories, submemories, op_node, phase, history>>

TopologicalEnd ==
  /\ phase = "topo" /\ graph.nodes = {}
  /\ phase' = "done"
  /\ UNCHANGED <<op, device, inflight, tables, top_index, level, history>>

Done == (phase = "done" \/ top_index > MaxOps) /\ UNCHANGED vars

Init ==
  /\ op = 0
  /\ live = EmptyMap /\ sub_live = EmptyMap
  /\ inflight = {}
  /\ memories = EmptyTable /\ submemories = EmptyTable
  /\ graph = EmptyGraph
  /\ op_node = {}
  /\ phase = "run" /\ top_index = 0 /\ level = EmptyMap
  /\ touched = {} /\ accesses = {} /\ sub_written = {}

Next ==
  \/ \E r \in Ranges, s \in Streams : Malloc(r, s)
  \/ \E m \in DOMAIN live, s \in Streams : MemFree(m, s)
  \/ \E r \in SubRanges : SubMalloc(r)
  \/ \E x \in DOMAIN sub_live : SubFree(x)
  \/ \E r \in CopyRanges, s \in Streams : MemSet(r, s)
  \/ \E r \in CopyRanges, s \in Streams : CopyToHost(r, s)
  \/ \E r \in CopyRanges, s \in Streams : CopyFromHost(r, s)
  \/ \E src, dst \in CopyRanges, s, t \in Streams : CopyOnDevice(src, dst, s, t)
  \/ \E s \in Streams, R, W, A \in SUBSET DOMAIN live, S \in SUBSET DOMAIN sub_live : Launch(s, R, W, A, S)
  \/ \E k \in inflight : AnalysisHit(k)
  \/ \E k \in inflight : AnalysisGraph(k)
  \/ \E k \in inflight : AnalysisSubHit(k)
  \/ \E k \in inflight : KernelEnd(k)
  \/ Flush \/ TopologicalRound \/ TopologicalEnd \/ Done

Spec == Init /\ [][Next]_vars
-----------------------------------------------------------------------------
(* Properties *)

\* The operations listed for an object are exactly those that touched it, also
\* when its address had belonged to another object before
\* (_addresses_map, memory_operation_register, output_memory_operation_list).
OperationsExact ==
  {<<x[1], x[2]>> : x \in memories.operations} = touched

\* The memory in use is that of the live objects, for objects and for
\* sub-allocations, the addresses lead to them, the peak is never below, and the
\* peak a kernel needs is never above the peak that was allocated
\* (_current_memory_usage, _current_memory_peak, _optimal_memory_peak).
UsageExact(T, objs) ==
  /\ T.current = objs
  /\ T.usage = SumLen(objs, DOMAIN objs)
  /\ \A m \in DOMAIN objs : T.addresses[objs[m].start] = m
  /\ T.usage <= T.peak /\ T.optimal_peak <= T.peak

\* The same of both tables.
UsagesExact == UsageExact(memories, live) /\ UsageExact(submemories, sub_live)

\* The sets of operations that contain, with an operation, all that depend on it.
Closed == {S \in SUBSET OpIds : \A e \in graph.edge_list : e.from \in S => e.to \in S}

\* The graph orders one of two operations after the other, whatever their
\* streams: every closed set that contains one of them contains the other.
Ordering(closed, a, b) ==
  \/ \A S \in closed : a \in S => b \in S
  \/ \A S \in closed : b \in S => a \in S

\* Of two operations on an object of which one writes it, the graph orders one
\* after the other, if the kernels among them are marked for the object
\* (update_graph_at_access, update_graph_at_free, update_graph_at_kernel).
ConflictsOrdered ==
  LET closed == Closed IN
  \A x, y \in accesses :
    x[1] = y[1] /\ x[2] # y[2] /\ "w" \in {x[3], y[3]} => Ordering(closed, x[2], y[2])

\* Every object a kernel hits is marked as read or as written, "It shouldn't
\* take this branch!!!" otherwise: the operations on an object are ordered, of
\* which one does something else than read (update_graph_at_kernel).  It fails for
\* a kernel that does nothing but atomics on an object, which sets neither mark.
HitsOrdered ==
  LET closed == Closed
      Told == {x \in touched : ~ \E k \in inflight : k.op = x[2] /\ k.stage = "hit"}
      Reads(x) == <<x[1], x[2], "r">> \in accesses
  IN  \A x, y \in Told :
        x[1] = y[1] /\ x[2] # y[2] /\ ~ (Reads(x) /\ Reads(y)) => Ordering(closed, x[2], y[2])

\* A copy or a memset that starts in a sub-allocation is listed for every
\* sub-allocation it writes (memcpy_op_callback, memset_op_callback).
SubWritesKept == sub_written \subseteq {<<x[1], x[2]>> : x \in submemories.operations}

\* The operations that read and write one object: copies inside it.
SelfCopies == {o \in OpIds : \E m \in OpIds : {<<m, o, "r">>, <<m, o, "w">>} \subseteq accesses}

\* A round of dump_topological_order finds no node to remove only if a copy
\* inside one object is left, which waits for itself; it places an operation in
\* a later round than those it depends on, and finds the calling context of
\* each (_op_node.at).
FlushProgresses ==
  /\ phase = "topo" /\ graph.nodes # {} /\ get_no_inedge_nodes(graph) = {} =>
       graph.nodes \cap SelfCopies # {}
  /\ \A e \in graph.edge_list : e.to \in DOMAIN level =>
       e.from \in DOMAIN level /\ level[e.from] < level[e.to]
  /\ DOMAIN level \subseteq op_node

\* redshow_flush flushes back all the results: dump_topological_order finds a
\* node to remove as long as there are nodes, and so comes to its end.  It fails
\* after a copy inside one object.
FlushReturns == phase = "topo" /\ graph.nodes # {} => get_no_inedge_nodes(graph) # {}

=============================================================================
