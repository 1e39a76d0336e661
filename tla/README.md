# TenProf in TLA+

This project models the parts of TenProf whose correctness depends on the order
in which threads, GPU warps and callbacks act, or on bounds and boundaries that
tests hardly reach.  TLC checks the models on small instances, and TLAPS proves
the most important results for every size.

TenProf attributes GPU memory accesses and stalls to PyTorch tensors.  It has
four parts of its own, which HPCToolkit (not in this repository) connects:

* **gpu-patch** (`include/`, `src/`): code that the compute-sanitizer inserts in
  GPU kernels.  Warps put records of their accesses in a buffer, or mark
  tensors in a bitmap; a kernel or the host reads them.
* **redshow** (`redshow/`): a library with tables of memory objects, cubins and
  tensors, which attributes the records and runs the analyses.
* **torch-monitor** (`torch-monitor/`): turns PyTorch's hooks into callbacks.
* **the driver** (`bin/`): scripts that run the phases of a profile.

## Inventory

| Component | State | Operations | Hard behaviour | Correct means |
|---|---|---|---|---|
| GPU record queue (`gpu-queue.h`, `gpu-patch*.cu`) | `tail_index`, `head_index`, `full`, `analysis`, `num_threads`, the slots | get, push, exit, read | hundreds of warps and a reader on plain and atomic words; reset of two counters; memory order | slots exclusive, nothing lost, repeated or reordered, nobody waits for ever |
| GPU interval analysis (`gpu-analysis.cu`, `utils.h`) | read and write buffers | sort, compact, merge | inactive lanes, tiles, remainders, two passes | the intervals cover exactly what was accessed |
| GPU dictionary and TorchView patches (`gpu-patch-aux*.cu`) | dictionaries, marks, bit map | search, mark | words shared by warps, rows of words, filters | what was touched is marked, every mark comes from an access |
| Memory snapshots (`redshow.cpp`) | `memory_snapshot`, `sub_memory_snapshot`, `mini_host_op_id` | (un)register, copy, query, ranges, analyze, begin/end of a round | ids drawn before the lock; pointers used after it; discarding | a trace gets the object that had the address when its kernel ran |
| Cubin registry (`redshow.cpp`) | `cubin_map`, `cubin_cache_map` | (un)register, cache, lookup | check, unlock, register, check again | a trace whose cubin is known is analysed |
| Temporal and spatial redundancy | traces per CPU thread and kernel | begin, unit access, block exit, end, flush of a thread | order of accesses, GPU threads that end, full queues of views | redundant pairs are exact, reports are the top views |
| Memory liveness (`memory_liveness.*`) | tables of objects and sub-allocations, peaks, dependency graph | allocation, release, copy, memset, kernel, flush | address reuse, kernels that report late, two streams | lists and peaks are those of the device, conflicts are ordered, the flush takes the graph apart |
| Data flow, data dependency | graph of contexts, ranges of a kernel, copy of the device | allocation, memset, copies, kernel | overlapping ranges, regions that span objects, two copy policies | data flows along edges, ranges are exact, the copy is that of the device |
| Locking of the callbacks (`redshow.cpp`, `torch_view.cpp`, `memory_liveness.cpp`) | interpreter lock, sanitizer lock, callback mutex, analysis and table locks | every callback | threads that enter with and without the interpreter lock | no deadlock, exclusive use of shared tables |
| View forest (`torch_view.h`, `torch_view.cpp`, `redshow.cpp`) | `_roots`, the trees, `call_path_map`, `_op_stack`, `_input_viewnode_forest_ptrs`, `torchview_memory_snapshot`, `torchview_dict` | enter, exit, alloc, free, launch (2 steps), analysis_begin, kernel end, flush | raw pointers across releases; positions in a map as the key between GPU and host | forest well formed, marks go to the tensor that was touched, no access lost |
| torch-monitor | domains, callback, nesting level, thread-local memory state, cached Python stack | enable, init, thread init and end, operators, reports | set-up while operators run, thread-local registration, nesting | levels exact, no allocation missed, kernels under the right stack |
| Trace lifecycle and the public interface | enabled analyses, kernel begin and end | enable, flush | | |
| Memory profile, heatmap, torch-monitor analyses | tables as in memory liveness | | | |
| Value pattern | counters per trace | unit access, flush | sequential, floating point | counts |
| Instruction parser, driver, installer | none that lasts | | text and processes | |

Interaction: PyTorch calls torch-monitor, which calls `torch_view_callback` or
`torch_memory_callback` in redshow.  The sanitizer calls redshow around each
launch (ranges for the GPU's dictionary), then, with the records or marks,
`redshow_analyze`, which looks up the cubin and the memory snapshot and feeds
the analyses.  All of these run on the threads of the application; they share
redshow's tables.

## Modules

| Module | Models | Used by |
|---|---|---|
| `GpuQueue` | the record buffer, warps and reader | runs `queue_*` |
| `RecordStream` | abstract specification of a stream of records | `GpuQueue!ImplementsStream` |
| `GpuQueueProofs` | theorems about `GpuQueue` | |
| `WarpIntervals` | sort, compaction and merge of addresses, as functions | `GpuPatches` |
| `GpuPatches`, `MCGpuPatches` | what each patch leaves for the host; instance | run `gpu_patches` |
| `MemorySnapshot`, `MCMemorySnapshot` | the tables of memory objects; instance | run `snapshots` |
| `MemorySnapshotProofs` | theorems about `MemorySnapshot` | |
| `CubinRegistry` | the tables of device code | `TraceAnalysis` |
| `TraceAnalysis`, `MCTraceAnalysis` | the registry used by analysis threads, with both redundancy analyses; instance | run `trace` |
| `TraceAnalysisProofs` | theorems about the registry, the temporal redundancy and the reports in `TraceAnalysis` | |
| `DependencyGraph` | the graph of operations, its functions as operators | `MemoryLiveness` |
| `MemoryLiveness`, `MCMemoryLiveness` | the memory liveness analysis; instance | run `liveness` |
| `MemoryLivenessProofs` | theorems about `MemoryLiveness` | |
| `DataFlow`, `MCDataFlow` | the data flow analysis; instance | run `dataflow` |
| `KernelAccessProofs` | theorems about the marks of `GpuPatches` and about `DataFlow` | |
| `CallbackLocks` | threads that run callbacks given as programs of acquire, release and use | |
| `RedshowCallbacks`, `MCRedshowCallbacks` | the program of each callback; instances | runs `locks_*` |
| `CallbackLocksProofs` | theorems about `CallbackLocks` | |
| `TorchView`, `MCTorchView` | the view forest with on-GPU matching; instance | run `view` |
| `TorchViewProofs` | theorems about `TorchView` | |
| `TorchMonitor`, `MCTorchMonitor` | torch-monitor under its two subscribers; instance | run `monitor` |
| `TorchMonitorProofs` | theorems about `TorchMonitor` | |

`PROJECT.json` maps every definition to its lines.  Definitions headed "Mutant"
are faulty variants used to show that a property can fail; no specification
uses them.  Variables marked "history" record what really happened, for the
properties; no guard of the code's steps reads them.

### GpuQueue

One action per atomic or visible step of `gpu_queue_get` (`Claim`,
`WaitWritten`, `Notify`, `WaitRead`, `ResetHead`, `ResetTail`, `SpinExit`), the
store of the record, `Push`, the exit of a warp, and the reader's steps.  The
warp is the unit: its first lane does the atomics.  A record is a warp and a
number.  Record stores go through `wbuf` and reach memory by `Drain`, in any
order; the leader's fences empty its own.  `GpuSync` chooses the reader: the
host, which polls `full` and takes the rest when the kernel is over, or
`gpu_analysis_interval_merge`, which polls `analysis` and `num_threads`.
`tail_index` wraps at `Modulus`, which stands for 2^32.

`gpu_queue_push` has no fence, so `Push` counts a record whether or not its
stores have reached memory, and the leader's fences, which come after its count,
order only its own stores.  `slots` is what memory holds; `stored` (history) is
the record last stored in a slot, also while the store is on its way.
`SlotExclusive`, `AllReceived` and `ImplementsStream` are about which slot
belongs to which record and hold for the code; that memory holds the record when
the reader is at its slot is `PushedVisible`, and the code does not ensure it.

### WarpIntervals and GpuPatches

`WarpIntervals` has the analysis kernel's computation: `warp_sort` is the
bitonic network, stage by stage and lane by lane; `interval_compact` turns a
record into intervals; `interval_merge` merges tiles of `Tile` intervals by
counting open ends over the sorted keys, first tile by tile and then over
everything, with the remainder of an incomplete tile.

`GpuPatches` runs one kernel under one of four patches.  With `"address"`, warps
write records and `Analyze` is a turn of the analysis kernel, for reads and then
for writes.  With `"aux"` and `"torch_aux"`, a thread searches the dictionary
(`map_prev`), loads the hit mark, stores it, stores the mode or the mark of the
sub-allocation, and pushes the record it did not filter out; each is a step, and
all threads share the marks.  With `"torchview"` it loads a word of the bit map
and stores it with its bit set.

`1 << (pos % 64)` is a shift of an `int` that is then widened to the word.
`bit_masks` has the masks it may give: below the sign place the bit; at the
sign place all the bits from there on; above it the shift is undefined, and any
mask may result.  `WordBits` and `IntBits` stand for 64 and 32.

Left out: the block callbacks and the handshake (in `GpuQueue`), values of
`gpu-patch.cu`, the dictionary filter of the address patch.

### MemorySnapshot

An application thread draws an id when the device operation happens (`Malloc`,
`Free`, `Copy`, `Launch`, `SubMalloc`, `SubFree`; the ids are the tool's) and
makes its call to redshow later; each call is one critical section.  Analysis
threads take traces in launch order and run `analysis_begin`, `analyze`
(`FetchSnapshot` under the lock, `UseSnapshot` without) and `analysis_end`.
`live` and `sub_live` record what was on the device after each operation; the
properties compare redshow's answers with them.  `overtaken` records the
operations whose call came after that of a later one, `discarded` the newest
kernel that was the oldest of a round that has ended.  The properties with
`InOrder` use them to say, for any number of threads, what redshow's tables are
good for when calls overtake each other.

### CubinRegistry and TraceAnalysis

The registry is two maps with the functions that change them.  `TraceAnalysis`
takes `trace_analyze` apart at its locks: `Lookup`, `LookupCache`, `Register`
(which reads the file and may fail), `LookupAgain`.  The tool loads modules into
the registry or the cache, and unloads them; not while a thread uses their
symbols, because the code holds a plain pointer there.  Then `AnalysisBegin`,
one `Record` per record with `unit_access` and `block_exit` of both analyses,
`AnalysisEnd`, and `FlushThread` with the bounded queues of views, their
statistics, and the pcs as functions and offsets.  A trace is a sequence of records
in program order; an object does not change under it (that is `MemorySnapshot`).

The loop skips a record of size 0.  `gpu-patch.cu` sets no size in the record of
a block exit; `StaleSizes` are the sizes such a record may find in its slot, 0
among them.

Left out: the instruction graph of a cubin, output files, and floating point
rounding of values.

### DependencyGraph and MemoryLiveness

A graph is a record, and `add_node`, `remove_node`, `update_graph_at_malloc`,
`_free`, `_access`, `_kernel` and `update_stream_nodes` map a graph to the next.
`update_graph_at_kernel` has the three branches of the code: an object that was
hit is written, or read, or has neither mark, in which case the code only prints.

`MemoryLiveness` has one table for objects and one for sub-allocations, the
operations of the application with the callbacks they cause, kernels that report
after they ran, and the rounds of `dump_topological_order`.  With
`REDSHOW_GPU_ANALYSIS` `analysis_begin` takes no lock, so it is three steps
(`AnalysisHit`, `AnalysisGraph`, `AnalysisSubHit`), one per call it makes, with
operations of other threads between them, and `KernelEnd` is a fourth.  A kernel
reads some objects, writes some and does nothing but atomics on some (`atomic`).
A copy may have both its ends in one object.  A round of the flush that finds
nothing to remove repeats; `top_index` is followed up to `MaxOps`.  `touched`,
`accesses` (those that set a mark) and `sub_written` record what happened.  The
build is the one with `REDSHOW_GPU_ANALYSIS` and `REDSHOW_TORCH_SUBMEMORY_ANALYSIS`.

Each of the three calls is one step: that two threads change one `std::map` at
the same time without a lock is undefined in C++, and what it may do is not
modelled.

Left out: calling contexts and Python states, which are copied and printed; the
layout of the output files.

### DataFlow

Objects have bytes with values.  Operations between kernels are atomic, as the
analysis demands a single application thread.  A kernel begins a trace, its
accesses are merged into ranges by `merge_memory_range` after they were split by
object (`Pieces`), and its end links the graph, copies what was written from the
device (`Cached`, by one of two policies) and counts unchanged bytes.  A kernel may
write anywhere in an object, or across objects.  `writer`, `flows`, `written` and
`touched` record the truth per byte; `inside` has the objects whose copy
went wrong because a kernel wrote them from inside or in overlapping ranges,
`overlapped` says that ranges of a kernel did overlap.  `data_dependency.cpp`
is the same code under another name.

Left out: hashes (off by default) and the duplicates derived from them.

### CallbackLocks and RedshowCallbacks

A callback is a sequence of `Acquire`, `Release` and `Use`.  `RedshowCallbacks`
has the sequence of each callback, with and without the interpreter lock held on
entry.  What critical sections compute is left to the other modules.
`analysis_begin` reads the stack of domain names under `Analysis::_lock` while
the framework callbacks change it under the mutex; the programs say so, and no
exclusion is claimed for that stack.

### TorchView

The state is the code's: nodes with address, TensorImpl and block, the sorted
roots, the states of each node (how many and whether the first one has an
access, which is what the code asks), the operator stack, the pointers to the
inputs, the snapshot, and what `torchview_dict` points to.  Each framework
callback is one step under the mutex; a launch is two
(`redshow_torchview_ongpu_get_range_size`,
`redshow_torchview_assemble_patch_analysis_address`), followed by
`analysis_begin` and `kernel_op_callback`.  Marks are positions, as in the
bitmap.  A pointer to a deleted node may yield what the node held or something
that never matches (`Dead`, `Rebuilt`).  Tensors are passed to operators only
while their block is allocated, and PyTorch keeps the arguments of running
operators (`Held`).

The sanitizer's lock of a GPU context ("runs while the sanitizer holds the
per-context entry->lock", `torch_view.cpp:72`) is taken to be held from the
launch to the end of the analysis; `Context` says which threads share one.
`MarksLineUp` and `RangesFit` depend on it: with threads in two contexts TLC
finds a launch of one that replaces the snapshot by another one of the same
size while the kernel of the other runs.

Left out: matching on the CPU with its delayed trace; the `aten::copy_` and
write-after-write maps; copy and set callbacks, whose lists of views are always
empty; `viewnode_mem_range_map`, whose value is a function of the node; the
report's text.

### TorchMonitor

The calls of `redshow_torch_enable` (or `redshow_torch_view_enable`) are steps,
and PyTorch runs operators and allocates before, between and after them.
`EnterOperator` is PyTorch's callback at the start of an operator with all it
does: the memory state pushed at the first one of a thread, the level, and, for
the view tool, the fetch of the Python stack.  `LaunchKernel` reads the cached
stack.  Threads begin and end (`torch_monitor_thread_init`, `_finalize`), and so
does the process (`torch_monitor_finalize`, after the last callback).  Python
moves between operators only.  A thread may have no Python frame (`NoFrames`):
the cache is then empty, and `torch_monitor_python_state_get_cached` leaves what
the caller's buffer had.

## Runs

| Run | Shows |
|---|---|
| `queue_host` | with the host as reader: types (`TypeOK`), slots exclusive (`SlotExclusive`), reader alone (`ReaderAlone`), one leader (`OneLeader`), counter bounded (`TailBound`), the slot of every record read once (`AllReceived`), implements the stream (`ImplementsStream`) |
| `queue_gpu` | with the analysis kernel as reader: "buffer->analysis must be 0" at its end (`NoAnalysisAtEnd`), again the slot of every record read once (`AllReceived`); under fairness the leader's handshake completes (`LeaderServed`) and the only rest other than the end is a stranded warp (`ComesToRest`) |
| `queue_visible` (violation) | a record is counted before it is in memory (`PushedVisible`) |
| `gpu_patches` | the intervals cover exactly what was accessed (`IntervalsExact`); every entry that was accessed is marked, whatever the order of loads and stores (`MarksCover`); every bit of the view map is in the mask of an access to its word (`ViewMarksMasked`) |
| `snapshots` | two application and two analysis threads: snapshots and lookups of operations before the first overtaken one are exact (`SnapshotsInOrder`, `AttributionInOrder`), their traces are refused only if older than a round that has ended (`RefusedOnlyOld`) |
| `trace` | traces are refused only for a reason (`RefusalsJustified`), redundant pairs are exact for the ends of blocks that are not skipped (`RedundancyExact`), reports are the top views under the right functions (`ViewsAreTop`) |
| `liveness` | lists of operations exact although addresses are reused (`OperationsExact`), sizes and peaks (`UsagesExact`), marked conflicts ordered across streams (`ConflictsOrdered`), writes kept for sub-allocations (`SubWritesKept`), the flush progresses, level by level, up to a copy that waits for itself (`FlushProgresses`) |
| `dataflow` | data flows along edges (`FlowReaches`), ranges exact (`RangesExact`), copy and counts right for what no kernel wrote from inside or in overlapping ranges (`ShadowOutside`) |
| `monitor` | levels exact (`LevelsExact`), no allocation missed (`BlocksKnown`), kernels under their Python stack if they have one (`KernelFrames`) |
| `locks_view` | TorchView's callbacks: no deadlock (`NoWaitCycle`), forest exclusive (`ForestExclusive`), lock order respected (`Disciplined`) |
| `locks_liveness` (violation) | MemoryLiveness acquires the interpreter lock under the sanitizer lock and deadlocks |
| `view` | two threads: forest well formed (`ForestShape`), one node per tensor in a tree (`UniqueInTree`), accesses kept (`AccessesKept`), copies fit (`RangesFit`), releases clean the snapshot (`DeletedNotInSnapshot`), marks line up (`MarksLineUp`) |

The violation runs state what a comment or a message of the code says;
`PROJECT.json` quotes it under "findings".

### Where the properties stop

Where the code does not do what it says, the passing run states what it does
keep: for which threads, marks, ranges, sizes or operations.  The modules also
state what the code says, next to it; each of these definitions fails within
seconds when it takes the place of the INVARIANTS in the cfg of its run:

| Definition | Run | Fails because | Kept instead |
|---|---|---|---|
| `SnapshotsExact` | `snapshots` | an id is drawn before the call, so a registration can overtake an older one and later snapshots miss it (`redshow.cpp:1279`; `redshow.h:299` says "@thread-safe: YES") | `SnapshotsInOrder` |
| `NoTraceRefused` | `snapshots` | the minimum is thread-local, so the end of a round of one analysis thread erases the snapshot another one needs or points to (`redshow.cpp:1733`; `redshow.h:505` says "@thread-safe YES") | `RefusedOnlyOld` |
| `ViewMarksTrue` | `gpu_patches` | the 32-bit shift marks ranges that were not accessed (`gpu-patch-aux-torchview.cu:45`) | `ViewMarksMasked` |
| `RedundancyInBlocks` | `trace` | an exit record of size 0 is skipped, and values of a dead GPU thread survive (`gpu-patch.cu:166-170`, `redshow.cpp:661`) | `RedundancyExact` |
| `NoneRefused` | `trace` | the thread that loses the race to register a module has its trace refused (`redshow.cpp:841`) | `RefusalsJustified` |
| `HitsOrdered` | `liveness` | an object hit by atomics alone has no mark, and the graph update only prints "It shouldn't take this branch!!!" (`memory_liveness.cpp:1093`, `gpu-patch-aux.cu:55-60`) | `ConflictsOrdered` |
| `FlushReturns` | `liveness` | a copy inside one object waits for itself, and `dump_topological_order` loops for ever (`memory_liveness.cpp:1061`, `1212`) | `FlushProgresses` |
| `ShadowExact` | `dataflow` | the copy of a small object is taken from its start (`data_flow.cpp:106`), and overlapping ranges are counted twice (`:85`) | `ShadowOutside` |
| `LaunchingStack` | `monitor` | an operator without a Python stack leaves the stack of an earlier kernel in the caller's buffer (`torch_monitor.cc:186`) | `KernelFrames` |

Other limits, read from the code or admitted by the statement of a property:

* A warp can wait in `gpu_queue_get` for ever (`gpu-queue.h:41`): `ComesToRest`
  therefore admits a stranded warp above a full buffer.
* `redshow_memory_ranges_get` never reads its `limit` (`redshow.cpp:1484`).
* A launch after the release of an input rebuilds the snapshot from the pointers
  of deleted nodes (`redshow.cpp:110`, `torch_view.h:590`); `TorchView` has this
  step, and `DeletedNotInSnapshot` is about the releases only.
* `delete_forest_tree` is given the bytes still allocated instead of the size of
  the block (`redshow.cpp:388`), so that a tree may outlive its memory.
* `TorchView::flush` drops the states of a childless root whose first state has
  no access without the test `size() <= 1` that `delete_forest_tree` makes;
  `AccessesKept` is claimed up to the flush only.
* `_op_stack` and, with CPU-side matching, `_trace` are one for all threads
  (`redshow.cpp:447`, `torch_view.cpp:508`); the stack of domain names is read
  and changed under different locks (`torch_view.cpp:469`).
* Only the first element of a range counts for its end (`torch_view.h:441`).
* `torch_profiler.cc:70` reports more arguments than it stores when there are
  more than its limit, and ending a thread switches memory profiling off for
  all threads (`torch_profiler.cc:338`).
* The bit map is filled by `|=` without an atomic: a mark may be lost, and
  `ViewMarksMasked` claims only that none is made up beyond its mask.
* No module is unloaded while a thread uses its symbols: the code would hold a
  dangling pointer (`redshow.cpp:856`).
* A views limit of 0 would look at the top of an empty queue; `PcViewsLimit` is
  at least 1.

### Bounds

* Queue: 3 warps, 2 slots, 2 records each make three generations of the buffer,
  with a writer, a leader and a spinning warp at once; `Modulus` is the smallest
  the assumption allows, so an overrun would wrap.
* Patches: warps of 4 lanes (a network of two stages), tiles of 2 intervals and
  3 records, so that a batch has full tiles, a remainder, and neighbours on both
  sides of a border; 2 threads for the marks, entries in words of
  4 bits with an `int` of 2, so that there are places below, at and above its sign.
* Snapshots: 4 operations on 2 neighbouring ranges and one sub-range, with two
  threads of each kind: an address is allocated, released and allocated again, two
  calls overtake each other before and after a launch, and a round is discarded
  while the trace of another one is analysed.
* Trace: 2 threads, 2 modules of one cubin and one that cannot be read: both can
  miss the same module.  3 records: an access, an end or a change, and an access
  again.  Limits of 1 with two views make the queue overflow.
* Liveness: 4 operations with 2 kernels late, in 2 streams: allocate, launch,
  release and reuse, or allocate, copy inside the object, and operations behind it.
  That one operation is after another is stated by sets of
  operations closed under the edges, so no bound on the length of paths is needed.
* Data flow: 3 operations of 3 accesses on two neighbouring objects of 3 bytes,
  one of them fragmented: gaps that close, overlaps, writes from inside and
  regions across both.
* Monitor: 2 threads, nesting 2, 3 operators around 5 steps of set-up, and two
  Python stacks or none.
* Locks: 3 threads and 10 programs; two threads make an AB-BA cycle, a third
  one the cycles of length three over the ranks.
* View forest: a tensor and a view in one block, and a second block, because
  what a release deletes depends on what else is allocated; 3 nodes, so that a view
  is seen again and a tree is made again after a release.  The stack of operators
  is one for all threads, so two threads with an operator each nest them, also
  crosswise, and a launch of one comes between any two callbacks of the other.

Symmetry is used where the threads or streams are interchangeable and only
safety is checked.

### Fairness

Only `FairSpec` of `GpuQueue` has fairness: weak fairness of each warp's next
step, of the drain of its stores, and of the reader.  Resident warps are
scheduled independently, stores become visible, and the reader is a loop that
does nothing but poll.  The waits are conditions that stay true once true,
except a spinning warp's (`tail_index < size` may become false again), for
which strong fairness would be more than the hardware gives: that is why a warp
may be stranded.

The end of the flush is stated as safety: a round that finds nothing to remove
changes nothing and repeats for ever (`FlushReturns`), and one that has no copy
inside one object before it removes at least one of finitely many nodes
(`FlushProgresses`).

Runs disable the deadlock check where the program ends (all warps done, the
bound on operations reached, flushed); `locks_*` and `liveness` keep it.

## Proofs

`GpuQueueProofs`, for every set of warps, size and quota, and either reader:
type correctness, `SlotExclusive`, `OneLeader`, `TailBound`, `ReaderAlone`,
`NoAnalysisAtEnd`.  None is inductive.  `QInv` adds what ties the counters to
the warps: while no leader is about to reset, `head_index` plus the warps
between get and push is the number of slots handed out (`HeadCounts`); those
warps hold different indices below `tail_index` (`WritersHold`); a leader past
its wait has seen every push (`LeaderSaw`); a raised flag has a leader that
waits (`FlagHasLeader`); `num_threads` counts the warps that have not left
(`ThreadsCount`).  That the counter does not wrap follows from `TailBound` and
from `Size + Cardinality(Warps) < Modulus`.

The second part of the module: the queue implements `RecordStream`, and the slot
of every record is read.  `DInv` extends `QInv` with the records last stored
(`stored`): a slot counted by `head_index` and not yet read is that of a record
which is pushed and unread, records of one warp lie in slots in the order of their
numbers, and every pushed record is read or in a slot.  That memory holds the
record by then is not claimed: `queue_visible` refutes it.

`CallbackLocksProofs`, for any threads and any programs: balanced programs keep
`OwnersExact` (a thread holds exactly what its program took and did not
release); from it, programs ordered by rank never form a cycle of waits,
programs that use the forest under the mutex use it exclusively, and a thread
between callbacks holds nothing (`NothingIsKept`).  The hypotheses are facts
about the programs; the action property `Disciplined` of `locks_view` checks
them for TorchView's.

`TorchMonitorProofs`, for any threads, nesting and number of operators:
`LevelsExact`, `BlocksKnown` and `KernelFrames`, for threads with and without
Python frames.  `LevelsExact` is about the levels stored with the operators
and needs `Counts`: the counter of a thread is the number of reported operators
on its stack, which `SeenStep` (one place more adds one operator or none) and
`SeenSame` (what is above a place does not matter) carry over a push and a pop.
`KernelFrames` needs `Cached`: the cached stack is that of each operator the
thread is in, unless another one was entered below it from elsewhere in Python,
and `Filled`: a thread whose buffer holds a stack has attributed a kernel before.

`TraceAnalysisProofs`, for any threads, kernels and modules: `RefusalsJustified`.
`Relies` says what a thread can rely on at each place of `trace_analyze` if its
module was known at the call and not unloaded since: at the first look it is in
one of the tables, between the looks in the cache, which only grows, and after
its own registration in the registry, from which only unloading takes it
(`RegisterKeeps`, `UnregisterKeeps`).

For any records, sizes they find in their slots and traces of any length it has
`RedundancyExact`.  The
pairs alone are not inductive: `ExactFor` adds that the temporal table holds, for
every GPU thread and address, the last access of the log to it by a thread that
has not ended since, and nothing else (`Remembers`).  A record then adds to the
pairs of the log exactly those of its accesses with the last ones (`HitsMore`);
its keys in the table and these new pairs are in bijection (`AgainIsFresh`), and
counts over disjoint finite sets add up (`CountUnion`), so the bag that
`unit_access` adds is the difference.  The proof uses that a GPU thread and an
address have one value in a record (`UnitsDiffer`), hence the part of
`TraceAssumption` about records: the active lanes are bits of a mask of `Warp`
bits, with one address each (`gpu_patch_record_t`).

For any limits, records and modules that come and go it has `ViewsAreTop`.  The
report of a thread is made in one step, so what must be invariant are the counts
it is made of: `Counted` says that the bags are finite, that every pair and every
value is of a pc that was counted, and that the pairs of a pc together
(`SumAt`), and each value of a memory and pc, are no more than its accesses.
A record adds at most as many pairs as it has keys, hence units (`AgainIs`), and
a sum over the union of two bags is the sum of the sums (`BagPlus`).  `Located`
says that every counted pc is in a function of the module, which the lookup before
`unit_access` ensures as long as the thread has the symbols of its module;
`Reports` therefore carries that the registry has the right symbols (`RightMap`)
and that a module stays registered while a trace of it is not reported.  The rest
is about one report: the fold of `Top` is shown to be a turn for each view
(`TopTurns`), and a turn keeps the best of what was seen (`TopStepKeeps`);
the entries of different views are disjoint (`DetailsApart`), so the statistics
can be taken apart again (`StatsAreTop`).

`KernelAccessProofs`, first for the patches that mark: for any dictionaries,
threads and addresses, `MarksCover` and `ViewMarksMasked`.  The dictionaries are
assumed sorted and disjoint, as `redshow_memory_ranges_get` and its counterparts
copy them from sorted maps of objects that do not overlap.  The binary search of
`map_prev` is a recursive function of two indices; a least counterexample in their
distance shows that it returns the border of the starts up to the address, kept
between the indices (`Clamp`).  `PatchInv` says of every access begun that its
marks are set or that its thread is still before the store (`Marks`): a thread
that skips a store has read a mark that no step takes back.  For the bit map it
says that every bit in memory, and every bit in a word that a thread has loaded,
is in the mask of an access (`Views`); the stale words are needed because a store writes
them back.

Then for data flow, with objects that do not overlap and regions that are not
empty: `RangesExact` and `FlowReaches`.  `Ranges` states that the
intervals of an object stand for the bytes hit so far; `merge_memory_range` keeps
their starts different and adds exactly what the new one covers (`MergeExact`), and the
loop that splits an access by objects gives one piece for each object it touches
(`PiecesAre`, by a least counterexample).  `Graph` states that the writer of every byte is the
context its object points to or leads there by edges of the object; one context
per object is therefore enough for every reader.  Without `ReadTraceIgnore` the
read ranges are exact too; with it only whether an object was read is kept.

`MemorySnapshotProofs`, for any ranges, operations, traces and any number of
application and analysis threads: `SnapshotsInOrder`, `AttributionInOrder` and
`RefusedOnlyOld`.  `IInv` says that there is an operation d up to which the tables
agree with what happened: while no call has been overtaken, d is the last
operation that has no earlier or equal one still to be reported, and it moves with
the calls; with the first overtaken call it stops for good, before that operation
(`Front`).  For every operation from the oldest snapshot up to d, the newest
snapshot at or before it is the set of objects that were live then (`Agrees`), and
until a call is overtaken nothing else is in the tables (`Exact`), so that what is
stored later, out of order, cannot come between.  It also holds what the calls in
progress know: the objects on the device do not overlap (`DeviceInv`), what a call
has drawn is what it will store (`CallsInv`); a trace accesses an object that was
live (`TracesInv`); a pointer to a snapshot is the right one for its trace, and is
erased only by a round of newer kernels (`AnalysesInv`), as is the snapshot of an
operation with live objects (`KeysInv`).  Discarding preserves it because the
newest snapshot below the oldest kernel of a round is kept.

`TorchViewProofs`, for any threads, operators, addresses and sizes.  For every
number of GPU contexts: `ForestShape`, `UniqueInTree`, `AccessesKept` and
`DeletedNotInSnapshot`.  `IInv` holds the forest (`Good`: roots sorted and
apart, every node in the tree of its root and inside of its range, no tensor
twice), the memory (blocks do not overlap and the counter of allocated bytes is a sum
over them, hence never below the size of any block, which is what the last of
these theorems needs), the operators on the stacks and their inputs, the snapshot (its entries
are nodes with their addresses), the launches and the accesses.
`update_view_forest` runs over all the tensors of an operator in one critical
section: `UpdateAllGood` shows by a least counterexample that each step of the
recursive function keeps `Good`, only adds nodes, and leaves the tensors seen so
far in their trees.  With all threads in one context (`OneContext`), `LInv`
adds that one launch is in progress at a time and that, from the first call of
a launch on, the snapshot does not grow, so that equal sizes mean equal
addresses: hence `RangesFit` and `MarksLineUp`.

`MemoryLivenessProofs`, for any ranges, streams, operations and late kernels,
also with atomics and copies inside one object, and with operations of other
threads between the three steps of `analysis_begin`: `OperationsExact`,
`UsagesExact`, `ConflictsOrdered`, `SubWritesKept` and `FlushProgresses`.
`IInv` holds the tables (`TablesInv`: objects do not overlap, the addresses are
their starts, the counters are sums over them), the kernels (`KernelsInv`: what
they use is live, each is its own operation and is not in the graph before it
reports), the graph (`GraphInv`: owners, readers and last operations of streams
are nodes) and the flush (`FlushInv`: the edges left are those between nodes
left, what was removed has a level above all it depends on).  `Ordered` is what
makes `ConflictsOrdered` inductive: whoever touched an object is before its
present owner or is one of its readers since, and the readers are after the
owner; so the edges of a write, which come from the readers alone if there are
any, are enough.  `UsagesExact` needs that the sum over a finite set does not
depend on the order in which it is taken (`SumLenAdd`): the fold is shown to
satisfy its recursion, and the rest follows by smallest counterexamples.
`SubWritesKept` needs that `Map::prev` finds the last start at or before both
ends of the range (`PrevIsLast`, `SubsListed`).  For the flush, `Acyclic` says
that every set of nodes has one that depends on none of the set, or on itself
alone and is a copy inside one object; a new operation keeps it
(`AddedAcyclic`), also the second access of a copy.

Only model-checked:

* the temporal properties under fairness;
* `IntervalsExact`: that a bitonic network sorts, and that tiled merging loses
  nothing, is induction over the data;
* `ShadowOutside`, whose counts are folds over bytes.

## Not modelled

* Memory profile, heatmap and torch-monitor analyses: their tables are those of
  memory liveness, with other output.
* Value pattern: sequential statistics, mostly in floating point.
* The instruction parser: text without lasting state.
* The driver, the installer and the tests: scripts that start processes.
* The trace lifecycle beyond what `MemorySnapshot`, `TraceAnalysis` and
  `TorchView` need of it: enabling and configuration set globals once.
* TorchView's matching on the CPU (see its section).
* HPCToolkit, the sanitizer, PyTorch and the interpreter are outside the
  repository: their calls are inputs.

## Plan

1. Done: the queue, locks, monitor and registry with their proofs; snapshots,
   view forest, patches, traces, memory liveness, data flow.
2. Done: proofs of the snapshots with any number of threads, of the view forest, of memory liveness, of
   the redundancy pairs and the top views, of the marks of the patches and of the
   data flow.
3. Open: the CPU-side matching of TorchView with its delayed trace, and the
   callbacks of the other analyses in `RedshowCallbacks`.
