--------------------------- MODULE MemorySnapshot ---------------------------
(***************************************************************************)
(* The tables of memory objects that redshow keeps per operation id        *)
(* (redshow/src/redshow.cpp): every allocation or release stores a new     *)
(* snapshot of the live objects under its host_op_id, a kernel trace is    *)
(* attributed with the newest snapshot at or before the kernel, and        *)
(* redshow_analysis_end discards snapshots no trace will ask for again.    *)
(*                                                                         *)
(* Application threads obtain an operation id (the tool's counter) when    *)
(* the operation happens on the device, and call redshow later; analysis   *)
(* threads take the traces of finished kernels in launch order.            *)
(***************************************************************************)
EXTENDS Naturals, Sequences, FiniteSets

CONSTANTS
  AppThreads,      \* threads that allocate, release, copy and launch
  AnalysisThreads, \* threads that call redshow_analyze
  Ranges,          \* [start, end) pairs cudaMalloc may return
  SubRanges,       \* [start, end) pairs the framework's allocator may return
  MaxOps,          \* bound on the operation ids
  MaxTraces,       \* bound on the trace buffers one kernel fills
  DataFlow         \* the data flow analysis is enabled

ASSUME SnapshotAssumption ==
  /\ MaxOps \in Nat
  /\ MaxTraces \in Nat \ {0}
  /\ \A r \in Ranges \cup SubRanges :
       r.start \in Nat /\ r.end \in Nat /\ r.start < r.end
  /\ DataFlow \in BOOLEAN

OpIds == 1 .. MaxOps
NoMem == [range |-> [start |-> 0, end |-> 0], op |-> 0]
Mem   == [range : Ranges \cup SubRanges, op : OpIds]

\* A call is made with the id of the operation, an object and an address of it.
CallKinds == {"register", "unregister", "subregister", "subunregister", "copy", "launch"}
Idle == [kind |-> "idle", op |-> 0, mem |-> NoMem, addr |-> 0]
Call == [kind : CallKinds, op : OpIds, mem : Mem, addr : Nat]

Trace   == [op : OpIds, addr : Nat]
NoTrace == [op |-> 0, addr |-> 0]

\* How the last lookup ended: with an owner of the address ("owner"), with the
\* ranges of a snapshot ("ranges", "subranges"), with the trace refused
\* (REDSHOW_ERROR_NOT_EXIST_ENTRY, "refused"), or through a pointer to a
\* snapshot that had been erased ("dangling").
Answer == [status : {"none", "owner", "ranges", "subranges", "refused", "dangling"},
           op : 0 .. MaxOps, addr : Nat, mems : SUBSET Mem]
NoAnswer == [status |-> "none", op |-> 0, addr |-> 0, mems |-> {}]

VARIABLES
  op,                  \* the tool's operation counter
  live,                \* objects on the device after each operation (history)
  sub_live,            \* the same for the framework's allocator
  memory_snapshot,     \* operation id -> MemoryMap
  sub_memory_snapshot, \* operation id -> MemoryMap
  call,                \* the redshow call an application thread is about to make
  traces,              \* trace buffers of each application thread, not yet analysed
  apc,                 \* where each analysis thread is
  cur,                 \* the trace it analyses
  map,                 \* the key of the snapshot it holds a pointer to
  mini_host_op_id,     \* thread_local, one per analysis thread
  answer,              \* the last lookup made (history)
  overtaken,           \* ids whose calls a later operation's call has overtaken (history)
  discarded            \* the largest minimum snapshots were discarded for (history)

device == <<op, live, sub_live>>
tables == <<memory_snapshot, sub_memory_snapshot>>
analyses == <<apc, cur, map, mini_host_op_id>>
vars == <<device, tables, call, traces, analyses, answer, overtaken, discarded>>

TypeOK ==
  /\ op \in 0 .. MaxOps
  /\ live \in [0 .. MaxOps -> SUBSET Mem]
  /\ sub_live \in [0 .. MaxOps -> SUBSET Mem]
  /\ DOMAIN memory_snapshot \subseteq OpIds
  /\ \A s \in DOMAIN memory_snapshot : memory_snapshot[s] \subseteq Mem
  /\ DOMAIN sub_memory_snapshot \subseteq OpIds
  /\ \A s \in DOMAIN sub_memory_snapshot : sub_memory_snapshot[s] \subseteq Mem
  /\ call \in [AppThreads -> Call \cup {Idle}]
  /\ traces \in [AppThreads -> Seq(Trace)]
  /\ apc \in [AnalysisThreads -> {"out", "in", "fetch", "use"}]
  /\ cur \in [AnalysisThreads -> Trace \cup {NoTrace}]
  /\ map \in [AnalysisThreads -> 0 .. MaxOps]
  /\ mini_host_op_id \in [AnalysisThreads -> 0 .. MaxOps]
  /\ answer \in Answer
  /\ overtaken \subseteq OpIds
  /\ discarded \in 0 .. MaxOps

Empty == [s \in {} |-> {}]

Init ==
  /\ op = 0
  /\ live = [o \in 0 .. MaxOps |-> {}]
  /\ sub_live = [o \in 0 .. MaxOps |-> {}]
  /\ memory_snapshot = Empty
  /\ sub_memory_snapshot = Empty
  /\ call = [t \in AppThreads |-> Idle]
  /\ traces = [t \in AppThreads |-> <<>>]
  /\ apc = [a \in AnalysisThreads |-> "out"]
  /\ cur = [a \in AnalysisThreads |-> NoTrace]
  /\ map = [a \in AnalysisThreads |-> 0]
  /\ mini_host_op_id = [a \in AnalysisThreads |-> 0]
  /\ answer = NoAnswer
  /\ overtaken = {}
  /\ discarded = 0

-----------------------------------------------------------------------------
(* Maps *)

\* Mutant: the smallest key at or above k.
PrevAbove(snap, k) ==
  IF \E s \in DOMAIN snap : s >= k
  THEN CHOOSE s \in DOMAIN snap : s >= k /\ \A r \in DOMAIN snap : r >= k => s <= r
  ELSE 0

\* Map::prev on operation ids: the largest key at or below k, 0 for end().
Prev(snap, k) ==
  IF \E s \in DOMAIN snap : s <= k
  THEN CHOOSE s \in DOMAIN snap : s <= k /\ \A r \in DOMAIN snap : r <= k => r <= s
  ELSE 0

\* memory_snapshot[id] = memory_map
Store(snap, id, mems) ==
  [s \in DOMAIN snap \cup {id} |-> IF s = id THEN mems ELSE snap[s]]

\* A MemoryMap orders ranges by their start only.
HasStart(mems, start) == \E m \in mems : m.range.start = start

\* Mutant: the new snapshot does not start as a copy of the one before.
RegisteredAlone(snap, id, m) ==
  IF Prev(snap, id) # 0 /\ HasStart(snap[Prev(snap, id)], m.range.start) THEN snap
  ELSE Store(snap, id, {m})

\* The effect of redshow_memory_register, errors included: an empty table takes
\* the object as it is; otherwise the snapshot before the operation is copied,
\* and nothing is stored if there is none or if it has the start address.
Registered(snap, id, m) ==
  IF DOMAIN snap = {} THEN Store(snap, id, {m})
  ELSE IF Prev(snap, id) = 0 \/ HasStart(snap[Prev(snap, id)], m.range.start) THEN snap
  ELSE Store(snap, id, snap[Prev(snap, id)] \cup {m})

\* The effect of redshow_memory_unregister.
Unregistered(snap, id, start) ==
  IF Prev(snap, id) = 0 \/ ~ HasStart(snap[Prev(snap, id)], start) THEN snap
  ELSE Store(snap, id, {m \in snap[Prev(snap, id)] : m.range.start # start})

\* MemoryMap::prev: the object with the largest start at or below addr.
Below(mems, addr) ==
  {m \in mems : /\ m.range.start <= addr
                /\ \A n \in mems : n.range.start <= addr => n.range.start <= m.range.start}

\* The snapshot at or before an operation; without one the callers give up.
SnapshotAt(snap, id) == IF Prev(snap, id) = 0 THEN {} ELSE snap[Prev(snap, id)]

\* redshow_memory_query; the end of the range counts as inside.
Query(mems, addr) == {m \in Below(mems, addr) : addr <= m.range.end}

\* The lookup of trace_analyze_address_patch, for an access of one byte.
Attribute(mems, addr) == {m \in Below(mems, addr) : addr + 1 <= m.range.end}

-----------------------------------------------------------------------------
(* Operations on the device, with the id the tool gives them *)

Overlaps(r, q) == r.start < q.end /\ q.start < r.end

\* Thread t starts the next operation, after which l and sl are live, and will
\* call redshow with its id.
NextOp(t, l, sl, kind, m, addr) ==
  /\ call[t] = Idle
  /\ op < MaxOps
  /\ op' = op + 1
  /\ live' = [live EXCEPT ![op + 1] = l]
  /\ sub_live' = [sub_live EXCEPT ![op + 1] = sl]
  /\ call' = [call EXCEPT ![t] = [kind |-> kind, op |-> op + 1, mem |-> m, addr |-> addr]]
  /\ UNCHANGED <<tables, traces, analyses, answer, overtaken, discarded>>

Malloc(t, r) ==
  /\ \A m \in live[op] : ~ Overlaps(m.range, r)
  /\ LET m == [range |-> r, op |-> op + 1] IN
     NextOp(t, live[op] \cup {m}, sub_live[op], "register", m, r.start)

Free(t, m) ==
  NextOp(t, live[op] \ {m}, sub_live[op], "unregister", m, m.range.start)

\* torch_memory_callback: update_op_id_func, then redshow_submemory_register.
SubMalloc(t, r) ==
  /\ \A m \in sub_live[op] : ~ Overlaps(m.range, r)
  /\ LET m == [range |-> r, op |-> op + 1] IN
     NextOp(t, live[op], sub_live[op] \cup {m}, "subregister", m, r.start)

SubFree(t, m) ==
  NextOp(t, live[op], sub_live[op] \ {m}, "subunregister", m, m.range.start)

\* A copy from or to, or a memset of, an address of a live object.
Copy(t, m) ==
  \E addr \in m.range.start .. m.range.end - 1 :
    NextOp(t, live[op], sub_live[op], "copy", m, addr)

\* The launch of a kernel that accesses an address of a live object.
Launch(t, m) ==
  \E addr \in m.range.start .. m.range.end - 1 :
    NextOp(t, live[op], sub_live[op], "launch", m, addr)

-----------------------------------------------------------------------------
(* The redshow calls of an application thread *)

\* The ids of the calls that are still to be made.
Pending == {call[u].op : u \in {v \in AppThreads : call[v] # Idle}}

\* The call takes effect in one step, under the lock of its table; the earlier
\* operations that are not reported yet are overtaken.
Return(t, kind) ==
  /\ call[t].kind = kind
  /\ call' = [call EXCEPT ![t] = Idle]
  /\ overtaken' = overtaken \cup {i \in Pending : i < call[t].op}
  /\ UNCHANGED <<device, analyses, discarded>>

memory_register(t) ==
  /\ Return(t, "register")
  /\ memory_snapshot' = Registered(memory_snapshot, call[t].op, call[t].mem)
  /\ UNCHANGED <<sub_memory_snapshot, traces, answer>>

memory_unregister(t) ==
  /\ Return(t, "unregister")
  /\ memory_snapshot' = Unregistered(memory_snapshot, call[t].op, call[t].addr)
  /\ UNCHANGED <<sub_memory_snapshot, traces, answer>>

submemory_register(t) ==
  /\ Return(t, "subregister")
  /\ sub_memory_snapshot' = Registered(sub_memory_snapshot, call[t].op, call[t].mem)
  /\ UNCHANGED <<memory_snapshot, traces, answer>>

submemory_unregister(t) ==
  /\ Return(t, "subunregister")
  /\ sub_memory_snapshot' = Unregistered(sub_memory_snapshot, call[t].op, call[t].addr)
  /\ UNCHANGED <<memory_snapshot, traces, answer>>

\* The query of redshow_memcpy_register, for a side that is not the host's, and
\* of redshow_memset_register.
memcpy_register(t) ==
  /\ Return(t, "copy")
  /\ answer' = [status |-> "owner", op |-> call[t].op, addr |-> call[t].addr,
                mems |-> Query(SnapshotAt(memory_snapshot, call[t].op), call[t].addr)]
  /\ UNCHANGED <<tables, traces>>

\* Before the kernel runs the tool asks for the ranges its patches look up;
\* then the kernel fills n trace buffers.
RangesGet(t, snap, status, n) ==
  /\ Return(t, "launch")
  /\ answer' = [status |-> status, op |-> call[t].op, addr |-> 0,
                mems |-> SnapshotAt(snap, call[t].op)]
  /\ traces' = [traces EXCEPT
                  ![t] = @ \o [i \in 1 .. n |-> [op |-> call[t].op, addr |-> call[t].addr]]]
  /\ UNCHANGED tables

\* The limit is not used: every object of the snapshot is written.
memory_ranges_get(t, n) == RangesGet(t, memory_snapshot, "ranges", n)

submemory_ranges_get(t, n) == RangesGet(t, sub_memory_snapshot, "subranges", n)

-----------------------------------------------------------------------------
(* Analysis threads *)

Step(a, from, to) == apc[a] = from /\ apc' = [apc EXCEPT ![a] = to]

analysis_begin(a) ==
  /\ Step(a, "out", "in")
  /\ mini_host_op_id' = [mini_host_op_id EXCEPT ![a] = 0]
  /\ UNCHANGED <<device, tables, call, traces, cur, map, answer, overtaken, discarded>>

\* The tool hands redshow_analyze the oldest trace of an application thread.
\* trace_analyze returns at once when the cubin is not known.
analyze(a, t) ==
  /\ traces[t] # <<>>
  /\ Step(a, "in", "fetch") \/ Step(a, "in", "in")
  /\ cur' = [cur EXCEPT ![a] = Head(traces[t])]
  /\ traces' = [traces EXCEPT ![t] = Tail(@)]
  /\ UNCHANGED <<device, tables, call, map, mini_host_op_id, answer, overtaken, discarded>>

Answered(a, status, mems) ==
  [status |-> status, op |-> cur[a].op, addr |-> cur[a].addr, mems |-> mems]

\* trace_analyze takes a pointer to the snapshot under the lock, or gives up.
FetchSnapshot(a) ==
  LET key == Prev(memory_snapshot, cur[a].op) IN
  /\ Step(a, "fetch", IF key = 0 THEN "in" ELSE "use")
  /\ map' = [map EXCEPT ![a] = key]
  /\ answer' = IF key = 0 THEN Answered(a, "refused", {}) ELSE answer
  /\ UNCHANGED <<device, tables, call, traces, cur, mini_host_op_id, overtaken, discarded>>

\* It uses the pointer without the lock.  When all went well redshow_analyze
\* lowers the minimum; a pc without a symbol is an error.
UseSnapshot(a) ==
  /\ Step(a, "use", "in")
  /\ answer' = IF map[a] \in DOMAIN memory_snapshot
               THEN Answered(a, "owner", Attribute(memory_snapshot[map[a]], cur[a].addr))
               ELSE Answered(a, "dangling", {})
  /\ \/ mini_host_op_id' =
          [mini_host_op_id EXCEPT ![a] = IF @ = 0 \/ cur[a].op < @ THEN cur[a].op ELSE @]
     \/ UNCHANGED mini_host_op_id
  /\ map' = [map EXCEPT ![a] = 0]
  /\ UNCHANGED <<device, tables, call, traces, cur, overtaken, discarded>>

\* Mutant: the newest of the older snapshots goes too.
KeptNewer(snap, mini) == {s \in DOMAIN snap : s >= mini}

\* The snapshots older than the oldest trace of this round go, except the
\* newest of them.
Kept(snap, mini) ==
  {s \in DOMAIN snap : s >= mini \/ \A r \in DOMAIN snap : r < mini => r <= s}

\* The round has a minimum and nothing forbids to discard.
Discards(a) == mini_host_op_id[a] # 0 /\ ~ DataFlow

analysis_end(a) ==
  /\ Step(a, "in", "out")
  /\ memory_snapshot' =
       IF Discards(a)
       THEN [s \in Kept(memory_snapshot, mini_host_op_id[a]) |-> memory_snapshot[s]]
       ELSE memory_snapshot
  /\ discarded' = IF Discards(a) /\ mini_host_op_id[a] > discarded
                  THEN mini_host_op_id[a] ELSE discarded
  /\ UNCHANGED <<device, sub_memory_snapshot, call, traces, cur, map, mini_host_op_id>>
  /\ UNCHANGED <<answer, overtaken>>

-----------------------------------------------------------------------------
AppStep(t) ==
  \/ \E r \in Ranges : Malloc(t, r)
  \/ \E r \in SubRanges : SubMalloc(t, r)
  \/ \E m \in live[op] : Free(t, m) \/ Copy(t, m) \/ Launch(t, m)
  \/ \E m \in sub_live[op] : SubFree(t, m)
  \/ memory_register(t) \/ memory_unregister(t)
  \/ submemory_register(t) \/ submemory_unregister(t) \/ memcpy_register(t)
  \/ \E n \in 1 .. MaxTraces : memory_ranges_get(t, n) \/ submemory_ranges_get(t, n)

AnalysisStep(a) ==
  \/ analysis_begin(a) \/ analysis_end(a) \/ FetchSnapshot(a) \/ UseSnapshot(a)
  \/ \E t \in AppThreads : analyze(a, t)

Next == (\E t \in AppThreads : AppStep(t)) \/ (\E a \in AnalysisThreads : AnalysisStep(a))

Spec == Init /\ [][Next]_vars

-----------------------------------------------------------------------------
(* Properties *)

(* "@thread-safe: YES": every snapshot redshow keeps is the set of objects  *)
(* that were live after the operation it is stored under.  It fails when    *)
(* the call of an operation is overtaken by that of a later one.            *)
SnapshotsExact ==
  /\ \A s \in DOMAIN memory_snapshot : memory_snapshot[s] = live[s]
  /\ \A s \in DOMAIN sub_memory_snapshot : sub_memory_snapshot[s] = sub_live[s]

\* What an answer says of the moment of its operation.
RightAnswer ==
  LET o == answer.op IN
  /\ answer.status = "owner" =>
       answer.mems = {m \in live[o] : m.range.start <= answer.addr /\ answer.addr < m.range.end}
  /\ answer.status = "ranges" => answer.mems = live[o]
  /\ answer.status = "subranges" => answer.mems = sub_live[o]

(* "@thread-safe YES" of redshow_analysis_end: it never discards the        *)
(* snapshot of a kernel whose trace is still to be analysed, nor the one    *)
(* that trace_analyze holds a pointer to.  It fails when another thread     *)
(* ends a round of newer kernels.                                           *)
NoTraceRefused == answer.status \notin {"refused", "dangling"}

\* No operation up to o was overtaken by a later one on its way to redshow.
InOrder(o) == \A i \in overtaken : o < i

(* With any number of application and analysis threads: a snapshot is exact *)
(* unless an operation at or before it was overtaken.  In particular an     *)
(* overtaken registration that takes effect late leaves the snapshots of    *)
(* the operations before it alone, in both tables; and all variables have   *)
(* their types.                                                             *)
SnapshotsInOrder ==
  /\ TypeOK
  /\ \A s \in DOMAIN memory_snapshot : InOrder(s) => memory_snapshot[s] = live[s]
  /\ \A s \in DOMAIN sub_memory_snapshot : InOrder(s) => sub_memory_snapshot[s] = sub_live[s]

(* With any number of threads: a lookup that succeeds for an operation      *)
(* before the first overtaken one is right, although snapshots are stored   *)
(* out of order, discarded and used without the lock by other threads.      *)
AttributionInOrder == InOrder(answer.op) => RightAnswer

(* With any number of threads: a trace of an operation before the first     *)
(* overtaken one finds no snapshot, or a snapshot that is erased while it   *)
(* is used, only after a thread has ended a round in which every kernel was *)
(* newer than its own.                                                      *)
RefusedOnlyOld ==
  answer.status \in {"refused", "dangling"} /\ InOrder(answer.op) => answer.op < discarded
=============================================================================
