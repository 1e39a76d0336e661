--------------------------- MODULE TraceAnalysis ---------------------------
(***************************************************************************)
(* The analysis of traces with values (redshow_analyze, trace_analyze and  *)
(* trace_analyze_default in redshow/src/redshow.cpp) with the temporal and *)
(* the spatial redundancy analyses (redshow/src/analysis): CPU threads     *)
(* look up or register the module of a trace, feed its records to the      *)
(* analyses, and report at their end.  Both analyses are enabled before    *)
(* the first trace.  The snapshot of memory a trace refers to is the       *)
(* concern of MemorySnapshot; here the objects do not change.              *)
(***************************************************************************)
EXTENDS CubinRegistry, FiniteSetsExt, SequencesExt, Bags

CONSTANTS
  Threads,      \* CPU threads
  Kernels,      \* kernel ids (calling contexts)
  ModuleOf,     \* <<cubin, mod>> of a kernel
  Direct,       \* modules the tool registers when they are loaded; it caches the others
  Records,      \* records a buffer may hold
  Warp,         \* GPU_PATCH_WARP_SIZE
  Objects,      \* memory objects, as <<start, end>>
  StaleSizes,   \* sizes an exit record may find in its slot, which it does not set
  PcViewsLimit, \* pc_views_limit
  MemViewsLimit,\* mem_views_limit
  MaxTraces, MaxRecords  \* bounds on traces and on the records of all of them

\* A record has one address for each lane in its mask (gpu_patch_record_t).
ASSUME TraceAssumption ==
  /\ Kernels # {} /\ ModuleOf \in [Kernels -> Cubins \X Mods] /\ Direct \subseteq Cubins \X Mods
  /\ Warp \in Nat \ {0} /\ PcViewsLimit \in Nat \ {0} /\ MemViewsLimit \in Nat /\ MaxTraces \in Nat /\ MaxRecords \in Nat
  /\ StaleSizes \subseteq Nat
  /\ \A o \in Objects : o[1] < o[2]
  /\ \A r \in Records : /\ DOMAIN r = {"flags", "pc", "thread", "active", "size", "address", "value"}
                        /\ r.active \subseteq 0 .. Warp - 1
                        /\ r.pc \in Nat /\ r.thread \in Nat /\ r.size \in Nat /\ r.address \in [r.active -> Nat]

Kinds == {"READ", "WRITE"}

VARIABLES
  step,         \* where a thread is in trace_analyze
  job,          \* the kernel whose trace it has
  result,       \* the result of the call
  symbols,      \* the symbols it found
  exited,       \* GPU threads whose end the trace already had
  kernel_trace, \* _kernel_trace of both analyses: thread -> kernel -> trace
  report,       \* the views a thread reported, by kernel, analysis and kind
  ntraces, nrecords,
  known,        \* whether the module is known since the call began (history)
  log           \* what the records of a thread's kernel did, in order (history)

state == <<step, job, result, symbols, exited, kernel_trace, report, ntraces, nrecords, known, log>>
vars == <<registry, state>>

NoTrace == [k \in {} |-> 0]
EmptyTrace ==
  [temporal |-> [kind \in Kinds |-> <<>>],         \* <<thread, address>> -> <<pc, value>>
   pairs    |-> [kind \in Kinds |-> EmptyBag],     \* <<pc, previous pc, value>>
   spatial  |-> [kind \in Kinds |-> EmptyBag],     \* <<memory, pc, value>>
   pc_count |-> [kind \in Kinds |-> EmptyBag]]     \* pc

-----------------------------------------------------------------------------
(* Looking up the module *)

Go(t, where) == step' = [step EXCEPT ![t] = where]
Fail(t, why) == Go(t, "return") /\ result' = [result EXCEPT ![t] = why]
Cubin(t) == ModuleOf[job[t]][1]
Mod(t) == ModuleOf[job[t]][2]

Fetch(t) == symbols' = [symbols EXCEPT ![t] = cubin_map[Cubin(t)][Mod(t)]]

\* redshow_analyze is called with the trace of kernel k.
Call(t, k) ==
  /\ step[t] = "idle" /\ ntraces < MaxTraces
  /\ job' = [job EXCEPT ![t] = k]
  /\ known' = [known EXCEPT ![t] = ModuleOf[k] \in cubin_cache_map \/ Registered(ModuleOf[k][1], ModuleOf[k][2])]
  /\ ntraces' = ntraces + 1
  /\ Go(t, "lookup")
  /\ UNCHANGED <<registry, result, symbols, exited, kernel_trace, report, nrecords, log>>

\* The first look, under the lock of cubin_map.
Lookup(t) ==
  /\ step[t] = "lookup"
  /\ \/ Registered(Cubin(t), Mod(t)) /\ Fetch(t) /\ Go(t, "begin")
     \/ ~Registered(Cubin(t), Mod(t)) /\ Go(t, "cache") /\ UNCHANGED symbols
  /\ UNCHANGED <<registry, job, result, exited, kernel_trace, report, ntraces, nrecords, known, log>>

\* The look into the cache, under its lock.
LookupCache(t) ==
  /\ step[t] = "cache"
  /\ \/ <<Cubin(t), Mod(t)>> \in cubin_cache_map /\ Go(t, "register") /\ UNCHANGED result
     \/ <<Cubin(t), Mod(t)>> \notin cubin_cache_map /\ Fail(t, "NOT_EXIST")
  /\ UNCHANGED <<registry, job, symbols, exited, kernel_trace, report, ntraces, nrecords, known, log>>

Register(t) ==
  /\ step[t] = "register"
  /\ redshow_cubin_register(Cubin(t), Mod(t))
  /\ LET r == RegisterResult(Cubin(t), Mod(t))
     IN \/ r = "SUCCESS" /\ Go(t, "again") /\ UNCHANGED result
        \/ r # "SUCCESS" /\ Fail(t, r)
  /\ UNCHANGED <<cubin_cache_map, job, symbols, exited, kernel_trace, report, ntraces, nrecords, known, log>>

\* "Try fetch cubin again"
LookupAgain(t) ==
  /\ step[t] = "again"
  /\ \/ Registered(Cubin(t), Mod(t)) /\ Fetch(t) /\ Go(t, "begin") /\ UNCHANGED result
     \/ ~Registered(Cubin(t), Mod(t)) /\ Fail(t, "NOT_EXIST") /\ UNCHANGED symbols
  /\ UNCHANGED <<registry, job, exited, kernel_trace, report, ntraces, nrecords, known, log>>

-----------------------------------------------------------------------------
(* The records *)

\* analysis_begin: the trace of an earlier launch is continued.
AnalysisBegin(t) ==
  /\ step[t] = "begin"
  /\ kernel_trace' = [kernel_trace EXCEPT ![t] =
       IF job[t] \in DOMAIN @ THEN @ ELSE Extended(@, job[t], EmptyTrace)]
  /\ log' = [log EXCEPT ![t] = IF job[t] \in DOMAIN @ THEN @ ELSE Extended(@, job[t], <<>>)]
  /\ Go(t, "records")
  /\ UNCHANGED <<registry, job, result, symbols, exited, report, ntraces, nrecords, known>>

\* The thread of a lane.
ThreadOf(r, lane) == (r.thread \div Warp) * Warp + lane

ThreadsOf(r) == {ThreadOf(r, lane) : lane \in r.active}

\* The object an access lies in: the one with the largest start up to it, if it
\* holds the whole access; without one, local or shared memory by the flags.
MemoryOf(r, addr) ==
  LET below == {o \in Objects : o[1] <= addr}
      o     == CHOOSE x \in below : \A y \in below : y[1] <= x[1]
  IN IF below # {} THEN (IF addr + r.size <= o[2] THEN {o} ELSE {})
     ELSE {<<flag>> : flag \in r.flags \cap {"LOCAL", "SHARED"}}

\* The units of a record: <<thread, address, memory, value>>, of the active lanes.
Units(r) ==
  UNION {{<<ThreadOf(r, lane), r.address[lane] + i - 1, mem, r.value[lane][i]>> :
            i \in 1 .. r.size, mem \in MemoryOf(r, r.address[lane])} : lane \in r.active}

\* The bag of what f gives for the members of a set
BagOf(s, f(_)) == [v \in {f(x) : x \in s} |-> Cardinality({x \in s : f(x) = v})]

\* Mutant: an access that finds another value does not become the last one.
Latest_same(trace, key, new) == IF key \in DOMAIN trace /\ trace[key][2] # new[2] THEN trace[key] ELSE new

\* What an address holds after an access.
Latest(trace, key, new) == new

\* unit_access of both analyses, for the units of a record
UnitAccesses(tr, r) ==
  LET units == Units(r)
      keys  == {<<u[1], u[2]>> : u \in units}
      at(key) == CHOOSE u \in units : <<u[1], u[2]>> = key
      temporal(f) == [key \in DOMAIN f \cup keys |->
                        IF key \in keys THEN Latest(f, key, <<r.pc, at(key)[4]>>) ELSE f[key]]
      again(f) == {key \in keys \cap DOMAIN f : f[key][2] = at(key)[4]}
      done(kind) == kind \in r.flags
  IN [temporal |-> [kind \in Kinds |-> IF done(kind) THEN temporal(tr.temporal[kind]) ELSE tr.temporal[kind]],
      pairs    |-> [kind \in Kinds |->
         IF done(kind) THEN tr.pairs[kind] (+) BagOf(again(tr.temporal[kind]),
                              LAMBDA key : <<r.pc, tr.temporal[kind][key][1], at(key)[4]>>)
         ELSE tr.pairs[kind]],
      spatial  |-> [kind \in Kinds |->
         IF done(kind) THEN tr.spatial[kind] (+) BagOf(units, LAMBDA u : <<u[3], r.pc, u[4]>>)
         ELSE tr.spatial[kind]],
      pc_count |-> [kind \in Kinds |->
         IF done(kind) THEN tr.pc_count[kind] (+) BagOf(units, LAMBDA u : r.pc) ELSE tr.pc_count[kind]]]

\* block_exit of the temporal analysis, for the active lanes
BlockExit(tr, r) ==
  [tr EXCEPT !.temporal = [kind \in Kinds |->
     LET f == tr.temporal[kind]
     IN [key \in {x \in DOMAIN f : x[1] \notin ThreadsOf(r)} |-> f[key]]]]

\* A block's exit record that the loop takes, with the size found in its slot.
Ends(r) == "EXIT" \in r.flags /\ r.size # 0

\* One turn of the loop of trace_analyze_default.  "Fast path, no thread active":
\* a record without size is skipped, and the patch for exits sets none.  The kind of
\* access (unit and vector size) is a function of the pc and is left out of the keys.
\* A trace is of one launch, in which nothing follows the end of a GPU thread.
Record(t, r) ==
  /\ step[t] = "records" /\ nrecords < MaxRecords
  /\ ThreadsOf(r) \cap exited[t] = {}
  /\ exited' = [exited EXCEPT ![t] = IF "EXIT" \in r.flags THEN @ \cup ThreadsOf(r) ELSE @]
  /\ nrecords' = nrecords + 1
  /\ LET k == job[t] IN
     \E size \in IF "EXIT" \in r.flags THEN StaleSizes ELSE {r.size} :
     LET found == IF "EXIT" \in r.flags THEN [r EXCEPT !.size = size] ELSE r
         logged == [log EXCEPT ![t][k] = Append(@, found)]
     IN
       \/ /\ size = 0
          /\ log' = IF "EXIT" \in r.flags THEN logged ELSE log
          /\ UNCHANGED <<kernel_trace, step, result>>
       \/ /\ Ends(found)
          /\ kernel_trace' = [kernel_trace EXCEPT ![t][k] = BlockExit(@, r)]
          /\ log' = logged
          /\ UNCHANGED <<step, result>>
       \/ /\ size # 0 /\ "EXIT" \notin r.flags /\ transform_pc(symbols[t], r.pc) # {}
          /\ kernel_trace' = [kernel_trace EXCEPT ![t][k] = UnitAccesses(@, r)]
          /\ log' = logged
          /\ UNCHANGED <<step, result>>
       \/ /\ size # 0 /\ "EXIT" \notin r.flags /\ transform_pc(symbols[t], r.pc) = {}
          /\ Fail(t, "FAILED")
          /\ UNCHANGED <<kernel_trace, log>>
  /\ UNCHANGED <<registry, job, symbols, report, ntraces, known>>

\* analysis_end, after the last record
AnalysisEnd(t) ==
  /\ step[t] = "records" /\ Go(t, "return")
  /\ result' = [result EXCEPT ![t] = "SUCCESS"]
  /\ UNCHANGED <<registry, job, symbols, exited, kernel_trace, report, ntraces, nrecords, known, log>>

Return(t) ==
  /\ step[t] = "return" /\ Go(t, "idle")
  /\ result' = [result EXCEPT ![t] = "NONE"]
  /\ symbols' = [symbols EXCEPT ![t] = {}]
  /\ exited' = [exited EXCEPT ![t] = {}]
  /\ UNCHANGED <<registry, job, kernel_trace, report, ntraces, nrecords, known, log>>

-----------------------------------------------------------------------------
(* The report of a thread *)

\* TopViews::top, by CompareView
Lowest(views) == CHOOSE v \in views : \A w \in views : v.red_count <= w.red_count

\* Mutant: the comparison of a full queue is the wrong way round.
Top_greater(limit, views) ==
  FoldLeft(LAMBDA kept, v :
             IF Cardinality(kept) < limit THEN kept \cup {v}
             ELSE IF Lowest(kept).red_count > v.red_count THEN (kept \ {Lowest(kept)}) \cup {v}
             ELSE kept, {}, views)

\* The views kept of a sequence of views: a full queue gives up its lowest view
\* for a higher one.
Top(limit, views) ==
  FoldLeft(LAMBDA kept, v :
             IF Cardinality(kept) < limit THEN kept \cup {v}
             ELSE IF Lowest(kept).red_count < v.red_count THEN (kept \ {Lowest(kept)}) \cup {v}
             ELSE kept, {}, views)

TopOf(limit, views) == Top(limit, SetToSeq(views))

Sum(s, f(_)) == FoldSet(LAMBDA x, n : n + f(x), 0, s)

\* The views of record_temporal_trace: one per pc, all its pairs together
TemporalViews(tr, kind) ==
  LET b == tr.pairs[kind] IN
  {[pc |-> pc, memory |-> <<>>, access_count |-> tr.pc_count[kind][pc],
    red_count |-> Sum({x \in DOMAIN b : x[1] = pc}, LAMBDA x : b[x])] : pc \in {x[1] : x \in DOMAIN b}}

\* The views of record_spatial_trace: one per memory and pc, with its most
\* frequent value
SpatialViews(tr, kind) ==
  LET b == tr.spatial[kind] IN
  {[pc |-> p[2], memory |-> p[1], access_count |-> tr.pc_count[kind][p[2]],
    red_count |-> Max({b[x] : x \in {y \in DOMAIN b : y[1] = p[1] /\ y[2] = p[2]}})] :
      p \in {<<x[1], x[2]>> : x \in DOMAIN b}}

Views(tr, analysis, kind) ==
  IF analysis = "temporal" THEN TemporalViews(tr, kind) ELSE SpatialViews(tr, kind)

\* The entries behind a view, for the statistics: pairs of pcs, or values
Details(tr, analysis, kind, view) ==
  LET b == IF analysis = "temporal" THEN tr.pairs[kind] ELSE tr.spatial[kind]
  IN {[entry |-> x, red_count |-> b[x]] : x \in {y \in DOMAIN b :
        IF analysis = "temporal" THEN y[1] = view.pc ELSE y[1] = view.memory /\ y[2] = view.pc}}

\* transform_data_views: a pc becomes a function and an offset.  The pc and the
\* memory of a view are kept for the properties only.
Transformed(view, syms) ==
  LET s == CHOOSE x \in transform_pc(syms, view.pc) : TRUE
  IN [function |-> s.index, pc_offset |-> view.pc - s.pc,
      red_count |-> view.red_count, access_count |-> view.access_count,
      pc |-> view.pc, memory |-> view.memory]

\* flush_thread of both analyses, with the symbols as they are now.
FlushThread(t) ==
  /\ step[t] = "idle" /\ DOMAIN kernel_trace[t] # {}
  /\ report' = [report EXCEPT ![t] =
       [x \in (DOMAIN kernel_trace[t]) \X {"temporal", "spatial"} \X Kinds |->
          LET tr   == kernel_trace[t][x[1]]
              top  == TopOf(PcViewsLimit, Views(tr, x[2], x[3]))
              syms == cubin_map[ModuleOf[x[1]][1]][ModuleOf[x[1]][2]]
          IN [views |-> {Transformed(v, syms) : v \in top},
              stats |-> IF MemViewsLimit = 0 THEN {}
                        ELSE UNION {TopOf(MemViewsLimit, Details(tr, x[2], x[3], v)) : v \in top}]]]
  /\ Go(t, "done")
  /\ UNCHANGED <<registry, job, result, symbols, exited, kernel_trace, ntraces, nrecords, known, log>>

-----------------------------------------------------------------------------
(* The tool that loads and unloads modules *)

Loaded(c, m) == <<c, m>> \in cubin_cache_map \/ Registered(c, m)

LoadModule(c, m) ==
  /\ ~Loaded(c, m)
  /\ \/ <<c, m>> \notin Direct /\ redshow_cubin_cache_register(c, m) /\ UNCHANGED cubin_map
     \/ <<c, m>> \in Direct /\ redshow_cubin_register(c, m) /\ UNCHANGED cubin_cache_map
  /\ UNCHANGED state

\* A module is not unloaded while a thread uses its symbols or has a trace of it
\* to report, but it may be while a thread looks it up.
UnloadModule(c, m) ==
  /\ Registered(c, m)
  /\ \A t \in Threads :
       /\ step[t] \in {"begin", "records"} => ModuleOf[job[t]] # <<c, m>>
       /\ step[t] # "done" => \A k \in DOMAIN kernel_trace[t] : ModuleOf[k] # <<c, m>>
  /\ redshow_cubin_unregister(c, m)
  /\ known' = [t \in Threads |-> known[t] /\ ModuleOf[job[t]] # <<c, m>>]
  /\ UNCHANGED <<cubin_cache_map, step, job, result, symbols, exited, kernel_trace, report, ntraces, nrecords, log>>

Init ==
  /\ cubin_map = <<>> /\ cubin_cache_map = {}
  /\ step = [t \in Threads |-> "idle"]
  /\ job \in [Threads -> {CHOOSE k \in Kernels : TRUE}]
  /\ result = [t \in Threads |-> "NONE"]
  /\ symbols = [t \in Threads |-> {}] /\ exited = [t \in Threads |-> {}]
  /\ kernel_trace = [t \in Threads |-> NoTrace]
  /\ report = [t \in Threads |-> <<>>]
  /\ ntraces = 0 /\ nrecords = 0
  /\ known = [t \in Threads |-> FALSE]
  /\ log = [t \in Threads |-> <<>>]

Next ==
  \/ \E t \in Threads :
       \/ \E k \in Kernels : Call(t, k)
       \/ Lookup(t) \/ LookupCache(t) \/ Register(t) \/ LookupAgain(t)
       \/ AnalysisBegin(t)
       \/ \E r \in Records : Record(t, r)
       \/ AnalysisEnd(t) \/ Return(t) \/ FlushThread(t)
  \/ \E x \in {ModuleOf[k] : k \in Kernels} : LoadModule(x[1], x[2]) \/ UnloadModule(x[1], x[2])

Spec == Init /\ [][Next]_vars

-----------------------------------------------------------------------------
(* Properties *)

\* A trace is refused as unknown only if its module was unknown when the call
\* began or was unloaded since; and a thread that lost the race to register a
\* module, whose trace is refused as a duplicate, finds the module registered
\* unless it was unloaded since (trace_analyze, redshow_cubin_register).
RefusalsJustified ==
  \A t \in Threads :
    /\ result[t] = "NOT_EXIST" => ~known[t]
    /\ result[t] = "DUPLICATE" => Registered(Cubin(t), Mod(t)) \/ ~known[t]

\* redshow_analyze is called "@thread-safe YES": a trace whose module is registered is
\* not refused for it.  It fails for the thread that loses the race to register it.
NoneRefused == \A t \in Threads : Registered(Cubin(t), Mod(t)) => result[t] # "DUPLICATE"

\* The accesses of a log: <<place, <<GPU thread, address>>, value>>
Touches(l, kind) ==
  UNION {{<<i, <<u[1], u[2]>>, u[4]>> : u \in Units(l[i])} :
           i \in {n \in DOMAIN l : kind \in l[n].flags /\ "EXIT" \notin l[n].flags}}

\* What a log of records gives: the accesses of a GPU thread that found in an address
\* the value its access before had found or left, with no end of the thread between.
Redundant(l, kind, ends) ==
  LET touches == Touches(l, kind)
      next(x, y) ==
        /\ x[1] < y[1] /\ x[2] = y[2]
        /\ ~\E z \in touches : x[1] < z[1] /\ z[1] < y[1] /\ z[2] = y[2]
        /\ ~\E n \in x[1] + 1 .. y[1] - 1 : n \in ends /\ y[2][1] \in ThreadsOf(l[n])
      hits == {x \in touches \X touches : next(x[1], x[2]) /\ x[1][3] = x[2][3]}
  IN BagOf(hits, LAMBDA x : <<l[x[2][1]].pc, l[x[1][1]].pc, x[2][3]>>)

EndsOf(l) == {n \in DOMAIN l : Ends(l[n])}

\* The pairs of pcs are exactly the accesses that found in an address the value the
\* access before had found or left, whatever else ran in between, with the ends of
\* blocks whose records are not skipped (update_temporal_trace, block_exit).
RedundancyExact ==
  \A t \in Threads : \A k \in DOMAIN kernel_trace[t] : \A kind \in Kinds :
    kernel_trace[t][k].pairs[kind] = Redundant(log[t][k], kind, EndsOf(log[t][k]))

\* The same with every end of a block: "Remove temporal records".  A thread of a later
\* launch with the same number is another one.  It fails when an end is skipped.
RedundancyInBlocks ==
  \A t \in Threads : \A k \in DOMAIN kernel_trace[t] : \A kind \in Kinds :
    kernel_trace[t][k].pairs[kind] =
      Redundant(log[t][k], kind, {n \in DOMAIN log[t][k] : "EXIT" \in log[t][k][n].flags})

\* The largest of a set, as many as a limit allows
IsTop(kept, all, limit) ==
  /\ kept \subseteq all
  /\ Cardinality(kept) = Min({Cardinality(all), limit})
  /\ \A v \in kept, w \in all \ kept : w.red_count <= v.red_count

\* A report has the views with the largest counts, as many as the limit allows,
\* each with the largest entries behind it, never more redundant accesses than
\* accesses, and each under the function that holds its instruction
\* (record_temporal_trace, record_spatial_trace, transform_data_views).
ViewsAreTop ==
  \A t \in Threads : \A x \in DOMAIN report[t] :
    LET tr    == kernel_trace[t][x[1]]
        views == report[t][x].views
        kept  == {[pc |-> v.pc, memory |-> v.memory, red_count |-> v.red_count,
                   access_count |-> v.access_count] : v \in views}
        pcs   == {s.pc : s \in Symbols(ModuleOf[x[1]][1], ModuleOf[x[1]][2])}
    IN /\ IsTop(kept, Views(tr, x[2], x[3]), PcViewsLimit)
       /\ \A v \in views :
            /\ v.red_count <= v.access_count
            /\ SymbolPcs[ModuleOf[x[1]]][v.function] + v.pc_offset = v.pc
            /\ v.pc_offset = v.pc - Max({p \in pcs : p <= v.pc})
            /\ LET details == Details(tr, x[2], x[3], v)
               IN IsTop(details \cap report[t][x].stats, details, MemViewsLimit)

=============================================================================
