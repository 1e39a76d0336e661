----------------------------- MODULE GpuPatches -----------------------------
(***************************************************************************)
(* What an instrumented kernel leaves for the host, by the patch it was    *)
(* instrumented with:                                                      *)
(*   "address":   src/gpu-patch-address.cu and src/gpu-analysis.cu, the    *)
(*                records of warps made into intervals on the device;      *)
(*   "aux":       src/gpu-patch-aux.cu, marks for the entries of a         *)
(*                dictionary of memory objects;                            *)
(*   "torch_aux": src/gpu-patch-torch-aux.cu, the same for objects and     *)
(*                sub-allocations;                                         *)
(*   "torchview": src/gpu-patch-aux-torchview.cu, a bit per view range and *)
(*                program counter.                                         *)
(* Threads of the kernel run concurrently; loads and stores of marks are   *)
(* separate steps.  A thread stands for a warp with one active lane, and   *)
(* the address patch runs without a dictionary (aux is NULL).              *)
(***************************************************************************)
EXTENDS WarpIntervals

CONSTANTS
  Threads,    \* threads of the kernel, for the patches that mark
  Patches,    \* the patches to consider
  Records,    \* records a warp may write: [address, size, flags]
  Dict,       \* the dictionary: a sorted sequence of [start, end)
  TorchDict,  \* the dictionary of sub-allocations
  Addresses,  \* addresses the threads access
  Pcs,        \* program counters of accesses, counted from the function
  WordBits,   \* bits of a word of the bit map (64)
  IntBits,    \* bits of an int (32)
  MaxBegun    \* bound on the accesses, or records, of all threads

ASSUME PatchAssumption ==
  /\ Patches \subseteq {"address", "aux", "torch_aux", "torchview"}
  /\ MaxBegun \in Nat
  /\ WordBits \in Nat \ {0}
  /\ IntBits \in 1 .. WordBits
  /\ Addresses \subseteq Nat /\ Pcs \subseteq Nat
  /\ \A d \in {Dict, TorchDict} :
       /\ d \in Seq([start : Nat, end : Nat])
       /\ \A i \in DOMAIN d : d[i].start <= d[i].end
       /\ \A i, j \in DOMAIN d : i < j => d[i].end <= d[j].start

\* The flags of an access: an atomic operation reads and writes.
Flags == {{"read"}, {"write"}, {"read", "write"}}

VARIABLES
  patch,
  patch_buffer, read_buffer, write_buffer, \* "address"
  thread,         \* the access each thread is in
  begun,          \* accesses begun
  hit, read, write, torch_hit, \* marks of dictionary entries
  pushes,         \* records pushed by the marking patches
  bitmap,         \* [kind, word index] -> bits set
  accessed        \* what was accessed (history)

marks == <<hit, read, write, torch_hit, pushes, bitmap>>
buffers == <<patch_buffer, read_buffer, write_buffer>>
patch_vars == <<patch, buffers, thread, begun, marks, accessed>>

-----------------------------------------------------------------------------
(* map_prev *)

\* The binary search of map_upper_bound, for the comparator start <= value; w is
\* <<low, high>>.
map_upper_bound(dict, a) ==
  LET f[w \in (0 .. Len(dict)) \X (0 .. Len(dict))] ==
        IF w[1] >= w[2] THEN w[1]
        ELSE LET mid == (w[2] - w[1]) \div 2 + w[1] IN
             IF dict[mid + 1].start <= a THEN f[<<mid + 1, w[2]>>] ELSE f[<<w[1], mid>>]
  IN f[<<0, Len(dict)>>]

\* The entry with the largest start at or below a, from 1; 0 for none.
map_prev(dict, a) == map_upper_bound(dict, a)

-----------------------------------------------------------------------------
(* "address": a warp writes a record, the analysis kernel reads the batch *)

Record(r) ==
  /\ patch = "address"
  /\ begun < MaxBegun
  /\ begun' = begun + 1
  /\ patch_buffer' = Append(patch_buffer, r)
  /\ accessed' = accessed \cup
       {<<b, f>> : f \in r.flags,
          b \in UNION {r.address[l] .. r.address[l] + r.size - 1 : l \in {m \in Lanes : r.address[m] # 0}}}
  /\ UNCHANGED <<patch, read_buffer, write_buffer, thread, marks>>

\* The intervals of the batch for one of the buffers.
Compacted(kind) ==
  FlattenSeq([i \in DOMAIN patch_buffer |->
    IF kind \in patch_buffer[i].flags
    THEN SetToSeq(interval_compact(patch_buffer[i].address, patch_buffer[i].size)) ELSE <<>>])

\* A turn of gpu_analysis_interval_merge.  The warps push in any order, of which
\* two are tried.
Analyze ==
  /\ patch = "address" /\ patch_buffer # <<>>
  /\ \E rev \in BOOLEAN :
       LET pushed(kind) == IF rev THEN Reverse(Compacted(kind)) ELSE Compacted(kind) IN
       /\ read_buffer' = interval_merge(read_buffer \o pushed("read"))
       /\ write_buffer' = interval_merge(write_buffer \o pushed("write"))
  /\ patch_buffer' = <<>>
  /\ UNCHANGED <<patch, thread, begun, marks, accessed>>

-----------------------------------------------------------------------------
(* The marking patches: one memory_access_callback of a thread *)

Idle == [at |-> "idle"]

Access(t, a, pc, fl) ==
  /\ patch # "address"
  /\ patch # "torchview" => pc = CHOOSE p \in Pcs : TRUE   \* only one patch looks at it
  /\ thread[t] = Idle /\ begun < MaxBegun
  /\ begun' = begun + 1
  /\ thread' = [thread EXCEPT ![t] = [at |-> IF patch = "torchview" THEN "view" ELSE "hit",
                                      addr |-> a, pc |-> pc, flags |-> fl, keep |-> TRUE, word |-> {}]]
  /\ accessed' = accessed \cup {<<a, pc, fl>>}
  /\ UNCHANGED <<patch, buffers, marks>>

Goto(t, at) == thread' = [thread EXCEPT ![t].at = at]

\* atomic_load of the hit mark: an entry that is marked already is filtered out.
LoadHit(t) ==
  /\ thread[t].at = "hit"
  /\ LET pos == map_prev(Dict, thread[t].addr) IN
     thread' = [thread EXCEPT ![t].at = IF pos # 0 /\ pos \notin hit THEN "sethit" ELSE "mode",
                              ![t].keep = pos = 0 \/ pos \notin hit]
  /\ UNCHANGED <<patch, buffers, begun, marks, accessed>>

StoreHit(t) ==
  /\ thread[t].at = "sethit"
  /\ hit' = hit \cup {map_prev(Dict, thread[t].addr)}
  /\ Goto(t, "mode")
  /\ UNCHANGED <<patch, buffers, begun, read, write, torch_hit, pushes, bitmap, accessed>>

\* The flags are compared with the plain flag: an atomic operation sets neither.
Marked(pos, fl, flag) == IF pos # 0 /\ fl = {flag} THEN {pos} ELSE {}

\* Mutant: the marks are set with the first hit of an entry only.
StoreModeFirst(t) ==
  /\ thread[t].at = "mode" /\ patch = "aux"
  /\ LET pos == IF thread[t].keep THEN map_prev(Dict, thread[t].addr) ELSE 0 IN
     /\ read' = read \cup Marked(pos, thread[t].flags, "read")
     /\ write' = write \cup Marked(pos, thread[t].flags, "write")
  /\ Goto(t, "push")
  /\ UNCHANGED <<patch, buffers, begun, hit, torch_hit, pushes, bitmap, accessed>>

\* The read and write marks of gpu-patch-aux.cu.
StoreMode(t) ==
  /\ thread[t].at = "mode" /\ patch = "aux"
  /\ LET pos == map_prev(Dict, thread[t].addr) IN
     /\ read' = read \cup Marked(pos, thread[t].flags, "read")
     /\ write' = write \cup Marked(pos, thread[t].flags, "write")
  /\ Goto(t, "push")
  /\ UNCHANGED <<patch, buffers, begun, hit, torch_hit, pushes, bitmap, accessed>>

\* The second dictionary of gpu-patch-torch-aux.cu.
StoreTorchHit(t) ==
  /\ thread[t].at = "mode" /\ patch = "torch_aux"
  /\ LET pos == map_prev(TorchDict, thread[t].addr) IN
     /\ torch_hit' = IF pos = 0 THEN torch_hit ELSE torch_hit \cup {pos}
     /\ thread' = [thread EXCEPT ![t].at = "push",
                                 ![t].keep = @ /\ (pos = 0 \/ pos \notin torch_hit)]
  /\ UNCHANGED <<patch, buffers, begun, hit, read, write, pushes, bitmap, accessed>>

\* gpu_queue_push, unless the access was filtered out.
Push(t) ==
  /\ thread[t].at = "push"
  /\ pushes' = IF thread[t].keep THEN pushes + 1 ELSE pushes
  /\ thread' = [thread EXCEPT ![t] = Idle]
  /\ UNCHANGED <<patch, buffers, begun, hit, read, write, torch_hit, bitmap, accessed>>

\* Mutant: the end of the range is not tested.
ViewOfStart(a) == map_prev(Dict, a)

\* The view range an address lies in, from 1; 0 for none.
ViewOf(a) ==
  LET pos == map_prev(Dict, a) IN IF pos # 0 /\ a < Dict[pos].end THEN pos ELSE 0

\* Mutant: a row has as many words as there are full ones.
WordShort(pc, pos) == pc * (Len(Dict) \div WordBits) + (pos - 1) \div WordBits

\* The word of a program counter and a range: rows of range_columns + 2 words.
Word(pc, pos) == pc * (Len(Dict) \div WordBits + 2) + (pos - 1) \div WordBits

\* The bits of the int 1 << n as a word: the conversion copies the sign bit up.
Shifted(n) == IF n = IntBits - 1 THEN n .. WordBits - 1 ELSE {n}

\* What bit_mask may be for a range.  1 << (pos % 64) is the shift of an int: by the
\* width of an int or more it is undefined, and leaves nothing or wraps around.
bit_masks(pos) ==
  LET n == (pos - 1) % WordBits IN
  IF n < IntBits THEN {Shifted(n)} ELSE {{}, Shifted(n % IntBits)}

ViewKind(fl) == CHOOSE f \in fl : TRUE

\* |= of the bit map: the word is loaded ...
LoadWord(t) ==
  /\ thread[t].at = "view"
  /\ LET pos == ViewOf(thread[t].addr)
         key == <<ViewKind(thread[t].flags), Word(thread[t].pc, pos)>>
     IN IF pos = 0 \/ Cardinality(thread[t].flags) # 1
        THEN thread' = [thread EXCEPT ![t] = Idle]
        ELSE thread' = [thread EXCEPT ![t].at = "setview",
               ![t].word = {x[2] : x \in {y \in bitmap : y[1] = key}}]
  /\ UNCHANGED <<patch, buffers, begun, marks, accessed>>

\* ... and stored with the mask set; what another thread stored in between is lost.
StoreWord(t) ==
  /\ thread[t].at = "setview"
  /\ LET pos == ViewOf(thread[t].addr)
         key == <<ViewKind(thread[t].flags), Word(thread[t].pc, pos)>>
     IN \E bit_mask \in bit_masks(pos) :
          bitmap' = {x \in bitmap : x[1] # key}
                      \cup ({key} \X (thread[t].word \cup bit_mask))
  /\ thread' = [thread EXCEPT ![t] = Idle]
  /\ UNCHANGED <<patch, buffers, begun, hit, read, write, torch_hit, pushes, accessed>>

-----------------------------------------------------------------------------
PatchInit ==
  /\ patch \in Patches
  /\ patch_buffer = <<>> /\ read_buffer = <<>> /\ write_buffer = <<>>
  /\ thread = [t \in Threads |-> Idle]
  /\ begun = 0
  /\ hit = {} /\ read = {} /\ write = {} /\ torch_hit = {} /\ pushes = 0
  /\ bitmap = {}
  /\ accessed = {}

PatchNext ==
  \/ \E r \in Records : Record(r)
  \/ Analyze
  \/ \E t \in Threads :
       \/ \E a \in Addresses, pc \in Pcs, fl \in Flags : Access(t, a, pc, fl)
       \/ LoadHit(t) \/ StoreHit(t) \/ StoreMode(t) \/ StoreTorchHit(t) \/ Push(t)
       \/ LoadWord(t) \/ StoreWord(t)

PatchSpec == PatchInit /\ [][PatchNext]_patch_vars

-----------------------------------------------------------------------------
(* Properties *)

Addressed(recs) == UNION {recs[i].start .. recs[i].end - 1 : i \in DOMAIN recs}

\* Once a batch is analysed, the intervals cover the bytes that were read, and
\* the bytes that were written, no more and no less: nothing is lost at the
\* border of tiles or in the remainder (interval_compact, interval_merge).
IntervalsExact ==
  patch = "address" /\ patch_buffer = <<>> =>
    /\ Addressed(read_buffer)  = {x[1] : x \in {y \in accessed : y[2] = "read"}}
    /\ Addressed(write_buffer) = {x[1] : x \in {y \in accessed : y[2] = "write"}}

Quiet == \A t \in Threads : thread[t] = Idle

\* The accesses the history holds in [start, end) of an entry.
To(e) == {x \in accessed : e.start <= x[1] /\ x[1] < e.end}

\* When the threads are done, every entry that was accessed is marked, with the
\* way it was accessed unless that was an atomic operation, whatever the order of
\* loads and stores of the marks was; with one dictionary a record was pushed
\* (with two, threads may filter out each other's record).
MarksCover ==
  Quiet /\ patch \in {"aux", "torch_aux"} =>
    /\ \A p \in DOMAIN Dict : To(Dict[p]) # {} =>
         p \in hit /\ (patch = "aux" => pushes > 0)
    /\ patch = "aux" => \A p \in DOMAIN Dict : \A x \in To(Dict[p]) :
         /\ x[3] = {"read"} => p \in read
         /\ x[3] = {"write"} => p \in write
    /\ patch = "torch_aux" => \A p \in DOMAIN TorchDict : To(TorchDict[p]) # {} => p \in torch_hit

\* The bit that the host reads for a program counter and a range.
Bit(pc, p, f) == <<<<f, Word(pc, p)>>, (p - 1) % WordBits>>

Accessed(pc, p, f) == \E x \in To(Dict[p]) : x[2] = pc /\ x[3] = {f}

\* A bit of the map, read as the host reads it, comes from an access of that kind
\* at that very program counter to a range of the same word whose mask has the bit:
\* rows and words do not run into each other, and a race of two threads may lose a
\* mark but never makes one up.
ViewMarksMasked ==
  \A pc \in Pcs, p \in DOMAIN Dict, f \in {"read", "write"} :
    Bit(pc, p, f) \in bitmap =>
      \E q \in DOMAIN Dict :
        /\ (q - 1) \div WordBits = (p - 1) \div WordBits
        /\ (p - 1) % WordBits \in UNION bit_masks(q)
        /\ Accessed(pc, q, f)

\* What the analysis takes a bit for ("Hit! Start logging data" in torch_view.cpp):
\* it stands for an access at that program counter to that view range.  It fails for
\* a word with ranges from the sign place of the int on.
ViewMarksTrue ==
  \A pc \in Pcs, p \in DOMAIN Dict, f \in {"read", "write"} :
    Bit(pc, p, f) \in bitmap => Accessed(pc, p, f)

=============================================================================
