------------------------------ MODULE GpuQueue ------------------------------
(***************************************************************************)
(* The record buffer that instrumented GPU warps share with one reader     *)
(* (include/gpu-queue.h and its callers in src/gpu-patch*.cu).             *)
(*                                                                         *)
(* Every warp calls gpu_queue_get for a slot, stores one record in it and  *)
(* calls gpu_queue_push.  tail_index counts the slots handed out and       *)
(* head_index the records pushed.  The warp that is handed the index Size  *)
(* finds the buffer full first (the leader): it waits for head_index to    *)
(* reach Size, raises a flag, waits for the reader to lower it, and resets *)
(* head_index and then tail_index.  A warp handed a larger index spins     *)
(* until tail_index drops below Size and asks again.                       *)
(*                                                                         *)
(* The reader is the host when GpuSync is FALSE (it polls `full' and takes *)
(* what is left when the kernel has ended) and the analysis kernel         *)
(* gpu_analysis_interval_merge when GpuSync is TRUE (it polls `analysis'   *)
(* and `num_threads').                                                     *)
(***************************************************************************)
EXTENDS Naturals, FiniteSets

CONSTANTS
  Warps,         \* the warps of the instrumented kernel
  Size,          \* buffer->size, the number of slots
  Quota,         \* number of records each warp emits before it exits
  Modulus,       \* tail_index is a uint32_t: it wraps at Modulus (2^32)
  GpuSync        \* (buffer->flags & GPU_PATCH_ANALYSIS) != 0

ASSUME QueueAssumption ==
  /\ IsFiniteSet(Warps)
  /\ Size \in Nat \ {0}
  /\ Quota \in Nat \ {0}
  /\ Modulus \in Nat
  /\ Size + Cardinality(Warps) < Modulus
  /\ GpuSync \in BOOLEAN

Slots  == 0 .. Size - 1
Record == Warps \X (1 .. Quota)    \* the k-th record of a warp
NoRec  == <<>>                     \* what a slot never written holds

VARIABLES
  tail,        \* buffer->tail_index
  head,        \* buffer->head_index
  full,        \* buffer->full
  analysis,    \* buffer->analysis
  num_threads, \* buffer->num_threads, in warps
  slots,       \* buffer->records as memory has them
  stored,      \* the record each slot was last given by a warp (history)
  pc,          \* where each warp is
  idx,         \* tail_index - 1 in each warp's gpu_queue_get
  emitted,     \* records each warp has pushed
  wbuf,        \* record stores of each warp that have not reached memory
  reader,      \* what the reader is doing
  seen,        \* the slots the reader has read since it started
  received     \* how often the reader has read each record (history)

queue  == <<tail, head, full, analysis, num_threads>>
warp   == <<pc, idx, emitted>>
reading == <<reader, seen, received>>
vars   == <<queue, slots, stored, warp, wbuf, reading>>

Leading == {"lead", "notify", "wait", "resethead", "resettail"}

TypeOK ==
  /\ tail \in 0 .. Modulus - 1
  /\ head \in 0 .. Size
  /\ full \in {0, 1}
  /\ analysis \in {0, 1}
  /\ num_threads \in 0 .. Cardinality(Warps)
  /\ slots \in [Slots -> Record \cup {NoRec}]
  /\ stored \in [Slots -> Record \cup {NoRec}]
  /\ pc \in [Warps -> Leading \cup {"get", "spin", "store", "push", "exit", "done"}]
  /\ idx \in [Warps -> Nat]
  /\ emitted \in [Warps -> 0 .. Quota]
  /\ wbuf \in [Warps -> SUBSET (Slots \X Record)]
  /\ reader \in {"poll", "read", "last", "stop"}
  /\ seen \in SUBSET Slots
  /\ received \in [Record -> Nat]

Init ==
  /\ tail = 0
  /\ head = 0
  /\ full = 0
  /\ analysis = 0
  /\ num_threads = Cardinality(Warps)
  /\ slots = [i \in Slots |-> NoRec]
  /\ stored = [i \in Slots |-> NoRec]
  /\ pc = [w \in Warps |-> "get"]
  /\ idx = [w \in Warps |-> 0]
  /\ emitted = [w \in Warps |-> 0]
  /\ wbuf = [w \in Warps |-> {}]
  /\ reader = "poll"
  /\ seen = {}
  /\ received = [r \in Record |-> 0]

\* The flag through which the leader and the reader synchronise is up.
Raised == IF GpuSync THEN analysis = 1 ELSE full = 1

Goto(w, from, to) == pc[w] = from /\ pc' = [pc EXCEPT ![w] = to]

-----------------------------------------------------------------------------
(* gpu_queue_get *)

\* Mutant: the index Size is handed out as a slot.
ClaimOffByOne(w) ==
  /\ Goto(w, "get", IF tail <= Size THEN "store"
                    ELSE IF tail = Size + 1 THEN "lead" ELSE "spin")
  /\ tail' = (tail + 1) % Modulus
  /\ idx' = [idx EXCEPT ![w] = tail]
  /\ UNCHANGED <<head, full, analysis, num_threads, slots, stored, emitted, wbuf, reading>>

\* Mutant: every warp that finds the buffer full acts as the first one.
ClaimAllLead(w) ==
  /\ Goto(w, "get", IF tail < Size THEN "store" ELSE "lead")
  /\ tail' = (tail + 1) % Modulus
  /\ idx' = [idx EXCEPT ![w] = tail]
  /\ UNCHANGED <<head, full, analysis, num_threads, slots, stored, emitted, wbuf, reading>>

\* The atomicAdd on tail_index and the comparison of its result with size.
Claim(w) ==
  /\ Goto(w, "get", IF tail < Size THEN "store"
                    ELSE IF tail = Size THEN "lead" ELSE "spin")
  /\ tail' = (tail + 1) % Modulus
  /\ idx' = [idx EXCEPT ![w] = tail]
  /\ UNCHANGED <<head, full, analysis, num_threads, slots, stored, emitted, wbuf, reading>>

\* Mutant: the leader does not wait for the writers.
WaitWrittenNot(w) ==
  /\ Goto(w, "lead", "notify")
  /\ UNCHANGED <<queue, slots, stored, idx, emitted, wbuf, reading>>

\* The leader leaves "wait for previous warps finish writing".
WaitWritten(w) ==
  /\ Goto(w, "lead", "notify")
  /\ head >= Size
  /\ UNCHANGED <<queue, slots, stored, idx, emitted, wbuf, reading>>

\* The fence, and the flag of the reader it synchronises with.
Notify(w) ==
  /\ Goto(w, "notify", "wait")
  /\ wbuf[w] = {}
  /\ IF GpuSync THEN analysis' = 1 /\ UNCHANGED full
                ELSE full' = 1 /\ UNCHANGED analysis
  /\ UNCHANGED <<tail, head, num_threads, slots, stored, idx, emitted, wbuf, reading>>

\* The leader sees its flag lowered.
WaitRead(w) ==
  /\ Goto(w, "wait", "resethead")
  /\ ~ Raised
  /\ UNCHANGED <<queue, slots, stored, idx, emitted, wbuf, reading>>

\* Mutant: head_index is not reset.
ResetHeadNot(w) ==
  /\ Goto(w, "resethead", "resettail")
  /\ UNCHANGED <<queue, slots, stored, idx, emitted, wbuf, reading>>

ResetHead(w) ==
  /\ Goto(w, "resethead", "resettail")
  /\ head' = 0
  /\ UNCHANGED <<tail, full, analysis, num_threads, slots, stored, idx, emitted, wbuf, reading>>

\* Mutant: tail_index is not reset.
ResetTailNot(w) ==
  /\ Goto(w, "resettail", "get")
  /\ UNCHANGED <<queue, slots, stored, idx, emitted, wbuf, reading>>

ResetTail(w) ==
  /\ Goto(w, "resettail", "get")
  /\ tail' = 0
  /\ UNCHANGED <<head, full, analysis, num_threads, slots, stored, idx, emitted, wbuf, reading>>

\* Mutant: the other warps retry at once.
SpinExitNot(w) ==
  /\ Goto(w, "spin", "get")
  /\ UNCHANGED <<queue, slots, stored, idx, emitted, wbuf, reading>>

\* Another warp's spin loop reads a tail_index below size.
SpinExit(w) ==
  /\ Goto(w, "spin", "get")
  /\ tail < Size
  /\ UNCHANGED <<queue, slots, stored, idx, emitted, wbuf, reading>>

-----------------------------------------------------------------------------
(* The patch callbacks around it *)

\* The callback fills the record in the slot it was given.
StoreRecord(w) ==
  /\ Goto(w, "store", "push")
  /\ wbuf' = [wbuf EXCEPT ![w] = @ \cup {<<idx[w], <<w, emitted[w] + 1>>>>}]
  /\ stored' = [stored EXCEPT ![idx[w]] = <<w, emitted[w] + 1>>]
  /\ UNCHANGED <<queue, slots, idx, emitted, reading>>

\* A record store reaches memory, at any time but after the earlier stores of
\* the warp to the same slot.
Drain(w) ==
  \E s \in wbuf[w] :
    /\ \A t \in wbuf[w] : t[1] = s[1] => t[2][2] >= s[2][2]
    /\ slots' = [slots EXCEPT ![s[1]] = s[2]]
    /\ wbuf' = [wbuf EXCEPT ![w] = @ \ {s}]
    /\ UNCHANGED <<queue, stored, warp, reading>>

\* Mutant: the record is not counted.
PushUncounted(w) ==
  /\ Goto(w, "push", IF emitted[w] + 1 = Quota THEN "exit" ELSE "get")
  /\ emitted' = [emitted EXCEPT ![w] = @ + 1]
  /\ UNCHANGED <<queue, slots, stored, idx, wbuf, reading>>

\* gpu_queue_push: an atomicAdd that no fence precedes, so the record it counts
\* may still be on its way to memory.
Push(w) ==
  /\ Goto(w, "push", IF emitted[w] + 1 = Quota THEN "exit" ELSE "get")
  /\ head' = head + 1
  /\ emitted' = [emitted EXCEPT ![w] = @ + 1]
  /\ UNCHANGED <<tail, full, analysis, num_threads, slots, stored, idx, wbuf, reading>>

\* Mutant: the first warp to exit takes all the threads off.
ExitAll(w) ==
  /\ Goto(w, "exit", "done")
  /\ num_threads' = 0
  /\ UNCHANGED <<tail, head, full, analysis, slots, stored, idx, emitted, wbuf, reading>>

\* The end of sanitizer_block_exit_callback.
Exit(w) ==
  /\ Goto(w, "exit", "done")
  /\ num_threads' = num_threads - 1
  /\ UNCHANGED <<tail, head, full, analysis, slots, stored, idx, emitted, wbuf, reading>>

-----------------------------------------------------------------------------
(* The reader *)

\* The host sees the end of the kernel; the analysis kernel sees num_threads = 0.
\* The end of a kernel waits for its stores, num_threads does not.
KernelOver ==
  IF GpuSync THEN num_threads = 0
             ELSE \A w \in Warps : pc[w] = "done" /\ wbuf[w] = {}

\* Mutant: the reader does not look at the flag.
BeginReadAny ==
  /\ reader = "poll"
  /\ ~ KernelOver
  /\ reader' = "read"
  /\ UNCHANGED <<queue, slots, stored, warp, wbuf, seen, received>>

\* The analysis loop tests num_threads again after its wait and leaves when it
\* is 0; otherwise the flag is up and the buffer is read.
BeginRead ==
  /\ reader = "poll"
  /\ Raised
  /\ ~ KernelOver
  /\ reader' = "read"
  /\ UNCHANGED <<queue, slots, stored, warp, wbuf, seen, received>>

BeginLast ==
  /\ reader = "poll"
  /\ KernelOver
  /\ reader' = "last"
  /\ UNCHANGED <<queue, slots, stored, warp, wbuf, seen, received>>

\* The host goes through the records in slot order; the warps of the analysis
\* kernel share the slots out between them.  The record that a slot stands for
\* is the one last stored in it; whether memory has it by now is PushedVisible.
ReadSlot ==
  \E i \in Slots \ seen :
    /\ reader \in {"read", "last"}
    /\ i < head
    /\ ~ GpuSync => \A j \in Slots : j < i => j \in seen
    /\ received' = IF stored[i] = NoRec THEN received
                   ELSE [received EXCEPT ![stored[i]] = @ + 1]
    /\ seen' = seen \cup {i}
    /\ UNCHANGED <<queue, slots, stored, warp, wbuf, reader>>

\* Mutant: the last record is left out.
AllSeenButLast == \A i \in Slots : i + 1 < head => i \in seen

AllSeen == \A i \in Slots : i < head => i \in seen

\* All of head_index has been read: the flag is lowered.
EndRead ==
  /\ reader = "read"
  /\ AllSeen
  /\ IF GpuSync THEN analysis' = 0 /\ UNCHANGED full
                ELSE full' = 0 /\ UNCHANGED analysis
  /\ reader' = "poll"
  /\ seen' = {}
  /\ UNCHANGED <<tail, head, num_threads, slots, stored, warp, wbuf, received>>

EndLast ==
  /\ reader = "last"
  /\ AllSeen
  /\ reader' = "stop"
  /\ UNCHANGED <<queue, slots, stored, warp, wbuf, seen, received>>

-----------------------------------------------------------------------------
WarpStep(w) ==
  \/ Claim(w) \/ WaitWritten(w) \/ Notify(w) \/ WaitRead(w)
  \/ ResetHead(w) \/ ResetTail(w) \/ SpinExit(w)
  \/ StoreRecord(w) \/ Push(w) \/ Exit(w)

ReaderStep == BeginRead \/ BeginLast \/ ReadSlot \/ EndRead \/ EndLast

Next == ReaderStep \/ \E w \in Warps : WarpStep(w) \/ Drain(w)

Spec == Init /\ [][Next]_vars

\* Resident warps are scheduled, stores reach memory, the reader keeps polling.
Fairness ==
  /\ WF_vars(ReaderStep)
  /\ \A w \in Warps : WF_vars(WarpStep(w)) /\ WF_vars(Drain(w))

FairSpec == Spec /\ Fairness

-----------------------------------------------------------------------------
(* Properties *)

Writing(w) == pc[w] \in {"store", "push"}
Waiting(w) == pc[w] \in Leading \cup {"spin"}

(* gpu_queue_get hands a slot to one warp at a time, and only slots of the  *)
(* buffer: no two warps between get and push fill the same record, whatever *)
(* generation of the buffer they were served from.                          *)
SlotExclusive ==
  /\ \A w \in Warps : Writing(w) => idx[w] \in Slots
  /\ \A v, w \in Warps : Writing(v) /\ Writing(w) /\ v # w => idx[v] # idx[w]

(* While the reader is on the records, and while the leader resets the      *)
(* counters, no warp is between gpu_queue_get and gpu_queue_push.           *)
ReaderAlone ==
  (reader \in {"read", "last"} \/ \E w \in Warps : pc[w] \in {"resethead", "resettail"})
    => \A w \in Warps : ~ Writing(w)

(* Only one warp at a time believes it is the first that found the buffer   *)
(* full, and as long as tail_index is above size there is one: the resets   *)
(* are neither repeated nor forgotten.                                      *)
OneLeader ==
  /\ \A v, w \in Warps : pc[v] \in Leading /\ pc[w] \in Leading => v = w
  /\ tail > Size => \E w \in Warps : pc[w] \in Leading

(* tail_index keeps growing while warps wait, but never by more than one    *)
(* per waiting warp, so that the 32-bit counter does not wrap to a slot     *)
(* that is in use.                                                          *)
TailBound == tail <= Size + Cardinality({w \in Warps : Waiting(w)})

(* "buffer->analysis must be 0" (gpu_analysis_interval_merge) when the      *)
(* analysis kernel leaves its loop because num_threads is 0: no warp then   *)
(* waits for an answer that will not come.                                  *)
NoAnalysisAtEnd ==
  num_threads = 0 => analysis = 0 /\ \A w \in Warps : ~ Waiting(w)

(* What the queue promises its users, as the abstract specification of a    *)
(* record stream: the slots it hands out and back stand for every record    *)
(* pushed at most once, after it was pushed, and the host meets the records *)
(* of a warp in the order in which the warp emitted them, across any number *)
(* of generations of the buffer.                                            *)
Stream == INSTANCE RecordStream
            WITH Producers <- Warps, Length <- Quota, InOrder <- ~ GpuSync,
                 sent <- emitted, taken <- received

ImplementsStream == Stream!Spec

(* No record is left out: when the reader stops it has been to the slot of  *)
(* every record the warps pushed, exactly once.                             *)
AllReceived ==
  reader = "stop" => \A r \in Record : received[r] = 1

(* What gpu_queue_push says of itself, "Make sure records are visible": a   *)
(* slot that head_index counts and the reader is about to read holds in     *)
(* memory the record last stored in it.                                     *)
PushedVisible ==
  \A i \in Slots :
    (reader \in {"read", "last"} /\ i < head /\ i \notin seen)
      => slots[i] = stored[i]

(* A warp that asked for a slot while tail_index was above size read        *)
(* tail_index only after the slots of the next generation were handed out:  *)
(* nobody is left to become the leader.                                     *)
Stranded ==
  /\ tail = Size /\ head = Size
  /\ \A w \in Warps : pc[w] \in {"spin", "done"}
  /\ \E w \in Warps : pc[w] = "spin"

(* The queue comes to rest only with every record read or with a stranded   *)
(* warp: no other wait in gpu_queue_get lasts forever.                      *)
ComesToRest == <>[](reader = "stop" \/ Stranded)

(* The leader's handshake always completes: a warp that found the buffer    *)
(* full gets it emptied and asks for a slot again.                          *)
LeaderServed == \A w \in Warps : pc[w] \in Leading ~> pc[w] = "get"
=============================================================================
