--------------------------- MODULE GpuQueueProofs ---------------------------
(***************************************************************************)
(* Proofs about GpuQueue for any number of warps, slots and records.       *)
(*                                                                         *)
(* SlotExclusive and ReaderAlone are not inductive.  What makes them so is *)
(* the account of slots: until the leader resets head_index, every slot    *)
(* handed out is either being written or counted by head_index             *)
(* (HeadCounts).  So head_index = Size, which the leader waits for, means  *)
(* that nobody is writing, and that stays true until tail_index is reset.  *)
(***************************************************************************)
EXTENDS GpuQueue, FiniteSetTheorems, TLAPS

Writers    == {w \in Warps : Writing(w)}
WaitingSet == {w \in Warps : Waiting(w)}
Running    == {w \in Warps : pc[w] # "done"}
Claimed    == IF tail < Size THEN tail ELSE Size

\* A leader exists only above size, and one warp at most is resetting.
LeaderAbove == \A w \in Warps : pc[w] \in Leading => tail > Size

\* Slots handed out = slots being written + slots counted by head_index.
HeadCounts ==
  IF \E w \in Warps : pc[w] = "resettail"
  THEN head = 0 /\ Writers = {}
  ELSE head + Cardinality(Writers) = Claimed

\* The leader has seen head_index = Size.
LeaderSaw ==
  \A w \in Warps : pc[w] \in {"notify", "wait", "resethead"} => head = Size

WritersHold ==
  /\ \A w \in Warps : Writing(w) => idx[w] \in Slots /\ idx[w] < tail
  /\ \A v, w \in Warps : Writing(v) /\ Writing(w) /\ v # w => idx[v] # idx[w]

FlagHasLeader ==
  /\ full = 1 \/ analysis = 1 => \E w \in Warps : pc[w] = "wait"
  /\ (IF GpuSync THEN full ELSE analysis) = 0
  /\ reader = "read" => Raised
  /\ reader \in {"last", "stop"} => \A w \in Warps : pc[w] = "done"

ThreadsCount == num_threads = Cardinality(Running)

\* A warp leaves when it has pushed its last record, not before.
OwesRecord ==
  \A w \in Warps : IF pc[w] \in {"exit", "done"} THEN emitted[w] = Quota
                                                ELSE emitted[w] < Quota

QInv ==
  /\ TypeOK
  /\ OwesRecord
  /\ TailBound
  /\ OneLeader
  /\ LeaderAbove
  /\ WritersHold
  /\ HeadCounts
  /\ LeaderSaw
  /\ FlagHasLeader
  /\ ThreadsCount
-----------------------------------------------------------------------------
(* A counter below the modulus does not wrap. *)
LEMMA NoWrap ==
  ASSUME NEW a \in Nat, NEW m \in Nat, a < m
  PROVE  a % m = a
  BY Z3

(* The sets of warps counted below are finite, and no larger than Warps. *)
LEMMA WarpSubsets ==
  ASSUME NEW S \in SUBSET Warps
  PROVE  /\ IsFiniteSet(S)
         /\ Cardinality(S) \in Nat
         /\ Cardinality(S) <= Cardinality(Warps)
         /\ Cardinality(Warps) \in Nat
         /\ Cardinality(S) = 0 <=> S = {}
  BY QueueAssumption, FS_Subset, FS_CardinalityType, FS_EmptySet

(* A warp that joins a set of warps adds one to its size. *)
LEMMA Joins ==
  ASSUME NEW S \in SUBSET Warps, NEW w \in Warps, w \notin S
  PROVE  Cardinality(S \cup {w}) = Cardinality(S) + 1
  BY WarpSubsets, FS_AddElement

(* A warp that leaves a set of warps takes one from its size. *)
LEMMA Leaves ==
  ASSUME NEW S \in SUBSET Warps, NEW w \in S
  PROVE  Cardinality(S \ {w}) = Cardinality(S) - 1
  BY WarpSubsets, FS_RemoveElement

(* Initially no warp has a slot and all are running. *)
LEMMA QInvInit == Init => QInv
  <1> SUFFICES ASSUME Init PROVE QInv
    OBVIOUS
  <1>1. Writers = {} /\ WaitingSet = {} /\ Running = Warps
    BY DEF Init, Writers, WaitingSet, Running, Writing, Waiting, Leading
  <1>2. Cardinality({}) = 0 /\ Cardinality(Warps) \in Nat
    BY WarpSubsets, FS_EmptySet
  <1>3. TypeOK
    <2>1. full \in {0, 1} /\ analysis \in {0, 1}
      BY DEF Init
    <2>2. /\ tail \in 0 .. Modulus - 1 /\ head \in 0 .. Size
          /\ num_threads \in 0 .. Cardinality(Warps)
          /\ emitted \in [Warps -> 0 .. Quota]
      BY <1>2, QueueAssumption DEF Init
    <2>3. /\ slots \in [Slots -> Record \cup {NoRec}]
          /\ stored \in [Slots -> Record \cup {NoRec}]
          /\ pc \in [Warps -> Leading \cup {"get", "spin", "store", "push", "exit", "done"}]
          /\ idx \in [Warps -> Nat] /\ wbuf \in [Warps -> SUBSET (Slots \X Record)]
      BY DEF Init
    <2>4. /\ reader \in {"poll", "read", "last", "stop"} /\ seen \in SUBSET Slots
          /\ received \in [Record -> Nat]
      BY DEF Init
    <2> QED
      BY <2>1, <2>2, <2>3, <2>4 DEF TypeOK
  <1>4. TailBound
    BY <1>1, <1>2, QueueAssumption DEF Init, TailBound, WaitingSet
  <1>5. HeadCounts
    BY <1>1, <1>2, QueueAssumption DEF Init, HeadCounts, Claimed
  <1>6. ThreadsCount
    BY <1>1 DEF Init, ThreadsCount
  <1>7. /\ OwesRecord /\ OneLeader /\ LeaderAbove
        /\ WritersHold /\ LeaderSaw /\ FlagHasLeader
    BY QueueAssumption DEF Init, OwesRecord, OneLeader, LeaderAbove, WritersHold,
       LeaderSaw, FlagHasLeader, Leading, Writing
  <1> QED
    BY <1>3, <1>4, <1>5, <1>6, <1>7 DEF QInv

-----------------------------------------------------------------------------
(* One lemma per action: it preserves QInv.  The parts of QInv that do not  *)
(* count are proved together, the counting ones from how the action changes *)
(* the sets of writing, waiting and running warps.                          *)

Plain == /\ TypeOK /\ OwesRecord /\ OneLeader /\ LeaderAbove
         /\ WritersHold /\ LeaderSaw /\ FlagHasLeader

(* At most Size writers and Size records counted. *)
LEMMA Counts ==
  ASSUME QInv
  PROVE  /\ Cardinality(Writers) \in Nat /\ Cardinality(WaitingSet) \in Nat
         /\ Cardinality(Running) \in Nat /\ Cardinality(Warps) \in Nat
         /\ Cardinality(WaitingSet) <= Cardinality(Warps)
         /\ Cardinality(Writers) = 0 <=> Writers = {}
         /\ tail \in Nat /\ head \in Nat /\ Size \in Nat \ {0} /\ Modulus \in Nat
         /\ tail <= Size + Cardinality(WaitingSet)
  <1>1. Writers \in SUBSET Warps /\ WaitingSet \in SUBSET Warps /\ Running \in SUBSET Warps
    BY DEF Writers, WaitingSet, Running
  <1>2. tail \in Nat /\ head \in Nat
    BY QueueAssumption DEF QInv, TypeOK
  <1>3. tail <= Size + Cardinality(WaitingSet)
    BY DEF QInv, TailBound, WaitingSet
  <1> QED
    BY <1>1, <1>2, <1>3, WarpSubsets, QueueAssumption

(* The atomicAdd of gpu_queue_get does not wrap: the caller is not waiting  *)
(* yet, so tail_index is at most Size plus the other warps.                 *)
LEMMA TailAdvances ==
  ASSUME QInv, NEW w \in Warps, Claim(w)
  PROVE  tail' = tail + 1 /\ tail + 1 < Modulus
  <1>1. w \notin WaitingSet /\ WaitingSet \cup {w} \in SUBSET Warps
    BY DEF Claim, Goto, WaitingSet, Waiting, Leading
  <1>2. Cardinality(WaitingSet \cup {w}) = Cardinality(WaitingSet) + 1
    BY <1>1, Joins DEF WaitingSet
  <1>3. tail + 1 < Modulus
    BY <1>1, <1>2, WarpSubsets, Counts, QueueAssumption
  <1> QED
    BY <1>3, NoWrap, Counts DEF Claim

(* The atomicAdd of gpu_queue_get: a slot, the lead, or a wait. *)
LEMMA ClaimInv ==
  ASSUME QInv, NEW w \in Warps, Claim(w)
  PROVE  QInv'
  <1> USE QueueAssumption
  <1>2. tail' = tail + 1 /\ tail + 1 < Modulus
    BY TailAdvances
  <1>3. /\ pc[w] = "get"
        /\ pc' \in [Warps -> Leading \cup {"get", "spin", "store", "push", "exit", "done"}]
        /\ \A v \in Warps : v # w => pc'[v] = pc[v]
        /\ pc'[w] = IF tail < Size THEN "store" ELSE IF tail = Size THEN "lead" ELSE "spin"
    BY DEF Claim, Goto, QInv, TypeOK, Leading
  <1>4. Plain'
    <2>1. TypeOK'
      <3>1. tail' \in 0 .. Modulus - 1
        BY <1>2, Counts
      <3>2. idx' \in [Warps -> Nat]
        BY Counts DEF Claim, QInv, TypeOK
      <3> QED
        BY <1>3, <3>1, <3>2 DEF Claim, QInv, TypeOK, reading
    <2>2. OwesRecord' /\ FlagHasLeader'
      BY <1>3 DEF Claim, QInv, OwesRecord, FlagHasLeader, Raised, reading
    <2>3. OneLeader' /\ LeaderAbove'
      BY <1>2, <1>3, Counts DEF Claim, QInv, OneLeader, LeaderAbove, Leading
    <2>4. WritersHold'
      <3>1. idx'[w] = tail /\ \A v \in Warps : v # w => idx'[v] = idx[v]
        BY DEF Claim, QInv, TypeOK
      <3>2. Writing(w)' => tail < Size
        BY <1>3 DEF Writing
      <3>3. \A v \in Warps : v # w => (Writing(v)' <=> Writing(v))
        BY <1>3 DEF Writing
      <3> QED
        BY <1>2, <3>1, <3>2, <3>3, Counts DEF QInv, WritersHold, Slots
    <2>5. LeaderSaw'
      BY <1>3 DEF Claim, QInv, LeaderSaw
    <2> QED
      BY <2>1, <2>2, <2>3, <2>4, <2>5 DEF Plain
  <1>5. CASE tail < Size
    <2>1. Writers' = Writers \cup {w} /\ w \notin Writers
          /\ WaitingSet' = WaitingSet /\ Running' = Running
      BY <1>3, <1>5 DEF Writers, WaitingSet, Running, Writing, Waiting, Leading
    <2>2. Cardinality(Writers') = Cardinality(Writers) + 1
      BY <2>1, Joins DEF Writers
    <2>3. ~ \E v \in Warps : pc[v] = "resettail" \/ pc'[v] = "resettail"
      BY <1>3, <1>5, Counts DEF QInv, LeaderAbove, Leading
    <2>4. TailBound'
      BY <1>2, <1>5, Counts, <2>1 DEF TailBound, WaitingSet
    <2>5. HeadCounts'
      BY <1>2, <1>5, <2>1, <2>2, <2>3, Counts DEF Claim, QInv, HeadCounts, Claimed
    <2>6. ThreadsCount'
      BY <2>1 DEF Claim, QInv, ThreadsCount
    <2> QED
      BY <1>4, <2>4, <2>5, <2>6 DEF Plain, QInv
  <1>6. CASE tail >= Size
    <2>1. Writers' = Writers /\ WaitingSet' = WaitingSet \cup {w} /\ w \notin WaitingSet
          /\ Running' = Running
      BY <1>3, <1>6, Counts DEF Writers, WaitingSet, Running, Writing, Waiting, Leading
    <2>2. Cardinality(WaitingSet') = Cardinality(WaitingSet) + 1
      BY <2>1, Joins DEF WaitingSet
    <2>3. (\E v \in Warps : pc'[v] = "resettail") <=> (\E v \in Warps : pc[v] = "resettail")
      BY <1>3
    <2>4. TailBound'
      BY <1>2, <2>2, Counts DEF TailBound, WaitingSet
    <2>5. HeadCounts'
      BY <1>2, <1>6, <2>1, <2>3, Counts DEF Claim, QInv, HeadCounts, Claimed
    <2>6. ThreadsCount'
      BY <2>1 DEF Claim, QInv, ThreadsCount
    <2> QED
      BY <1>4, <2>4, <2>5, <2>6 DEF Plain, QInv
  <1> QED
    BY <1>5, <1>6, Counts

(* The leader goes from one of its waits to the next. *)
LEMMA LeaderMoves ==
  ASSUME QInv, NEW w \in Warps, NEW p \in Leading, NEW q \in Leading, Goto(w, p, q)
  PROVE  /\ Writers' = Writers /\ WaitingSet' = WaitingSet /\ Running' = Running
         /\ pc' \in [Warps -> Leading \cup {"get", "spin", "store", "push", "exit", "done"}]
         /\ pc[w] = p /\ pc'[w] = q /\ tail > Size
         /\ \A v \in Warps : v # w => pc'[v] = pc[v] /\ pc[v] \notin Leading
         /\ \A v \in Warps : Writing(v)' <=> Writing(v)
  BY DEF QInv, TypeOK, OneLeader, LeaderAbove, Goto, Leading, Writers, WaitingSet, Running,
         Writing, Waiting

(* "Wait for previous warps finish writing" leaves with head_index = size. *)
LEMMA WaitWrittenInv ==
  ASSUME QInv, NEW w \in Warps, WaitWritten(w)
  PROVE  QInv'
  <1> USE QueueAssumption
  <1>1. Goto(w, "lead", "notify") /\ UNCHANGED <<queue, slots, stored, idx, emitted, wbuf, reading>>
        /\ head = Size
    BY DEF WaitWritten, QInv, TypeOK
  <1>2. "lead" \in Leading /\ "notify" \in Leading
    BY DEF Leading
  <1>3. TypeOK'
    BY <1>1, <1>2, LeaderMoves DEF QInv, TypeOK, queue, reading
  <1>4. OwesRecord' /\ OneLeader' /\ LeaderAbove' /\ LeaderSaw' /\ FlagHasLeader'
    BY <1>1, <1>2, LeaderMoves DEF QInv, queue, reading, OwesRecord, OneLeader,
       LeaderAbove, LeaderSaw, FlagHasLeader, Raised
  <1>5. WritersHold'
    BY <1>1, <1>2, LeaderMoves DEF QInv, WritersHold, queue
  <1>6. TailBound' /\ ThreadsCount' /\ HeadCounts'
    BY <1>1, <1>2, LeaderMoves
       DEF QInv, TailBound, ThreadsCount, HeadCounts, Claimed, WaitingSet, queue
  <1> QED
    BY <1>3, <1>4, <1>5, <1>6 DEF QInv

(* The leader raises the flag it will wait on. *)
LEMMA NotifyInv ==
  ASSUME QInv, NEW w \in Warps, Notify(w)
  PROVE  QInv'
  <1> USE QueueAssumption
  <1>1. /\ Goto(w, "notify", "wait")
        /\ UNCHANGED <<tail, head, num_threads, slots, stored, idx, emitted, wbuf, reading>>
    BY DEF Notify
  <1>2. "notify" \in Leading /\ "wait" \in Leading
    BY DEF Leading
  <1>3. full' \in {0, 1} /\ analysis' \in {0, 1} /\ (IF GpuSync THEN full ELSE analysis)' = 0
        /\ Raised'
    BY DEF Notify, QInv, TypeOK, FlagHasLeader, Raised
  <1>4. TypeOK'
    BY <1>1, <1>2, <1>3, LeaderMoves DEF QInv, TypeOK, reading
  <1>5. OwesRecord' /\ OneLeader' /\ LeaderAbove' /\ LeaderSaw'
    BY <1>1, <1>2, LeaderMoves DEF QInv, OwesRecord, OneLeader, LeaderAbove, LeaderSaw
  <1>6. FlagHasLeader'
    BY <1>1, <1>2, <1>3, LeaderMoves DEF QInv, FlagHasLeader, reading
  <1>7. WritersHold'
    BY <1>1, <1>2, LeaderMoves DEF QInv, WritersHold
  <1>8. TailBound' /\ ThreadsCount' /\ HeadCounts'
    BY <1>1, <1>2, LeaderMoves
       DEF QInv, TailBound, ThreadsCount, HeadCounts, Claimed, WaitingSet
  <1> QED
    BY <1>4, <1>5, <1>6, <1>7, <1>8 DEF QInv

(* The leader sees the flag lowered: no flag is up any more. *)
LEMMA WaitReadInv ==
  ASSUME QInv, NEW w \in Warps, WaitRead(w)
  PROVE  QInv'
  <1> USE QueueAssumption
  <1>1. Goto(w, "wait", "resethead") /\ UNCHANGED <<queue, slots, stored, idx, emitted, wbuf, reading>>
        /\ ~ Raised
    BY DEF WaitRead
  <1>2. "wait" \in Leading /\ "resethead" \in Leading
    BY DEF Leading
  <1>3. full = 0 /\ analysis = 0
    BY <1>1 DEF QInv, TypeOK, FlagHasLeader, Raised
  <1>4. TypeOK'
    BY <1>1, <1>2, LeaderMoves DEF QInv, TypeOK, queue, reading
  <1>5. OwesRecord' /\ OneLeader' /\ LeaderAbove' /\ LeaderSaw'
    BY <1>1, <1>2, LeaderMoves DEF QInv, queue, OwesRecord, OneLeader, LeaderAbove, LeaderSaw
  <1>6. FlagHasLeader'
    BY <1>1, <1>2, <1>3, LeaderMoves DEF QInv, FlagHasLeader, Raised, queue, reading
  <1>7. WritersHold'
    BY <1>1, <1>2, LeaderMoves DEF QInv, WritersHold, queue
  <1>8. TailBound' /\ ThreadsCount' /\ HeadCounts'
    BY <1>1, <1>2, LeaderMoves
       DEF QInv, TailBound, ThreadsCount, HeadCounts, Claimed, WaitingSet, queue
  <1> QED
    BY <1>4, <1>5, <1>6, <1>7, <1>8 DEF QInv

(* head_index is reset while no slot is being written. *)
LEMMA ResetHeadInv ==
  ASSUME QInv, NEW w \in Warps, ResetHead(w)
  PROVE  QInv'
  <1> USE QueueAssumption
  <1>1. Goto(w, "resethead", "resettail") /\ head' = 0
        /\ UNCHANGED <<tail, full, analysis, num_threads, slots, stored, idx, emitted, wbuf, reading>>
    BY DEF ResetHead
  <1>2. "resethead" \in Leading /\ "resettail" \in Leading
    BY DEF Leading
  <1>3. Writers = {}
    <2>1. head = Size /\ ~ \E v \in Warps : pc[v] = "resettail"
      BY <1>1, <1>2, LeaderMoves DEF QInv, LeaderSaw
    <2> QED
      BY <2>1, Counts DEF QInv, HeadCounts, Claimed
  <1>4. TypeOK'
    BY <1>1, <1>2, LeaderMoves DEF QInv, TypeOK, reading
  <1>5. OwesRecord' /\ OneLeader' /\ LeaderAbove' /\ LeaderSaw'
    BY <1>1, <1>2, LeaderMoves DEF QInv, OwesRecord, OneLeader, LeaderAbove, LeaderSaw, Leading
  <1>6. FlagHasLeader'
    BY <1>1, <1>2, LeaderMoves DEF QInv, FlagHasLeader, Raised, reading
  <1>7. WritersHold'
    BY <1>1, <1>2, LeaderMoves DEF QInv, WritersHold
  <1>8. TailBound' /\ ThreadsCount'
    BY <1>1, <1>2, LeaderMoves DEF QInv, TailBound, ThreadsCount, WaitingSet
  <1>9. HeadCounts'
    BY <1>1, <1>2, <1>3, LeaderMoves DEF HeadCounts
  <1> QED
    BY <1>4, <1>5, <1>6, <1>7, <1>8, <1>9 DEF QInv

(* tail_index is reset last: the next generation starts with no writer. *)
LEMMA ResetTailInv ==
  ASSUME QInv, NEW w \in Warps, ResetTail(w)
  PROVE  QInv'
  <1> USE QueueAssumption
  <1>1. /\ pc[w] = "resettail" /\ pc' = [pc EXCEPT ![w] = "get"] /\ tail' = 0
        /\ UNCHANGED <<head, full, analysis, num_threads, slots, stored, idx, emitted, wbuf, reading>>
    BY DEF ResetTail, Goto
  <1>2. /\ head = 0 /\ Writers = {}
        /\ \A v \in Warps : v # w => pc'[v] = pc[v] /\ pc[v] \notin Leading
        /\ pc'[w] = "get"
        /\ pc' \in [Warps -> Leading \cup {"get", "spin", "store", "push", "exit", "done"}]
    BY <1>1 DEF QInv, HeadCounts, OneLeader, Leading, TypeOK
  <1>3. /\ Writers' = {} /\ Running' = Running
        /\ \A v \in Warps : pc'[v] \notin Leading /\ ~ Writing(v)'
    BY <1>1, <1>2 DEF Writers, Running, Writing, Leading
  <1>4. Cardinality(WaitingSet') \in Nat /\ Cardinality(Writers') = 0
    BY <1>3, WarpSubsets, FS_EmptySet DEF WaitingSet
  <1>5. TypeOK'
    BY <1>1, <1>2, Counts DEF QInv, TypeOK, reading
  <1>6. OneLeader' /\ LeaderAbove' /\ WritersHold'
    BY <1>1, <1>3 DEF OneLeader, LeaderAbove, WritersHold
  <1>7. OwesRecord' /\ LeaderSaw'
    BY <1>1, <1>2, <1>3 DEF QInv, OwesRecord, LeaderSaw, Leading
  <1>8. FlagHasLeader'
    BY <1>1, <1>2 DEF QInv, FlagHasLeader, Raised, reading, Leading
  <1>9. TailBound' /\ ThreadsCount'
    BY <1>1, <1>3, <1>4 DEF QInv, TailBound, ThreadsCount, WaitingSet
  <1>10. HeadCounts'
    BY <1>1, <1>2, <1>3, <1>4 DEF HeadCounts, Claimed, Leading
  <1> QED
    BY <1>5, <1>6, <1>7, <1>8, <1>9, <1>10 DEF QInv

(* A spinning warp leaves only when there is room below size. *)
LEMMA SpinExitInv ==
  ASSUME QInv, NEW w \in Warps, SpinExit(w)
  PROVE  QInv'
  <1> USE QueueAssumption
  <1>1. /\ pc[w] = "spin" /\ pc' = [pc EXCEPT ![w] = "get"] /\ tail < Size
        /\ UNCHANGED <<tail, head, full, analysis, num_threads, slots, stored, idx, emitted, wbuf, reading>>
    BY DEF SpinExit, Goto, queue
  <1>2. /\ \A v \in Warps : v # w => pc'[v] = pc[v]
        /\ pc'[w] = "get"
        /\ pc' \in [Warps -> Leading \cup {"get", "spin", "store", "push", "exit", "done"}]
    BY <1>1 DEF QInv, TypeOK
  <1>3. /\ Writers' = Writers /\ Running' = Running
        /\ \A v \in Warps : /\ pc'[v] \in Leading <=> pc[v] \in Leading
                            /\ Writing(v)' <=> Writing(v)
    BY <1>1, <1>2 DEF Writers, Running, Writing, Leading
  <1>4. Cardinality(WaitingSet') \in Nat
    BY WarpSubsets DEF WaitingSet
  <1>5. TypeOK'
    BY <1>1, <1>2 DEF QInv, TypeOK, reading
  <1>6. OneLeader' /\ LeaderAbove' /\ WritersHold'
    BY <1>1, <1>3 DEF QInv, OneLeader, LeaderAbove, WritersHold
  <1>7. OwesRecord' /\ LeaderSaw' /\ FlagHasLeader'
    BY <1>1, <1>2 DEF QInv, OwesRecord, LeaderSaw, FlagHasLeader, Raised, reading
  <1>8. TailBound' /\ ThreadsCount'
    BY <1>1, <1>3, <1>4, Counts DEF QInv, TailBound, ThreadsCount, WaitingSet
  <1>9. HeadCounts'
    BY <1>1, <1>2, <1>3 DEF QInv, HeadCounts, Claimed
  <1> QED
    BY <1>5, <1>6, <1>7, <1>8, <1>9 DEF QInv

(* Filling the record moves no counter. *)
LEMMA StoreRecordInv ==
  ASSUME QInv, NEW w \in Warps, StoreRecord(w)
  PROVE  QInv'
  <1> USE QueueAssumption
  <1>1. /\ pc[w] = "store" /\ pc' = [pc EXCEPT ![w] = "push"]
        /\ UNCHANGED <<tail, head, full, analysis, num_threads, slots, idx, emitted, reading>>
    BY DEF StoreRecord, Goto, queue
  <1>2. /\ \A v \in Warps : v # w => pc'[v] = pc[v]
        /\ pc'[w] = "push"
        /\ pc' \in [Warps -> Leading \cup {"get", "spin", "store", "push", "exit", "done"}]
    BY <1>1 DEF QInv, TypeOK
  <1>3. /\ Writers' = Writers /\ Running' = Running /\ WaitingSet' = WaitingSet
        /\ \A v \in Warps : /\ pc'[v] \in Leading <=> pc[v] \in Leading
                            /\ Writing(v)' <=> Writing(v)
    BY <1>1, <1>2 DEF Writers, Running, WaitingSet, Writing, Waiting, Leading
  <1>4. TypeOK'
    <2>1. idx[w] \in Slots /\ emitted[w] + 1 \in 1 .. Quota
      BY <1>1 DEF QInv, TypeOK, WritersHold, Writing, OwesRecord
    <2>2. wbuf' \in [Warps -> SUBSET (Slots \X Record)]
      BY <2>1 DEF StoreRecord, QInv, TypeOK, Record
    <2>3. stored' \in [Slots -> Record \cup {NoRec}]
      BY <2>1 DEF StoreRecord, QInv, TypeOK, Record
    <2> QED
      BY <1>1, <1>2, <2>2, <2>3 DEF QInv, TypeOK, reading
  <1>5. OneLeader' /\ LeaderAbove' /\ WritersHold'
    BY <1>1, <1>3 DEF QInv, OneLeader, LeaderAbove, WritersHold
  <1>6. OwesRecord' /\ LeaderSaw' /\ FlagHasLeader'
    BY <1>1, <1>2 DEF QInv, OwesRecord, LeaderSaw, FlagHasLeader, Raised, reading
  <1>7. TailBound' /\ ThreadsCount' /\ HeadCounts'
    BY <1>1, <1>2, <1>3 DEF QInv, TailBound, ThreadsCount, HeadCounts, Claimed, WaitingSet
  <1> QED
    BY <1>4, <1>5, <1>6, <1>7 DEF QInv

(* A store that reaches memory changes a slot and nothing that is counted. *)
LEMMA DrainInv ==
  ASSUME QInv, NEW w \in Warps, Drain(w)
  PROVE  QInv'
  <1>1. UNCHANGED <<queue, stored, warp, reading>>
    BY DEF Drain
  <1>2. slots' \in [Slots -> Record \cup {NoRec}] /\ wbuf' \in [Warps -> SUBSET (Slots \X Record)]
    <2>1. PICK s \in wbuf[w] : /\ slots' = [slots EXCEPT ![s[1]] = s[2]]
                               /\ wbuf' = [wbuf EXCEPT ![w] = @ \ {s}]
      BY DEF Drain
    <2>2. s \in Slots \X Record
      BY DEF QInv, TypeOK
    <2> QED
      BY <2>1, <2>2 DEF QInv, TypeOK
  <1>3. TypeOK'
    BY <1>1, <1>2 DEF QInv, TypeOK, queue, warp, reading
  <1> QED
    BY <1>1, <1>3 DEF QInv, queue, warp, reading, OwesRecord, OneLeader, LeaderAbove,
       WritersHold, LeaderSaw, FlagHasLeader, Raised, TailBound, ThreadsCount, HeadCounts,
       Claimed, Writers, Running, Writing, Waiting

(* A push moves one slot from the writers to head_index. *)
LEMMA PushInv ==
  ASSUME QInv, NEW w \in Warps, Push(w)
  PROVE  QInv'
  <1> USE QueueAssumption
  <1>1. /\ pc[w] = "push" /\ head' = head + 1
        /\ pc' = [pc EXCEPT ![w] = IF emitted[w] + 1 = Quota THEN "exit" ELSE "get"]
        /\ emitted' = [emitted EXCEPT ![w] = @ + 1]
        /\ UNCHANGED <<tail, full, analysis, num_threads, slots, stored, idx, wbuf, reading>>
    BY DEF Push, Goto
  <1>2. /\ \A v \in Warps : v # w => pc'[v] = pc[v] /\ emitted'[v] = emitted[v]
        /\ pc'[w] = IF emitted[w] + 1 = Quota THEN "exit" ELSE "get"
        /\ emitted'[w] = emitted[w] + 1
        /\ pc' \in [Warps -> Leading \cup {"get", "spin", "store", "push", "exit", "done"}]
    BY <1>1 DEF QInv, TypeOK
  <1>3. /\ Writers' = Writers \ {w} /\ w \in Writers
        /\ Running' = Running /\ WaitingSet' = WaitingSet
        /\ \A v \in Warps : /\ pc'[v] \in Leading <=> pc[v] \in Leading
                            /\ Writing(v)' <=> Writing(v) /\ v # w
    BY <1>1, <1>2 DEF Writers, Running, WaitingSet, Writing, Waiting, Leading
  <1>4. /\ Cardinality(Writers') = Cardinality(Writers) - 1
        /\ Cardinality(Writers) > 0
    BY <1>3, Leaves, Counts DEF Writers
  <1>5. /\ head + Cardinality(Writers) = Claimed
        /\ ~ \E v \in Warps : pc[v] = "resettail"
        /\ head < Size
    BY <1>3, <1>4, Counts DEF QInv, HeadCounts, Claimed
  <1>6. TypeOK'
    <2>1. emitted' \in [Warps -> 0 .. Quota]
      BY <1>1 DEF QInv, TypeOK, OwesRecord
    <2>2. head' \in 0 .. Size
      BY <1>1, <1>5, Counts
    <2> QED
      BY <1>1, <1>2, <2>1, <2>2 DEF QInv, TypeOK, reading
  <1>7. OneLeader' /\ LeaderAbove' /\ WritersHold'
    BY <1>1, <1>3 DEF QInv, OneLeader, LeaderAbove, WritersHold
  <1>8. OwesRecord'
    BY <1>1, <1>2 DEF QInv, TypeOK, OwesRecord
  <1>9. LeaderSaw'
    BY <1>2, <1>3, <1>5, Counts DEF QInv, LeaderSaw
  <1>10. FlagHasLeader'
    BY <1>1, <1>2 DEF QInv, FlagHasLeader, Raised, reading
  <1>11. TailBound' /\ ThreadsCount'
    BY <1>1, <1>3 DEF QInv, TailBound, ThreadsCount, WaitingSet
  <1>12. HeadCounts'
    BY <1>1, <1>2, <1>4, <1>5, Counts DEF HeadCounts, Claimed
  <1> QED
    BY <1>6, <1>7, <1>8, <1>9, <1>10, <1>11, <1>12 DEF QInv

(* A warp that exits takes its threads out of num_threads. *)
LEMMA ExitInv ==
  ASSUME QInv, NEW w \in Warps, Exit(w)
  PROVE  QInv'
  <1> USE QueueAssumption
  <1>1. /\ pc[w] = "exit" /\ pc' = [pc EXCEPT ![w] = "done"]
        /\ num_threads' = num_threads - 1
        /\ UNCHANGED <<tail, head, full, analysis, slots, stored, idx, emitted, wbuf, reading>>
    BY DEF Exit, Goto
  <1>2. /\ \A v \in Warps : v # w => pc'[v] = pc[v]
        /\ pc'[w] = "done"
        /\ pc' \in [Warps -> Leading \cup {"get", "spin", "store", "push", "exit", "done"}]
    BY <1>1 DEF QInv, TypeOK
  <1>3. /\ Writers' = Writers /\ WaitingSet' = WaitingSet
        /\ Running' = Running \ {w} /\ w \in Running
        /\ \A v \in Warps : /\ pc'[v] \in Leading <=> pc[v] \in Leading
                            /\ Writing(v)' <=> Writing(v)
    BY <1>1, <1>2 DEF Writers, Running, WaitingSet, Writing, Waiting, Leading
  <1>4. ThreadsCount' /\ num_threads' \in 0 .. Cardinality(Warps)
    <2>1. Running \in SUBSET Warps /\ Running' \in SUBSET Warps
      BY DEF Running
    <2>2. Cardinality(Running') = Cardinality(Running) - 1
      BY <1>3, <2>1, Leaves
    <2>3. Cardinality(Running') \in Nat /\ Cardinality(Running') <= Cardinality(Warps)
      BY <2>1, WarpSubsets
    <2> QED
      BY <1>1, <2>2, <2>3, Counts DEF QInv, ThreadsCount
  <1>5. TypeOK'
    BY <1>1, <1>2, <1>4 DEF QInv, TypeOK, reading
  <1>6. OneLeader' /\ LeaderAbove' /\ WritersHold'
    BY <1>1, <1>3 DEF QInv, OneLeader, LeaderAbove, WritersHold
  <1>7. OwesRecord' /\ LeaderSaw' /\ FlagHasLeader'
    BY <1>1, <1>2 DEF QInv, OwesRecord, LeaderSaw, FlagHasLeader, Raised, reading
  <1>8. TailBound' /\ HeadCounts'
    BY <1>1, <1>2, <1>3 DEF QInv, TailBound, HeadCounts, Claimed, WaitingSet
  <1> QED
    BY <1>4, <1>5, <1>6, <1>7, <1>8 DEF QInv

(* When num_threads is 0 every warp has left. *)
LEMMA NoThreads ==
  ASSUME QInv, num_threads = 0
  PROVE  \A w \in Warps : pc[w] = "done"
  <1>1. Running \in SUBSET Warps
    BY DEF Running
  <1>2. Running = {}
    BY <1>1, WarpSubsets DEF QInv, ThreadsCount
  <1> QED
    BY <1>2 DEF Running

(* The reader moves neither counters nor warps; the flag it lowers is the   *)
(* one the leader waits on.                                                 *)
LEMMA ReaderInv ==
  ASSUME QInv, ReaderStep
  PROVE  QInv'
  <1> USE QueueAssumption
  <1>1. UNCHANGED <<tail, head, num_threads, slots, stored, pc, idx, emitted, wbuf>>
    BY DEF ReaderStep, BeginRead, BeginLast, ReadSlot, EndRead, EndLast, queue, warp
  <1>2. TypeOK'
    <2>1. CASE BeginRead \/ BeginLast \/ EndLast
      BY <2>1 DEF QInv, TypeOK, BeginRead, BeginLast, EndLast, queue, warp
    <2>2. CASE ReadSlot
      <3>1. received' \in [Record -> Nat] /\ seen' \in SUBSET Slots
        BY <2>2 DEF QInv, TypeOK, ReadSlot
      <3> QED
        BY <2>2, <3>1 DEF QInv, TypeOK, ReadSlot, queue, warp
    <2>3. CASE EndRead
      BY <2>3 DEF QInv, TypeOK, EndRead, warp
    <2> QED
      BY <2>1, <2>2, <2>3 DEF ReaderStep
  <1>3. FlagHasLeader'
    <2>1. CASE BeginRead
      BY <2>1 DEF QInv, FlagHasLeader, BeginRead, Raised, queue, warp
    <2>2. CASE BeginLast
      BY <2>2, NoThreads DEF QInv, FlagHasLeader, BeginLast, KernelOver, Raised, queue, warp
    <2>3. CASE ReadSlot
      BY <2>3 DEF QInv, FlagHasLeader, ReadSlot, Raised, queue, warp
    <2>4. CASE EndRead
      BY <2>4 DEF QInv, FlagHasLeader, EndRead, warp
    <2>5. CASE EndLast
      BY <2>5 DEF QInv, FlagHasLeader, EndLast, Raised, queue, warp
    <2> QED
      BY <2>1, <2>2, <2>3, <2>4, <2>5 DEF ReaderStep
  <1> QED
    BY <1>1, <1>2, <1>3 DEF QInv, OwesRecord, OneLeader, LeaderAbove, WritersHold, LeaderSaw,
       TailBound, ThreadsCount, HeadCounts, Claimed, Writers, Running, Writing, Waiting

(* Every step preserves the invariant. *)
LEMMA QInvNext == QInv /\ [Next]_vars => QInv'
  <1> SUFFICES ASSUME QInv, [Next]_vars PROVE QInv'
    OBVIOUS
  <1>1. CASE ReaderStep
    BY <1>1, ReaderInv
  <1>2. ASSUME NEW w \in Warps, WarpStep(w) \/ Drain(w)
        PROVE  QInv'
    BY <1>2, ClaimInv, WaitWrittenInv, NotifyInv, WaitReadInv, ResetHeadInv, ResetTailInv,
       SpinExitInv, StoreRecordInv, DrainInv, PushInv, ExitInv DEF WarpStep
  <1>3. CASE UNCHANGED vars
    BY <1>3 DEF vars, queue, warp, reading, QInv, TypeOK, OwesRecord, OneLeader, LeaderAbove,
       WritersHold, LeaderSaw, FlagHasLeader, Raised, TailBound, ThreadsCount, HeadCounts,
       Claimed, Writers, Running, Writing, Waiting
  <1> QED
    BY <1>1, <1>2, <1>3 DEF Next

(* The account of slots, waits and flags holds in every state. *)
THEOREM QInvHolds == Spec => []QInv
  BY QInvInit, QInvNext, PTL DEF Spec
-----------------------------------------------------------------------------
(* What the invariant gives. *)

(* Type correctness of the queue; with it, tail_index never wraps. *)
THEOREM TypeCorrect == Spec => []TypeOK
  <1>1. QInv => TypeOK
    BY DEF QInv
  <1> QED
    BY <1>1, QInvHolds, PTL

(* gpu_queue_get never hands a slot to two warps that are both before their *)
(* gpu_queue_push, for any number of warps and slots.                       *)
THEOREM SlotsExclusive == Spec => []SlotExclusive
  <1>1. QInv => SlotExclusive
    BY DEF QInv, WritersHold, SlotExclusive
  <1> QED
    BY <1>1, QInvHolds, PTL

(* One warp leads, and one does whenever tail_index is above size. *)
THEOREM SingleLeader == Spec => []OneLeader
  <1>1. QInv => OneLeader
    BY DEF QInv
  <1> QED
    BY <1>1, QInvHolds, PTL

(* The growth of tail_index is bounded by the number of waiting warps. *)
THEOREM TailBounded == Spec => []TailBound
  <1>1. QInv => TailBound
    BY DEF QInv
  <1> QED
    BY <1>1, QInvHolds, PTL

(* Nobody writes a record while the reader reads or the leader resets. *)
THEOREM ReaderIsAlone == Spec => []ReaderAlone
  <1>1. QInv => ReaderAlone
    <2> SUFFICES ASSUME QInv, NEW w \in Warps, Writing(w),
                        \/ reader \in {"read", "last"}
                        \/ \E v \in Warps : pc[v] \in {"resethead", "resettail"}
                 PROVE  FALSE
      BY DEF ReaderAlone
    <2>1. w \in Writers
      BY DEF Writers
    <2>2. ~ \E v \in Warps : pc[v] \in {"wait", "resethead", "resettail"}
      BY <2>1, Counts DEF QInv, HeadCounts, LeaderSaw, Claimed
    <2>3. reader = "last"
      BY <2>2, QueueAssumption DEF QInv, FlagHasLeader, Raised
    <2> QED
      BY <2>3 DEF QInv, FlagHasLeader, Writing
  <1> QED
    BY <1>1, QInvHolds, PTL

(* "buffer->analysis must be 0" when the analysis kernel leaves its loop. *)
THEOREM AnalysisIsOver == Spec => []NoAnalysisAtEnd
  <1>1. QInv => NoAnalysisAtEnd
    <2> SUFFICES ASSUME QInv, num_threads = 0
                 PROVE  analysis = 0 /\ \A w \in Warps : ~ Waiting(w)
      BY DEF NoAnalysisAtEnd
    <2>1. \A w \in Warps : pc[w] = "done"
      BY NoThreads
    <2>2. analysis = 0
      BY <2>1 DEF QInv, FlagHasLeader, TypeOK
    <2> QED
      BY <2>1, <2>2 DEF Waiting, Leading
  <1> QED
    BY <1>1, QInvHolds, PTL

-----------------------------------------------------------------------------
(***************************************************************************)
(* The record buffer implements a record stream.                           *)
(*                                                                         *)
(* The invariant relates what was stored in the slots to the history: the  *)
(* slots handed out and pushed but not yet read (Unread) were last given   *)
(* exactly the records that were pushed and not read, a warp's records in  *)
(* increasing slots.  It holds across the resets because the generation is *)
(* Consumed from the moment the reader lowers the flag until tail_index is *)
(* 0 again.  When the stores reach memory plays no part in it: nothing in  *)
(* the code makes them do so before the reader looks.                      *)
(***************************************************************************)

\* The records of this generation have all been read.
Consumed ==
  \E w \in Warps : \/ pc[w] = "wait" /\ ~ Raised
                   \/ pc[w] \in {"resethead", "resettail"}

Held(i) == \E w \in Warps : Writing(w) /\ idx[w] = i

Unread == {i \in Slots : i < tail /\ ~ Held(i) /\ i \notin seen /\ ~ Consumed}

\* An unread slot holds a record that was pushed and not read.
UnreadHolds ==
  \A i \in Unread : /\ stored[i] \in Record
                    /\ stored[i][2] <= emitted[stored[i][1]]
                    /\ received[stored[i]] = 0

\* A warp's records are in increasing slots, the one it is writing last.
UnreadOrdered ==
  /\ \A i, j \in Unread :
       i < j /\ stored[i][1] = stored[j][1] => stored[i][2] < stored[j][2]
  /\ \A w \in Warps, i \in Unread :
       Writing(w) /\ stored[i][1] = w => i < idx[w]

\* A pushed record has been read once or is in an unread slot.
PushedKept ==
  \A w \in Warps, k \in 1 .. Quota :
    IF k <= emitted[w]
    THEN received[<<w, k>>] = 1 \/ \E i \in Unread : stored[i] = <<w, k>>
    ELSE received[<<w, k>>] = 0

\* A warp about to push has filled its slot.
SlotFilled ==
  \A w \in Warps : pc[w] = "push" => stored[idx[w]] = <<w, emitted[w] + 1>>

ReaderProgress ==
  /\ reader = "poll" => seen = {}
  /\ reader = "stop" => AllSeen

DInv ==
  /\ QInv
  /\ UnreadHolds
  /\ UnreadOrdered
  /\ PushedKept
  /\ SlotFilled
  /\ ReaderProgress
-----------------------------------------------------------------------------
(* While a slot is being written, nothing of the generation has been read   *)
(* and the reader only polls.                                               *)
LEMMA WritersFirst ==
  ASSUME DInv, NEW w \in Warps, Writing(w)
  PROVE  /\ ~ \E v \in Warps : pc[v] \in {"notify", "wait", "resethead", "resettail"}
         /\ ~ Consumed
         /\ reader = "poll" /\ seen = {}
  <1>1. QInv /\ w \in Writers
    BY DEF DInv, Writers
  <1>2. ~ \E v \in Warps : pc[v] \in {"notify", "wait", "resethead", "resettail"}
    BY <1>1, Counts DEF QInv, HeadCounts, LeaderSaw, Claimed
  <1>3. reader \notin {"last", "stop"}
    BY <1>1 DEF QInv, FlagHasLeader, Writing
  <1>4. reader # "read"
    BY <1>1, <1>2, QueueAssumption DEF QInv, FlagHasLeader, Raised
  <1> QED
    BY <1>1, <1>2, <1>3, <1>4 DEF Consumed, DInv, ReaderProgress, QInv, TypeOK

(* While the reader is on the records, or has finished, nothing is being    *)
(* written, every slot handed out is below head_index and none has been     *)
(* consumed by an earlier round.                                            *)
LEMMA ReaderFacts ==
  ASSUME DInv, reader \in {"read", "last", "stop"}
  PROVE  /\ \A w \in Warps : ~ Writing(w)
         /\ ~ Consumed
         /\ \A i \in Slots : i < head <=> i < tail
  <1>1. QInv
    BY DEF DInv
  <1>2. \A w \in Warps : ~ Writing(w)
    BY WritersFirst
  <1>3. Writers = {}
    BY <1>2 DEF Writers
  <1>4. /\ ~ \E v \in Warps : pc[v] \in {"resethead", "resettail"}
        /\ ~ Consumed
    <2>1. CASE reader = "read"
      BY <1>1, <2>1, QueueAssumption
         DEF QInv, FlagHasLeader, Raised, OneLeader, Leading, Consumed
    <2>2. CASE reader \in {"last", "stop"}
      BY <1>1, <2>2 DEF QInv, FlagHasLeader, Consumed
    <2> QED
      BY <2>1, <2>2
  <1>5. head = Claimed
    BY <1>1, <1>3, <1>4, Counts DEF QInv, HeadCounts
  <1> QED
    BY <1>1, <1>2, <1>4, <1>5, Counts DEF Claimed, Slots

(* Steps that leave the unread slots, the history and the writers alone. *)
LEMMA DataFrame ==
  ASSUME DInv, UNCHANGED <<stored, emitted, received>>, Unread' = Unread,
         \A w \in Warps : Writing(w)' => Writing(w) /\ idx'[w] = idx[w]
  PROVE  UnreadHolds' /\ UnreadOrdered' /\ PushedKept'
  <1>1. UnreadHolds'
    BY DEF DInv, UnreadHolds
  <1>2. UnreadOrdered'
    BY DEF DInv, UnreadOrdered
  <1>3. PushedKept'
    BY DEF DInv, PushedKept
  <1> QED
    BY <1>1, <1>2, <1>3

(* Nothing has been sent, nothing read. *)
LEMMA DInvInit == Init => DInv
  <1> SUFFICES ASSUME Init PROVE DInv
    OBVIOUS
  <1>1. QInv
    BY QInvInit
  <1>2. Unread = {}
    BY QueueAssumption DEF Init, Unread, Slots
  <1>3. UnreadHolds /\ UnreadOrdered
    BY <1>2 DEF UnreadHolds, UnreadOrdered
  <1>4. PushedKept
    BY QueueAssumption DEF Init, PushedKept, Record
  <1>5. SlotFilled /\ ReaderProgress
    BY DEF Init, SlotFilled, ReaderProgress
  <1> QED
    BY <1>1, <1>3, <1>4, <1>5 DEF DInv

(* A slot handed out is held at once: no unread slot appears, and it lies   *)
(* above every slot handed out before.                                      *)
LEMMA ClaimData ==
  ASSUME DInv, NEW w \in Warps, Claim(w)
  PROVE  DInv'
  <1> USE QueueAssumption
  <1>1. QInv /\ QInv'
    BY ClaimInv DEF DInv
  <1>2. /\ pc[w] = "get" /\ idx'[w] = tail
        /\ pc'[w] = IF tail < Size THEN "store" ELSE IF tail = Size THEN "lead" ELSE "spin"
        /\ \A v \in Warps : v # w => pc'[v] = pc[v] /\ idx'[v] = idx[v]
        /\ UNCHANGED <<head, full, analysis, stored, emitted, wbuf, reader, seen, received>>
    BY <1>1 DEF Claim, Goto, QInv, TypeOK, reading
  <1>3. tail' = tail + 1
    BY <1>1, TailAdvances
  <1>4. Consumed' <=> Consumed
    BY <1>2 DEF Consumed, Raised
  <1>5. /\ \A v \in Warps : v # w => (Writing(v)' <=> Writing(v))
        /\ ~ Writing(w) /\ (Writing(w)' <=> tail < Size)
    BY <1>2 DEF Writing
  <1>6. Unread' = Unread
    <2>1. ASSUME NEW i \in Slots
          PROVE  (i < tail /\ ~ Held(i)) <=> (i < tail' /\ ~ Held(i)')
      <3>1. CASE i < tail
        BY <1>1, <1>2, <1>3, <1>5, <3>1, Counts DEF Held, Slots
      <3>2. CASE i = tail
        BY <1>1, <1>2, <1>3, <1>5, <3>2, Counts DEF Held, Slots
      <3>3. CASE i > tail
        BY <1>1, <1>3, <3>3, Counts DEF Slots
      <3> QED
        BY <1>1, <3>1, <3>2, <3>3, Counts DEF Slots
    <2> QED
      BY <1>2, <1>4, <2>1 DEF Unread
  <1>7. UnreadHolds'
    BY <1>2, <1>6 DEF DInv, UnreadHolds
  <1>8. UnreadOrdered'
    BY <1>1, <1>2, <1>5, <1>6, Counts DEF DInv, UnreadOrdered, Unread, Slots
  <1>9. PushedKept'
    BY <1>2, <1>6 DEF DInv, PushedKept
  <1>10. SlotFilled' /\ ReaderProgress'
    BY <1>2 DEF DInv, SlotFilled, ReaderProgress, AllSeen
  <1> QED
    BY <1>1, <1>7, <1>8, <1>9, <1>10 DEF DInv

(* The leader's steps up to the raised flag, the waiting warps, the exits   *)
(* and the beginnings and the end of the reader leave the data alone.       *)
LEMMA QuietData ==
  ASSUME DInv,
         \/ BeginRead \/ BeginLast \/ EndLast
         \/ \E w \in Warps : \/ WaitWritten(w) \/ Notify(w) \/ SpinExit(w)
                            \/ Exit(w) \/ Drain(w)
  PROVE  DInv'
  <1> USE QueueAssumption
  <1>1. QInv /\ QInv'
    BY ReaderInv, WaitWrittenInv, NotifyInv, SpinExitInv, ExitInv, DrainInv DEF DInv, ReaderStep
  <1>2. UNCHANGED <<tail, head, stored, idx, emitted, seen, received>>
    BY DEF BeginRead, BeginLast, EndLast, WaitWritten, Notify, SpinExit, Exit, Drain,
           queue, warp, reading
  <1>3. /\ \A v \in Warps : Writing(v)' <=> Writing(v)
        /\ \A v \in Warps : pc'[v] = "push" <=> pc[v] = "push"
        /\ Consumed' <=> Consumed
    <2>1. CASE BeginRead \/ BeginLast \/ EndLast
      BY <2>1 DEF BeginRead, BeginLast, EndLast, queue, warp, Writing, Consumed, Raised
    <2>2. ASSUME NEW w \in Warps, WaitWritten(w) \/ SpinExit(w) \/ Exit(w)
          PROVE  <1>3!1 /\ <1>3!2 /\ <1>3!3
      BY <1>1, <2>2 DEF WaitWritten, SpinExit, Exit, Goto, queue, Writing, Consumed, Raised,
                        QInv, TypeOK
    <2>3. ASSUME NEW w \in Warps, Notify(w)
          PROVE  <1>3!1 /\ <1>3!2 /\ <1>3!3
      BY <1>1, <2>3 DEF Notify, Goto, Writing, Consumed, Raised, QInv, TypeOK, OneLeader, Leading
    <2>4. ASSUME NEW w \in Warps, Drain(w)
          PROVE  <1>3!1 /\ <1>3!2 /\ <1>3!3
      BY <2>4 DEF Drain, queue, warp, Writing, Consumed, Raised
    <2> QED
      BY <2>1, <2>2, <2>3, <2>4
  <1>4. Unread' = Unread
    BY <1>2, <1>3 DEF Unread, Held
  <1>5. SlotFilled'
    BY <1>2, <1>3 DEF DInv, SlotFilled
  <1>6. ReaderProgress'
    BY <1>2 DEF DInv, ReaderProgress, AllSeen, BeginRead, BeginLast, EndLast,
                WaitWritten, Notify, SpinExit, Exit, Drain, reading
  <1> QED
    BY <1>1, <1>2, <1>3, <1>4, <1>5, <1>6, DataFrame DEF DInv

(* From the lowered flag to the reset of tail_index nothing is unread. *)
LEMMA ResetData ==
  ASSUME DInv, NEW w \in Warps, WaitRead(w) \/ ResetHead(w) \/ ResetTail(w)
  PROVE  DInv'
  <1> USE QueueAssumption
  <1>1. QInv /\ QInv'
    BY WaitReadInv, ResetHeadInv, ResetTailInv DEF DInv
  <1>2. /\ UNCHANGED <<full, analysis, stored, idx, emitted, wbuf, reader, seen, received>>
        /\ tail' \in {tail, 0}
        /\ pc[w] \in {"wait", "resethead", "resettail"}
        /\ pc'[w] \in {"resethead", "resettail", "get"}
        /\ pc'[w] = "get" => tail' = 0
        /\ \A v \in Warps : v # w => pc'[v] = pc[v]
    BY <1>1 DEF WaitRead, ResetHead, ResetTail, Goto, queue, reading, QInv, TypeOK
  <1>3. Consumed
    BY <1>2 DEF Consumed, WaitRead, ResetHead, ResetTail, Goto
  <1>4. tail' = 0 \/ Consumed'
    BY <1>2 DEF Consumed
  <1>5. Unread = {} /\ Unread' = {}
    BY <1>3, <1>4 DEF Unread, Slots
  <1>6. \A v \in Warps : /\ Writing(v)' <=> Writing(v)
                         /\ pc'[v] = "push" <=> pc[v] = "push"
    BY <1>2 DEF Writing
  <1>7. SlotFilled'
    BY <1>2, <1>6 DEF DInv, SlotFilled
  <1>8. ReaderProgress'
    <2>1. reader # "stop"
      BY <1>1, <1>2 DEF QInv, FlagHasLeader
    <2> QED
      BY <1>2, <2>1 DEF DInv, ReaderProgress
  <1> QED
    BY <1>1, <1>2, <1>5, <1>6, <1>7, <1>8, DataFrame DEF DInv

(* A record goes to the slot its warp holds, which is not unread. *)
LEMMA StoreData ==
  ASSUME DInv, NEW w \in Warps, StoreRecord(w)
  PROVE  DInv'
  <1>1. QInv /\ QInv'
    BY StoreRecordInv DEF DInv
  <1>2. /\ UNCHANGED <<tail, head, full, analysis, idx, emitted, reader, seen, received>>
        /\ pc[w] = "store" /\ pc'[w] = "push"
        /\ \A v \in Warps : v # w => pc'[v] = pc[v]
        /\ stored' = [stored EXCEPT ![idx[w]] = <<w, emitted[w] + 1>>]
    BY <1>1 DEF StoreRecord, Goto, queue, reading, QInv, TypeOK
  <1>3. (\A v \in Warps : Writing(v)' <=> Writing(v)) /\ (Consumed' <=> Consumed)
    BY <1>2 DEF Writing, Consumed, Raised
  <1>4. idx[w] \in Slots /\ Held(idx[w])
    BY <1>1, <1>2 DEF Held, Writing, QInv, WritersHold
  <1>5. Unread' = Unread /\ \A i \in Unread : stored'[i] = stored[i]
    <2>1. Unread' = Unread
      BY <1>2, <1>3 DEF Unread, Held
    <2> QED
      BY <1>1, <1>2, <1>4, <2>1 DEF Unread, QInv, TypeOK
  <1>6. UnreadHolds' /\ UnreadOrdered'
    BY <1>2, <1>3, <1>5 DEF DInv, UnreadHolds, UnreadOrdered
  <1>7. PushedKept'
    BY <1>2, <1>5 DEF DInv, PushedKept
  <1>8. SlotFilled'
    <2>1. \A v \in Warps : v # w /\ pc[v] = "push" => idx[v] # idx[w] /\ idx[v] \in Slots
      BY <1>1, <1>2 DEF QInv, WritersHold, Writing
    <2> QED
      BY <1>1, <1>2, <1>4, <2>1 DEF DInv, SlotFilled, QInv, TypeOK
  <1>9. ReaderProgress'
    BY <1>2 DEF DInv, ReaderProgress, AllSeen
  <1> QED
    BY <1>1, <1>6, <1>7, <1>8, <1>9 DEF DInv

(* A push makes the slot unread, with the warp's next record above all its  *)
(* earlier ones.                                                            *)
LEMMA PushData ==
  ASSUME DInv, NEW w \in Warps, Push(w)
  PROVE  DInv'
  <1> USE QueueAssumption
  <1>1. QInv /\ QInv'
    BY PushInv DEF DInv
  <1>2. /\ UNCHANGED <<tail, full, analysis, stored, idx, wbuf, reader, seen, received>>
        /\ pc[w] = "push" /\ pc'[w] \in {"exit", "get"}
        /\ \A v \in Warps : v # w => pc'[v] = pc[v] /\ emitted'[v] = emitted[v]
        /\ emitted'[w] = emitted[w] + 1
        /\ emitted[w] + 1 \in 1 .. Quota
    BY <1>1 DEF Push, Goto, reading, QInv, TypeOK, OwesRecord
  <1>3. /\ stored[idx[w]] = <<w, emitted[w] + 1>> /\ idx[w] \in Slots /\ idx[w] < tail
        /\ ~ Consumed /\ seen = {} /\ reader = "poll"
    BY <1>1, <1>2, WritersFirst DEF DInv, SlotFilled, QInv, WritersHold, Writing
  <1>4. \A v \in Warps : Writing(v)' <=> Writing(v) /\ v # w
    BY <1>2 DEF Writing
  <1>5. Unread' = Unread \cup {idx[w]} /\ idx[w] \notin Unread
    <2>1. ~ Consumed'
      BY <1>2, <1>3 DEF Consumed, Raised
    <2>2. Held(idx[w]) /\ ~ Held(idx[w])'
      BY <1>1, <1>2, <1>4 DEF Held, Writing, QInv, WritersHold
    <2>3. \A i \in Slots : i # idx[w] => (Held(i)' <=> Held(i))
      BY <1>2, <1>4 DEF Held
    <2> QED
      BY <1>2, <1>3, <2>1, <2>2, <2>3 DEF Unread
  <1>6. received[<<w, emitted[w] + 1>>] = 0
    BY <1>1, <1>2 DEF DInv, PushedKept, QInv, TypeOK
  <1>7. UnreadHolds'
    <2>1. ASSUME NEW i \in Unread
          PROVE  /\ stored[i] \in Record
                 /\ stored[i][2] <= emitted'[stored[i][1]]
                 /\ received[stored[i]] = 0
      <3>1. /\ stored[i] \in Record /\ stored[i][2] <= emitted[stored[i][1]]
            /\ received[stored[i]] = 0
        BY <2>1 DEF DInv, UnreadHolds
      <3>2. stored[i][1] \in Warps /\ stored[i][2] \in Nat
        BY <3>1 DEF Record
      <3> QED
        BY <1>1, <1>2, <3>1, <3>2 DEF QInv, TypeOK
    <2>2. stored[idx[w]] \in Record /\ stored[idx[w]][2] <= emitted'[stored[idx[w]][1]]
      BY <1>2, <1>3 DEF Record
    <2> QED
      BY <1>2, <1>3, <1>5, <1>6, <2>1, <2>2 DEF UnreadHolds
  <1>8. UnreadOrdered'
    <2>1. \A i \in Unread : stored[i][1] = w => i < idx[w] /\ stored[i][2] < emitted[w] + 1
      <3>1. \A i \in Unread : stored[i][1] = w => i < idx[w]
        BY <1>2 DEF DInv, UnreadOrdered, Writing
      <3>2. \A i \in Unread : stored[i][2] \in Nat /\ stored[i][2] <= emitted[stored[i][1]]
        BY DEF DInv, UnreadHolds, Record
      <3>3. emitted[w] \in Nat
        BY <1>1 DEF QInv, TypeOK
      <3> QED
        BY <3>1, <3>2, <3>3
    <2>2. stored[idx[w]][1] = w /\ stored[idx[w]][2] = emitted[w] + 1
      BY <1>3
    <2>3. Unread \in SUBSET Nat /\ idx[w] \in Nat
      BY <1>3 DEF Unread, Slots
    <2>4. \A i, j \in Unread' :
            i < j /\ stored'[i][1] = stored'[j][1] => stored'[i][2] < stored'[j][2]
      <3> SUFFICES ASSUME NEW i \in Unread', NEW j \in Unread',
                          i < j, stored[i][1] = stored[j][1]
                   PROVE  stored[i][2] < stored[j][2]
        BY <1>2
      <3>1. CASE i \in Unread /\ j \in Unread
        BY <3>1 DEF DInv, UnreadOrdered
      <3>2. CASE i \in Unread /\ j = idx[w]
        BY <3>2, <2>1, <2>2
      <3>3. CASE i = idx[w] /\ j \in Unread
        BY <3>3, <2>1, <2>2, <2>3
      <3>4. CASE i = idx[w] /\ j = idx[w]
        BY <3>4, <2>3
      <3> QED
        BY <1>5, <3>1, <3>2, <3>3, <3>4
    <2>5. \A v \in Warps, i \in Unread' :
            Writing(v)' /\ stored'[i][1] = v => i < idx'[v]
      BY <1>2, <1>4, <1>5, <2>2 DEF DInv, UnreadOrdered
    <2> QED
      BY <2>4, <2>5 DEF UnreadOrdered
  <1>9. PushedKept'
    <2> SUFFICES ASSUME NEW v \in Warps, NEW k \in 1 .. Quota
                 PROVE  IF k <= emitted'[v]
                        THEN \/ received[<<v, k>>] = 1
                             \/ \E i \in Unread' : stored[i] = <<v, k>>
                        ELSE received[<<v, k>>] = 0
      BY <1>2 DEF PushedKept
    <2>1. CASE v = w /\ k = emitted[w] + 1
      BY <1>2, <1>3, <1>5, <2>1
    <2>2. CASE ~ (v = w /\ k = emitted[w] + 1)
      <3>1. emitted[v] \in Nat /\ emitted[w] \in Nat
        BY <1>1 DEF QInv, TypeOK
      <3>2. k <= emitted'[v] <=> k <= emitted[v]
        BY <1>2, <2>2, <3>1
      <3> QED
        BY <1>5, <3>2 DEF DInv, PushedKept
    <2> QED
      BY <2>1, <2>2
  <1>10. SlotFilled'
    BY <1>2 DEF DInv, SlotFilled
  <1>11. ReaderProgress'
    BY <1>2, <1>3 DEF ReaderProgress
  <1> QED
    BY <1>1, <1>7, <1>8, <1>9, <1>10, <1>11 DEF DInv

(* Reading takes a slot out of the unread ones and marks its record read. *)
LEMMA ReadSlotData ==
  ASSUME DInv, ReadSlot
  PROVE  DInv' /\ [Stream!Next]_<<emitted, received>>
  <1> USE QueueAssumption
  <1>1. QInv /\ QInv'
    BY ReaderInv DEF DInv, ReaderStep
  <1>2. PICK i \in Slots \ seen :
          /\ reader \in {"read", "last"}
          /\ i < head
          /\ ~ GpuSync => \A j \in Slots : j < i => j \in seen
          /\ received' = IF stored[i] = NoRec THEN received
                         ELSE [received EXCEPT ![stored[i]] = @ + 1]
          /\ seen' = seen \cup {i}
          /\ UNCHANGED <<queue, slots, stored, warp, wbuf, reader>>
    BY DEF ReadSlot
  <1>3. UNCHANGED <<tail, head, full, analysis, stored, pc, idx, emitted, wbuf, reader>>
    BY <1>2 DEF queue, warp
  <1>4. /\ \A w \in Warps : ~ Writing(w) /\ ~ Writing(w)'
        /\ ~ Consumed /\ ~ Consumed' /\ i < tail
    BY <1>2, <1>3, ReaderFacts DEF Writing, Consumed, Raised
  <1>5. i \in Unread /\ Unread' = Unread \ {i}
    BY <1>2, <1>3, <1>4 DEF Unread, Held
  <1>6. PICK w \in Warps, k \in 1 .. Quota :
          stored[i] = <<w, k>> /\ k <= emitted[w] /\ received[<<w, k>>] = 0
    BY <1>5 DEF DInv, UnreadHolds, Record
  <1>7. received' = [received EXCEPT ![<<w, k>>] = 1]
    BY <1>1, <1>2, <1>6 DEF NoRec, QInv, TypeOK, Record
  <1>8. \A j \in Unread : j # i => stored[j] # <<w, k>>
    <2> SUFFICES ASSUME NEW j \in Unread, j # i, stored[j] = <<w, k>>
                 PROVE  FALSE
      OBVIOUS
    <2>1. i < j \/ j < i
      BY DEF Unread, Slots
    <2>2. stored[i][1] = stored[j][1] /\ stored[i][2] = k /\ stored[j][2] = k
      BY <1>6
    <2> QED
      BY <1>5, <2>1, <2>2 DEF DInv, UnreadOrdered
  <1>9. UnreadHolds'
    BY <1>1, <1>3, <1>5, <1>6, <1>7, <1>8 DEF DInv, UnreadHolds, QInv, TypeOK, Record
  <1>10. UnreadOrdered'
    BY <1>3, <1>4, <1>5 DEF DInv, UnreadOrdered
  <1>11. PushedKept'
    <2> SUFFICES ASSUME NEW v \in Warps, NEW l \in 1 .. Quota
                 PROVE  IF l <= emitted[v]
                        THEN \/ received'[<<v, l>>] = 1
                             \/ \E j \in Unread' : stored[j] = <<v, l>>
                        ELSE received'[<<v, l>>] = 0
      BY <1>3 DEF PushedKept
    <2>1. <<v, l>> \in Record /\ <<w, k>> \in Record
      BY DEF Record
    <2>2. CASE <<v, l>> = <<w, k>>
      BY <1>1, <1>6, <1>7, <2>1, <2>2 DEF QInv, TypeOK
    <2>3. CASE <<v, l>> # <<w, k>>
      <3>1. received'[<<v, l>>] = received[<<v, l>>]
        BY <1>1, <1>7, <2>1, <2>3 DEF QInv, TypeOK
      <3> QED
        BY <1>5, <1>6, <2>3, <3>1 DEF DInv, PushedKept
    <2> QED
      BY <2>2, <2>3
  <1>12. SlotFilled' /\ ReaderProgress'
    BY <1>2, <1>3 DEF DInv, SlotFilled, ReaderProgress
  <1>13. Stream!Take(w, k)
    <2>1. ASSUME ~ GpuSync, NEW j \in 1 .. k - 1
          PROVE  received[<<w, j>>] = 1
      <3>1. j \in 1 .. Quota /\ j < k /\ j <= emitted[w]
        BY <1>1, <1>6 DEF QInv, TypeOK
      <3>2. ASSUME NEW m \in Unread, stored[m] = <<w, j>>
            PROVE  FALSE
        <4>1. m \in Slots /\ m \notin seen /\ m \in Nat /\ i \in Nat
          BY DEF Unread, Slots
        <4>2. ~ m < i
          BY <1>2, <2>1, <4>1
        <4>3. m # i
          BY <1>6, <3>1, <3>2
        <4>4. i < m
          BY <4>1, <4>2, <4>3
        <4>5. stored[i][1] = stored[m][1] /\ stored[i][2] = k /\ stored[m][2] = j
          BY <1>6, <3>2
        <4>6. k < j
          BY <1>5, <4>4, <4>5 DEF DInv, UnreadOrdered
        <4> QED
          BY <3>1, <4>6
      <3> QED
        BY <3>1, <3>2 DEF DInv, PushedKept
    <2> QED
      BY <1>3, <1>6, <1>7, <2>1 DEF Stream!Take
  <1> QED
    BY <1>1, <1>9, <1>10, <1>11, <1>12, <1>13 DEF DInv, Stream!Next

(* When the flag is lowered every slot of the generation has been read. *)
LEMMA EndReadData ==
  ASSUME DInv, EndRead
  PROVE  DInv'
  <1> USE QueueAssumption
  <1>1. QInv /\ QInv'
    BY ReaderInv DEF DInv, ReaderStep
  <1>2. /\ UNCHANGED <<tail, head, stored, pc, idx, emitted, wbuf, received>>
        /\ reader = "read" /\ reader' = "poll" /\ seen' = {} /\ AllSeen /\ ~ Raised'
    BY DEF EndRead, warp, Raised
  <1>3. Unread = {}
    BY <1>2, ReaderFacts DEF Unread, AllSeen
  <1>4. Consumed'
    BY <1>1, <1>2 DEF QInv, FlagHasLeader, Raised, Consumed
  <1>5. Unread' = {}
    BY <1>4 DEF Unread
  <1>6. SlotFilled' /\ ReaderProgress'
    BY <1>2 DEF DInv, SlotFilled, ReaderProgress
  <1>7. \A w \in Warps : Writing(w)' => Writing(w) /\ idx'[w] = idx[w]
    BY <1>2 DEF Writing
  <1> QED
    BY <1>1, <1>2, <1>3, <1>5, <1>6, <1>7, DataFrame DEF DInv

(* Every step keeps the slots and the history in agreement. *)
LEMMA DInvNext == DInv /\ [Next]_vars => DInv'
  <1> SUFFICES ASSUME DInv, [Next]_vars PROVE DInv'
    OBVIOUS
  <1>1. CASE ReaderStep
    BY <1>1, QuietData, ReadSlotData, EndReadData DEF ReaderStep
  <1>2. ASSUME NEW w \in Warps, WarpStep(w) \/ Drain(w)
        PROVE  DInv'
    BY <1>2, ClaimData, QuietData, ResetData, StoreData, PushData DEF WarpStep
  <1>3. CASE UNCHANGED vars
    <2>1. QInv'
      BY <1>3, QInvNext DEF DInv
    <2>2. /\ UNCHANGED <<tail, head, full, analysis, stored, pc, idx, emitted, wbuf, seen,
                         received, reader>>
      BY <1>3 DEF vars, queue, warp, reading
    <2>3. Unread' = Unread /\ \A w \in Warps : Writing(w)' <=> Writing(w)
      BY <2>2 DEF Unread, Held, Writing, Consumed, Raised
    <2>4. SlotFilled' /\ ReaderProgress'
      BY <2>2 DEF DInv, SlotFilled, ReaderProgress, AllSeen
    <2> QED
      BY <2>1, <2>2, <2>3, <2>4, DataFrame DEF DInv
  <1> QED
    BY <1>1, <1>2, <1>3 DEF Next

(* The slots and the history agree in every state. *)
THEOREM DInvHolds == Spec => []DInv
  <1>1. DInv /\ [Next]_vars => DInv'
    BY DInvNext
  <1> QED
    BY <1>1, DInvInit, PTL DEF Spec
-----------------------------------------------------------------------------
(* The queue implements the record stream: the slot of every record is read *)
(* at most once, after its push, and by the host in the order of its warp.  *)
THEOREM QueueImplementsStream == Spec => ImplementsStream
  <1> USE QueueAssumption
  <1>1. Init => Stream!Init
    BY DEF Init, Stream!Init, Record, Stream!Item
  <1>2. DInv /\ [Next]_vars => [Stream!Next]_<<emitted, received>>
    <2> SUFFICES ASSUME DInv, [Next]_vars
                 PROVE  [Stream!Next]_<<emitted, received>>
      OBVIOUS
    <2>1. CASE ReadSlot
      BY <2>1, ReadSlotData
    <2>2. ASSUME NEW w \in Warps, Push(w)
          PROVE  Stream!Next
      <3>1. emitted[w] < Quota
        BY <2>2 DEF DInv, QInv, OwesRecord, Push, Goto
      <3>2. Stream!Send(w)
        BY <2>2, <3>1 DEF Push, reading, Stream!Send
      <3> QED
        BY <3>2 DEF Stream!Next
    <2>3. CASE BeginRead \/ BeginLast \/ EndRead \/ EndLast \/ UNCHANGED vars
      BY <2>3 DEF BeginRead, BeginLast, EndRead, EndLast, vars, warp, reading
    <2>4. ASSUME NEW w \in Warps,
                 \/ Claim(w) \/ WaitWritten(w) \/ Notify(w) \/ WaitRead(w) \/ ResetHead(w)
                 \/ ResetTail(w) \/ SpinExit(w) \/ StoreRecord(w) \/ Exit(w) \/ Drain(w)
          PROVE  UNCHANGED <<emitted, received>>
      BY <2>4 DEF Claim, WaitWritten, Notify, WaitRead, ResetHead, ResetTail, SpinExit,
                  StoreRecord, Exit, Drain, warp, reading
    <2> QED
      BY <2>1, <2>2, <2>3, <2>4 DEF Next, ReaderStep, WarpStep
  <1>3. Spec => []DInv
    BY DInvHolds
  <1> QED
    BY <1>1, <1>2, <1>3, PTL DEF Spec, Stream!Spec, ImplementsStream

(* When the reader stops it has been once to the slot of every record the   *)
(* warps emitted.                                                           *)
THEOREM NothingLost == Spec => []AllReceived
  <1>1. DInv => AllReceived
    <2> SUFFICES ASSUME DInv, reader = "stop", NEW r \in Record
                 PROVE  received[r] = 1
      BY DEF AllReceived
    <2>1. PICK w \in Warps, k \in 1 .. Quota : r = <<w, k>>
      BY DEF Record
    <2>2. Unread = {}
      BY ReaderFacts DEF DInv, ReaderProgress, AllSeen, Unread
    <2>3. emitted[w] = Quota
      BY DEF DInv, QInv, FlagHasLeader, OwesRecord
    <2> QED
      BY <2>1, <2>2, <2>3 DEF DInv, PushedKept
  <1>2. Spec => []DInv
    BY DInvHolds
  <1> QED
    BY <1>1, <1>2, PTL
=============================================================================
