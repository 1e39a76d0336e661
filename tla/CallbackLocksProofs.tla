------------------------ MODULE CallbackLocksProofs ------------------------
(***************************************************************************)
(* What the discipline of the callbacks gives, for any number of threads   *)
(* and any callbacks: with balanced callbacks the owner of a lock is known *)
(* from the threads' positions; taken in the order of the ranks, the locks *)
(* cannot deadlock; data used only under one lock is used by one thread at *)
(* a time.                                                                 *)
(***************************************************************************)
EXTENDS CallbackLocks, TLAPS

-----------------------------------------------------------------------------
(* Instructions *)

\* The instructions of a callback are acquisitions, releases and uses.
LEMMA InstructionKinds ==
  ASSUME NEW c \in Callbacks, NEW i \in 1 .. Len(Program[c])
  PROVE  /\ Program[c][i] \in Instruction
         /\ Program[c][i].op \in {"acquire", "release"} => Program[c][i].on \in Locks
         /\ Program[c][i].op = "acquire" => Program[c][i] = Acquire(Program[c][i].on)
         /\ Program[c][i].op = "release" => Program[c][i] = Release(Program[c][i].on)
         /\ Program[c][i].op = "use" => Program[c][i] = Use(Program[c][i].on)
         /\ Program[c][i].op \in {"acquire", "release", "use"}
<1>1. Program[c][i] \in Instruction
  BY ProgramAssumption
<1>2. CASE Program[c][i] \in [op : {"acquire", "release"}, on : Locks]
  BY <1>2, <1>1 DEF Acquire, Release, Use
<1>3. CASE Program[c][i] \in [op : {"use"}, on : Data]
  BY <1>3, <1>1 DEF Acquire, Release, Use
<1> QED
  BY <1>1, <1>2, <1>3 DEF Instruction

\* Instructions that differ in kind or in lock are different.
LEMMA InstructionsDiffer ==
  ASSUME NEW l, NEW m
  PROVE  /\ Acquire(l) = Acquire(m) <=> l = m
         /\ Release(l) = Release(m) <=> l = m
         /\ Acquire(l) # Release(m)
         /\ Use(l) # Acquire(m)
         /\ Use(l) # Release(m)
<1>1. /\ Acquire(l).on = l /\ Acquire(m).on = m /\ Release(l).on = l /\ Release(m).on = m
  BY DEF Acquire, Release
<1>2. /\ Acquire(l).op = "acquire" /\ Acquire(m).op = "acquire"
      /\ Release(m).op = "release" /\ Use(l).op = "use"
  BY DEF Acquire, Release, Use
<1> QED
  BY <1>1, <1>2

\* A callback holds nothing before its first instruction.
LEMMA HeldAtStart ==
  ASSUME NEW c \in Callbacks
  PROVE  Held(c, 1) = {}
BY DEF Held

\* What a lock's being held after an instruction means before it.
LEMMA HeldNext ==
  ASSUME NEW c \in Callbacks, NEW i \in 1 .. Len(Program[c]), NEW l \in Locks
  PROVE  l \in Held(c, i + 1) <=>
           \/ Program[c][i] = Acquire(l)
           \/ l \in Held(c, i) /\ Program[c][i] # Release(l)
<1> Len(Program[c]) \in Nat /\ i \in Nat \ {0}
  BY ProgramAssumption
<1>1. ASSUME l \in Held(c, i + 1)
      PROVE  \/ Program[c][i] = Acquire(l)
             \/ l \in Held(c, i) /\ Program[c][i] # Release(l)
  <2>1. PICK j \in 1 .. i : /\ Program[c][j] = Acquire(l)
                            /\ \A k \in j + 1 .. i : Program[c][k] # Release(l)
    BY <1>1 DEF Held
  <2>2. CASE j = i
    BY <2>1, <2>2
  <2>3. CASE j # i
    <3>1. j \in 1 .. i - 1 /\ i \in j + 1 .. i
      BY <2>3
    <3>2. \A k \in j + 1 .. i - 1 : k \in j + 1 .. i
      OBVIOUS
    <3> QED
      BY <2>1, <3>1, <3>2 DEF Held
  <2> QED
    BY <2>2, <2>3
<1>2. ASSUME Program[c][i] = Acquire(l)
      PROVE  l \in Held(c, i + 1)
  BY <1>2 DEF Held
<1>3. ASSUME l \in Held(c, i), Program[c][i] # Release(l)
      PROVE  l \in Held(c, i + 1)
  <2>1. PICK j \in 1 .. i - 1 : /\ Program[c][j] = Acquire(l)
                                /\ \A k \in j + 1 .. i - 1 : Program[c][k] # Release(l)
    BY <1>3 DEF Held
  <2>2. \A k \in j + 1 .. i : Program[c][k] # Release(l)
    BY <1>3, <2>1
  <2> QED
    BY <2>1, <2>2 DEF Held
<1> QED
  BY <1>1, <1>2, <1>3

-----------------------------------------------------------------------------
(* The owners of the locks *)

\* TypeOK is inductive.
THEOREM TypeCorrect == Spec => []TypeOK
<1>1. Init => TypeOK
  BY DEF Init, TypeOK
<1>2. TypeOK /\ [Next]_vars => TypeOK'
  <2> SUFFICES ASSUME TypeOK, [Next]_vars PROVE TypeOK'
    OBVIOUS
  <2> USE DEF TypeOK
  <2>1. CASE UNCHANGED vars
    BY <2>1 DEF vars
  <2>2. ASSUME NEW t \in Threads, NEW c \in Callbacks, Begin(t, c) PROVE TypeOK'
    <3>1. Len(Program[c]) \in Nat
      BY ProgramAssumption
    <3> QED
      BY <2>2, <3>1, ProgramAssumption DEF Begin
  <2>3. ASSUME NEW t \in Threads, DoAcquire(t) PROVE TypeOK'
    <3>1. Instr(t).on \in Locks
      BY <2>3, InstructionKinds DEF DoAcquire, At, Instr
    <3>2. Len(Program[running[t]]) \in Nat
      BY <2>3, ProgramAssumption DEF DoAcquire, At
    <3> QED
      BY <2>3, <3>1, <3>2 DEF DoAcquire, At, Advance
  <2>4. ASSUME NEW t \in Threads, DoRelease(t) PROVE TypeOK'
    <3>1. Instr(t).on \in Locks
      BY <2>4, InstructionKinds DEF DoRelease, At, Instr
    <3>2. Len(Program[running[t]]) \in Nat
      BY <2>4, ProgramAssumption DEF DoRelease, At
    <3> QED
      BY <2>4, <3>1, <3>2 DEF DoRelease, At, Advance
  <2>5. ASSUME NEW t \in Threads, DoUse(t) PROVE TypeOK'
    <3>1. Len(Program[running[t]]) \in Nat
      BY <2>5, ProgramAssumption DEF DoUse, At
    <3> QED
      BY <2>5, <3>1 DEF DoUse, At, Advance
  <2>6. ASSUME NEW t \in Threads, Return(t) PROVE TypeOK'
    BY <2>6 DEF Return
  <2> QED
    BY <2>1, <2>2, <2>3, <2>4, <2>5, <2>6 DEF Next, Step
<1> QED
  BY <1>1, <1>2, PTL DEF Spec

\* Of balanced callbacks, a thread holds exactly the locks its callback took and
\* did not release: every interleaving keeps the owners and the positions of the
\* threads together.
THEOREM Owners == ASSUME Balanced PROVE Spec => []OwnersExact
<1>1. Init => OwnersExact
  BY ProgramAssumption DEF Init, OwnersExact
<1>2. TypeOK /\ OwnersExact /\ [Next]_vars => OwnersExact'
  <2> SUFFICES ASSUME TypeOK, OwnersExact, [Next]_vars PROVE OwnersExact'
    OBVIOUS
  <2>1. CASE UNCHANGED vars
    BY <2>1 DEF vars, OwnersExact
  <2>2. ASSUME NEW t \in Threads, NEW c \in Callbacks, Begin(t, c) PROVE OwnersExact'
    <3>1. /\ running' = [running EXCEPT ![t] = c] /\ pc' = [pc EXCEPT ![t] = 1]
          /\ owner' = owner /\ running[t] = Idle
      BY <2>2 DEF Begin
    <3>2. \A l \in Locks : l \notin Held(c, 1)
      BY HeldAtStart
    <3> QED
      BY <3>1, <3>2 DEF OwnersExact, TypeOK
  <2>3. ASSUME NEW t \in Threads, DoAcquire(t) PROVE OwnersExact'
    <3> DEFINE c == running[t]
               i == pc[t]
               l == Instr(t).on
    <3>1. c \in Callbacks /\ c # Idle /\ i \in 1 .. Len(Program[c])
      BY <2>3 DEF DoAcquire, At, TypeOK
    <3>2. l \in Locks /\ Program[c][i] = Acquire(l)
      BY <2>3, <3>1, InstructionKinds DEF DoAcquire, At, Instr
    <3>3. ASSUME NEW m \in Locks
          PROVE  m \in Held(c, i + 1) <=> m = l \/ m \in Held(c, i)
      <4> HIDE DEF c, i, l
      <4>1. m \in Held(c, i + 1) <=>
              \/ Program[c][i] = Acquire(m)
              \/ m \in Held(c, i) /\ Program[c][i] # Release(m)
        BY <3>1, HeldNext
      <4> QED
        BY <3>2, <4>1, InstructionsDiffer
    <3>4. /\ owner[l] = Free /\ owner' = [owner EXCEPT ![l] = t]
          /\ pc' = [pc EXCEPT ![t] = i + 1] /\ running' = running
      BY <2>3 DEF DoAcquire, Advance
    <3> HIDE DEF c, i, l
    <3>5. \A m \in Locks : owner'[m] = t <=> m \in Held(c, i + 1)
      BY <3>1, <3>2, <3>3, <3>4 DEF OwnersExact, TypeOK, c, i
    <3>6. \A m \in Locks, u \in Threads : u # t => (owner'[m] = u <=> owner[m] = u)
      BY <3>2, <3>4, ProgramAssumption DEF TypeOK
    <3>7. running'[t] = c /\ pc'[t] = i + 1
      BY <3>4 DEF TypeOK, c
    <3>8. \A u \in Threads : u # t => running'[u] = running[u] /\ pc'[u] = pc[u]
      BY <3>4 DEF TypeOK
    <3> QED
      BY <3>1, <3>5, <3>6, <3>7, <3>8 DEF OwnersExact
  <2>4. ASSUME NEW t \in Threads, DoRelease(t) PROVE OwnersExact'
    <3> DEFINE c == running[t]
               i == pc[t]
               l == Instr(t).on
    <3>1. c \in Callbacks /\ c # Idle /\ i \in 1 .. Len(Program[c])
      BY <2>4 DEF DoRelease, At, TypeOK
    <3>2. l \in Locks /\ Program[c][i] = Release(l)
      BY <2>4, <3>1, InstructionKinds DEF DoRelease, At, Instr
    <3>3. ASSUME NEW m \in Locks
          PROVE  m \in Held(c, i + 1) <=> m # l /\ m \in Held(c, i)
      <4> HIDE DEF c, i, l
      <4>1. m \in Held(c, i + 1) <=>
              \/ Program[c][i] = Acquire(m)
              \/ m \in Held(c, i) /\ Program[c][i] # Release(m)
        BY <3>1, HeldNext
      <4> QED
        BY <3>2, <4>1, InstructionsDiffer
    <3>4. /\ owner' = [owner EXCEPT ![l] = Free]
          /\ pc' = [pc EXCEPT ![t] = i + 1] /\ running' = running
      BY <2>4 DEF DoRelease, Advance
    <3>5. owner[l] = t
      <4>1. l \in Held(c, i)
        BY <3>1, <3>2 DEF Balanced, BalancedIn, Wants
      <4> QED
        BY <4>1, <3>1, <3>2 DEF OwnersExact
    <3> HIDE DEF c, i, l
    <3>6. \A m \in Locks : owner'[m] = t <=> m \in Held(c, i + 1)
      BY <3>1, <3>2, <3>3, <3>4, ProgramAssumption DEF OwnersExact, TypeOK, c, i
    <3>7. \A m \in Locks, u \in Threads : u # t => (owner'[m] = u <=> owner[m] = u)
      BY <3>2, <3>4, <3>5, ProgramAssumption DEF TypeOK
    <3>8. running'[t] = c /\ pc'[t] = i + 1
      BY <3>4 DEF TypeOK, c
    <3>9. \A u \in Threads : u # t => running'[u] = running[u] /\ pc'[u] = pc[u]
      BY <3>4 DEF TypeOK
    <3> QED
      BY <3>1, <3>6, <3>7, <3>8, <3>9 DEF OwnersExact
  <2>5. ASSUME NEW t \in Threads, DoUse(t) PROVE OwnersExact'
    <3> DEFINE c == running[t]
               i == pc[t]
    <3>1. c \in Callbacks /\ c # Idle /\ i \in 1 .. Len(Program[c])
      BY <2>5 DEF DoUse, At, TypeOK
    <3>2. Program[c][i] = Use(Program[c][i].on)
      BY <2>5, <3>1, InstructionKinds DEF DoUse, At, Instr
    <3>3. ASSUME NEW m \in Locks
          PROVE  m \in Held(c, i + 1) <=> m \in Held(c, i)
      <4> HIDE DEF c, i
      <4>1. m \in Held(c, i + 1) <=>
              \/ Program[c][i] = Acquire(m)
              \/ m \in Held(c, i) /\ Program[c][i] # Release(m)
        BY <3>1, HeldNext
      <4> QED
        BY <3>2, <4>1, InstructionsDiffer
    <3>4. owner' = owner /\ pc' = [pc EXCEPT ![t] = i + 1] /\ running' = running
      BY <2>5 DEF DoUse, Advance
    <3> QED
      BY <3>1, <3>3, <3>4 DEF OwnersExact, TypeOK
  <2>6. ASSUME NEW t \in Threads, Return(t) PROVE OwnersExact'
    <3>1. /\ running' = [running EXCEPT ![t] = Idle] /\ pc' = [pc EXCEPT ![t] = 1]
          /\ owner' = owner
      BY <2>6 DEF Return
    <3>2. running[t] \in Callbacks /\ pc[t] = Len(Program[running[t]]) + 1
      <4>1. running[t] \in Callbacks /\ Len(Program[running[t]]) \in Nat
        BY <2>6, ProgramAssumption DEF Return, TypeOK
      <4> QED
        BY <2>6, <4>1 DEF Return, TypeOK
    <3>3. \A l \in Locks : l \notin Held(running[t], pc[t])
      BY <3>2 DEF Balanced, BalancedIn
    <3> QED
      BY <3>1, <3>3 DEF OwnersExact, TypeOK
  <2> QED
    BY <2>1, <2>2, <2>3, <2>4, <2>5, <2>6 DEF Next, Step
<1> QED
  BY <1>1, <1>2, TypeCorrect, PTL DEF Spec

-----------------------------------------------------------------------------
(* What the owners imply *)

\* Between balanced callbacks a thread holds nothing.
THEOREM NothingIsKept == ASSUME Balanced PROVE Spec => []NothingKept
<1>1. OwnersExact => NothingKept
  BY DEF OwnersExact, NothingKept
<1> QED
  BY <1>1, Owners, PTL

\* Callbacks that take their locks in the order of the ranks never deadlock,
\* however many threads run them: in a set of threads that wait for each other
\* every thread would wait for one that waits for a lock of a higher rank, and
\* there are four ranks.
THEOREM NoDeadlock == ASSUME Balanced, Ordered PROVE Spec => []NoWaitCycle
<1>1. TypeOK /\ OwnersExact => NoWaitCycle
  <2> SUFFICES ASSUME TypeOK, OwnersExact, NEW S \in SUBSET Threads,
                      \A t \in S : WaitsWithin(t, S), S # {}
               PROVE  FALSE
    BY DEF NoWaitCycle
  <2> DEFINE wanted(t) == Rank(Instr(t).on)
  <2>1. ASSUME NEW t \in S
        PROVE  /\ running[t] \in Callbacks /\ running[t] # Idle
               /\ pc[t] \in 1 .. Len(Program[running[t]])
               /\ Instr(t).on \in Locks
               /\ Instr(t) = Acquire(Instr(t).on)
    <3>1. t \in Threads /\ At(t, "acquire")
      BY DEF WaitsWithin
    <3>2. /\ running[t] \in Callbacks /\ running[t] # Idle
          /\ pc[t] \in 1 .. Len(Program[running[t]])
      BY <3>1 DEF At, TypeOK
    <3>3. Instr(t).op = "acquire"
      BY <3>1 DEF At
    <3> QED
      BY <3>2, <3>3, InstructionKinds DEF Instr
  <2>2. \A t \in S : wanted(t) \in 1 .. 4
    BY DEF Rank
  <2>3. \A t \in S : \E u \in S : wanted(t) < wanted(u)
    <3> TAKE t \in S
    <3>1. owner[Instr(t).on] \in S
      BY DEF WaitsWithin
    <3> DEFINE u == owner[Instr(t).on]
    <3>2. Instr(t).on \in Held(running[u], pc[u])
      BY <2>1, <3>1 DEF OwnersExact
    <3>3. Wants(running[u], pc[u], Acquire(Instr(u).on))
      <4>1. /\ pc[u] \in 1 .. Len(Program[running[u]])
            /\ Program[running[u]][pc[u]] = Acquire(Instr(u).on)
            /\ running[u] \in Callbacks
        BY <2>1, <3>1 DEF Instr
      <4> QED
        BY <4>1, ProgramAssumption DEF Wants
    <3>4. Rank(Instr(t).on) < Rank(Instr(u).on)
      BY <2>1, <3>1, <3>2, <3>3 DEF Ordered, OrderedIn
    <3> WITNESS u \in S
    <3> QED
      BY <3>4
  <2> HIDE DEF wanted
  <2>4. PICK t1 \in S : TRUE
    OBVIOUS
  <2>5. PICK t2 \in S : wanted(t1) < wanted(t2)
    BY <2>3
  <2>6. PICK t3 \in S : wanted(t2) < wanted(t3)
    BY <2>3
  <2>7. PICK t4 \in S : wanted(t3) < wanted(t4)
    BY <2>3
  <2>8. PICK t5 \in S : wanted(t4) < wanted(t5)
    BY <2>3
  <2> QED
    BY <2>2, <2>5, <2>6, <2>7, <2>8
<1> QED
  BY <1>1, TypeCorrect, Owners, PTL

\* Data that every callback uses under one and the same lock is used by one
\* thread at a time; here the forest and the mutex of the view callbacks.
THEOREM ForestIsExclusive ==
  ASSUME Balanced, Guarded("forest", "mtx") PROVE Spec => []ForestExclusive
<1>1. TypeOK /\ OwnersExact => ForestExclusive
  <2> SUFFICES ASSUME TypeOK, OwnersExact, NEW t \in Threads, NEW u \in Threads,
                      Using(t, "forest"), Using(u, "forest")
               PROVE  t = u
    BY DEF ForestExclusive, Exclusive
  <2>1. ASSUME NEW v \in Threads, Using(v, "forest") PROVE owner["mtx"] = v
    <3>1. /\ running[v] \in Callbacks /\ running[v] # Idle
          /\ pc[v] \in 1 .. Len(Program[running[v]])
      BY <2>1 DEF Using, At, TypeOK
    <3>2. Instr(v) = Use("forest")
      BY <2>1, <3>1, InstructionKinds DEF Using, At, Instr
    <3>3. "mtx" \in Held(running[v], pc[v])
      BY <3>1, <3>2 DEF Guarded, GuardedIn, Wants, Instr
    <3> QED
      BY <3>1, <3>3 DEF OwnersExact, Locks
  <2> QED
    BY <2>1
<1> QED
  BY <1>1, TypeCorrect, Owners, PTL
=============================================================================
