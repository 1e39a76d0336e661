------------------------- MODULE TorchMonitorProofs -------------------------
(***************************************************************************)
(* Theorems about TorchMonitor, for any threads, blocks, stacks of Python  *)
(* and depth of operators.                                                 *)
(***************************************************************************)
EXTENDS TorchMonitor, FiniteSetTheorems, TLAPS

Operator == [seen : BOOLEAN, level : Int, frames : Frames, other : BOOLEAN]

(* The types the proofs need.                                              *)
Types ==
  /\ mem_state_pushed \in [Threads -> BOOLEAN]
  /\ debug_info \in [Threads -> Nat]
  /\ nested_level \in [Threads -> Int]
  /\ ops \in [Threads -> Seq(Operator)]
  /\ frames \in [Threads -> Frames]
  /\ states \in [Threads -> Frames \cup {NoFrames}]
  /\ delayed \in [Threads -> Frames \cup {NoFrames}]

\* The places of reported operators below place i of a stack
SeenIn(q, i) == {j \in 1 .. i - 1 : q[j].seen}
One(b) == IF b THEN 1 ELSE 0

\* The counter of a thread is the number of reported operators it is in.
Counts == \A t \in Threads : nested_level[t] = Cardinality(SeenIn(ops[t], Len(ops[t]) + 1))

\* LevelsExact, with SeenIn
Levels ==
  \A t \in Threads : \A i \in DOMAIN ops[t] :
    ops[t][i].seen => ops[t][i].level = Cardinality(SeenIn(ops[t], i))

\* The cached state is the stack of each reported operator of the thread, unless
\* another was entered below it from elsewhere in Python.
Cached ==
  tool = "view" =>
    \A t \in Threads : \A i \in DOMAIN ops[t] :
      ops[t][i].seen /\ ~ops[t][i].other => states[t] = ops[t][i].frames

\* The buffer of a thread holds a stack once it has attributed a kernel to one.
Filled == \A t \in Threads : delayed[t] # NoFrames => t \in launched

-----------------------------------------------------------------------------
\* Entering an operator changes nothing but "other" in those around it.
LEMMA PassedSame ==
  ASSUME Types, NEW t \in Threads
  PROVE  /\ Passed(t) \in Seq(Operator) /\ Len(Passed(t)) = Len(ops[t])
         /\ DOMAIN Passed(t) = DOMAIN ops[t]
         /\ \A i \in DOMAIN ops[t] :
              /\ Passed(t)[i].seen = ops[t][i].seen /\ Passed(t)[i].level = ops[t][i].level
              /\ Passed(t)[i].frames = ops[t][i].frames
              /\ Passed(t)[i].other = (ops[t][i].other \/ ops[t][i].frames # frames[t])
<1>1. ops[t] \in Seq(Operator) /\ DOMAIN ops[t] = 1 .. Len(ops[t]) /\ Len(ops[t]) \in Nat
  BY DEF Types
<1>2. \A i \in DOMAIN ops[t] : ops[t][i] \in Operator
  BY <1>1
<1>3. \A i \in DOMAIN ops[t] :
        /\ Passed(t)[i] = [ops[t][i] EXCEPT !.other = ops[t][i].other \/ ops[t][i].frames # frames[t]]
        /\ Passed(t)[i] \in Operator
  BY <1>2 DEF Passed, Operator
<1>4. Passed(t) \in [1 .. Len(ops[t]) -> Operator]
  BY <1>1, <1>3 DEF Passed
<1>5. Passed(t) \in Seq(Operator) /\ Len(Passed(t)) = Len(ops[t]) /\ DOMAIN Passed(t) = DOMAIN ops[t]
  BY <1>1, <1>4
<1>6. ASSUME NEW i \in DOMAIN ops[t]
      PROVE  /\ Passed(t)[i].seen = ops[t][i].seen /\ Passed(t)[i].level = ops[t][i].level
             /\ Passed(t)[i].frames = ops[t][i].frames
             /\ Passed(t)[i].other = (ops[t][i].other \/ ops[t][i].frames # frames[t])
  BY <1>2, <1>3 DEF Operator
<1> QED
  BY <1>5, <1>6

\* The variables keep their types.
LEMMA TypesCorrect == Spec => []Types
<1>1. Init => Types
  <2> SUFFICES ASSUME Init PROVE Types
    OBVIOUS
  <2>1. <<>> \in Seq(Operator)
    OBVIOUS
  <2> QED
    BY <2>1 DEF Init, Types
<1>2. Types /\ [Next]_vars => Types'
  <2> SUFFICES ASSUME Types, [Next]_vars PROVE Types'
    OBVIOUS
  <2> USE DEF Types
  <2>1. CASE EnableStep
    BY <2>1 DEF EnableStep, python, memory
  <2>2. CASE torch_monitor_finalize
    BY <2>2 DEF torch_monitor_finalize, python, memory
  <2>3. ASSUME NEW t \in Threads, torch_monitor_thread_init(t) PROVE Types'
    BY <2>3 DEF torch_monitor_thread_init, start_memory_profiling, python, memory
  <2>4. ASSUME NEW t \in Threads, torch_monitor_thread_finalize(t) PROVE Types'
    <3>1. debug_info[t] - 1 \in Nat
      BY <2>4 DEF torch_monitor_thread_finalize
    <3>2. debug_info' \in [Threads -> Nat]
      BY <2>4, <3>1 DEF torch_monitor_thread_finalize
    <3> QED
      BY <2>4, <3>2 DEF torch_monitor_thread_finalize, python, memory
  <2>5. ASSUME NEW t \in Threads, NEW s \in Scopes, EnterOperator(t, s) PROVE Types'
    <3> DEFINE new == [seen |-> s \in installed, level |-> nested_level[t], frames |-> frames[t], other |-> FALSE]
               old == IF s \in installed THEN Passed(t) ELSE ops[t]
    <3>1. new \in Operator
      BY DEF Operator
    <3>2. ops' \in [Threads -> Seq(Operator)]
      <4>1. old \in Seq(Operator)
        BY PassedSame
      <4>2. Append(old, new) \in Seq(Operator)
        BY <3>1, <4>1
      <4>3. ops' = [ops EXCEPT ![t] = Append(old, new)]
        BY <2>5 DEF EnterOperator
      <4> QED
        BY <4>2, <4>3
    <3>3. mem_state_pushed' \in [Threads -> BOOLEAN]
      BY <2>5 DEF EnterOperator
    <3> QED
      BY <2>5, <3>2, <3>3 DEF EnterOperator, start_memory_profiling, get_states, python, memory
  <2>6. ASSUME NEW t \in Threads, ExitOperator(t) PROVE Types'
    <3>1. SubSeq(ops[t], 1, Len(ops[t]) - 1) \in Seq(Operator)
      BY <2>6 DEF ExitOperator
    <3> QED
      BY <2>6, <3>1 DEF ExitOperator, CountDown, python, memory
  <2>7. ASSUME NEW t \in Threads, NEW f \in Frames, PythonMoves(t, f) PROVE Types'
    BY <2>7 DEF PythonMoves, memory
  <2>8. ASSUME NEW t \in Threads, NEW f \in Frames \cup {NoFrames}, LaunchKernel(t, f) PROVE Types'
    BY <2>8 DEF LaunchKernel, memory
  <2>9. ASSUME NEW t \in Threads, NEW b \in Blocks,
               reportMemoryUsage_alloc(t, b) \/ reportMemoryUsage_free(t, b)
        PROVE  Types'
    BY <2>9 DEF reportMemoryUsage_alloc, reportMemoryUsage_free, python
  <2>10. CASE UNCHANGED vars
    BY <2>10 DEF vars, python
  <2> QED
    BY <2>1, <2>2, <2>3, <2>4, <2>5, <2>6, <2>7, <2>8, <2>9, <2>10 DEF Next
<1> QED
  BY <1>1, <1>2, PTL DEF Spec

-----------------------------------------------------------------------------
\* No allocation is lost once a thread is told of its memory, and a thread that
\* entered a reported operator is told, however many threads come and go.
THEOREM BlocksAreKnown == Spec => []BlocksKnown
<1>1. Init => BlocksKnown
  BY DEF Init, BlocksKnown
<1>2. Types /\ BlocksKnown /\ [Next]_vars => BlocksKnown'
  <2> SUFFICES ASSUME Types, BlocksKnown, [Next]_vars PROVE BlocksKnown'
    OBVIOUS
  <2> USE DEF Types, BlocksKnown
  <2>1. CASE EnableStep
    BY <2>1 DEF Reported, EnableStep, python, memory
  <2>2. CASE torch_monitor_finalize
    BY <2>2 DEF Reported, torch_monitor_finalize, python, memory
  <2>3. ASSUME NEW t \in Threads, torch_monitor_thread_init(t) PROVE BlocksKnown'
    BY <2>3 DEF Reported, torch_monitor_thread_init, start_memory_profiling, python, memory
  <2>4. ASSUME NEW t \in Threads, torch_monitor_thread_finalize(t) PROVE BlocksKnown'
    BY <2>4 DEF Reported, torch_monitor_thread_finalize, python, memory
  <2>5. ASSUME NEW t \in Threads, NEW s \in Scopes, EnterOperator(t, s) PROVE BlocksKnown'
    <3>1. \A u \in Threads : mem_state_pushed'[u] /\ u \notin deaf' => debug_info'[u] > 0
      <4> SUFFICES ASSUME NEW u \in Threads, mem_state_pushed'[u], u \notin deaf'
                   PROVE  debug_info'[u] > 0
        OBVIOUS
      <4>1. CASE u # t
        BY <2>5, <4>1 DEF EnterOperator, Reported
      <4>2. CASE u = t /\ mem_state_pushed[t]
        BY <2>5, <4>2 DEF EnterOperator, start_memory_profiling, Reported
      <4>3. CASE u = t /\ ~mem_state_pushed[t]
        BY <2>5, <4>3 DEF EnterOperator, start_memory_profiling, NeedsState
      <4> QED
        BY <4>1, <4>2, <4>3
    <3> QED
      BY <2>5, <3>1 DEF Reported, EnterOperator, memory
  <2>6. ASSUME NEW t \in Threads, ExitOperator(t) PROVE BlocksKnown'
    BY <2>6 DEF Reported, ExitOperator, python, memory
  <2>7. ASSUME NEW t \in Threads, NEW f \in Frames, PythonMoves(t, f) PROVE BlocksKnown'
    BY <2>7 DEF Reported, PythonMoves, memory
  <2>8. ASSUME NEW t \in Threads, NEW f \in Frames \cup {NoFrames}, LaunchKernel(t, f) PROVE BlocksKnown'
    BY <2>8 DEF Reported, LaunchKernel, memory
  <2>9. ASSUME NEW t \in Threads, NEW b \in Blocks, reportMemoryUsage_alloc(t, b)
        PROVE  BlocksKnown'
    <3>1. ASSUME NEW x \in live', x[2] PROVE x[1] \in known'
      <4>1. known \subseteq known' /\ (Reported(t) => b \in known')
        BY <2>9 DEF reportMemoryUsage_alloc
      <4>2. CASE x \in live
        BY <3>1, <4>1, <4>2
      <4>3. CASE x = <<b, Reported(t)>>
        <5>1. x[1] = b /\ x[2] = Reported(t)
          BY <4>3
        <5> QED
          BY <3>1, <4>1, <5>1, Zenon
      <4> QED
        BY <2>9, <4>2, <4>3 DEF reportMemoryUsage_alloc
    <3>2. \A u \in Threads : mem_state_pushed'[u] /\ u \notin deaf' => Reported(u)'
      BY <2>9 DEF reportMemoryUsage_alloc, Reported
    <3> QED
      BY <3>1, <3>2
  <2>10. ASSUME NEW t \in Threads, NEW b \in Blocks, reportMemoryUsage_free(t, b)
         PROVE  BlocksKnown'
    BY <2>10 DEF Reported, reportMemoryUsage_free, python
  <2>11. CASE UNCHANGED vars
    BY <2>11 DEF Reported, vars, python, memory
  <2> QED
    BY <2>1, <2>2, <2>3, <2>4, <2>5, <2>6, <2>7, <2>8, <2>9, <2>10, <2>11 DEF Next
<1> QED
  BY <1>1, <1>2, TypesCorrect, PTL DEF Spec
-----------------------------------------------------------------------------
\* The entry of a reported operator fetches the stack of Python, and tells the
\* operators around it whose stack is another.
LEMMA CacheIsFresh == Spec => []Cached
<1>1. Init => Cached
  BY DEF Init, Cached
<1>2. Types /\ Cached /\ [Next]_vars => Cached'
  <2> SUFFICES ASSUME Types, Cached, [Next]_vars PROVE Cached'
    OBVIOUS
  <2>1. CASE UNCHANGED <<tool, ops, states>>
    BY <2>1 DEF Cached
  <2>2. CASE EnableStep \/ torch_monitor_finalize \/ UNCHANGED vars
    <3>1. UNCHANGED <<tool, ops, states>>
      BY <2>2 DEF EnableStep, torch_monitor_finalize, vars, setup, python
    <3> QED
      BY <2>1, <3>1
  <2>3. ASSUME NEW t \in Threads,
               \/ torch_monitor_thread_init(t) \/ torch_monitor_thread_finalize(t)
               \/ \E f \in Frames : PythonMoves(t, f)
               \/ \E f \in Frames \cup {NoFrames} : LaunchKernel(t, f)
               \/ \E b \in Blocks : reportMemoryUsage_alloc(t, b) \/ reportMemoryUsage_free(t, b)
        PROVE  UNCHANGED <<tool, ops, states>>
    BY <2>3 DEF torch_monitor_thread_init, torch_monitor_thread_finalize, LaunchKernel, PythonMoves,
                reportMemoryUsage_alloc, reportMemoryUsage_free, setup, python
  <2>4. ASSUME NEW t \in Threads, NEW s \in Scopes, EnterOperator(t, s) PROVE Cached'
    <3> DEFINE new == [seen |-> s \in installed, level |-> nested_level[t], frames |-> frames[t], other |-> FALSE]
               old == IF s \in installed THEN Passed(t) ELSE ops[t]
    <3>1. /\ ops' = [ops EXCEPT ![t] = Append(old, new)] /\ tool' = tool
          /\ \A u \in Threads : u # t => ops'[u] = ops[u] /\ states'[u] = states[u]
      BY <2>4 DEF EnterOperator, setup, Types
    <3>2. old \in Seq(Operator) /\ DOMAIN old = DOMAIN ops[t] /\ DOMAIN ops[t] = 1 .. Len(old) /\ Len(old) \in Nat
      BY PassedSame DEF Types
    <3>3. ops'[t] = Append(old, new)
      BY <3>1 DEF Types
    <3>4. /\ DOMAIN ops'[t] = 1 .. Len(old) + 1 /\ ops'[t][Len(old) + 1] = new
          /\ \A i \in 1 .. Len(old) : ops'[t][i] = old[i]
      BY <3>2, <3>3
    <3>5. ASSUME tool = "view", NEW i \in DOMAIN ops'[t], ops'[t][i].seen, ~ops'[t][i].other
          PROVE  states'[t] = ops'[t][i].frames
      <4>1. s \in installed => states'[t] = frames[t]
        BY <2>4, <3>5 DEF EnterOperator, get_states, Types
      <4>2. s \notin installed => states'[t] = states[t]
        BY <2>4 DEF EnterOperator, Types
      <4>3. CASE i = Len(old) + 1
        <5>1. ops'[t][i].frames = frames[t] /\ ops'[t][i].seen = (s \in installed)
          BY <3>4, <4>3
        <5> QED
          BY <3>5, <4>1, <5>1
      <4>4. CASE i \in 1 .. Len(old)
        <5>1. ops'[t][i] = old[i] /\ i \in DOMAIN ops[t]
          BY <3>2, <3>4, <4>4
        <5>2. CASE s \in installed
          BY <3>5, <4>1, <5>1, <5>2, PassedSame
        <5>3. CASE s \notin installed
          BY <3>5, <4>2, <5>1, <5>3 DEF Cached
        <5> QED
          BY <5>2, <5>3
      <4> QED
        BY <3>2, <3>4, <4>3, <4>4
    <3> QED
      BY <3>1, <3>5 DEF Cached
  <2>5. ASSUME NEW t \in Threads, ExitOperator(t) PROVE Cached'
    <3>1. /\ DOMAIN ops'[t] \subseteq DOMAIN ops[t]
          /\ \A i \in DOMAIN ops'[t] : ops'[t][i] = ops[t][i]
      <4>1. ops'[t] = SubSeq(ops[t], 1, Len(ops[t]) - 1) /\ ops[t] # <<>>
        BY <2>5 DEF ExitOperator, Types
      <4>2. ops[t] \in Seq(Operator) /\ Len(ops[t]) \in Nat
        BY DEF Types
      <4> QED
        BY <4>1, <4>2
    <3>2. \A u \in Threads : u # t => ops'[u] = ops[u]
      BY <2>5 DEF ExitOperator, Types
    <3>3. states' = states /\ tool' = tool
      BY <2>5 DEF ExitOperator, setup, python
    <3> QED
      BY <3>1, <3>2, <3>3 DEF Cached
  <2> QED
    BY <2>1, <2>2, <2>3, <2>4, <2>5 DEF Next
<1> QED
  BY <1>1, <1>2, TypesCorrect, PTL DEF Spec

\* Only LaunchKernel writes the buffer of a thread.
LEMMA BufferFilled == Spec => []Filled
<1>1. Init => Filled
  BY DEF Init, Filled
<1>2. Types /\ Filled /\ [Next]_vars => Filled'
  <2> SUFFICES ASSUME Types, Filled, [Next]_vars PROVE Filled'
    OBVIOUS
  <2>1. CASE UNCHANGED <<delayed, launched>>
    BY <2>1 DEF Filled
  <2>2. ASSUME NEW t \in Threads, NEW f \in Frames \cup {NoFrames}, LaunchKernel(t, f) PROVE Filled'
    BY <2>2 DEF LaunchKernel, Filled, Types
  <2>3. ASSUME ~\E t \in Threads : \E f \in Frames \cup {NoFrames} : LaunchKernel(t, f)
        PROVE  UNCHANGED <<delayed, launched>>
    BY <2>3 DEF Next, vars, python, EnableStep, torch_monitor_finalize, torch_monitor_thread_init,
                torch_monitor_thread_finalize, EnterOperator, ExitOperator, PythonMoves,
                reportMemoryUsage_alloc, reportMemoryUsage_free
  <2> QED
    BY <2>1, <2>2, <2>3
<1> QED
  BY <1>1, <1>2, TypesCorrect, PTL DEF Spec

\* A kernel is attributed to the stack of the operator that launched it, when it
\* has one and no operator was entered below it from elsewhere in Python; a kernel
\* without a stack gets one only on a thread that attributed a kernel before
\* (TorchView::kernel_op_callback).
THEOREM KernelsHaveTheirFrames == Spec => []KernelFrames
<1>1. Init => KernelFrames
  BY DEF Init, KernelFrames
<1>2. Types /\ Cached /\ Filled /\ KernelFrames /\ [Next]_vars => KernelFrames'
  <2> SUFFICES ASSUME Types, Cached, Filled, KernelFrames, [Next]_vars PROVE KernelFrames'
    OBVIOUS
  <2>1. ASSUME NEW t \in Threads, NEW f \in Frames \cup {NoFrames}, LaunchKernel(t, f)
        PROVE  KernelFrames'
    <3>1. Len(ops[t]) \in DOMAIN ops[t] /\ Top(t) = ops[t][Len(ops[t])]
      BY <2>1 DEF LaunchKernel, Types, Top
    <3>2. ~Top(t).other => states[t] = Top(t).frames
      BY <2>1, <3>1 DEF LaunchKernel, Cached
    <3>3. kernel' = [own |-> Top(t).frames, used |-> f, other |-> Top(t).other, before |-> t \in launched]
      BY <2>1 DEF LaunchKernel
    <3>4. states[t] # NoFrames => f = states[t]
      BY <2>1 DEF LaunchKernel, torch_monitor_python_state_get_cached
    <3>5. states[t] = NoFrames /\ t \notin launched => f = NoFrames
      BY <2>1 DEF LaunchKernel, torch_monitor_python_state_get_cached, Filled
    <3> QED
      BY <3>2, <3>3, <3>4, <3>5 DEF KernelFrames
  <2>2. CASE UNCHANGED kernel
    BY <2>2 DEF KernelFrames
  <2>3. ASSUME ~\E t \in Threads : \E f \in Frames \cup {NoFrames} : LaunchKernel(t, f)
        PROVE  UNCHANGED kernel
    BY <2>3 DEF Next, vars, python, EnableStep, torch_monitor_finalize, torch_monitor_thread_init,
                torch_monitor_thread_finalize, EnterOperator, ExitOperator, PythonMoves,
                reportMemoryUsage_alloc, reportMemoryUsage_free
  <2> QED
    BY <2>1, <2>2, <2>3
<1> QED
  BY <1>1, <1>2, TypesCorrect, CacheIsFresh, BufferFilled, PTL DEF Spec

-----------------------------------------------------------------------------
\* One place more on a stack: one reported operator more, or none.
LEMMA SeenStep ==
  ASSUME NEW q \in Seq(Operator), NEW n \in 1 .. Len(q)
  PROVE  /\ Cardinality(SeenIn(q, n + 1)) = Cardinality(SeenIn(q, n)) + One(q[n].seen)
         /\ Cardinality(SeenIn(q, n)) \in Nat
<1>0. n \in Nat
  OBVIOUS
<1>1. IsFiniteSet(SeenIn(q, n)) /\ n \notin SeenIn(q, n)
  <2>1. IsFiniteSet(1 .. n - 1)
    BY <1>0, FS_Interval
  <2>2. SeenIn(q, n) \subseteq 1 .. n - 1 /\ n \notin SeenIn(q, n)
    BY <1>0 DEF SeenIn
  <2> QED
    BY <2>1, <2>2, FS_Subset
<1>2. Cardinality(SeenIn(q, n)) \in Nat
  BY <1>1, FS_CardinalityType
<1>3. CASE q[n].seen
  <2>1. SeenIn(q, n + 1) = SeenIn(q, n) \cup {n}
    BY <1>0, <1>3 DEF SeenIn
  <2>2. Cardinality(SeenIn(q, n) \cup {n}) = Cardinality(SeenIn(q, n)) + 1
    BY <1>1, FS_AddElement
  <2> QED
    BY <1>2, <1>3, <2>1, <2>2 DEF One
<1>4. CASE ~q[n].seen
  <2>1. SeenIn(q, n + 1) = SeenIn(q, n)
    BY <1>0, <1>4 DEF SeenIn
  <2> QED
    BY <1>2, <1>4, <2>1 DEF One
<1> QED
  BY <1>3, <1>4, <1>2

\* Stacks that agree below a place have the same reported operators there.
LEMMA SeenSame ==
  ASSUME NEW q, NEW r, NEW i \in Int, \A j \in 1 .. i - 1 : q[j].seen = r[j].seen
  PROVE  SeenIn(q, i) = SeenIn(r, i)
BY DEF SeenIn

\* The counter of a thread is the number of reported operators on its stack, and
\* each operator was given the number of those below it.
LEMMA LevelsCounted == Spec => [](Counts /\ Levels)
<1>1. Init => Counts /\ Levels
  <2> SUFFICES ASSUME Init PROVE Counts /\ Levels
    OBVIOUS
  <2>1. ASSUME NEW t \in Threads
        PROVE  ops[t] = <<>> /\ nested_level[t] = 0 /\ SeenIn(ops[t], Len(ops[t]) + 1) = {}
    BY DEF Init, SeenIn
  <2>2. Counts
    BY <2>1, FS_EmptySet DEF Counts
  <2> QED
    BY <2>1, <2>2 DEF Levels
<1>2. Types /\ Counts /\ Levels /\ [Next]_vars => (Counts /\ Levels)'
  <2> SUFFICES ASSUME Types, Counts, Levels, [Next]_vars PROVE (Counts /\ Levels)'
    OBVIOUS
  <2>0. \A t \in Threads : ops[t] \in Seq(Operator) /\ Len(ops[t]) \in Nat /\ DOMAIN ops[t] = 1 .. Len(ops[t])
    BY DEF Types
  <2>1. ASSUME NEW t \in Threads, NEW s \in Scopes, EnterOperator(t, s)
        PROVE  (Counts /\ Levels)'
    <3> DEFINE n   == Len(ops[t])
               new == [seen |-> s \in installed, level |-> nested_level[t], frames |-> frames[t], other |-> FALSE]
               old == IF s \in installed THEN Passed(t) ELSE ops[t]
    <3>1. \A u \in Threads : u # t => ops'[u] = ops[u] /\ nested_level'[u] = nested_level[u]
      BY <2>1 DEF EnterOperator, Types
    <3>2. ops'[t] = Append(old, new) /\ new \in Operator
      BY <2>1 DEF EnterOperator, Types, Operator
    <3>3. /\ DOMAIN ops'[t] = 1 .. n + 1 /\ Len(ops'[t]) = n + 1 /\ ops'[t] \in Seq(Operator)
          /\ \A i \in 1 .. n : ops'[t][i].seen = ops[t][i].seen /\ ops'[t][i].level = ops[t][i].level
          /\ ops'[t][n + 1] = new
      <4>1. /\ old \in Seq(Operator) /\ Len(old) = n
            /\ \A i \in 1 .. n : old[i].seen = ops[t][i].seen /\ old[i].level = ops[t][i].level
        BY <2>0, PassedSame
      <4>2. /\ DOMAIN ops'[t] = 1 .. n + 1 /\ Len(ops'[t]) = n + 1 /\ ops'[t] \in Seq(Operator)
            /\ \A i \in 1 .. n : ops'[t][i] = old[i]
            /\ ops'[t][n + 1] = new
        BY <2>0, <3>2, <4>1
      <4> QED
        BY <4>1, <4>2
    <3>4. \A i \in 1 .. n + 1 : SeenIn(ops'[t], i) = SeenIn(ops[t], i)
      <4> SUFFICES ASSUME NEW i \in 1 .. n + 1 PROVE SeenIn(ops'[t], i) = SeenIn(ops[t], i)
        OBVIOUS
      <4>1. i \in Int /\ \A j \in 1 .. i - 1 : ops'[t][j].seen = ops[t][j].seen
        BY <2>0, <3>3
      <4> QED
        BY <4>1, SeenSame
    <3>5. nested_level[t] = Cardinality(SeenIn(ops[t], n + 1))
      BY DEF Counts
    <3>6. ASSUME NEW i \in DOMAIN ops'[t], ops'[t][i].seen
          PROVE  ops'[t][i].level = Cardinality(SeenIn(ops'[t], i))
      <4>1. CASE i = n + 1
        <5>1. ops'[t][i].level = nested_level[t]
          BY <3>3, <4>1
        <5>2. n + 1 \in 1 .. n + 1
          BY <2>0
        <5>3. SeenIn(ops'[t], i) = SeenIn(ops[t], n + 1)
          BY <3>4, <4>1, <5>2
        <5> QED
          BY <3>5, <5>1, <5>3
      <4>2. CASE i \in 1 .. n
        BY <2>0, <3>3, <3>4, <3>6, <4>2 DEF Levels
      <4> QED
        BY <2>0, <3>3, <4>1, <4>2
    <3>7. nested_level'[t] = nested_level[t] + One(new.seen)
      <4>1. CASE s \in installed
        BY <2>1, <4>1 DEF EnterOperator, Types, One
      <4>2. CASE s \notin installed
        <5>1. nested_level'[t] = nested_level[t] /\ nested_level[t] \in Int
          BY <2>1, <4>2 DEF EnterOperator, Types
        <5>2. ~new.seen
          BY <4>2
        <5>3. One(new.seen) = 0
          BY <5>2 DEF One
        <5> QED
          BY <5>1, <5>3
      <4> QED
        BY <4>1, <4>2
    <3>8. nested_level'[t] = Cardinality(SeenIn(ops'[t], Len(ops'[t]) + 1))
      <4>1. n + 1 \in 1 .. Len(ops'[t]) /\ n + 1 \in 1 .. n + 1
        BY <2>0, <3>3
      <4>2. Cardinality(SeenIn(ops'[t], (n + 1) + 1)) = Cardinality(SeenIn(ops'[t], n + 1)) + One(ops'[t][n + 1].seen)
        BY <3>3, <4>1, SeenStep
      <4> QED
        BY <3>3, <3>4, <3>5, <3>7, <4>1, <4>2
    <3>9. Counts'
      BY <3>1, <3>8 DEF Counts
    <3> QED
      BY <3>1, <3>6, <3>9 DEF Levels
  <2>2. ASSUME NEW t \in Threads, ExitOperator(t) PROVE (Counts /\ Levels)'
    <3> DEFINE n == Len(ops[t])
    <3>1. \A u \in Threads : u # t => ops'[u] = ops[u] /\ nested_level'[u] = nested_level[u]
      BY <2>2 DEF ExitOperator, Types
    <3>2. ops'[t] = SubSeq(ops[t], 1, n - 1) /\ ops[t] # <<>>
      BY <2>2 DEF ExitOperator, Types
    <3>3. n \in Nat \ {0} /\ n \in 1 .. n
      BY <2>0, <3>2
    <3>4. /\ DOMAIN ops'[t] = 1 .. n - 1 /\ Len(ops'[t]) = n - 1
          /\ \A i \in 1 .. n - 1 : ops'[t][i] = ops[t][i]
      BY <2>0, <3>2, <3>3
    <3>5. \A i \in 1 .. n : SeenIn(ops'[t], i) = SeenIn(ops[t], i)
      <4> SUFFICES ASSUME NEW i \in 1 .. n PROVE SeenIn(ops'[t], i) = SeenIn(ops[t], i)
        OBVIOUS
      <4>1. i \in Int /\ \A j \in 1 .. i - 1 : ops'[t][j].seen = ops[t][j].seen
        BY <3>3, <3>4
      <4> QED
        BY <4>1, SeenSame
    <3>6. ASSUME NEW i \in DOMAIN ops'[t], ops'[t][i].seen
          PROVE  ops'[t][i].level = Cardinality(SeenIn(ops'[t], i))
      <4>1. i \in DOMAIN ops[t] /\ i \in 1 .. n /\ ops'[t][i] = ops[t][i]
        BY <2>0, <3>3, <3>4
      <4> QED
        BY <3>5, <3>6, <4>1 DEF Levels
    <3>7. nested_level'[t] = nested_level[t] - One(ops[t][n].seen)
      <4>1. CASE ops[t][n].seen
        BY <2>2, <4>1 DEF ExitOperator, CountDown, Top, Types, One
      <4>2. CASE ~ops[t][n].seen
        BY <2>2, <4>2 DEF ExitOperator, Top, Types, One
      <4> QED
        BY <4>1, <4>2
    <3>8. nested_level'[t] = Cardinality(SeenIn(ops'[t], Len(ops'[t]) + 1))
      <4>1. nested_level[t] = Cardinality(SeenIn(ops[t], n + 1))
        BY DEF Counts
      <4>2. /\ Cardinality(SeenIn(ops[t], n + 1)) = Cardinality(SeenIn(ops[t], n)) + One(ops[t][n].seen)
            /\ Cardinality(SeenIn(ops[t], n)) \in Nat
        BY <2>0, <3>3, SeenStep
      <4>3. One(ops[t][n].seen) \in Int
        BY DEF One
      <4>4. Len(ops'[t]) + 1 = n
        BY <3>3, <3>4
      <4>5. nested_level'[t] = Cardinality(SeenIn(ops[t], n))
        BY <3>7, <4>1, <4>2, <4>3
      <4> QED
        BY <3>3, <3>5, <4>4, <4>5
    <3>9. Counts'
      BY <3>1, <3>8 DEF Counts
    <3> QED
      BY <3>1, <3>6, <3>9 DEF Levels
  <2>3. CASE UNCHANGED <<ops, nested_level>>
    BY <2>3 DEF Counts, Levels
  <2>4. ASSUME NEW t \in Threads,
               \/ torch_monitor_thread_init(t) \/ torch_monitor_thread_finalize(t)
               \/ \E f \in Frames \cup {NoFrames} : LaunchKernel(t, f)
               \/ \E f \in Frames : PythonMoves(t, f)
               \/ \E b \in Blocks : reportMemoryUsage_alloc(t, b) \/ reportMemoryUsage_free(t, b)
        PROVE  UNCHANGED <<ops, nested_level>>
    BY <2>4 DEF torch_monitor_thread_init, torch_monitor_thread_finalize, LaunchKernel, PythonMoves,
                reportMemoryUsage_alloc, reportMemoryUsage_free
  <2>5. CASE EnableStep \/ torch_monitor_finalize \/ UNCHANGED vars
    <3>1. UNCHANGED <<ops, nested_level>>
      BY <2>5 DEF EnableStep, torch_monitor_finalize, vars
    <3> QED
      BY <2>3, <3>1
  <2> QED
    BY <2>1, <2>2, <2>3, <2>4, <2>5 DEF Next
<1> QED
  BY <1>1, <1>2, TypesCorrect, PTL DEF Spec

\* The level reported for an operator is the number of reported operators around
\* it, for any number of threads and any nesting, also when the monitor was set
\* up in the middle of them (init_callback_data).
THEOREM LevelsAreExact == Spec => []LevelsExact
<1>1. Levels => LevelsExact
  BY DEF Levels, LevelsExact, SeenIn
<1> QED
  BY <1>1, LevelsCounted, PTL

=============================================================================
