---------------------------- MODULE TorchMonitor ----------------------------
(***************************************************************************)
(* The torch monitor (src/torch-monitor) under the tool that uses it: the  *)
(* calls that set it up, the callbacks of PyTorch at the start and the end *)
(* of an operator and at an allocation or a release, the state of Python   *)
(* that is fetched and cached per thread, and the calls that end it.       *)
(* PyTorch runs operators and allocates from the first step on, set-up or  *)
(* not.                                                                    *)
(***************************************************************************)
EXTENDS Integers, Sequences, FiniteSets

CONSTANTS
  Threads,   \* threads of PyTorch
  Blocks,    \* addresses of memory blocks
  Frames,    \* stacks of the Python interpreter; NoFrames: none on the thread
  NoFrames,
  MaxDepth,  \* bound on nested operators
  MaxOps     \* bound on operators started

ASSUME MonitorAssumption == MaxDepth \in Nat /\ MaxOps \in Nat

Domains == {"FUNCTION", "BACKWARD_FUNCTION", "MEMORY", "USER_SCOPE"}
Scopes == {"FUNCTION", "BACKWARD_FUNCTION", "USER_SCOPE"}

VARIABLES
  tool,       \* the subscriber: "memory" or "view"
  step,       \* calls of redshow_torch_enable or redshow_torch_view_enable made
  scopes,     \* TorchProfilerState::scopes
  callback,   \* TorchProfilerState::callback is set
  memory_profiling_enabled,
  installed,  \* the scopes of the callback PyTorch holds; {} for none
  ops,        \* per thread, the operators it is in
  started,    \* operators started
  nested_level, mem_state_pushed, \* thread-local
  debug_info, \* per thread, memory states on c10's stack
  frames,     \* per thread, the stack of Python
  states,     \* per thread, PythonStateMonitor::_states
  delayed,    \* per thread, delayed_python_states and its number
  live,       \* blocks allocated now, with TRUE for the ones it was told of
  known,      \* blocks the tool takes to be allocated
  deaf,       \* threads that missed their memory state, or gave it up (history)
  launched,   \* threads that attributed a kernel to a stack (history)
  kernel      \* the kernel launched last: its operator and the stack used

setup  == <<tool, step, scopes, callback, memory_profiling_enabled, installed>>
python == <<frames, states, delayed, launched, kernel>>
memory == <<live, known>>
vars == <<setup, ops, started, nested_level, mem_state_pushed, debug_info, deaf, python, memory>>

-----------------------------------------------------------------------------
(* Set-up *)

\* torch_monitor_domain_match: the domains that have a scope of PyTorch's.
torch_monitor_domain_match == {"FUNCTION", "BACKWARD_FUNCTION"}

torch_monitor_domain_enable(d) ==
  /\ memory_profiling_enabled' = (memory_profiling_enabled \/ d = "MEMORY")
  /\ scopes' = scopes \cup ({d} \cap torch_monitor_domain_match)
  /\ UNCHANGED <<callback, installed>>

\* register_callback takes the first subscriber only.
torch_monitor_callback_subscribe ==
  /\ callback' = TRUE
  /\ UNCHANGED <<memory_profiling_enabled, scopes, installed>>

\* start_profiling gives PyTorch a copy of the scopes.
torch_monitor_init ==
  /\ callback /\ scopes # {}
  /\ installed' = scopes
  /\ UNCHANGED <<memory_profiling_enabled, scopes, callback>>

\* One call of redshow_torch_enable, or of redshow_torch_view_enable.
EnableStep ==
  /\ step < 5
  /\ step' = step + 1
  /\ CASE step = 0 -> torch_monitor_domain_enable("FUNCTION")
       [] step = 1 -> torch_monitor_domain_enable("BACKWARD_FUNCTION")
       [] step = 2 -> torch_monitor_domain_enable("MEMORY")
       [] step = 3 -> torch_monitor_callback_subscribe
       [] step = 4 -> torch_monitor_init
  /\ UNCHANGED <<tool, ops, started, nested_level, mem_state_pushed, debug_info, deaf, python, memory>>

-----------------------------------------------------------------------------
(* Memory states of threads *)

\* start_memory_profiling: a state for the thread, when the domain is enabled.
start_memory_profiling(n) == IF memory_profiling_enabled THEN n + 1 ELSE n

torch_monitor_thread_init(t) ==
  /\ callback /\ debug_info[t] = 0
  /\ debug_info' = [debug_info EXCEPT ![t] = start_memory_profiling(@)]
  /\ UNCHANGED <<setup, ops, started, nested_level, mem_state_pushed, deaf, python, memory>>

\* stop_memory_profiling: the state of the thread is popped, and the domain is
\* switched off for all threads.
torch_monitor_thread_finalize(t) ==
  /\ ops[t] = <<>> /\ t \notin deaf
  /\ memory_profiling_enabled /\ debug_info[t] > 0
  /\ debug_info' = [debug_info EXCEPT ![t] = @ - 1]
  /\ memory_profiling_enabled' = FALSE
  /\ deaf' = deaf \cup {t}
  /\ UNCHANGED <<tool, step, scopes, callback, installed, ops, started, nested_level, mem_state_pushed, python, memory>>

\* stop_profiling: the state is cleared, and PyTorch keeps its callback.  The
\* call is for the end of the process: a callback after it would go to nullptr.
torch_monitor_finalize ==
  /\ step = 5 /\ callback
  /\ \A t \in Threads : ops[t] = <<>> /\ debug_info[t] = 0
  /\ callback' = FALSE /\ scopes' = {}
  /\ UNCHANGED <<tool, step, memory_profiling_enabled, installed, ops, started, nested_level, mem_state_pushed, debug_info, deaf, python, memory>>

Ended == step = 5 /\ ~callback

\* Mutant: the flag is one for all threads.
MissingState(t) == \A u \in Threads : ~mem_state_pushed[u]

\* mem_state_pushed is thread-local: the first operator of the thread.
NeedsState(t) == ~mem_state_pushed[t]

-----------------------------------------------------------------------------
(* Operators *)

Top(t) == ops[t][Len(ops[t])]

\* Mutant: the cache is not cleared before it is filled.
get_states_kept(old, f) == IF old = NoFrames THEN f ELSE old

\* get_states: the cache is cleared and filled from the interpreter.
get_states(old, f) == f

\* The operators of a thread when it enters a reported one.
Passed(t) ==
  [i \in DOMAIN ops[t] |-> [ops[t][i] EXCEPT !.other = @ \/ ops[t][i].frames # frames[t]]]

\* The start of an operator.  PyTorch calls back for the scopes it was given, and
\* init_callback_data counts the level.  "other" (history): since the operator was
\* entered, a reported one was entered below it from another place in Python.
EnterOperator(t, s) ==
  /\ ~Ended /\ started < MaxOps /\ Len(ops[t]) < MaxDepth
  /\ started' = started + 1
  /\ LET seen == s \in installed
         first == seen /\ NeedsState(t)
     IN
     /\ ops' = [ops EXCEPT ![t] = Append(IF seen THEN Passed(t) ELSE @,
                  [seen |-> seen, level |-> nested_level[t], frames |-> frames[t], other |-> FALSE])]
     /\ debug_info' = [debug_info EXCEPT ![t] = IF first THEN start_memory_profiling(@) ELSE @]
     /\ mem_state_pushed' = [mem_state_pushed EXCEPT ![t] = @ \/ seen]
     /\ deaf' = IF seen /\ ~mem_state_pushed[t] /\ ~memory_profiling_enabled THEN deaf \cup {t} ELSE deaf
     /\ nested_level' = [nested_level EXCEPT ![t] = IF seen THEN @ + 1 ELSE @]
     /\ states' = [states EXCEPT ![t] = IF seen /\ tool = "view" THEN get_states(@, frames[t]) ELSE @]
  /\ UNCHANGED <<setup, frames, delayed, launched, kernel, memory>>

\* Mutant: the level is not counted down.
CountUp(n) == n

CountDown(n) == n - 1

\* The end of an operator: called back if its start was.
ExitOperator(t) ==
  /\ ops[t] # <<>>
  /\ ops' = [ops EXCEPT ![t] = SubSeq(@, 1, Len(@) - 1)]
  /\ nested_level' = [nested_level EXCEPT ![t] = IF Top(t).seen THEN CountDown(@) ELSE @]
  /\ UNCHANGED <<setup, started, mem_state_pushed, debug_info, deaf, python, memory>>

\* Python calls or returns, also below an operator that calls back into it.
PythonMoves(t, f) ==
  /\ frames[t] # f
  /\ frames' = [frames EXCEPT ![t] = f]
  /\ UNCHANGED <<setup, ops, started, nested_level, mem_state_pushed, debug_info, deaf, states, delayed, launched, kernel, memory>>

\* torch_monitor_python_state_get_cached: the stacks the caller may read.  Nothing
\* is written when the cache is empty: the caller keeps its number and pointers
\* into strings that were freed when the cache was cleared, so any text may be there.
torch_monitor_python_state_get_cached(t) ==
  CASE states[t] # NoFrames -> {states[t]}
    [] states[t] = NoFrames /\ delayed[t] = NoFrames -> {NoFrames}
    [] OTHER -> Frames \ {NoFrames}

\* A kernel that an operator launches (TorchView::kernel_op_callback).
LaunchKernel(t, f) ==
  /\ tool = "view" /\ ops[t] # <<>> /\ Top(t).seen
  /\ f \in torch_monitor_python_state_get_cached(t)
  /\ delayed' = [delayed EXCEPT ![t] = f]
  /\ launched' = IF f = NoFrames THEN launched ELSE launched \cup {t}
  /\ kernel' = [own |-> Top(t).frames, used |-> f, other |-> Top(t).other, before |-> t \in launched]
  /\ UNCHANGED <<setup, ops, started, nested_level, mem_state_pushed, debug_info, deaf, frames, states, memory>>

-----------------------------------------------------------------------------
(* Memory *)

\* c10 calls reportMemoryUsage of the state on top of the thread's stack.
Reported(t) == debug_info[t] > 0

reportMemoryUsage_alloc(t, b) ==
  /\ b \notin {x[1] : x \in live}
  /\ live' = live \cup {<<b, Reported(t)>>}
  /\ known' = IF Reported(t) THEN known \cup {b} ELSE known
  /\ UNCHANGED <<setup, ops, started, nested_level, mem_state_pushed, debug_info, deaf, python>>

\* Any thread may release a block.
reportMemoryUsage_free(t, b) ==
  /\ b \in {x[1] : x \in live}
  /\ live' = {x \in live : x[1] # b}
  /\ known' = IF Reported(t) THEN known \ {b} ELSE known
  /\ UNCHANGED <<setup, ops, started, nested_level, mem_state_pushed, debug_info, deaf, python>>

-----------------------------------------------------------------------------
Init ==
  /\ tool \in {"memory", "view"}
  /\ step = 0 /\ scopes = {} /\ callback = FALSE
  /\ memory_profiling_enabled = FALSE /\ installed = {}
  /\ ops = [t \in Threads |-> <<>>] /\ started = 0
  /\ nested_level = [t \in Threads |-> 0]
  /\ mem_state_pushed = [t \in Threads |-> FALSE]
  /\ debug_info = [t \in Threads |-> 0]
  /\ frames \in [Threads -> Frames]
  /\ states = [t \in Threads |-> NoFrames]
  /\ delayed = [t \in Threads |-> NoFrames]
  /\ live = {} /\ known = {} /\ deaf = {}
  /\ launched = {}
  /\ kernel = [own |-> NoFrames, used |-> NoFrames, other |-> FALSE, before |-> FALSE]

Next ==
  \/ EnableStep \/ torch_monitor_finalize
  \/ \E t \in Threads :
       \/ torch_monitor_thread_init(t)
       \/ torch_monitor_thread_finalize(t)
       \/ \E s \in Scopes : EnterOperator(t, s)
       \/ ExitOperator(t)
       \/ \E f \in Frames : PythonMoves(t, f)
       \/ \E f \in Frames \cup {NoFrames} : LaunchKernel(t, f)
       \/ \E b \in Blocks : reportMemoryUsage_alloc(t, b) \/ reportMemoryUsage_free(t, b)

Spec == Init /\ [][Next]_vars

-----------------------------------------------------------------------------
(* Properties *)

\* The level reported for an operator is the number of reported operators it is
\* in, on its own thread, also when the monitor was set up while operators ran
\* (the counter of init_callback_data, never below zero).
LevelsExact ==
  \A t \in Threads : \A i \in DOMAIN ops[t] :
    ops[t][i].seen => ops[t][i].level = Cardinality({j \in 1 .. i - 1 : ops[t][j].seen})

\* The tool knows every block that was allocated on a thread which had entered a
\* reported operator before, and a thread that has entered one is told of its
\* allocations, unless the domain was off then, or the thread gave up its state
\* (start_profiling pushes the state lazily, once per thread).
BlocksKnown ==
  /\ \A x \in live : x[2] => x[1] \in known
  /\ \A t \in Threads : mem_state_pushed[t] /\ t \notin deaf => Reported(t)

\* A kernel is attributed to the Python stack of the operator that launched it
\* (TorchView::kernel_op_callback), when it has one and no operator was entered
\* below it from elsewhere in Python; and one without a stack gets a stack only
\* on a thread that attributed a kernel before.
KernelFrames ==
  ~kernel.other =>
    IF kernel.own # NoFrames THEN kernel.used = kernel.own
                             ELSE kernel.used = NoFrames \/ kernel.before

\* What kernel_op_callback takes the cached state to be: "the launching op's stack
\* [...] -- the correct state for this kernel".  It fails for an operator without a
\* Python frame, and after one that was entered below it.
LaunchingStack == kernel.used = kernel.own

=============================================================================
