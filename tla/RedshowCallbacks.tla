-------------------------- MODULE RedshowCallbacks --------------------------
(***************************************************************************)
(* What each callback of TenProf locks and uses, in the order of the code. *)
(* py says whether the thread holds the interpreter's lock when it enters: *)
(* then acquiring it again has no effect.                                  *)
(***************************************************************************)
EXTENDS CallbackLocks

Within(l, body) == <<Acquire(l)>> \o body \o <<Release(l)>>

\* gil_scoped_acquire in PythonStateMonitor::get_states.
python_state_get(py) == IF py THEN <<>> ELSE Within("gil", <<>>)

InPython(py, body) == IF py THEN Within("gil", body) ELSE body

-----------------------------------------------------------------------------
(* The framework's callbacks *)

\* TorchView::update_view_forest, for one tensor.
update_view_forest == Within("view", <<Use("forest"), Use("domain_name")>>)

\* TorchView::delete_forest_tree.
delete_forest_tree == Within("view", <<Use("forest")>>)

\* The critical section at the entry of a function: the name is pushed, the
\* snapshot is cleared, and the inputs enter the forest.
EnterSection == <<Use("domain_name"), Use("forest")>> \o update_view_forest

\* Mutants: the interpreter's state is fetched inside the critical section; the
\* callback has a lock of its own.
ViewEnterFetchInside(py) ==
  InPython(py, Within("mtx", python_state_get(py) \o EnterSection))

ViewEnterOwnLock(py) == InPython(py, python_state_get(py) \o Within("liveness", EnterSection))

\* torch_view_callback on the entry of a function.
torch_view_callback_enter(py) ==
  InPython(py, python_state_get(py) \o Within("mtx", EnterSection))

\* torch_view_callback on the exit of a function: the outputs enter the forest,
\* the name is popped and the delayed accesses are mapped.
torch_view_callback_exit(py) ==
  InPython(py, Within("mtx", <<Use("domain_name")>> \o update_view_forest
                              \o <<Use("domain_name"), Use("forest")>>))

\* torch_view_callback on an allocation and on a release of memory.
torch_view_callback_alloc(py) == InPython(py, Within("mtx", <<Use("forest")>>))

torch_view_callback_free(py) ==
  InPython(py, Within("mtx", delete_forest_tree \o <<Use("forest")>>))

\* The liveness analysis' op_callback for sub-allocations.
sub_op_callback(py) == Within("liveness", python_state_get(py) \o <<Use("sizes")>>)

\* torch_memory_callback.
torch_memory_callback(py) ==
  InPython(py, Within("submemory", <<>>) \o sub_op_callback(py))

-----------------------------------------------------------------------------
(* The sanitizer's callbacks *)

\* redshow_torchview_ongpu_get_range_size and
\* redshow_torchview_assemble_patch_analysis_address before a launch.
launch_ranges(py) ==
  InPython(py, Within("entry", Within("mtx", <<Use("forest")>>)
                               \o Within("mtx", <<Use("forest")>>)))

KernelSection == <<Use("forest"), Use("domain_name")>>

\* Mutant: the kernel's end fetches the state of the interpreter afresh.
KernelEndFetch(py) ==
  InPython(py, Within("entry", python_state_get(py) \o Within("mtx", KernelSection)))

\* redshow_kernel_end with TorchView: the cached state, then the mutex.
kernel_end_view(py) == InPython(py, Within("entry", Within("mtx", KernelSection)))

\* redshow_kernel_end with MemoryLiveness and sub-allocations.
kernel_end_liveness(py) == InPython(py, Within("entry", sub_op_callback(py)))

\* redshow_memory_register and redshow_memory_unregister, with MemoryLiveness.
memory_register(py) ==
  InPython(py, Within("entry", Within("snapshot", <<>>)
                               \o Within("liveness", <<Use("sizes")>>)))

\* redshow_memcpy_register with TorchView: one query for each end, then the
\* callback, whose lists of views are always empty.
memcpy_register(py) ==
  InPython(py, Within("entry", Within("snapshot", <<>>) \o Within("snapshot", <<>>)
                               \o Within("mtx", <<>>)))

\* redshow_analyze with TorchView, for a cubin that is not analysed yet:
\* trace_analyze, then analysis_begin.
analyze_view ==
  Within("cubin", <<>>) \o Within("cubin_cache", <<>>) \o Within("cubin", <<>>)
  \o Within("cubin", <<>>) \o Within("snapshot", <<>>)
  \o Within("view", <<Use("domain_name")>>)

-----------------------------------------------------------------------------
(* The programs of the two analyses that follow the framework *)

ViewPrograms ==
  [enter      |-> torch_view_callback_enter(FALSE),
   enter_py   |-> torch_view_callback_enter(TRUE),
   exit_py    |-> torch_view_callback_exit(TRUE),
   alloc      |-> torch_view_callback_alloc(FALSE),
   free_py    |-> torch_view_callback_free(TRUE),
   launch_py  |-> launch_ranges(TRUE),
   kernel     |-> kernel_end_view(FALSE),
   kernel_py  |-> kernel_end_view(TRUE),
   memcpy     |-> memcpy_register(FALSE),
   analyze    |-> analyze_view]

LivenessPrograms ==
  [submemory    |-> torch_memory_callback(FALSE),
   submemory_py |-> torch_memory_callback(TRUE),
   kernel       |-> kernel_end_liveness(FALSE),
   kernel_py    |-> kernel_end_liveness(TRUE),
   register     |-> memory_register(FALSE),
   register_py  |-> memory_register(TRUE)]
=============================================================================
