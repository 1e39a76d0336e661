------------------------ MODULE TraceAnalysisProofs ------------------------
(***************************************************************************)
(* The registry of modules under any number of analysis threads: a trace   *)
(* is refused only for a reason.  And the temporal redundancy of a kernel: *)
(* its pairs count exactly the accesses that found the value of the access *)
(* before.  And the reports: the largest views of what was counted, each   *)
(* with the largest entries behind it, under the function of its           *)
(* instruction.                                                            *)
(***************************************************************************)
EXTENDS TraceAnalysis, FiniteSetTheorems, TLAPS

Places == {"idle", "lookup", "cache", "register", "again", "begin", "records", "return", "done"}
Results == {"NONE", "SUCCESS", "NOT_EXIST", "DUPLICATE", "FAILED"}

Types ==
  /\ step \in [Threads -> Places]
  /\ job \in [Threads -> Kernels]
  /\ result \in [Threads -> Results]
  /\ known \in [Threads -> BOOLEAN]

\* The module of the trace of thread t is in a table.
Cached(t)  == ModuleOf[job[t]] \in cubin_cache_map
Present(t) == Registered(Cubin(t), Mod(t))

\* What a thread can rely on at each place of trace_analyze, if the module was
\* known when the call began and was not unloaded since.
Relies(t) ==
  /\ step[t] = "lookup" /\ known[t] => Cached(t) \/ Present(t)
  /\ step[t] \in {"cache", "register"} /\ known[t] => Cached(t)
  /\ step[t] = "again" /\ known[t] => Present(t)
  /\ result[t] # "NONE" => step[t] = "return"
  /\ result[t] = "NOT_EXIST" => ~known[t]
  /\ result[t] = "DUPLICATE" /\ known[t] => Present(t)

RInv == Types /\ \A t \in Threads : Relies(t)

-----------------------------------------------------------------------------
\* A module is a pair of a cubin and a mod.
LEMMA ModulesArePairs ==
  ASSUME NEW k \in Kernels
  PROVE  ModuleOf[k] = <<ModuleOf[k][1], ModuleOf[k][2]>>
BY TraceAssumption

\* Registration adds modules and removes none; when it succeeds the module is there.
LEMMA RegisterKeeps ==
  ASSUME NEW c, NEW m, redshow_cubin_register(c, m)
  PROVE  /\ \A d, n : Registered(d, n) => Registered(d, n)'
         /\ RegisterResult(c, m) = "SUCCESS" => Registered(c, m)'
<1>1. CASE RegisterResult(c, m) # "SUCCESS"
  BY <1>1 DEF redshow_cubin_register, Registered
<1>2. CASE RegisterResult(c, m) = "SUCCESS"
  <2> DEFINE old == IF c \in DOMAIN cubin_map THEN cubin_map[c] ELSE <<>>
             new == Extended(old, m, Symbols(c, m))
  <2>1. cubin_map' = Extended(cubin_map, c, new)
    BY <1>2 DEF redshow_cubin_register
  <2>2. /\ DOMAIN cubin_map' = DOMAIN cubin_map \cup {c}
        /\ cubin_map'[c] = new
        /\ \A d \in DOMAIN cubin_map : d # c => cubin_map'[d] = cubin_map[d]
    BY <2>1 DEF Extended
  <2>3. DOMAIN new = DOMAIN old \cup {m}
    BY DEF Extended
  <2>4. Registered(c, m)'
    BY <2>2, <2>3 DEF Registered
  <2>5. ASSUME NEW d, NEW n, Registered(d, n) PROVE Registered(d, n)'
    BY <2>2, <2>3, <2>5 DEF Registered
  <2> QED
    BY <2>4, <2>5
<1> QED
  BY <1>1, <1>2

\* Unregistration removes one module only.
LEMMA UnregisterKeeps ==
  ASSUME NEW c, NEW m, redshow_cubin_unregister(c, m)
  PROVE  \A d, n : Registered(d, n) /\ <<d, n>> # <<c, m>> => Registered(d, n)'
<1> SUFFICES ASSUME NEW d, NEW n, Registered(d, n), <<d, n>> # <<c, m>> PROVE Registered(d, n)'
  OBVIOUS
<1> DEFINE left == DOMAIN cubin_map[c] \ {m}
<1>1. CASE left = {}
  <2>1. cubin_map' = [x \in DOMAIN cubin_map \ {c} |-> cubin_map[x]]
    BY <1>1 DEF redshow_cubin_unregister
  <2>2. d # c
    BY <1>1 DEF Registered
  <2> QED
    BY <2>1, <2>2 DEF Registered
<1>2. CASE left # {}
  <2>1. /\ DOMAIN cubin_map' = DOMAIN cubin_map
        /\ DOMAIN cubin_map'[c] = left
        /\ \A x \in DOMAIN cubin_map : x # c => cubin_map'[x] = cubin_map[x]
    BY <1>2 DEF redshow_cubin_unregister
  <2> QED
    BY <2>1 DEF Registered
<1> QED
  BY <1>1, <1>2

\* What a thread relies on survives a step that leaves the thread alone and takes
\* no module it may rely on from a table.
LEMMA Undisturbed ==
  ASSUME NEW t \in Threads, Relies(t),
         step'[t] = step[t], job'[t] = job[t], result'[t] = result[t],
         known'[t] => known[t] /\ (Cached(t) => Cached(t)') /\ (Present(t) => Present(t)')
  PROVE  Relies(t)'
BY DEF Relies

-----------------------------------------------------------------------------
\* What the threads rely on holds, whatever the others do.
LEMMA ThreadsRely == Spec => []RInv
<1>1. Init => RInv
  <2> SUFFICES ASSUME Init PROVE RInv
    OBVIOUS
  <2>1. (CHOOSE k \in Kernels : TRUE) \in Kernels
    BY TraceAssumption
  <2>2. Types
    BY <2>1 DEF Init, Types, Places, Results
  <2> QED
    BY <2>2 DEF Init, RInv, Relies
<1>2. RInv /\ [Next]_vars => RInv'
  <2> SUFFICES ASSUME RInv, [Next]_vars PROVE RInv'
    OBVIOUS
  <2> USE DEF Go, Fail
  <2>0. Types /\ \A t \in Threads : Relies(t)
    BY DEF RInv
  <2>q. ASSUME NEW t \in Threads, Types', Relies(t)',
               \A u \in Threads : u # t => step'[u] = step[u] /\ job'[u] = job[u] /\ result'[u] = result[u] /\ known'[u] = known[u],
               cubin_cache_map \subseteq cubin_cache_map',
               \A d, n : Registered(d, n) => Registered(d, n)'
        PROVE  RInv'
    <3> SUFFICES ASSUME NEW u \in Threads, u # t PROVE Relies(u)'
      BY <2>q DEF RInv
    <3>1. (Cached(u) => Cached(u)') /\ (Present(u) => Present(u)')
      BY <2>q DEF Cached, Present, Cubin, Mod
    <3> QED
      BY <2>0, <2>q, <3>1, Undisturbed
  <2>1. ASSUME NEW t \in Threads, NEW k \in Kernels, Call(t, k) PROVE RInv'
    <3>1. Types' /\ job'[t] = k /\ step'[t] = "lookup" /\ result'[t] = result[t]
      BY <2>0, <2>1 DEF Call, Types, Places
    <3>2. known'[t] = (ModuleOf[k] \in cubin_cache_map \/ Registered(ModuleOf[k][1], ModuleOf[k][2]))
      BY <2>0, <2>1 DEF Call, Types
    <3>3. result[t] = "NONE"
      BY <2>0, <2>1 DEF Relies, Call
    <3>4. UNCHANGED registry
      BY <2>1 DEF Call
    <3>5. Relies(t)'
      BY <3>1, <3>2, <3>3, <3>4 DEF Relies, Cached, Present, Cubin, Mod, Registered, registry
    <3> QED
      BY <2>0, <2>1, <2>q, <3>1, <3>4, <3>5 DEF Call, Types, registry, Registered
  <2>2. ASSUME NEW t \in Threads, Lookup(t) PROVE RInv'
    <3>1. Types' /\ UNCHANGED <<cubin_map, cubin_cache_map, job, result, known>>
      BY <2>0, <2>2 DEF Lookup, Types, Places, registry
    <3>2. Relies(t)'
      BY <2>0, <2>2, <3>1 DEF Lookup, Types, Relies, Cached, Present, Cubin, Mod, Registered
    <3> QED
      BY <2>0, <2>2, <2>q, <3>1, <3>2 DEF Lookup, Types, Registered
  <2>3. ASSUME NEW t \in Threads, LookupCache(t) PROVE RInv'
    <3>1. Types' /\ UNCHANGED <<cubin_map, cubin_cache_map, job, known>>
      BY <2>0, <2>3 DEF LookupCache, Types, Places, Results, registry
    <3>2. ModuleOf[job[t]] = <<Cubin(t), Mod(t)>>
      BY <2>0, ModulesArePairs DEF Types, Cubin, Mod
    <3>3. Relies(t)'
      BY <2>0, <2>3, <3>1, <3>2 DEF LookupCache, Types, Relies, Cached, Present, Cubin, Mod, Registered
    <3> QED
      BY <2>0, <2>3, <2>q, <3>1, <3>3 DEF LookupCache, Types, Registered
  <2>4. ASSUME NEW t \in Threads, Register(t) PROVE RInv'
    <3>0. RegisterResult(Cubin(t), Mod(t)) \in Results
      BY DEF RegisterResult, Results
    <3>1. Types' /\ UNCHANGED <<cubin_cache_map, job, known>>
      <4>1. UNCHANGED <<cubin_cache_map, job, known>>
        BY <2>4 DEF Register
      <4>2. CASE Go(t, "again") /\ UNCHANGED result
        BY <2>0, <4>1, <4>2 DEF Types, Places
      <4>3. CASE Fail(t, RegisterResult(Cubin(t), Mod(t)))
        BY <2>0, <3>0, <4>1, <4>3 DEF Types, Places
      <4> QED
        BY <2>4, <4>1, <4>2, <4>3 DEF Register
    <3>a. PICK c, m : c = Cubin(t) /\ m = Mod(t)
      OBVIOUS
    <3>b. c = Cubin(t)' /\ m = Mod(t)'
      BY <3>1, <3>a DEF Cubin, Mod
    <3>2. /\ \A d, n : Registered(d, n) => Registered(d, n)'
          /\ RegisterResult(c, m) = "SUCCESS" => Registered(c, m)'
      <4>1. redshow_cubin_register(c, m)
        BY <2>4, <3>a DEF Register
      <4> QED
        BY <4>1, RegisterKeeps
    <3>3. RegisterResult(Cubin(t), Mod(t)) = "DUPLICATE" => Present(t)
      BY DEF RegisterResult, Duplicate, Present
    <3>4. RegisterResult(Cubin(t), Mod(t)) # "NOT_EXIST"
      BY DEF RegisterResult
    <3>5. Present(t) => Present(t)'
      BY <3>a, <3>b, <3>2 DEF Present
    <3>6. RegisterResult(Cubin(t), Mod(t)) = "SUCCESS" => Present(t)'
      BY <3>a, <3>b, <3>2 DEF Present
    <3>7. Relies(t)'
      BY <2>0, <2>4, <3>1, <3>3, <3>4, <3>5, <3>6 DEF Register, Types, Relies
    <3> QED
      BY <2>0, <2>4, <2>q, <3>1, <3>2, <3>7 DEF Register, Types
  <2>5. ASSUME NEW t \in Threads, LookupAgain(t) PROVE RInv'
    <3>1. Types' /\ UNCHANGED <<cubin_map, cubin_cache_map, job, known>>
      BY <2>0, <2>5 DEF LookupAgain, Types, Places, Results, registry
    <3>2. Relies(t)'
      BY <2>0, <2>5, <3>1 DEF LookupAgain, Types, Relies, Cached, Present, Cubin, Mod, Registered
    <3> QED
      BY <2>0, <2>5, <2>q, <3>1, <3>2 DEF LookupAgain, Types, Registered
  <2>6. ASSUME NEW t \in Threads, AnalysisBegin(t) PROVE RInv'
    <3>1. Types' /\ UNCHANGED <<cubin_map, cubin_cache_map, job, result, known>>
      BY <2>0, <2>6 DEF AnalysisBegin, Types, Places, registry
    <3>2. Relies(t)'
      BY <2>0, <2>6, <3>1 DEF AnalysisBegin, Types, Relies, Cached, Present, Cubin, Mod, Registered
    <3> QED
      BY <2>0, <2>6, <2>q, <3>1, <3>2 DEF AnalysisBegin, Types, Registered
  <2>7. ASSUME NEW t \in Threads, NEW r \in Records, Record(t, r) PROVE RInv'
    <3>1. /\ UNCHANGED <<cubin_map, cubin_cache_map, job, known>>
          /\ step[t] = "records"
          /\ UNCHANGED <<step, result>> \/ Fail(t, "FAILED")
      BY <2>7 DEF Record, registry
    <3>2. Types'
      BY <2>0, <3>1 DEF Types, Places, Results
    <3>3. Relies(t)'
      BY <2>0, <3>1 DEF Types, Relies, Cached, Present, Cubin, Mod, Registered
    <3> QED
      BY <2>0, <2>q, <3>1, <3>2, <3>3 DEF Types, Registered
  <2>8. ASSUME NEW t \in Threads, AnalysisEnd(t) \/ Return(t) \/ FlushThread(t) PROVE RInv'
    <3>1. Types' /\ UNCHANGED <<cubin_map, cubin_cache_map, job, known>>
      BY <2>0, <2>8 DEF AnalysisEnd, Return, FlushThread, Types, Places, Results, registry
    <3>2. Relies(t)'
      BY <2>0, <2>8, <3>1 DEF AnalysisEnd, Return, FlushThread, Types, Relies, Cached, Present, Cubin, Mod, Registered
    <3> QED
      BY <2>0, <2>8, <2>q, <3>1, <3>2 DEF AnalysisEnd, Return, FlushThread, Types, Registered
  <2>9. ASSUME NEW x \in {ModuleOf[k] : k \in Kernels}, LoadModule(x[1], x[2]) PROVE RInv'
    <3>1. UNCHANGED <<step, job, result, known>>
      BY <2>9 DEF LoadModule, state
    <3>2. cubin_cache_map \subseteq cubin_cache_map'
      BY <2>9 DEF LoadModule, redshow_cubin_cache_register
    <3>3. \A d, n : Registered(d, n) => Registered(d, n)'
      <4>1. CASE UNCHANGED cubin_map
        BY <4>1 DEF Registered
      <4>2. CASE redshow_cubin_register(x[1], x[2])
        BY <4>2, RegisterKeeps
      <4> QED
        BY <2>9, <4>1, <4>2 DEF LoadModule
    <3>4. ASSUME NEW t \in Threads PROVE Relies(t)'
      <4>1. (Cached(t) => Cached(t)') /\ (Present(t) => Present(t)')
        BY <3>1, <3>2, <3>3 DEF Cached, Present, Cubin, Mod
      <4> QED
        BY <2>0, <3>1, <4>1, Undisturbed
    <3> QED
      BY <2>0, <3>1, <3>4 DEF RInv, Types
  <2>10. ASSUME NEW x \in {ModuleOf[k] : k \in Kernels}, UnloadModule(x[1], x[2]) PROVE RInv'
    <3>1. UNCHANGED <<cubin_cache_map, step, job, result>>
      BY <2>10 DEF UnloadModule
    <3>2. known' = [t \in Threads |-> known[t] /\ ModuleOf[job[t]] # <<x[1], x[2]>>]
      BY <2>10 DEF UnloadModule
    <3>3. \A d, n : Registered(d, n) /\ <<d, n>> # <<x[1], x[2]>> => Registered(d, n)'
      BY <2>10, UnregisterKeeps DEF UnloadModule
    <3>4. ASSUME NEW t \in Threads PROVE Relies(t)'
      <4>1. ModuleOf[job[t]] = <<Cubin(t), Mod(t)>>
        BY <2>0, ModulesArePairs DEF Types, Cubin, Mod
      <4>2. known'[t] => known[t] /\ (Present(t) => Present(t)')
        BY <3>1, <3>2, <3>3, <4>1 DEF Present, Cubin, Mod
      <4>3. Cached(t) => Cached(t)'
        BY <3>1 DEF Cached
      <4> QED
        BY <2>0, <3>1, <4>2, <4>3, Undisturbed
    <3>5. Types'
      BY <2>0, <3>1, <3>2 DEF Types
    <3> QED
      BY <3>4, <3>5 DEF RInv
  <2>11. CASE UNCHANGED vars
    BY <2>0, <2>11 DEF RInv, vars, registry, state, Types, Relies, Cached, Present, Cubin, Mod, Registered
  <2> QED
    BY <2>1, <2>2, <2>3, <2>4, <2>5, <2>6, <2>7, <2>8, <2>9, <2>10, <2>11 DEF Next
<1> QED
  BY <1>1, <1>2, PTL DEF Spec

\* A trace is refused as unknown only if its module was unknown at the call or
\* was unloaded since, and as a duplicate only if it is there: for any number of
\* threads that race to register the modules they miss, and any modules
\* (trace_analyze, redshow_cubin_register).
THEOREM RefusalsAreJustified == Spec => []RefusalsJustified
<1>1. RInv => RefusalsJustified
  BY DEF RInv, Types, Relies, Present, RefusalsJustified
<1> QED
  BY <1>1, ThreadsRely, PTL

-----------------------------------------------------------------------------
(* Counting *)

\* How often a function has each of its values.
CountOf(h) == [v \in {h[x] : x \in DOMAIN h} |-> Cardinality({x \in DOMAIN h : h[x] = v})]

\* A part of a function.
Part(h, A) == [x \in A |-> h[x]]

\* The counts of the parts of a function on a finite set add up.
LEMMA CountUnion ==
  ASSUME NEW h, NEW A, NEW B, DOMAIN h = A \cup B, A \cap B = {}, IsFiniteSet(A), IsFiniteSet(B)
  PROVE  CountOf(h) = CountOf(Part(h, A)) (+) CountOf(Part(h, B))
<1> DEFINE At(S, v) == {x \in S : h[x] = v}
<1>1. ASSUME NEW S, S = A \/ S = B
      PROVE  /\ DOMAIN CountOf(Part(h, S)) = {h[x] : x \in S}
             /\ \A v \in {h[x] : x \in S} : CountOf(Part(h, S))[v] = Cardinality(At(S, v))
  <2>1. DOMAIN Part(h, S) = S /\ \A x \in S : Part(h, S)[x] = h[x]
    BY DEF Part
  <2>2. {Part(h, S)[x] : x \in S} = {h[x] : x \in S}
    BY <2>1
  <2>3. \A v : {x \in S : Part(h, S)[x] = v} = At(S, v)
    BY <2>1
  <2> QED
    BY <2>1, <2>2, <2>3 DEF CountOf
<1>2. ASSUME NEW v PROVE /\ IsFiniteSet(At(A, v)) /\ IsFiniteSet(At(B, v))
                         /\ Cardinality(At(A, v)) \in Nat /\ Cardinality(At(B, v)) \in Nat
                         /\ Cardinality(At(A \cup B, v)) = Cardinality(At(A, v)) + Cardinality(At(B, v))
  <2>1. IsFiniteSet(At(A, v)) /\ IsFiniteSet(At(B, v))
    BY FS_Subset
  <2>2. At(A \cup B, v) = At(A, v) \cup At(B, v) /\ At(A, v) \cap At(B, v) = {}
    OBVIOUS
  <2>3. Cardinality(At(A, v)) \in Nat /\ Cardinality(At(B, v)) \in Nat
    BY <2>1, FS_CardinalityType
  <2>4. Cardinality(At(A, v) \cup At(B, v)) = Cardinality(At(A, v)) + Cardinality(At(B, v)) - Cardinality({})
    <3> HIDE DEF At
    <3> QED
      BY <2>1, <2>2, FS_Union
  <2>5. Cardinality({}) = 0
    BY FS_EmptySet
  <2>6. Cardinality(At(A \cup B, v)) = Cardinality(At(A, v) \cup At(B, v))
    BY <2>2, Zenon
  <2> HIDE DEF At
  <2>7. Cardinality(At(A, v) \cup At(B, v)) = Cardinality(At(A, v)) + Cardinality(At(B, v))
    BY <2>3, <2>4, <2>5
  <2> QED
    BY <2>1, <2>3, <2>6, <2>7, Zenon
<1>3. \A v : v \notin {h[x] : x \in A} => At(A, v) = {} /\ Cardinality(At(A, v)) = 0
  BY FS_EmptySet
<1>4. \A v : v \notin {h[x] : x \in B} => At(B, v) = {} /\ Cardinality(At(B, v)) = 0
  BY FS_EmptySet
<1>5. CountOf(h) = [v \in {h[x] : x \in A \cup B} |-> Cardinality(At(A \cup B, v))]
  BY DEF CountOf
<1>6. PICK VA, VB : VA = {h[x] : x \in A} /\ VB = {h[x] : x \in B}
  OBVIOUS
<1>7. {h[x] : x \in A \cup B} = VA \cup VB
  BY <1>6
<1>8. PICK CA, CB : CA = CountOf(Part(h, A)) /\ CB = CountOf(Part(h, B))
  OBVIOUS
<1>9. /\ DOMAIN CA = VA /\ \A v \in VA : CA[v] = Cardinality(At(A, v))
      /\ DOMAIN CB = VB /\ \A v \in VB : CB[v] = Cardinality(At(B, v))
  BY <1>1, <1>6, <1>8
<1> HIDE DEF At
<1>10. ASSUME NEW v \in VA \cup VB
       PROVE  Cardinality(At(A \cup B, v)) =
                (IF v \in VA THEN CA[v] ELSE 0) + (IF v \in VB THEN CB[v] ELSE 0)
  <2>1. (IF v \in VA THEN CA[v] ELSE 0) = Cardinality(At(A, v))
    BY <1>3, <1>6, <1>9
  <2>2. (IF v \in VB THEN CB[v] ELSE 0) = Cardinality(At(B, v))
    BY <1>4, <1>6, <1>9
  <2> QED
    BY <1>2, <2>1, <2>2
<1>11. CA (+) CB = [v \in VA \cup VB |-> (IF v \in VA THEN CA[v] ELSE 0) + (IF v \in VB THEN CB[v] ELSE 0)]
  BY <1>9, Zenon DEF (+)
<1> QED
  BY <1>5, <1>7, <1>8, <1>10, <1>11

\* A function counts as another one that has its values at the places of a bijection.
LEMMA CountSame ==
  ASSUME NEW g, NEW h, NEW b \in [DOMAIN g -> DOMAIN h], IsFiniteSet(DOMAIN g),
         \A x, y \in DOMAIN g : b[x] = b[y] => x = y,
         \A y \in DOMAIN h : \E x \in DOMAIN g : b[x] = y,
         \A x \in DOMAIN g : g[x] = h[b[x]]
  PROVE  CountOf(g) = CountOf(h)
<1>1. PICK S, T : S = DOMAIN g /\ T = DOMAIN h
  OBVIOUS
<1>2. /\ b \in [S -> T] /\ \A x, y \in S : b[x] = b[y] => x = y
      /\ \A y \in T : \E x \in S : b[x] = y
  BY <1>1
<1>3. {g[x] : x \in S} = {h[y] : y \in T}
  BY <1>1, <1>2
<1>4. ASSUME NEW v PROVE Cardinality({x \in S : g[x] = v}) = Cardinality({y \in T : h[y] = v})
  <2>1. PICK U, V : U = {x \in S : g[x] = v} /\ V = {y \in T : h[y] = v}
    OBVIOUS
  <2>2. PICK c : c = [x \in U |-> b[x]]
    OBVIOUS
  <2>3. c \in [U -> V]
    BY <1>1, <1>2, <2>1, <2>2
  <2>4. \A x, y \in U : c[x] = c[y] => x = y
    BY <1>2, <2>1, <2>2
  <2>5. \A y \in V : \E x \in U : c[x] = y
    BY <1>1, <1>2, <2>1, <2>2
  <2>6. c \in Bijection(U, V)
    BY <2>3, <2>4, <2>5 DEF Bijection, Injection, IsInjective, Surjection
  <2>7. ExistsBijection(U, V)
    BY <2>6 DEF ExistsBijection
  <2>8. IsFiniteSet(U)
    BY <1>1, <2>1, FS_Subset
  <2> QED
    BY <2>1, <2>7, <2>8, FS_Bijection
<1> QED
  BY <1>1, <1>3, <1>4 DEF CountOf

-----------------------------------------------------------------------------
\* A record as the loop finds it.
Found(r, size) == IF "EXIT" \in r.flags THEN [r EXCEPT !.size = size] ELSE r

\* What a record with a size does to the trace and the log of kernel k.
Turn(t, r, size, k) ==
  LET found == Found(r, size)
      logged == [log EXCEPT ![t][k] = Append(@, found)]
  IN
    \/ /\ size = 0
       /\ log' = IF "EXIT" \in r.flags THEN logged ELSE log
       /\ UNCHANGED <<kernel_trace, step, result>>
    \/ /\ Ends(found)
       /\ kernel_trace' = [kernel_trace EXCEPT ![t][k] = BlockExit(@, r)]
       /\ log' = logged
       /\ UNCHANGED <<step, result>>
    \/ /\ size # 0 /\ "EXIT" \notin r.flags /\ transform_pc(symbols[t], r.pc) # {}
       /\ kernel_trace' = [kernel_trace EXCEPT ![t][k] = UnitAccesses(@, r)]
       /\ log' = logged
       /\ UNCHANGED <<step, result>>
    \/ /\ size # 0 /\ "EXIT" \notin r.flags /\ transform_pc(symbols[t], r.pc) = {}
       /\ Fail(t, "FAILED")
       /\ UNCHANGED <<kernel_trace, log>>

\* A record makes one turn of the loop, and its exit ends a block if it has a size.
LEMMA RecordTurns ==
  ASSUME NEW t \in Threads, NEW r \in Records, Record(t, r)
  PROVE  \E size \in IF "EXIT" \in r.flags THEN StaleSizes ELSE {r.size} :
           /\ Turn(t, r, size, job[t])
           /\ Ends(Found(r, size)) <=> "EXIT" \in r.flags /\ size # 0
<1>1. PICK size \in IF "EXIT" \in r.flags THEN StaleSizes ELSE {r.size} : Turn(t, r, size, job[t])
  BY Zenon DEF Record, Turn, Found
<1>2. "flags" \in DOMAIN r /\ "size" \in DOMAIN r
  BY TraceAssumption
<1>3. [r EXCEPT !.size = size].flags = r.flags /\ [r EXCEPT !.size = size].size = size
  BY <1>2
<1>4. Ends(Found(r, size)) <=> "EXIT" \in r.flags /\ size # 0
  BY <1>3 DEF Ends, Found
<1> QED
  BY <1>1, <1>4

-----------------------------------------------------------------------------
(* The accesses of a record *)

\* Records as a log has them, exits with the size found in their slot
Loggable == Records \cup {[r EXCEPT !.size = s] : r \in Records, s \in StaleSizes}

\* The accesses that a record adds to a log at place n.
Touched(r, n) == {<<n, <<u[1], u[2]>>, u[4]>> : u \in Units(r)}

\* A record counts for a kind of access.
Counts(r, kind) == kind \in r.flags /\ "EXIT" \notin r.flags

\* The unit of a lane, without its memory.
Unit(r, lane, i) == <<ThreadOf(r, lane), r.address[lane] + i - 1, r.value[lane][i]>>

\* A unit is of a lane and a place in its value.
LEMMA UnitOfLane ==
  ASSUME NEW r, NEW u \in Units(r)
  PROVE  \E lane \in r.active, i \in 1 .. r.size :
           u[1] = Unit(r, lane, i)[1] /\ u[2] = Unit(r, lane, i)[2] /\ u[4] = Unit(r, lane, i)[3]
<1>1. PICK lane \in r.active : \E i \in 1 .. r.size, mem \in MemoryOf(r, r.address[lane]) :
        u = <<ThreadOf(r, lane), r.address[lane] + i - 1, mem, r.value[lane][i]>>
  BY DEF Units
<1>a. PICK i \in 1 .. r.size, mem \in MemoryOf(r, r.address[lane]) :
        u = <<ThreadOf(r, lane), r.address[lane] + i - 1, mem, r.value[lane][i]>>
  BY <1>1
<1>2. u[1] = ThreadOf(r, lane) /\ u[2] = r.address[lane] + i - 1 /\ u[4] = r.value[lane][i]
  BY <1>a
<1>3. /\ Unit(r, lane, i)[1] = ThreadOf(r, lane) /\ Unit(r, lane, i)[2] = r.address[lane] + i - 1
      /\ Unit(r, lane, i)[3] = r.value[lane][i]
  BY DEF Unit
<1> QED
  BY <1>2, <1>3

\* What TraceAssumption says of a record.
LEMMA RecordIs ==
  ASSUME NEW r \in Loggable
  PROVE  /\ r.active \subseteq 0 .. Warp - 1 /\ Warp \in Nat
         /\ r.thread \in Nat /\ r.size \in Nat /\ r.address \in [r.active -> Nat]
         /\ \A lane \in r.active : lane \in Nat /\ r.address[lane] \in Nat
<1>1. CASE r \in Records
  BY <1>1, TraceAssumption
<1>2. CASE r \notin Records
  <2>1. PICK o \in Records, s \in StaleSizes : r = [o EXCEPT !.size = s]
    BY <1>2 DEF Loggable
  <2>2. /\ {"flags", "pc", "thread", "active", "size", "address", "value"} = DOMAIN o
        /\ s \in Nat /\ o.active \subseteq 0 .. Warp - 1 /\ o.thread \in Nat /\ o.address \in [o.active -> Nat]
        /\ Warp \in Nat
    BY TraceAssumption
  <2>3. r.active = o.active /\ r.thread = o.thread /\ r.address = o.address /\ r.size = s
    BY <2>1, <2>2
  <2> QED
    BY <2>2, <2>3
<1> QED
  BY <1>1, <1>2

\* A GPU thread and an address have one value in a record.
LEMMA UnitsDiffer ==
  ASSUME NEW r \in Loggable, NEW u \in Units(r), NEW v \in Units(r), u[1] = v[1], u[2] = v[2]
  PROVE  u[4] = v[4]
<1>1. PICK a \in r.active, i \in 1 .. r.size :
        u[1] = Unit(r, a, i)[1] /\ u[2] = Unit(r, a, i)[2] /\ u[4] = Unit(r, a, i)[3]
  BY UnitOfLane
<1>2. PICK b \in r.active, j \in 1 .. r.size :
        v[1] = Unit(r, b, j)[1] /\ v[2] = Unit(r, b, j)[2] /\ v[4] = Unit(r, b, j)[3]
  BY UnitOfLane
<1>3. PICK base : base = (r.thread \div Warp) * Warp
  OBVIOUS
<1>4. base \in Int
  <2>1. Warp \in Nat \ {0} /\ r.thread \in Nat
    BY TraceAssumption, RecordIs
  <2> QED
    BY <1>3, <2>1
<1>5. base + a = base + b
  BY <1>1, <1>2, <1>3 DEF Unit, ThreadOf
<1>6. a = b
  BY <1>4, <1>5, RecordIs
<1>7. r.address[a] + i - 1 = r.address[a] + j - 1
  BY <1>1, <1>2, <1>6 DEF Unit
<1>8. i = j
  <2>1. r.address[a] \in Nat /\ r.size \in Nat
    BY RecordIs
  <2> QED
    BY <1>7, <2>1
<1> QED
  BY <1>1, <1>2, <1>6, <1>8

\* A record has finitely many accesses, at its place, one for a GPU thread and address.
LEMMA TouchedIs ==
  ASSUME NEW r \in Loggable, NEW n
  PROVE  /\ IsFiniteSet(Touched(r, n))
         /\ \A x \in Touched(r, n) : x[1] = n /\ x = <<x[1], x[2], x[3]>>
         /\ \A x, y \in Touched(r, n) : x[2] = y[2] => x = y
<1>1. PICK P : P = r.active \X (1 .. r.size)
  OBVIOUS
<1>2. IsFiniteSet(P)
  <2>1. r.active \subseteq 0 .. Warp - 1 /\ Warp \in Nat /\ r.size \in Nat
    BY RecordIs
  <2>2. IsFiniteSet(0 .. Warp - 1) /\ IsFiniteSet(1 .. r.size)
    BY <2>1, FS_Interval
  <2>3. IsFiniteSet(r.active)
    BY <2>1, <2>2, FS_Subset
  <2> QED
    BY <1>1, <2>2, <2>3, FS_Product
<1>3. PICK f : f = [p \in P |-> <<n, <<Unit(r, p[1], p[2])[1], Unit(r, p[1], p[2])[2]>>, Unit(r, p[1], p[2])[3]>>]
  OBVIOUS
<1>4. PICK Q : Q = {f[p] : p \in P}
  OBVIOUS
<1>5. f \in Surjection(P, Q)
  BY <1>3, <1>4 DEF Surjection
<1>6. IsFiniteSet(Q)
  BY <1>2, <1>5, FS_Surjection
<1>7. Touched(r, n) \subseteq Q
  <2> SUFFICES ASSUME NEW u \in Units(r) PROVE <<n, <<u[1], u[2]>>, u[4]>> \in Q
    BY DEF Touched
  <2>1. PICK lane \in r.active, i \in 1 .. r.size :
          u[1] = Unit(r, lane, i)[1] /\ u[2] = Unit(r, lane, i)[2] /\ u[4] = Unit(r, lane, i)[3]
    BY UnitOfLane
  <2>2. PICK p : p = <<lane, i>>
    OBVIOUS
  <2>3. p \in P /\ p[1] = lane /\ p[2] = i
    BY <1>1, <2>2
  <2>4. f[p] = <<n, <<u[1], u[2]>>, u[4]>>
    BY <1>3, <2>1, <2>3
  <2> QED
    BY <1>4, <2>3, <2>4
<1>8. IsFiniteSet(Touched(r, n))
  BY <1>6, <1>7, FS_Subset
<1>9. ASSUME NEW x \in Touched(r, n)
      PROVE  \E u \in Units(r) : x[1] = n /\ x[2] = <<u[1], u[2]>> /\ x[3] = u[4] /\ x = <<x[1], x[2], x[3]>>
  BY DEF Touched
<1>10. ASSUME NEW x \in Touched(r, n), NEW y \in Touched(r, n), x[2] = y[2] PROVE x = y
  <2>1. PICK u \in Units(r) : x[1] = n /\ x[2] = <<u[1], u[2]>> /\ x[3] = u[4] /\ x = <<x[1], x[2], x[3]>>
    BY <1>9
  <2>2. PICK v \in Units(r) : y[1] = n /\ y[2] = <<v[1], v[2]>> /\ y[3] = v[4] /\ y = <<y[1], y[2], y[3]>>
    BY <1>9
  <2>3. u[1] = v[1] /\ u[2] = v[2]
    BY <1>10, <2>1, <2>2
  <2>4. u[4] = v[4]
    BY <2>3, UnitsDiffer
  <2> QED
    BY <1>10, <2>1, <2>2, <2>4
<1> QED
  BY <1>8, <1>9, <1>10

\* The accesses of a log are those of its records.
LEMMA TouchesAre ==
  ASSUME NEW l, NEW kind
  PROVE  \A x : x \in Touches(l, kind) <=> \E i \in DOMAIN l : Counts(l[i], kind) /\ x \in Touched(l[i], i)
<1>1. Touches(l, kind) = UNION {Touched(l[i], i) : i \in {n \in DOMAIN l : Counts(l[n], kind)}}
  BY Zenon DEF Touches, Touched, Counts
<1> QED
  BY <1>1

-----------------------------------------------------------------------------
(* The accesses of a log *)

\* GPU thread th ended in the log behind place i.
Ended(l, i, th) == \E n \in i + 1 .. Len(l) : Ends(l[n]) /\ th \in ThreadsOf(l[n])

\* x is the last access to its address by its GPU thread, which has not ended since.
LastAt(l, kind, x) ==
  /\ x \in Touches(l, kind)
  /\ ~\E z \in Touches(l, kind) : x[1] < z[1] /\ z[2] = x[2]
  /\ ~Ended(l, x[1], x[2][1])

\* What RedundancyExact counts, with the log as a parameter.
Follows(l, kind, x, y) ==
  /\ x[1] < y[1] /\ x[2] = y[2]
  /\ ~\E z \in Touches(l, kind) : x[1] < z[1] /\ z[1] < y[1] /\ z[2] = y[2]
  /\ ~\E n \in x[1] + 1 .. y[1] - 1 : n \in EndsOf(l) /\ y[2][1] \in ThreadsOf(l[n])
Hits(l, kind) == {x \in Touches(l, kind) \X Touches(l, kind) : Follows(l, kind, x[1], x[2]) /\ x[1][3] = x[2][3]}
PairOf(l, x) == <<l[x[2][1]].pc, l[x[1][1]].pc, x[2][3]>>
PairsOf(l, kind) == [x \in Hits(l, kind) |-> PairOf(l, x)]
HitBag(l, kind) == BagOf(Hits(l, kind), LAMBDA x : PairOf(l, x))

\* The bag of RedundancyExact counts the pairs.
LEMMA HitBagIs ==
  ASSUME NEW l, NEW kind
  PROVE  HitBag(l, kind) = CountOf(PairsOf(l, kind))
<1>1. PICK H, P : H = Hits(l, kind) /\ P = PairsOf(l, kind)
  OBVIOUS
<1>2. DOMAIN P = H /\ \A x \in H : P[x] = PairOf(l, x)
  BY <1>1 DEF PairsOf
<1>3. {P[x] : x \in H} = {PairOf(l, x) : x \in H}
  BY <1>2
<1>4. \A v : {x \in H : P[x] = v} = {x \in H : PairOf(l, x) = v}
  BY <1>2
<1> QED
  BY <1>1, <1>2, <1>3, <1>4 DEF HitBag, BagOf, CountOf

\* The table f holds the last accesses.
Remembers(f, l, kind) ==
  /\ \A x : LastAt(l, kind, x) => x[2] \in DOMAIN f /\ f[x[2]] = <<l[x[1]].pc, x[3]>>
  /\ \A key \in DOMAIN f : \E x : LastAt(l, kind, x) /\ x[2] = key

\* A log with record r behind it.
Longer(l, r, L, n) ==
  /\ l \in Seq(Loggable) /\ r \in Loggable /\ L \in Seq(Loggable)
  /\ n \in Nat /\ Len(l) + 1 = n /\ Len(L) = n /\ L[n] = r
  /\ \A i \in 1 .. n - 1 : L[i] = l[i]

\* Append gives a longer log.
LEMMA LongerIs ==
  ASSUME NEW l \in Seq(Loggable), NEW r \in Loggable
  PROVE  Longer(l, r, Append(l, r), Len(l) + 1)
  BY DEF Longer

\* The accesses of a log are at its places, one for a place, GPU thread and address.
LEMMA TouchesDiffer ==
  ASSUME NEW l \in Seq(Loggable), NEW kind
  PROVE  /\ \A x \in Touches(l, kind) : x[1] \in 1 .. Len(l) /\ x = <<x[1], x[2], x[3]>>
         /\ \A x, y \in Touches(l, kind) : x[1] = y[1] /\ x[2] = y[2] => x = y
<1>1. DOMAIN l = 1 .. Len(l) /\ \A i \in 1 .. Len(l) : l[i] \in Loggable
  OBVIOUS
<1>2. ASSUME NEW x \in Touches(l, kind)
      PROVE  x[1] \in 1 .. Len(l) /\ x = <<x[1], x[2], x[3]>> /\ x \in Touched(l[x[1]], x[1])
  <2>1. PICK i \in DOMAIN l : x \in Touched(l[i], i)
    BY TouchesAre
  <2>2. l[i] \in Loggable
    BY <1>1, <2>1
  <2>3. x[1] = i /\ x = <<x[1], x[2], x[3]>>
    BY <2>1, <2>2, TouchedIs
  <2> QED
    BY <1>1, <2>1, <2>3
<1>3. ASSUME NEW x \in Touches(l, kind), NEW y \in Touches(l, kind), x[1] = y[1], x[2] = y[2] PROVE x = y
  <2>1. PICK i : i = x[1]
    OBVIOUS
  <2>2. l[i] \in Loggable /\ x \in Touched(l[i], i) /\ y \in Touched(l[i], i)
    BY <1>1, <1>2, <1>3, <2>1
  <2> QED
    BY <1>3, <2>2, TouchedIs
<1> QED
  BY <1>2, <1>3

\* A record adds its accesses to those of the log.
LEMMA TouchesMore ==
  ASSUME NEW l, NEW r, NEW L, NEW n, Longer(l, r, L, n), NEW kind
  PROVE  Touches(L, kind) = Touches(l, kind) \cup (IF Counts(r, kind) THEN Touched(r, n) ELSE {})
<1>1. DOMAIN l = 1 .. n - 1 /\ DOMAIN L = 1 .. n /\ n \in Nat /\ n \in 1 .. n /\ L[n] = r
  BY DEF Longer
<1>2. \A i \in 1 .. n - 1 : L[i] = l[i]
  BY DEF Longer
<1>3. \A i : i \in 1 .. n <=> i \in 1 .. n - 1 \/ i = n
  BY <1>1
<1>4. ASSUME NEW x
      PROVE  x \in Touches(L, kind) <=> x \in Touches(l, kind) \/ (Counts(r, kind) /\ x \in Touched(r, n))
  <2>1. x \in Touches(L, kind) <=> \E i \in 1 .. n : Counts(L[i], kind) /\ x \in Touched(L[i], i)
    BY <1>1, TouchesAre
  <2>2. x \in Touches(l, kind) <=> \E i \in 1 .. n - 1 : Counts(l[i], kind) /\ x \in Touched(l[i], i)
    BY <1>1, TouchesAre
  <2> QED
    BY <1>1, <1>2, <1>3, <2>1, <2>2
<1> QED
  BY <1>4

\* A GPU thread has ended if it had before or ends with the record.
LEMMA EndedMore ==
  ASSUME NEW l, NEW r, NEW L, NEW n, Longer(l, r, L, n), NEW i \in 1 .. n, NEW th
  PROVE  Ended(L, i, th) <=> i < n /\ (Ended(l, i, th) \/ (Ends(r) /\ th \in ThreadsOf(r)))
<1>1. Len(l) = n - 1 /\ Len(L) = n /\ n \in Nat /\ L[n] = r /\ \A j \in 1 .. n - 1 : L[j] = l[j]
  BY DEF Longer
<1>2. \A j : j \in i + 1 .. n <=> j \in i + 1 .. n - 1 \/ (j = n /\ i < n)
  BY <1>1
<1>3. Ended(L, i, th) <=> \E j \in i + 1 .. n : Ends(L[j]) /\ th \in ThreadsOf(L[j])
  BY <1>1 DEF Ended
<1>4. Ended(l, i, th) <=> \E j \in i + 1 .. n - 1 : Ends(l[j]) /\ th \in ThreadsOf(l[j])
  BY <1>1 DEF Ended
<1>5. \A j \in i + 1 .. n - 1 : L[j] = l[j] /\ i < n
  BY <1>1
<1> QED
  BY <1>1, <1>2, <1>3, <1>4, <1>5

\* The last accesses after a record: its own, and those it leaves alone.
LEMMA LastMore ==
  ASSUME NEW l, NEW r, NEW L, NEW n, Longer(l, r, L, n), NEW kind, NEW x
  PROVE  LastAt(L, kind, x) <=>
           \/ Counts(r, kind) /\ x \in Touched(r, n)
           \/ /\ LastAt(l, kind, x)
              /\ Counts(r, kind) => x[2] \notin {z[2] : z \in Touched(r, n)}
              /\ Ends(r) => x[2][1] \notin ThreadsOf(r)
<1>1. l \in Seq(Loggable) /\ r \in Loggable /\ L \in Seq(Loggable) /\ n \in Nat /\ Len(l) = n - 1 /\ Len(L) = n
  BY DEF Longer
<1>2. Touches(L, kind) = Touches(l, kind) \cup (IF Counts(r, kind) THEN Touched(r, n) ELSE {})
  BY TouchesMore
<1>3. \A z \in Touched(r, n) : z[1] = n
  BY <1>1, TouchedIs
<1>4. \A z \in Touches(l, kind) : z[1] \in 1 .. n - 1
  BY <1>1, TouchesDiffer
<1>5. \A z \in Touches(L, kind) : z[1] \in 1 .. n
  BY <1>1, TouchesDiffer
<1>6. CASE Counts(r, kind) /\ x \in Touched(r, n)
  <2>1. x \in Touches(L, kind) /\ x[1] = n /\ n \in 1 .. n
    BY <1>2, <1>3, <1>5, <1>6
  <2>2. \A z \in Touches(L, kind) : ~ (x[1] < z[1])
    BY <1>1, <1>5, <2>1
  <2>3. ~ Ended(L, x[1], x[2][1])
    BY <1>1, <2>1, EndedMore
  <2>4. LastAt(L, kind, x)
    BY <2>1, <2>2, <2>3 DEF LastAt
  <2> QED
    BY <1>6, <2>4
<1>7. CASE ~ (Counts(r, kind) /\ x \in Touched(r, n)) /\ x \in Touches(l, kind)
  <2>1. x \in Touches(L, kind) /\ x[1] \in 1 .. n /\ x[1] < n
    BY <1>1, <1>2, <1>4, <1>7
  <2>2. Ended(L, x[1], x[2][1]) <=> Ended(l, x[1], x[2][1]) \/ (Ends(r) /\ x[2][1] \in ThreadsOf(r))
    BY <2>1, EndedMore
  <2>3. (\E z \in Touches(L, kind) : x[1] < z[1] /\ z[2] = x[2]) <=>
          \/ \E z \in Touches(l, kind) : x[1] < z[1] /\ z[2] = x[2]
          \/ Counts(r, kind) /\ x[2] \in {z[2] : z \in Touched(r, n)}
    BY <1>2, <1>3, <2>1
  <2> QED
    BY <1>7, <2>1, <2>2, <2>3 DEF LastAt
<1>8. CASE ~ (Counts(r, kind) /\ x \in Touched(r, n)) /\ x \notin Touches(l, kind)
  BY <1>2, <1>8 DEF LastAt
<1> QED
  BY <1>6, <1>7, <1>8

\* There is one last access for a GPU thread and an address.
LEMMA LastUnique ==
  ASSUME NEW l \in Seq(Loggable), NEW kind, NEW x, NEW y, LastAt(l, kind, x), LastAt(l, kind, y), x[2] = y[2]
  PROVE  x = y
<1>1. x \in Touches(l, kind) /\ y \in Touches(l, kind) /\ ~ (x[1] < y[1]) /\ ~ (y[1] < x[1])
  BY DEF LastAt
<1>2. x[1] \in 1 .. Len(l) /\ y[1] \in 1 .. Len(l)
  BY <1>1, TouchesDiffer
<1>3. x[1] = y[1]
  BY <1>1, <1>2
<1> QED
  BY <1>1, <1>3, TouchesDiffer

-----------------------------------------------------------------------------
(* What a record adds *)

\* The hits of the accesses of r with the last accesses of the log.
Fresh(l, r, n, kind) ==
  {p \in Touches(l, kind) \X Touched(r, n) : LastAt(l, kind, p[1]) /\ p[1][2] = p[2][2] /\ p[1][3] = p[2][3]}

\* An access of the log follows another one as before.
LEMMA FollowsOld ==
  ASSUME NEW l, NEW r, NEW L, NEW n, Longer(l, r, L, n), NEW kind,
         NEW x \in Touches(l, kind), NEW y \in Touches(l, kind)
  PROVE  Follows(L, kind, x, y) <=> Follows(l, kind, x, y)
<1>1. /\ l \in Seq(Loggable) /\ r \in Loggable /\ n \in Nat /\ Len(l) = n - 1
      /\ \A i \in 1 .. n - 1 : L[i] = l[i]
  BY DEF Longer
<1>2. \A z \in Touches(l, kind) : z[1] \in 1 .. n - 1
  BY <1>1, TouchesDiffer
<1>3. \A z \in Touched(r, n) : z[1] = n
  BY <1>1, TouchedIs
<1>4. \A z : z \in Touches(L, kind) /\ z[1] < y[1] <=> z \in Touches(l, kind) /\ z[1] < y[1]
  BY <1>1, <1>2, <1>3, TouchesMore
<1>5. \A i \in x[1] + 1 .. y[1] - 1 : L[i] = l[i] /\ (i \in EndsOf(L) <=> i \in EndsOf(l))
  <2>1. x[1] \in 1 .. n - 1 /\ y[1] \in 1 .. n - 1
    BY <1>2
  <2>2. DOMAIN L = 1 .. n /\ DOMAIN l = 1 .. n - 1
    BY DEF Longer
  <2> QED
    BY <1>1, <2>1, <2>2 DEF EndsOf
<1> QED
  BY <1>4, <1>5 DEF Follows

\* An access of the record follows the last access to its address.
LEMMA FollowsNew ==
  ASSUME NEW l, NEW r, NEW L, NEW n, Longer(l, r, L, n), NEW kind, Counts(r, kind),
         NEW x \in Touches(l, kind), NEW y \in Touched(r, n)
  PROVE  Follows(L, kind, x, y) <=> LastAt(l, kind, x) /\ x[2] = y[2]
<1>1. /\ l \in Seq(Loggable) /\ r \in Loggable /\ n \in Nat /\ Len(l) = n - 1
      /\ \A i \in 1 .. n - 1 : L[i] = l[i]
  BY DEF Longer
<1>2. \A z \in Touches(l, kind) : z[1] \in 1 .. n - 1
  BY <1>1, TouchesDiffer
<1>3. \A z \in Touched(r, n) : z[1] = n
  BY <1>1, TouchedIs
<1>4. x[1] \in 1 .. n - 1 /\ y[1] = n /\ x[1] < n
  BY <1>1, <1>2, <1>3
<1>5. \A z : z \in Touches(L, kind) /\ z[1] < n <=> z \in Touches(l, kind)
  BY <1>1, <1>2, <1>3, TouchesMore
<1>6. (\E z \in Touches(L, kind) : x[1] < z[1] /\ z[1] < y[1] /\ z[2] = x[2]) <=>
        \E z \in Touches(l, kind) : x[1] < z[1] /\ z[2] = x[2]
  BY <1>4, <1>5
<1>7. \A i \in x[1] + 1 .. n - 1 : L[i] = l[i] /\ (i \in EndsOf(L) <=> Ends(l[i]))
  <2>1. DOMAIN L = 1 .. n
    BY DEF Longer
  <2> QED
    BY <1>1, <1>4, <2>1 DEF EndsOf
<1>8. (\E i \in x[1] + 1 .. y[1] - 1 : i \in EndsOf(L) /\ x[2][1] \in ThreadsOf(L[i])) <=>
        Ended(l, x[1], x[2][1])
  BY <1>1, <1>4, <1>7 DEF Ended
<1> QED
  BY <1>4, <1>6, <1>8 DEF Follows, LastAt

\* A record adds its hits to those of the log.
LEMMA HitsMore ==
  ASSUME NEW l, NEW r, NEW L, NEW n, Longer(l, r, L, n), NEW kind
  PROVE  /\ Hits(L, kind) = Hits(l, kind) \cup (IF Counts(r, kind) THEN Fresh(l, r, n, kind) ELSE {})
         /\ Hits(l, kind) \cap Fresh(l, r, n, kind) = {}
<1>1. l \in Seq(Loggable) /\ r \in Loggable /\ L \in Seq(Loggable) /\ n \in Nat /\ Len(l) = n - 1 /\ Len(L) = n
  BY DEF Longer
<1>2. \A z \in Touches(l, kind) : z[1] \in 1 .. n - 1
  BY <1>1, TouchesDiffer
<1>3. \A z \in Touched(r, n) : z[1] = n
  BY <1>1, TouchedIs
<1>4. \A z : z \in Touches(L, kind) <=> z \in Touches(l, kind) \/ (Counts(r, kind) /\ z \in Touched(r, n))
  BY TouchesMore
<1>5. ASSUME NEW x, NEW y
      PROVE  <<x, y>> \in Hits(L, kind) <=>
               <<x, y>> \in Hits(l, kind) \/ (Counts(r, kind) /\ <<x, y>> \in Fresh(l, r, n, kind))
  <2>1. \A m : <<x, y>> \in Hits(m, kind) <=>
          x \in Touches(m, kind) /\ y \in Touches(m, kind) /\ Follows(m, kind, x, y) /\ x[3] = y[3]
    BY DEF Hits
  <2>2. <<x, y>> \in Fresh(l, r, n, kind) <=>
          x \in Touches(l, kind) /\ y \in Touched(r, n) /\ LastAt(l, kind, x) /\ x[2] = y[2] /\ x[3] = y[3]
    BY DEF Fresh
  <2>3. Follows(L, kind, x, y) /\ x \in Touches(L, kind) /\ y \in Touches(L, kind) => x \in Touches(l, kind)
    <3> SUFFICES ASSUME Follows(L, kind, x, y), x \in Touched(r, n), y \in Touches(L, kind) PROVE FALSE
      BY <1>4
    <3>1. x[1] = n /\ y[1] \in 1 .. n /\ x[1] < y[1]
      BY <1>1, <1>3, TouchesDiffer DEF Follows
    <3> QED
      BY <1>1, <3>1
  <2>4. x \in Touches(l, kind) /\ y \in Touches(l, kind) => (Follows(L, kind, x, y) <=> Follows(l, kind, x, y))
    BY FollowsOld
  <2>5. Counts(r, kind) /\ x \in Touches(l, kind) /\ y \in Touched(r, n) =>
          (Follows(L, kind, x, y) <=> LastAt(l, kind, x) /\ x[2] = y[2])
    BY FollowsNew
  <2> QED
    BY <1>4, <2>1, <2>2, <2>3, <2>4, <2>5, Zenon
<1>6. \A m : \A p \in Hits(m, kind) : p = <<p[1], p[2]>>
  BY DEF Hits
<1>7. \A p \in Fresh(l, r, n, kind) : p = <<p[1], p[2]>>
  BY DEF Fresh
<1>8. ASSUME NEW p PROVE p \in Hits(L, kind) <=>
               p \in Hits(l, kind) \/ (Counts(r, kind) /\ p \in Fresh(l, r, n, kind))
  <2>1. CASE p = <<p[1], p[2]>>
    BY <1>5, <2>1
  <2>2. CASE p # <<p[1], p[2]>>
    BY <1>6, <1>7, <2>2
  <2> QED
    BY <2>1, <2>2
<1>9. Hits(l, kind) \cap Fresh(l, r, n, kind) = {}
  <2> SUFFICES ASSUME NEW p \in Hits(l, kind), p \in Fresh(l, r, n, kind) PROVE FALSE
    OBVIOUS
  <2>1. p[2] \in Touches(l, kind) /\ p[2] \in Touched(r, n)
    BY DEF Hits, Fresh
  <2> QED
    BY <1>1, <1>2, <1>3, <2>1
<1> QED
  BY <1>8, <1>9

-----------------------------------------------------------------------------
(* UnitAccesses and BlockExit *)

\* The parts of UnitAccesses: the keys of a record, the unit of a key, the table
\* after it, and the pairs it finds in the table.
KeysOf(r) == {<<u[1], u[2]>> : u \in Units(r)}
UnitAt(r, key) == CHOOSE u \in Units(r) : <<u[1], u[2]>> = key
Put(f, r) == [key \in DOMAIN f \cup KeysOf(r) |->
                IF key \in KeysOf(r) THEN <<r.pc, UnitAt(r, key)[4]>> ELSE f[key]]
Again(f, r) == [key \in {k \in KeysOf(r) \cap DOMAIN f : f[k][2] = UnitAt(r, k)[4]} |->
                  <<r.pc, f[key][1], UnitAt(r, key)[4]>>]
AgainBag(f, r) == BagOf({k \in KeysOf(r) \cap DOMAIN f : f[k][2] = UnitAt(r, k)[4]},
                        LAMBDA key : <<r.pc, f[key][1], UnitAt(r, key)[4]>>)

\* The accesses of a record by their keys.
LEMMA KeysAre ==
  ASSUME NEW r \in Loggable, NEW n
  PROVE  /\ \A y \in Touched(r, n) : y[2] \in KeysOf(r) /\ y[3] = UnitAt(r, y[2])[4]
         /\ \A key \in KeysOf(r) : \E y \in Touched(r, n) : y[2] = key
<1>1. ASSUME NEW u \in Units(r), NEW key, key = <<u[1], u[2]>>
      PROVE  key \in KeysOf(r) /\ u[4] = UnitAt(r, key)[4]
  <2>1. UnitAt(r, key) \in Units(r) /\ <<UnitAt(r, key)[1], UnitAt(r, key)[2]>> = key
    BY <1>1 DEF UnitAt
  <2>2. PICK v : v = UnitAt(r, key)
    OBVIOUS
  <2>3. v \in Units(r) /\ u[1] = v[1] /\ u[2] = v[2]
    BY <1>1, <2>1, <2>2
  <2>4. u[4] = v[4]
    BY <2>3, UnitsDiffer
  <2> QED
    BY <1>1, <2>2, <2>4 DEF KeysOf
<1>2. ASSUME NEW y \in Touched(r, n) PROVE y[2] \in KeysOf(r) /\ y[3] = UnitAt(r, y[2])[4]
  <2>1. PICK u \in Units(r) : y = <<n, <<u[1], u[2]>>, u[4]>>
    BY DEF Touched
  <2>2. y[2] = <<u[1], u[2]>> /\ y[3] = u[4]
    BY <2>1
  <2> QED
    BY <1>1, <2>2
<1>3. ASSUME NEW key \in KeysOf(r) PROVE \E y \in Touched(r, n) : y[2] = key
  <2>1. PICK u \in Units(r) : key = <<u[1], u[2]>>
    BY DEF KeysOf
  <2>2. PICK y : y = <<n, <<u[1], u[2]>>, u[4]>>
    OBVIOUS
  <2>3. y \in Touched(r, n) /\ y[2] = key
    BY <2>1, <2>2 DEF Touched
  <2> QED
    BY <2>3
<1> QED
  BY <1>2, <1>3

\* The pairs of a record are its hits with the last accesses of the log, counted.
LEMMA AgainIsFresh ==
  ASSUME NEW l, NEW r, NEW L, NEW n, Longer(l, r, L, n), NEW kind, NEW f,
         IsFiniteSet(Touches(l, kind)), Remembers(f, l, kind)
  PROVE  /\ IsFiniteSet(Fresh(l, r, n, kind))
         /\ CountOf([p \in Fresh(l, r, n, kind) |-> PairOf(L, p)]) = CountOf(Again(f, r))
<1>1. /\ l \in Seq(Loggable) /\ r \in Loggable /\ n \in Nat /\ Len(l) = n - 1 /\ L[n] = r
      /\ \A i \in 1 .. n - 1 : L[i] = l[i]
  BY DEF Longer
<1>2. PICK F, A, g, h, b :
        /\ F = Fresh(l, r, n, kind) /\ g = [p \in F |-> PairOf(L, p)]
        /\ h = Again(f, r) /\ A = DOMAIN h
        /\ b = [p \in F |-> p[2][2]]
  OBVIOUS
<1>3. DOMAIN g = F /\ A = {k \in KeysOf(r) \cap DOMAIN f : f[k][2] = UnitAt(r, k)[4]}
  BY <1>2 DEF Again
<1>4. \A key \in A : h[key] = <<r.pc, f[key][1], UnitAt(r, key)[4]>>
  BY <1>2, <1>3 DEF Again
<1>5. IsFiniteSet(F)
  <2>1. IsFiniteSet(Touched(r, n))
    BY <1>1, TouchedIs
  <2>2. IsFiniteSet(Touches(l, kind) \X Touched(r, n))
    BY <2>1, FS_Product
  <2>3. F \subseteq Touches(l, kind) \X Touched(r, n)
    BY <1>2 DEF Fresh
  <2> QED
    BY <2>2, <2>3, FS_Subset
<1>6. ASSUME NEW p \in F
      PROVE  /\ p = <<p[1], p[2]>> /\ p[2] \in Touched(r, n) /\ LastAt(l, kind, p[1])
             /\ p[1][2] = p[2][2] /\ p[1][3] = p[2][3]
             /\ p[1][1] \in 1 .. n - 1 /\ p[2][1] = n
  <2>1. /\ p = <<p[1], p[2]>> /\ p[1] \in Touches(l, kind) /\ p[2] \in Touched(r, n) /\ LastAt(l, kind, p[1])
        /\ p[1][2] = p[2][2] /\ p[1][3] = p[2][3]
    BY <1>2, <1>6 DEF Fresh
  <2> QED
    BY <1>1, <2>1, TouchesDiffer, TouchedIs
<1>7. ASSUME NEW p \in F PROVE b[p] \in A /\ g[p] = h[b[p]]
  <2>1. PICK x, y, key : x = p[1] /\ y = p[2] /\ key = y[2]
    OBVIOUS
  <2>2. y \in Touched(r, n) /\ LastAt(l, kind, x) /\ x[2] = key /\ x[3] = y[3] /\ x[1] \in 1 .. n - 1 /\ y[1] = n
    BY <1>6, <2>1
  <2>3. key \in KeysOf(r) /\ y[3] = UnitAt(r, key)[4]
    BY <1>1, <2>1, <2>2, KeysAre
  <2>4. key \in DOMAIN f /\ f[key] = <<l[x[1]].pc, x[3]>>
    BY <2>2 DEF Remembers
  <2>5. key \in A
    BY <1>3, <2>2, <2>3, <2>4
  <2>6. b[p] = key
    BY <1>2, <2>1
  <2>7. g[p] = <<L[y[1]].pc, L[x[1]].pc, y[3]>>
    BY <1>2, <2>1 DEF PairOf
  <2>8. L[y[1]].pc = r.pc /\ L[x[1]].pc = f[key][1]
    BY <1>1, <2>2, <2>4
  <2> QED
    BY <1>4, <2>3, <2>5, <2>6, <2>7, <2>8
<1>8. ASSUME NEW p \in F, NEW q \in F, b[p] = b[q] PROVE p = q
  <2>1. p[2][2] = q[2][2]
    BY <1>2, <1>8
  <2>2. p[2] = q[2]
    BY <1>1, <1>6, <2>1, TouchedIs
  <2>3. p[1] = q[1]
    <3>1. PICK x, y : x = p[1] /\ y = q[1]
      OBVIOUS
    <3>2. LastAt(l, kind, x) /\ LastAt(l, kind, y) /\ x[2] = y[2]
      BY <1>6, <2>1, <3>1
    <3> QED
      BY <1>1, <3>1, <3>2, LastUnique
  <2> QED
    BY <1>6, <2>2, <2>3
<1>9. ASSUME NEW key \in A PROVE \E p \in F : b[p] = key
  <2>1. key \in KeysOf(r) /\ key \in DOMAIN f /\ f[key][2] = UnitAt(r, key)[4]
    BY <1>3
  <2>2. PICK y \in Touched(r, n) : y[2] = key
    BY <1>1, <2>1, KeysAre
  <2>3. PICK x : LastAt(l, kind, x) /\ x[2] = key
    BY <2>1 DEF Remembers
  <2>4. f[key] = <<l[x[1]].pc, x[3]>>
    BY <2>3 DEF Remembers
  <2>5. x[3] = y[3]
    BY <1>1, <2>1, <2>2, <2>4, KeysAre
  <2>6. PICK p : p = <<x, y>>
    OBVIOUS
  <2>7. p[1] = x /\ p[2] = y
    BY <2>6
  <2>8. p \in F
    BY <1>2, <2>2, <2>3, <2>5, <2>6 DEF Fresh, LastAt
  <2> QED
    BY <1>2, <2>2, <2>7, <2>8
<1>10. b \in [DOMAIN g -> DOMAIN h]
  BY <1>2, <1>3, <1>7
<1>11. CountOf(g) = CountOf(h)
  <2>1. IsFiniteSet(DOMAIN g)
    BY <1>3, <1>5
  <2>2. DOMAIN g = F /\ DOMAIN h = A
    BY <1>2, <1>3
  <2>3. \A x, y \in DOMAIN g : b[x] = b[y] => x = y
    BY <1>8, <2>2
  <2>4. \A y \in DOMAIN h : \E x \in DOMAIN g : b[x] = y
    BY <1>9, <2>2
  <2>5. \A x \in DOMAIN g : g[x] = h[b[x]]
    BY <1>7, <2>2
  <2> QED
    BY <1>10, <2>1, <2>3, <2>4, <2>5, CountSame, Zenon
<1> QED
  BY <1>2, <1>5, <1>11

\* The pairs of the longer log.
LEMMA PairsMore ==
  ASSUME NEW l, NEW r, NEW L, NEW n, Longer(l, r, L, n), NEW kind, NEW f,
         IsFiniteSet(Touches(l, kind)), Remembers(f, l, kind)
  PROVE  CountOf(PairsOf(L, kind)) =
           IF Counts(r, kind) THEN CountOf(PairsOf(l, kind)) (+) CountOf(Again(f, r))
           ELSE CountOf(PairsOf(l, kind))
<1>1. /\ l \in Seq(Loggable) /\ r \in Loggable /\ n \in Nat /\ Len(l) = n - 1
      /\ \A i \in 1 .. n - 1 : L[i] = l[i]
  BY DEF Longer
<1>2. PICK H, F, P : H = Hits(l, kind) /\ F = Fresh(l, r, n, kind) /\ P = PairsOf(L, kind)
  OBVIOUS
<1>3. DOMAIN P = Hits(L, kind) /\ \A p \in DOMAIN P : P[p] = PairOf(L, p)
  BY <1>2 DEF PairsOf
<1>4. Hits(L, kind) = H \cup (IF Counts(r, kind) THEN F ELSE {}) /\ H \cap F = {}
  BY <1>2, HitsMore
<1>5. \A p \in H : PairOf(L, p) = PairOf(l, p)
  <2> SUFFICES ASSUME NEW p \in H PROVE PairOf(L, p) = PairOf(l, p)
    OBVIOUS
  <2>1. p[1] \in Touches(l, kind) /\ p[2] \in Touches(l, kind)
    BY <1>2 DEF Hits
  <2>2. p[1][1] \in 1 .. n - 1 /\ p[2][1] \in 1 .. n - 1
    BY <1>1, <2>1, TouchesDiffer
  <2> QED
    BY <1>1, <2>2 DEF PairOf
<1>6. PairsOf(l, kind) = [p \in H |-> PairOf(l, p)]
  BY <1>2 DEF PairsOf
<1>7. CASE ~ Counts(r, kind)
  <2>1. P = PairsOf(l, kind)
    BY <1>2, <1>4, <1>5, <1>6, <1>7 DEF PairsOf
  <2> QED
    BY <1>2, <1>7, <2>1
<1>8. CASE Counts(r, kind)
  <2>1. DOMAIN P = H \cup F
    BY <1>3, <1>4, <1>8
  <2>2. Part(P, H) = PairsOf(l, kind)
    BY <1>3, <1>5, <1>6, <2>1 DEF Part
  <2>3. Part(P, F) = [p \in F |-> PairOf(L, p)]
    BY <1>3, <2>1 DEF Part
  <2>4. IsFiniteSet(H)
    <3>1. IsFiniteSet(Touches(l, kind) \X Touches(l, kind))
      BY FS_Product
    <3>2. H \subseteq Touches(l, kind) \X Touches(l, kind)
      BY <1>2 DEF Hits
    <3> QED
      BY <3>1, <3>2, FS_Subset
  <2>5. IsFiniteSet(F) /\ CountOf([p \in F |-> PairOf(L, p)]) = CountOf(Again(f, r))
    BY <1>2, AgainIsFresh
  <2>6. CountOf(P) = CountOf(Part(P, H)) (+) CountOf(Part(P, F))
    BY <1>4, <2>1, <2>4, <2>5, CountUnion
  <2> QED
    BY <1>2, <1>8, <2>2, <2>3, <2>5, <2>6
<1> QED
  BY <1>7, <1>8

\* Put remembers the accesses of a record of the kind.
LEMMA PutRemembers ==
  ASSUME NEW l, NEW r, NEW L, NEW n, Longer(l, r, L, n), NEW kind, NEW f,
         Remembers(f, l, kind), Counts(r, kind)
  PROVE  Remembers(Put(f, r), L, kind)
<1>1. /\ l \in Seq(Loggable) /\ r \in Loggable /\ n \in Nat /\ Len(l) = n - 1 /\ L[n] = r
      /\ \A i \in 1 .. n - 1 : L[i] = l[i]
  BY DEF Longer
<1>a. "EXIT" \notin r.flags
  BY DEF Counts
<1>2. PICK g, K : g = Put(f, r) /\ K = KeysOf(r)
  OBVIOUS
<1>3. /\ DOMAIN g = DOMAIN f \cup K
      /\ \A key \in K : g[key] = <<r.pc, UnitAt(r, key)[4]>>
      /\ \A key \in DOMAIN f \ K : g[key] = f[key]
  BY <1>2 DEF Put
<1>4. /\ \A y \in Touched(r, n) : y[1] = n /\ y[2] \in K /\ y[3] = UnitAt(r, y[2])[4]
      /\ \A key \in K : \E y \in Touched(r, n) : y[2] = key
  BY <1>1, <1>2, KeysAre, TouchedIs
<1>5. \A x : LastAt(L, kind, x) <=> x \in Touched(r, n) \/ (LastAt(l, kind, x) /\ x[2] \notin K)
  <2>1. {z[2] : z \in Touched(r, n)} = K
    BY <1>4
  <2> QED
    BY <1>a, <2>1, LastMore DEF Ends
<1>6. \A x : LastAt(l, kind, x) => x[1] \in 1 .. n - 1
  BY <1>1, TouchesDiffer DEF LastAt
<1>7. ASSUME NEW x, LastAt(L, kind, x) PROVE x[2] \in DOMAIN g /\ g[x[2]] = <<L[x[1]].pc, x[3]>>
  <2>1. CASE x \in Touched(r, n)
    BY <1>1, <1>3, <1>4, <2>1
  <2>2. CASE x \notin Touched(r, n)
    <3>1. LastAt(l, kind, x) /\ x[2] \notin K
      BY <1>5, <1>7, <2>2
    <3>2. x[2] \in DOMAIN f /\ f[x[2]] = <<l[x[1]].pc, x[3]>> /\ L[x[1]] = l[x[1]]
      BY <1>1, <1>6, <3>1 DEF Remembers
    <3> QED
      BY <1>3, <3>1, <3>2
  <2> QED
    BY <2>1, <2>2
<1>8. ASSUME NEW key \in DOMAIN g PROVE \E x : LastAt(L, kind, x) /\ x[2] = key
  <2>1. CASE key \in K
    BY <1>4, <1>5, <2>1
  <2>2. CASE key \notin K
    <3>1. PICK x : LastAt(l, kind, x) /\ x[2] = key
      BY <1>3, <2>2 DEF Remembers
    <3> QED
      BY <1>5, <2>2, <3>1
  <2> QED
    BY <2>1, <2>2
<1> QED
  BY <1>2, <1>7, <1>8 DEF Remembers

\* What BlockExit leaves of a table.
Left(f, r) == [key \in {x \in DOMAIN f : x[1] \notin ThreadsOf(r)} |-> f[key]]

\* A record of another kind leaves the table right, and one of an exit without its threads.
LEMMA LeftRemembers ==
  ASSUME NEW l, NEW r, NEW L, NEW n, Longer(l, r, L, n), NEW kind, NEW f,
         Remembers(f, l, kind), ~ Counts(r, kind)
  PROVE  Remembers(IF Ends(r) THEN Left(f, r) ELSE f, L, kind)
<1>1. /\ l \in Seq(Loggable) /\ n \in Nat /\ Len(l) = n - 1 /\ \A i \in 1 .. n - 1 : L[i] = l[i]
  BY DEF Longer
<1>2. PICK g : g = IF Ends(r) THEN Left(f, r) ELSE f
  OBVIOUS
<1>3. /\ \A key : key \in DOMAIN g <=> key \in DOMAIN f /\ (Ends(r) => key[1] \notin ThreadsOf(r))
      /\ \A key \in DOMAIN g : g[key] = f[key]
  <2>1. CASE Ends(r)
    <3>1. g = [key \in {x \in DOMAIN f : x[1] \notin ThreadsOf(r)} |-> f[key]]
      BY <1>2, <2>1 DEF Left
    <3> QED
      BY <2>1, <3>1
  <2>2. CASE ~Ends(r)
    BY <1>2, <2>2
  <2> QED
    BY <2>1, <2>2
<1>4. \A x : LastAt(L, kind, x) <=> LastAt(l, kind, x) /\ (Ends(r) => x[2][1] \notin ThreadsOf(r))
  BY LastMore
<1>5. \A x : LastAt(l, kind, x) => x[1] \in 1 .. n - 1
  BY <1>1, TouchesDiffer DEF LastAt
<1>6. ASSUME NEW x, LastAt(L, kind, x) PROVE x[2] \in DOMAIN g /\ g[x[2]] = <<L[x[1]].pc, x[3]>>
  <2>1. LastAt(l, kind, x) /\ (Ends(r) => x[2][1] \notin ThreadsOf(r))
    BY <1>4, <1>6
  <2>2. x[2] \in DOMAIN f /\ f[x[2]] = <<l[x[1]].pc, x[3]>> /\ L[x[1]] = l[x[1]]
    BY <1>1, <1>5, <2>1 DEF Remembers
  <2> QED
    BY <1>3, <2>1, <2>2
<1>7. ASSUME NEW key \in DOMAIN g PROVE \E x : LastAt(L, kind, x) /\ x[2] = key
  <2>1. key \in DOMAIN f /\ (Ends(r) => key[1] \notin ThreadsOf(r))
    BY <1>3
  <2>2. PICK x : LastAt(l, kind, x) /\ x[2] = key
    BY <2>1 DEF Remembers
  <2> QED
    BY <1>4, <2>1, <2>2
<1> QED
  BY <1>2, <1>6, <1>7 DEF Remembers

\* UnitAccesses in terms of Put and Again.
LEMMA UnitAccessesAre ==
  ASSUME NEW tr, NEW r, NEW kind \in Kinds
  PROVE  /\ UnitAccesses(tr, r).temporal[kind] =
              IF kind \in r.flags THEN Put(tr.temporal[kind], r) ELSE tr.temporal[kind]
         /\ UnitAccesses(tr, r).pairs[kind] =
              IF kind \in r.flags THEN tr.pairs[kind] (+) CountOf(Again(tr.temporal[kind], r)) ELSE tr.pairs[kind]
         /\ {"temporal", "pairs"} \subseteq DOMAIN UnitAccesses(tr, r)
<1>1. PICK f : f = tr.temporal[kind]
  OBVIOUS
<1>2. PICK h : h = Again(f, r)
  OBVIOUS
<1>3. PICK A : A = {k \in KeysOf(r) \cap DOMAIN f : f[k][2] = UnitAt(r, k)[4]}
  OBVIOUS
<1>4. h = [key \in A |-> <<r.pc, f[key][1], UnitAt(r, key)[4]>>]
  BY <1>2, <1>3 DEF Again
<1>5. DOMAIN h = A /\ \A key \in A : h[key] = <<r.pc, f[key][1], UnitAt(r, key)[4]>>
  BY <1>4
<1>6. CountOf(h) = AgainBag(f, r)
  <2>1. {h[x] : x \in A} = {<<r.pc, f[key][1], UnitAt(r, key)[4]>> : key \in A}
    BY <1>5
  <2>2. \A v : {x \in A : h[x] = v} = {key \in A : <<r.pc, f[key][1], UnitAt(r, key)[4]>> = v}
    BY <1>5
  <2> QED
    BY <1>3, <1>5, <2>1, <2>2 DEF CountOf, BagOf, AgainBag
<1>7. UnitAccesses(tr, r).temporal = [x \in Kinds |-> IF x \in r.flags THEN Put(tr.temporal[x], r) ELSE tr.temporal[x]]
  BY Zenon DEF UnitAccesses, Put, KeysOf, UnitAt, Latest
<1>8. UnitAccesses(tr, r).pairs = [x \in Kinds |->
        IF x \in r.flags THEN tr.pairs[x] (+) AgainBag(tr.temporal[x], r) ELSE tr.pairs[x]]
  BY Zenon DEF UnitAccesses, KeysOf, UnitAt, AgainBag
<1>9. UnitAccesses(tr, r).pairs[kind] =
        IF kind \in r.flags THEN tr.pairs[kind] (+) AgainBag(f, r) ELSE tr.pairs[kind]
  BY <1>1, <1>8, Zenon
<1>10. {"temporal", "pairs"} \subseteq DOMAIN UnitAccesses(tr, r)
  BY DEF UnitAccesses
<1> QED
  BY <1>1, <1>2, <1>6, <1>7, <1>9, <1>10, Zenon

-----------------------------------------------------------------------------
(* The invariant *)

\* A trace is right for a log: the tables hold the last accesses, the pairs count
\* the hits.
ExactFor(tr, l, kind) ==
  /\ IsFiniteSet(Touches(l, kind))
  /\ Remembers(tr.temporal[kind], l, kind)
  /\ tr.pairs[kind] = CountOf(PairsOf(l, kind))

Exact(tr, l) ==
  /\ {"temporal", "pairs"} \subseteq DOMAIN tr /\ l \in Seq(Loggable)
  /\ \A kind \in Kinds : ExactFor(tr, l, kind)

Logged(t) ==
  /\ DOMAIN kernel_trace[t] = DOMAIN log[t]
  /\ step[t] = "records" => job[t] \in DOMAIN log[t]
  /\ \A k \in DOMAIN log[t] : Exact(kernel_trace[t][k], log[t][k])

EInv ==
  /\ DOMAIN step = Threads /\ DOMAIN job = Threads /\ DOMAIN kernel_trace = Threads /\ DOMAIN log = Threads
  /\ \A t \in Threads : Logged(t)

\* A record adds finitely many accesses.
LEMMA TouchesFinite ==
  ASSUME NEW l, NEW r, NEW L, NEW n, Longer(l, r, L, n), NEW kind, IsFiniteSet(Touches(l, kind))
  PROVE  IsFiniteSet(Touches(L, kind))
<1>1. IsFiniteSet(Touched(r, n))
  BY TouchedIs DEF Longer
<1>2. IsFiniteSet(Touches(l, kind) \cup Touched(r, n))
  BY <1>1, FS_Union
<1>3. Touches(L, kind) \subseteq Touches(l, kind) \cup Touched(r, n)
  BY TouchesMore
<1> QED
  BY <1>2, <1>3, FS_Subset

\* The trace of a new kernel.
LEMMA ExactEmpty == Exact(EmptyTrace, <<>>)
<1>1. \A kind : Touches(<<>>, kind) = {}
  BY DEF Touches
<1>2. \A kind : Hits(<<>>, kind) = {} /\ PairsOf(<<>>, kind) = [x \in {} |-> PairOf(<<>>, x)]
  BY <1>1 DEF Hits, PairsOf
<1>3. \A kind : CountOf(PairsOf(<<>>, kind)) = EmptyBag
  <2> SUFFICES ASSUME NEW kind PROVE CountOf(PairsOf(<<>>, kind)) = EmptyBag
    OBVIOUS
  <2>1. PICK P : P = PairsOf(<<>>, kind)
    OBVIOUS
  <2>2. DOMAIN P = {}
    BY <1>2, <2>1
  <2>3. CountOf(P) = [v \in {} |-> Cardinality({x \in DOMAIN P : P[x] = v})]
    BY <2>2 DEF CountOf
  <2>4. EmptyBag = [e \in {} |-> 1]
    BY DEF EmptyBag, SetToBag
  <2> QED
    BY <2>1, <2>3, <2>4
<1>4. \A kind : Remembers(<<>>, <<>>, kind)
  BY <1>1 DEF Remembers, LastAt
<1>5. IsFiniteSet({})
  BY FS_EmptySet
<1>6. {"temporal", "pairs"} \subseteq DOMAIN EmptyTrace
  BY DEF EmptyTrace
<1>7. \A kind \in Kinds : EmptyTrace.temporal[kind] = <<>> /\ EmptyTrace.pairs[kind] = EmptyBag
  BY DEF EmptyTrace
<1>8. ASSUME NEW kind \in Kinds PROVE ExactFor(EmptyTrace, <<>>, kind)
  BY <1>1, <1>3, <1>4, <1>5, <1>7, Zenon DEF ExactFor
<1>9. <<>> \in Seq(Loggable)
  OBVIOUS
<1> QED
  BY <1>6, <1>8, <1>9, Zenon DEF Exact

\* unit_access of the units of a record keeps a trace right.
LEMMA ExactAccess ==
  ASSUME NEW tr, NEW l, Exact(tr, l), NEW r \in Loggable, "EXIT" \notin r.flags
  PROVE  Exact(UnitAccesses(tr, r), Append(l, r))
<1>1. l \in Seq(Loggable) /\ \A kind \in Kinds : ExactFor(tr, l, kind)
  BY DEF Exact
<1>2. PICK L, n, T : L = Append(l, r) /\ n = Len(l) + 1 /\ T = UnitAccesses(tr, r)
  OBVIOUS
<1>3. Longer(l, r, L, n)
  BY <1>1, <1>2, LongerIs
<1>4. ASSUME NEW kind \in Kinds PROVE ExactFor(T, L, kind)
  <2>1. PICK f : f = tr.temporal[kind]
    OBVIOUS
  <2>2. /\ IsFiniteSet(Touches(l, kind)) /\ Remembers(f, l, kind)
        /\ tr.pairs[kind] = CountOf(PairsOf(l, kind))
    BY <1>1, <2>1 DEF ExactFor
  <2>3. IsFiniteSet(Touches(L, kind))
    BY <1>3, <2>2, TouchesFinite
  <2>4. CountOf(PairsOf(L, kind)) =
           IF Counts(r, kind) THEN CountOf(PairsOf(l, kind)) (+) CountOf(Again(f, r))
           ELSE CountOf(PairsOf(l, kind))
    BY <1>3, <2>2, PairsMore
  <2>5. /\ T.temporal[kind] = IF kind \in r.flags THEN Put(f, r) ELSE f
        /\ T.pairs[kind] = IF kind \in r.flags THEN tr.pairs[kind] (+) CountOf(Again(f, r)) ELSE tr.pairs[kind]
    BY <1>2, <2>1, UnitAccessesAre
  <2>6. Counts(r, kind) <=> kind \in r.flags
    BY DEF Counts
  <2>7. CASE kind \in r.flags
    <3>1. Remembers(Put(f, r), L, kind)
      BY <1>3, <2>2, <2>6, <2>7, PutRemembers
    <3> QED
      BY <2>2, <2>3, <2>4, <2>5, <2>6, <2>7, <3>1, Zenon DEF ExactFor
  <2>8. CASE kind \notin r.flags
    <3>1. Remembers(IF Ends(r) THEN Left(f, r) ELSE f, L, kind)
      BY <1>3, <2>2, <2>6, <2>8, LeftRemembers
    <3>2. Remembers(f, L, kind)
      BY <3>1, Zenon DEF Ends
    <3> QED
      BY <2>2, <2>3, <2>4, <2>5, <2>6, <2>8, <3>2, Zenon DEF ExactFor
  <2> QED
    BY <2>7, <2>8
<1>5. {"temporal", "pairs"} \subseteq DOMAIN T
  <2>1. "READ" \in Kinds
    BY DEF Kinds
  <2> QED
    BY <1>2, <2>1, UnitAccessesAre
<1>6. L \in Seq(Loggable)
  BY <1>3 DEF Longer
<1> QED
  BY <1>2, <1>4, <1>5, <1>6 DEF Exact

\* block_exit keeps a trace right.
LEMMA ExactExit ==
  ASSUME NEW tr, NEW l, Exact(tr, l), NEW r \in Loggable, Ends(r)
  PROVE  Exact(BlockExit(tr, r), Append(l, r))
<1>1. l \in Seq(Loggable) /\ \A kind \in Kinds : ExactFor(tr, l, kind)
  BY DEF Exact
<1>2. PICK L, n, T : L = Append(l, r) /\ n = Len(l) + 1 /\ T = BlockExit(tr, r)
  OBVIOUS
<1>3. Longer(l, r, L, n)
  BY <1>1, <1>2, LongerIs
<1>4. /\ DOMAIN T = DOMAIN tr /\ T.pairs = tr.pairs
      /\ T.temporal = [kind \in Kinds |-> Left(tr.temporal[kind], r)]
  <2>1. "temporal" \in DOMAIN tr /\ "pairs" \in DOMAIN tr
    BY DEF Exact
  <2>2. PICK g : g = [kind \in Kinds |-> Left(tr.temporal[kind], r)]
    OBVIOUS
  <2>3. T = [tr EXCEPT !.temporal = g]
    BY <1>2, <2>2 DEF BlockExit, Left
  <2> QED
    BY <2>1, <2>2, <2>3
<1>5. ASSUME NEW kind \in Kinds PROVE ExactFor(T, L, kind)
  <2>1. PICK f : f = tr.temporal[kind]
    OBVIOUS
  <2>2. /\ IsFiniteSet(Touches(l, kind)) /\ Remembers(f, l, kind)
        /\ tr.pairs[kind] = CountOf(PairsOf(l, kind))
    BY <1>1, <2>1 DEF ExactFor
  <2>3. IsFiniteSet(Touches(L, kind))
    BY <1>3, <2>2, TouchesFinite
  <2>4. ~ Counts(r, kind)
    BY DEF Counts, Ends
  <2>5. CountOf(PairsOf(L, kind)) =
           IF Counts(r, kind) THEN CountOf(PairsOf(l, kind)) (+) CountOf(Again(f, r))
           ELSE CountOf(PairsOf(l, kind))
    BY <1>3, <2>2, PairsMore
  <2>6. Remembers(IF Ends(r) THEN Left(f, r) ELSE f, L, kind)
    BY <1>3, <2>2, <2>4, LeftRemembers
  <2>7. Remembers(Left(f, r), L, kind)
    BY <2>6, Zenon
  <2>8. T.temporal[kind] = Left(f, r) /\ T.pairs[kind] = tr.pairs[kind]
    BY <1>4, <2>1
  <2> QED
    BY <2>2, <2>3, <2>4, <2>5, <2>7, <2>8, Zenon DEF ExactFor
<1>6. {"temporal", "pairs"} \subseteq DOMAIN T /\ L \in Seq(Loggable)
  BY <1>3, <1>4 DEF Exact, Longer
<1> QED
  BY <1>2, <1>5, <1>6 DEF Exact

\* The record of an exit that is skipped changes nothing.
LEMMA ExactSkip ==
  ASSUME NEW tr, NEW l, Exact(tr, l), NEW r \in Loggable, "EXIT" \in r.flags, ~Ends(r)
  PROVE  Exact(tr, Append(l, r))
<1>1. l \in Seq(Loggable) /\ \A kind \in Kinds : ExactFor(tr, l, kind)
  BY DEF Exact
<1>2. PICK L, n : L = Append(l, r) /\ n = Len(l) + 1
  OBVIOUS
<1>3. Longer(l, r, L, n)
  BY <1>1, <1>2, LongerIs
<1>4. ASSUME NEW kind \in Kinds PROVE ExactFor(tr, L, kind)
  <2>1. PICK f : f = tr.temporal[kind]
    OBVIOUS
  <2>2. /\ IsFiniteSet(Touches(l, kind)) /\ Remembers(f, l, kind)
        /\ tr.pairs[kind] = CountOf(PairsOf(l, kind))
    BY <1>1, <2>1 DEF ExactFor
  <2>3. IsFiniteSet(Touches(L, kind))
    BY <1>3, <2>2, TouchesFinite
  <2>4. ~ Counts(r, kind)
    BY DEF Counts
  <2>5. CountOf(PairsOf(L, kind)) =
           IF Counts(r, kind) THEN CountOf(PairsOf(l, kind)) (+) CountOf(Again(f, r))
           ELSE CountOf(PairsOf(l, kind))
    BY <1>3, <2>2, PairsMore
  <2>6. Remembers(IF Ends(r) THEN Left(f, r) ELSE f, L, kind)
    BY <1>3, <2>2, <2>4, LeftRemembers
  <2>7. Remembers(f, L, kind)
    BY <2>6, Zenon
  <2> QED
    BY <2>1, <2>2, <2>3, <2>4, <2>5, <2>7, Zenon DEF ExactFor
<1>5. {"temporal", "pairs"} \subseteq DOMAIN tr /\ L \in Seq(Loggable)
  BY <1>3 DEF Exact, Longer
<1> QED
  BY <1>2, <1>4, <1>5 DEF Exact

\* A step that leaves the traces alone.
LEMMA LoggedStill ==
  ASSUME EInv, UNCHANGED <<kernel_trace, log>>, DOMAIN step' = Threads, DOMAIN job' = Threads,
         \A t \in Threads : step'[t] = "records" => step[t] = "records" /\ job'[t] = job[t]
  PROVE  EInv'
  BY DEF EInv, Logged

\* A step that makes the trace and the log of one kernel longer together.
LEMMA LoggedMore ==
  ASSUME EInv, NEW t \in Threads, step[t] = "records", NEW tr, NEW l, Exact(tr, l),
         kernel_trace' = [kernel_trace EXCEPT ![t][job[t]] = tr], log' = [log EXCEPT ![t][job[t]] = l],
         UNCHANGED <<step, job>>
  PROVE  EInv'
<1>1. PICK k : k = job[t]
  OBVIOUS
<1>2. /\ DOMAIN kernel_trace = Threads /\ DOMAIN log = Threads
      /\ \A u \in Threads : Logged(u)
  BY DEF EInv
<1>3. k \in DOMAIN log[t] /\ k \in DOMAIN kernel_trace[t]
  BY <1>1, <1>2 DEF Logged
<1>4. PICK K, G : K = [kernel_trace[t] EXCEPT ![k] = tr] /\ G = [log[t] EXCEPT ![k] = l]
  OBVIOUS
<1>5. kernel_trace' = [kernel_trace EXCEPT ![t] = K] /\ log' = [log EXCEPT ![t] = G]
  BY <1>1, <1>4
<1>6. /\ DOMAIN kernel_trace' = Threads /\ DOMAIN log' = Threads
      /\ kernel_trace'[t] = K /\ log'[t] = G
      /\ \A u \in Threads \ {t} : kernel_trace'[u] = kernel_trace[u] /\ log'[u] = log[u]
  BY <1>2, <1>5
<1>7. /\ DOMAIN K = DOMAIN kernel_trace[t] /\ DOMAIN G = DOMAIN log[t]
      /\ K[k] = tr /\ G[k] = l
      /\ \A x \in DOMAIN log[t] \ {k} : K[x] = kernel_trace[t][x] /\ G[x] = log[t][x]
  BY <1>2, <1>3, <1>4 DEF Logged
<1>8. Logged(t)'
  BY <1>2, <1>6, <1>7 DEF Logged
<1>9. \A u \in Threads \ {t} : Logged(u)'
  BY <1>2, <1>6 DEF Logged
<1> QED
  BY <1>6, <1>8, <1>9 DEF EInv

\* A step that makes the log of one kernel longer and leaves its trace.
LEMMA LoggedSkip ==
  ASSUME EInv, NEW t \in Threads, step[t] = "records", NEW l, Exact(kernel_trace[t][job[t]], l),
         log' = [log EXCEPT ![t][job[t]] = l], UNCHANGED <<kernel_trace, step, job>>
  PROVE  EInv'
<1>1. PICK k : k = job[t]
  OBVIOUS
<1>2. DOMAIN log = Threads /\ \A u \in Threads : Logged(u)
  BY DEF EInv
<1>3. k \in DOMAIN log[t]
  BY <1>1, <1>2 DEF Logged
<1>4. PICK G : G = [log[t] EXCEPT ![k] = l]
  OBVIOUS
<1>5. log' = [log EXCEPT ![t] = G]
  BY <1>1, <1>4
<1>6. DOMAIN log' = Threads /\ log'[t] = G /\ \A u \in Threads \ {t} : log'[u] = log[u]
  BY <1>2, <1>5
<1>7. DOMAIN G = DOMAIN log[t] /\ G[k] = l /\ \A x \in DOMAIN log[t] \ {k} : G[x] = log[t][x]
  BY <1>3, <1>4
<1>8. Logged(t)'
  BY <1>1, <1>2, <1>6, <1>7 DEF Logged
<1>9. \A u \in Threads \ {t} : Logged(u)'
  BY <1>2, <1>6 DEF Logged
<1> QED
  BY <1>6, <1>8, <1>9 DEF EInv

\* One record: an access, an end of a block that is taken or skipped, or a failure.
LEMMA RecordLogged ==
  ASSUME EInv, NEW t \in Threads, NEW r \in Records, Record(t, r)
  PROVE  EInv'
<1>1. step[t] = "records" /\ UNCHANGED job
  BY DEF Record
<1>2. PICK k : k = job[t]
  OBVIOUS
<1>3. PICK tr, l : tr = kernel_trace[t][k] /\ l = log[t][k]
  OBVIOUS
<1>4. Exact(tr, l)
  BY <1>1, <1>2, <1>3 DEF EInv, Logged
<1>5. PICK size \in IF "EXIT" \in r.flags THEN StaleSizes ELSE {r.size} :
        /\ Turn(t, r, size, k)
        /\ Ends(Found(r, size)) <=> "EXIT" \in r.flags /\ size # 0
  BY <1>2, RecordTurns
<1>6. PICK o : o = Found(r, size)
  OBVIOUS
<1>7. /\ o \in Loggable /\ o.flags = r.flags /\ o.size = size
      /\ "EXIT" \notin r.flags => o = r
  <2>1. o \in Loggable
    BY <1>5, <1>6 DEF Loggable, Found
  <2>2. "flags" \in DOMAIN r /\ "size" \in DOMAIN r
    BY TraceAssumption
  <2>3. o.flags = r.flags /\ o.size = size
    BY <1>5, <1>6, <2>2 DEF Found
  <2>4. ASSUME "EXIT" \notin r.flags PROVE o = r
    BY <1>6, <2>4 DEF Found
  <2> QED
    BY <2>1, <2>3, <2>4
<1>8. PICK L : L = Append(l, o)
  OBVIOUS
<1>9. CASE "EXIT" \in r.flags /\ size = 0
  <2>1. log' = [log EXCEPT ![t][k] = L] /\ UNCHANGED <<kernel_trace, step>>
    BY <1>3, <1>5, <1>6, <1>7, <1>8, <1>9 DEF Turn, Ends
  <2>2. Exact(tr, L)
    BY <1>4, <1>7, <1>8, <1>9, ExactSkip DEF Ends
  <2> QED
    BY <1>1, <1>2, <1>3, <2>1, <2>2, LoggedSkip
<1>10. CASE "EXIT" \notin r.flags /\ size = 0
  <2>1. UNCHANGED <<kernel_trace, log, step>>
    BY <1>5, <1>7, <1>10 DEF Turn, Ends
  <2>2. DOMAIN step = Threads /\ DOMAIN job = Threads
    BY DEF EInv
  <2> QED
    BY <1>1, <2>1, <2>2, LoggedStill
<1>11. CASE "EXIT" \in r.flags /\ size # 0
  <2>1. PICK T : T = BlockExit(tr, o)
    OBVIOUS
  <2>2. T = BlockExit(tr, r)
    <3>1. o.thread = r.thread /\ o.active = r.active
      BY <1>6, TraceAssumption DEF Found
    <3>2. ThreadsOf(o) = ThreadsOf(r)
      BY <3>1 DEF ThreadsOf, ThreadOf
    <3> QED
      BY <2>1, <3>2 DEF BlockExit
  <2>3. /\ kernel_trace' = [kernel_trace EXCEPT ![t][k] = T]
        /\ log' = [log EXCEPT ![t][k] = L] /\ UNCHANGED step
    BY <1>3, <1>5, <1>6, <1>8, <1>11, <2>2 DEF Turn
  <2>4. Exact(T, L)
    BY <1>4, <1>7, <1>8, <1>11, <2>1, ExactExit DEF Ends
  <2> QED
    BY <1>1, <1>2, <2>3, <2>4, LoggedMore
<1>12. CASE "EXIT" \notin r.flags /\ size # 0 /\ transform_pc(symbols[t], r.pc) # {}
  <2>1. PICK T : T = UnitAccesses(tr, r)
    OBVIOUS
  <2>2. /\ kernel_trace' = [kernel_trace EXCEPT ![t][k] = T]
        /\ log' = [log EXCEPT ![t][k] = L] /\ UNCHANGED step
    BY <1>3, <1>5, <1>6, <1>7, <1>8, <1>12, <2>1 DEF Turn, Ends
  <2>3. Exact(T, L)
    BY <1>4, <1>7, <1>8, <1>12, <2>1, ExactAccess
  <2> QED
    BY <1>1, <1>2, <2>2, <2>3, LoggedMore
<1>13. CASE "EXIT" \notin r.flags /\ size # 0 /\ transform_pc(symbols[t], r.pc) = {}
  <2>1. step' = [step EXCEPT ![t] = "return"] /\ UNCHANGED <<kernel_trace, log>>
    BY <1>5, <1>7, <1>13 DEF Turn, Fail, Go, Ends
  <2>2. DOMAIN step = Threads /\ DOMAIN job = Threads
    BY DEF EInv
  <2> QED
    BY <1>1, <2>1, <2>2, LoggedStill
<1> QED
  BY <1>9, <1>10, <1>11, <1>12, <1>13

\* analysis_begin gives a kernel an empty trace or continues the one it has.
LEMMA BeginLogged ==
  ASSUME EInv, NEW t \in Threads, AnalysisBegin(t)
  PROVE  EInv'
<1>1. PICK k : k = job[t]
  OBVIOUS
<1>2. PICK K, G : /\ K = IF k \in DOMAIN kernel_trace[t] THEN kernel_trace[t] ELSE Extended(kernel_trace[t], k, EmptyTrace)
                  /\ G = IF k \in DOMAIN log[t] THEN log[t] ELSE Extended(log[t], k, <<>>)
  OBVIOUS
<1>3. /\ kernel_trace' = [kernel_trace EXCEPT ![t] = K] /\ log' = [log EXCEPT ![t] = G]
      /\ step' = [step EXCEPT ![t] = "records"] /\ UNCHANGED job
  BY <1>1, <1>2 DEF AnalysisBegin, Go
<1>4. /\ DOMAIN step = Threads /\ DOMAIN job = Threads /\ DOMAIN kernel_trace = Threads /\ DOMAIN log = Threads
      /\ \A u \in Threads : Logged(u)
  BY DEF EInv
<1>5. /\ DOMAIN step' = Threads /\ DOMAIN job' = Threads /\ DOMAIN kernel_trace' = Threads /\ DOMAIN log' = Threads
      /\ kernel_trace'[t] = K /\ log'[t] = G /\ job'[t] = k
      /\ \A u \in Threads \ {t} : kernel_trace'[u] = kernel_trace[u] /\ log'[u] = log[u] /\ step'[u] = step[u]
  BY <1>1, <1>3, <1>4
<1>6. DOMAIN K = DOMAIN G /\ k \in DOMAIN G /\ \A x \in DOMAIN G : Exact(K[x], G[x])
  <2>1. DOMAIN kernel_trace[t] = DOMAIN log[t] /\ \A x \in DOMAIN log[t] : Exact(kernel_trace[t][x], log[t][x])
    BY <1>4 DEF Logged
  <2>2. CASE k \in DOMAIN log[t]
    BY <1>2, <2>1, <2>2
  <2>3. CASE k \notin DOMAIN log[t]
    <3>1. K = Extended(kernel_trace[t], k, EmptyTrace) /\ G = Extended(log[t], k, <<>>)
      BY <1>2, <2>1, <2>3
    <3>2. /\ DOMAIN K = DOMAIN log[t] \cup {k} /\ DOMAIN G = DOMAIN log[t] \cup {k}
          /\ K[k] = EmptyTrace /\ G[k] = <<>>
          /\ \A x \in DOMAIN log[t] : K[x] = kernel_trace[t][x] /\ G[x] = log[t][x]
      BY <2>1, <2>3, <3>1 DEF Extended
    <3> HIDE <1>2, <3>1
    <3> QED
      BY <2>1, <3>2, ExactEmpty
  <2> QED
    BY <2>2, <2>3
<1>7. Logged(t)'
  BY <1>5, <1>6 DEF Logged
<1>8. \A u \in Threads \ {t} : Logged(u)'
  BY <1>3, <1>4, <1>5 DEF Logged
<1> QED
  BY <1>5, <1>7, <1>8 DEF EInv

\* The pairs of pcs are exactly the accesses that found the value the access
\* before had found or left, for every set of records, any number of threads, and
\* traces of any length, with the ends of blocks whose records are not skipped
\* (update_temporal_trace, block_exit).
THEOREM RedundancyIsExact == Spec => []RedundancyExact
<1>1. Init => EInv
  <2> SUFFICES ASSUME Init PROVE EInv
    OBVIOUS
  <2>1. /\ DOMAIN step = Threads /\ DOMAIN job = Threads /\ DOMAIN kernel_trace = Threads /\ DOMAIN log = Threads
        /\ \A t \in Threads : DOMAIN kernel_trace[t] = {} /\ DOMAIN log[t] = {} /\ step[t] = "idle"
    BY DEF Init, NoTrace
  <2> QED
    BY <2>1 DEF EInv, Logged
<1>2. EInv /\ [Next]_vars => EInv'
  <2> SUFFICES ASSUME EInv, [Next]_vars PROVE EInv'
    OBVIOUS
  <2>0. DOMAIN step = Threads /\ DOMAIN job = Threads
    BY DEF EInv
  <2>1. ASSUME NEW t \in Threads, NEW k \in Kernels, Call(t, k) PROVE EInv'
    BY <2>0, <2>1, LoggedStill DEF Call, Go
  <2>2. ASSUME NEW t \in Threads, Lookup(t) \/ LookupCache(t) \/ LookupAgain(t) PROVE EInv'
    <3>1. /\ UNCHANGED <<kernel_trace, log, job>>
          /\ \E w \in {"begin", "cache", "register", "return"} : step' = [step EXCEPT ![t] = w]
      BY <2>2 DEF Lookup, LookupCache, LookupAgain, Go, Fail
    <3> QED
      BY <2>0, <3>1, LoggedStill
  <2>3. ASSUME NEW t \in Threads, Register(t) PROVE EInv'
    <3>1. /\ UNCHANGED <<kernel_trace, log, job>>
          /\ \E w \in {"again", "return"} : step' = [step EXCEPT ![t] = w]
      BY <2>3 DEF Register, Go, Fail
    <3> QED
      BY <2>0, <3>1, LoggedStill
  <2>4. ASSUME NEW t \in Threads, AnalysisEnd(t) \/ Return(t) \/ FlushThread(t) PROVE EInv'
    <3>1. /\ UNCHANGED <<kernel_trace, log, job>>
          /\ \E w \in {"return", "idle", "done"} : step' = [step EXCEPT ![t] = w]
      BY <2>4 DEF AnalysisEnd, Return, FlushThread, Go
    <3> QED
      BY <2>0, <3>1, LoggedStill
  <2>5. ASSUME NEW c, NEW m, LoadModule(c, m) \/ UnloadModule(c, m) PROVE EInv'
    <3>1. UNCHANGED <<kernel_trace, log, job, step>>
      BY <2>5 DEF LoadModule, UnloadModule, state
    <3> QED
      BY <2>0, <3>1, LoggedStill
  <2>6. CASE UNCHANGED vars
    <3>1. UNCHANGED <<kernel_trace, log, job, step>>
      BY <2>6 DEF vars, state
    <3> QED
      BY <2>0, <3>1, LoggedStill
  <2> QED
    BY <2>1, <2>2, <2>3, <2>4, <2>5, <2>6, BeginLogged, RecordLogged DEF Next
<1>3. EInv => RedundancyExact
  <2> SUFFICES ASSUME EInv, NEW t \in Threads, NEW k \in DOMAIN kernel_trace[t], NEW kind \in Kinds
               PROVE  kernel_trace[t][k].pairs[kind] = HitBag(log[t][k], kind)
    BY Zenon DEF RedundancyExact, Redundant, HitBag, Hits, Follows, PairOf
  <2>1. kernel_trace[t][k].pairs[kind] = CountOf(PairsOf(log[t][k], kind))
    BY DEF EInv, Logged, Exact, ExactFor
  <2> QED
    BY <2>1, HitBagIs
<1> QED
  BY <1>1, <1>2, <1>3, PTL DEF Spec

-----------------------------------------------------------------------------
(* Sums *)

\* A set of naturals that is not empty has a least element.
LEMMA LeastOf ==
  ASSUME NEW T \in SUBSET Nat, T # {}
  PROVE  \E x \in T : \A y \in T : x <= y
<1>1. PICK x \in T : \A y \in T : ~ (<<y, x>> \in OpToRel(<, Nat))
  BY NatLessThanWellFounded, WFMin, Zenon
<1>2. \A y \in T : ~ (<<y, x>> \in {p \in Nat \X Nat : p[1] < p[2]})
  BY <1>1, Zenon DEF OpToRel
<1>3. ASSUME NEW y \in T PROVE ~ (y < x)
  <2>1. <<y, x>> \in Nat \X Nat /\ <<y, x>>[1] = y /\ <<y, x>>[2] = x
    OBVIOUS
  <2> QED
    BY <1>2, <2>1, Zenon
<1> QED
  BY <1>3

\* A bounded set has a largest member.
LEMMA LargestOf ==
  ASSUME NEW n \in Nat, NEW S \in SUBSET Nat, S # {}, \A y \in S : y <= n
  PROVE  Max(S) \in S /\ \A y \in S : y <= Max(S)
<1>0. \A x \in S : x \in Nat /\ n - x \in Nat
  OBVIOUS
<1>1. PICK T : T = {n - x : x \in S}
  OBVIOUS
<1>2. T \in SUBSET Nat /\ T # {}
  BY <1>0, <1>1
<1>3. PICK m \in T : \A k \in T : m <= k
  BY <1>2, LeastOf
<1>4. PICK x \in S : m = n - x
  BY <1>1
<1>5. \A y \in S : x >= y
  BY <1>0, <1>1, <1>3, <1>4
<1>6. Max(S) \in S /\ \A y \in S : Max(S) >= y
  BY <1>4, <1>5 DEF Max
<1> QED
  BY <1>6

\* Of the finite sets in a set of sets there is a smallest one.
LEMMA SmallestOf ==
  ASSUME NEW F, F # {}, \A s \in F : IsFiniteSet(s)
  PROVE  \E s \in F : \A t \in F : Cardinality(s) <= Cardinality(t)
<1> DEFINE sizes == {Cardinality(s) : s \in F}
<1>1. \A s \in F : Cardinality(s) \in Nat
  BY FS_CardinalityType
<1>2. sizes \in SUBSET Nat /\ sizes # {}
  BY <1>1
<1>3. PICK n \in sizes : \A m \in sizes : n <= m
  <2> HIDE DEF sizes
  <2> QED
    BY <1>2, LeastOf
<1> QED
  BY <1>3

Some(s) == CHOOSE x \in s : TRUE

\* The sum of a function over a set, as in TemporalViews.
SumOver(map, S) == FoldSet(LAMBDA x, n : n + map[x], 0, S)

\* One step of its recursion.
SumStep(g, map, s) == IF s = {} THEN 0 ELSE g[s \ {Some(s)}] + map[Some(s)]

SumOn(g, map, D) == g = [s \in D |-> SumStep(g, map, s)]
SumOf(g, map, S) == SumOn(g, map, SUBSET S)

\* The fold of SumOver is that recursion.
LEMMA SumIs ==
  ASSUME NEW map, NEW S
  PROVE  SumOver(map, S) = (CHOOSE g : SumOf(g, map, S))[S]
  BY Zenon DEF SumOver, FoldSet, MapThenFoldSet, SumOf, SumOn, SumStep, Some

\* What remains of a finite set without its chosen element is smaller.
LEMMA SomeOf ==
  ASSUME NEW s, IsFiniteSet(s), s # {}
  PROVE  /\ Some(s) \in s
         /\ IsFiniteSet(s \ {Some(s)})
         /\ Cardinality(s) \in Nat /\ Cardinality(s \ {Some(s)}) \in Nat
         /\ Cardinality(s \ {Some(s)}) = Cardinality(s) - 1
<1>1. Some(s) \in s
  BY DEF Some
<1> QED
  BY <1>1, FS_RemoveElement, FS_CardinalityType

\* The recursion defines a function on the subsets of a finite set.
LEMMA SumExists ==
  ASSUME NEW map, NEW S, IsFiniteSet(S)
  PROVE  \E g : SumOf(g, map, S)
<1> DEFINE Small(n) == {s \in SUBSET S : Cardinality(s) <= n}
           Fails == {n \in Nat : ~ \E g : SumOn(g, map, Small(n))}
<1>1. \A s \in SUBSET S : IsFiniteSet(s) /\ Cardinality(s) \in Nat
  BY FS_Subset, FS_CardinalityType
<1>2. Fails = {}
  <2>1. SUFFICES ASSUME Fails # {} PROVE FALSE
    OBVIOUS
  <2>2. PICK n \in Fails : \A m \in Fails : n <= m
    <3>1. Fails \in SUBSET Nat
      OBVIOUS
    <3> HIDE DEF Fails
    <3> QED
      BY <2>1, <3>1, LeastOf
  <2>3. n \in Nat /\ ~ \E g : SumOn(g, map, Small(n))
    BY <2>2
  <2>4. CASE n = 0
    <3>1. \A s \in Small(n) : s = {}
      BY <1>1, <2>4, FS_EmptySet
    <3>2. PICK D : D = Small(n)
      OBVIOUS
    <3>3. PICK g : g = [s \in D |-> 0]
      OBVIOUS
    <3>4. \A s \in D : SumStep(g, map, s) = 0
      BY <3>1, <3>2 DEF SumStep
    <3>5. SumOn(g, map, D)
      BY <3>3, <3>4 DEF SumOn
    <3> QED
      BY <2>3, <3>2, <3>5
  <2>5. CASE n # 0
    <3>1. n - 1 \in Nat /\ n - 1 \notin Fails
      <4>1. n - 1 \in Nat /\ ~ (n <= n - 1)
        BY <2>3, <2>5
      <4> HIDE DEF Fails
      <4> QED
        BY <2>2, <4>1
    <3>2. PICK g : SumOn(g, map, Small(n - 1))
      BY <3>1
    <3>3. PICK D, E : D = Small(n) /\ E = Small(n - 1)
      OBVIOUS
    <3>4. g = [s \in E |-> SumStep(g, map, s)]
      BY <3>2, <3>3 DEF SumOn
    <3>5. PICK h : h = [s \in D |-> IF s \in E THEN g[s] ELSE SumStep(g, map, s)]
      OBVIOUS
    <3>6. ASSUME NEW s \in D PROVE h[s] = SumStep(h, map, s)
      <4>1. h[s] = SumStep(g, map, s)
        BY <3>4, <3>5
      <4>2. CASE s = {}
        BY <4>1, <4>2 DEF SumStep
      <4>3. CASE s # {}
        <5>1. s \ {Some(s)} \in E /\ s \ {Some(s)} \in D
          <6>1. s \in SUBSET S /\ IsFiniteSet(s) /\ Cardinality(s) <= n
            BY <1>1, <3>3
          <6>2. /\ Cardinality(s) \in Nat /\ Cardinality(s \ {Some(s)}) \in Nat
                /\ Cardinality(s \ {Some(s)}) = Cardinality(s) - 1
            BY <4>3, <6>1, SomeOf
          <6>3. s \ {Some(s)} \in SUBSET S
            BY <6>1
          <6>4. Cardinality(s \ {Some(s)}) <= n - 1 /\ Cardinality(s \ {Some(s)}) <= n
            BY <2>3, <6>1, <6>2
          <6> QED
            BY <3>3, <6>3, <6>4
        <5>2. h[s \ {Some(s)}] = g[s \ {Some(s)}]
          BY <3>5, <5>1
        <5> QED
          BY <4>1, <4>3, <5>2 DEF SumStep
      <4> QED
        BY <4>2, <4>3
    <3>7. h = [s \in D |-> SumStep(h, map, s)]
      <4>1. h = [s \in D |-> h[s]]
        BY <3>5
      <4> QED
        BY <3>6, <4>1, Zenon
    <3> QED
      BY <2>3, <3>3, <3>7 DEF SumOn
  <2> QED
    BY <2>4, <2>5
<1>3. Cardinality(S) \in Nat /\ Cardinality(S) \notin Fails
  <2>1. Cardinality(S) \in Nat
    BY FS_CardinalityType
  <2> HIDE DEF Fails
  <2> QED
    BY <1>2, <2>1
<1>4. PICK g : SumOn(g, map, Small(Cardinality(S)))
  BY <1>3
<1>5. Small(Cardinality(S)) = SUBSET S
  <2>1. \A s \in SUBSET S : Cardinality(s) <= Cardinality(S)
    BY FS_Subset
  <2> QED
    BY <2>1
<1> QED
  BY <1>4, <1>5 DEF SumOf

\* Two such functions agree where their maps do.
LEMMA SumsAgree ==
  ASSUME NEW map, NEW other, NEW S, NEW T, T \subseteq S, IsFiniteSet(T),
         \A m \in T : map[m] = other[m],
         NEW g, SumOf(g, map, S), NEW h, SumOf(h, other, T)
  PROVE  g[T] = h[T]
<1> DEFINE Fails == {s \in SUBSET T : g[s] # h[s]}
<1>1. \A s \in SUBSET T : IsFiniteSet(s)
  BY FS_Subset
<1>2. SUFFICES ASSUME Fails # {} PROVE FALSE
  OBVIOUS
<1>3. PICK s \in Fails : \A t \in Fails : Cardinality(s) <= Cardinality(t)
  <2>1. \A t \in Fails : IsFiniteSet(t)
    BY <1>1
  <2> HIDE DEF Fails
  <2> QED
    BY <1>2, <2>1, SmallestOf
<1>4. s \in SUBSET T /\ s \in SUBSET S /\ g[s] # h[s] /\ IsFiniteSet(s)
  BY <1>1, <1>3
<1>5. g[s] = SumStep(g, map, s) /\ h[s] = SumStep(h, other, s)
  <2>1. g = [t \in SUBSET S |-> SumStep(g, map, t)] /\ h = [t \in SUBSET T |-> SumStep(h, other, t)]
    BY DEF SumOf, SumOn
  <2> QED
    BY <1>4, <2>1, Zenon
<1>6. s # {}
  BY <1>4, <1>5 DEF SumStep
<1>7. /\ Some(s) \in s /\ Cardinality(s) \in Nat /\ Cardinality(s \ {Some(s)}) \in Nat
      /\ Cardinality(s \ {Some(s)}) = Cardinality(s) - 1
  BY <1>4, <1>6, SomeOf
<1>8. g[s \ {Some(s)}] = h[s \ {Some(s)}]
  <2>1. s \ {Some(s)} \notin Fails
    <3>1. ~ (Cardinality(s) <= Cardinality(s \ {Some(s)}))
      BY <1>7
    <3> HIDE DEF Fails
    <3> QED
      BY <1>3, <3>1
  <2>2. s \ {Some(s)} \in SUBSET T
    BY <1>4
  <2> QED
    BY <2>1, <2>2
<1>9. map[Some(s)] = other[Some(s)]
  BY <1>4, <1>7
<1> QED
  BY <1>4, <1>5, <1>6, <1>8, <1>9 DEF SumStep

\* The sum depends only on the values that are summed up.
LEMMA SumOverSame ==
  ASSUME NEW map, NEW other, NEW S, IsFiniteSet(S), \A m \in S : map[m] = other[m]
  PROVE  SumOver(map, S) = SumOver(other, S)
<1>1. PICK g : g = (CHOOSE f : SumOf(f, map, S))
  OBVIOUS
<1>2. PICK h : h = (CHOOSE f : SumOf(f, other, S))
  OBVIOUS
<1>3. SumOf(g, map, S) /\ SumOf(h, other, S)
  BY <1>1, <1>2, SumExists
<1>4. g[S] = h[S]
  <2>1. S \subseteq S
    OBVIOUS
  <2> QED
    BY <1>3, <2>1, SumsAgree
<1> QED
  BY <1>1, <1>2, <1>4, SumIs

\* The sum over nothing.
LEMMA SumOverEmpty ==
  ASSUME NEW map
  PROVE  SumOver(map, {}) = 0
<1>1. PICK g : g = (CHOOSE f : SumOf(f, map, {}))
  OBVIOUS
<1>2. SumOf(g, map, {})
  BY <1>1, SumExists, FS_EmptySet
<1>3. g[{}] = SumStep(g, map, {})
  <2>1. g = [t \in SUBSET {} |-> SumStep(g, map, t)] /\ {} \in SUBSET {}
    BY <1>2 DEF SumOf, SumOn
  <2> QED
    BY <2>1, Zenon
<1> QED
  BY <1>1, <1>3, SumIs DEF SumStep

\* The first step of a sum.
LEMMA SumOverStep ==
  ASSUME NEW map, NEW S, IsFiniteSet(S), S # {}
  PROVE  SumOver(map, S) = SumOver(map, S \ {Some(S)}) + map[Some(S)]
<1>0. PICK U : U = S \ {Some(S)}
  OBVIOUS
<1>1. PICK g : g = (CHOOSE f : SumOf(f, map, S))
  OBVIOUS
<1>2. PICK h : h = (CHOOSE f : SumOf(f, map, U))
  OBVIOUS
<1>3. IsFiniteSet(U) /\ U \subseteq S
  BY <1>0, SomeOf
<1>4. SumOf(g, map, S) /\ SumOf(h, map, U)
  BY <1>1, <1>2, <1>3, SumExists
<1>5. g[U] = h[U]
  <2>1. PICK other : other = map
    OBVIOUS
  <2>2. SumOf(h, other, U) /\ \A m \in U : map[m] = other[m]
    BY <1>4, <2>1
  <2> QED
    BY <1>3, <1>4, <2>2, SumsAgree
<1>6. g[S] = SumStep(g, map, S)
  <2>1. g = [t \in SUBSET S |-> SumStep(g, map, t)] /\ S \in SUBSET S
    BY <1>4 DEF SumOf, SumOn
  <2> QED
    BY <2>1, Zenon
<1>7. SumOver(map, S) = g[S] /\ SumOver(map, U) = h[U]
  BY <1>1, <1>2, SumIs
<1> QED
  BY <1>0, <1>5, <1>6, <1>7 DEF SumStep

\* A sum of naturals is a natural.
LEMMA SumOverNat ==
  ASSUME NEW map, NEW S, IsFiniteSet(S), \A m \in S : map[m] \in Nat
  PROVE  SumOver(map, S) \in Nat
<1> DEFINE Fails == {s \in SUBSET S : SumOver(map, s) \notin Nat}
<1>1. \A s \in SUBSET S : IsFiniteSet(s)
  BY FS_Subset
<1>2. SUFFICES ASSUME Fails # {} PROVE FALSE
  OBVIOUS
<1>3. PICK s \in Fails : \A t \in Fails : Cardinality(s) <= Cardinality(t)
  <2>1. \A t \in Fails : IsFiniteSet(t)
    BY <1>1
  <2> HIDE DEF Fails
  <2> QED
    BY <1>2, <2>1, SmallestOf
<1>4. s \in SUBSET S /\ SumOver(map, s) \notin Nat /\ IsFiniteSet(s)
  BY <1>1, <1>3
<1>5. s # {}
  BY <1>4, SumOverEmpty
<1>6. /\ Some(s) \in s /\ Cardinality(s) \in Nat /\ Cardinality(s \ {Some(s)}) \in Nat
      /\ Cardinality(s \ {Some(s)}) = Cardinality(s) - 1
  BY <1>4, <1>5, SomeOf
<1>7. s \ {Some(s)} \notin Fails
  <2>1. ~ (Cardinality(s) <= Cardinality(s \ {Some(s)}))
    BY <1>6
  <2> HIDE DEF Fails
  <2> QED
    BY <1>3, <2>1
<1>8. SumOver(map, s \ {Some(s)}) \in Nat
  BY <1>4, <1>7
<1>9. map[Some(s)] \in Nat
  BY <1>4, <1>6
<1>10. SumOver(map, s) = SumOver(map, s \ {Some(s)}) + map[Some(s)]
  BY <1>4, <1>5, SumOverStep
<1>11. PICK a, b : a = map[Some(s)] /\ b = SumOver(map, s \ {Some(s)})
  OBVIOUS
<1>12. b + a \in Nat
  BY <1>8, <1>9, <1>11
<1> QED
  BY <1>4, <1>10, <1>11, <1>12

\* The sum does not depend on the order: any element can be taken out first.
LEMMA SumOverAdd ==
  ASSUME NEW map, NEW S, IsFiniteSet(S), \A m \in S : map[m] \in Nat, NEW x \in S
  PROVE  SumOver(map, S) = SumOver(map, S \ {x}) + map[x]
<1> DEFINE Adds(s) == \A y \in s : SumOver(map, s) = SumOver(map, s \ {y}) + map[y]
           Fails == {s \in SUBSET S : ~ Adds(s)}
<1>1. \A s \in SUBSET S : IsFiniteSet(s)
  BY FS_Subset
<1>2. SUFFICES ASSUME Fails # {} PROVE FALSE
  OBVIOUS
<1>3. PICK s \in Fails : \A t \in Fails : Cardinality(s) <= Cardinality(t)
  <2>1. \A t \in Fails : IsFiniteSet(t)
    BY <1>1
  <2> HIDE DEF Fails
  <2> QED
    BY <1>2, <2>1, SmallestOf
<1>4. s \in SUBSET S /\ IsFiniteSet(s) /\ ~ Adds(s)
  BY <1>1, <1>3
<1>5. PICK y \in s : SumOver(map, s) # SumOver(map, s \ {y}) + map[y]
  BY <1>4
<1>6. PICK c : c = Some(s)
  OBVIOUS
<1>7. SumOver(map, s) = SumOver(map, s \ {c}) + map[c]
  BY <1>4, <1>5, <1>6, SumOverStep
<1>8. y # c
  BY <1>5, <1>7
<1>9. c \in s
  BY <1>5, <1>6 DEF Some
<1>10. ASSUME NEW z \in s PROVE Adds(s \ {z})
  <2>1. s \ {z} \in SUBSET S
    BY <1>4
  <2>2. Cardinality(s \ {z}) = Cardinality(s) - 1 /\ Cardinality(s) \in Nat
    BY <1>4, FS_RemoveElement, FS_CardinalityType
  <2>3. s \ {z} \notin Fails
    <3>1. ~ (Cardinality(s) <= Cardinality(s \ {z}))
      BY <2>2
    <3> HIDE DEF Fails
    <3> QED
      BY <1>3, <3>1
  <2> HIDE DEF Adds
  <2> QED
    BY <2>1, <2>3
<1>11. SumOver(map, s \ {c}) = SumOver(map, (s \ {c}) \ {y}) + map[y]
  <2>1. y \in s \ {c}
    BY <1>5, <1>8
  <2> QED
    BY <1>9, <1>10, <2>1
<1>12. SumOver(map, s \ {y}) = SumOver(map, (s \ {y}) \ {c}) + map[c]
  <2>1. c \in s \ {y}
    BY <1>8, <1>9
  <2> QED
    BY <1>5, <1>10, <2>1
<1>13. PICK U : U = (s \ {c}) \ {y}
  OBVIOUS
<1>14. U = (s \ {y}) \ {c}
  BY <1>13
<1>15. PICK a, b, d : a = map[c] /\ b = map[y] /\ d = SumOver(map, U)
  OBVIOUS
<1>16. a \in Nat /\ b \in Nat /\ d \in Nat
  <2>1. a \in Nat /\ b \in Nat
    BY <1>4, <1>5, <1>9, <1>15
  <2>2. IsFiniteSet(U) /\ \A m \in U : map[m] \in Nat
    <3>1. U \in SUBSET S
      BY <1>4, <1>13
    <3> QED
      BY <1>1, <3>1
  <2> QED
    BY <1>15, <2>1, <2>2, SumOverNat
<1>17. SumOver(map, s) = (d + b) + a /\ SumOver(map, s \ {y}) + map[y] = (d + a) + b
  BY <1>7, <1>11, <1>12, <1>13, <1>14, <1>15
<1>18. (d + b) + a = (d + a) + b
  BY <1>16
<1> QED
  BY <1>5, <1>17, <1>18

\* The sum of sums.
LEMMA SumOverPlus ==
  ASSUME NEW f, NEW g, NEW h, NEW S, IsFiniteSet(S),
         \A x \in S : f[x] \in Nat /\ g[x] \in Nat /\ h[x] = f[x] + g[x]
  PROVE  SumOver(h, S) = SumOver(f, S) + SumOver(g, S)
<1> DEFINE Fails == {s \in SUBSET S : SumOver(h, s) # SumOver(f, s) + SumOver(g, s)}
<1>1. \A s \in SUBSET S : IsFiniteSet(s)
  BY FS_Subset
<1>2. SUFFICES ASSUME Fails # {} PROVE FALSE
  OBVIOUS
<1>3. PICK s \in Fails : \A t \in Fails : Cardinality(s) <= Cardinality(t)
  <2>1. \A t \in Fails : IsFiniteSet(t)
    BY <1>1
  <2> HIDE DEF Fails
  <2> QED
    BY <1>2, <2>1, SmallestOf
<1>4. s \in SUBSET S /\ IsFiniteSet(s) /\ SumOver(h, s) # SumOver(f, s) + SumOver(g, s)
  BY <1>1, <1>3
<1>5. s # {}
  <2>1. SumOver(h, {}) = 0 /\ SumOver(f, {}) = 0 /\ SumOver(g, {}) = 0
    BY SumOverEmpty
  <2>2. SumOver(h, {}) = SumOver(f, {}) + SumOver(g, {})
    BY <2>1
  <2> HIDE DEF Fails
  <2> QED
    BY <1>4, <2>2, Zenon
<1>6. PICK x \in s : TRUE
  BY <1>5
<1>7. PICK u : u = s \ {x}
  OBVIOUS
<1>8. u \in SUBSET S /\ u \notin Fails /\ IsFiniteSet(u) /\ x \in S /\ x \notin u /\ s = u \cup {x}
  <2>1. u \in SUBSET S /\ x \in S /\ IsFiniteSet(u)
    BY <1>1, <1>4, <1>6, <1>7
  <2>2. Cardinality(u) = Cardinality(s) - 1 /\ Cardinality(s) \in Nat
    BY <1>4, <1>6, <1>7, FS_RemoveElement, FS_CardinalityType
  <2>3. u \notin Fails
    <3>1. ~ (Cardinality(s) <= Cardinality(u))
      BY <2>2
    <3> HIDE DEF Fails
    <3> QED
      BY <1>3, <3>1
  <2> QED
    BY <1>6, <1>7, <2>1, <2>3
<1>9. SumOver(h, u) = SumOver(f, u) + SumOver(g, u)
  BY <1>8
<1>10. /\ SumOver(h, s) = SumOver(h, u) + h[x] /\ SumOver(f, s) = SumOver(f, u) + f[x]
       /\ SumOver(g, s) = SumOver(g, u) + g[x]
  <2>1. \A y \in s : f[y] \in Nat /\ g[y] \in Nat /\ h[y] \in Nat
    BY <1>4
  <2> QED
    BY <1>4, <1>6, <1>7, <2>1, SumOverAdd
<1>11. SumOver(f, u) \in Nat /\ SumOver(g, u) \in Nat
  <2>1. \A y \in u : f[y] \in Nat /\ g[y] \in Nat
    BY <1>8
  <2> QED
    BY <1>8, <2>1, SumOverNat
<1>12. f[x] \in Nat /\ g[x] \in Nat /\ h[x] = f[x] + g[x]
  BY <1>8
<1>13. PICK a, b, c, d : a = SumOver(f, u) /\ b = SumOver(g, u) /\ c = f[x] /\ d = g[x]
  OBVIOUS
<1>14. (a + b) + (c + d) = (a + c) + (b + d)
  BY <1>11, <1>12, <1>13
<1> QED
  BY <1>4, <1>9, <1>10, <1>12, <1>13, <1>14

\* Zeros do not count.
LEMMA SumOverPart ==
  ASSUME NEW f, NEW S, IsFiniteSet(S), NEW T, T \subseteq S,
         \A x \in S : f[x] \in Nat, \A x \in S \ T : f[x] = 0
  PROVE  SumOver(f, S) = SumOver(f, T)
<1> DEFINE Fails == {s \in SUBSET S : T \subseteq s /\ SumOver(f, s) # SumOver(f, T)}
<1>1. \A s \in SUBSET S : IsFiniteSet(s)
  BY FS_Subset
<1>2. SUFFICES ASSUME Fails # {} PROVE FALSE
  OBVIOUS
<1>3. PICK s \in Fails : \A t \in Fails : Cardinality(s) <= Cardinality(t)
  <2>1. \A t \in Fails : IsFiniteSet(t)
    BY <1>1
  <2> HIDE DEF Fails
  <2> QED
    BY <1>2, <2>1, SmallestOf
<1>4. s \in SUBSET S /\ IsFiniteSet(s) /\ T \subseteq s /\ SumOver(f, s) # SumOver(f, T)
  BY <1>1, <1>3
<1>5. s # T
  BY <1>4
<1>6. PICK x \in s : x \notin T
  BY <1>4, <1>5
<1>7. PICK u : u = s \ {x}
  OBVIOUS
<1>8. u \in SUBSET S /\ u \notin Fails /\ IsFiniteSet(u) /\ x \in S /\ x \notin u /\ s = u \cup {x}
  <2>1. u \in SUBSET S /\ x \in S /\ IsFiniteSet(u)
    BY <1>1, <1>4, <1>6, <1>7
  <2>2. Cardinality(u) = Cardinality(s) - 1 /\ Cardinality(s) \in Nat
    BY <1>4, <1>6, <1>7, FS_RemoveElement, FS_CardinalityType
  <2>3. u \notin Fails
    <3>1. ~ (Cardinality(s) <= Cardinality(u))
      BY <2>2
    <3> HIDE DEF Fails
    <3> QED
      BY <1>3, <3>1
  <2> QED
    BY <1>6, <1>7, <2>1, <2>3
<1>9. SumOver(f, u) = SumOver(f, T)
  BY <1>4, <1>6, <1>7, <1>8
<1>10. SumOver(f, s) = SumOver(f, u) + f[x]
  <2>1. \A y \in s : f[y] \in Nat
    BY <1>4
  <2> QED
    BY <1>4, <1>6, <1>7, <2>1, SumOverAdd
<1>11. SumOver(f, u) \in Nat
  <2>1. \A y \in u : f[y] \in Nat
    BY <1>8
  <2> QED
    BY <1>8, <2>1, SumOverNat
<1>12. f[x] = 0
  BY <1>6, <1>8
<1> QED
  BY <1>4, <1>9, <1>10, <1>11, <1>12

\* What is counted, counted together.
LEMMA SumOverCounts ==
  ASSUME NEW h, IsFiniteSet(DOMAIN h)
  PROVE  /\ IsFiniteSet(DOMAIN CountOf(h))
         /\ \A v \in DOMAIN CountOf(h) : CountOf(h)[v] \in Nat
         /\ SumOver(CountOf(h), DOMAIN CountOf(h)) = Cardinality(DOMAIN h)
<1>a. PICK c, S, D : c = CountOf(h) /\ S = {h[x] : x \in DOMAIN h} /\ D = DOMAIN h
  OBVIOUS
<1>b. DOMAIN c = S /\ \A v \in S : c[v] = Cardinality({x \in D : h[x] = v})
  BY <1>a DEF CountOf
<1>c. IsFiniteSet(S)
  <2>1. PICK g : g = [x \in D |-> h[x]]
    OBVIOUS
  <2>2. g \in Surjection(D, S)
    BY <1>a, <2>1 DEF Surjection
  <2> QED
    BY <1>a, <2>2, FS_Surjection
<1>d. \A v : IsFiniteSet({x \in D : h[x] = v}) /\ Cardinality({x \in D : h[x] = v}) \in Nat
  BY <1>a, FS_Subset, FS_CardinalityType
<1>e. \A v \in S : c[v] \in Nat
  BY <1>b, <1>d
<1>f. SUFFICES SumOver(c, S) = Cardinality(D)
  BY <1>a, <1>b, <1>c, <1>e
<1> DEFINE At(s) == {x \in D : h[x] \in s}
           Fails == {s \in SUBSET S : SumOver(c, s) # Cardinality(At(s))}
<1>g. At(S) = D
  BY <1>a
<1>1. \A s \in SUBSET S : IsFiniteSet(s)
  BY <1>c, FS_Subset
<1>2. SUFFICES ASSUME Fails # {} PROVE FALSE
  BY <1>g
<1>3. PICK s \in Fails : \A t \in Fails : Cardinality(s) <= Cardinality(t)
  <2>1. \A t \in Fails : IsFiniteSet(t)
    BY <1>1
  <2> HIDE DEF Fails
  <2> QED
    BY <1>2, <2>1, SmallestOf
<1>4. s \in SUBSET S /\ IsFiniteSet(s) /\ SumOver(c, s) # Cardinality(At(s))
  BY <1>1, <1>3
<1>5. s # {}
  <2>1. At({}) = {}
    OBVIOUS
  <2>2. Cardinality(At({})) = 0
    BY <2>1, FS_EmptySet
  <2> HIDE DEF At
  <2> QED
    BY <1>4, <2>2, SumOverEmpty
<1>6. PICK x \in s : TRUE
  BY <1>5
<1>7. PICK u : u = s \ {x}
  OBVIOUS
<1>8. u \in SUBSET S /\ u \notin Fails /\ IsFiniteSet(u) /\ x \in S /\ x \notin u /\ s = u \cup {x}
  <2>1. u \in SUBSET S /\ x \in S /\ IsFiniteSet(u)
    BY <1>1, <1>4, <1>6, <1>7
  <2>2. Cardinality(u) = Cardinality(s) - 1 /\ Cardinality(s) \in Nat
    BY <1>4, <1>6, <1>7, FS_RemoveElement, FS_CardinalityType
  <2>3. u \notin Fails
    <3>1. ~ (Cardinality(s) <= Cardinality(u))
      BY <2>2
    <3> HIDE DEF Fails
    <3> QED
      BY <1>3, <3>1
  <2> QED
    BY <1>6, <1>7, <2>1, <2>3
<1>9. SumOver(c, u) = Cardinality(At(u))
  BY <1>8
<1>10. SumOver(c, s) = SumOver(c, u) + c[x]
  <2>1. \A y \in s : c[y] \in Nat
    BY <1>e, <1>4
  <2> QED
    BY <1>4, <1>6, <1>7, <2>1, SumOverAdd
<1>11. Cardinality(At(s)) = Cardinality(At(u)) + c[x]
  <2>1. PICK A, B : A = At(u) /\ B = {y \in D : h[y] = x}
    OBVIOUS
  <2>2. At(s) = A \cup B /\ A \cap B = {}
    BY <1>8, <2>1
  <2>3. IsFiniteSet(A) /\ IsFiniteSet(B)
    BY <1>a, <2>1, FS_Subset
  <2>4. Cardinality(A \cup B) = Cardinality(A) + Cardinality(B) - Cardinality(A \cap B)
    BY <2>3, FS_Union
  <2>5. Cardinality(A) \in Nat /\ Cardinality(B) \in Nat /\ Cardinality(A \cap B) = 0
    BY <2>2, <2>3, FS_CardinalityType, FS_EmptySet
  <2>6. c[x] = Cardinality(B)
    BY <1>b, <1>8, <2>1
  <2> HIDE DEF At
  <2> QED
    BY <2>1, <2>2, <2>4, <2>5, <2>6
<1> HIDE DEF At
<1> QED
  BY <1>4, <1>9, <1>10, <1>11

-----------------------------------------------------------------------------
(* Bags *)

\* A finite bag.
FiniteBag(b) == IsFiniteSet(DOMAIN b) /\ \A x \in DOMAIN b : b[x] \in Nat

\* How often a bag has entries of a pc.
PcEntries(b, pc) == {x \in DOMAIN b : x[1] = pc}
SumAt(b, pc) == SumOver(b, PcEntries(b, pc))

\* The union of bags.
LEMMA UnionOf ==
  ASSUME NEW a, NEW b
  PROVE  /\ DOMAIN (a (+) b) = DOMAIN a \cup DOMAIN b
         /\ \A x \in DOMAIN a \cup DOMAIN b :
              (a (+) b)[x] = (IF x \in DOMAIN a THEN a[x] ELSE 0) + (IF x \in DOMAIN b THEN b[x] ELSE 0)
  BY DEF (+)

\* The union of finite bags is one, and has the sum of their entries.
LEMMA BagPlus ==
  ASSUME NEW a, NEW b, FiniteBag(a), FiniteBag(b)
  PROVE  /\ FiniteBag(a (+) b)
         /\ \A pc : SumAt(a (+) b, pc) = SumAt(a, pc) + SumAt(b, pc)
         /\ \A pc : SumAt(a, pc) \in Nat /\ SumAt(b, pc) \in Nat
<1>1. PICK c : c = a (+) b
  OBVIOUS
<1>2. /\ DOMAIN c = DOMAIN a \cup DOMAIN b
      /\ \A x \in DOMAIN c : c[x] = (IF x \in DOMAIN a THEN a[x] ELSE 0) + (IF x \in DOMAIN b THEN b[x] ELSE 0)
  <2>1. /\ DOMAIN (a (+) b) = DOMAIN a \cup DOMAIN b
        /\ \A x \in DOMAIN a \cup DOMAIN b :
             (a (+) b)[x] = (IF x \in DOMAIN a THEN a[x] ELSE 0) + (IF x \in DOMAIN b THEN b[x] ELSE 0)
    BY UnionOf, Zenon
  <2> QED
    BY <1>1, <2>1, Zenon
<1>3. FiniteBag(c)
  <2>1. IsFiniteSet(DOMAIN c)
    BY <1>2, FS_Union DEF FiniteBag
  <2>2. \A x \in DOMAIN c : c[x] \in Nat
    BY <1>2 DEF FiniteBag
  <2> QED
    BY <2>1, <2>2 DEF FiniteBag
<1>4. ASSUME NEW d, FiniteBag(d), NEW pc PROVE IsFiniteSet(PcEntries(d, pc)) /\ SumAt(d, pc) \in Nat
  <2>1. IsFiniteSet(PcEntries(d, pc)) /\ \A x \in PcEntries(d, pc) : d[x] \in Nat
    BY <1>4, FS_Subset DEF PcEntries, FiniteBag
  <2> QED
    BY <2>1, SumOverNat DEF SumAt
<1>5. ASSUME NEW pc PROVE SumAt(c, pc) = SumAt(a, pc) + SumAt(b, pc)
  <2>1. PICK S, A, B : S = PcEntries(c, pc) /\ A = PcEntries(a, pc) /\ B = PcEntries(b, pc)
    OBVIOUS
  <2>2. S = A \cup B
    BY <1>2, <2>1 DEF PcEntries
  <2>3. IsFiniteSet(S)
    BY <1>3, <1>4, <2>1
  <2>4. PICK f, g : /\ f = [x \in S |-> IF x \in DOMAIN a THEN a[x] ELSE 0]
                    /\ g = [x \in S |-> IF x \in DOMAIN b THEN b[x] ELSE 0]
    OBVIOUS
  <2>5. /\ \A x \in S : f[x] \in Nat /\ g[x] \in Nat /\ c[x] = f[x] + g[x]
        /\ \A x \in A : f[x] = a[x]
        /\ \A x \in B : g[x] = b[x]
        /\ \A x \in S \ A : f[x] = 0
        /\ \A x \in S \ B : g[x] = 0
    BY <1>2, <2>1, <2>2, <2>4 DEF PcEntries, FiniteBag
  <2>6. SumOver(c, S) = SumOver(f, S) + SumOver(g, S)
    BY <2>3, <2>5, SumOverPlus
  <2>7. SumOver(f, S) = SumOver(f, A) /\ SumOver(g, S) = SumOver(g, B)
    <3>1. A \subseteq S /\ B \subseteq S
      BY <2>2
    <3> QED
      BY <2>3, <2>5, <3>1, SumOverPart
  <2>8. SumOver(f, A) = SumOver(a, A) /\ SumOver(g, B) = SumOver(b, B)
    <3>1. IsFiniteSet(A) /\ IsFiniteSet(B)
      BY <1>4, <2>1
    <3> QED
      BY <2>5, <3>1, SumOverSame
  <2> QED
    BY <2>1, <2>6, <2>7, <2>8 DEF SumAt
<1> QED
  BY <1>1, <1>3, <1>4, <1>5

\* The bag of what was counted at one pc.
LEMMA BagCounts ==
  ASSUME NEW h, IsFiniteSet(DOMAIN h), NEW p, \A x \in DOMAIN h : h[x][1] = p
  PROVE  /\ FiniteBag(CountOf(h)) /\ Cardinality(DOMAIN h) \in Nat
         /\ \A v \in DOMAIN CountOf(h) : v[1] = p
         /\ \A pc : SumAt(CountOf(h), pc) = IF pc = p THEN Cardinality(DOMAIN h) ELSE 0
<1>1. PICK c : c = CountOf(h)
  OBVIOUS
<1>2. DOMAIN c = {h[x] : x \in DOMAIN h}
  BY <1>1 DEF CountOf
<1>3. /\ IsFiniteSet(DOMAIN c) /\ \A v \in DOMAIN c : c[v] \in Nat
      /\ SumOver(c, DOMAIN c) = Cardinality(DOMAIN h)
  BY <1>1, SumOverCounts
<1>4. PcEntries(c, p) = DOMAIN c /\ \A pc : pc # p => PcEntries(c, pc) = {}
  BY <1>2 DEF PcEntries
<1>5. \A pc : SumAt(c, pc) = IF pc = p THEN Cardinality(DOMAIN h) ELSE 0
  BY <1>3, <1>4, SumOverEmpty DEF SumAt
<1> QED
  BY <1>1, <1>2, <1>3, <1>5, FS_CardinalityType DEF FiniteBag

-----------------------------------------------------------------------------
(* Top views *)

\* Views or entries with their counts.
Countable(A) == \A v \in A : v.red_count \in Nat

\* IsTop with the smaller of the two bounds.
Best(K, A, limit) ==
  /\ K \subseteq A /\ IsFiniteSet(A)
  /\ Cardinality(K) = IF Cardinality(A) <= limit THEN Cardinality(A) ELSE limit
  /\ \A v \in K, w \in A \ K : w.red_count <= v.red_count

\* One turn of Top.
TopStep(limit, kept, v) ==
  IF Cardinality(kept) < limit THEN kept \cup {v}
  ELSE IF Lowest(kept).red_count < v.red_count THEN (kept \ {Lowest(kept)}) \cup {v}
  ELSE kept

\* The lowest view.
LEMMA LowestIs ==
  ASSUME NEW K, K # {}, Countable(K)
  PROVE  Lowest(K) \in K /\ \A w \in K : Lowest(K).red_count <= w.red_count
<1>1. PICK T : T = {v.red_count : v \in K}
  OBVIOUS
<1>2. T \in SUBSET Nat /\ T # {}
  BY <1>1 DEF Countable
<1>3. PICK n \in T : \A m \in T : n <= m
  BY <1>2, LeastOf
<1>4. \E v \in K : \A w \in K : v.red_count <= w.red_count
  BY <1>1, <1>3
<1> QED
  BY <1>4 DEF Lowest

\* A turn keeps the best of what was seen.
LEMMA TopStepKeeps ==
  ASSUME NEW limit \in Nat \ {0}, NEW A, NEW K, Best(K, A, limit), NEW v, v \notin A, Countable(A \cup {v})
  PROVE  Best(TopStep(limit, K, v), A \cup {v}, limit)
<1>1. /\ K \subseteq A /\ IsFiniteSet(A) /\ v \notin K
      /\ Cardinality(K) = IF Cardinality(A) <= limit THEN Cardinality(A) ELSE limit
      /\ \A x \in K, w \in A \ K : w.red_count <= x.red_count
  BY DEF Best
<1>2. IsFiniteSet(K) /\ Cardinality(K) \in Nat /\ Cardinality(A) \in Nat
  BY <1>1, FS_Subset, FS_CardinalityType
<1>3. IsFiniteSet(A \cup {v}) /\ Cardinality(A \cup {v}) = Cardinality(A) + 1
  BY <1>1, FS_AddElement
<1>4. PICK B : B = A \cup {v}
  OBVIOUS
<1>5. CASE Cardinality(K) < limit
  <2>1. Cardinality(A) = Cardinality(K)
    BY <1>1, <1>2, <1>5
  <2>2. K = A
    BY <1>1, <2>1, FS_Subset
  <2>3. TopStep(limit, K, v) = B
    BY <1>4, <1>5, <2>2 DEF TopStep
  <2>4. Cardinality(B) <= limit
    BY <1>2, <1>3, <1>4, <1>5, <2>1
  <2>5. Best(B, B, limit)
    BY <1>3, <1>4, <2>4 DEF Best
  <2> QED
    BY <1>4, <2>3, <2>5
<1>6. CASE ~ (Cardinality(K) < limit)
  <2>1. Cardinality(K) = limit /\ ~ (Cardinality(B) <= limit)
    BY <1>1, <1>2, <1>3, <1>4, <1>6
  <2>2. K # {}
    BY <1>2, <2>1, FS_EmptySet
  <2>3. PICK low : low = Lowest(K)
    OBVIOUS
  <2>4. low \in K /\ \A w \in K : low.red_count <= w.red_count
    BY <1>1, <2>2, <2>3, LowestIs DEF Countable
  <2>5. /\ v.red_count \in Nat /\ \A w \in A : w.red_count \in Nat
        /\ \A w \in K : w.red_count \in Nat
    BY <1>1 DEF Countable
  <2>6. CASE low.red_count < v.red_count
    <3>1. PICK N : N = (K \ {low}) \cup {v}
      OBVIOUS
    <3>2. TopStep(limit, K, v) = N
      BY <1>6, <2>3, <2>6, <3>1 DEF TopStep
    <3>3. Cardinality(N) = limit
      <4>1. IsFiniteSet(K \ {low}) /\ Cardinality(K \ {low}) = Cardinality(K) - 1
        BY <1>2, <2>4, FS_RemoveElement
      <4>2. v \notin K \ {low}
        BY <1>1
      <4>3. Cardinality(N) = Cardinality(K \ {low}) + 1
        BY <3>1, <4>1, <4>2, FS_AddElement
      <4> QED
        BY <1>2, <2>1, <4>1, <4>3
    <3>4. ASSUME NEW x \in N, NEW w \in B \ N PROVE w.red_count <= x.red_count
      <4>1. w \in A /\ w # v /\ (w \in K => w = low)
        BY <1>4, <3>1
      <4>2. w.red_count <= low.red_count
        BY <1>1, <2>4, <2>5, <4>1
      <4>3. low.red_count <= x.red_count
        BY <2>4, <2>5, <2>6, <3>1
      <4>4. x.red_count \in Nat
        BY <2>5, <3>1
      <4> QED
        BY <2>4, <2>5, <4>1, <4>2, <4>3, <4>4
    <3>5. N \subseteq B
      BY <1>1, <1>4, <3>1
    <3>6. Best(N, B, limit)
      BY <1>3, <1>4, <2>1, <3>3, <3>4, <3>5 DEF Best
    <3> QED
      BY <1>4, <3>2, <3>6
  <2>7. CASE ~ (low.red_count < v.red_count)
    <3>1. TopStep(limit, K, v) = K
      BY <1>6, <2>3, <2>7 DEF TopStep
    <3>2. ASSUME NEW x \in K, NEW w \in B \ K PROVE w.red_count <= x.red_count
      <4>1. CASE w \in A
        BY <1>1, <4>1
      <4>2. CASE w = v
        <5>1. v.red_count <= low.red_count /\ low.red_count <= x.red_count
          BY <2>4, <2>5, <2>7
        <5> QED
          BY <2>4, <2>5, <4>2, <5>1
      <4> QED
        BY <1>4, <4>1, <4>2
    <3>3. Best(K, B, limit)
      BY <1>1, <1>3, <1>4, <2>1, <3>2 DEF Best
    <3> QED
      BY <1>4, <3>1, <3>3
  <2> QED
    BY <2>6, <2>7
<1> QED
  BY <1>5, <1>6

\* One step of the recursion of the fold of Top.
KeepStep(g, limit, q, s) == IF s = {} THEN {} ELSE TopStep(limit, g[s \ {Max(s)}], q[Max(s)])

KeepOn(g, limit, q, D) == g = [s \in D |-> KeepStep(g, limit, q, s)]
KeepOf(g, limit, q, S) == KeepOn(g, limit, q, SUBSET S)

\* The fold of Top is that recursion.
LEMMA TopFold ==
  ASSUME NEW limit, NEW q
  PROVE  Top(limit, q) = (CHOOSE g : KeepOf(g, limit, q, DOMAIN q))[DOMAIN q]
  BY Zenon DEF Top, FoldLeft, MapThenFoldSet, KeepOf, KeepOn, KeepStep, TopStep

\* What remains of a set of places without its largest is smaller.
LEMMA MaxOf ==
  ASSUME NEW n \in Nat, NEW s \in SUBSET (1 .. n), s # {}
  PROVE  /\ Max(s) \in s /\ \A y \in s : y <= Max(s)
         /\ IsFiniteSet(s \ {Max(s)})
         /\ Cardinality(s) \in Nat /\ Cardinality(s \ {Max(s)}) \in Nat
         /\ Cardinality(s \ {Max(s)}) = Cardinality(s) - 1
<1>1. s \in SUBSET Nat /\ \A y \in s : y <= n
  OBVIOUS
<1>6. Max(s) \in s /\ \A y \in s : y <= Max(s)
  BY <1>1, LargestOf
<1>7. IsFiniteSet(s)
  <2>1. IsFiniteSet(1 .. n)
    BY FS_Interval
  <2> QED
    BY <2>1, FS_Subset
<1> QED
  BY <1>6, <1>7, FS_RemoveElement, FS_CardinalityType

\* The recursion defines a function on the sets of places.
LEMMA KeepExists ==
  ASSUME NEW limit, NEW q, NEW n0 \in Nat, NEW S, S = 1 .. n0
  PROVE  \E g : KeepOf(g, limit, q, S)
<1> DEFINE Small(n) == {s \in SUBSET S : Cardinality(s) <= n}
           Fails == {n \in Nat : ~ \E g : KeepOn(g, limit, q, Small(n))}
<1>0. IsFiniteSet(S)
  BY FS_Interval
<1>1. \A s \in SUBSET S : IsFiniteSet(s) /\ Cardinality(s) \in Nat
  BY <1>0, FS_Subset, FS_CardinalityType
<1>2. Fails = {}
  <2>1. SUFFICES ASSUME Fails # {} PROVE FALSE
    OBVIOUS
  <2>2. PICK n \in Fails : \A m \in Fails : n <= m
    <3>1. Fails \in SUBSET Nat
      OBVIOUS
    <3> HIDE DEF Fails
    <3> QED
      BY <2>1, <3>1, LeastOf
  <2>3. n \in Nat /\ ~ \E g : KeepOn(g, limit, q, Small(n))
    BY <2>2
  <2>4. CASE n = 0
    <3>1. \A s \in Small(n) : s = {}
      BY <1>1, <2>4, FS_EmptySet
    <3>2. PICK D : D = Small(n)
      OBVIOUS
    <3>3. PICK g : g = [s \in D |-> {}]
      OBVIOUS
    <3>4. \A s \in D : KeepStep(g, limit, q, s) = {}
      BY <3>1, <3>2 DEF KeepStep
    <3>5. KeepOn(g, limit, q, D)
      BY <3>3, <3>4 DEF KeepOn
    <3> QED
      BY <2>3, <3>2, <3>5
  <2>5. CASE n # 0
    <3>1. n - 1 \in Nat /\ n - 1 \notin Fails
      <4>1. n - 1 \in Nat /\ ~ (n <= n - 1)
        BY <2>3, <2>5
      <4> HIDE DEF Fails
      <4> QED
        BY <2>2, <4>1
    <3>2. PICK g : KeepOn(g, limit, q, Small(n - 1))
      BY <3>1
    <3>3. PICK D, E : D = Small(n) /\ E = Small(n - 1)
      OBVIOUS
    <3>4. g = [s \in E |-> KeepStep(g, limit, q, s)]
      BY <3>2, <3>3 DEF KeepOn
    <3>5. PICK h : h = [s \in D |-> IF s \in E THEN g[s] ELSE KeepStep(g, limit, q, s)]
      OBVIOUS
    <3>6. ASSUME NEW s \in D PROVE h[s] = KeepStep(h, limit, q, s)
      <4>1. h[s] = KeepStep(g, limit, q, s)
        BY <3>4, <3>5
      <4>2. CASE s = {}
        BY <4>1, <4>2 DEF KeepStep
      <4>3. CASE s # {}
        <5>1. s \ {Max(s)} \in E /\ s \ {Max(s)} \in D
          <6>1. s \in SUBSET S /\ IsFiniteSet(s) /\ Cardinality(s) <= n
            BY <1>1, <3>3
          <6>2. /\ Cardinality(s) \in Nat /\ Cardinality(s \ {Max(s)}) \in Nat
                /\ Cardinality(s \ {Max(s)}) = Cardinality(s) - 1
            BY <4>3, <6>1, MaxOf
          <6>3. s \ {Max(s)} \in SUBSET S
            BY <6>1
          <6>4. Cardinality(s \ {Max(s)}) <= n - 1 /\ Cardinality(s \ {Max(s)}) <= n
            BY <2>3, <6>1, <6>2
          <6> QED
            BY <3>3, <6>3, <6>4
        <5>2. h[s \ {Max(s)}] = g[s \ {Max(s)}]
          BY <3>5, <5>1
        <5> QED
          BY <4>1, <4>3, <5>2 DEF KeepStep
      <4> QED
        BY <4>2, <4>3
    <3>7. h = [s \in D |-> KeepStep(h, limit, q, s)]
      <4>1. h = [s \in D |-> h[s]]
        BY <3>5
      <4> QED
        BY <3>6, <4>1, Zenon
    <3> QED
      BY <2>3, <3>3, <3>7 DEF KeepOn
  <2> QED
    BY <2>4, <2>5
<1>3. Cardinality(S) \in Nat /\ Cardinality(S) \notin Fails
  <2>1. Cardinality(S) \in Nat
    BY <1>0, FS_CardinalityType
  <2> HIDE DEF Fails
  <2> QED
    BY <1>2, <2>1
<1>4. PICK g : KeepOn(g, limit, q, Small(Cardinality(S)))
  BY <1>3
<1>5. Small(Cardinality(S)) = SUBSET S
  <2>1. \A s \in SUBSET S : Cardinality(s) <= Cardinality(S)
    BY <1>0, FS_Subset
  <2> QED
    BY <2>1
<1> QED
  BY <1>4, <1>5 DEF KeepOf

\* What the fold keeps after each of its turns.
Turns(k, limit, q, n) ==
  /\ k[0] = {} /\ Top(limit, q) = k[n]
  /\ \A m \in 1 .. n : k[m] = TopStep(limit, k[m - 1], q[m])

\* The fold, turn by turn.
LEMMA TopTurns ==
  ASSUME NEW limit, NEW q, NEW n \in Nat, DOMAIN q = 1 .. n
  PROVE  \E k : Turns(k, limit, q, n)
<1>1. PICK S : S = 1 .. n
  OBVIOUS
<1>2. PICK g : g = (CHOOSE f : KeepOf(f, limit, q, S))
  OBVIOUS
<1>3. KeepOf(g, limit, q, S)
  BY <1>1, <1>2, KeepExists
<1>4. g = [s \in SUBSET S |-> KeepStep(g, limit, q, s)]
  BY <1>3 DEF KeepOf, KeepOn
<1>5. \A s \in SUBSET S : g[s] = KeepStep(g, limit, q, s)
  BY <1>4, Zenon
<1>6. PICK k : k = [m \in 0 .. n |-> g[1 .. m]]
  OBVIOUS
<1>7. k[0] = {}
  <2>1. 1 .. 0 = {} /\ {} \in SUBSET S /\ 0 \in 0 .. n
    OBVIOUS
  <2>2. k[0] = g[{}]
    BY <1>6, <2>1, Zenon
  <2>3. g[{}] = KeepStep(g, limit, q, {})
    BY <1>5, <2>1, Zenon
  <2> QED
    BY <2>2, <2>3 DEF KeepStep
<1>8. Top(limit, q) = k[n]
  <2>1. Top(limit, q) = g[S]
    BY <1>1, <1>2, TopFold
  <2>2. n \in 0 .. n
    OBVIOUS
  <2> QED
    BY <1>1, <1>6, <2>1, <2>2
<1>9. ASSUME NEW m \in 1 .. n PROVE k[m] = TopStep(limit, k[m - 1], q[m])
  <2>1. PICK s : s = 1 .. m
    OBVIOUS
  <2>2. s \in SUBSET S /\ s # {} /\ m \in s /\ \A y \in s : y <= m
    <3>1. m \in Nat /\ 1 <= m /\ m <= n
      OBVIOUS
    <3>2. m \in s /\ \A y \in s : y \in Nat /\ y <= m /\ y \in 1 .. n
      BY <2>1, <3>1
    <3> QED
      BY <1>1, <3>2
  <2>3. Max(s) \in s /\ \A y \in s : y <= Max(s)
    BY <1>1, <2>2, MaxOf
  <2>4. Max(s) = m
    <3>1. Max(s) \in Nat /\ m <= Max(s) /\ Max(s) <= m
      BY <2>1, <2>2, <2>3
    <3> QED
      BY <3>1
  <2>5. s \ {m} = 1 .. (m - 1)
    BY <2>1
  <2>6. g[s] = TopStep(limit, g[s \ {Max(s)}], q[Max(s)])
    BY <1>5, <2>2 DEF KeepStep
  <2>7. g[s] = TopStep(limit, g[1 .. (m - 1)], q[m])
    BY <2>4, <2>5, <2>6
  <2>8. k[m] = g[s] /\ k[m - 1] = g[1 .. (m - 1)]
    <3>1. m \in 0 .. n /\ m - 1 \in 0 .. n
      OBVIOUS
    <3> QED
      BY <1>6, <2>1, <3>1
  <2> QED
    BY <2>7, <2>8
<1> QED
  BY <1>7, <1>8, <1>9 DEF Turns

\* A sequence of the members of a finite set has each of them once.
LEMMA SetToSeqIs ==
  ASSUME NEW V, IsFiniteSet(V)
  PROVE  LET q == SetToSeq(V) IN
           /\ q \in [1 .. Cardinality(V) -> V]
           /\ \A i, j \in 1 .. Cardinality(V) : q[i] = q[j] => i = j
           /\ \A v \in V : \E i \in 1 .. Cardinality(V) : q[i] = v
<1>1. PICK n, D : n = Cardinality(V) /\ D = 1 .. n
  OBVIOUS
<1>2. n \in Nat /\ ExistsBijection(D, V)
  BY <1>1, FS_CardinalityType
<1>3. PICK f : f \in Bijection(D, V)
  BY <1>2 DEF ExistsBijection
<1>4. f \in [D -> V] /\ IsInjective(f)
  BY <1>3 DEF Bijection, Injection
<1>5. PICK q : q = SetToSeq(V)
  OBVIOUS
<1>6. q \in [D -> V] /\ IsInjective(q)
  BY <1>1, <1>4, <1>5 DEF SetToSeq
<1>7. q \in Injection(D, V)
  BY <1>6 DEF Injection
<1>8. Cardinality(D) = Cardinality(V)
  BY <1>1, <1>2, FS_Interval
<1>9. q \in Surjection(D, V)
  BY <1>7, <1>8, FS_Injection
<1>10. \A i, j \in D : q[i] = q[j] => i = j
  BY <1>6 DEF IsInjective
<1>11. \A v \in V : \E i \in D : q[i] = v
  BY <1>9 DEF Surjection
<1> QED
  BY <1>1, <1>5, <1>6, <1>10, <1>11

\* The smaller of two.
LEMMA MinOfTwo ==
  ASSUME NEW a \in Nat, NEW b \in Nat
  PROVE  Min({a, b}) = IF a <= b THEN a ELSE b
<1>1. \E x \in {a, b} : \A y \in {a, b} : x <= y
  OBVIOUS
<1>2. Min({a, b}) \in {a, b} /\ \A y \in {a, b} : Min({a, b}) <= y
  BY <1>1, Zenon DEF Min
<1> QED
  BY <1>2

\* TopOf keeps the views with the largest counts.
LEMMA TopOfIsTop ==
  ASSUME NEW limit \in Nat \ {0}, NEW V, IsFiniteSet(V), Countable(V)
  PROVE  IsTop(TopOf(limit, V), V, limit)
<1>1. PICK n, q : n = Cardinality(V) /\ q = SetToSeq(V)
  OBVIOUS
<1>2. n \in Nat
  BY <1>1, FS_CardinalityType
<1>3. /\ q \in [1 .. n -> V] /\ \A i, j \in 1 .. n : q[i] = q[j] => i = j
      /\ \A v \in V : \E i \in 1 .. n : q[i] = v
  BY <1>1, SetToSeqIs
<1>a. PICK k : Turns(k, limit, q, n)
  <2>1. DOMAIN q = 1 .. n
    BY <1>3
  <2> QED
    BY <1>2, <2>1, TopTurns
<1>4. /\ k[0] = {} /\ Top(limit, q) = k[n]
      /\ \A m \in 1 .. n : k[m] = TopStep(limit, k[m - 1], q[m])
  BY <1>a DEF Turns
<1> DEFINE First(m) == {q[i] : i \in 1 .. m}
           Fails == {m \in 0 .. n : ~ Best(k[m], First(m), limit)}
<1>5. Fails = {}
  <2>1. SUFFICES ASSUME Fails # {} PROVE FALSE
    OBVIOUS
  <2>2. PICK m \in Fails : \A j \in Fails : m <= j
    <3>1. Fails \in SUBSET Nat
      OBVIOUS
    <3> HIDE DEF Fails
    <3> QED
      BY <2>1, <3>1, LeastOf
  <2>3. m \in 0 .. n /\ ~ Best(k[m], First(m), limit)
    BY <2>2
  <2>4. m # 0
    <3>1. SUFFICES ASSUME m = 0 PROVE FALSE
      OBVIOUS
    <3>2. First(m) = {}
      BY <3>1
    <3>3. k[m] = {}
      BY <1>4, <3>1
    <3>4. IsFiniteSet({}) /\ Cardinality({}) = 0
      BY FS_EmptySet
    <3>5. Best({}, {}, limit)
      BY <3>4 DEF Best
    <3>6. PICK A, K : A = First(m) /\ K = k[m]
      OBVIOUS
    <3>7. A = {} /\ K = {} /\ ~ Best(K, A, limit)
      BY <2>3, <3>2, <3>3, <3>6
    <3> HIDE DEF First, Fails
    <3> QED
      BY <3>5, <3>7
  <2>5. m \in 1 .. n /\ m - 1 \in 0 .. n /\ ~ (m <= m - 1)
    <3>1. m \in 0 .. n /\ m # 0
      BY <2>3, <2>4
    <3> HIDE DEF First, Fails
    <3> QED
      BY <1>2, <3>1
  <2>6. Best(k[m - 1], First(m - 1), limit)
    <3>1. m - 1 \notin Fails
      <4> HIDE DEF Fails
      <4> QED
        BY <2>2, <2>5
    <3> QED
      BY <2>5, <3>1
  <2>7. First(m) = First(m - 1) \cup {q[m]}
    <3>1. \A i : i \in 1 .. m <=> i \in 1 .. (m - 1) \/ i = m
      BY <2>5
    <3> QED
      BY <3>1
  <2>8. q[m] \notin First(m - 1) /\ First(m) \subseteq V
    <3>1. \A i \in 1 .. (m - 1) : i \in 1 .. n /\ i # m
      BY <1>2, <2>5
    <3>2. \A i \in 1 .. m : i \in 1 .. n
      BY <1>2, <2>5
    <3> QED
      BY <1>3, <2>5, <3>1, <3>2
  <2>9. Countable(First(m - 1) \cup {q[m]})
    <3> HIDE DEF First
    <3> QED
      BY <2>7, <2>8 DEF Countable
  <2>10. Best(TopStep(limit, k[m - 1], q[m]), First(m - 1) \cup {q[m]}, limit)
    <3>1. PICK A, K, v : A = First(m - 1) /\ K = k[m - 1] /\ v = q[m]
      OBVIOUS
    <3>2. Best(K, A, limit) /\ v \notin A /\ Countable(A \cup {v})
      BY <2>6, <2>8, <2>9, <3>1
    <3>3. Best(TopStep(limit, K, v), A \cup {v}, limit)
      BY <3>2, TopStepKeeps
    <3> QED
      BY <3>1, <3>3
  <2>11. k[m] = TopStep(limit, k[m - 1], q[m])
    BY <1>4, <2>5
  <2> HIDE DEF First, Fails
  <2> QED
    BY <2>3, <2>7, <2>10, <2>11
<1>6. Best(k[n], V, limit)
  <2>1. First(n) = V
    BY <1>3
  <2>2. n \in 0 .. n
    BY <1>2
  <2>3. Best(k[n], First(n), limit)
    BY <1>5, <2>2
  <2> HIDE DEF First, Fails
  <2> QED
    BY <2>1, <2>3
<1>7. TopOf(limit, V) = k[n]
  BY <1>1, <1>4 DEF TopOf
<1>8. Min({Cardinality(V), limit}) = IF Cardinality(V) <= limit THEN Cardinality(V) ELSE limit
  BY <1>1, <1>2, MinOfTwo
<1> HIDE DEF First, Fails
<1> QED
  BY <1>6, <1>7, <1>8 DEF IsTop, Best

-----------------------------------------------------------------------------
(* The counts of a trace *)

\* What a record adds to the spatial bag and to the counts of pcs.
SpatialBag(r) == BagOf(Units(r), LAMBDA u : <<u[3], r.pc, u[4]>>)
PcBag(r) == BagOf(Units(r), LAMBDA u : r.pc)

\* The units of a lane.
LaneUnits(r, lane) ==
  {<<ThreadOf(r, lane), r.address[lane] + i - 1, mem, r.value[lane][i]>> :
     i \in 1 .. r.size, mem \in MemoryOf(r, r.address[lane])}

\* A record has finitely many units.
LEMMA UnitsFinite ==
  ASSUME NEW r \in Records
  PROVE  IsFiniteSet(Units(r)) /\ Cardinality(Units(r)) \in Nat
<1>1. r.active \subseteq 0 .. Warp - 1 /\ Warp \in Nat /\ r.size \in Nat
  BY RecordIs DEF Loggable
<1>2. IsFiniteSet(1 .. r.size) /\ IsFiniteSet(r.active)
  <2>1. IsFiniteSet(0 .. Warp - 1) /\ IsFiniteSet(1 .. r.size)
    BY <1>1, FS_Interval
  <2> QED
    BY <1>1, <2>1, FS_Subset
<1>3. ASSUME NEW addr PROVE IsFiniteSet(MemoryOf(r, addr))
  <2>1. PICK o : o = (CHOOSE x \in {y \in Objects : y[1] <= addr} : \A y \in {z \in Objects : z[1] <= addr} : y[1] <= x[1])
    OBVIOUS
  <2>2. MemoryOf(r, addr) \subseteq {o, <<"LOCAL">>, <<"SHARED">>}
    BY <2>1 DEF MemoryOf
  <2>3. IsFiniteSet({o, <<"LOCAL">>, <<"SHARED">>})
    <3>1. IsFiniteSet({o}) /\ IsFiniteSet({<<"LOCAL">>}) /\ IsFiniteSet({<<"SHARED">>})
      BY FS_Singleton
    <3>2. IsFiniteSet({o} \cup {<<"LOCAL">>})
      BY <3>1, FS_Union
    <3>3. IsFiniteSet(({o} \cup {<<"LOCAL">>}) \cup {<<"SHARED">>})
      BY <3>1, <3>2, FS_Union
    <3>4. ({o} \cup {<<"LOCAL">>}) \cup {<<"SHARED">>} = {o, <<"LOCAL">>, <<"SHARED">>}
      OBVIOUS
    <3> QED
      BY <3>3, <3>4
  <2> QED
    BY <2>2, <2>3, FS_Subset
<1>4. ASSUME NEW lane PROVE IsFiniteSet(LaneUnits(r, lane))
  <2>1. PICK M : M = MemoryOf(r, r.address[lane])
    OBVIOUS
  <2>2. IsFiniteSet((1 .. r.size) \X M)
    BY <1>2, <1>3, <2>1, FS_Product
  <2>3. PICK P : P = (1 .. r.size) \X M
    OBVIOUS
  <2>4. PICK f : f = [p \in P |-> <<ThreadOf(r, lane), r.address[lane] + p[1] - 1, p[2], r.value[lane][p[1]]>>]
    OBVIOUS
  <2>5. PICK Q : Q = {f[p] : p \in P}
    OBVIOUS
  <2>6. f \in Surjection(P, Q)
    BY <2>4, <2>5 DEF Surjection
  <2>7. IsFiniteSet(Q)
    BY <2>2, <2>3, <2>6, FS_Surjection
  <2>8. LaneUnits(r, lane) \subseteq Q
    <3> SUFFICES ASSUME NEW i \in 1 .. r.size, NEW mem \in M
                 PROVE  <<ThreadOf(r, lane), r.address[lane] + i - 1, mem, r.value[lane][i]>> \in Q
      BY <2>1 DEF LaneUnits
    <3>1. PICK p : p = <<i, mem>>
      OBVIOUS
    <3>2. p \in P /\ p[1] = i /\ p[2] = mem
      BY <2>3, <3>1
    <3>3. f[p] = <<ThreadOf(r, lane), r.address[lane] + i - 1, mem, r.value[lane][i]>>
      BY <2>4, <3>2
    <3> QED
      BY <2>5, <3>2, <3>3
  <2> QED
    BY <2>7, <2>8, FS_Subset
<1>a. ASSUME NEW u \in Units(r) PROVE \E lane \in r.active : u \in LaneUnits(r, lane)
  <2>1. PICK lane \in r.active : \E i \in 1 .. r.size, mem \in MemoryOf(r, r.address[lane]) :
          u = <<ThreadOf(r, lane), r.address[lane] + i - 1, mem, r.value[lane][i]>>
    BY DEF Units
  <2>2. u \in LaneUnits(r, lane)
    BY <2>1 DEF LaneUnits
  <2> QED
    BY <2>2
<1>5. PICK W : W = {LaneUnits(r, lane) : lane \in r.active}
  OBVIOUS
<1>6. IsFiniteSet(W)
  <2>1. PICK g : g = [lane \in r.active |-> LaneUnits(r, lane)]
    OBVIOUS
  <2>2. g \in Surjection(r.active, W)
    BY <1>5, <2>1 DEF Surjection
  <2> QED
    BY <1>2, <2>2, FS_Surjection
<1>7. IsFiniteSet(UNION W)
  <2>1. \A T \in W : IsFiniteSet(T)
    BY <1>4, <1>5
  <2> QED
    BY <1>6, <2>1, FS_UNION
<1>8. Units(r) \subseteq UNION W
  BY <1>5, <1>a
<1> QED
  BY <1>7, <1>8, FS_Subset, FS_CardinalityType

\* The other parts of UnitAccesses.
LEMMA AccessBags ==
  ASSUME NEW tr, NEW r, NEW kind \in Kinds
  PROVE  /\ UnitAccesses(tr, r).spatial[kind] =
              IF kind \in r.flags THEN tr.spatial[kind] (+) SpatialBag(r) ELSE tr.spatial[kind]
         /\ UnitAccesses(tr, r).pc_count[kind] =
              IF kind \in r.flags THEN tr.pc_count[kind] (+) PcBag(r) ELSE tr.pc_count[kind]
         /\ {"temporal", "pairs", "spatial", "pc_count"} \subseteq DOMAIN UnitAccesses(tr, r)
<1>1. UnitAccesses(tr, r).spatial = [x \in Kinds |->
        IF x \in r.flags THEN tr.spatial[x] (+) SpatialBag(r) ELSE tr.spatial[x]]
  BY Zenon DEF UnitAccesses, SpatialBag
<1>2. UnitAccesses(tr, r).pc_count = [x \in Kinds |->
        IF x \in r.flags THEN tr.pc_count[x] (+) PcBag(r) ELSE tr.pc_count[x]]
  BY Zenon DEF UnitAccesses, PcBag
<1>3. {"temporal", "pairs", "spatial", "pc_count"} \subseteq DOMAIN UnitAccesses(tr, r)
  BY DEF UnitAccesses
<1> QED
  BY <1>1, <1>2, <1>3, Zenon

\* The spatial bag of a record has its pc, and no more entries than it has units.
LEMMA SpatialBagIs ==
  ASSUME NEW r \in Records
  PROVE  /\ FiniteBag(SpatialBag(r))
         /\ \A v \in DOMAIN SpatialBag(r) : v[2] = r.pc /\ SpatialBag(r)[v] <= Cardinality(Units(r))
         /\ Units(r) = {} => DOMAIN SpatialBag(r) = {}
<1>1. PICK U, b : U = Units(r) /\ b = SpatialBag(r)
  OBVIOUS
<1>2. IsFiniteSet(U) /\ Cardinality(U) \in Nat
  BY <1>1, UnitsFinite
<1>3. PICK V : V = {<<u[3], r.pc, u[4]>> : u \in U}
  OBVIOUS
<1>4. b = [v \in V |-> Cardinality({u \in U : <<u[3], r.pc, u[4]>> = v})]
  BY <1>1, <1>3, Zenon DEF SpatialBag, BagOf
<1>5. IsFiniteSet(V)
  <2>1. PICK g : g = [u \in U |-> <<u[3], r.pc, u[4]>>]
    OBVIOUS
  <2>2. g \in Surjection(U, V)
    BY <1>3, <2>1 DEF Surjection
  <2> QED
    BY <1>2, <2>2, FS_Surjection
<1>6. ASSUME NEW v \in V
      PROVE  b[v] \in Nat /\ b[v] <= Cardinality(U) /\ v[2] = r.pc
  <2>1. PICK S : S = {u \in U : <<u[3], r.pc, u[4]>> = v}
    OBVIOUS
  <2>2. S \in SUBSET U
    BY <2>1
  <2>3. IsFiniteSet(S) /\ Cardinality(S) <= Cardinality(U)
    BY <1>2, <2>2, FS_Subset
  <2>4. b[v] = Cardinality(S)
    BY <1>4, <2>1, Zenon
  <2>5. v[2] = r.pc
    BY <1>3
  <2> QED
    BY <2>3, <2>4, <2>5, FS_CardinalityType
<1>7. DOMAIN b = V
  BY <1>4
<1>8. U = {} => V = {}
  BY <1>3
<1> QED
  BY <1>1, <1>5, <1>6, <1>7, <1>8 DEF FiniteBag

\* The counts of pcs of a record: one pc, as often as it has units.
LEMMA PcBagIs ==
  ASSUME NEW r \in Records
  PROVE  /\ FiniteBag(PcBag(r))
         /\ DOMAIN PcBag(r) = IF Units(r) = {} THEN {} ELSE {r.pc}
         /\ \A pc \in DOMAIN PcBag(r) : PcBag(r)[pc] = Cardinality(Units(r))
<1>1. PICK U, b : U = Units(r) /\ b = PcBag(r)
  OBVIOUS
<1>2. IsFiniteSet(U) /\ Cardinality(U) \in Nat
  BY <1>1, UnitsFinite
<1>3. PICK V : V = {r.pc : u \in U}
  OBVIOUS
<1>4. b = [v \in V |-> Cardinality({u \in U : r.pc = v})]
  BY <1>1, <1>3, Zenon DEF PcBag, BagOf
<1>5. V = IF U = {} THEN {} ELSE {r.pc}
  BY <1>3
<1>6. ASSUME NEW v \in V PROVE b[v] = Cardinality(U)
  <2>1. r.pc = v
    BY <1>3
  <2>2. {u \in U : r.pc = v} = U
    BY <2>1
  <2> QED
    BY <1>4, <2>2, Zenon
<1>7. IsFiniteSet(V)
  BY <1>5, FS_EmptySet, FS_Singleton
<1>8. DOMAIN b = V
  BY <1>4
<1> QED
  BY <1>1, <1>2, <1>5, <1>6, <1>7, <1>8 DEF FiniteBag

\* The pairs of a record have its pc, and are no more than its units.
LEMMA AgainIs ==
  ASSUME NEW r \in Records, NEW f
  PROVE  /\ FiniteBag(CountOf(Again(f, r)))
         /\ \A v \in DOMAIN CountOf(Again(f, r)) : v[1] = r.pc
         /\ Units(r) = {} => DOMAIN CountOf(Again(f, r)) = {}
         /\ \A pc : /\ SumAt(CountOf(Again(f, r)), pc) \in Nat
                    /\ SumAt(CountOf(Again(f, r)), pc) <= IF pc = r.pc THEN Cardinality(Units(r)) ELSE 0
<1>1. PICK U, h, K : U = Units(r) /\ h = Again(f, r) /\ K = KeysOf(r)
  OBVIOUS
<1>2. IsFiniteSet(U) /\ Cardinality(U) \in Nat
  BY <1>1, UnitsFinite
<1>3. DOMAIN h \subseteq K /\ \A key \in DOMAIN h : h[key][1] = r.pc
  BY <1>1 DEF Again
<1>4. IsFiniteSet(K) /\ Cardinality(K) <= Cardinality(U)
  <2>1. PICK g : g = [u \in U |-> <<u[1], u[2]>>]
    OBVIOUS
  <2>2. g \in Surjection(U, K)
    BY <1>1, <2>1 DEF Surjection, KeysOf
  <2> QED
    BY <1>2, <2>2, FS_Surjection
<1>5. IsFiniteSet(DOMAIN h) /\ Cardinality(DOMAIN h) <= Cardinality(K)
  BY <1>3, <1>4, FS_Subset
<1>6. Cardinality(K) \in Nat /\ Cardinality(DOMAIN h) \in Nat
  BY <1>4, <1>5, FS_CardinalityType
<1>7. Cardinality(DOMAIN h) <= Cardinality(U)
  BY <1>2, <1>4, <1>5, <1>6
<1>8. /\ FiniteBag(CountOf(h))
      /\ \A v \in DOMAIN CountOf(h) : v[1] = r.pc
      /\ \A pc : SumAt(CountOf(h), pc) = IF pc = r.pc THEN Cardinality(DOMAIN h) ELSE 0
  BY <1>3, <1>5, BagCounts
<1>9. U = {} => DOMAIN h = {}
  BY <1>1, <1>3 DEF KeysOf
<1>10. DOMAIN CountOf(h) = {h[x] : x \in DOMAIN h}
  BY DEF CountOf
<1>11. \A pc : /\ SumAt(CountOf(h), pc) \in Nat
               /\ SumAt(CountOf(h), pc) <= IF pc = r.pc THEN Cardinality(U) ELSE 0
  BY <1>2, <1>6, <1>7, <1>8
<1> QED
  BY <1>1, <1>8, <1>9, <1>10, <1>11

\* The pairs and the values of a kind of access are of pcs that were counted, and
\* no more than the accesses that were counted.
Counted(p, s, c) ==
  /\ FiniteBag(p) /\ FiniteBag(s) /\ FiniteBag(c)
  /\ \A x \in DOMAIN p : x[1] \in DOMAIN c
  /\ \A x \in DOMAIN s : x[2] \in DOMAIN c /\ s[x] <= c[x[2]]
  /\ \A pc \in DOMAIN c : SumAt(p, pc) <= c[pc]

SymbolsOf(k) == Symbols(ModuleOf[k][1], ModuleOf[k][2])

\* A trace of kernel k has right counts, and its pcs are in functions of the module.
Located(c, k) == \A pc \in DOMAIN c : pc \in Nat /\ transform_pc(SymbolsOf(k), pc) # {}
Sound(tr, k) ==
  /\ {"temporal", "pairs", "spatial", "pc_count"} \subseteq DOMAIN tr
  /\ \A kind \in Kinds : /\ Counted(tr.pairs[kind], tr.spatial[kind], tr.pc_count[kind])
                         /\ Located(tr.pc_count[kind], k)

\* What n accesses of one pc add to the bags.
Addition(dp, ds, dc, pc, n) ==
  /\ FiniteBag(dp) /\ FiniteBag(ds) /\ FiniteBag(dc) /\ n \in Nat
  /\ \A x \in DOMAIN dp : x[1] = pc /\ x[1] \in DOMAIN dc
  /\ \A x \in DOMAIN ds : x[2] = pc /\ x[2] \in DOMAIN dc /\ ds[x] <= n
  /\ \A y \in DOMAIN dc : y = pc /\ dc[y] = n
  /\ \A y : SumAt(dp, y) \in Nat /\ SumAt(dp, y) <= IF y \in DOMAIN dc THEN n ELSE 0

\* A record is such an addition.
LEMMA RecordAdds ==
  ASSUME NEW r \in Records, NEW f
  PROVE  Addition(CountOf(Again(f, r)), SpatialBag(r), PcBag(r), r.pc, Cardinality(Units(r)))
<1>1. PICK dp, ds, dc, n : /\ dp = CountOf(Again(f, r)) /\ ds = SpatialBag(r) /\ dc = PcBag(r)
                           /\ n = Cardinality(Units(r))
  OBVIOUS
<1>2. n \in Nat
  BY <1>1, UnitsFinite
<1>3. /\ FiniteBag(dp) /\ \A v \in DOMAIN dp : v[1] = r.pc
      /\ Units(r) = {} => DOMAIN dp = {}
      /\ \A pc : SumAt(dp, pc) \in Nat /\ SumAt(dp, pc) <= IF pc = r.pc THEN n ELSE 0
  BY <1>1, AgainIs
<1>4. /\ FiniteBag(ds) /\ \A v \in DOMAIN ds : v[2] = r.pc /\ ds[v] <= n
      /\ Units(r) = {} => DOMAIN ds = {}
  BY <1>1, SpatialBagIs
<1>5. /\ FiniteBag(dc) /\ DOMAIN dc = (IF Units(r) = {} THEN {} ELSE {r.pc})
      /\ \A pc \in DOMAIN dc : dc[pc] = n
  BY <1>1, PcBagIs
<1>6. Units(r) = {} => n = 0
  BY <1>1, FS_EmptySet
<1>7. ASSUME NEW y PROVE SumAt(dp, y) \in Nat /\ SumAt(dp, y) <= IF y \in DOMAIN dc THEN n ELSE 0
  <2>1. CASE Units(r) = {}
    BY <1>3, <1>5, <1>6, <2>1
  <2>2. CASE Units(r) # {}
    BY <1>3, <1>5, <2>2
  <2> QED
    BY <2>1, <2>2
<1>8. \A x \in DOMAIN dp : x[1] = r.pc /\ x[1] \in DOMAIN dc
  BY <1>3, <1>5
<1>9. \A x \in DOMAIN ds : x[2] = r.pc /\ x[2] \in DOMAIN dc /\ ds[x] <= n
  BY <1>4, <1>5
<1>10. \A y \in DOMAIN dc : y = r.pc /\ dc[y] = n
  BY <1>5
<1>11. Addition(dp, ds, dc, r.pc, n)
  BY <1>2, <1>3, <1>4, <1>5, <1>7, <1>8, <1>9, <1>10 DEF Addition
<1> QED
  BY <1>1, <1>11

\* A bag is the union of two.
Joined(d, a, b) ==
  /\ DOMAIN d = DOMAIN a \cup DOMAIN b
  /\ \A x \in DOMAIN d : d[x] = (IF x \in DOMAIN a THEN a[x] ELSE 0) + (IF x \in DOMAIN b THEN b[x] ELSE 0)

\* Bags after accesses of a pc.
Enlarged(p, s, c, P, S, C, pc) ==
  \E dp, ds, dc, n : Addition(dp, ds, dc, pc, n) /\ P = p (+) dp /\ S = s (+) ds /\ C = c (+) dc

\* An addition keeps the counts right.
LEMMA CountedMore ==
  ASSUME NEW p, NEW s, NEW c, Counted(p, s, c), NEW P, NEW S, NEW C, NEW pc0, Enlarged(p, s, c, P, S, C, pc0)
  PROVE  Counted(P, S, C) /\ \A y \in DOMAIN C : y \in DOMAIN c \/ y = pc0
<1>1. PICK dp, ds, dc, n : Addition(dp, ds, dc, pc0, n) /\ P = p (+) dp /\ S = s (+) ds /\ C = c (+) dc
  BY Zenon DEF Enlarged
<1>2. FiniteBag(p) /\ FiniteBag(s) /\ FiniteBag(c) /\ FiniteBag(dp) /\ FiniteBag(ds) /\ FiniteBag(dc)
  BY <1>1 DEF Counted, Addition
<1>3. FiniteBag(P) /\ FiniteBag(S) /\ FiniteBag(C)
  BY <1>1, <1>2, BagPlus
<1>4. \A pc : SumAt(P, pc) = SumAt(p, pc) + SumAt(dp, pc) /\ SumAt(p, pc) \in Nat /\ SumAt(dp, pc) \in Nat
  BY <1>1, <1>2, BagPlus
<1>5. /\ DOMAIN P = DOMAIN p \cup DOMAIN dp /\ DOMAIN S = DOMAIN s \cup DOMAIN ds /\ DOMAIN C = DOMAIN c \cup DOMAIN dc
      /\ \A x \in DOMAIN S : S[x] = (IF x \in DOMAIN s THEN s[x] ELSE 0) + (IF x \in DOMAIN ds THEN ds[x] ELSE 0)
      /\ \A x \in DOMAIN C : C[x] = (IF x \in DOMAIN c THEN c[x] ELSE 0) + (IF x \in DOMAIN dc THEN dc[x] ELSE 0)
  <2>1. ASSUME NEW a, NEW b, NEW d, d = a (+) b PROVE Joined(d, a, b)
    <3>1. /\ DOMAIN (a (+) b) = DOMAIN a \cup DOMAIN b
          /\ \A x \in DOMAIN a \cup DOMAIN b :
               (a (+) b)[x] = (IF x \in DOMAIN a THEN a[x] ELSE 0) + (IF x \in DOMAIN b THEN b[x] ELSE 0)
      BY UnionOf, Zenon
    <3> QED
      BY <2>1, <3>1, Zenon DEF Joined
  <2>2. DOMAIN P = DOMAIN p \cup DOMAIN dp
    BY <1>1, <2>1 DEF Joined
  <2>a. Joined(S, s, ds) /\ Joined(C, c, dc)
    BY <1>1, <2>1
  <2>3. /\ DOMAIN S = DOMAIN s \cup DOMAIN ds
        /\ \A x \in DOMAIN S : S[x] = (IF x \in DOMAIN s THEN s[x] ELSE 0) + (IF x \in DOMAIN ds THEN ds[x] ELSE 0)
    BY <2>a DEF Joined
  <2>4. /\ DOMAIN C = DOMAIN c \cup DOMAIN dc
        /\ \A x \in DOMAIN C : C[x] = (IF x \in DOMAIN c THEN c[x] ELSE 0) + (IF x \in DOMAIN dc THEN dc[x] ELSE 0)
    BY <2>a DEF Joined
  <2> QED
    BY <2>2, <2>3, <2>4, Zenon
<1>6. n \in Nat /\ \A x \in DOMAIN c : c[x] \in Nat
  BY <1>1, <1>2 DEF FiniteBag, Addition
<1>7. \A x \in DOMAIN P : x[1] \in DOMAIN C
  BY <1>1, <1>5 DEF Counted, Addition
<1>8. ASSUME NEW x \in DOMAIN S PROVE x[2] \in DOMAIN C /\ S[x] <= C[x[2]]
  <2>1. PICK y, a, d : y = x[2] /\ a = (IF x \in DOMAIN s THEN s[x] ELSE 0) /\ d = (IF x \in DOMAIN ds THEN ds[x] ELSE 0)
    OBVIOUS
  <2>2. y \in DOMAIN C
    BY <1>1, <1>5, <1>8, <2>1 DEF Counted, Addition
  <2>3. PICK e, g : e = (IF y \in DOMAIN c THEN c[y] ELSE 0) /\ g = (IF y \in DOMAIN dc THEN dc[y] ELSE 0)
    OBVIOUS
  <2>4. S[x] = a + d /\ C[y] = e + g
    BY <1>5, <2>1, <2>2, <2>3
  <2>5. e \in Nat /\ g \in Nat
    BY <1>1, <1>6, <2>3 DEF Addition
  <2>6. a \in Nat /\ a <= e
    <3>1. CASE x \in DOMAIN s
      BY <1>2, <2>1, <2>3, <3>1 DEF Counted, FiniteBag
    <3>2. CASE x \notin DOMAIN s
      BY <2>1, <2>5, <3>2
    <3> QED
      BY <3>1, <3>2
  <2>7. d \in Nat /\ d <= g
    <3>1. CASE x \in DOMAIN ds
      BY <1>1, <1>2, <2>1, <2>3, <3>1 DEF Addition, FiniteBag
    <3>2. CASE x \notin DOMAIN ds
      BY <2>1, <2>5, <3>2
    <3> QED
      BY <3>1, <3>2
  <2>8. a + d <= e + g
    BY <2>5, <2>6, <2>7
  <2> QED
    BY <2>1, <2>2, <2>4, <2>8
<1>9. ASSUME NEW pc \in DOMAIN C PROVE SumAt(P, pc) <= C[pc]
  <2>1. PICK a, d, e, g : /\ a = SumAt(p, pc) /\ d = SumAt(dp, pc)
                          /\ e = (IF pc \in DOMAIN c THEN c[pc] ELSE 0) /\ g = (IF pc \in DOMAIN dc THEN dc[pc] ELSE 0)
    OBVIOUS
  <2>2. SumAt(P, pc) = a + d /\ C[pc] = e + g /\ a \in Nat /\ d \in Nat
    BY <1>4, <1>5, <2>1
  <2>3. e \in Nat /\ g \in Nat
    BY <1>1, <1>6, <2>1 DEF Addition
  <2>4. a <= e
    <3>1. CASE pc \in DOMAIN c
      BY <2>1, <3>1 DEF Counted
    <3>2. CASE pc \notin DOMAIN c
      <4>1. PcEntries(p, pc) = {}
        BY <3>2 DEF PcEntries, Counted
      <4>2. a = 0
        BY <2>1, <4>1, SumOverEmpty DEF SumAt
      <4> QED
        BY <2>3, <4>2
    <3> QED
      BY <3>1, <3>2
  <2>5. d <= g
    BY <1>1, <2>1 DEF Addition
  <2>6. a + d <= e + g
    BY <2>2, <2>3, <2>4, <2>5
  <2> QED
    BY <2>2, <2>6
<1>10. Counted(P, S, C)
  BY <1>3, <1>7, <1>8, <1>9 DEF Counted
<1>11. \A y \in DOMAIN C : y \in DOMAIN c \/ y = pc0
  BY <1>1, <1>5 DEF Addition
<1> QED
  BY <1>10, <1>11

\* The trace of a new kernel.
LEMMA SoundEmpty == ASSUME NEW k PROVE Sound(EmptyTrace, k)
<1>1. EmptyBag = [e \in {} |-> 1]
  BY DEF EmptyBag, SetToBag
<1>2. DOMAIN EmptyBag = {}
  BY <1>1
<1>3. Counted(EmptyBag, EmptyBag, EmptyBag) /\ Located(EmptyBag, k)
  BY <1>2, FS_EmptySet DEF Counted, FiniteBag, Located
<1>4. /\ {"temporal", "pairs", "spatial", "pc_count"} \subseteq DOMAIN EmptyTrace
      /\ \A kind \in Kinds : EmptyTrace.pairs[kind] = EmptyBag /\ EmptyTrace.spatial[kind] = EmptyBag
                             /\ EmptyTrace.pc_count[kind] = EmptyBag
  BY DEF EmptyTrace
<1>5. PICK T : T = EmptyTrace
  OBVIOUS
<1>6. Sound(T, k)
  BY <1>3, <1>4, <1>5, Zenon DEF Sound
<1> QED
  BY <1>5, <1>6

\* unit_access of the units of a record whose pc is in a function keeps a trace sound.
LEMMA SoundAccess ==
  ASSUME NEW tr, NEW k, Sound(tr, k), NEW r \in Records, transform_pc(SymbolsOf(k), r.pc) # {}
  PROVE  Sound(UnitAccesses(tr, r), k)
<1>1. PICK T : T = UnitAccesses(tr, r)
  OBVIOUS
<1>2. ASSUME NEW kind \in Kinds PROVE Counted(T.pairs[kind], T.spatial[kind], T.pc_count[kind]) /\ Located(T.pc_count[kind], k)
  <2>1. PICK p, s, c : p = tr.pairs[kind] /\ s = tr.spatial[kind] /\ c = tr.pc_count[kind]
    OBVIOUS
  <2>2. Counted(p, s, c) /\ Located(c, k)
    BY <2>1 DEF Sound
  <2>3. PICK dp, ds, dc : dp = CountOf(Again(tr.temporal[kind], r)) /\ ds = SpatialBag(r) /\ dc = PcBag(r)
    OBVIOUS
  <2>4. T.pairs[kind] = IF kind \in r.flags THEN p (+) dp ELSE p
    BY <1>1, <2>1, <2>3, UnitAccessesAre
  <2>5. /\ T.spatial[kind] = IF kind \in r.flags THEN s (+) ds ELSE s
        /\ T.pc_count[kind] = IF kind \in r.flags THEN c (+) dc ELSE c
    BY <1>1, <2>1, <2>3, AccessBags
  <2>6. CASE kind \in r.flags
    <3>1. Addition(dp, ds, dc, r.pc, Cardinality(Units(r)))
      BY <2>3, RecordAdds
    <3>2. PICK P, S, C : P = p (+) dp /\ S = s (+) ds /\ C = c (+) dc
      OBVIOUS
    <3>3. Enlarged(p, s, c, P, S, C, r.pc)
      BY <3>1, <3>2, Zenon DEF Enlarged
    <3>a. Counted(P, S, C) /\ \A y \in DOMAIN C : y \in DOMAIN c \/ y = r.pc
      BY <2>2, <3>3, CountedMore
    <3>4. Located(C, k)
      <4>1. r.pc \in Nat
        BY TraceAssumption
      <4> QED
        BY <2>2, <3>a, <4>1 DEF Located
    <3>5. T.pairs[kind] = p (+) dp /\ T.spatial[kind] = s (+) ds /\ T.pc_count[kind] = c (+) dc
      BY <2>4, <2>5, <2>6, Zenon
    <3> QED
      BY <3>2, <3>a, <3>4, <3>5, Zenon
  <2>7. CASE kind \notin r.flags
    <3>1. T.pairs[kind] = p /\ T.spatial[kind] = s /\ T.pc_count[kind] = c
      BY <2>4, <2>5, <2>7, Zenon
    <3> QED
      BY <2>2, <3>1, Zenon
  <2> QED
    BY <2>6, <2>7
<1>3. {"temporal", "pairs", "spatial", "pc_count"} \subseteq DOMAIN T
  BY <1>1 DEF UnitAccesses
<1>4. Sound(T, k)
  BY <1>2, <1>3 DEF Sound
<1> QED
  BY <1>1, <1>4

\* block_exit leaves the counts alone.
LEMMA SoundExit ==
  ASSUME NEW tr, NEW k, Sound(tr, k), NEW r
  PROVE  Sound(BlockExit(tr, r), k)
<1>1. PICK T, g : T = BlockExit(tr, r) /\ g = [kind \in Kinds |-> Left(tr.temporal[kind], r)]
  OBVIOUS
<1>2. T = [tr EXCEPT !.temporal = g]
  BY <1>1 DEF BlockExit, Left
<1>3. DOMAIN T = DOMAIN tr /\ T.pairs = tr.pairs /\ T.spatial = tr.spatial /\ T.pc_count = tr.pc_count
  BY <1>2 DEF Sound
<1>4. Sound(T, k)
  BY <1>3, Zenon DEF Sound
<1> QED
  BY <1>1, <1>4

-----------------------------------------------------------------------------
(* Views and their entries *)

\* What a view of kernel k is.
Viewed(v, k) ==
  /\ v = [pc |-> v.pc, memory |-> v.memory, access_count |-> v.access_count, red_count |-> v.red_count]
  /\ v.red_count \in Nat /\ v.red_count <= v.access_count
  /\ v.pc \in Nat /\ transform_pc(SymbolsOf(k), v.pc) # {}

\* The views of the temporal analysis.
LEMMA TemporalViewsAre ==
  ASSUME NEW tr, NEW k, Sound(tr, k), NEW kind \in Kinds
  PROVE  IsFiniteSet(TemporalViews(tr, kind)) /\ \A v \in TemporalViews(tr, kind) : Viewed(v, k)
<1>1. PICK b, c, V : b = tr.pairs[kind] /\ c = tr.pc_count[kind] /\ V = TemporalViews(tr, kind)
  OBVIOUS
<1>2. PICK s : Counted(b, s, c) /\ Located(c, k)
  BY <1>1 DEF Sound
<1>3. V = {[pc |-> pc, memory |-> <<>>, access_count |-> c[pc], red_count |-> SumAt(b, pc)] : pc \in {x[1] : x \in DOMAIN b}}
  <2>1. TemporalViews(tr, kind) =
          {[pc |-> pc, memory |-> <<>>, access_count |-> tr.pc_count[kind][pc], red_count |-> SumAt(tr.pairs[kind], pc)] :
             pc \in {x[1] : x \in DOMAIN tr.pairs[kind]}}
    BY Zenon DEF TemporalViews, Sum, SumAt, SumOver, PcEntries
  <2> QED
    BY <1>1, <2>1, Zenon
<1>4. PICK P : P = {x[1] : x \in DOMAIN b}
  OBVIOUS
<1>5. PICK g : g = [pc \in P |-> [pc |-> pc, memory |-> <<>>, access_count |-> c[pc], red_count |-> SumAt(b, pc)]]
  OBVIOUS
<1>6. g \in Surjection(P, V)
  BY <1>3, <1>4, <1>5 DEF Surjection
<1>7. IsFiniteSet(P)
  <2>1. PICK h : h = [x \in DOMAIN b |-> x[1]]
    OBVIOUS
  <2>2. h \in Surjection(DOMAIN b, P)
    BY <1>4, <2>1 DEF Surjection
  <2>3. IsFiniteSet(DOMAIN b)
    BY <1>2 DEF Counted, FiniteBag
  <2> QED
    BY <2>2, <2>3, FS_Surjection
<1>8. IsFiniteSet(V)
  BY <1>6, <1>7, FS_Surjection
<1>9. ASSUME NEW v \in V PROVE Viewed(v, k)
  <2>1. PICK pc \in P : v = [pc |-> pc, memory |-> <<>>, access_count |-> c[pc], red_count |-> SumAt(b, pc)]
    BY <1>3, <1>4
  <2>2. pc \in DOMAIN c
    BY <1>2, <1>4 DEF Counted
  <2>3. SumAt(b, pc) <= c[pc]
    BY <1>2, <2>2 DEF Counted
  <2>4. SumAt(b, pc) \in Nat
    BY <1>2, BagPlus DEF Counted
  <2>5. pc \in Nat /\ transform_pc(SymbolsOf(k), pc) # {}
    BY <1>2, <2>2 DEF Located
  <2>6. v.pc = pc /\ v.memory = <<>> /\ v.access_count = c[pc] /\ v.red_count = SumAt(b, pc)
    BY <2>1
  <2>7. v = [pc |-> v.pc, memory |-> v.memory, access_count |-> v.access_count, red_count |-> v.red_count]
    BY <2>1, <2>6
  <2> QED
    BY <2>3, <2>4, <2>5, <2>6, <2>7 DEF Viewed
<1> QED
  BY <1>1, <1>8, <1>9

\* The counts of the values at a memory and a pc.
ValuesOf(b, q) == {b[x] : x \in {y \in DOMAIN b : y[1] = q[1] /\ y[2] = q[2]}}

\* The views of the spatial analysis.
LEMMA SpatialViewsAre ==
  ASSUME NEW tr, NEW k, Sound(tr, k), NEW kind \in Kinds
  PROVE  IsFiniteSet(SpatialViews(tr, kind)) /\ \A v \in SpatialViews(tr, kind) : Viewed(v, k)
<1>1. PICK b, c, V : b = tr.spatial[kind] /\ c = tr.pc_count[kind] /\ V = SpatialViews(tr, kind)
  OBVIOUS
<1>2. PICK p : Counted(p, b, c) /\ Located(c, k)
  BY <1>1 DEF Sound
<1>3. V = {[pc |-> q[2], memory |-> q[1], access_count |-> c[q[2]], red_count |-> Max(ValuesOf(b, q))] :
             q \in {<<x[1], x[2]>> : x \in DOMAIN b}}
  <2>1. SpatialViews(tr, kind) =
          {[pc |-> q[2], memory |-> q[1], access_count |-> tr.pc_count[kind][q[2]],
            red_count |-> Max(ValuesOf(tr.spatial[kind], q))] :
             q \in {<<x[1], x[2]>> : x \in DOMAIN tr.spatial[kind]}}
    BY Zenon DEF SpatialViews, ValuesOf
  <2> QED
    BY <1>1, <2>1, Zenon
<1>4. PICK P : P = {<<x[1], x[2]>> : x \in DOMAIN b}
  OBVIOUS
<1>5. ASSUME NEW q \in P
      PROVE  /\ q[2] \in DOMAIN c /\ c[q[2]] \in Nat
             /\ Max(ValuesOf(b, q)) \in Nat /\ Max(ValuesOf(b, q)) <= c[q[2]]
  <2>1. PICK x \in DOMAIN b : q = <<x[1], x[2]>>
    BY <1>4
  <2>2. q[1] = x[1] /\ q[2] = x[2]
    BY <2>1
  <2>3. b[x] \in ValuesOf(b, q)
    BY <2>2 DEF ValuesOf
  <2>4. q[2] \in DOMAIN c /\ c[q[2]] \in Nat
    BY <1>2, <2>2 DEF Counted, FiniteBag
  <2>5. \A n \in ValuesOf(b, q) : n \in Nat /\ n <= c[q[2]]
    BY <1>2 DEF Counted, FiniteBag, ValuesOf
  <2>6. PICK S, n : S = ValuesOf(b, q) /\ n = c[q[2]]
    OBVIOUS
  <2>7. S \in SUBSET Nat /\ S # {} /\ n \in Nat /\ \A y \in S : y <= n
    BY <2>3, <2>4, <2>5, <2>6
  <2>8. Max(S) \in S
    BY <2>7, LargestOf
  <2> QED
    BY <2>4, <2>6, <2>7, <2>8
<1>6. PICK g : g = [q \in P |-> [pc |-> q[2], memory |-> q[1], access_count |-> c[q[2]], red_count |-> Max(ValuesOf(b, q))]]
  OBVIOUS
<1>7. g \in Surjection(P, V)
  BY <1>3, <1>4, <1>6 DEF Surjection
<1>8. IsFiniteSet(P)
  <2>1. PICK h : h = [x \in DOMAIN b |-> <<x[1], x[2]>>]
    OBVIOUS
  <2>2. h \in Surjection(DOMAIN b, P)
    BY <1>4, <2>1 DEF Surjection
  <2>3. IsFiniteSet(DOMAIN b)
    BY <1>2 DEF Counted, FiniteBag
  <2> QED
    BY <2>2, <2>3, FS_Surjection
<1>9. IsFiniteSet(V)
  BY <1>7, <1>8, FS_Surjection
<1>10. ASSUME NEW v \in V PROVE Viewed(v, k)
  <2>1. PICK q \in P : v = [pc |-> q[2], memory |-> q[1], access_count |-> c[q[2]], red_count |-> Max(ValuesOf(b, q))]
    BY <1>3, <1>4
  <2>2. q[2] \in Nat /\ transform_pc(SymbolsOf(k), q[2]) # {}
    BY <1>2, <1>5 DEF Located
  <2>3. v.pc = q[2] /\ v.memory = q[1] /\ v.access_count = c[q[2]] /\ v.red_count = Max(ValuesOf(b, q))
    BY <2>1
  <2>4. v = [pc |-> v.pc, memory |-> v.memory, access_count |-> v.access_count, red_count |-> v.red_count]
    BY <2>1, <2>3
  <2> QED
    BY <1>5, <2>2, <2>3, <2>4 DEF Viewed
<1> QED
  BY <1>1, <1>9, <1>10

\* The bag of an analysis, and the test for the entries behind a view.
BagFor(tr, analysis, kind) == IF analysis = "temporal" THEN tr.pairs[kind] ELSE tr.spatial[kind]
Behind(y, analysis, view) == IF analysis = "temporal" THEN y[1] = view.pc ELSE y[1] = view.memory /\ y[2] = view.pc

\* The entries behind a view.
LEMMA DetailsAre ==
  ASSUME NEW tr, NEW k, Sound(tr, k), NEW analysis, NEW kind \in Kinds, NEW view
  PROVE  LET D == Details(tr, analysis, kind, view) IN
           /\ IsFiniteSet(D) /\ Countable(D)
           /\ D = {[entry |-> x, red_count |-> BagFor(tr, analysis, kind)[x]] :
                     x \in {y \in DOMAIN BagFor(tr, analysis, kind) : Behind(y, analysis, view)}}
<1>1. PICK b, D, E : /\ b = BagFor(tr, analysis, kind) /\ D = Details(tr, analysis, kind, view)
                     /\ E = {y \in DOMAIN b : Behind(y, analysis, view)}
  OBVIOUS
<1>2. D = {[entry |-> x, red_count |-> b[x]] : x \in E}
  BY <1>1, Zenon DEF Details, BagFor, Behind
<1>3. FiniteBag(b)
  BY <1>1 DEF Sound, Counted, BagFor
<1>4. IsFiniteSet(E) /\ \A x \in E : b[x] \in Nat
  BY <1>1, <1>3, FS_Subset DEF FiniteBag
<1>5. PICK g : g = [x \in E |-> [entry |-> x, red_count |-> b[x]]]
  OBVIOUS
<1>6. g \in Surjection(E, D)
  BY <1>2, <1>5 DEF Surjection
<1>7. IsFiniteSet(D)
  BY <1>4, <1>6, FS_Surjection
<1>8. Countable(D)
  BY <1>2, <1>4 DEF Countable
<1> QED
  BY <1>1, <1>2, <1>7, <1>8

\* An entry is behind one view only.
LEMMA DetailsApart ==
  ASSUME NEW tr, NEW k, Sound(tr, k), NEW analysis, NEW kind \in Kinds, NEW v, NEW w,
         NEW d, d \in Details(tr, analysis, kind, v), d \in Details(tr, analysis, kind, w)
  PROVE  Details(tr, analysis, kind, v) = Details(tr, analysis, kind, w)
<1>1. PICK b : b = BagFor(tr, analysis, kind)
  OBVIOUS
<1>2. /\ Details(tr, analysis, kind, v) = {[entry |-> x, red_count |-> b[x]] : x \in {y \in DOMAIN b : Behind(y, analysis, v)}}
      /\ Details(tr, analysis, kind, w) = {[entry |-> x, red_count |-> b[x]] : x \in {y \in DOMAIN b : Behind(y, analysis, w)}}
  BY <1>1, DetailsAre
<1>3. PICK x : Behind(x, analysis, v) /\ d = [entry |-> x, red_count |-> b[x]]
  BY <1>2
<1>4. PICK z : Behind(z, analysis, w) /\ d = [entry |-> z, red_count |-> b[z]]
  BY <1>2
<1>5. x = z
  BY <1>3, <1>4
<1>6. \A y : Behind(y, analysis, v) <=> Behind(y, analysis, w)
  BY <1>3, <1>4, <1>5 DEF Behind
<1>7. {y \in DOMAIN b : Behind(y, analysis, v)} = {y \in DOMAIN b : Behind(y, analysis, w)}
  BY <1>6
<1> QED
  BY <1>2, <1>7

-----------------------------------------------------------------------------
(* The report of a trace *)

\* What ViewsAreTop says of one view and of one report.
Cut(v) == [pc |-> v.pc, memory |-> v.memory, red_count |-> v.red_count, access_count |-> v.access_count]
RightView(tr, x, stats, v) ==
  /\ v.red_count <= v.access_count
  /\ SymbolPcs[ModuleOf[x[1]]][v.function] + v.pc_offset = v.pc
  /\ v.pc_offset = v.pc - Max({p \in {s.pc : s \in SymbolsOf(x[1])} : p <= v.pc})
  /\ IsTop(Details(tr, x[2], x[3], v) \cap stats, Details(tr, x[2], x[3], v), MemViewsLimit)
RightReport(tr, rep, x) ==
  /\ IsTop({Cut(v) : v \in rep.views}, Views(tr, x[2], x[3]), PcViewsLimit)
  /\ \A v \in rep.views : RightView(tr, x, rep.stats, v)

\* ViewsAreTop is that every report is right.
LEMMA ViewsAreTopIs ==
  ViewsAreTop <=> \A t \in Threads : \A x \in DOMAIN report[t] : RightReport(kernel_trace[t][x[1]], report[t][x], x)
  BY Zenon DEF ViewsAreTop, RightReport, RightView, Cut, SymbolsOf

\* The report that flush_thread makes.
ReportOf(tr, x, syms) ==
  [views |-> {Transformed(v, syms) : v \in TopOf(PcViewsLimit, Views(tr, x[2], x[3]))},
   stats |-> IF MemViewsLimit = 0 THEN {}
             ELSE UNION {TopOf(MemViewsLimit, Details(tr, x[2], x[3], v)) : v \in TopOf(PcViewsLimit, Views(tr, x[2], x[3]))}]

\* The symbol of an address.
LEMMA SymbolOfPc ==
  ASSUME NEW k \in Kernels, NEW pc \in Nat, NEW s \in transform_pc(SymbolsOf(k), pc)
  PROVE  /\ s.pc \in Nat /\ SymbolPcs[ModuleOf[k]][s.index] = s.pc
         /\ Max({p \in {q.pc : q \in SymbolsOf(k)} : p <= pc}) = s.pc
<1>1. PICK c, m : c = ModuleOf[k][1] /\ m = ModuleOf[k][2]
  OBVIOUS
<1>2. ModuleOf[k] = <<c, m>> /\ c \in Cubins /\ m \in Mods
  BY <1>1, TraceAssumption, ModulesArePairs
<1>3. PICK q : q = SymbolPcs[<<c, m>>]
  OBVIOUS
<1>4. q \in Seq(Nat)
  BY <1>2, <1>3, RegistryAssumption
<1>5. \A i \in DOMAIN q : q[i] \in Nat
  BY <1>4
<1>6. SymbolsOf(k) = {[index |-> i, pc |-> q[i]] : i \in DOMAIN q}
  BY <1>1, <1>3, Zenon DEF SymbolsOf, Symbols
<1>7. s \in SymbolsOf(k) /\ s.pc <= pc /\ \A u \in SymbolsOf(k) : u.pc <= pc => u.pc <= s.pc
  BY DEF transform_pc
<1>8. PICK i \in DOMAIN q : s = [index |-> i, pc |-> q[i]]
  BY <1>6, <1>7
<1>9. s.index = i /\ s.pc = q[i] /\ s.pc \in Nat
  BY <1>5, <1>8
<1>10. PICK P : P = {p \in {u.pc : u \in SymbolsOf(k)} : p <= pc}
  OBVIOUS
<1>11. s.pc \in P /\ \A p \in P : p <= s.pc /\ p \in Nat
  BY <1>5, <1>6, <1>7, <1>10
<1>12. P \in SUBSET Nat /\ P # {}
  BY <1>11
<1>13. Max(P) \in P /\ \A p \in P : p <= Max(P)
  BY <1>9, <1>11, <1>12, LargestOf
<1>14. Max(P) = s.pc
  <2>1. Max(P) \in Nat /\ Max(P) <= s.pc /\ s.pc <= Max(P)
    BY <1>11, <1>13
  <2> QED
    BY <1>9, <2>1
<1> QED
  BY <1>2, <1>3, <1>9, <1>10, <1>14

\* The entries in a report of one of its views are the largest behind it.
LEMMA StatsAreTop ==
  ASSUME NEW tr, NEW k, Sound(tr, k), NEW analysis, NEW kind \in Kinds, NEW top, NEW v \in top, NEW stats,
         stats = IF MemViewsLimit = 0 THEN {}
                 ELSE UNION {TopOf(MemViewsLimit, Details(tr, analysis, kind, w)) : w \in top}
  PROVE  IsTop(Details(tr, analysis, kind, v) \cap stats, Details(tr, analysis, kind, v), MemViewsLimit)
<1>1. PICK D : D = Details(tr, analysis, kind, v)
  OBVIOUS
<1>2. IsFiniteSet(D) /\ Countable(D)
  BY <1>1, DetailsAre
<1>3. Cardinality(D) \in Nat /\ MemViewsLimit \in Nat
  BY <1>2, FS_CardinalityType, TraceAssumption
<1>4. CASE MemViewsLimit = 0
  <2>1. D \cap stats = {}
    BY <1>4
  <2>2. Cardinality({}) = 0
    BY FS_EmptySet
  <2>3. Min({Cardinality(D), 0}) = 0
    <3>1. Min({Cardinality(D), 0}) = IF Cardinality(D) <= 0 THEN Cardinality(D) ELSE 0
      BY <1>3, MinOfTwo
    <3> QED
      BY <1>3, <3>1
  <2>4. IsTop({}, D, 0)
    BY <2>2, <2>3 DEF IsTop
  <2> QED
    BY <1>1, <1>4, <2>1, <2>4
<1>5. CASE MemViewsLimit # 0
  <2>1. ASSUME NEW w PROVE IsTop(TopOf(MemViewsLimit, Details(tr, analysis, kind, w)), Details(tr, analysis, kind, w), MemViewsLimit)
    <3>1. PICK E : E = Details(tr, analysis, kind, w)
      OBVIOUS
    <3>2. IsFiniteSet(E) /\ Countable(E)
      BY <3>1, DetailsAre
    <3>3. MemViewsLimit \in Nat \ {0}
      BY <1>3, <1>5
    <3>4. IsTop(TopOf(MemViewsLimit, E), E, MemViewsLimit)
      BY <3>2, <3>3, TopOfIsTop
    <3> QED
      BY <3>1, <3>4
  <2>2. \A w : TopOf(MemViewsLimit, Details(tr, analysis, kind, w)) \subseteq Details(tr, analysis, kind, w)
    BY <2>1 DEF IsTop
  <2>3. PICK K : K = TopOf(MemViewsLimit, D)
    OBVIOUS
  <2>4. \A d : d \in stats <=> \E w \in top : d \in TopOf(MemViewsLimit, Details(tr, analysis, kind, w))
    BY <1>5
  <2>5. K \subseteq D \cap stats
    BY <1>1, <2>2, <2>3, <2>4
  <2>6. ASSUME NEW d \in D \cap stats PROVE d \in K
    <3>1. PICK w \in top : d \in TopOf(MemViewsLimit, Details(tr, analysis, kind, w))
      BY <2>4
    <3>2. d \in Details(tr, analysis, kind, w) /\ d \in Details(tr, analysis, kind, v)
      BY <1>1, <2>2, <3>1
    <3>3. Details(tr, analysis, kind, v) = Details(tr, analysis, kind, w)
      BY <3>2, DetailsApart
    <3> QED
      BY <1>1, <2>3, <3>1, <3>3, Zenon
  <2>7. D \cap stats = K
    BY <2>5, <2>6
  <2>8. IsTop(K, D, MemViewsLimit)
    BY <1>1, <2>1, <2>3, Zenon
  <2> QED
    BY <1>1, <2>7, <2>8, Zenon
<1> QED
  BY <1>4, <1>5

\* The report of a sound trace is right.
LEMMA ReportIsRight ==
  ASSUME NEW k \in Kernels, NEW x, x[1] = k, x[3] \in Kinds, NEW tr, Sound(tr, k)
  PROVE  RightReport(tr, ReportOf(tr, x, SymbolsOf(k)), x)
<1>1. PICK V, top, stats, syms, rep :
        /\ V = Views(tr, x[2], x[3]) /\ top = TopOf(PcViewsLimit, V) /\ syms = SymbolsOf(k)
        /\ stats = (IF MemViewsLimit = 0 THEN {} ELSE UNION {TopOf(MemViewsLimit, Details(tr, x[2], x[3], v)) : v \in top})
        /\ rep = ReportOf(tr, x, syms)
  OBVIOUS
<1>2. rep.views = {Transformed(v, syms) : v \in top} /\ rep.stats = stats
  BY <1>1, Zenon DEF ReportOf
<1>3. IsFiniteSet(V) /\ \A v \in V : Viewed(v, k)
  BY <1>1, TemporalViewsAre, SpatialViewsAre DEF Views
<1>4. IsTop(top, V, PcViewsLimit)
  <2>1. Countable(V)
    BY <1>3 DEF Countable, Viewed
  <2>2. PcViewsLimit \in Nat \ {0}
    BY TraceAssumption
  <2> QED
    BY <1>1, <1>3, <2>1, <2>2, TopOfIsTop
<1>5. \A v \in top : v \in V /\ Viewed(v, k)
  BY <1>3, <1>4 DEF IsTop
<1>6. ASSUME NEW v \in top, NEW T, T = Transformed(v, syms)
      PROVE  Cut(T) = v /\ RightView(tr, x, stats, T)
  <2>1. PICK s : s = (CHOOSE y \in transform_pc(syms, v.pc) : TRUE)
    OBVIOUS
  <2>2. T = [function |-> s.index, pc_offset |-> v.pc - s.pc, red_count |-> v.red_count,
             access_count |-> v.access_count, pc |-> v.pc, memory |-> v.memory]
    BY <1>6, <2>1, Zenon DEF Transformed
  <2>3. /\ T.function = s.index /\ T.pc_offset = v.pc - s.pc /\ T.red_count = v.red_count
        /\ T.access_count = v.access_count /\ T.pc = v.pc /\ T.memory = v.memory
    BY <2>2
  <2>4. /\ v = [pc |-> v.pc, memory |-> v.memory, access_count |-> v.access_count, red_count |-> v.red_count]
        /\ v.red_count <= v.access_count /\ v.pc \in Nat /\ transform_pc(syms, v.pc) # {}
    BY <1>1, <1>5 DEF Viewed
  <2>5. Cut(T) = v
    BY <2>3, <2>4 DEF Cut
  <2>6. s \in transform_pc(syms, v.pc)
    BY <2>1, <2>4
  <2>7. PICK pc : pc = v.pc
    OBVIOUS
  <2>8. /\ s.pc \in Nat /\ SymbolPcs[ModuleOf[k]][s.index] = s.pc
        /\ Max({p \in {q.pc : q \in SymbolsOf(k)} : p <= pc}) = s.pc
    BY <1>1, <2>4, <2>6, <2>7, SymbolOfPc
  <2>9. SymbolPcs[ModuleOf[k]][T.function] + T.pc_offset = T.pc
    <3>1. s.pc + (pc - s.pc) = pc
      BY <2>4, <2>7, <2>8
    <3> QED
      BY <2>3, <2>7, <2>8, <3>1
  <2>10. T.pc_offset = T.pc - Max({p \in {q.pc : q \in SymbolsOf(k)} : p <= T.pc})
    BY <2>3, <2>7, <2>8, Zenon
  <2>11. Details(tr, x[2], x[3], T) = Details(tr, x[2], x[3], v)
    BY <2>3, Zenon DEF Details
  <2>12. IsTop(Details(tr, x[2], x[3], v) \cap stats, Details(tr, x[2], x[3], v), MemViewsLimit)
    BY <1>1, StatsAreTop
  <2>13. T.red_count <= T.access_count
    BY <2>3, <2>4
  <2>14. RightView(tr, x, stats, T)
    BY <2>9, <2>10, <2>11, <2>12, <2>13, Zenon DEF RightView
  <2> QED
    BY <2>5, <2>14
<1>7. {Cut(w) : w \in rep.views} = top
  <2>1. ASSUME NEW w \in rep.views PROVE Cut(w) \in top
    BY <1>2, <1>6
  <2>2. ASSUME NEW v \in top PROVE \E w \in rep.views : Cut(w) = v
    BY <1>2, <1>6
  <2> QED
    BY <2>1, <2>2
<1>8. \A w \in rep.views : RightView(tr, x, rep.stats, w)
  BY <1>2, <1>6
<1>9. RightReport(tr, rep, x)
  BY <1>1, <1>4, <1>7, <1>8, Zenon DEF RightReport
<1> QED
  BY <1>1, <1>9

-----------------------------------------------------------------------------
(* The invariant of the reports *)

\* The registry has the symbols of its modules.
RightMap == \A c \in DOMAIN cubin_map : \A m \in DOMAIN cubin_map[c] : cubin_map[c][m] = Symbols(c, m)

\* A thread that feeds records has the symbols of its module, its traces are
\* sound and of modules that stay registered until it reports, and its reports
\* are right.
Known(k) == Registered(ModuleOf[k][1], ModuleOf[k][2])
Reports(t) ==
  /\ DOMAIN kernel_trace[t] \subseteq Kernels
  /\ step[t] \in {"begin", "records"} => Known(job[t]) /\ symbols[t] = SymbolsOf(job[t])
  /\ step[t] = "records" => job[t] \in DOMAIN kernel_trace[t]
  /\ \A k \in DOMAIN kernel_trace[t] : Sound(kernel_trace[t][k], k)
  /\ step[t] # "done" => DOMAIN report[t] = {} /\ \A k \in DOMAIN kernel_trace[t] : Known(k)
  /\ \A x \in DOMAIN report[t] : RightReport(kernel_trace[t][x[1]], report[t][x], x)

VInv ==
  /\ DOMAIN kernel_trace = Threads /\ DOMAIN report = Threads /\ DOMAIN symbols = Threads
  /\ RightMap /\ \A t \in Threads : Reports(t)

\* Registration puts the symbols of the module into the registry.
LEMMA RegisterRight ==
  ASSUME RightMap, NEW c, NEW m, redshow_cubin_register(c, m)
  PROVE  RightMap'
<1>1. CASE RegisterResult(c, m) # "SUCCESS"
  BY <1>1 DEF redshow_cubin_register, RightMap
<1>2. CASE RegisterResult(c, m) = "SUCCESS"
  <2>1. PICK old, S : old = (IF c \in DOMAIN cubin_map THEN cubin_map[c] ELSE <<>>) /\ S = Symbols(c, m)
    OBVIOUS
  <2>2. PICK new : new = Extended(old, m, S)
    OBVIOUS
  <2>3. cubin_map' = Extended(cubin_map, c, new)
    BY <1>2, <2>1, <2>2 DEF redshow_cubin_register
  <2>4. /\ DOMAIN cubin_map' = DOMAIN cubin_map \cup {c}
        /\ cubin_map'[c] = new
        /\ \A d \in DOMAIN cubin_map : d # c => cubin_map'[d] = cubin_map[d]
    BY <2>3 DEF Extended
  <2>5. DOMAIN new = DOMAIN old \cup {m} /\ new[m] = S /\ \A n \in DOMAIN old : n # m => new[n] = old[n]
    BY <2>2 DEF Extended
  <2>6. \A n \in DOMAIN old : old[n] = Symbols(c, n)
    BY <2>1 DEF RightMap
  <2>7. \A n \in DOMAIN new : new[n] = Symbols(c, n)
    BY <2>1, <2>5, <2>6
  <2>8. ASSUME NEW d \in DOMAIN cubin_map' PROVE \A n \in DOMAIN cubin_map'[d] : cubin_map'[d][n] = Symbols(d, n)
    <3>1. CASE d = c
      BY <2>4, <2>7, <3>1
    <3>2. CASE d # c
      BY <2>4, <3>2 DEF RightMap
    <3> QED
      BY <3>1, <3>2
  <2> QED
    BY <2>8 DEF RightMap
<1> QED
  BY <1>1, <1>2

\* Unregistration leaves the other modules as they are.
LEMMA UnregisterRight ==
  ASSUME RightMap, NEW c, NEW m, redshow_cubin_unregister(c, m)
  PROVE  RightMap'
<1>0. PICK left : left = DOMAIN cubin_map[c] \ {m}
  OBVIOUS
<1>1. CASE left = {}
  <2>1. cubin_map' = [x \in DOMAIN cubin_map \ {c} |-> cubin_map[x]]
    BY <1>0, <1>1 DEF redshow_cubin_unregister
  <2>2. \A d \in DOMAIN cubin_map' : d \in DOMAIN cubin_map /\ cubin_map'[d] = cubin_map[d]
    BY <2>1
  <2> QED
    BY <2>2 DEF RightMap
<1>2. CASE left # {}
  <2>1. PICK new : new = [n \in left |-> cubin_map[c][n]]
    OBVIOUS
  <2>2. c \in DOMAIN cubin_map /\ cubin_map' = [cubin_map EXCEPT ![c] = new]
    BY <1>0, <1>2, <2>1 DEF redshow_cubin_unregister
  <2>3. /\ DOMAIN cubin_map' = DOMAIN cubin_map /\ cubin_map'[c] = new
        /\ \A d \in DOMAIN cubin_map : d # c => cubin_map'[d] = cubin_map[d]
    BY <2>2
  <2>4. \A n \in DOMAIN new : new[n] = Symbols(c, n)
    BY <1>0, <2>1, <2>2 DEF RightMap
  <2>5. ASSUME NEW d \in DOMAIN cubin_map' PROVE \A n \in DOMAIN cubin_map'[d] : cubin_map'[d][n] = Symbols(d, n)
    <3>1. CASE d = c
      BY <2>3, <2>4, <3>1
    <3>2. CASE d # c
      BY <2>3, <3>2 DEF RightMap
    <3> QED
      BY <3>1, <3>2
  <2> QED
    BY <2>5 DEF RightMap
<1> QED
  BY <1>1, <1>2

\* No module that a kernel is of goes.
Keeps == \A k \in Kernels : Known(k) => Known(k)'

\* A step that leaves the traces and the report of a thread alone.
LEMMA ReportsStill ==
  ASSUME NEW t \in Threads, Reports(t), job[t] \in Kernels,
         kernel_trace'[t] = kernel_trace[t], report'[t] = report[t],
         step'[t] = "done" <=> step[t] = "done",
         step'[t] = "records" => step[t] = "records",
         step'[t] \in {"begin", "records"} =>
           step[t] \in {"begin", "records"} /\ job'[t] = job[t] /\ symbols'[t] = symbols[t],
         \A k \in Kernels :
           /\ Known(k)
           /\ \/ step[t] \in {"begin", "records"} /\ k = job[t]
              \/ step[t] # "done" /\ k \in DOMAIN kernel_trace[t]
           => Known(k)'
  PROVE  Reports(t)'
<1>1. DOMAIN kernel_trace[t] \subseteq Kernels
  BY DEF Reports
<1>a. PICK j \in Kernels : j = job[t]
  OBVIOUS
<1>2. step'[t] \in {"begin", "records"} => Known(j) /\ symbols'[t] = SymbolsOf(j) /\ job'[t] = j
  BY <1>a DEF Reports
<1>b. step'[t] \in {"begin", "records"} => Known(j)'
  BY <1>2, <1>a
<1>3. step'[t] \in {"begin", "records"} => Known(job[t])' /\ symbols'[t] = SymbolsOf(job'[t])
  BY <1>2, <1>b DEF Known, Registered
<1>4. step'[t] = "records" => job'[t] \in DOMAIN kernel_trace'[t]
  BY DEF Reports
<1>5. \A k \in DOMAIN kernel_trace'[t] : Sound(kernel_trace'[t][k], k)
  BY DEF Reports
<1>6. step'[t] # "done" => DOMAIN report'[t] = {} /\ \A k \in DOMAIN kernel_trace'[t] : Known(k)'
  BY <1>1 DEF Reports
<1>7. \A x \in DOMAIN report'[t] : RightReport(kernel_trace'[t][x[1]], report'[t][x], x)
  BY DEF Reports
<1> QED
  BY <1>1, <1>2, <1>3, <1>4, <1>5, <1>6, <1>7 DEF Reports

\* A step of one thread that changes no trace and no report, and keeps the modules.
LEMMA ThreadStep ==
  ASSUME VInv, Types, RightMap', Keeps, NEW t \in Threads, UNCHANGED <<kernel_trace, report>>,
         DOMAIN symbols' = Threads,
         \A u \in Threads \ {t} : step'[u] = step[u] /\ job'[u] = job[u] /\ symbols'[u] = symbols[u],
         step[t] # "done", step'[t] # "done", step'[t] # "records",
         step'[t] = "begin" => Known(job[t])' /\ symbols'[t] = SymbolsOf(job'[t])
  PROVE  VInv'
<1>1. \A u \in Threads : Reports(u) /\ job[u] \in Kernels
  BY DEF VInv, Types
<1>2. ASSUME NEW u \in Threads, u # t PROVE Reports(u)'
  <2>1. \A k \in Kernels : Known(k) => Known(k)'
    BY DEF Keeps
  <2> QED
    BY <1>1, <1>2, <2>1, ReportsStill
<1>3. Reports(t)'
  <2>1. DOMAIN kernel_trace[t] \subseteq Kernels
    BY <1>1 DEF Reports
  <2>2. \A k \in DOMAIN kernel_trace[t] : Known(k)'
    BY <1>1, <2>1 DEF Reports, Keeps
  <2> QED
    BY <1>1, <2>1, <2>2 DEF Reports
<1> QED
  BY <1>2, <1>3 DEF VInv

\* A step that leaves the registry alone keeps the modules.
LEMMA RegistryStill ==
  ASSUME UNCHANGED cubin_map
  PROVE  Keeps /\ (RightMap => RightMap')
  BY DEF Keeps, Known, Registered, RightMap

\* A step of a thread that has a trace of its kernel keeps what it has of the
\* others sound.
LEMMA TraceStep ==
  ASSUME VInv, Types, NEW t \in Threads, step[t] \in {"begin", "records"}, step'[t] = "records",
         UNCHANGED <<cubin_map, report, job, symbols>>, DOMAIN step' = Threads,
         \A u \in Threads \ {t} : step'[u] = step[u],
         NEW K, kernel_trace' = [kernel_trace EXCEPT ![t] = K],
         DOMAIN K = DOMAIN kernel_trace[t] \cup {job[t]},
         \A k \in DOMAIN K : Sound(K[k], k)
  PROVE  VInv'
<1>1. /\ DOMAIN kernel_trace = Threads /\ RightMap
      /\ \A u \in Threads : Reports(u) /\ job[u] \in Kernels
  BY DEF VInv, Types
<1>2. /\ DOMAIN kernel_trace' = Threads /\ kernel_trace'[t] = K
      /\ \A u \in Threads \ {t} : kernel_trace'[u] = kernel_trace[u]
  BY <1>1
<1>3. RightMap' /\ Keeps
  BY <1>1, RegistryStill
<1>4. ASSUME NEW u \in Threads, u # t PROVE Reports(u)'
  <2>1. \A k \in Kernels : Known(k) => Known(k)'
    BY <1>3 DEF Keeps
  <2> QED
    BY <1>1, <1>2, <1>4, <2>1, ReportsStill
<1>5. Reports(t)'
  <2>1. PICK j \in Kernels : j = job[t]
    BY <1>1
  <2>2. Known(j) /\ symbols[t] = SymbolsOf(j) /\ DOMAIN kernel_trace[t] \subseteq Kernels
    BY <1>1, <2>1 DEF Reports
  <2>3. DOMAIN report[t] = {} /\ \A k \in DOMAIN kernel_trace[t] : Known(k)
    BY <1>1 DEF Reports
  <2>4. \A k \in DOMAIN K : k \in Kernels /\ Known(k)'
    BY <1>3, <2>1, <2>2, <2>3 DEF Keeps
  <2>5. Known(job[t])' /\ symbols'[t] = SymbolsOf(job'[t])
    BY <2>1, <2>2 DEF Known, Registered
  <2>6. job'[t] \in DOMAIN K
    BY <2>1
  <2> QED
    BY <1>2, <2>3, <2>4, <2>5, <2>6 DEF Reports
<1> QED
  BY <1>2, <1>3, <1>4, <1>5 DEF VInv

\* One record.
LEMMA RecordReports ==
  ASSUME VInv, Types, NEW t \in Threads, NEW r \in Records, Record(t, r)
  PROVE  VInv'
<1>1. step[t] = "records" /\ UNCHANGED <<cubin_map, report, job, symbols>>
  BY DEF Record, registry
<1>2. PICK k : k = job[t]
  OBVIOUS
<1>3. /\ DOMAIN kernel_trace = Threads /\ DOMAIN symbols = Threads /\ DOMAIN step = Threads
      /\ \A u \in Threads : Reports(u)
  BY DEF VInv, Types
<1>4. /\ k \in DOMAIN kernel_trace[t] /\ symbols[t] = SymbolsOf(k)
      /\ \A x \in DOMAIN kernel_trace[t] : Sound(kernel_trace[t][x], x)
  BY <1>1, <1>2, <1>3 DEF Reports
<1>5. PICK tr : tr = kernel_trace[t][k]
  OBVIOUS
<1>6. PICK size \in IF "EXIT" \in r.flags THEN StaleSizes ELSE {r.size} :
        /\ Turn(t, r, size, k)
        /\ Ends(Found(r, size)) <=> "EXIT" \in r.flags /\ size # 0
  BY <1>2, RecordTurns
<1>7. ASSUME NEW T, Sound(T, k), kernel_trace' = [kernel_trace EXCEPT ![t][k] = T], UNCHANGED step PROVE VInv'
  <2>1. PICK K : K = [kernel_trace[t] EXCEPT ![k] = T]
    OBVIOUS
  <2>2. kernel_trace' = [kernel_trace EXCEPT ![t] = K]
    BY <1>7, <2>1
  <2>3. DOMAIN K = DOMAIN kernel_trace[t] \cup {job[t]}
    BY <1>2, <1>4, <2>1
  <2>4. \A x \in DOMAIN K : Sound(K[x], x)
    <3>1. K[k] = T /\ \A x \in DOMAIN kernel_trace[t] : x # k => K[x] = kernel_trace[t][x]
      BY <1>4, <2>1
    <3> QED
      BY <1>2, <1>4, <1>7, <2>3, <3>1
  <2>5. step'[t] = "records" /\ DOMAIN step' = Threads /\ \A u \in Threads \ {t} : step'[u] = step[u]
    BY <1>1, <1>3, <1>7
  <2> QED
    BY <1>1, <2>2, <2>3, <2>4, <2>5, TraceStep
<1>8. ASSUME UNCHANGED <<kernel_trace, step>> PROVE VInv'
  <2>1. RightMap' /\ Keeps
    BY <1>1, RegistryStill DEF VInv
  <2>2. ASSUME NEW u \in Threads PROVE Reports(u)'
    <3>1. \A j \in Kernels : Known(j) => Known(j)'
      BY <2>1 DEF Keeps
    <3>2. job[u] \in Kernels
      BY DEF Types
    <3> QED
      BY <1>1, <1>3, <1>8, <3>1, <3>2, ReportsStill
  <2> QED
    BY <1>1, <1>3, <1>8, <2>1, <2>2 DEF VInv
<1>9. CASE size = 0
  BY <1>6, <1>8, <1>9 DEF Turn
<1>10. CASE "EXIT" \in r.flags /\ size # 0
  <2>1. PICK T : T = BlockExit(tr, r)
    OBVIOUS
  <2>2. Sound(T, k)
    BY <1>4, <1>5, <1>10, <2>1, SoundExit
  <2>3. kernel_trace' = [kernel_trace EXCEPT ![t][k] = T] /\ UNCHANGED step
    BY <1>5, <1>6, <1>10, <2>1 DEF Turn
  <2> QED
    BY <1>7, <2>2, <2>3
<1>11. CASE size # 0 /\ "EXIT" \notin r.flags /\ transform_pc(symbols[t], r.pc) # {}
  <2>1. PICK T : T = UnitAccesses(tr, r)
    OBVIOUS
  <2>2. Sound(T, k)
    BY <1>4, <1>5, <1>11, <2>1, SoundAccess
  <2>3. kernel_trace' = [kernel_trace EXCEPT ![t][k] = T] /\ UNCHANGED step
    BY <1>5, <1>6, <1>11, <2>1 DEF Turn
  <2> QED
    BY <1>7, <2>2, <2>3
<1>12. CASE size # 0 /\ "EXIT" \notin r.flags /\ transform_pc(symbols[t], r.pc) = {}
  <2>1. step' = [step EXCEPT ![t] = "return"] /\ UNCHANGED kernel_trace
    BY <1>6, <1>12 DEF Turn, Fail, Go
  <2>2. RightMap' /\ Keeps
    BY <1>1, RegistryStill DEF VInv
  <2>3. step'[t] = "return" /\ \A u \in Threads \ {t} : step'[u] = step[u]
    BY <1>3, <2>1
  <2> QED
    BY <1>1, <1>3, <2>1, <2>2, <2>3, ThreadStep
<1> QED
  BY <1>9, <1>10, <1>11, <1>12

\* analysis_begin.
LEMMA BeginReports ==
  ASSUME VInv, Types, NEW t \in Threads, AnalysisBegin(t)
  PROVE  VInv'
<1>1. PICK k : k = job[t]
  OBVIOUS
<1>2. PICK K : K = IF k \in DOMAIN kernel_trace[t] THEN kernel_trace[t] ELSE Extended(kernel_trace[t], k, EmptyTrace)
  OBVIOUS
<1>3. /\ kernel_trace' = [kernel_trace EXCEPT ![t] = K] /\ step' = [step EXCEPT ![t] = "records"] /\ step[t] = "begin"
      /\ UNCHANGED <<cubin_map, report, job, symbols>>
  BY <1>1, <1>2 DEF AnalysisBegin, Go, registry
<1>4. DOMAIN step = Threads /\ \A x \in DOMAIN kernel_trace[t] : Sound(kernel_trace[t][x], x)
  BY DEF VInv, Reports, Types
<1>5. DOMAIN K = DOMAIN kernel_trace[t] \cup {job[t]} /\ \A x \in DOMAIN K : Sound(K[x], x)
  <2>1. CASE k \in DOMAIN kernel_trace[t]
    BY <1>1, <1>2, <1>4, <2>1
  <2>2. CASE k \notin DOMAIN kernel_trace[t]
    <3>1. K = Extended(kernel_trace[t], k, EmptyTrace)
      BY <1>2, <2>2
    <3>2. /\ DOMAIN K = DOMAIN kernel_trace[t] \cup {k} /\ K[k] = EmptyTrace
          /\ \A x \in DOMAIN kernel_trace[t] : K[x] = kernel_trace[t][x]
      BY <2>2, <3>1 DEF Extended
    <3> HIDE <1>2, <3>1
    <3> QED
      BY <1>1, <1>4, <3>2, SoundEmpty
  <2> QED
    BY <2>1, <2>2
<1>6. step'[t] = "records" /\ DOMAIN step' = Threads /\ \A u \in Threads \ {t} : step'[u] = step[u]
  BY <1>3, <1>4
<1> QED
  BY <1>3, <1>5, <1>6, TraceStep

\* flush_thread.
LEMMA FlushReports ==
  ASSUME VInv, Types, NEW t \in Threads, FlushThread(t)
  PROVE  VInv'
<1>1. /\ step[t] = "idle" /\ step' = [step EXCEPT ![t] = "done"]
      /\ UNCHANGED <<cubin_map, job, symbols, kernel_trace>>
  BY DEF FlushThread, Go, registry
<1>2. PICK X : X = (DOMAIN kernel_trace[t]) \X {"temporal", "spatial"} \X Kinds
  OBVIOUS
<1>3. PICK R : R = [x \in X |-> ReportOf(kernel_trace[t][x[1]], x, cubin_map[ModuleOf[x[1]][1]][ModuleOf[x[1]][2]])]
  OBVIOUS
<1>4. report' = [report EXCEPT ![t] = R]
  BY <1>2, <1>3, Zenon DEF FlushThread, ReportOf
<1>5. /\ DOMAIN kernel_trace = Threads /\ DOMAIN report = Threads /\ DOMAIN symbols = Threads /\ DOMAIN step = Threads
      /\ RightMap /\ \A u \in Threads : Reports(u) /\ job[u] \in Kernels
  BY DEF VInv, Types
<1>6. /\ DOMAIN report' = Threads /\ report'[t] = R /\ step'[t] = "done"
      /\ \A u \in Threads \ {t} : report'[u] = report[u] /\ step'[u] = step[u]
  BY <1>1, <1>4, <1>5
<1>7. RightMap' /\ Keeps
  BY <1>1, <1>5, RegistryStill
<1>8. ASSUME NEW u \in Threads, u # t PROVE Reports(u)'
  <2>1. \A k \in Kernels : Known(k) => Known(k)'
    BY <1>7 DEF Keeps
  <2> QED
    BY <1>1, <1>5, <1>6, <1>8, <2>1, ReportsStill
<1>9. ASSUME NEW x \in DOMAIN R PROVE RightReport(kernel_trace[t][x[1]], R[x], x)
  <2>1. x \in X /\ R[x] = ReportOf(kernel_trace[t][x[1]], x, cubin_map[ModuleOf[x[1]][1]][ModuleOf[x[1]][2]])
    BY <1>3
  <2>2. PICK k, tr : k = x[1] /\ tr = kernel_trace[t][k]
    OBVIOUS
  <2>3. k \in DOMAIN kernel_trace[t] /\ x[3] \in Kinds
    BY <1>2, <2>1, <2>2
  <2>4. k \in Kernels /\ Sound(tr, k) /\ Known(k)
    BY <1>1, <1>5, <2>2, <2>3 DEF Reports
  <2>5. cubin_map[ModuleOf[k][1]][ModuleOf[k][2]] = SymbolsOf(k)
    BY <1>5, <2>4 DEF RightMap, Known, Registered, SymbolsOf
  <2>6. RightReport(tr, ReportOf(tr, x, SymbolsOf(k)), x)
    BY <2>2, <2>3, <2>4, ReportIsRight
  <2>7. R[x] = ReportOf(tr, x, SymbolsOf(k))
    BY <2>1, <2>2, <2>5, Zenon
  <2> QED
    BY <2>2, <2>6, <2>7, Zenon
<1>10. Reports(t)'
  <2>1. DOMAIN kernel_trace'[t] \subseteq Kernels /\ \A k \in DOMAIN kernel_trace'[t] : Sound(kernel_trace'[t][k], k)
    BY <1>1, <1>5 DEF Reports
  <2>2. \A x \in DOMAIN report'[t] : RightReport(kernel_trace'[t][x[1]], report'[t][x], x)
    BY <1>1, <1>6, <1>9
  <2> QED
    BY <1>6, <2>1, <2>2 DEF Reports
<1> QED
  BY <1>1, <1>5, <1>6, <1>7, <1>8, <1>10 DEF VInv

\* The tool loads a module, or unloads one that no trace needs.
LEMMA ModuleReports ==
  ASSUME VInv, Types, NEW c, NEW m, LoadModule(c, m) \/ UnloadModule(c, m)
  PROVE  VInv'
<1>1. UNCHANGED <<step, job, symbols, kernel_trace, report>>
  BY DEF LoadModule, UnloadModule, state
<1>2. /\ RightMap /\ \A u \in Threads : Reports(u) /\ job[u] \in Kernels
      /\ DOMAIN kernel_trace = Threads /\ DOMAIN report = Threads /\ DOMAIN symbols = Threads
  BY DEF VInv, Types
<1>3. RightMap'
  <2>1. CASE UNCHANGED cubin_map
    BY <1>2, <2>1, RegistryStill
  <2>2. CASE redshow_cubin_register(c, m)
    BY <1>2, <2>2, RegisterRight
  <2>3. CASE redshow_cubin_unregister(c, m)
    BY <1>2, <2>3, UnregisterRight
  <2> QED
    BY <2>1, <2>2, <2>3 DEF LoadModule, UnloadModule
<1>4. ASSUME NEW t \in Threads, NEW k \in Kernels, Known(k),
             \/ step[t] \in {"begin", "records"} /\ k = job[t]
             \/ step[t] # "done" /\ k \in DOMAIN kernel_trace[t]
      PROVE  Known(k)'
  <2>1. CASE LoadModule(c, m)
    <3>1. CASE UNCHANGED cubin_map
      BY <1>4, <3>1 DEF Known, Registered
    <3>2. CASE redshow_cubin_register(c, m)
      BY <1>4, <3>2, RegisterKeeps DEF Known
    <3> QED
      BY <2>1, <3>1, <3>2 DEF LoadModule
  <2>2. CASE UnloadModule(c, m)
    <3>1. ModuleOf[k] # <<c, m>>
      BY <1>4, <2>2 DEF UnloadModule
    <3>2. ModuleOf[k] = <<ModuleOf[k][1], ModuleOf[k][2]>>
      BY ModulesArePairs
    <3>3. \A d, n : Registered(d, n) /\ <<d, n>> # <<c, m>> => Registered(d, n)'
      BY <2>2, UnregisterKeeps DEF UnloadModule
    <3> QED
      BY <1>4, <3>1, <3>2, <3>3 DEF Known
  <2> QED
    BY <2>1, <2>2
<1>5. ASSUME NEW t \in Threads PROVE Reports(t)'
  BY <1>1, <1>2, <1>4, ReportsStill
<1> QED
  BY <1>1, <1>2, <1>3, <1>5 DEF VInv

\* The look-ups of the module, and the end of the call.
LEMMA CallReports ==
  ASSUME VInv, Types, NEW t \in Threads,
         \/ \E k \in Kernels : Call(t, k)
         \/ Lookup(t) \/ LookupCache(t) \/ Register(t) \/ LookupAgain(t) \/ AnalysisEnd(t) \/ Return(t)
  PROVE  VInv'
<1>1. /\ RightMap /\ DOMAIN step = Threads /\ DOMAIN job = Threads /\ DOMAIN symbols = Threads
      /\ job[t] \in Kernels
  BY DEF VInv, Types
<1>2. UNCHANGED <<kernel_trace, report>>
  BY DEF Call, Lookup, LookupCache, Register, LookupAgain, AnalysisEnd, Return
<1>3. RightMap' /\ Keeps
  <2>1. CASE UNCHANGED cubin_map
    BY <1>1, <2>1, RegistryStill
  <2>2. CASE Register(t)
    <3>1. PICK c, m : redshow_cubin_register(c, m)
      BY <2>2 DEF Register
    <3>2. RightMap'
      BY <1>1, <3>1, RegisterRight
    <3>3. \A d, n : Registered(d, n) => Registered(d, n)'
      BY <3>1, RegisterKeeps
    <3> QED
      BY <3>2, <3>3 DEF Keeps, Known
  <2> QED
    BY <2>1, <2>2 DEF Call, Lookup, LookupCache, LookupAgain, AnalysisEnd, Return, registry
<1>4. ASSUME NEW w \in {"lookup", "cache", "register", "again", "return", "idle"}, step[t] # "done",
             step' = [step EXCEPT ![t] = w], DOMAIN symbols' = Threads,
             \A u \in Threads \ {t} : job'[u] = job[u] /\ symbols'[u] = symbols[u]
      PROVE  VInv'
  <2>1. step'[t] = w /\ \A u \in Threads \ {t} : step'[u] = step[u]
    BY <1>1, <1>4
  <2> QED
    BY <1>2, <1>3, <1>4, <2>1, ThreadStep
<1>5. ASSUME Registered(Cubin(t), Mod(t)), Fetch(t), step' = [step EXCEPT ![t] = "begin"], step[t] # "done",
             UNCHANGED <<job, cubin_map>>
      PROVE  VInv'
  <2>1. PICK k : k = job[t]
    OBVIOUS
  <2>2. cubin_map[ModuleOf[k][1]][ModuleOf[k][2]] = SymbolsOf(k) /\ Known(k)
    BY <1>1, <1>5, <2>1 DEF RightMap, Known, Registered, SymbolsOf, Cubin, Mod
  <2>3. symbols' = [symbols EXCEPT ![t] = SymbolsOf(k)]
    BY <1>5, <2>1, <2>2 DEF Fetch, Cubin, Mod
  <2>4. /\ step'[t] = "begin" /\ symbols'[t] = SymbolsOf(job'[t]) /\ DOMAIN symbols' = Threads
        /\ \A u \in Threads \ {t} : step'[u] = step[u] /\ job'[u] = job[u] /\ symbols'[u] = symbols[u]
    BY <1>1, <1>5, <2>1, <2>3
  <2>5. Known(job[t])'
    BY <1>5, <2>1, <2>2 DEF Known, Registered
  <2> QED
    BY <1>2, <1>3, <1>5, <2>4, <2>5, ThreadStep
<1> USE DEF Go, Fail
<1>6. ASSUME NEW k \in Kernels, Call(t, k) PROVE VInv'
  BY <1>1, <1>4, <1>6 DEF Call
<1>7. ASSUME Lookup(t) PROVE VInv'
  BY <1>1, <1>4, <1>5, <1>7 DEF Lookup, registry
<1>8. ASSUME LookupCache(t) PROVE VInv'
  BY <1>1, <1>4, <1>8 DEF LookupCache
<1>9. ASSUME Register(t) PROVE VInv'
  BY <1>1, <1>4, <1>9 DEF Register
<1>10. ASSUME LookupAgain(t) PROVE VInv'
  BY <1>1, <1>4, <1>5, <1>10 DEF LookupAgain, registry
<1>11. ASSUME AnalysisEnd(t) PROVE VInv'
  BY <1>1, <1>4, <1>11 DEF AnalysisEnd
<1>12. ASSUME Return(t) PROVE VInv'
  BY <1>1, <1>4, <1>12 DEF Return
<1> QED
  BY <1>6, <1>7, <1>8, <1>9, <1>10, <1>11, <1>12

\* A report has the views with the largest counts, each with the largest entries
\* behind it, no view has more redundant accesses than accesses, and each is under
\* the function that holds its instruction: for every set of records, any limits,
\* any number of threads and any modules that come and go (record_temporal_trace,
\* record_spatial_trace, transform_data_views, flush_thread).
THEOREM ReportsAreTop == Spec => []ViewsAreTop
<1>1. Init => VInv
  <2> SUFFICES ASSUME Init PROVE VInv
    OBVIOUS
  <2>1. /\ DOMAIN kernel_trace = Threads /\ DOMAIN report = Threads /\ DOMAIN symbols = Threads
        /\ \A t \in Threads : DOMAIN kernel_trace[t] = {} /\ DOMAIN report[t] = {} /\ step[t] = "idle"
        /\ DOMAIN cubin_map = {}
    BY DEF Init, NoTrace
  <2> QED
    BY <2>1 DEF VInv, RightMap, Reports
<1>2. VInv /\ RInv /\ [Next]_vars => VInv'
  <2> SUFFICES ASSUME VInv, RInv, [Next]_vars PROVE VInv'
    OBVIOUS
  <2>0. Types
    BY DEF RInv
  <2>1. ASSUME NEW t \in Threads, \E k \in Kernels : Call(t, k) PROVE VInv'
    BY <2>0, <2>1, CallReports
  <2>2. ASSUME NEW t \in Threads, Lookup(t) \/ LookupCache(t) \/ Register(t) \/ LookupAgain(t) \/ AnalysisEnd(t) \/ Return(t)
        PROVE  VInv'
    BY <2>0, <2>2, CallReports
  <2>3. CASE UNCHANGED vars
    <3>1. UNCHANGED <<cubin_map, step, job, symbols, kernel_trace, report>>
      BY <2>3 DEF vars, registry, state
    <3>2. RightMap' /\ Keeps
      BY <3>1, RegistryStill DEF VInv
    <3>3. ASSUME NEW t \in Threads PROVE Reports(t)'
      <4>1. \A k \in Kernels : Known(k) => Known(k)'
        BY <3>2 DEF Keeps
      <4>2. Reports(t) /\ job[t] \in Kernels
        BY <2>0 DEF VInv, Types
      <4> QED
        BY <3>1, <4>1, <4>2, ReportsStill
    <3> QED
      BY <3>1, <3>2, <3>3 DEF VInv
  <2> QED
    BY <2>0, <2>1, <2>2, <2>3, BeginReports, RecordReports, FlushReports, ModuleReports DEF Next
<1>3. VInv => ViewsAreTop
  <2>1. VInv => \A t \in Threads : \A x \in DOMAIN report[t] : RightReport(kernel_trace[t][x[1]], report[t][x], x)
    BY DEF VInv, Reports
  <2> QED
    BY <2>1, ViewsAreTopIs, Zenon
<1> QED
  BY <1>1, <1>2, <1>3, ThreadsRely, PTL DEF Spec

=============================================================================
