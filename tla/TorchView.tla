----------------------------- MODULE TorchView -----------------------------
(***************************************************************************)
(* The view forest of the TorchView analysis with on-GPU matching          *)
(* (redshow.cpp, torch_view.h, torch_view.cpp).                            *)
(*                                                                         *)
(* Every tensor of an operator's inputs and outputs is a node.  A root is  *)
(* a tensor that lies in no known root; a view is a child of one of the    *)
(* operator's inputs in the tree of its root.  The inputs of the operator  *)
(* that was entered last are copied into a snapshot when a kernel is       *)
(* launched; the patches on the GPU mark the ranges of the snapshot that   *)
(* the kernel touched, and the end of the kernel attributes the marks to   *)
(* the nodes.  A release of memory deletes trees.                          *)
(*                                                                         *)
(* The callbacks of the framework, a launch and the end of a kernel run    *)
(* under one mutex (module CallbackLocks), so each is one step here; a     *)
(* launch takes the mutex twice.  From the launch to the end of the        *)
(* kernel's analysis the sanitizer holds the lock of the GPU context, but  *)
(* threads of other contexts launch meanwhile, and operators of every      *)
(* thread start, end and release memory.                                   *)
(***************************************************************************)
EXTENDS Naturals, Sequences, FiniteSets

CONSTANTS
  Threads,   \* threads that run operators
  Context,   \* thread -> the GPU context it launches in
  Blocks,    \* [ptr, size] the framework's allocator may hand out
  Tensors,   \* [ptr, meta, len, dim]: address, TensorImpl, bytes, dimensions
  ArgLists,  \* the lists of arguments and results that operators have
  MaxDepth,  \* bound on the nesting of operators
  MaxNodes   \* bound on the nodes ever created

Null == 0
Ids  == 1 .. MaxNodes

\* An argument that is not a tensor has index -1.
NoTensor == [ptr |-> 0, meta |-> 0, len |-> 0, dim |-> 0]
Args == Tensors \cup {NoTensor}

ASSUME ViewAssumption ==
  /\ MaxDepth \in Nat /\ MaxNodes \in Nat
  /\ \A b \in Blocks : b.ptr \in Nat /\ b.size \in Nat \ {0}
  /\ \A x \in Tensors : x.ptr \in Nat /\ x.len \in Nat \ {0} /\ x.dim \in Nat
  /\ ArgLists \subseteq Seq(Args)

VARIABLES
  blocks,      \* _allocated_mem_blocks
  nodes,       \* view_id -> ViewNode, for the nodes that are not deleted
  roots,       \* _roots, sorted by address
  created,     \* the number of nodes created so far; the last view_id
  call_path,   \* call_path_map: [states, first]: how many states were pushed
               \* (2 stands for more) and whether the first has an access
  op_stack,    \* _op_stack: the arguments of each operator
  inputs,      \* _input_viewnode_forest_ptrs: what the pointers pointed to
  snapshot,    \* torchview_memory_snapshot: address -> view_id
  launch,      \* per thread: the kernel it launched and its dictionary
  dict,        \* what torchview_dict points to: the ranges of a kernel
  accessed,    \* history: the nodes an access was attributed to
  inside,      \* per thread: the arguments of the operators it is in
  total_allocated,  \* the allocator's counter
  flushed

forest  == <<nodes, roots, created, call_path>>
outside == <<inside, blocks, total_allocated>>
vars    == <<forest, outside, op_stack, inputs, snapshot, launch, dict, accessed, flushed>>

\* size: view_range_size; ranges: the addresses that were copied to the GPU.
NoLaunch == [phase |-> "none", size |-> 0, ranges |-> {}]
Launches == [phase : {"none", "sized", "running", "analysed"}, size : 0 .. MaxNodes,
             ranges : SUBSET {x.ptr : x \in Tensors}]

Node == [ptr : Nat, meta : {x.meta : x \in Tensors}, dim : Nat,
         lo : Nat, hi : Nat, root : Ids, parent : {Null} \cup Ids]
States == [states : {1, 2}, first : BOOLEAN]

TypeOK ==
  /\ blocks \subseteq Blocks
  /\ DOMAIN nodes \subseteq Ids /\ \A n \in DOMAIN nodes : nodes[n] \in Node
  /\ roots \in Seq(Ids)
  /\ created \in 0 .. MaxNodes
  /\ DOMAIN call_path \subseteq Ids /\ \A n \in DOMAIN call_path : call_path[n] \in States
  /\ op_stack \in Seq(Seq(Args))
  /\ \A i \in DOMAIN inputs : inputs[i].id \in {Null} \cup Ids
  /\ DOMAIN snapshot \subseteq Nat /\ \A p \in DOMAIN snapshot : snapshot[p] \in Ids
  /\ launch \in [Threads -> Launches]
  /\ dict \in Launches
  /\ accessed \subseteq Ids
  /\ inside \in [Threads -> Seq(Seq(Args))]
  /\ total_allocated \in Nat
  /\ flushed \in BOOLEAN

Init ==
  /\ blocks = {} /\ total_allocated = 0
  /\ nodes = << >> /\ roots = << >> /\ created = 0 /\ call_path = << >>
  /\ op_stack = << >> /\ inputs = << >> /\ snapshot = << >>
  /\ launch = [t \in Threads |-> NoLaunch] /\ dict = NoLaunch
  /\ accessed = {}
  /\ inside = [t \in Threads |-> << >>]
  /\ flushed = FALSE

-----------------------------------------------------------------------------
(* The forest *)

Restricted(f, S) == [x \in DOMAIN f \cap S |-> f[x]]
Extended(f, x, v) == [y \in DOMAIN f \cup {x} |-> IF y = x THEN v ELSE f[y]]

\* Binary search for the root that contains x; Null if the search ends without.
find_root_node(f, x) ==
  LET search[lo \in 1 .. Len(f.roots) + 1, hi \in 0 .. Len(f.roots)] ==
        IF lo > hi THEN Null
        ELSE LET mid == lo + (hi - lo) \div 2
                 r   == f.roots[mid]
             IN  IF x.ptr >= f.nodes[r].lo /\ x.ptr + x.len <= f.nodes[r].hi THEN r
                 ELSE IF x.ptr > f.nodes[r].lo THEN search[mid + 1, hi]
                 ELSE IF x.ptr < f.nodes[r].lo THEN search[lo, mid - 1]
                 ELSE Null
  IN  search[1, Len(f.roots)]

Tree(f, r) == {n \in DOMAIN f.nodes : f.nodes[n].root = r}

\* The nodes of the tree of r that are x: same address, same TensorImpl.
Same(f, r, x) == {n \in Tree(f, r) : f.nodes[n].ptr = x.ptr /\ f.nodes[n].meta = x.meta}

\* Mutant: the children of the root are not searched.
FindInRoot(f, r, x) == IF r \in Same(f, r, x) THEN r ELSE Null

find_node(f, r, x) == IF Same(f, r, x) = {} THEN Null ELSE CHOOSE n \in Same(f, r, x) : TRUE

\* The first argument that has a node in the tree of r whose block holds x.
Father(f, r, x, args) ==
  LET fathers == {i \in DOMAIN args :
        /\ args[i] # NoTensor
        /\ \E n \in Same(f, r, args[i]) : f.nodes[n].lo <= x.ptr /\ x.ptr <= f.nodes[n].hi}
  IN  IF fathers = {} THEN Null
      ELSE find_node(f, r, args[CHOOSE i \in fathers : \A j \in fathers : i <= j])

\* std::lower_bound on the addresses of the roots, as the number of smaller ones.
Below(f, ptr) == Cardinality({k \in DOMAIN f.roots : f.nodes[f.roots[k]].ptr < ptr})

NewState == [states |-> 1, first |-> FALSE]

Create(f, id, x, lo, hi, root, parent) ==
  [f EXCEPT !.created = id,
     !.nodes = Extended(@, id, [ptr |-> x.ptr, meta |-> x.meta, dim |-> x.dim,
                                lo |-> lo, hi |-> hi, root |-> root, parent |-> parent]),
     !.call_path = Extended(@, id, NewState)]

\* Mutant: the new root is put behind the others.
AppendRoot(f, x) ==
  LET id == f.created + 1
  IN  [Create(f, id, x, x.ptr, x.ptr + x.len, id, Null) EXCEPT !.roots = Append(@, id)]

AddRoot(f, x) ==
  LET id == f.created + 1
      k  == Below(f, x.ptr)
  IN  [Create(f, id, x, x.ptr, x.ptr + x.len, id, Null) EXCEPT
         !.roots = SubSeq(@, 1, k) \o <<id>> \o SubSeq(@, k + 1, Len(@))]

AddChild(f, x, r, father) ==
  Create(f, f.created + 1, x, f.nodes[father].lo, f.nodes[father].hi, r, father)

SeenAgain(f, n) == [f EXCEPT !.call_path[n].states = 2]

\* The forest after x was seen, and the node of x (Null if x has none).
update_view_forest(f, x, args) ==
  LET r      == find_root_node(f, x)
      n      == IF r = Null THEN Null ELSE find_node(f, r, x)
      father == IF r = Null \/ n # Null THEN Null ELSE Father(f, r, x, args)
  IN  CASE x = NoTensor   -> [forest |-> f, node |-> Null]
        [] x # NoTensor /\ r = Null -> [forest |-> AddRoot(f, x), node |-> f.created + 1]
        [] x # NoTensor /\ n # Null -> [forest |-> SeenAgain(f, n), node |-> n]
        [] x # NoTensor /\ father # Null ->
             [forest |-> AddChild(f, x, r, father), node |-> f.created + 1]
        [] OTHER -> [forest |-> f, node |-> Null]

\* The forest after each of xs was seen, and their nodes.
UpdateAll(f, xs, args) ==
  LET after[i \in 0 .. Len(xs)] ==
        IF i = 0 THEN [forest |-> f, found |-> << >>]
        ELSE LET u == update_view_forest(after[i - 1].forest, xs[i], args)
             IN  [forest |-> u.forest, found |-> Append(after[i - 1].found, u.node)]
  IN  after[Len(xs)]

Forest == [nodes |-> nodes, roots |-> roots, created |-> created, call_path |-> call_path]

BecomeForest(f) ==
  /\ nodes' = f.nodes
  /\ roots' = f.roots
  /\ created' = f.created
  /\ call_path' = f.call_path

\* Deletes the trees of the roots at the places from .. to; erases the states of
\* the silent ones.
WithoutTrees(f, from, to, silent) ==
  LET R == {f.roots[k] : k \in from .. to}
  IN  [f EXCEPT !.nodes = Restricted(@, {n \in DOMAIN @ : @[n].root \notin R}),
                !.roots = SubSeq(@, 1, from - 1) \o SubSeq(@, to + 1, Len(@)),
                !.call_path = Restricted(@, DOMAIN @ \ silent)]

Leaf(r) == \A n \in DOMAIN nodes : nodes[n].root = r => n = r

-----------------------------------------------------------------------------
(* The framework's callbacks *)

Overlap(b, c) == b.ptr < c.ptr + c.size /\ c.ptr < b.ptr + b.size
Holds(b, x) == b.ptr <= x.ptr /\ x.ptr + x.len <= b.ptr + b.size

\* Arguments that the framework can pass: tensors in allocated memory.
Passable(xs) == \A i \in DOMAIN xs : xs[i] = NoTensor \/ \E b \in blocks : Holds(b, xs[i])

\* A thread runs framework code between its launches.
Running(t) == ~ flushed /\ launch[t] = NoLaunch

register_memory_block(t, b) ==
  /\ Running(t)
  /\ \A c \in blocks : ~ Overlap(b, c)
  /\ blocks' = blocks \cup {b}
  /\ total_allocated' = total_allocated + b.size
  /\ UNCHANGED <<forest, inside, op_stack, inputs, snapshot, launch, dict, accessed, flushed>>

\* The places of the roots that the release of [ptr, ptr + total) deletes: from the
\* first one at or after ptr, up to the first one that ends behind.
Deleted(ptr, total) ==
  LET first == Below(Forest, ptr) + 1
  IN  {k \in first .. Len(roots) : \A j \in first .. k : nodes[roots[j]].hi <= ptr + total}

\* Mutant: only the first state is looked at, as flush does.
SilentFirst(R) == {r \in R : Leaf(r) /\ ~ call_path[r].first}

\* Roots without children that were seen once and never accessed.
Silent(R) == {r \in R : Leaf(r) /\ call_path[r].states <= 1 /\ ~ call_path[r].first}

\* Mutant: the snapshot keeps its pointers.
SnapshotKept(ptr, total) == snapshot

SnapshotAfter(ptr, total) ==
  Restricted(snapshot, {p \in DOMAIN snapshot : ~ (ptr <= p /\ p <= ptr + total)})

\* The framework holds on to the arguments of the operators that run.
Held(b) ==
  \E u \in Threads : \E d \in DOMAIN inside[u] : \E i \in DOMAIN inside[u][d] :
    inside[u][d][i] # NoTensor /\ Holds(b, inside[u][d][i])

\* A release: the allocator reports the bytes that are still allocated, and
\* delete_forest_tree takes that for the size of the block.
delete_forest_tree(t, b) ==
  LET total == total_allocated - b.size
      K     == Deleted(b.ptr, total)
      k     == Below(Forest, b.ptr)
  IN  /\ Running(t)
      /\ b \in blocks
      /\ ~ Held(b)
      /\ snapshot' = SnapshotAfter(b.ptr, total)
      /\ BecomeForest(WithoutTrees(Forest, k + 1, k + Cardinality(K), Silent({roots[i] : i \in K})))
      /\ blocks' = blocks \ {b}
      /\ total_allocated' = total
      /\ UNCHANGED <<inside, op_stack, inputs, launch, dict, accessed, flushed>>

\* What the pointer to node n points to.
Pointee(f, n) ==
  IF n = Null THEN [id |-> Null, ptr |-> 0, dim |-> 0]
  ELSE [id |-> n, ptr |-> f.nodes[n].ptr, dim |-> f.nodes[n].dim]

\* The snapshot of the pointers in ins at the places in I: a later one replaces
\* one at the same address.
SnapshotOf(ins, I) ==
  LET last(p) == CHOOSE i \in I : ins[i].ptr = p /\ \A j \in I : ins[j].ptr = p => j <= i
  IN  [p \in {ins[i].ptr : i \in I} |-> ins[last(p)].id]

\* Mutant: the snapshot is built at once.
EagerSnapshot(ins) == SnapshotOf(ins, {i \in DOMAIN ins : ins[i].id # Null /\ ins[i].dim # 0})

\* The snapshot is cleared; the next launch builds it.
SnapshotOnEnter(ins) == << >>

enter(t, args) ==
  LET u   == UpdateAll(Forest, args, args)
      ins == [i \in DOMAIN args |-> Pointee(u.forest, u.found[i])]
  IN  /\ Running(t)
      /\ Len(inside[t]) < MaxDepth
      /\ Passable(args)
      /\ u.forest.created <= MaxNodes
      /\ BecomeForest(u.forest)
      /\ inputs' = ins
      /\ snapshot' = SnapshotOnEnter(ins)
      /\ op_stack' = Append(op_stack, args)
      /\ inside' = [inside EXCEPT ![t] = Append(@, args)]
      /\ UNCHANGED <<blocks, total_allocated, launch, dict, accessed, flushed>>

Last(s)  == s[Len(s)]
Front(s) == SubSeq(s, 1, Len(s) - 1)

\* The operator on top of the stack is taken for the one that returns.
exit(t, outs) ==
  LET u == UpdateAll(Forest, outs, Last(op_stack))
  IN  /\ Running(t)
      /\ inside[t] # << >>
      /\ op_stack # << >>
      /\ Passable(outs)
      /\ u.forest.created <= MaxNodes
      /\ BecomeForest(u.forest)
      /\ snapshot' = << >>
      /\ op_stack' = Front(op_stack)
      /\ inside' = [inside EXCEPT ![t] = Front(@)]
      /\ UNCHANGED <<inputs, blocks, total_allocated, launch, dict, accessed, flushed>>

-----------------------------------------------------------------------------
(* Kernels *)

\* The pointers that are followed, and those of them whose node is deleted.
Followed == {i \in DOMAIN inputs : inputs[i].id # Null}
Dead     == {i \in Followed : inputs[i].id \notin DOMAIN nodes}

\* A scalar has no range.  What the code reads from a deleted node may still be
\* there or may be anything: such a node may or may not enter the snapshot.
Rebuilt(gone) == SnapshotOf(inputs, {i \in Followed \ gone : inputs[i].dim # 0})

redshow_torchview_ongpu_get_range_size(t) ==
  \E gone \in SUBSET Dead :
    LET s == IF DOMAIN snapshot = {} THEN Rebuilt(gone) ELSE snapshot
    IN  /\ Running(t)
        /\ \A u \in Threads : Context[u] = Context[t] => launch[u] = NoLaunch
        /\ snapshot' = s
        /\ launch' = [launch EXCEPT ![t] = [phase |-> "sized", ranges |-> {},
                                            size |-> Cardinality(DOMAIN s)]]
        /\ UNCHANGED <<forest, outside, op_stack, inputs, dict, accessed, flushed>>

redshow_torchview_assemble_patch_analysis_address(t) ==
  /\ launch[t].phase = "sized"
  /\ launch' = [launch EXCEPT ![t].phase = "running", ![t].ranges = DOMAIN snapshot]
  /\ UNCHANGED <<forest, outside, op_stack, inputs, snapshot, dict, accessed, flushed>>

\* The dictionary of the kernel that was analysed last is everybody's.
analysis_begin(t) ==
  /\ launch[t].phase = "running"
  /\ launch' = [launch EXCEPT ![t].phase = "analysed"]
  /\ dict' = launch[t]
  /\ UNCHANGED <<forest, outside, op_stack, inputs, snapshot, accessed, flushed>>

\* An access goes to the last state of the node.
WithAccess(s) == IF s.states = 1 THEN [s EXCEPT !.first = TRUE] ELSE s

\* The place of an address in a set that is sorted.
Place(p, S) == Cardinality({q \in S : q <= p})

\* Mutant: the nodes are taken although the snapshot has another size.
AttributedAlways(hit) == {snapshot[p] : p \in {p \in DOMAIN snapshot : Place(p, DOMAIN snapshot) \in hit}}

\* The nodes that the marks in the dictionary stand for.  A mark is the place of
\* a range in the dictionary and is taken for a place in the snapshot; nothing is
\* attributed when the snapshot has another size.
Attributed(hit) ==
  IF dict.size # Cardinality(DOMAIN snapshot) THEN {}
  ELSE {snapshot[p] : p \in {p \in DOMAIN snapshot : Place(p, DOMAIN snapshot) \in hit}}

\* The kernel touched the ranges at the places in hit.  The pointer stays, but
\* nobody reads it before analysis_begin sets it again: the model forgets it.
kernel_op_callback(t, hit) ==
  LET touched == Attributed(hit) \cap DOMAIN call_path
  IN  /\ launch[t].phase = "analysed"
      /\ hit \subseteq 1 .. dict.size
      /\ call_path' = [n \in DOMAIN call_path |->
                         IF n \in touched THEN WithAccess(call_path[n]) ELSE call_path[n]]
      /\ accessed' = accessed \cup touched
      /\ launch' = [launch EXCEPT ![t] = NoLaunch]
      /\ dict' = IF \E u \in Threads \ {t} : launch[u].phase = "analysed" THEN dict ELSE NoLaunch
      /\ UNCHANGED <<nodes, roots, created, outside, op_stack, inputs, snapshot, flushed>>

\* At the end every tree is written out and deleted.
flush ==
  LET R == {roots[k] : k \in DOMAIN roots}
  IN  /\ \A t \in Threads : Running(t) /\ inside[t] = << >>
      /\ BecomeForest(WithoutTrees(Forest, 1, Len(roots),
                                   {r \in R : Leaf(r) /\ ~ call_path[r].first}))
      /\ flushed' = TRUE
      /\ UNCHANGED <<outside, op_stack, inputs, snapshot, launch, dict, accessed>>

Next ==
  \/ \E t \in Threads :
       \/ \E b \in Blocks : register_memory_block(t, b) \/ delete_forest_tree(t, b)
       \/ \E args \in ArgLists : enter(t, args) \/ exit(t, args)
       \/ redshow_torchview_ongpu_get_range_size(t)
       \/ redshow_torchview_assemble_patch_analysis_address(t)
       \/ analysis_begin(t)
       \/ \E hit \in SUBSET (1 .. dict.size) : kernel_op_callback(t, hit)
  \/ flush

Spec == Init /\ [][Next]_vars

-----------------------------------------------------------------------------
(* Properties *)

Live == DOMAIN nodes

(* The roots are sorted, which the binary searches rely on; every node      *)
(* belongs to the tree of a root that is not deleted, has its block and     *)
(* lies in it; the parent of a node is in the same tree; and all variables  *)
(* have their types.                                                        *)
ForestShape ==
  /\ TypeOK
  /\ \A j, k \in DOMAIN roots : j < k => nodes[roots[j]].ptr <= nodes[roots[k]].ptr
  /\ \A n \in Live :
       LET r == nodes[n].root
       IN  /\ r \in Live /\ \E k \in DOMAIN roots : roots[k] = r
           /\ nodes[n].lo = nodes[r].ptr /\ nodes[n].hi = nodes[r].hi
           /\ nodes[n].lo <= nodes[n].ptr /\ nodes[n].ptr <= nodes[n].hi
           /\ n # r => nodes[n].parent \in Live /\ nodes[nodes[n].parent].root = r

(* A tree has one node for an address and a TensorImpl: a view that is seen *)
(* again is found again, wherever it is in the tree.                        *)
UniqueInTree ==
  \A m, n \in Live :
    /\ nodes[m].root = nodes[n].root
    /\ nodes[m].ptr = nodes[n].ptr
    /\ nodes[m].meta = nodes[n].meta
    => m = n

(* No step leaves an entry in the snapshot for a node it deletes ("Drop     *)
(* those snapshot entries NOW, before the nodes are freed").                *)
DeletedNotInSnapshot ==
  [][~ flushed' => \A p \in DOMAIN snapshot' : snapshot'[p] \in Live => snapshot'[p] \in Live']_vars

(* The copy of the ranges fits the array that was allocated for the size    *)
(* that redshow_torchview_ongpu_get_range_size returned, although the       *)
(* mutex is free between the two calls of a launch.                         *)
RangesFit == \A t \in Threads : Cardinality(launch[t].ranges) <= launch[t].size

(* A mark is attributed to the tensor whose range was touched: when nodes   *)
(* are attributed, the snapshot still is the one the kernel's dictionary    *)
(* was made from ("if the snapshot changed by analysis time the bitmap      *)
(* indices no longer line up. Quietly skip").  Only the sizes are compared. *)
MarksLineUp ==
  [][\A t \in Threads :
       launch[t].phase = "analysed" /\ launch'[t] = NoLaunch
       => call_path' = call_path \/ launch[t].ranges = DOMAIN snapshot]_vars

(* While the program runs, the states of a node that was accessed are kept  *)
(* for the report, whether or not the node is deleted.                      *)
AccessesKept == ~ flushed => accessed \subseteq DOMAIN call_path
=============================================================================
