-------------------------- MODULE TorchViewProofs --------------------------
(***************************************************************************)
(* What the view forest, the snapshot of the inputs and the launches       *)
(* promise for any tensors, operators, threads and nesting.                *)
(***************************************************************************)
EXTENDS TorchView, FiniteSetTheorems, SequenceTheorems, WellFoundedInduction, TLAPS

-----------------------------------------------------------------------------
(* The inductive invariant: the forest *)

Ptrs  == {x.ptr : x \in Tensors}
Metas == {x.meta : x \in Tensors}

\* A forest whose nodes, roots and states have ids up to the last one given.
ForestRec(f) ==
  f = [nodes |-> f.nodes, roots |-> f.roots, created |-> f.created, call_path |-> f.call_path]

NodesTyped(f) ==
  /\ f.created \in Nat
  /\ DOMAIN f.nodes \subseteq 1 .. f.created
  /\ \A n \in DOMAIN f.nodes :
       f.nodes[n] \in [ptr : Ptrs, meta : Metas, dim : Nat, lo : Nat, hi : Nat,
                       root : 1 .. f.created, parent : 0 .. f.created]

StatesTyped(f) ==
  /\ DOMAIN f.call_path \subseteq 1 .. f.created
  /\ f.call_path \in [DOMAIN f.call_path -> States]

\* The roots are nodes that are not deleted, each once and each its own root,
\* sorted by address.
RootsGood(f) ==
  /\ f.roots \in Seq(DOMAIN f.nodes)
  /\ \A j, k \in 1 .. Len(f.roots) : f.roots[j] = f.roots[k] => j = k
  /\ \A k \in 1 .. Len(f.roots) : f.nodes[f.roots[k]].root = f.roots[k]
  /\ \A j, k \in 1 .. Len(f.roots) :
       j < k => f.nodes[f.roots[j]].ptr <= f.nodes[f.roots[k]].ptr

\* Node n belongs to the tree of a root and lies in its block.
InTree(f, n) ==
  LET r == f.nodes[n].root
  IN  /\ r \in DOMAIN f.nodes /\ \E k \in 1 .. Len(f.roots) : f.roots[k] = r
      /\ f.nodes[n].lo = f.nodes[r].ptr /\ f.nodes[n].hi = f.nodes[r].hi
      /\ f.nodes[n].lo <= f.nodes[n].ptr /\ f.nodes[n].ptr <= f.nodes[n].hi
      /\ n # r => f.nodes[n].parent \in DOMAIN f.nodes /\ f.nodes[f.nodes[n].parent].root = r

TreesGood(f) == \A n \in DOMAIN f.nodes : InTree(f, n)

Unique(f) ==
  \A m, n \in DOMAIN f.nodes :
    /\ f.nodes[m].root = f.nodes[n].root
    /\ f.nodes[m].ptr = f.nodes[n].ptr
    /\ f.nodes[m].meta = f.nodes[n].meta
    => m = n

Good(f) ==
  /\ ForestRec(f)
  /\ NodesTyped(f)
  /\ StatesTyped(f)
  /\ RootsGood(f)
  /\ TreesGood(f)
  /\ Unique(f)

\* A state that tells of an access, or that hides none because there are more.
Noted(s) == s.states = 2 \/ s.first

\* What forest g keeps of an earlier one f: the ids, the nodes and their addresses,
\* and the states that tell of accesses.
Grown(f, g) ==
  /\ f.created <= g.created
  /\ DOMAIN f.nodes \subseteq DOMAIN g.nodes
  /\ \A n \in DOMAIN g.nodes :
       n > f.created \/ (n \in DOMAIN f.nodes /\ g.nodes[n].ptr = f.nodes[n].ptr)
  /\ \A n \in DOMAIN f.call_path :
       n \in DOMAIN g.call_path /\ (Noted(f.call_path[n]) => Noted(g.call_path[n]))

-----------------------------------------------------------------------------
(* The inductive invariant: the other variables *)

ForestInv == Good(Forest) /\ created <= MaxNodes

\* The allocator's counter is the sum of the sizes of the blocks: f gives the sum
\* for every set of blocks.
MemoryInv ==
  /\ blocks \subseteq Blocks
  /\ \E f \in [SUBSET blocks -> Nat] :
       /\ f[blocks] = total_allocated
       /\ \A S \in SUBSET blocks : \A b \in S : f[S] = f[S \ {b}] + b.size

OperatorsInv == op_stack \in Seq(Seq(Args)) /\ inside \in [Threads -> Seq(Seq(Args))]

\* The pointers of the last operator point to nodes, which may be deleted; what is
\* remembered of a node is its address.
InputsInv ==
  /\ \E n \in Nat : DOMAIN inputs = 1 .. n
  /\ \A i \in DOMAIN inputs : inputs[i].id # Null =>
       /\ inputs[i].id \in 1 .. created /\ inputs[i].ptr \in Ptrs
       /\ inputs[i].id \in Live => nodes[inputs[i].id].ptr = inputs[i].ptr
  /\ \A i, j \in DOMAIN inputs :
       inputs[i].id # Null /\ inputs[i].id = inputs[j].id => inputs[i].ptr = inputs[j].ptr

\* An entry of the snapshot is for one node, at the address of the node.
SnapshotInv ==
  /\ DOMAIN snapshot \subseteq Ptrs
  /\ \A p \in DOMAIN snapshot : /\ snapshot[p] \in 1 .. created
                                /\ snapshot[p] \in Live => nodes[snapshot[p]].ptr = p
  /\ \A p, q \in DOMAIN snapshot : snapshot[p] = snapshot[q] => p = q

LaunchesInv == launch \in [Threads -> Launches] /\ dict \in Launches /\ flushed \in BOOLEAN

\* The states of a node that was accessed tell so.
AccessInv ==
  /\ accessed \subseteq 1 .. created
  /\ ~ flushed => \A n \in accessed : n \in DOMAIN call_path /\ Noted(call_path[n])

IInv ==
  /\ ForestInv
  /\ MemoryInv
  /\ OperatorsInv
  /\ InputsInv
  /\ SnapshotInv
  /\ LaunchesInv
  /\ AccessInv

\* All threads launch in one GPU context.
OneContext == \A t, u \in Threads : Context[t] = Context[u]

\* With one context there is one launch at a time, and from its first call on the
\* snapshot does not grow.
LaunchInv(t) ==
  /\ launch[t].phase = "none" => launch[t] = NoLaunch
  /\ launch[t].phase = "sized" =>
       launch[t].ranges = {} /\ Cardinality(DOMAIN snapshot) <= launch[t].size
  /\ launch[t].phase \in {"running", "analysed"} =>
       /\ DOMAIN snapshot \subseteq launch[t].ranges
       /\ IsFiniteSet(launch[t].ranges) /\ Cardinality(launch[t].ranges) <= launch[t].size
  /\ launch[t].phase = "analysed" => dict.size = launch[t].size

LInv ==
  /\ \A t, u \in Threads : launch[t] # NoLaunch /\ launch[u] # NoLaunch => t = u
  /\ \A t \in Threads : LaunchInv(t)

-----------------------------------------------------------------------------
(* Numbers *)

\* A set of naturals that is not empty has a least element.
LEMMA LeastOf ==
  ASSUME NEW T \in SUBSET Nat, T # {}
  PROVE  \E x \in T : \A y \in T : x <= y
<1>1. PICK x \in T : \A y \in T : ~ (<<y, x>> \in OpToRel(<, Nat))
  BY NatLessThanWellFounded, WFMin, Zenon
<1>2. \A y \in T : ~ (<<y, x>> \in {p \in Nat \X Nat : p[1] < p[2]})
  BY <1>1, Zenon DEF OpToRel
<1>3. ASSUME NEW y \in T PROVE ~ (y < x)
  <2>1. <<y, x>> \in Nat \X Nat /\ <<y, x>>[1] = y /\ <<y, x>>[2] = x
    OBVIOUS
  <2> QED
    BY <1>2, <2>1, Zenon
<1> QED
  BY <1>3

\* A set of naturals with an upper bound has a greatest element.
LEMMA GreatestOf ==
  ASSUME NEW S \in SUBSET Nat, S # {}, NEW k \in Nat, \A s \in S : s <= k
  PROVE  \E x \in S : \A y \in S : y <= x
<1> DEFINE T == {n \in Nat : k - n \in S}
<1>1. T # {}
  <2>1. PICK s \in S : TRUE
    OBVIOUS
  <2>2. k - s \in T
    BY <2>1
  <2> QED
    BY <2>2
<1>2. PICK n \in T : \A m \in T : n <= m
  BY <1>1, LeastOf
<1>3. ASSUME NEW y \in S PROVE y <= k - n
  <2>1. k - y \in T
    OBVIOUS
  <2> QED
    BY <1>2, <2>1
<1> QED
  BY <1>2, <1>3

\* A set of places from m + 1 on without gaps is the interval its size tells.
LEMMA Run ==
  ASSUME NEW m \in Nat, NEW n \in Nat, NEW K \in SUBSET (m + 1 .. n),
         \A k \in K : \A j \in m + 1 .. k : j \in K
  PROVE  /\ Cardinality(K) \in Nat
         /\ K = m + 1 .. m + Cardinality(K)
         /\ m <= n => m + Cardinality(K) <= n
<1>1. CASE K = {}
  <2>1. Cardinality(K) = 0
    BY <1>1, FS_EmptySet
  <2> QED
    BY <1>1, <2>1
<1>2. CASE K # {}
  <2>1. PICK k \in K : \A j \in K : j <= k
    <3>1. K \in SUBSET Nat /\ \A j \in K : j <= n
      OBVIOUS
    <3> QED
      BY <1>2, <3>1, GreatestOf
  <2>2. K = m + 1 .. k
    <3>1. \A j \in K : j \in m + 1 .. k
      BY <2>1
    <3>2. \A j \in m + 1 .. k : j \in K
      BY <2>1
    <3> QED
      BY <3>1, <3>2, Zenon
  <2>3. Cardinality(m + 1 .. k) = k - (m + 1) + 1
    <3>1. m + 1 \in Int /\ k \in Int /\ m + 1 <= k
      OBVIOUS
    <3> QED
      BY <3>1, FS_Interval
  <2>4. Cardinality(K) = k - m /\ k \in Nat /\ m <= k /\ k <= n
    BY <2>1, <2>2, <2>3
  <2> QED
    BY <2>2, <2>4
<1> QED
  BY <1>1, <1>2

-----------------------------------------------------------------------------
(* Steps of the forest *)

\* A tensor of the framework.
LEMMA TensorTypes ==
  ASSUME NEW x \in Tensors
  PROVE  /\ x.ptr \in Nat /\ x.ptr \in Ptrs /\ x.meta \in Metas /\ x.dim \in Nat
         /\ x.len \in Nat /\ x.len > 0
  BY ViewAssumption DEF Ptrs, Metas

\* Addresses are naturals.
LEMMA PtrsNat == Ptrs \subseteq Nat
  BY ViewAssumption DEF Ptrs

\* The parts of the forest after a node was created.
LEMMA CreateParts ==
  ASSUME NEW f, ForestRec(f), NEW id, id \notin DOMAIN f.nodes,
         NEW x, NEW lo, NEW hi, NEW root, NEW parent, NEW g,
         g = Create(f, id, x, lo, hi, root, parent)
  PROVE  /\ ForestRec(g)
         /\ g.created = id /\ g.roots = f.roots
         /\ DOMAIN g.nodes = DOMAIN f.nodes \cup {id}
         /\ \A n \in DOMAIN f.nodes : g.nodes[n] = f.nodes[n]
         /\ g.nodes[id] = [ptr |-> x.ptr, meta |-> x.meta, dim |-> x.dim,
                           lo |-> lo, hi |-> hi, root |-> root, parent |-> parent]
         /\ DOMAIN g.call_path = DOMAIN f.call_path \cup {id}
         /\ \A n \in DOMAIN f.call_path : n # id => g.call_path[n] = f.call_path[n]
         /\ g.call_path[id] = NewState
         /\ g.call_path = Extended(f.call_path, id, NewState)
<1> DEFINE node == [ptr |-> x.ptr, meta |-> x.meta, dim |-> x.dim,
                    lo |-> lo, hi |-> hi, root |-> root, parent |-> parent]
<1>1. g = [nodes |-> Extended(f.nodes, id, node), roots |-> f.roots, created |-> id,
           call_path |-> Extended(f.call_path, id, NewState)]
  <2>1. g = [f EXCEPT !.created = id, !.nodes = Extended(f.nodes, id, node),
                      !.call_path = Extended(f.call_path, id, NewState)]
    BY DEF Create
  <2>2. PICK a, b, c, d : f = [nodes |-> a, roots |-> b, created |-> c, call_path |-> d]
    BY DEF ForestRec
  <2> HIDE DEF node
  <2> QED
    BY <2>1, <2>2
<1> HIDE DEF node
<1>2. /\ g.nodes = Extended(f.nodes, id, node) /\ g.roots = f.roots /\ g.created = id
      /\ g.call_path = Extended(f.call_path, id, NewState)
  BY <1>1
<1>3. ForestRec(g)
  BY <1>1, <1>2 DEF ForestRec
<1>4. /\ DOMAIN g.nodes = DOMAIN f.nodes \cup {id} /\ g.nodes[id] = node
      /\ \A n \in DOMAIN f.nodes : g.nodes[n] = f.nodes[n]
  BY <1>2 DEF Extended
<1>5. /\ DOMAIN g.call_path = DOMAIN f.call_path \cup {id} /\ g.call_path[id] = NewState
      /\ \A n \in DOMAIN f.call_path : n # id => g.call_path[n] = f.call_path[n]
  BY <1>2 DEF Extended
<1> QED
  BY <1>2, <1>3, <1>4, <1>5 DEF node

\* A new node keeps the types, the states, and what the forest was before.
LEMMA CreateTypes ==
  ASSUME NEW f, Good(f), NEW g, NEW id, id = f.created + 1,
         g.created = id,
         DOMAIN g.nodes = DOMAIN f.nodes \cup {id},
         \A n \in DOMAIN f.nodes : g.nodes[n] = f.nodes[n],
         g.nodes[id] \in [ptr : Ptrs, meta : Metas, dim : Nat, lo : Nat, hi : Nat,
                          root : 1 .. id, parent : 0 .. id],
         DOMAIN g.call_path = DOMAIN f.call_path \cup {id},
         \A n \in DOMAIN f.call_path : n # id => g.call_path[n] = f.call_path[n],
         g.call_path[id] = NewState,
         g.call_path = Extended(f.call_path, id, NewState)
  PROVE  /\ NodesTyped(g) /\ StatesTyped(g) /\ Grown(f, g)
         /\ id \in Nat /\ id \notin DOMAIN f.nodes /\ id \notin DOMAIN f.call_path
<1>1. f.created \in Nat /\ id \in Nat /\ id \notin DOMAIN f.nodes /\ id \notin DOMAIN f.call_path
  BY DEF Good, NodesTyped, StatesTyped
<1>2. NodesTyped(g)
  <2>1. DOMAIN g.nodes \subseteq 1 .. g.created
    BY <1>1 DEF Good, NodesTyped
  <2>2. ASSUME NEW n \in DOMAIN f.nodes
        PROVE  f.nodes[n] \in [ptr : Ptrs, meta : Metas, dim : Nat, lo : Nat, hi : Nat,
                               root : 1 .. id, parent : 0 .. id]
    <3>1. f.nodes[n] \in [ptr : Ptrs, meta : Metas, dim : Nat, lo : Nat, hi : Nat,
                          root : 1 .. f.created, parent : 0 .. f.created]
      BY DEF Good, NodesTyped
    <3>2. 1 .. f.created \subseteq 1 .. id /\ 0 .. f.created \subseteq 0 .. id
      BY <1>1
    <3> QED
      BY <3>1, <3>2
  <2> QED
    BY <1>1, <2>1, <2>2 DEF NodesTyped
<1>3. StatesTyped(g)
  <2>1. NewState \in States
    BY DEF NewState, States
  <2>2. DOMAIN g.call_path \subseteq 1 .. g.created
    BY <1>1 DEF Good, StatesTyped
  <2>3. PICK c, d : c = f.call_path /\ d = DOMAIN f.call_path
    OBVIOUS
  <2>4. c \in [d -> States] /\ DOMAIN c = d
    BY <2>3 DEF Good, StatesTyped
  <2>5. Extended(c, id, NewState) \in [d \cup {id} -> States]
    BY <2>1, <2>4 DEF Extended
  <2> QED
    BY <2>2, <2>3, <2>5 DEF StatesTyped
<1>4. Grown(f, g)
  <2>1. \A n \in DOMAIN g.nodes :
          n > f.created \/ (n \in DOMAIN f.nodes /\ g.nodes[n].ptr = f.nodes[n].ptr)
    BY <1>1
  <2>2. \A n \in DOMAIN f.call_path : n \in DOMAIN g.call_path /\ g.call_path[n] = f.call_path[n]
    BY <1>1
  <2> QED
    BY <1>1, <2>1, <2>2 DEF Grown
<1> QED
  BY <1>1, <1>2, <1>3, <1>4

\* A new child in the tree of a root, inside of its father, keeps the forest good.
LEMMA AddChildGood ==
  ASSUME NEW f, Good(f), NEW x \in Tensors, NEW r, NEW father \in Tree(f, r),
         f.nodes[father].lo <= x.ptr, x.ptr <= f.nodes[father].hi,
         Same(f, r, x) = {}, NEW g, g = AddChild(f, x, r, father)
  PROVE  Good(g) /\ Grown(f, g) /\ f.created + 1 \in DOMAIN g.nodes
<1> DEFINE id == f.created + 1
<1>0. /\ ForestRec(f) /\ f.created \in Nat /\ DOMAIN f.nodes \subseteq 1 .. f.created
      /\ id \in Nat /\ id \notin DOMAIN f.nodes
  BY DEF Good, NodesTyped
<1>1. /\ father \in DOMAIN f.nodes /\ f.nodes[father].root = r /\ InTree(f, father)
      /\ f.nodes[father] \in [ptr : Ptrs, meta : Metas, dim : Nat, lo : Nat, hi : Nat,
                              root : 1 .. f.created, parent : 0 .. f.created]
  BY DEF Tree, Good, NodesTyped, TreesGood
<1>2. PICK lo \in Nat, hi \in Nat : lo = f.nodes[father].lo /\ hi = f.nodes[father].hi
  BY <1>1
<1>3. g = Create(f, id, x, lo, hi, r, father)
  BY <1>2 DEF AddChild
<1> HIDE DEF id
<1>4. /\ ForestRec(g)
      /\ g.created = id /\ g.roots = f.roots
      /\ DOMAIN g.nodes = DOMAIN f.nodes \cup {id}
      /\ \A n \in DOMAIN f.nodes : g.nodes[n] = f.nodes[n]
      /\ g.nodes[id] = [ptr |-> x.ptr, meta |-> x.meta, dim |-> x.dim,
                        lo |-> lo, hi |-> hi, root |-> r, parent |-> father]
      /\ DOMAIN g.call_path = DOMAIN f.call_path \cup {id}
      /\ \A n \in DOMAIN f.call_path : n # id => g.call_path[n] = f.call_path[n]
      /\ g.call_path[id] = NewState
      /\ g.call_path = Extended(f.call_path, id, NewState)
  BY <1>0, <1>3, CreateParts
<1>5. /\ g.nodes[id].ptr = x.ptr /\ g.nodes[id].meta = x.meta /\ g.nodes[id].root = r
      /\ g.nodes[id].lo = lo /\ g.nodes[id].hi = hi /\ g.nodes[id].parent = father
  BY <1>4
<1>6. g.nodes[id] \in [ptr : Ptrs, meta : Metas, dim : Nat, lo : Nat, hi : Nat,
                       root : 1 .. id, parent : 0 .. id]
  <2>1. r \in 1 .. id /\ father \in 0 .. id
    BY <1>0, <1>1 DEF id
  <2> QED
    BY <1>2, <1>4, <2>1, TensorTypes
<1>7. NodesTyped(g) /\ StatesTyped(g) /\ Grown(f, g)
  <2>1. id = f.created + 1
    BY DEF id
  <2> QED
    BY <1>4, <1>6, <2>1, CreateTypes
<1>8. RootsGood(g)
  <2>1. g.roots = f.roots /\ f.roots \in Seq(DOMAIN f.nodes)
    BY <1>4 DEF Good, RootsGood
  <2>2. g.roots \in Seq(DOMAIN g.nodes)
    BY <1>4, <2>1
  <2>3. \A k \in 1 .. Len(f.roots) : g.nodes[f.roots[k]] = f.nodes[f.roots[k]]
    BY <1>4, <2>1
  <2> QED
    BY <2>1, <2>2, <2>3 DEF Good, RootsGood
<1>9. TreesGood(g)
  <2>1. ASSUME NEW n \in DOMAIN f.nodes PROVE InTree(g, n)
    <3>1. InTree(f, n)
      BY DEF Good, TreesGood
    <3> QED
      BY <1>4, <3>1 DEF InTree
  <2>2. InTree(g, id)
    BY <1>1, <1>2, <1>4, <1>5 DEF InTree
  <2> QED
    BY <1>4, <2>1, <2>2 DEF TreesGood
<1>10. Unique(g)
  <2>1. ASSUME NEW n \in DOMAIN f.nodes
        PROVE  ~ (f.nodes[n].root = r /\ f.nodes[n].ptr = x.ptr /\ f.nodes[n].meta = x.meta)
    BY DEF Same, Tree
  <2> QED
    BY <1>4, <1>5, <2>1 DEF Good, Unique
<1> QED
  BY <1>4, <1>7, <1>8, <1>9, <1>10 DEF Good, id

\* Two sequences in a row.
LEMMA Joined ==
  ASSUME NEW S, NEW a \in Seq(S), NEW b \in Seq(S)
  PROVE  /\ a \o b \in Seq(S) /\ Len(a \o b) = Len(a) + Len(b)
         /\ \A i \in 1 .. Len(a) : (a \o b)[i] = a[i]
         /\ \A i \in 1 .. Len(b) : (a \o b)[Len(a) + i] = b[i]
<1>1. a \o b \in Seq(S) /\ Len(a \o b) = Len(a) + Len(b)
  OBVIOUS
<1>2. ASSUME NEW i \in 1 .. Len(a) PROVE (a \o b)[i] = a[i]
  <2>1. i \in 1 .. Len(a) + Len(b) /\ i <= Len(a)
    OBVIOUS
  <2> QED
    BY <2>1
<1>3. ASSUME NEW i \in 1 .. Len(b) PROVE (a \o b)[Len(a) + i] = b[i]
  <2>1. Len(a) + i \in 1 .. Len(a) + Len(b) /\ ~ (Len(a) + i <= Len(a)) /\ (Len(a) + i) - Len(a) = i
    OBVIOUS
  <2> QED
    BY <2>1
<1> QED
  BY <1>1, <1>2, <1>3

\* q is the sequence s over S with e put in behind place k.
InsertedAt(S, s, k, e, q) ==
  /\ q \in Seq(S \cup {e}) /\ Len(q) = Len(s) + 1 /\ Len(s) \in Nat /\ k \in Nat
  /\ \A i \in 1 .. k : q[i] = s[i]
  /\ q[k + 1] = e
  /\ \A i \in k + 1 .. Len(s) : q[i + 1] = s[i]

\* Inserting an element shifts the ones behind it.
LEMMA Inserted ==
  ASSUME NEW S, NEW s \in Seq(S), NEW k \in 0 .. Len(s), NEW e, NEW q,
         q = SubSeq(s, 1, k) \o <<e>> \o SubSeq(s, k + 1, Len(s))
  PROVE  InsertedAt(S, s, k, e, q)
<1>0. s \in Seq(S \cup {e}) /\ <<e>> \in Seq(S \cup {e}) /\ Len(s) \in Nat /\ k \in Nat
  OBVIOUS
<1>1. PICK a : a = SubSeq(s, 1, k)
  OBVIOUS
<1>2. a \in Seq(S \cup {e}) /\ Len(a) = k /\ \A i \in 1 .. k : a[i] = s[i]
  BY <1>0, <1>1
<1>3. PICK b : b = SubSeq(s, k + 1, Len(s))
  OBVIOUS
<1>4. b \in Seq(S \cup {e}) /\ Len(b) = Len(s) - k /\ \A i \in 1 .. Len(s) - k : b[i] = s[k + i]
  BY <1>0, <1>3
<1>5. PICK c : c = a \o <<e>>
  OBVIOUS
<1>6. /\ c \in Seq(S \cup {e}) /\ Len(c) = k + 1 /\ c[k + 1] = e
      /\ \A i \in 1 .. k : c[i] = s[i]
  <2>1. Len(<<e>>) = 1 /\ <<e>>[1] = e /\ 1 \in Nat
    OBVIOUS
  <2>2. a \in Seq(S \cup {e}) /\ <<e>> \in Seq(S \cup {e})
    BY <1>0, <1>2, Zenon
  <2>3. /\ a \o <<e>> \in Seq(S \cup {e}) /\ Len(a \o <<e>>) = Len(a) + Len(<<e>>)
        /\ \A i \in 1 .. Len(a) : (a \o <<e>>)[i] = a[i]
        /\ \A i \in 1 .. Len(<<e>>) : (a \o <<e>>)[Len(a) + i] = <<e>>[i]
    BY <2>2, Joined, SMTT(30)
  <2>4. /\ c \in Seq(S \cup {e}) /\ Len(c) = Len(a) + Len(<<e>>)
        /\ \A i \in 1 .. Len(a) : c[i] = a[i]
        /\ \A i \in 1 .. Len(<<e>>) : c[Len(a) + i] = <<e>>[i]
    BY <1>5, <2>3, Zenon
  <2> QED
    BY <1>2, <2>1, <2>4
<1>7. q = c \o b
  BY <1>1, <1>3, <1>5
<1>8. /\ q \in Seq(S \cup {e}) /\ Len(q) = (k + 1) + (Len(s) - k)
      /\ \A i \in 1 .. k + 1 : q[i] = c[i]
      /\ \A i \in 1 .. Len(s) - k : q[(k + 1) + i] = b[i]
  <2>0. c \in Seq(S \cup {e}) /\ b \in Seq(S \cup {e})
    BY <1>4, <1>6, Zenon
  <2>1. /\ c \o b \in Seq(S \cup {e}) /\ Len(c \o b) = Len(c) + Len(b)
        /\ \A i \in 1 .. Len(c) : (c \o b)[i] = c[i]
        /\ \A i \in 1 .. Len(b) : (c \o b)[Len(c) + i] = b[i]
    BY <2>0, Joined
  <2> QED
    BY <1>4, <1>6, <1>7, <2>1
<1>9. ASSUME NEW i \in k + 1 .. Len(s) PROVE q[i + 1] = s[i]
  <2>1. i - k \in 1 .. Len(s) - k /\ (k + 1) + (i - k) = i + 1 /\ k + (i - k) = i
    BY <1>0
  <2>2. q[(k + 1) + (i - k)] = b[i - k] /\ b[i - k] = s[k + (i - k)]
    BY <1>4, <1>8, <2>1
  <2> QED
    BY <2>1, <2>2
<1>10. (k + 1) + (Len(s) - k) = Len(s) + 1 /\ k + 1 \in 1 .. k + 1 /\ 1 .. k \subseteq 1 .. k + 1
  BY <1>0
<1> QED
  BY <1>0, <1>6, <1>8, <1>9, <1>10 DEF InsertedAt

\* q is the sequence s over S without the elements at the places from .. to.
RemovedAt(S, s, from, to, q) ==
  /\ q \in Seq(S) /\ Len(q) = (from - 1) + (Len(s) - to)
  /\ Len(s) \in Nat /\ from \in Nat /\ to \in Nat
  /\ \A i \in 1 .. from - 1 : q[i] = s[i]
  /\ \A i \in 1 .. Len(s) - to : q[(from - 1) + i] = s[to + i]

\* Removing a segment closes the gap.
LEMMA Removed ==
  ASSUME NEW S, NEW s \in Seq(S), NEW from \in 1 .. Len(s) + 1, NEW to \in from - 1 .. Len(s),
         NEW q, q = SubSeq(s, 1, from - 1) \o SubSeq(s, to + 1, Len(s))
  PROVE  RemovedAt(S, s, from, to, q)
<1>0. /\ Len(s) \in Nat /\ from \in Nat /\ to \in Nat /\ from - 1 \in Nat /\ to <= Len(s)
      /\ Len(s) - to \in Nat
  OBVIOUS
<1>1. PICK a : a = SubSeq(s, 1, from - 1)
  OBVIOUS
<1>2. a \in Seq(S) /\ Len(a) = from - 1 /\ \A i \in 1 .. from - 1 : a[i] = s[i]
  BY <1>0, <1>1
<1>3. PICK b : b = SubSeq(s, to + 1, Len(s))
  OBVIOUS
<1>4. b \in Seq(S) /\ Len(b) = Len(s) - to /\ \A i \in 1 .. Len(s) - to : b[i] = s[to + i]
  BY <1>0, <1>3
<1>5. q = a \o b
  BY <1>1, <1>3
<1>6. /\ q \in Seq(S) /\ Len(q) = (from - 1) + (Len(s) - to)
      /\ \A i \in 1 .. from - 1 : q[i] = a[i]
      /\ \A i \in 1 .. Len(s) - to : q[(from - 1) + i] = b[i]
  <2>0. a \in Seq(S) /\ b \in Seq(S)
    BY <1>2, <1>4, Zenon
  <2>1. /\ a \o b \in Seq(S) /\ Len(a \o b) = Len(a) + Len(b)
        /\ \A i \in 1 .. Len(a) : (a \o b)[i] = a[i]
        /\ \A i \in 1 .. Len(b) : (a \o b)[Len(a) + i] = b[i]
    BY <2>0, Joined
  <2> QED
    BY <1>2, <1>4, <1>5, <2>1
<1> QED
  BY <1>0, <1>2, <1>4, <1>6 DEF RemovedAt

\* The roots in front of an address are those that are below it.
LEMMA BelowPlaces ==
  ASSUME NEW f, Good(f), NEW ptr \in Nat
  PROVE  /\ Below(f, ptr) \in 0 .. Len(f.roots) /\ Len(f.roots) \in Nat
         /\ \A j \in 1 .. Len(f.roots) : j <= Below(f, ptr) <=> f.nodes[f.roots[j]].ptr < ptr
<1>0. /\ f.roots \in Seq(DOMAIN f.nodes) /\ Len(f.roots) \in Nat
      /\ DOMAIN f.roots = 1 .. Len(f.roots)
  BY DEF Good, RootsGood
<1>1. ASSUME NEW j \in 1 .. Len(f.roots)
      PROVE  f.roots[j] \in DOMAIN f.nodes /\ f.nodes[f.roots[j]].ptr \in Nat
  <2>1. f.roots[j] \in DOMAIN f.nodes
    BY <1>0
  <2> QED
    BY <2>1, PtrsNat DEF Good, NodesTyped
<1>2. PICK K : K = {k \in DOMAIN f.roots : f.nodes[f.roots[k]].ptr < ptr}
  OBVIOUS
<1>z. PICK z \in Nat : z = 0
  OBVIOUS
<1>3. K \in SUBSET (z + 1 .. Len(f.roots))
  BY <1>0, <1>2, <1>z
<1>4. ASSUME NEW k \in K, NEW j \in z + 1 .. k PROVE j \in K
  <2>1. /\ k \in 1 .. Len(f.roots) /\ j \in 1 .. Len(f.roots) /\ (j = k \/ j < k)
        /\ f.nodes[f.roots[k]].ptr < ptr
    BY <1>0, <1>2, <1>z
  <2>2. j < k => f.nodes[f.roots[j]].ptr <= f.nodes[f.roots[k]].ptr
    BY <2>1 DEF Good, RootsGood
  <2>3. f.nodes[f.roots[j]].ptr < ptr
    BY <1>1, <2>1, <2>2
  <2> QED
    BY <1>0, <1>2, <2>1, <2>3
<1>5. /\ Cardinality(K) \in Nat /\ K = z + 1 .. z + Cardinality(K)
      /\ (z <= Len(f.roots) => z + Cardinality(K) <= Len(f.roots))
  BY <1>0, <1>3, <1>4, Run
<1>6. Below(f, ptr) = Cardinality(K)
  BY <1>2 DEF Below
<1>7. Below(f, ptr) \in Nat /\ Below(f, ptr) <= Len(f.roots) /\ K = 1 .. Below(f, ptr)
  BY <1>0, <1>5, <1>6, <1>z
<1>8. ASSUME NEW j \in 1 .. Len(f.roots)
      PROVE  j <= Below(f, ptr) <=> f.nodes[f.roots[j]].ptr < ptr
  <2>1. j \in K <=> f.nodes[f.roots[j]].ptr < ptr
    BY <1>0, <1>2
  <2>2. j \in K <=> j <= Below(f, ptr)
    BY <1>0, <1>7
  <2> QED
    BY <2>1, <2>2
<1> QED
  BY <1>0, <1>7, <1>8

\* The new root stands where its address belongs.
LEMMA AddRootGood ==
  ASSUME NEW f, Good(f), NEW x \in Tensors, NEW g, g = AddRoot(f, x)
  PROVE  Good(g) /\ Grown(f, g) /\ f.created + 1 \in DOMAIN g.nodes
<1>0. PICK id : id = f.created + 1
  OBVIOUS
<1>1. /\ ForestRec(f) /\ f.created \in Nat /\ DOMAIN f.nodes \subseteq 1 .. f.created
      /\ id \in Nat /\ id \notin DOMAIN f.nodes
      /\ f.roots \in Seq(DOMAIN f.nodes) /\ Len(f.roots) \in Nat
  BY <1>0 DEF Good, NodesTyped, RootsGood
<1>2. PICK k : k = Below(f, x.ptr)
  OBVIOUS
<1>3. /\ k \in 0 .. Len(f.roots)
      /\ \A j \in 1 .. Len(f.roots) : j <= k <=> f.nodes[f.roots[j]].ptr < x.ptr
  BY <1>2, TensorTypes, BelowPlaces
<1>4. PICK hi \in Nat : hi = x.ptr + x.len
  BY TensorTypes
<1>5. PICK h : h = Create(f, id, x, x.ptr, hi, id, Null)
  OBVIOUS
<1>6. /\ ForestRec(h)
      /\ h.created = id /\ h.roots = f.roots
      /\ DOMAIN h.nodes = DOMAIN f.nodes \cup {id}
      /\ \A n \in DOMAIN f.nodes : h.nodes[n] = f.nodes[n]
      /\ h.nodes[id] = [ptr |-> x.ptr, meta |-> x.meta, dim |-> x.dim,
                        lo |-> x.ptr, hi |-> hi, root |-> id, parent |-> Null]
      /\ DOMAIN h.call_path = DOMAIN f.call_path \cup {id}
      /\ \A n \in DOMAIN f.call_path : n # id => h.call_path[n] = f.call_path[n]
      /\ h.call_path[id] = NewState
      /\ h.call_path = Extended(f.call_path, id, NewState)
  BY <1>1, <1>5, CreateParts
<1>7. PICK q : q = SubSeq(f.roots, 1, k) \o <<id>> \o SubSeq(f.roots, k + 1, Len(f.roots))
  OBVIOUS
<1>8. g = [h EXCEPT !.roots = q]
  BY <1>0, <1>2, <1>4, <1>5, <1>6, <1>7 DEF AddRoot
<1>9. /\ ForestRec(g) /\ g.roots = q /\ g.created = id
      /\ g.nodes = h.nodes /\ g.call_path = h.call_path
  <2>1. PICK a, b, c, d : h = [nodes |-> a, roots |-> b, created |-> c, call_path |-> d]
    BY <1>6 DEF ForestRec
  <2>2. g = [nodes |-> a, roots |-> q, created |-> c, call_path |-> d]
    BY <1>8, <2>1
  <2>3. g.nodes = a /\ g.roots = q /\ g.created = c /\ g.call_path = d
    BY <2>2
  <2> QED
    BY <1>6, <2>1, <2>2, <2>3 DEF ForestRec
<1>10. /\ g.nodes[id].ptr = x.ptr /\ g.nodes[id].meta = x.meta /\ g.nodes[id].root = id
       /\ g.nodes[id].lo = x.ptr /\ g.nodes[id].hi = hi
  BY <1>6, <1>9
<1>11. g.nodes[id] \in [ptr : Ptrs, meta : Metas, dim : Nat, lo : Nat, hi : Nat,
                        root : 1 .. id, parent : 0 .. id]
  <2>1. id \in 1 .. id /\ Null \in 0 .. id
    BY <1>0, <1>1 DEF Null
  <2>2. /\ g.nodes[id] = [ptr |-> x.ptr, meta |-> x.meta, dim |-> x.dim,
                          lo |-> x.ptr, hi |-> hi, root |-> id, parent |-> Null]
        /\ hi \in Nat
    BY <1>4, <1>6, <1>9
  <2>3. x.ptr \in Nat /\ x.ptr \in Ptrs /\ x.meta \in Metas /\ x.dim \in Nat
    BY TensorTypes
  <2> QED
    BY <2>1, <2>2, <2>3
<1>12. /\ DOMAIN g.nodes = DOMAIN f.nodes \cup {id}
       /\ \A n \in DOMAIN f.nodes : g.nodes[n] = f.nodes[n]
       /\ DOMAIN g.call_path = DOMAIN f.call_path \cup {id}
       /\ \A n \in DOMAIN f.call_path : n # id => g.call_path[n] = f.call_path[n]
       /\ g.call_path[id] = NewState
       /\ g.call_path = Extended(f.call_path, id, NewState)
  BY <1>6, <1>9
<1>13. NodesTyped(g) /\ StatesTyped(g) /\ Grown(f, g)
  BY <1>0, <1>9, <1>11, <1>12, CreateTypes
<1>14. /\ q \in Seq(DOMAIN g.nodes) /\ Len(q) = Len(f.roots) + 1 /\ k \in Nat
       /\ \A i \in 1 .. k : q[i] = f.roots[i]
       /\ q[k + 1] = id
       /\ \A i \in k + 1 .. Len(f.roots) : q[i + 1] = f.roots[i]
  <2>1. /\ q \in Seq(DOMAIN f.nodes \cup {id}) /\ Len(q) = Len(f.roots) + 1 /\ k \in Nat
        /\ \A i \in 1 .. k : q[i] = f.roots[i]
        /\ q[k + 1] = id
        /\ \A i \in k + 1 .. Len(f.roots) : q[i + 1] = f.roots[i]
    <3>1. PICK S, s : S = DOMAIN f.nodes /\ s = f.roots
      OBVIOUS
    <3>2. s \in Seq(S) /\ k \in 0 .. Len(s)
      BY <1>1, <1>3, <3>1
    <3>3. q = SubSeq(s, 1, k) \o <<id>> \o SubSeq(s, k + 1, Len(s))
      BY <1>7, <3>1
    <3>4. InsertedAt(S, s, k, id, q)
      BY <3>2, <3>3, Inserted, Zenon
    <3> QED
      BY <3>1, <3>4 DEF InsertedAt
  <2> QED
    BY <1>12, <2>1
\* A place of the new sequence is an old one, or that of the new root.
<1>15. ASSUME NEW i \in 1 .. Len(q)
       PROVE  \/ i = k + 1 /\ q[i] = id
              \/ i <= k /\ i \in 1 .. Len(f.roots) /\ q[i] = f.roots[i]
              \/ i > k + 1 /\ i - 1 \in k + 1 .. Len(f.roots) /\ q[i] = f.roots[i - 1]
  <2>1. CASE i = k + 1
    BY <1>14, <2>1
  <2>2. CASE i <= k
    <3>1. i \in 1 .. k /\ i \in 1 .. Len(f.roots)
      BY <1>1, <1>3, <1>14, <2>2
    <3> QED
      BY <1>14, <2>2, <3>1
  <2>3. CASE i > k + 1
    <3>1. i - 1 \in k + 1 .. Len(f.roots) /\ (i - 1) + 1 = i
      BY <1>1, <1>3, <1>14, <2>3
    <3> QED
      BY <1>14, <2>3, <3>1
  <2> QED
    BY <1>14, <2>1, <2>2, <2>3
<1>16. ASSUME NEW j \in 1 .. Len(f.roots)
       PROVE  /\ f.roots[j] \in DOMAIN f.nodes /\ f.roots[j] # id
              /\ g.nodes[f.roots[j]] = f.nodes[f.roots[j]]
              /\ f.nodes[f.roots[j]].ptr \in Nat
              /\ f.nodes[f.roots[j]].root = f.roots[j]
  <2>1. f.roots[j] \in DOMAIN f.nodes
    BY <1>1
  <2>2. f.nodes[f.roots[j]].ptr \in Nat
    BY <2>1, PtrsNat DEF Good, NodesTyped
  <2>3. f.nodes[f.roots[j]].root = f.roots[j]
    BY DEF Good, RootsGood
  <2> QED
    BY <1>1, <1>12, <2>1, <2>2, <2>3
<1>17. RootsGood(g)
  <2>0. k + 1 .. Len(f.roots) \subseteq 1 .. Len(f.roots)
    BY <1>1, <1>14
  <2>1. ASSUME NEW i \in 1 .. Len(q), NEW j \in 1 .. Len(q), i < j
        PROVE  g.nodes[q[i]].ptr <= g.nodes[q[j]].ptr /\ q[i] # q[j]
    <3>0. x.ptr \in Nat
      BY TensorTypes
    <3>1. CASE i = k + 1
      <4>1. j > k + 1 /\ j - 1 \in k + 1 .. Len(f.roots) /\ q[j] = f.roots[j - 1] /\ q[i] = id
        BY <1>14, <1>15, <3>1, <2>1
      <4>2. j - 1 \in 1 .. Len(f.roots) /\ ~ (j - 1 <= k)
        BY <1>14, <2>0, <4>1
      <4>3. ~ (f.nodes[f.roots[j - 1]].ptr < x.ptr) /\ f.nodes[f.roots[j - 1]].ptr \in Nat
        BY <1>3, <1>16, <4>2
      <4>4. g.nodes[q[j]].ptr = f.nodes[f.roots[j - 1]].ptr /\ q[j] # id
        BY <1>16, <4>1, <4>2
      <4> QED
        BY <1>10, <3>0, <4>1, <4>3, <4>4
    <3>2. CASE i <= k
      <4>1. i \in 1 .. Len(f.roots) /\ q[i] = f.roots[i]
        BY <1>14, <1>15, <3>2
      <4>2. g.nodes[q[i]].ptr = f.nodes[f.roots[i]].ptr /\ q[i] # id /\ f.nodes[f.roots[i]].ptr \in Nat
        BY <1>16, <4>1
      <4>3. f.nodes[f.roots[i]].ptr < x.ptr
        BY <1>3, <3>2, <4>1
      <4>4. CASE j = k + 1
        BY <1>10, <1>14, <3>0, <4>2, <4>3, <4>4
      <4>5. CASE j # k + 1
        <5>1. PICK m \in 1 .. Len(f.roots) : q[j] = f.roots[m] /\ i < m
          <6>1. CASE j <= k
            BY <1>14, <1>15, <2>1, <6>1
          <6>2. CASE j > k + 1
            <7>1. j - 1 \in k + 1 .. Len(f.roots) /\ q[j] = f.roots[j - 1]
              BY <1>14, <1>15, <6>2
            <7>2. i < j - 1 /\ j - 1 \in 1 .. Len(f.roots)
              BY <1>14, <2>0, <3>2, <6>2, <7>1
            <7> QED
              BY <7>1, <7>2
          <6> QED
            BY <1>14, <4>5, <6>1, <6>2
        <5>2. g.nodes[q[j]].ptr = f.nodes[f.roots[m]].ptr
          BY <1>16, <5>1
        <5>3. f.nodes[f.roots[i]].ptr <= f.nodes[f.roots[m]].ptr
          BY <4>1, <5>1 DEF Good, RootsGood
        <5>4. f.roots[i] # f.roots[m]
          BY <4>1, <5>1 DEF Good, RootsGood
        <5> QED
          BY <4>1, <4>2, <5>1, <5>2, <5>3, <5>4
      <4> QED
        BY <4>4, <4>5
    <3>3. CASE i > k + 1
      <4>1. i - 1 \in k + 1 .. Len(f.roots) /\ q[i] = f.roots[i - 1]
        BY <1>14, <1>15, <3>3
      <4>2. j > k + 1
        BY <1>14, <2>1, <3>3
      <4>3. j - 1 \in k + 1 .. Len(f.roots) /\ q[j] = f.roots[j - 1]
        BY <1>14, <1>15, <4>2
      <4>4. i - 1 \in 1 .. Len(f.roots) /\ j - 1 \in 1 .. Len(f.roots) /\ i - 1 < j - 1
        BY <2>0, <2>1, <4>1, <4>3
      <4>5. f.nodes[f.roots[i - 1]].ptr <= f.nodes[f.roots[j - 1]].ptr
        BY <4>4 DEF Good, RootsGood
      <4>6. f.roots[i - 1] # f.roots[j - 1]
        BY <4>4 DEF Good, RootsGood
      <4>7. /\ g.nodes[q[i]].ptr = f.nodes[f.roots[i - 1]].ptr
            /\ g.nodes[q[j]].ptr = f.nodes[f.roots[j - 1]].ptr
        BY <1>16, <4>1, <4>3, <4>4
      <4> QED
        BY <4>1, <4>3, <4>5, <4>6, <4>7
    <3> QED
      BY <1>14, <3>1, <3>2, <3>3
  <2>2. ASSUME NEW i \in 1 .. Len(q), NEW j \in 1 .. Len(q), q[i] = q[j]
        PROVE  i = j
    <3>1. i < j \/ j < i \/ i = j
      BY <1>14
    <3> QED
      BY <2>1, <2>2, <3>1
  <2>3. ASSUME NEW i \in 1 .. Len(q) PROVE g.nodes[q[i]].root = q[i]
    <3>1. q[i] = id \/ \E m \in 1 .. Len(f.roots) : q[i] = f.roots[m]
      BY <1>15, <2>0
    <3> QED
      BY <1>10, <1>16, <3>1
  <2> QED
    BY <1>9, <1>14, <2>1, <2>2, <2>3 DEF RootsGood
<1>18. TreesGood(g)
  <2>1. ASSUME NEW j \in 1 .. Len(f.roots) PROVE \E i \in 1 .. Len(q) : q[i] = f.roots[j]
    <3>1. CASE j <= k
      <4>1. j \in 1 .. Len(q) /\ j \in 1 .. k
        BY <1>1, <1>14, <3>1
      <4> QED
        BY <1>14, <4>1
    <3>2. CASE ~ (j <= k)
      <4>1. j + 1 \in 1 .. Len(q) /\ j \in k + 1 .. Len(f.roots)
        BY <1>1, <1>14, <3>2
      <4> QED
        BY <1>14, <4>1
    <3> QED
      BY <3>1, <3>2
  <2>2. ASSUME NEW n \in DOMAIN f.nodes PROVE InTree(g, n)
    <3>1. InTree(f, n)
      BY DEF Good, TreesGood
    <3> QED
      BY <1>9, <1>12, <2>1, <3>1 DEF InTree
  <2>3. InTree(g, id)
    <3>1. k + 1 \in 1 .. Len(q) /\ x.ptr <= x.ptr /\ x.ptr <= hi
      BY <1>1, <1>3, <1>4, <1>14, TensorTypes
    <3>2. id \in DOMAIN g.nodes /\ g.roots = q /\ q[k + 1] = id
      BY <1>9, <1>12, <1>14
    <3> QED
      BY <1>10, <3>1, <3>2 DEF InTree
  <2> QED
    BY <1>12, <2>2, <2>3 DEF TreesGood
<1>19. Unique(g)
  <2>1. ASSUME NEW n \in DOMAIN f.nodes PROVE f.nodes[n].root # id
    <3>1. f.nodes[n].root \in 1 .. f.created
      BY DEF Good, NodesTyped
    <3> QED
      BY <1>0, <1>1, <3>1
  <2> QED
    BY <1>10, <1>12, <2>1 DEF Good, Unique
<1> QED
  BY <1>0, <1>9, <1>12, <1>13, <1>17, <1>18, <1>19 DEF Good

\* A forest with other states.
LEMMA OtherStates ==
  ASSUME NEW f, Good(f), NEW g, ForestRec(g), g.nodes = f.nodes, g.roots = f.roots,
         g.created = f.created, StatesTyped(g)
  PROVE  Good(g)
<1>1. NodesTyped(f) /\ RootsGood(f) /\ Unique(f) /\ TreesGood(f)
  BY DEF Good
<1>2. NodesTyped(g)
  BY <1>1 DEF NodesTyped
<1>3. RootsGood(g)
  BY <1>1, Zenon DEF RootsGood
<1>4. Unique(g)
  BY <1>1 DEF Unique
<1>5. TreesGood(g)
  BY <1>1 DEF TreesGood, InTree
<1> QED
  BY <1>2, <1>3, <1>4, <1>5 DEF Good

\* A node that is seen again gets another state.
LEMMA SeenAgainGood ==
  ASSUME NEW f, Good(f), NEW n, NEW g, g = SeenAgain(f, n)
  PROVE  Good(g) /\ Grown(f, g) /\ g.created = f.created /\ g.nodes = f.nodes
<1>1. PICK a, b, c, d : f = [nodes |-> a, roots |-> b, created |-> c, call_path |-> d]
  BY DEF Good, ForestRec
<1>2. PICK e : e = [d EXCEPT ![n].states = 2]
  OBVIOUS
<1>3. g = [nodes |-> a, roots |-> b, created |-> c, call_path |-> e]
  BY <1>1, <1>2 DEF SeenAgain
<1>4. /\ g.nodes = f.nodes /\ g.roots = f.roots /\ g.created = f.created
      /\ g.call_path = e /\ f.call_path = d
  BY <1>1, <1>3
<1>5. ForestRec(g)
  BY <1>3, <1>4 DEF ForestRec
<1>6. /\ DOMAIN e = DOMAIN d
      /\ \A m \in DOMAIN d : m # n => e[m] = d[m]
      /\ n \in DOMAIN d => e[n] = [d[n] EXCEPT !.states = 2]
  BY <1>2
<1>7. ASSUME NEW s \in States PROVE LET z == [s EXCEPT !.states = 2] IN z \in States /\ Noted(z)
  BY DEF States, Noted
<1>8. \A m \in DOMAIN d : d[m] \in States
  BY <1>4 DEF Good, StatesTyped
<1>9. \A m \in DOMAIN e : e[m] \in States /\ (Noted(d[m]) => Noted(e[m]))
  BY <1>6, <1>7, <1>8
<1>10. StatesTyped(g)
  <2>1. e \in [DOMAIN e -> States]
    <3>1. e = [m \in DOMAIN e |-> e[m]]
      BY <1>2
    <3> QED
      BY <1>9, <3>1
  <2> QED
    BY <1>4, <1>6, <2>1 DEF Good, StatesTyped
<1>11. Good(g)
  BY <1>4, <1>5, <1>10, OtherStates
<1>12. Grown(f, g)
  <2>1. f.created \in Nat
    BY DEF Good, NodesTyped
  <2> QED
    BY <1>4, <1>6, <1>9, <2>1 DEF Grown
<1> QED
  BY <1>4, <1>11, <1>12

\* find_node finds a node that is there.
LEMMA FindNode ==
  ASSUME NEW f, Good(f), NEW r, NEW x
  PROVE  /\ find_node(f, r, x) = Null => Same(f, r, x) = {}
         /\ find_node(f, r, x) # Null => find_node(f, r, x) \in Same(f, r, x)
<1>1. CASE Same(f, r, x) = {}
  BY <1>1 DEF find_node
<1>2. CASE Same(f, r, x) # {}
  <2>1. find_node(f, r, x) \in Same(f, r, x)
    BY <1>2, Zenon DEF find_node
  <2>2. Null \notin DOMAIN f.nodes
    BY DEF Good, NodesTyped, Null
  <2> QED
    BY <2>1, <2>2 DEF Same, Tree
<1> QED
  BY <1>1, <1>2

\* The father is a node of the tree, and its block holds the view.
LEMMA FatherGood ==
  ASSUME NEW f, Good(f), NEW r, NEW x \in Tensors, NEW args \in Seq(Args),
         NEW p, p = Father(f, r, x, args), p # Null
  PROVE  p \in Tree(f, r) /\ f.nodes[p].lo <= x.ptr /\ x.ptr <= f.nodes[p].hi
<1> DEFINE F == {i \in DOMAIN args :
        /\ args[i] # NoTensor
        /\ \E n \in Same(f, r, args[i]) : f.nodes[n].lo <= x.ptr /\ x.ptr <= f.nodes[n].hi}
<1>2. p = IF F = {} THEN Null
          ELSE find_node(f, r, args[CHOOSE i \in F : \A j \in F : i <= j])
  BY DEF Father
<1>1. \A i : i \in F <=> /\ i \in DOMAIN args /\ args[i] # NoTensor
                      /\ \E n \in Same(f, r, args[i]) : f.nodes[n].lo <= x.ptr /\ x.ptr <= f.nodes[n].hi
  OBVIOUS
<1> HIDE DEF F
<1>3. F # {}
  BY <1>2
<1>4. F \in SUBSET Nat
  BY <1>1
<1>5. PICK i : i = CHOOSE k \in F : \A j \in F : k <= j
  OBVIOUS
<1>6. i \in F
  <2>1. \E k \in F : \A j \in F : k <= j
    BY <1>3, <1>4, LeastOf
  <2> QED
    BY <1>5, <2>1, Zenon
<1>7. PICK n \in Same(f, r, args[i]) : f.nodes[n].lo <= x.ptr /\ x.ptr <= f.nodes[n].hi
  BY <1>1, <1>6
<1>8. p \in Same(f, r, args[i])
  <2>1. p = find_node(f, r, args[i])
    BY <1>2, <1>3, <1>5
  <2> QED
    BY <2>1, FindNode
<1>9. p \in DOMAIN f.nodes /\ n \in DOMAIN f.nodes /\ f.nodes[p].root = r /\ f.nodes[n].root = r
  BY <1>7, <1>8 DEF Same, Tree
<1>10. f.nodes[p].lo = f.nodes[n].lo /\ f.nodes[p].hi = f.nodes[n].hi
  <2>1. InTree(f, p) /\ InTree(f, n)
    BY <1>9 DEF Good, TreesGood
  <2> QED
    BY <1>9, <2>1 DEF InTree
<1> QED
  BY <1>7, <1>9, <1>10 DEF Tree

\* What update_view_forest promises for a tensor.
LEMMA UpdateStep ==
  ASSUME NEW f, Good(f), NEW x \in Args, NEW args \in Seq(Args),
         NEW u, u = update_view_forest(f, x, args)
  PROVE  /\ Good(u.forest) /\ Grown(f, u.forest)
         /\ u.node = Null \/ u.node \in DOMAIN u.forest.nodes
<1>0. f.created \in Nat
  BY DEF Good, NodesTyped
<1>1. PICK r : r = find_root_node(f, x)
  OBVIOUS
<1>2. PICK n : n = IF r = Null THEN Null ELSE find_node(f, r, x)
  OBVIOUS
<1>3. PICK p : p = IF r = Null \/ n # Null THEN Null ELSE Father(f, r, x, args)
  OBVIOUS
<1>4. u = CASE x = NoTensor   -> [forest |-> f, node |-> Null]
            [] x # NoTensor /\ r = Null -> [forest |-> AddRoot(f, x), node |-> f.created + 1]
            [] x # NoTensor /\ n # Null -> [forest |-> SeenAgain(f, n), node |-> n]
            [] x # NoTensor /\ p # Null ->
                 [forest |-> AddChild(f, x, r, p), node |-> f.created + 1]
            [] OTHER -> [forest |-> f, node |-> Null]
  BY <1>1, <1>2, <1>3, Zenon DEF update_view_forest
<1>5. Grown(f, f)
  BY <1>0 DEF Grown
<1>6. CASE u = [forest |-> f, node |-> Null]
  <2>1. u.forest = f /\ u.node = Null
    BY <1>6
  <2> QED
    BY <1>5, <2>1
<1>7. CASE x # NoTensor /\ r = Null
  <2>1. u = [forest |-> AddRoot(f, x), node |-> f.created + 1] /\ x \in Tensors
    BY <1>2, <1>3, <1>4, <1>7 DEF Args
  <2>2. PICK g : g = AddRoot(f, x)
    OBVIOUS
  <2>3. Good(g) /\ Grown(f, g) /\ f.created + 1 \in DOMAIN g.nodes
    BY <2>1, <2>2, AddRootGood
  <2> QED
    BY <2>1, <2>2, <2>3
<1>8. CASE x # NoTensor /\ r # Null /\ n # Null
  <2>1. u = [forest |-> SeenAgain(f, n), node |-> n]
    <3>1. PICK A, B, C, D :
            /\ A = [forest |-> AddRoot(f, x), node |-> f.created + 1]
            /\ B = [forest |-> SeenAgain(f, n), node |-> n]
            /\ C = [forest |-> AddChild(f, x, r, p), node |-> f.created + 1]
            /\ D = [forest |-> f, node |-> Null]
      OBVIOUS
    <3>2. p = Null
      BY <1>3, <1>8
    <3>3. u = CASE x = NoTensor -> D
                [] x # NoTensor /\ r = Null -> A
                [] x # NoTensor /\ n # Null -> B
                [] x # NoTensor /\ p # Null -> C
                [] OTHER -> D
      BY <1>4, <3>1, Zenon
    <3>4. u = B
      BY <1>8, <3>2, <3>3
    <3> QED
      BY <3>1, <3>4
  <2>2. PICK g : g = SeenAgain(f, n)
    OBVIOUS
  <2>3. Good(g) /\ Grown(f, g) /\ g.nodes = f.nodes
    BY <2>2, SeenAgainGood
  <2>4. n \in DOMAIN f.nodes
    <3>1. n = find_node(f, r, x)
      BY <1>2, <1>8
    <3> QED
      BY <1>8, <3>1, FindNode DEF Same, Tree
  <2>5. u.forest = g /\ u.node = n
    BY <2>1, <2>2
  <2> QED
    BY <2>3, <2>4, <2>5
<1>9. CASE x # NoTensor /\ r # Null /\ n = Null /\ p # Null
  <2>1. u = [forest |-> AddChild(f, x, r, p), node |-> f.created + 1] /\ x \in Tensors
    BY <1>4, <1>9 DEF Args
  <2>2. PICK g : g = AddChild(f, x, r, p)
    OBVIOUS
  <2>3. Same(f, r, x) = {}
    <3>1. Null = find_node(f, r, x)
      BY <1>2, <1>9
    <3> QED
      BY <3>1, FindNode
  <2>4. p \in Tree(f, r) /\ f.nodes[p].lo <= x.ptr /\ x.ptr <= f.nodes[p].hi
    <3>1. p = Father(f, r, x, args)
      BY <1>3, <1>9
    <3> QED
      BY <1>9, <2>1, <3>1, FatherGood
  <2>5. Good(g) /\ Grown(f, g) /\ f.created + 1 \in DOMAIN g.nodes
    BY <2>1, <2>2, <2>3, <2>4, AddChildGood
  <2> QED
    BY <2>1, <2>2, <2>5
<1>10. CASE x = NoTensor \/ (x # NoTensor /\ r # Null /\ n = Null /\ p = Null)
  <2>1. u = [forest |-> f, node |-> Null]
    BY <1>4, <1>10
  <2> QED
    BY <1>6, <2>1
<1> QED
  BY <1>7, <1>8, <1>9, <1>10

\* Growth is transitive.
LEMMA GrownGrown ==
  ASSUME NEW f, Good(f), NEW g, Good(g), NEW h, Good(h), Grown(f, g), Grown(g, h)
  PROVE  Grown(f, h)
<1>0. f.created \in Nat /\ g.created \in Nat /\ h.created \in Nat /\ DOMAIN h.nodes \subseteq Nat
  BY DEF Good, NodesTyped
<1>1. f.created <= h.created /\ DOMAIN f.nodes \subseteq DOMAIN h.nodes
  BY <1>0 DEF Grown
<1>2. ASSUME NEW n \in DOMAIN h.nodes
      PROVE  n > f.created \/ (n \in DOMAIN f.nodes /\ h.nodes[n].ptr = f.nodes[n].ptr)
  <2>1. n > g.created \/ (n \in DOMAIN g.nodes /\ h.nodes[n].ptr = g.nodes[n].ptr)
    BY DEF Grown
  <2>2. n > g.created => n > f.created
    BY <1>0 DEF Grown
  <2>3. n \in DOMAIN g.nodes =>
          n > f.created \/ (n \in DOMAIN f.nodes /\ g.nodes[n].ptr = f.nodes[n].ptr)
    BY DEF Grown
  <2> QED
    BY <2>1, <2>2, <2>3
<1>3. \A n \in DOMAIN f.call_path :
        n \in DOMAIN h.call_path /\ (Noted(f.call_path[n]) => Noted(h.call_path[n]))
  BY DEF Grown
<1> QED
  BY <1>1, <1>2, <1>3 DEF Grown

\* One step of UpdateAll, and the function its recursion defines.
Seen(a, x, args) ==
  LET u == update_view_forest(a.forest, x, args)
  IN  [forest |-> u.forest, found |-> Append(a.found, u.node)]

AfterTo(g, k, f, xs, args) ==
  g = [i \in 0 .. k |-> IF i = 0 THEN [forest |-> f, found |-> << >>]
                        ELSE Seen(g[i - 1], xs[i], args)]

\* The recursion of UpdateAll defines a function, by induction on the length.
LEMMA AfterExists ==
  ASSUME NEW f, NEW xs, NEW args, NEW k \in Nat
  PROVE  \E g : AfterTo(g, k, f, xs, args)
<1> DEFINE Fails == {m \in Nat : ~ \E g : AfterTo(g, m, f, xs, args)}
<1>1. SUFFICES ASSUME Fails # {} PROVE FALSE
  OBVIOUS
<1>2. PICK m \in Fails : \A n \in Fails : m <= n
  <2>1. Fails \in SUBSET Nat
    OBVIOUS
  <2> HIDE DEF Fails
  <2> QED
    BY <1>1, <2>1, LeastOf
<1>3. m \in Nat /\ ~ \E g : AfterTo(g, m, f, xs, args)
  BY <1>2
<1>4. CASE m = 0
  <2>1. PICK start : start = [forest |-> f, found |-> << >>]
    OBVIOUS
  <2>2. PICK g : g = [i \in 0 .. 0 |-> start]
    OBVIOUS
  <2>3. g = [i \in 0 .. 0 |-> IF i = 0 THEN start ELSE Seen(g[i - 1], xs[i], args)]
    BY <2>2
  <2>4. AfterTo(g, 0, f, xs, args)
    BY <2>1, <2>3 DEF AfterTo
  <2> QED
    BY <1>3, <1>4, <2>4
<1>5. CASE m # 0
  <2>1. m - 1 \in Nat /\ m - 1 \notin Fails
    <3>1. m - 1 \in Nat /\ ~ (m <= m - 1)
      BY <1>3, <1>5
    <3> HIDE DEF Fails
    <3> QED
      BY <1>2, <3>1
  <2>2. PICK g : AfterTo(g, m - 1, f, xs, args)
    BY <2>1
  <2>3. PICK start : start = [forest |-> f, found |-> << >>]
    OBVIOUS
  <2>4. g = [i \in 0 .. m - 1 |-> IF i = 0 THEN start ELSE Seen(g[i - 1], xs[i], args)]
    BY <2>2, <2>3 DEF AfterTo
  <2>5. PICK last : last = Seen(g[m - 1], xs[m], args)
    OBVIOUS
  <2>6. PICK h : h = [i \in 0 .. m |-> IF i = m THEN last ELSE g[i]]
    OBVIOUS
  <2>7. ASSUME NEW i \in 0 .. m
        PROVE  h[i] = IF i = 0 THEN start ELSE Seen(h[i - 1], xs[i], args)
    <3>1. CASE i = 0
      <4>1. 0 \in 0 .. m - 1 /\ 0 # m
        BY <1>3, <1>5
      <4>2. g[0] = start
        BY <2>4, <4>1
      <4> QED
        BY <2>6, <3>1, <4>1, <4>2
    <3>2. CASE i # 0
      <4>1. i - 1 \in 0 .. m /\ i - 1 # m
        BY <1>3, <3>2
      <4>2. h[i - 1] = g[i - 1]
        BY <2>6, <4>1
      <4>3. CASE i = m
        BY <2>5, <2>6, <3>2, <4>2, <4>3
      <4>4. CASE i # m
        <5>1. i \in 0 .. m - 1
          BY <1>3, <4>4
        <5>2. g[i] = Seen(g[i - 1], xs[i], args)
          BY <2>4, <3>2, <5>1
        <5> QED
          BY <2>6, <3>2, <4>2, <4>4, <5>2
      <4> QED
        BY <4>3, <4>4
    <3> QED
      BY <3>1, <3>2
  <2>8. h = [i \in 0 .. m |-> IF i = 0 THEN start ELSE Seen(h[i - 1], xs[i], args)]
    <3>1. DOMAIN h = 0 .. m /\ h = [i \in 0 .. m |-> h[i]]
      BY <2>6
    <3> QED
      BY <2>7, <3>1, Zenon
  <2>9. AfterTo(h, m, f, xs, args)
    BY <2>3, <2>8 DEF AfterTo
  <2> QED
    BY <1>3, <2>9
<1> QED
  BY <1>4, <1>5

\* After the first i tensors were seen, starting from forest f.
SeenTo(f, a, i) ==
  /\ Good(a.forest) /\ Grown(f, a.forest)
  /\ a.found \in Seq(Nat) /\ Len(a.found) = i
  /\ \A j \in 1 .. i : a.found[j] = Null \/ a.found[j] \in DOMAIN a.forest.nodes

\* One more tensor of an operator keeps what is known of those seen so far.
LEMMA SeenStep ==
  ASSUME NEW f, Good(f), NEW i \in Nat, NEW a, SeenTo(f, a, i), NEW x \in Args,
         NEW args \in Seq(Args), NEW b, b = Seen(a, x, args)
  PROVE  SeenTo(f, b, i + 1)
<1>1. PICK u : u = update_view_forest(a.forest, x, args)
  OBVIOUS
<1>2. PICK g : g = a.forest
  OBVIOUS
<1>3. Good(g) /\ Grown(f, g)
  BY <1>2 DEF SeenTo
<1>4. /\ Good(u.forest) /\ Grown(g, u.forest)
      /\ u.node = Null \/ u.node \in DOMAIN u.forest.nodes
  BY <1>1, <1>2, <1>3, UpdateStep
<1>5. Grown(f, u.forest)
  <2>1. PICK h : h = u.forest
    OBVIOUS
  <2> QED
    BY <1>3, <1>4, <2>1, GrownGrown
<1>6. b.forest = u.forest /\ b.found = Append(a.found, u.node)
  BY <1>1 DEF Seen
<1>7. u.node \in Nat
  BY <1>4 DEF Good, NodesTyped, Null
<1>8. a.found \in Seq(Nat) /\ Len(a.found) = i
  BY DEF SeenTo
<1>9. /\ b.found \in Seq(Nat) /\ Len(b.found) = i + 1 /\ b.found[i + 1] = u.node
      /\ \A j \in 1 .. i : b.found[j] = a.found[j]
  BY <1>6, <1>7, <1>8
<1>10. ASSUME NEW j \in 1 .. i + 1
       PROVE  b.found[j] = Null \/ b.found[j] \in DOMAIN u.forest.nodes
  <2>1. CASE j = i + 1
    BY <1>4, <1>9, <2>1
  <2>2. CASE j # i + 1
    <3>1. j \in 1 .. i
      BY <2>2
    <3>2. a.found[j] = Null \/ a.found[j] \in DOMAIN g.nodes
      BY <1>2, <3>1 DEF SeenTo
    <3>3. DOMAIN g.nodes \subseteq DOMAIN u.forest.nodes
      BY <1>4 DEF Grown
    <3> QED
      BY <1>9, <3>1, <3>2, <3>3
  <2> QED
    BY <2>1, <2>2
<1> QED
  BY <1>4, <1>5, <1>6, <1>9, <1>10 DEF SeenTo

\* The forest stays good while the arguments or results of an operator are seen.
LEMMA UpdateAllGood ==
  ASSUME NEW f, Good(f), NEW xs \in Seq(Args), NEW args \in Seq(Args),
         NEW u, u = UpdateAll(f, xs, args)
  PROVE  SeenTo(f, u, Len(xs))
<1>0. PICK k \in Nat : k = Len(xs)
  OBVIOUS
<1>1. PICK g : g = CHOOSE h : AfterTo(h, k, f, xs, args)
  OBVIOUS
<1>2. u = g[k]
  BY <1>0, <1>1 DEF UpdateAll, AfterTo, Seen
<1>3. AfterTo(g, k, f, xs, args)
  <2>1. \E h : AfterTo(h, k, f, xs, args)
    BY AfterExists
  <2> QED
    BY <1>1, <2>1, Zenon
<1>4. /\ g[0] = [forest |-> f, found |-> << >>]
      /\ \A i \in 1 .. k : g[i] = Seen(g[i - 1], xs[i], args)
  BY <1>3 DEF AfterTo
<1> DEFINE Fails == {i \in 0 .. k : ~ SeenTo(f, g[i], i)}
<1>5. SUFFICES ASSUME Fails # {} PROVE FALSE
  BY <1>0, <1>2
<1>6. PICK m \in Fails : \A n \in Fails : m <= n
  <2>1. Fails \in SUBSET Nat
    OBVIOUS
  <2> HIDE DEF Fails
  <2> QED
    BY <1>5, <2>1, LeastOf
<1>7. m \in 0 .. k /\ ~ SeenTo(f, g[m], m)
  BY <1>6
<1>8. CASE m = 0
  <2>1. g[0].forest = f /\ g[0].found = << >>
    BY <1>4
  <2>2. Grown(f, f)
    BY DEF Grown, Good, NodesTyped
  <2>3. << >> \in Seq(Nat) /\ Len(<< >>) = 0 /\ 1 .. 0 = {}
    OBVIOUS
  <2>4. SeenTo(f, g[0], 0)
    BY <2>1, <2>2, <2>3 DEF SeenTo
  <2> QED
    BY <1>7, <1>8, <2>4
<1>9. CASE m # 0
  <2>1. m \in 1 .. k /\ m - 1 \in 0 .. k /\ m - 1 \in Nat /\ (m - 1) + 1 = m /\ ~ (m <= m - 1)
    BY <1>7, <1>9
  <2>2. SeenTo(f, g[m - 1], m - 1)
    <3>1. m - 1 \notin Fails
      <4> HIDE DEF Fails
      <4> QED
        BY <1>6, <2>1
    <3> QED
      BY <2>1, <3>1
  <2>3. g[m] = Seen(g[m - 1], xs[m], args) /\ xs[m] \in Args
    BY <1>0, <1>4, <2>1
  <2>5. SeenTo(f, g[m], (m - 1) + 1)
    BY <2>1, <2>2, <2>3, SeenStep
  <2> QED
    BY <1>7, <2>1, <2>5
<1> QED
  BY <1>8, <1>9

\* What is left when the trees of the roots at the places from .. to are deleted.
LEMMA WithoutGood ==
  ASSUME NEW f, Good(f), NEW from \in 1 .. Len(f.roots) + 1, NEW to \in from - 1 .. Len(f.roots),
         NEW silent, NEW g, g = WithoutTrees(f, from, to, silent)
  PROVE  /\ Good(g) /\ g.created = f.created
         /\ DOMAIN g.nodes \subseteq DOMAIN f.nodes
         /\ \A n \in DOMAIN g.nodes : g.nodes[n] = f.nodes[n]
         /\ \A n \in DOMAIN f.nodes :
              n \in DOMAIN g.nodes \/ \E i \in from .. to : f.nodes[n].root = f.roots[i]
         /\ DOMAIN g.call_path = DOMAIN f.call_path \ silent
         /\ \A n \in DOMAIN g.call_path : g.call_path[n] = f.call_path[n]
<1>1. PICK a, b, c, d : f = [nodes |-> a, roots |-> b, created |-> c, call_path |-> d]
  BY DEF Good, ForestRec
<1>2. f.nodes = a /\ f.roots = b /\ f.created = c /\ f.call_path = d
  BY <1>1
<1>3. PICK R : R = {b[k] : k \in from .. to}
  OBVIOUS
<1>4. PICK D : D = {n \in DOMAIN a : a[n].root \notin R}
  OBVIOUS
<1>5. PICK q : q = SubSeq(b, 1, from - 1) \o SubSeq(b, to + 1, Len(b))
  OBVIOUS
<1>6. g = [nodes |-> Restricted(a, D), roots |-> q, created |-> c,
           call_path |-> Restricted(d, DOMAIN d \ silent)]
  <2>1. PICK A, Q, C : /\ A = Restricted(f.nodes, {n \in DOMAIN f.nodes :
                                f.nodes[n].root \notin {f.roots[k] : k \in from .. to}})
                       /\ Q = SubSeq(f.roots, 1, from - 1) \o SubSeq(f.roots, to + 1, Len(f.roots))
                       /\ C = Restricted(f.call_path, DOMAIN f.call_path \ silent)
    OBVIOUS
  <2>2. g = [f EXCEPT !.nodes = A, !.roots = Q, !.call_path = C]
    BY <2>1 DEF WithoutTrees
  <2>3. g = [nodes |-> A, roots |-> Q, created |-> c, call_path |-> C]
    BY <1>1, <2>2
  <2>4. Q = q /\ C = Restricted(d, DOMAIN d \ silent)
    BY <1>2, <1>5, <2>1
  <2>5. A = Restricted(a, D)
    BY <1>2, <1>3, <1>4, <2>1
  <2> QED
    BY <2>3, <2>4, <2>5
<1>7. /\ g.nodes = Restricted(a, D) /\ g.roots = q /\ g.created = c
      /\ g.call_path = Restricted(d, DOMAIN d \ silent)
  BY <1>6
<1>8. ForestRec(g)
  BY <1>6, <1>7 DEF ForestRec
<1>9. /\ DOMAIN g.nodes = D /\ D \subseteq DOMAIN a
      /\ \A n \in D : g.nodes[n] = a[n]
  BY <1>4, <1>7 DEF Restricted
<1>10. /\ DOMAIN g.call_path = DOMAIN d \ silent
       /\ \A n \in DOMAIN g.call_path : g.call_path[n] = d[n]
       /\ g.call_path = [n \in DOMAIN g.call_path |-> g.call_path[n]]
  BY <1>7 DEF Restricted
<1>11. \A n \in DOMAIN a : n \in D \/ \E i \in from .. to : a[n].root = b[i]
  BY <1>3, <1>4
<1>12. NodesTyped(g)
  <2>1. NodesTyped(f)
    BY DEF Good
  <2> QED
    BY <1>2, <1>7, <1>9, <2>1 DEF NodesTyped
<1>13. StatesTyped(g)
  <2>1. DOMAIN d \subseteq 1 .. c /\ d \in [DOMAIN d -> States]
    BY <1>2 DEF Good, StatesTyped
  <2>2. \A n \in DOMAIN g.call_path : g.call_path[n] \in States
    BY <1>10, <2>1
  <2>3. g.call_path \in [DOMAIN g.call_path -> States]
    BY <1>10, <2>2
  <2> QED
    BY <1>7, <1>10, <2>1, <2>3 DEF StatesTyped
<1>14. /\ b \in Seq(DOMAIN a) /\ from \in 1 .. Len(b) + 1 /\ to \in from - 1 .. Len(b)
       /\ \A j, k \in 1 .. Len(b) : b[j] = b[k] => j = k
       /\ \A k \in 1 .. Len(b) : a[b[k]].root = b[k]
       /\ \A j, k \in 1 .. Len(b) : j < k => a[b[j]].ptr <= a[b[k]].ptr
  BY <1>2 DEF Good, RootsGood
<1>15. RemovedAt(DOMAIN a, b, from, to, q)
  <2>1. PICK S : S = DOMAIN a
    OBVIOUS
  <2>2. b \in Seq(S) /\ from \in 1 .. Len(b) + 1 /\ to \in from - 1 .. Len(b)
    BY <1>14, <2>1
  <2>3. RemovedAt(S, b, from, to, q)
    BY <1>5, <2>2, Removed
  <2> QED
    BY <2>1, <2>3
<1>16. /\ q \in Seq(DOMAIN a) /\ Len(q) = (from - 1) + (Len(b) - to)
       /\ Len(b) \in Nat /\ from \in Nat /\ to \in Nat /\ from >= 1 /\ to >= from - 1 /\ to <= Len(b)
       /\ \A i \in 1 .. from - 1 : q[i] = b[i]
       /\ \A i \in 1 .. Len(b) - to : q[(from - 1) + i] = b[to + i]
  BY <1>14, <1>15 DEF RemovedAt
\* The old place of a root that is left.
<1> DEFINE Old(i) == IF i < from THEN i ELSE i + (to - (from - 1))
<1>17. ASSUME NEW i \in 1 .. Len(q)
       PROVE  Old(i) \in 1 .. Len(b) /\ Old(i) \notin from .. to /\ q[i] = b[Old(i)]
  <2>1. CASE i < from
    <3>1. i \in 1 .. from - 1 /\ i \in 1 .. Len(b) /\ i \notin from .. to /\ Old(i) = i
      BY <1>16, <2>1
    <3> QED
      BY <1>16, <3>1
  <2>2. CASE ~ (i < from)
    <3>1. /\ i - (from - 1) \in 1 .. Len(b) - to
          /\ (from - 1) + (i - (from - 1)) = i
          /\ to + (i - (from - 1)) = Old(i)
      BY <1>16, <2>2
    <3>2. q[i] = b[Old(i)]
      BY <1>16, <3>1
    <3>3. Old(i) \in 1 .. Len(b) /\ Old(i) \notin from .. to
      BY <1>16, <2>2
    <3> QED
      BY <3>2, <3>3
  <2> QED
    BY <2>1, <2>2
<1>18. \A i, j \in 1 .. Len(q) : i < j => Old(i) < Old(j)
  BY <1>16
<1> HIDE DEF Old
<1>19. ASSUME NEW j \in 1 .. Len(b), j \notin from .. to
       PROVE  b[j] \in D /\ \E i \in 1 .. Len(q) : q[i] = b[j]
  <2>1. b[j] \in DOMAIN a /\ a[b[j]].root = b[j]
    BY <1>14, <1>16
  <2>2. b[j] \notin R
    <3>1. ASSUME NEW k \in from .. to, b[k] = b[j] PROVE FALSE
      <4>1. k \in 1 .. Len(b)
        BY <1>16
      <4>2. k = j
        BY <1>14, <3>1, <4>1
      <4> QED
        BY <1>19, <4>2
    <3> QED
      BY <1>3, <3>1
  <2>3. CASE j < from
    <3>1. j \in 1 .. from - 1 /\ j \in 1 .. Len(q)
      BY <1>16, <2>3
    <3> QED
      BY <1>4, <1>16, <2>1, <2>2, <3>1
  <2>4. CASE j > to
    <3>1. /\ j - to \in 1 .. Len(b) - to /\ (from - 1) + (j - to) \in 1 .. Len(q)
          /\ to + (j - to) = j
      BY <1>16, <2>4
    <3>2. q[(from - 1) + (j - to)] = b[j]
      BY <1>16, <3>1
    <3> QED
      BY <1>4, <2>1, <2>2, <3>1, <3>2
  <2> QED
    BY <1>16, <1>19, <2>3, <2>4
<1>20. RootsGood(g)
  <2>1. \A i \in 1 .. Len(q) : q[i] \in D
    BY <1>17, <1>19
  <2>2. q \in Seq(D)
    BY <1>16, <2>1
  <2>3. ASSUME NEW i \in 1 .. Len(q), NEW j \in 1 .. Len(q), i < j
        PROVE  q[i] # q[j] /\ g.nodes[q[i]].ptr <= g.nodes[q[j]].ptr
    <3>1. PICK m \in 1 .. Len(b), n \in 1 .. Len(b) : m < n /\ q[i] = b[m] /\ q[j] = b[n]
      <4>1. Old(i) \in 1 .. Len(b) /\ q[i] = b[Old(i)]
        BY <1>17
      <4>2. Old(j) \in 1 .. Len(b) /\ q[j] = b[Old(j)]
        BY <1>17
      <4>3. Old(i) < Old(j)
        BY <1>18, <2>3
      <4> QED
        BY <4>1, <4>2, <4>3, Zenon
    <3>2. g.nodes[q[i]] = a[b[m]] /\ g.nodes[q[j]] = a[b[n]]
      BY <1>9, <2>1, <3>1
    <3>3. m # n
      BY <1>16, <3>1
    <3>4. a[b[m]].ptr <= a[b[n]].ptr /\ b[m] # b[n]
      BY <1>14, <3>1, <3>3
    <3> QED
      BY <3>1, <3>2, <3>4
  <2>4. \A i, j \in 1 .. Len(q) : q[i] = q[j] => i = j
    <3>1. \A i, j \in 1 .. Len(q) : i < j \/ j < i \/ i = j
      BY <1>16
    <3> QED
      BY <2>3, <3>1
  <2>5. \A i \in 1 .. Len(q) : g.nodes[q[i]].root = q[i]
    BY <1>9, <1>14, <1>17, <2>1
  <2> QED
    BY <1>7, <1>9, <2>2, <2>3, <2>4, <2>5 DEF RootsGood
<1>21. TreesGood(g)
  <2>1. ASSUME NEW n \in D PROVE InTree(g, n)
    <3>1. n \in DOMAIN a /\ InTree(f, n) /\ a[n].root \notin R
      BY <1>2, <1>4 DEF Good, TreesGood
    <3>2. PICK j \in 1 .. Len(b) : b[j] = a[n].root
      BY <1>2, <3>1 DEF InTree
    <3>3. j \notin from .. to
      BY <1>3, <3>1, <3>2
    <3>4. a[n].root \in D /\ \E i \in 1 .. Len(q) : q[i] = a[n].root
      BY <1>19, <3>2, <3>3
    <3>5. g.nodes[n] = a[n] /\ g.nodes[a[n].root] = a[a[n].root]
      BY <1>9, <3>4
    <3>6. n # a[n].root => a[n].parent \in D /\ a[a[n].parent].root = a[n].root
      BY <1>2, <1>4, <3>1 DEF InTree
    <3>7. n # a[n].root => g.nodes[a[n].parent] = a[a[n].parent]
      BY <1>9, <3>6
    <3> QED
      BY <1>2, <1>7, <1>9, <3>1, <3>4, <3>5, <3>6, <3>7 DEF InTree
  <2> QED
    BY <1>9, <2>1 DEF TreesGood
<1>22. Unique(g)
  BY <1>2, <1>9 DEF Good, Unique
<1> QED
  BY <1>2, <1>7, <1>8, <1>9, <1>10, <1>11, <1>12, <1>13, <1>20, <1>21, <1>22 DEF Good

-----------------------------------------------------------------------------
(* The actions *)

\* The parts of the forest are the variables.
LEMMA ForestParts ==
  /\ Forest.nodes = nodes /\ Forest.roots = roots
  /\ Forest.created = created /\ Forest.call_path = call_path
  BY DEF Forest

\* A step that gives the forest the parts of g makes it g.
LEMMA Becomes ==
  ASSUME NEW g, Good(g), BecomeForest(g)
  PROVE  Good(Forest)'
<1>1. g = [nodes |-> g.nodes, roots |-> g.roots, created |-> g.created, call_path |-> g.call_path]
  BY DEF Good, ForestRec
<1>2. Forest' = g
  BY <1>1 DEF BecomeForest, Forest
<1> QED
  BY <1>2

\* A step gives a new node a new id, and keeps the address of an old one.
IdsKept ==
  /\ created <= created'
  /\ \A n \in DOMAIN nodes' :
       n > created \/ (n \in DOMAIN nodes /\ nodes'[n].ptr = nodes[n].ptr)

\* A step keeps the states that tell of accesses.
NotesKept ==
  \A n \in DOMAIN call_path : Noted(call_path[n]) =>
    n \in DOMAIN call_path' /\ Noted(call_path'[n])

\* Nodes are numbered up to the counter.
LEMMA Counted == ASSUME ForestInv PROVE created \in Nat /\ DOMAIN nodes \subseteq 1 .. created
  BY ForestParts DEF ForestInv, Good, NodesTyped

\* Nodes are numbered up to the counter: next state.
LEMMA CountedNext == ASSUME ForestInv' PROVE created' \in Nat /\ DOMAIN nodes' \subseteq 1 .. created'
<1>1. PICK g : g = Forest'
  OBVIOUS
<1>2. g.created = created' /\ g.nodes = nodes'
  BY <1>1 DEF Forest
<1>3. Good(g)
  BY <1>1 DEF ForestInv
<1> QED
  BY <1>2, <1>3 DEF Good, NodesTyped

\* The inputs of the operators stay right when nodes stay.
LEMMA InputsKept ==
  ASSUME ForestInv, ForestInv', InputsInv, IdsKept, inputs' = inputs
  PROVE  InputsInv'
<1>0. created \in Nat /\ created' \in Nat /\ created <= created'
  BY Counted, CountedNext DEF IdsKept
<1>1. ASSUME NEW i \in DOMAIN inputs, inputs[i].id # Null
      PROVE  /\ inputs[i].id \in 1 .. created' /\ inputs[i].ptr \in Ptrs
             /\ inputs[i].id \in DOMAIN nodes' => nodes'[inputs[i].id].ptr = inputs[i].ptr
  <2>1. /\ inputs[i].id \in 1 .. created /\ inputs[i].ptr \in Ptrs
        /\ inputs[i].id \in DOMAIN nodes => nodes[inputs[i].id].ptr = inputs[i].ptr
    BY <1>1 DEF InputsInv, Live
  <2>2. inputs[i].id \in 1 .. created' /\ ~ (inputs[i].id > created)
    BY <1>0, <2>1
  <2> QED
    BY <2>1, <2>2 DEF IdsKept
<1> QED
  BY <1>1 DEF InputsInv, Live

\* A part of the snapshot stays right when nodes stay.
LEMMA SnapshotShrinks ==
  ASSUME ForestInv, ForestInv', SnapshotInv, IdsKept, DOMAIN snapshot' \subseteq DOMAIN snapshot,
         \A p \in DOMAIN snapshot' : snapshot'[p] = snapshot[p]
  PROVE  SnapshotInv'
<1>0. created \in Nat /\ created' \in Nat /\ created <= created'
  BY Counted, CountedNext DEF IdsKept
<1>1. ASSUME NEW p \in DOMAIN snapshot'
      PROVE  /\ snapshot[p] \in 1 .. created'
             /\ snapshot[p] \in DOMAIN nodes' => nodes'[snapshot[p]].ptr = p
  <2>1. /\ snapshot[p] \in 1 .. created
        /\ snapshot[p] \in DOMAIN nodes => nodes[snapshot[p]].ptr = p
    BY DEF SnapshotInv, Live
  <2>2. snapshot[p] \in 1 .. created' /\ ~ (snapshot[p] > created)
    BY <1>0, <2>1
  <2> QED
    BY <2>1, <2>2 DEF IdsKept
<1> QED
  BY <1>1 DEF SnapshotInv, Live

\* Accesses stay recorded when nodes and their call paths stay.
LEMMA AccessKept ==
  ASSUME ForestInv, ForestInv', AccessInv, IdsKept, NotesKept, accessed' = accessed,
         flushed' \/ flushed' = flushed
  PROVE  AccessInv'
<1>0. created \in Nat /\ created' \in Nat /\ created <= created'
  BY Counted, CountedNext DEF IdsKept
<1>1. accessed' \subseteq 1 .. created'
  BY <1>0 DEF AccessInv
<1>2. ASSUME ~ flushed', NEW n \in accessed'
      PROVE  n \in DOMAIN call_path' /\ Noted(call_path'[n])
  BY <1>2 DEF AccessInv, NotesKept
<1> QED
  BY <1>1, <1>2 DEF AccessInv

\* A step that leaves the forest alone.
LEMMA ForestSame ==
  ASSUME ForestInv, UNCHANGED forest
  PROVE  ForestInv' /\ IdsKept /\ NotesKept
<1>1. nodes' = nodes /\ roots' = roots /\ created' = created /\ call_path' = call_path
  BY DEF forest
<1>2. Forest' = Forest
  BY <1>1 DEF Forest
<1>3. ForestInv'
  BY <1>1, <1>2 DEF ForestInv
<1> QED
  BY <1>1, <1>3, Counted DEF IdsKept, NotesKept

\* The invariant holds at the start.
LEMMA InitInv == Init => IInv
<1> SUFFICES ASSUME Init PROVE IInv
  OBVIOUS
<1> USE DEF Init
<1>1. ForestInv
  <2>1. PICK f : f = Forest
    OBVIOUS
  <2>2. f.nodes = << >> /\ f.roots = << >> /\ f.created = 0 /\ f.call_path = << >>
    BY <2>1, ForestParts
  <2>3. ForestRec(f)
    BY <2>1 DEF ForestRec, Forest
  <2>4. DOMAIN f.nodes = {} /\ DOMAIN f.call_path = {} /\ Len(f.roots) = 0 /\ 1 .. 0 = {}
    BY <2>2
  <2>5. NodesTyped(f) /\ TreesGood(f) /\ Unique(f)
    BY <2>2, <2>4 DEF NodesTyped, TreesGood, Unique
  <2>6. StatesTyped(f)
    BY <2>2, <2>4 DEF StatesTyped
  <2>7. RootsGood(f)
    BY <2>2, <2>4 DEF RootsGood
  <2> QED
    BY <2>1, <2>3, <2>5, <2>6, <2>7, ViewAssumption DEF ForestInv, Good
<1>2. MemoryInv
  <2>1. PICK f : f = [S \in SUBSET {} |-> 0]
    OBVIOUS
  <2>2. f \in [SUBSET {} -> Nat] /\ f[{}] = 0 /\ \A S \in SUBSET {} : \A b \in S : FALSE
    BY <2>1
  <2> QED
    BY <2>2 DEF MemoryInv
<1>3. OperatorsInv
  BY DEF OperatorsInv
<1>4. InputsInv
  <2>1. DOMAIN inputs = 1 .. 0 /\ 1 .. 0 = {}
    OBVIOUS
  <2> QED
    BY <2>1 DEF InputsInv
<1>5. SnapshotInv
  <2>1. DOMAIN snapshot = {}
    OBVIOUS
  <2> QED
    BY <2>1 DEF SnapshotInv
<1>6. LaunchesInv
  <2>1. NoLaunch \in Launches
    BY ViewAssumption DEF NoLaunch, Launches
  <2> QED
    BY <2>1 DEF LaunchesInv
<1>7. AccessInv
  BY DEF AccessInv
<1> QED
  BY <1>1, <1>2, <1>3, <1>4, <1>5, <1>6, <1>7 DEF IInv

\* A step that leaves the forest, the snapshot and the pointers alone.
LEMMA Untouched ==
  ASSUME IInv, UNCHANGED <<forest, inputs, snapshot, accessed, flushed>>
  PROVE  ForestInv' /\ InputsInv' /\ SnapshotInv' /\ AccessInv'
<1>1. ForestInv' /\ IdsKept /\ NotesKept
  BY ForestSame DEF IInv
<1>2. InputsInv'
  BY <1>1, InputsKept DEF IInv
<1>3. SnapshotInv'
  BY <1>1, SnapshotShrinks DEF IInv
<1>4. AccessInv'
  BY <1>1, AccessKept DEF IInv
<1> QED
  BY <1>1, <1>2, <1>3, <1>4

\* A new memory block keeps the invariant.
LEMMA RegisterKeeps ==
  ASSUME IInv, NEW t \in Threads, NEW b \in Blocks, register_memory_block(t, b)
  PROVE  IInv'
<1>1. ForestInv' /\ InputsInv' /\ SnapshotInv' /\ AccessInv'
  BY Untouched DEF register_memory_block
<1>2. OperatorsInv' /\ LaunchesInv'
  BY DEF IInv, OperatorsInv, LaunchesInv, register_memory_block
<1>3. MemoryInv'
  <2>1. PICK f \in [SUBSET blocks -> Nat] :
          /\ f[blocks] = total_allocated
          /\ \A S \in SUBSET blocks : \A c \in S : f[S] = f[S \ {c}] + c.size
    BY DEF IInv, MemoryInv
  <2>2. b.ptr \in Nat /\ b.size \in Nat /\ b.size > 0 /\ blocks \subseteq Blocks
    BY ViewAssumption DEF IInv, MemoryInv
  <2>3. b \notin blocks
    <3>1. Overlap(b, b)
      BY <2>2 DEF Overlap
    <3> QED
      BY <3>1 DEF register_memory_block
  <2>4. blocks' = blocks \cup {b} /\ total_allocated' = total_allocated + b.size
    BY DEF register_memory_block
  <2>5. PICK B : B = blocks \cup {b}
    OBVIOUS
  <2>6. PICK g : g = [S \in SUBSET B |-> IF b \in S THEN f[S \ {b}] + b.size ELSE f[S]]
    OBVIOUS
  <2>7. ASSUME NEW S \in SUBSET B
        PROVE  /\ S \ {b} \in SUBSET blocks
               /\ b \notin S => S \in SUBSET blocks /\ g[S] = f[S]
               /\ b \in S => g[S] = f[S \ {b}] + b.size
               /\ g[S] \in Nat
    <3>1. S \ {b} \in SUBSET blocks /\ (b \notin S => S \in SUBSET blocks)
      BY <2>5
    <3>2. CASE b \in S
      BY <2>1, <2>2, <2>6, <3>1, <3>2
    <3>3. CASE b \notin S
      BY <2>1, <2>6, <3>1, <3>3
    <3> QED
      BY <3>1, <3>2, <3>3
  <2>8. g \in [SUBSET B -> Nat]
    BY <2>6, <2>7
  <2>9. g[B] = total_allocated + b.size
    <3>1. b \in B /\ B \in SUBSET B /\ B \ {b} = blocks
      BY <2>3, <2>5
    <3> QED
      BY <2>1, <2>7, <3>1
  <2>10. ASSUME NEW S \in SUBSET B, NEW c \in S PROVE g[S] = g[S \ {c}] + c.size
    <3>0. S \ {c} \in SUBSET B
      OBVIOUS
    <3>1. CASE c = b
      <4>1. b \in S /\ b \notin S \ {c} /\ S \ {c} = S \ {b}
        BY <3>1
      <4>2. g[S] = f[S \ {b}] + b.size /\ g[S \ {c}] = f[S \ {c}]
        BY <2>7, <3>0, <4>1
      <4> QED
        BY <3>1, <4>1, <4>2
    <3>2. CASE c # b /\ b \notin S
      <4>1. S \in SUBSET blocks /\ g[S] = f[S] /\ b \notin S \ {c} /\ g[S \ {c}] = f[S \ {c}]
        BY <2>7, <3>0, <3>2
      <4> QED
        BY <2>1, <4>1
    <3>3. CASE c # b /\ b \in S
      <4>1. b \in S \ {c} /\ c \in S \ {b} /\ (S \ {c}) \ {b} = (S \ {b}) \ {c}
        BY <3>3
      <4>2. S \ {b} \in SUBSET blocks /\ (S \ {b}) \ {c} \in SUBSET blocks
        BY <2>7
      <4>3. f[S \ {b}] = f[(S \ {b}) \ {c}] + c.size
        BY <2>1, <4>1, <4>2
      <4>4. g[S] = f[S \ {b}] + b.size /\ g[S \ {c}] = f[(S \ {b}) \ {c}] + b.size
        BY <2>7, <3>0, <3>3, <4>1
      <4>5. f[(S \ {b}) \ {c}] \in Nat
        BY <2>1, <4>2
      <4>6. c.size \in Nat
        BY <2>2, <4>1, <4>2, ViewAssumption
      <4> QED
        BY <2>2, <4>3, <4>4, <4>5, <4>6
    <3> QED
      BY <3>1, <3>2, <3>3
  <2>11. blocks' = B /\ B \subseteq Blocks
    BY <2>2, <2>4, <2>5
  <2>12. \E h \in [SUBSET B -> Nat] :
           /\ h[B] = total_allocated'
           /\ \A S \in SUBSET B : \A c \in S : h[S] = h[S \ {c}] + c.size
    <3>1. g[B] = total_allocated'
      BY <2>4, <2>9
    <3> QED
      BY <2>8, <2>10, <3>1
  <2> QED
    BY <2>11, <2>12, Zenon DEF MemoryInv
<1> QED
  BY <1>1, <1>2, <1>3 DEF IInv

\* The roots that a release deletes stand in a row and lie in the released range.
LEMMA DeletedPlaces ==
  ASSUME ForestInv, NEW ptr \in Nat, NEW total \in Nat,
         NEW K, K = Deleted(ptr, total), NEW k, k = Below(Forest, ptr)
  PROVE  /\ k \in Nat /\ Cardinality(K) \in Nat
         /\ k + 1 \in 1 .. Len(roots) + 1
         /\ k + Cardinality(K) \in (k + 1) - 1 .. Len(roots)
         /\ K = k + 1 .. k + Cardinality(K)
         /\ \A i \in K : /\ i \in 1 .. Len(roots)
                         /\ ptr <= nodes[roots[i]].ptr /\ nodes[roots[i]].hi <= ptr + total
<1>1. PICK f : f = Forest
  OBVIOUS
<1>2. Good(f) /\ f.nodes = nodes /\ f.roots = roots
  BY <1>1, ForestParts DEF ForestInv
<1>3. /\ k \in 0 .. Len(roots) /\ Len(roots) \in Nat /\ k \in Nat
      /\ \A j \in 1 .. Len(roots) : j <= k <=> nodes[roots[j]].ptr < ptr
  <2>1. k = Below(f, ptr)
    BY <1>1
  <2>2. /\ Below(f, ptr) \in 0 .. Len(f.roots) /\ Len(f.roots) \in Nat
        /\ \A j \in 1 .. Len(f.roots) : j <= Below(f, ptr) <=> f.nodes[f.roots[j]].ptr < ptr
    BY <1>2, BelowPlaces
  <2>3. k \in 0 .. Len(f.roots) /\ Len(f.roots) \in Nat /\ k \in Nat
    BY <2>1, <2>2
  <2> QED
    BY <1>2, <2>1, <2>2, <2>3
<1>4. K = {i \in k + 1 .. Len(roots) : \A j \in k + 1 .. i : nodes[roots[j]].hi <= ptr + total}
  BY DEF Deleted
<1>5. ASSUME NEW i \in K, NEW j \in k + 1 .. i PROVE j \in K
  <2>1. /\ i \in k + 1 .. Len(roots) /\ j \in k + 1 .. Len(roots)
        /\ k + 1 .. j \subseteq k + 1 .. i
    BY <1>3, <1>4
  <2> QED
    BY <1>4, <2>1
<1>6. /\ Cardinality(K) \in Nat /\ K = k + 1 .. k + Cardinality(K)
      /\ k + Cardinality(K) <= Len(roots)
  <2>1. K \in SUBSET (k + 1 .. Len(roots)) /\ k <= Len(roots)
    BY <1>3, <1>4
  <2>2. PICK n \in Nat : n = Len(roots)
    BY <1>3
  <2>3. K \in SUBSET (k + 1 .. n) /\ k <= n
    BY <2>1, <2>2
  <2>4. /\ Cardinality(K) \in Nat /\ K = k + 1 .. k + Cardinality(K)
        /\ k <= n => k + Cardinality(K) <= n
    BY <1>3, <1>5, <2>3, Run
  <2> QED
    BY <2>2, <2>3, <2>4
<1>7. ASSUME NEW i \in K
      PROVE  /\ i \in 1 .. Len(roots)
             /\ ptr <= nodes[roots[i]].ptr /\ nodes[roots[i]].hi <= ptr + total
  <2>1. i \in 1 .. Len(roots) /\ i \in k + 1 .. i /\ ~ (i <= k)
    BY <1>3, <1>4
  <2>2. nodes[roots[i]].hi <= ptr + total
    BY <1>4, <2>1
  <2>3. ~ (nodes[roots[i]].ptr < ptr)
    BY <1>3, <2>1
  <2>4. nodes[roots[i]].ptr \in Nat
    <3>1. roots[i] \in DOMAIN nodes
      BY <1>2, <2>1 DEF Good, RootsGood
    <3> QED
      BY <1>2, <3>1, PtrsNat DEF Good, NodesTyped
  <2> QED
    BY <2>1, <2>2, <2>3, <2>4
<1> QED
  BY <1>3, <1>6, <1>7

\* The sum of the sizes of the other blocks.
LEMMA BlockLeaves ==
  ASSUME MemoryInv, NEW b \in blocks
  PROVE  /\ total_allocated - b.size \in Nat /\ b.ptr \in Nat
         /\ \E f \in [SUBSET (blocks \ {b}) -> Nat] :
              /\ f[blocks \ {b}] = total_allocated - b.size
              /\ \A S \in SUBSET (blocks \ {b}) : \A c \in S : f[S] = f[S \ {c}] + c.size
<1>1. PICK f \in [SUBSET blocks -> Nat] :
        /\ f[blocks] = total_allocated
        /\ \A S \in SUBSET blocks : \A c \in S : f[S] = f[S \ {c}] + c.size
  BY DEF MemoryInv
<1>2. b.size \in Nat /\ b.ptr \in Nat
  BY ViewAssumption DEF MemoryInv
<1>3. PICK B : B = blocks \ {b}
  OBVIOUS
<1>4. B \in SUBSET blocks /\ SUBSET B \subseteq SUBSET blocks
  BY <1>3
<1>5. f[blocks] = f[B] + b.size /\ f[B] \in Nat
  BY <1>1, <1>3, <1>4
<1>6. total_allocated - b.size = f[B]
  BY <1>1, <1>2, <1>5
<1>7. PICK g : g = [S \in SUBSET B |-> f[S]]
  OBVIOUS
<1>8. g \in [SUBSET B -> Nat] /\ \A S \in SUBSET B : g[S] = f[S]
  BY <1>1, <1>4, <1>7
<1>9. \A S \in SUBSET B : \A c \in S : g[S] = g[S \ {c}] + c.size
  <2>1. ASSUME NEW S \in SUBSET B, NEW c \in S PROVE g[S] = g[S \ {c}] + c.size
    <3>1. S \in SUBSET blocks /\ S \ {c} \in SUBSET B
      BY <1>4
    <3>2. f[S] = f[S \ {c}] + c.size
      BY <1>1, <3>1
    <3> QED
      BY <1>8, <3>1, <3>2
  <2> QED
    BY <2>1
<1>10. g[B] = total_allocated - b.size
  BY <1>6, <1>8
<1> QED
  BY <1>2, <1>3, <1>5, <1>6, <1>8, <1>9, <1>10

\* A release drops the entries of the snapshot for the nodes it deletes.
LEMMA DeleteKeeps ==
  ASSUME IInv, NEW t \in Threads, NEW b \in Blocks, delete_forest_tree(t, b)
  PROVE  /\ IInv'
         /\ \A p \in DOMAIN snapshot' :
              snapshot'[p] \in DOMAIN nodes => snapshot'[p] \in DOMAIN nodes'
<1>0. b \in blocks
  BY DEF delete_forest_tree
<1>1. PICK total \in Nat : total = total_allocated - b.size
  BY <1>0, BlockLeaves DEF IInv
<1>2. b.ptr \in Nat
  BY ViewAssumption
<1>3. PICK K : K = Deleted(b.ptr, total)
  OBVIOUS
<1>4. PICK k : k = Below(Forest, b.ptr)
  OBVIOUS
<1>5. /\ k \in Nat /\ Cardinality(K) \in Nat
      /\ k + 1 \in 1 .. Len(roots) + 1
      /\ k + Cardinality(K) \in (k + 1) - 1 .. Len(roots)
      /\ K = k + 1 .. k + Cardinality(K)
      /\ \A i \in K : /\ i \in 1 .. Len(roots)
                      /\ b.ptr <= nodes[roots[i]].ptr /\ nodes[roots[i]].hi <= b.ptr + total
  <2>1. ForestInv
    BY DEF IInv
  <2>2. PICK ptr \in Nat : ptr = b.ptr
    BY <1>2
  <2>3. K = Deleted(ptr, total) /\ k = Below(Forest, ptr)
    BY <1>3, <1>4, <2>2
  <2>4. /\ k \in Nat /\ Cardinality(K) \in Nat
        /\ k + 1 \in 1 .. Len(roots) + 1
        /\ k + Cardinality(K) \in (k + 1) - 1 .. Len(roots)
        /\ K = k + 1 .. k + Cardinality(K)
        /\ \A i \in K : /\ i \in 1 .. Len(roots)
                        /\ ptr <= nodes[roots[i]].ptr /\ nodes[roots[i]].hi <= ptr + total
    BY <2>1, <2>3, DeletedPlaces
  <2> QED
    BY <2>2, <2>4, Zenon
<1>6. PICK quiet : quiet = Silent({roots[i] : i \in K})
  OBVIOUS
<1>7. PICK g : g = WithoutTrees(Forest, k + 1, k + Cardinality(K), quiet)
  OBVIOUS
<1>8. /\ snapshot' = SnapshotAfter(b.ptr, total)
      /\ BecomeForest(g)
      /\ blocks' = blocks \ {b}
      /\ total_allocated' = total
      /\ UNCHANGED <<inside, op_stack, inputs, launch, dict, accessed, flushed>>
  BY <1>1, <1>3, <1>4, <1>6, <1>7 DEF delete_forest_tree
<1>9. PICK f : f = Forest
  OBVIOUS
<1>10. /\ Good(f) /\ f.nodes = nodes /\ f.roots = roots /\ f.created = created
       /\ f.call_path = call_path
  BY <1>9, ForestParts DEF IInv, ForestInv
<1>11. /\ Good(g) /\ g.created = f.created
       /\ DOMAIN g.nodes \subseteq DOMAIN f.nodes
       /\ \A n \in DOMAIN g.nodes : g.nodes[n] = f.nodes[n]
       /\ \A n \in DOMAIN f.nodes :
            n \in DOMAIN g.nodes \/ \E i \in k + 1 .. k + Cardinality(K) : f.nodes[n].root = f.roots[i]
       /\ DOMAIN g.call_path = DOMAIN f.call_path \ quiet
       /\ \A n \in DOMAIN g.call_path : g.call_path[n] = f.call_path[n]
  <2>1. PICK from, to : from = k + 1 /\ to = k + Cardinality(K)
    OBVIOUS
  <2>2. from \in 1 .. Len(f.roots) + 1 /\ to \in from - 1 .. Len(f.roots)
    BY <1>5, <1>10, <2>1
  <2>3. g = WithoutTrees(f, from, to, quiet)
    BY <1>7, <1>9, <2>1
  <2>4. /\ Good(g) /\ g.created = f.created
        /\ DOMAIN g.nodes \subseteq DOMAIN f.nodes
        /\ \A n \in DOMAIN g.nodes : g.nodes[n] = f.nodes[n]
        /\ \A n \in DOMAIN f.nodes :
             n \in DOMAIN g.nodes \/ \E i \in from .. to : f.nodes[n].root = f.roots[i]
        /\ DOMAIN g.call_path = DOMAIN f.call_path \ quiet
        /\ \A n \in DOMAIN g.call_path : g.call_path[n] = f.call_path[n]
    BY <1>10, <2>2, <2>3, WithoutGood
  <2> QED
    BY <2>1, <2>4
<1>12. nodes' = g.nodes /\ created' = created /\ call_path' = g.call_path
  BY <1>8, <1>10, <1>11 DEF BecomeForest
<1>13. ForestInv'
  <2>1. Good(Forest)'
    BY <1>8, <1>11, Becomes
  <2> QED
    BY <1>12, <2>1 DEF IInv, ForestInv
<1>14. IdsKept
  BY <1>10, <1>11, <1>12, Counted DEF IInv, IdsKept
<1>15. NotesKept
  <2>1. ASSUME NEW n \in DOMAIN call_path, Noted(call_path[n]) PROVE n \notin quiet
    <3>1. call_path[n] \in States
      BY <1>10 DEF Good, StatesTyped
    <3>2. ~ (call_path[n].states <= 1 /\ ~ call_path[n].first)
      BY <2>1, <3>1 DEF Noted, States
    <3> QED
      BY <1>6, <3>2 DEF Silent
  <2> QED
    BY <1>10, <1>11, <1>12, <2>1 DEF NotesKept
<1>16. InputsInv'
  BY <1>8, <1>13, <1>14, InputsKept DEF IInv
<1>17. /\ DOMAIN snapshot' \subseteq DOMAIN snapshot
       /\ \A p \in DOMAIN snapshot' :
            snapshot'[p] = snapshot[p] /\ ~ (b.ptr <= p /\ p <= b.ptr + total)
  BY <1>8 DEF SnapshotAfter, Restricted
<1>18. SnapshotInv'
  BY <1>13, <1>14, <1>17, SnapshotShrinks DEF IInv
<1>19. AccessInv'
  BY <1>8, <1>13, <1>14, <1>15, AccessKept DEF IInv
<1>20. OperatorsInv' /\ LaunchesInv'
  BY <1>8 DEF IInv, OperatorsInv, LaunchesInv
<1>21. MemoryInv'
  <2>1. PICK B : B = blocks \ {b}
    OBVIOUS
  <2>2. \E h \in [SUBSET B -> Nat] :
          /\ h[B] = total
          /\ \A S \in SUBSET B : \A c \in S : h[S] = h[S \ {c}] + c.size
    <3>1. MemoryInv
      BY DEF IInv
    <3>2. \E h \in [SUBSET (blocks \ {b}) -> Nat] :
            /\ h[blocks \ {b}] = total_allocated - b.size
            /\ \A S \in SUBSET (blocks \ {b}) : \A c \in S : h[S] = h[S \ {c}] + c.size
      BY <1>0, <3>1, BlockLeaves, Zenon
    <3> QED
      BY <1>1, <2>1, <3>2, Zenon
  <2>3. blocks' = B /\ B \subseteq Blocks /\ total_allocated' = total
    BY <1>8, <2>1 DEF IInv, MemoryInv
  <2> QED
    BY <2>2, <2>3, Zenon DEF MemoryInv
<1>22. ASSUME NEW p \in DOMAIN snapshot', snapshot'[p] \in DOMAIN nodes,
              snapshot'[p] \notin DOMAIN nodes'
       PROVE  FALSE
  <2>1. PICK n : n = snapshot[p] /\ n = snapshot'[p]
    BY <1>17
  <2>2. n \in DOMAIN nodes /\ nodes[n].ptr = p
    BY <1>17, <1>22, <2>1 DEF IInv, SnapshotInv, Live
  <2>3. PICK i \in K : nodes[n].root = roots[i]
    BY <1>5, <1>10, <1>11, <1>12, <1>22, <2>1, <2>2
  <2>4. InTree(f, n)
    BY <1>10, <2>2 DEF Good, TreesGood
  <2>5. nodes[roots[i]].ptr <= p /\ p <= nodes[roots[i]].hi
    <3>1. /\ f.nodes[n].lo = f.nodes[f.nodes[n].root].ptr
          /\ f.nodes[n].hi = f.nodes[f.nodes[n].root].hi
          /\ f.nodes[n].lo <= f.nodes[n].ptr /\ f.nodes[n].ptr <= f.nodes[n].hi
      BY <2>4 DEF InTree
    <3>2. f.nodes = nodes /\ nodes[n].ptr = p /\ nodes[n].root = roots[i]
      BY <1>10, <2>2, <2>3
    <3> QED
      BY <3>1, <3>2, Zenon
  <2>6. roots[i] \in DOMAIN nodes
    BY <1>10, <2>2, <2>3, <2>4 DEF InTree
  <2>7. nodes[roots[i]].ptr \in Nat /\ nodes[roots[i]].hi \in Nat /\ p \in Nat
    <3>2. \A j \in DOMAIN nodes : nodes[j].ptr \in Nat /\ nodes[j].hi \in Nat
      BY <1>10, PtrsNat DEF Good, NodesTyped
    <3> QED
      BY <2>2, <2>6, <3>2
  <2>8. b.ptr <= nodes[roots[i]].ptr /\ nodes[roots[i]].hi <= b.ptr + total
    BY <1>5
  <2>9. b.ptr <= p /\ p <= b.ptr + total
    BY <1>2, <2>5, <2>7, <2>8
  <2> QED
    BY <1>17, <2>9
<1> QED
  BY <1>13, <1>16, <1>18, <1>19, <1>20, <1>21, <1>22 DEF IInv

\* The arguments of an operator are a sequence of tensors.
LEMMA ArgsOf == ASSUME NEW args \in ArgLists PROVE args \in Seq(Args)
  BY ViewAssumption

\* The forest after an operator was entered or left, and the nodes that were seen.
LEMMA ForestGrows ==
  ASSUME IInv, NEW xs \in Seq(Args), NEW args \in Seq(Args), NEW u,
         u = UpdateAll(Forest, xs, args), BecomeForest(u.forest), u.forest.created <= MaxNodes
  PROVE  /\ ForestInv' /\ IdsKept /\ NotesKept /\ SeenTo(Forest, u, Len(xs))
         /\ nodes' = u.forest.nodes /\ created' = u.forest.created
<1>1. PICK f : f = Forest
  OBVIOUS
<1>2. /\ Good(f) /\ f.nodes = nodes /\ f.created = created /\ f.call_path = call_path
  BY <1>1, ForestParts DEF IInv, ForestInv
<1>3. SeenTo(f, u, Len(xs))
  BY <1>1, <1>2, UpdateAllGood
<1>4. PICK g : g = u.forest
  OBVIOUS
<1>5. Good(g) /\ Grown(f, g) /\ BecomeForest(g) /\ g.created <= MaxNodes
  BY <1>3, <1>4 DEF SeenTo
<1>6. nodes' = g.nodes /\ created' = g.created /\ call_path' = g.call_path
  BY <1>5 DEF BecomeForest
<1>7. ForestInv'
  BY <1>5, <1>6, Becomes DEF ForestInv
<1>8. IdsKept
  BY <1>2, <1>5, <1>6 DEF IdsKept, Grown
<1>9. NotesKept
  BY <1>2, <1>5, <1>6 DEF NotesKept, Grown
<1> QED
  BY <1>1, <1>3, <1>4, <1>6, <1>7, <1>8, <1>9

\* The entry of an operator keeps the invariant and empties the snapshot.
LEMMA EnterKeeps ==
  ASSUME IInv, NEW t \in Threads, NEW args \in ArgLists, enter(t, args)
  PROVE  IInv' /\ DOMAIN snapshot' = {}
<1>0. args \in Seq(Args)
  BY ArgsOf
<1>1. PICK u : u = UpdateAll(Forest, args, args)
  OBVIOUS
<1>2. /\ u.forest.created <= MaxNodes
      /\ BecomeForest(u.forest)
      /\ inputs' = [i \in DOMAIN args |-> Pointee(u.forest, u.found[i])]
      /\ snapshot' = << >>
      /\ op_stack' = Append(op_stack, args)
      /\ inside' = [inside EXCEPT ![t] = Append(inside[t], args)]
      /\ UNCHANGED <<blocks, total_allocated, launch, dict, accessed, flushed>>
  BY <1>1 DEF enter, SnapshotOnEnter
<1>3. /\ ForestInv' /\ IdsKept /\ NotesKept /\ SeenTo(Forest, u, Len(args))
      /\ nodes' = u.forest.nodes /\ created' = u.forest.created
  BY <1>0, <1>1, <1>2, ForestGrows
<1>4. DOMAIN snapshot' = {}
  BY <1>2
<1>5. SnapshotInv'
  BY <1>4 DEF SnapshotInv
<1>6. AccessInv'
  BY <1>2, <1>3, AccessKept DEF IInv
<1>7. MemoryInv' /\ LaunchesInv'
  BY <1>2 DEF IInv, MemoryInv, LaunchesInv
<1>8. OperatorsInv'
  BY <1>0, <1>2 DEF IInv, OperatorsInv
<1>9. InputsInv'
  <2>1. DOMAIN inputs' = 1 .. Len(args) /\ Len(args) \in Nat
    BY <1>0, <1>2
  <2>2. ASSUME NEW i \in 1 .. Len(args), inputs'[i].id # Null
        PROVE  /\ inputs'[i].id \in DOMAIN nodes'
               /\ inputs'[i].ptr = nodes'[inputs'[i].id].ptr
    <3>1. PICK n : n = u.found[i]
      OBVIOUS
    <3>2. n = Null \/ n \in DOMAIN nodes'
      BY <1>3, <3>1 DEF SeenTo
    <3>3. inputs'[i] = Pointee(u.forest, n)
      BY <1>0, <1>2, <3>1
    <3>4. CASE n = Null
      BY <2>2, <3>3, <3>4 DEF Pointee
    <3>5. CASE n # Null
      <4>1. inputs'[i] = [id |-> n, ptr |-> nodes'[n].ptr, dim |-> u.forest.nodes[n].dim]
        BY <1>3, <3>3, <3>5 DEF Pointee
      <4>2. inputs'[i].id = n /\ inputs'[i].ptr = nodes'[n].ptr
        BY <4>1
      <4> QED
        BY <3>2, <3>5, <4>2
    <3> QED
      BY <3>4, <3>5
  <2>3. \A n \in DOMAIN nodes' : n \in 1 .. created' /\ nodes'[n].ptr \in Ptrs
    <3>1. Good(u.forest)
      BY <1>3 DEF SeenTo
    <3> QED
      BY <1>3, <3>1 DEF Good, NodesTyped
  <2>4. \A i \in DOMAIN inputs' : inputs'[i].id # Null =>
          /\ inputs'[i].id \in 1 .. created' /\ inputs'[i].ptr \in Ptrs
          /\ inputs'[i].id \in DOMAIN nodes' => nodes'[inputs'[i].id].ptr = inputs'[i].ptr
    BY <2>1, <2>2, <2>3
  <2>5. \A i, j \in DOMAIN inputs' :
          inputs'[i].id # Null /\ inputs'[i].id = inputs'[j].id => inputs'[i].ptr = inputs'[j].ptr
    BY <2>1, <2>2
  <2> QED
    BY <2>1, <2>4, <2>5 DEF InputsInv, Live
<1> QED
  BY <1>3, <1>4, <1>5, <1>6, <1>7, <1>8, <1>9 DEF IInv

\* The exit of an operator keeps the invariant and empties the snapshot.
LEMMA ExitKeeps ==
  ASSUME IInv, NEW t \in Threads, NEW outs \in ArgLists, exit(t, outs)
  PROVE  IInv' /\ DOMAIN snapshot' = {}
<1>0. outs \in Seq(Args)
  BY ArgsOf
<1>1. op_stack \in Seq(Seq(Args)) /\ op_stack # << >> /\ inside[t] # << >>
  BY DEF IInv, OperatorsInv, exit
<1>2. PICK args \in Seq(Args) : args = Last(op_stack)
  BY <1>1 DEF Last
<1>3. PICK u : u = UpdateAll(Forest, outs, args)
  OBVIOUS
<1>4. /\ u.forest.created <= MaxNodes
      /\ BecomeForest(u.forest)
      /\ snapshot' = << >>
      /\ op_stack' = Front(op_stack)
      /\ inside' = [inside EXCEPT ![t] = Front(inside[t])]
      /\ UNCHANGED <<inputs, blocks, total_allocated, launch, dict, accessed, flushed>>
  BY <1>2, <1>3 DEF exit
<1>5. ForestInv' /\ IdsKept /\ NotesKept
  BY <1>0, <1>2, <1>3, <1>4, ForestGrows
<1>6. DOMAIN snapshot' = {}
  BY <1>4
<1>7. SnapshotInv'
  BY <1>6 DEF SnapshotInv
<1>8. AccessInv'
  BY <1>4, <1>5, AccessKept DEF IInv
<1>9. InputsInv'
  BY <1>4, <1>5, InputsKept DEF IInv
<1>10. MemoryInv' /\ LaunchesInv'
  BY <1>4 DEF IInv, MemoryInv, LaunchesInv
<1>11. OperatorsInv'
  <2>1. ASSUME NEW s \in Seq(Seq(Args)), s # << >> PROVE Front(s) \in Seq(Seq(Args))
    BY <2>1 DEF Front
  <2>2. op_stack' \in Seq(Seq(Args))
    BY <1>1, <1>4, <2>1
  <2>3. inside \in [Threads -> Seq(Seq(Args))]
    BY DEF IInv, OperatorsInv
  <2>4. Front(inside[t]) \in Seq(Seq(Args))
    BY <1>1, <2>1, <2>3
  <2> QED
    BY <1>4, <2>2, <2>3, <2>4 DEF OperatorsInv
<1> QED
  BY <1>5, <1>6, <1>7, <1>8, <1>9, <1>10, <1>11 DEF IInv

\* A snapshot has no more entries than nodes were created.
LEMMA SnapshotSize ==
  ASSUME NEW s, NEW n \in Nat, \A p \in DOMAIN s : s[p] \in 1 .. n,
         \A p, q \in DOMAIN s : s[p] = s[q] => p = q
  PROVE  /\ IsFiniteSet(DOMAIN s) /\ Cardinality(DOMAIN s) \in Nat
         /\ Cardinality(DOMAIN s) <= n
<1>1. PICK D, T, f : D = DOMAIN s /\ T = 1 .. n /\ f = [p \in DOMAIN s |-> s[p]]
  OBVIOUS
<1>2. IsFiniteSet(T) /\ Cardinality(T) = n
  <2>1. 1 \in Int /\ n \in Int
    OBVIOUS
  <2>2. IsFiniteSet(1 .. n) /\ Cardinality(1 .. n) = IF 1 > n THEN 0 ELSE n - 1 + 1
    BY <2>1, FS_Interval
  <2> QED
    BY <1>1, <2>2
<1>3. f \in Injection(D, T)
  BY <1>1 DEF Injection, IsInjective
<1>4. IsFiniteSet(D) /\ Cardinality(D) <= Cardinality(T)
  BY <1>2, <1>3, FS_Injection
<1>5. Cardinality(D) \in Nat
  BY <1>4, FS_CardinalityType
<1> QED
  BY <1>1, <1>2, <1>4, <1>5

\* The entries of a snapshot that is built from the pointers.
LEMMA SnapshotOfGood ==
  ASSUME InputsInv, NEW I \in SUBSET DOMAIN inputs, \A i \in I : inputs[i].id # Null,
         NEW s, s = SnapshotOf(inputs, I)
  PROVE  /\ DOMAIN s \subseteq Ptrs
         /\ \A p \in DOMAIN s : /\ s[p] \in 1 .. created
                                /\ s[p] \in Live => nodes[s[p]].ptr = p
         /\ \A p, q \in DOMAIN s : s[p] = s[q] => p = q
<1> DEFINE Latest(p) == CHOOSE i \in I : inputs[i].ptr = p /\ \A j \in I : inputs[j].ptr = p => j <= i
<1>1. s = [p \in {inputs[i].ptr : i \in I} |-> inputs[Latest(p)].id]
  BY DEF SnapshotOf
<1>2. ASSUME NEW p \in DOMAIN s PROVE \E i \in I : inputs[i].ptr = p /\ s[p] = inputs[i].id
  <2>1. p \in {inputs[i].ptr : i \in I} /\ s[p] = inputs[Latest(p)].id
    BY <1>1
  <2>2. PICK J : J = {i \in I : inputs[i].ptr = p}
    OBVIOUS
  <2>3. PICK n \in Nat : DOMAIN inputs = 1 .. n
    BY DEF InputsInv
  <2>4. J \in SUBSET Nat /\ J # {} /\ \A j \in J : j <= n
    BY <2>1, <2>2, <2>3
  <2>5. PICK i \in J : \A j \in J : j <= i
    BY <2>4, GreatestOf
  <2>6. \E k \in I : inputs[k].ptr = p /\ \A j \in I : inputs[j].ptr = p => j <= k
    BY <2>2, <2>5
  <2>7. Latest(p) \in I /\ inputs[Latest(p)].ptr = p
    BY <2>6, Zenon
  <2> QED
    BY <2>1, <2>7
<1>3. \A p \in DOMAIN s : p \in Ptrs /\ s[p] \in 1 .. created /\ (s[p] \in Live => nodes[s[p]].ptr = p)
  BY <1>2 DEF InputsInv
<1>4. ASSUME NEW p \in DOMAIN s, NEW q \in DOMAIN s, s[p] = s[q] PROVE p = q
  <2>1. PICK i \in I : inputs[i].ptr = p /\ s[p] = inputs[i].id
    BY <1>2
  <2>2. PICK j \in I : inputs[j].ptr = q /\ s[q] = inputs[j].id
    BY <1>2
  <2> QED
    BY <1>4, <2>1, <2>2 DEF InputsInv
<1> QED
  BY <1>3, <1>4

\* What the first call of a launch does to the snapshot.
LEMMA SizeKeeps ==
  ASSUME IInv, NEW t \in Threads, redshow_torchview_ongpu_get_range_size(t)
  PROVE  /\ IInv'
         /\ Cardinality(DOMAIN snapshot') \in Nat
         /\ launch' = [launch EXCEPT ![t] = [phase |-> "sized", ranges |-> {},
                                             size |-> Cardinality(DOMAIN snapshot')]]
<1>0. PICK gone \in SUBSET Dead :
        LET s == IF DOMAIN snapshot = {} THEN Rebuilt(gone) ELSE snapshot
        IN  /\ snapshot' = s
            /\ launch' = [launch EXCEPT ![t] = [phase |-> "sized", ranges |-> {},
                                                size |-> Cardinality(DOMAIN s)]]
            /\ UNCHANGED <<forest, outside, op_stack, inputs, dict, accessed, flushed>>
  BY DEF redshow_torchview_ongpu_get_range_size
<1>1. PICK s :
        /\ s = IF DOMAIN snapshot = {} THEN Rebuilt(gone) ELSE snapshot
        /\ snapshot' = s
        /\ launch' = [launch EXCEPT ![t] = [phase |-> "sized", ranges |-> {},
                                            size |-> Cardinality(DOMAIN s)]]
        /\ UNCHANGED <<forest, outside, op_stack, inputs, dict, accessed, flushed>>
  BY <1>0
<1>2. /\ DOMAIN s \subseteq Ptrs
      /\ \A p \in DOMAIN s : /\ s[p] \in 1 .. created
                             /\ s[p] \in Live => nodes[s[p]].ptr = p
      /\ \A p, q \in DOMAIN s : s[p] = s[q] => p = q
  <2>1. CASE DOMAIN snapshot = {}
    <3>1. PICK I : I = {i \in Followed \ gone : inputs[i].dim # 0}
      OBVIOUS
    <3>2. I \in SUBSET DOMAIN inputs /\ \A i \in I : inputs[i].id # Null
      BY <3>1 DEF Followed
    <3>3. s = SnapshotOf(inputs, I)
      BY <1>1, <2>1, <3>1 DEF Rebuilt
    <3> QED
      BY <3>2, <3>3, SnapshotOfGood DEF IInv
  <2>2. CASE DOMAIN snapshot # {}
    BY <1>1, <2>2 DEF IInv, SnapshotInv
  <2> QED
    BY <2>1, <2>2
<1>3. nodes' = nodes /\ created' = created /\ created \in Nat /\ created <= MaxNodes
  BY <1>1, Counted DEF forest, IInv, ForestInv
<1>4. SnapshotInv'
  BY <1>1, <1>2, <1>3 DEF SnapshotInv, Live
<1>5. Cardinality(DOMAIN s) \in Nat /\ Cardinality(DOMAIN s) <= created
  BY <1>2, <1>3, SnapshotSize
<1>6. ForestInv' /\ IdsKept /\ NotesKept
  BY <1>1, ForestSame DEF IInv
<1>7. InputsInv'
  BY <1>1, <1>6, InputsKept DEF IInv
<1>8. AccessInv'
  BY <1>1, <1>6, AccessKept DEF IInv
<1>9. MemoryInv' /\ OperatorsInv'
  BY <1>1 DEF IInv, MemoryInv, OperatorsInv, outside
<1>10. LaunchesInv'
  <2>1. Cardinality(DOMAIN s) \in 0 .. MaxNodes
    BY <1>3, <1>5, ViewAssumption
  <2>2. [phase |-> "sized", ranges |-> {}, size |-> Cardinality(DOMAIN s)] \in Launches
    BY <2>1 DEF Launches
  <2> QED
    BY <1>1, <2>2 DEF IInv, LaunchesInv
<1> QED
  BY <1>1, <1>4, <1>5, <1>6, <1>7, <1>8, <1>9, <1>10 DEF IInv

\* Copying the view ranges keeps the invariant.
LEMMA AssembleKeeps ==
  ASSUME IInv, NEW t \in Threads, redshow_torchview_assemble_patch_analysis_address(t)
  PROVE  IInv'
<1>1. ForestInv' /\ InputsInv' /\ SnapshotInv' /\ AccessInv'
  BY Untouched DEF redshow_torchview_assemble_patch_analysis_address
<1>2. MemoryInv' /\ OperatorsInv'
  BY DEF redshow_torchview_assemble_patch_analysis_address, IInv, MemoryInv, OperatorsInv, outside
<1>3. LaunchesInv'
  <2>1. launch[t] \in Launches /\ DOMAIN snapshot \subseteq {x.ptr : x \in Tensors}
    BY DEF IInv, LaunchesInv, SnapshotInv, Ptrs
  <2>2. [launch[t] EXCEPT !.phase = "running", !.ranges = DOMAIN snapshot] \in Launches
    BY <2>1 DEF Launches
  <2>3. launch' = [launch EXCEPT ![t] = [launch[t] EXCEPT !.phase = "running",
                                                          !.ranges = DOMAIN snapshot]]
    BY DEF redshow_torchview_assemble_patch_analysis_address, IInv, LaunchesInv
  <2> QED
    BY <2>2, <2>3 DEF redshow_torchview_assemble_patch_analysis_address, IInv, LaunchesInv
<1> QED
  BY <1>1, <1>2, <1>3 DEF IInv

\* The begin of the analysis of a launch keeps the invariant.
LEMMA BeginKeeps ==
  ASSUME IInv, NEW t \in Threads, analysis_begin(t)
  PROVE  IInv'
<1>1. ForestInv' /\ InputsInv' /\ SnapshotInv' /\ AccessInv'
  BY Untouched DEF analysis_begin
<1>2. MemoryInv' /\ OperatorsInv'
  BY DEF analysis_begin, IInv, MemoryInv, OperatorsInv, outside
<1>3. LaunchesInv'
  <2>1. launch[t] \in Launches
    BY DEF IInv, LaunchesInv
  <2>2. [launch[t] EXCEPT !.phase = "analysed"] \in Launches
    BY <2>1 DEF Launches
  <2> QED
    BY <2>1, <2>2 DEF analysis_begin, IInv, LaunchesInv
<1> QED
  BY <1>1, <1>2, <1>3 DEF IInv

\* An access that is attributed is noted in the states of its node.
LEMMA KernelKeeps ==
  ASSUME IInv, NEW t \in Threads, NEW hit \in SUBSET (1 .. dict.size), kernel_op_callback(t, hit)
  PROVE  IInv'
<1>1. PICK touched : touched = Attributed(hit) \cap DOMAIN call_path
  OBVIOUS
<1>2. /\ call_path' = [n \in DOMAIN call_path |->
                         IF n \in touched THEN WithAccess(call_path[n]) ELSE call_path[n]]
      /\ accessed' = accessed \cup touched
      /\ launch' = [launch EXCEPT ![t] = NoLaunch]
      /\ dict' = IF \E u \in Threads \ {t} : launch[u].phase = "analysed" THEN dict ELSE NoLaunch
      /\ UNCHANGED <<nodes, roots, created, outside, op_stack, inputs, snapshot, flushed>>
  BY <1>1 DEF kernel_op_callback
<1>3. ASSUME NEW x \in States
      PROVE  WithAccess(x) \in States /\ Noted(WithAccess(x)) /\ (Noted(x) => Noted(WithAccess(x)))
  BY DEF WithAccess, States, Noted
<1>4. PICK f : f = Forest
  OBVIOUS
<1>5. /\ Good(f) /\ f.nodes = nodes /\ f.roots = roots /\ f.created = created
      /\ f.call_path = call_path
  BY <1>4, ForestParts DEF IInv, ForestInv
<1>6. call_path \in [DOMAIN call_path -> States] /\ DOMAIN call_path \subseteq 1 .. created
  BY <1>5 DEF Good, StatesTyped
<1>7. /\ DOMAIN call_path' = DOMAIN call_path
      /\ \A n \in DOMAIN call_path :
           call_path'[n] = IF n \in touched THEN WithAccess(call_path[n]) ELSE call_path[n]
  BY <1>2
<1>8. ASSUME NEW n \in DOMAIN call_path
      PROVE  /\ call_path'[n] \in States
             /\ n \in touched \/ Noted(call_path[n]) => Noted(call_path'[n])
  <2>1. call_path[n] \in States
    BY <1>6
  <2>2. CASE n \in touched
    <3>1. call_path'[n] = WithAccess(call_path[n])
      BY <1>7, <2>2
    <3> QED
      BY <1>3, <2>1, <3>1
  <2>3. CASE n \notin touched
    <3>1. call_path'[n] = call_path[n]
      BY <1>7, <2>3
    <3> QED
      BY <2>1, <2>3, <3>1
  <2> QED
    BY <2>2, <2>3
<1>9. ForestInv'
  <2>1. PICK g : g = Forest'
    OBVIOUS
  <2>2. /\ g.nodes = nodes /\ g.roots = roots /\ g.created = created /\ g.call_path = call_path'
        /\ ForestRec(g)
    BY <1>2, <2>1 DEF Forest, ForestRec
  <2>3. call_path' \in [DOMAIN call_path' -> States]
    <3>1. call_path' = [n \in DOMAIN call_path' |-> call_path'[n]]
      BY <1>2
    <3> QED
      BY <1>7, <1>8, <3>1
  <2>4. StatesTyped(g)
    BY <1>6, <1>7, <2>2, <2>3 DEF StatesTyped
  <2>5. Good(g)
    BY <1>5, <2>2, <2>4, OtherStates
  <2> QED
    BY <1>2, <2>1, <2>5 DEF IInv, ForestInv
<1>10. IdsKept
  BY <1>2, Counted DEF IInv, IdsKept
<1>11. AccessInv'
  <2>1. accessed' \subseteq 1 .. created'
    BY <1>1, <1>2, <1>6 DEF IInv, AccessInv
  <2>2. ASSUME ~ flushed', NEW n \in accessed'
        PROVE  n \in DOMAIN call_path' /\ Noted(call_path'[n])
    <3>1. n \in accessed => n \in DOMAIN call_path /\ Noted(call_path[n])
      BY <1>2, <2>2 DEF IInv, AccessInv
    <3>2. n \in touched => n \in DOMAIN call_path
      BY <1>1
    <3>3. n \in accessed \/ n \in touched
      BY <1>2
    <3> QED
      BY <1>7, <1>8, <3>1, <3>2, <3>3
  <2> QED
    BY <2>1, <2>2 DEF AccessInv
<1>12. InputsInv'
  BY <1>2, <1>9, <1>10, InputsKept DEF IInv
<1>13. SnapshotInv'
  BY <1>2, <1>9, <1>10, SnapshotShrinks DEF IInv
<1>14. MemoryInv' /\ OperatorsInv'
  BY <1>2 DEF IInv, MemoryInv, OperatorsInv, outside
<1>15. LaunchesInv'
  <2>1. NoLaunch \in Launches
    BY ViewAssumption DEF NoLaunch, Launches
  <2>2. dict' = dict \/ dict' = NoLaunch
    BY <1>2
  <2> QED
    BY <1>2, <2>1, <2>2 DEF IInv, LaunchesInv
<1> QED
  BY <1>9, <1>11, <1>12, <1>13, <1>14, <1>15 DEF IInv

\* The flush keeps the invariant.
LEMMA FlushKeeps ==
  ASSUME IInv, flush
  PROVE  IInv'
<1>1. PICK silent : silent = {r \in {roots[k] : k \in DOMAIN roots} : Leaf(r) /\ ~ call_path[r].first}
  OBVIOUS
<1>2. PICK g : g = WithoutTrees(Forest, 1, Len(roots), silent)
  OBVIOUS
<1>3. /\ BecomeForest(g) /\ flushed' = TRUE
      /\ UNCHANGED <<outside, op_stack, inputs, snapshot, launch, dict, accessed>>
  BY <1>1, <1>2 DEF flush
<1>4. PICK f : f = Forest
  OBVIOUS
<1>5. Good(f) /\ f.nodes = nodes /\ f.roots = roots /\ f.created = created
  BY <1>4, ForestParts DEF IInv, ForestInv
<1>6. /\ Good(g) /\ g.created = f.created
      /\ DOMAIN g.nodes \subseteq DOMAIN f.nodes
      /\ \A n \in DOMAIN g.nodes : g.nodes[n] = f.nodes[n]
  <2>1. PICK from, to : from = 1 /\ to = Len(f.roots)
    OBVIOUS
  <2>2. Len(f.roots) \in Nat
    BY <1>5 DEF Good, RootsGood
  <2>3. from \in 1 .. Len(f.roots) + 1 /\ to \in from - 1 .. Len(f.roots)
    BY <2>1, <2>2
  <2>4. g = WithoutTrees(f, from, to, silent)
    BY <1>2, <1>4, <1>5, <2>1
  <2> QED
    BY <1>5, <2>3, <2>4, WithoutGood
<1>7. nodes' = g.nodes /\ created' = created
  BY <1>3, <1>5, <1>6 DEF BecomeForest
<1>8. ForestInv'
  BY <1>3, <1>6, <1>7, Becomes DEF IInv, ForestInv
<1>9. IdsKept
  BY <1>5, <1>6, <1>7, Counted DEF IInv, IdsKept
<1>10. InputsInv'
  BY <1>3, <1>8, <1>9, InputsKept DEF IInv
<1>11. SnapshotInv'
  BY <1>3, <1>8, <1>9, SnapshotShrinks DEF IInv
<1>12. AccessInv'
  BY <1>3, <1>7 DEF IInv, AccessInv
<1>13. MemoryInv' /\ OperatorsInv'
  BY <1>3 DEF IInv, MemoryInv, OperatorsInv, outside
<1>14. LaunchesInv'
  BY <1>3 DEF IInv, LaunchesInv
<1> QED
  BY <1>8, <1>10, <1>11, <1>12, <1>13, <1>14 DEF IInv

\* Every step keeps the invariant.
LEMMA NextInv == IInv /\ [Next]_vars => IInv'
<1> SUFFICES ASSUME IInv, [Next]_vars PROVE IInv'
  OBVIOUS
<1>1. CASE UNCHANGED vars
  <2>1. ForestInv' /\ InputsInv' /\ SnapshotInv' /\ AccessInv'
    BY <1>1, Untouched DEF vars
  <2>2. MemoryInv' /\ OperatorsInv' /\ LaunchesInv'
    BY <1>1 DEF vars, outside, IInv, MemoryInv, OperatorsInv, LaunchesInv
  <2> QED
    BY <2>1, <2>2 DEF IInv
<1>2. ASSUME NEW t \in Threads, NEW b \in Blocks,
             register_memory_block(t, b) \/ delete_forest_tree(t, b)
      PROVE  IInv'
  BY <1>2, RegisterKeeps, DeleteKeeps
<1>3. ASSUME NEW t \in Threads, NEW args \in ArgLists, enter(t, args) \/ exit(t, args)
      PROVE  IInv'
  BY <1>3, EnterKeeps, ExitKeeps
<1>4. ASSUME NEW t \in Threads, redshow_torchview_ongpu_get_range_size(t) PROVE IInv'
  BY <1>4, SizeKeeps
<1>5. ASSUME NEW t \in Threads, redshow_torchview_assemble_patch_analysis_address(t) PROVE IInv'
  BY <1>5, AssembleKeeps
<1>6. ASSUME NEW t \in Threads, analysis_begin(t) PROVE IInv'
  BY <1>6, BeginKeeps
<1>7. ASSUME NEW t \in Threads, NEW hit \in SUBSET (1 .. dict.size), kernel_op_callback(t, hit)
      PROVE  IInv'
  BY <1>7, KernelKeeps
<1>8. CASE flush
  BY <1>8, FlushKeeps
<1> QED
  BY <1>1, <1>2, <1>3, <1>4, <1>5, <1>6, <1>7, <1>8 DEF Next

\* The invariant holds in every behaviour.
LEMMA AlwaysInv == Spec => []IInv
  BY InitInv, NextInv, PTL DEF Spec

-----------------------------------------------------------------------------
(* Launches in one context *)

\* The snapshot is finite.
LEMMA SnapshotFinite ==
  ASSUME IInv
  PROVE  IsFiniteSet(DOMAIN snapshot) /\ Cardinality(DOMAIN snapshot) \in Nat
<1>0. PICK s : s = snapshot
  OBVIOUS
<1>1. PICK n \in Nat : n = created
  BY Counted DEF IInv
<1>2. /\ \A p \in DOMAIN s : s[p] \in 1 .. n
      /\ \A p, q \in DOMAIN s : s[p] = s[q] => p = q
  BY <1>0, <1>1 DEF IInv, SnapshotInv
<1> QED
  BY <1>0, <1>2, SnapshotSize

\* The launch of a thread is in one of its phases.
LEMMA LaunchTypes ==
  ASSUME IInv, NEW t \in Threads
  PROVE  /\ launch[t] \in Launches /\ launch[t].size \in Nat
         /\ launch[t].phase \in {"none", "sized", "running", "analysed"}
  BY DEF IInv, LaunchesInv, Launches

\* A step outside of the launches: the snapshot at most loses entries.
LEMMA LaunchesAlone ==
  ASSUME IInv, LInv, launch' = launch, dict' = dict, DOMAIN snapshot' \subseteq DOMAIN snapshot
  PROVE  LInv'
<1>1. Cardinality(DOMAIN snapshot') <= Cardinality(DOMAIN snapshot) /\ Cardinality(DOMAIN snapshot') \in Nat
  <2>1. PICK S, T : S = DOMAIN snapshot /\ T = DOMAIN snapshot'
    OBVIOUS
  <2>2. IsFiniteSet(S) /\ T \in SUBSET S
    BY <2>1, SnapshotFinite
  <2>3. IsFiniteSet(T) /\ Cardinality(T) <= Cardinality(S)
    BY <2>2, FS_Subset
  <2>4. Cardinality(T) \in Nat
    BY <2>3, FS_CardinalityType
  <2> QED
    BY <2>1, <2>3, <2>4
<1>2. ASSUME NEW t \in Threads PROVE LaunchInv(t)'
  <2>1. LaunchInv(t)
    BY DEF LInv
  <2>2. launch'[t] = launch[t] /\ launch[t].size \in Nat /\ Cardinality(DOMAIN snapshot) \in Nat
    BY LaunchTypes, SnapshotFinite
  <2>3. launch[t].phase = "sized" => Cardinality(DOMAIN snapshot') <= launch[t].size
    BY <1>1, <2>1, <2>2 DEF LaunchInv
  <2> QED
    BY <2>1, <2>2, <2>3 DEF LaunchInv
<1> QED
  BY <1>2 DEF LInv

\* While a thread launches no other thread of its context does.
LEMMA OneLaunch ==
  ASSUME LInv, NEW t \in Threads, launch[t].phase # "none", NEW u \in Threads, u # t
  PROVE  launch[u] = NoLaunch
  BY DEF LInv, NoLaunch

\* The first call of a launch finds no other one in progress.
LEMMA SizeLaunch ==
  ASSUME OneContext, IInv, LInv, NEW t \in Threads, redshow_torchview_ongpu_get_range_size(t)
  PROVE  LInv'
<1>1. \A u \in Threads : launch[u] = NoLaunch
  BY DEF OneContext, redshow_torchview_ongpu_get_range_size
<1>2. PICK c \in Nat :
        /\ c = Cardinality(DOMAIN snapshot')
        /\ launch' = [launch EXCEPT ![t] = [phase |-> "sized", ranges |-> {}, size |-> c]]
  BY SizeKeeps
<1>3. launch \in [Threads -> Launches]
  BY DEF IInv, LaunchesInv
<1>4. /\ launch'[t] = [phase |-> "sized", ranges |-> {}, size |-> c]
      /\ \A u \in Threads : u # t => launch'[u] = NoLaunch
  BY <1>1, <1>2, <1>3
<1>5. ASSUME NEW u \in Threads PROVE LaunchInv(u)'
  <2>1. CASE u = t
    BY <1>2, <1>4, <2>1 DEF LaunchInv
  <2>2. CASE u # t
    BY <1>4, <2>2 DEF LaunchInv, NoLaunch
  <2> QED
    BY <2>1, <2>2
<1> QED
  BY <1>4, <1>5 DEF LInv

\* The second call of a launch sees the snapshot of the first.
LEMMA AssembleLaunch ==
  ASSUME IInv, LInv, NEW t \in Threads, redshow_torchview_assemble_patch_analysis_address(t)
  PROVE  LInv'
<1>1. /\ launch[t].phase = "sized" /\ snapshot' = snapshot /\ dict' = dict
      /\ launch' = [launch EXCEPT ![t].phase = "running", ![t].ranges = DOMAIN snapshot]
  BY DEF redshow_torchview_assemble_patch_analysis_address
<1>2. launch \in [Threads -> Launches] /\ launch[t] \in Launches
  BY DEF IInv, LaunchesInv
<1>3. \A u \in Threads : u # t => launch[u] = NoLaunch /\ launch'[u] = NoLaunch
  <2>1. ASSUME NEW u \in Threads, u # t PROVE launch[u] = NoLaunch
    BY <1>1, <2>1, OneLaunch
  <2> QED
    BY <1>1, <1>2, <2>1
<1>4. /\ launch'[t].phase = "running" /\ launch'[t].ranges = DOMAIN snapshot
      /\ launch'[t].size = launch[t].size
  BY <1>1, <1>2 DEF Launches
<1>5. IsFiniteSet(DOMAIN snapshot) /\ Cardinality(DOMAIN snapshot) <= launch[t].size
  BY <1>1, SnapshotFinite DEF LInv, LaunchInv
<1>6. ASSUME NEW u \in Threads PROVE LaunchInv(u)'
  <2>1. CASE u = t
    BY <1>1, <1>4, <1>5, <2>1 DEF LaunchInv
  <2>2. CASE u # t
    BY <1>3, <2>2 DEF LaunchInv, NoLaunch
  <2> QED
    BY <2>1, <2>2
<1> QED
  BY <1>3, <1>6 DEF LInv

\* The analysis of a launch sees the snapshot of its calls.
LEMMA BeginLaunch ==
  ASSUME IInv, LInv, NEW t \in Threads, analysis_begin(t)
  PROVE  LInv'
<1>1. /\ launch[t].phase = "running" /\ snapshot' = snapshot /\ dict' = launch[t]
      /\ launch' = [launch EXCEPT ![t].phase = "analysed"]
  BY DEF analysis_begin
<1>2. launch \in [Threads -> Launches] /\ launch[t] \in Launches
  BY DEF IInv, LaunchesInv
<1>3. \A u \in Threads : u # t => launch[u] = NoLaunch /\ launch'[u] = NoLaunch
  <2>1. ASSUME NEW u \in Threads, u # t PROVE launch[u] = NoLaunch
    BY <1>1, <2>1, OneLaunch
  <2> QED
    BY <1>1, <1>2, <2>1
<1>4. /\ launch'[t].phase = "analysed" /\ launch'[t].ranges = launch[t].ranges
      /\ launch'[t].size = launch[t].size /\ dict'.size = launch[t].size
  BY <1>1, <1>2 DEF Launches
<1>5. /\ DOMAIN snapshot \subseteq launch[t].ranges
      /\ IsFiniteSet(launch[t].ranges) /\ Cardinality(launch[t].ranges) <= launch[t].size
  BY <1>1 DEF LInv, LaunchInv
<1>6. ASSUME NEW u \in Threads PROVE LaunchInv(u)'
  <2>1. CASE u = t
    BY <1>1, <1>4, <1>5, <2>1 DEF LaunchInv
  <2>2. CASE u # t
    BY <1>3, <2>2 DEF LaunchInv, NoLaunch
  <2> QED
    BY <2>1, <2>2
<1> QED
  BY <1>3, <1>6 DEF LInv

\* The end of a launch leaves none in progress.
LEMMA KernelLaunch ==
  ASSUME IInv, LInv, NEW t \in Threads, NEW hit, kernel_op_callback(t, hit)
  PROVE  LInv'
<1>1. launch[t].phase = "analysed" /\ launch' = [launch EXCEPT ![t] = NoLaunch]
  BY DEF kernel_op_callback
<1>2. launch \in [Threads -> Launches]
  BY DEF IInv, LaunchesInv
<1>3. \A u \in Threads : launch'[u] = NoLaunch
  <2>1. ASSUME NEW u \in Threads, u # t PROVE launch[u] = NoLaunch
    BY <1>1, <2>1, OneLaunch
  <2> QED
    BY <1>1, <1>2, <2>1
<1>4. ASSUME NEW u \in Threads PROVE LaunchInv(u)'
  BY <1>3 DEF LaunchInv, NoLaunch
<1> QED
  BY <1>3, <1>4 DEF LInv

\* There is no launch at the start.
LEMMA InitLInv == Init => LInv
  BY DEF Init, LInv, LaunchInv, NoLaunch

\* Every step keeps what is known of launches, in one context.
LEMMA NextLInv ==
  ASSUME OneContext
  PROVE  IInv /\ LInv /\ [Next]_vars => LInv'
<1> SUFFICES ASSUME IInv, LInv, [Next]_vars PROVE LInv'
  OBVIOUS
<1>1. CASE UNCHANGED vars
  BY <1>1, LaunchesAlone DEF vars
<1>2. ASSUME NEW t \in Threads, NEW b \in Blocks, register_memory_block(t, b)
      PROVE  LInv'
  BY <1>2, LaunchesAlone DEF register_memory_block
<1>3. ASSUME NEW t \in Threads, NEW b \in Blocks, delete_forest_tree(t, b)
      PROVE  LInv'
  <2>1. DOMAIN snapshot' \subseteq DOMAIN snapshot
    BY <1>3 DEF delete_forest_tree, SnapshotAfter, Restricted
  <2>2. launch' = launch /\ dict' = dict
    BY <1>3 DEF delete_forest_tree
  <2> QED
    BY <2>1, <2>2, LaunchesAlone
<1>4. ASSUME NEW t \in Threads, NEW args \in ArgLists, enter(t, args) \/ exit(t, args)
      PROVE  LInv'
  <2>1. DOMAIN snapshot' = {}
    BY <1>4, EnterKeeps, ExitKeeps
  <2>2. launch' = launch /\ dict' = dict
    BY <1>4 DEF enter, exit
  <2> QED
    BY <2>1, <2>2, LaunchesAlone
<1>5. ASSUME NEW t \in Threads, redshow_torchview_ongpu_get_range_size(t) PROVE LInv'
  BY <1>5, SizeLaunch
<1>6. ASSUME NEW t \in Threads, redshow_torchview_assemble_patch_analysis_address(t) PROVE LInv'
  BY <1>6, AssembleLaunch
<1>7. ASSUME NEW t \in Threads, analysis_begin(t) PROVE LInv'
  BY <1>7, BeginLaunch
<1>8. ASSUME NEW t \in Threads, NEW hit \in SUBSET (1 .. dict.size), kernel_op_callback(t, hit)
      PROVE  LInv'
  BY <1>8, KernelLaunch
<1>9. CASE flush
  BY <1>9, LaunchesAlone DEF flush
<1> QED
  BY <1>1, <1>2, <1>3, <1>4, <1>5, <1>6, <1>7, <1>8, <1>9 DEF Next

-----------------------------------------------------------------------------
(* Theorems *)

\* The roots stay sorted for the binary searches of find_root_node and
\* delete_forest_tree, and every node stays in the tree of a root that is not
\* deleted, inside of its block, whatever operators run and memory is released.
THEOREM ForestKeepsShape == Spec => []ForestShape
<1>1. ASSUME IInv PROVE ForestShape
  <2>1. PICK f : f = Forest
    OBVIOUS
  <2>2. /\ Good(f) /\ f.nodes = nodes /\ f.roots = roots /\ f.created = created
        /\ f.call_path = call_path
    BY <1>1, <2>1, ForestParts DEF IInv, ForestInv
  <2>3. /\ created \in Nat /\ created <= MaxNodes /\ MaxNodes \in Nat
        /\ DOMAIN nodes \subseteq 1 .. created
        /\ \A m \in 1 .. created : m \in Ids
    BY <1>1, Counted, ViewAssumption DEF IInv, ForestInv, Ids
  <2>4. roots \in Seq(DOMAIN nodes) /\ DOMAIN roots = 1 .. Len(roots)
    BY <2>2 DEF Good, RootsGood
  <2>5. TypeOK
    <3>1. blocks \subseteq Blocks /\ total_allocated \in Nat
      BY <1>1 DEF IInv, MemoryInv
    <3>2. \A n \in DOMAIN nodes : nodes[n] \in Node
      <4>1. ASSUME NEW n \in DOMAIN nodes PROVE nodes[n] \in Node
        <5>1. nodes[n] \in [ptr : Ptrs, meta : Metas, dim : Nat, lo : Nat, hi : Nat,
                            root : 1 .. created, parent : 0 .. created]
          BY <2>2 DEF Good, NodesTyped
        <5>2. /\ \A m \in 0 .. created : m \in {Null} \cup Ids
              /\ \A p \in Ptrs : p \in Nat
          BY <2>3, PtrsNat DEF Null, Ids
        <5> QED
          BY <2>3, <5>1, <5>2 DEF Node, Metas
      <4> QED
        BY <4>1
    <3>3. roots \in Seq(Ids)
      BY <2>3, <2>4
    <3>4. DOMAIN call_path \subseteq Ids /\ \A n \in DOMAIN call_path : call_path[n] \in States
      BY <2>2, <2>3 DEF Good, StatesTyped
    <3>5. \A i \in DOMAIN inputs : inputs[i].id \in {Null} \cup Ids
      BY <1>1, <2>3 DEF IInv, InputsInv
    <3>6. DOMAIN snapshot \subseteq Nat /\ \A p \in DOMAIN snapshot : snapshot[p] \in Ids
      BY <1>1, <2>3, PtrsNat DEF IInv, SnapshotInv
    <3>7. accessed \subseteq Ids
      BY <1>1, <2>3 DEF IInv, AccessInv
    <3>8. created \in 0 .. MaxNodes /\ DOMAIN nodes \subseteq Ids
      BY <2>3
    <3> QED
      BY <1>1, <3>1, <3>2, <3>3, <3>4, <3>5, <3>6, <3>7, <3>8
         DEF TypeOK, IInv, OperatorsInv, LaunchesInv
  <2>6. \A j, k \in DOMAIN roots : j < k => nodes[roots[j]].ptr <= nodes[roots[k]].ptr
    BY <2>2, <2>4 DEF Good, RootsGood
  <2>7. ASSUME NEW n \in DOMAIN nodes
        PROVE  LET r == nodes[n].root
               IN  /\ r \in DOMAIN nodes /\ \E k \in DOMAIN roots : roots[k] = r
                   /\ nodes[n].lo = nodes[r].ptr /\ nodes[n].hi = nodes[r].hi
                   /\ nodes[n].lo <= nodes[n].ptr /\ nodes[n].ptr <= nodes[n].hi
                   /\ n # r => nodes[n].parent \in DOMAIN nodes /\ nodes[nodes[n].parent].root = r
    <3>1. InTree(f, n)
      BY <2>2 DEF Good, TreesGood
    <3> QED
      BY <2>2, <2>4, <3>1 DEF InTree
  <2> QED
    BY <2>5, <2>6, <2>7 DEF ForestShape, Live
<1> QED
  BY <1>1, AlwaysInv, PTL

\* update_view_forest never gives a tensor that is in its tree a second node.
THEOREM NoDoubles == Spec => []UniqueInTree
<1>1. IInv => UniqueInTree
  BY ForestParts DEF IInv, ForestInv, Good, Unique, UniqueInTree, Live
<1> QED
  BY <1>1, AlwaysInv, PTL

\* No release before the flush erases the states of a node that a kernel accessed.
THEOREM AccessesStayKept == Spec => []AccessesKept
<1>1. IInv => AccessesKept
  BY DEF IInv, AccessInv, AccessesKept
<1> QED
  BY <1>1, AlwaysInv, PTL

\* A release drops the snapshot's entries for every node that it deletes, although
\* it takes the bytes that are still allocated for the size of the block.
THEOREM DeletedLeaveSnapshot == Spec => DeletedNotInSnapshot
<1>1. ASSUME IInv, [Next]_vars, ~ flushed', NEW p \in DOMAIN snapshot', snapshot'[p] \in DOMAIN nodes
      PROVE  snapshot'[p] \in DOMAIN nodes'
  <2>1. CASE UNCHANGED nodes
    BY <1>1, <2>1
  <2>2. ASSUME NEW t \in Threads, NEW b \in Blocks, delete_forest_tree(t, b)
        PROVE  snapshot'[p] \in DOMAIN nodes'
    BY <1>1, <2>2, DeleteKeeps
  <2>3. ASSUME NEW t \in Threads, NEW args \in ArgLists, enter(t, args) \/ exit(t, args)
        PROVE  snapshot'[p] \in DOMAIN nodes'
    <3>1. DOMAIN snapshot' = {}
      BY <1>1, <2>3, EnterKeeps, ExitKeeps
    <3> QED
      BY <1>1, <3>1
  <2>4. CASE flush
    BY <1>1, <2>4 DEF flush
  <2> QED
    BY <1>1, <2>1, <2>2, <2>3, <2>4
       DEF Next, vars, forest, register_memory_block, redshow_torchview_ongpu_get_range_size,
           redshow_torchview_assemble_patch_analysis_address, analysis_begin, kernel_op_callback
<1>2. IInv /\ [Next]_vars =>
        [~ flushed' => \A p \in DOMAIN snapshot' : snapshot'[p] \in Live => snapshot'[p] \in Live']_vars
  BY <1>1 DEF Live
<1> QED
  BY <1>2, AlwaysInv, PTL DEF Spec, DeletedNotInSnapshot

\* With one GPU context, the ranges that are copied to the GPU fit the array that
\* was allocated for them, although operators of other threads run in between.
THEOREM RangesAlwaysFit ==
  ASSUME OneContext
  PROVE  Spec => []RangesFit
<1>1. ASSUME IInv, LInv PROVE RangesFit
  <2>1. ASSUME NEW t \in Threads PROVE Cardinality(launch[t].ranges) <= launch[t].size
    <3>1. LaunchInv(t)
      BY <1>1 DEF LInv
    <3>2. launch[t].size \in Nat /\ launch[t].phase \in {"none", "sized", "running", "analysed"}
      BY <1>1, LaunchTypes
    <3>3. launch[t].phase \in {"none", "sized"} => launch[t].ranges = {}
      BY <3>1 DEF LaunchInv, NoLaunch
    <3>4. Cardinality({}) = 0
      BY FS_EmptySet
    <3>5. CASE launch[t].phase \in {"none", "sized"}
      BY <3>2, <3>3, <3>4, <3>5
    <3>6. CASE launch[t].phase \in {"running", "analysed"}
      BY <3>1, <3>6 DEF LaunchInv
    <3> QED
      BY <3>2, <3>5, <3>6
  <2> QED
    BY <2>1 DEF RangesFit
<1> QED
  BY <1>1, AlwaysInv, InitLInv, NextLInv, PTL DEF Spec

\* With one GPU context, comparing the sizes is enough: when the marks of a kernel
\* are attributed, the snapshot has the addresses the dictionary was made from.
THEOREM MarksStayInLine ==
  ASSUME OneContext
  PROVE  Spec => MarksLineUp
<1>1. ASSUME IInv, LInv, [Next]_vars, NEW t \in Threads,
             launch[t].phase = "analysed", launch'[t] = NoLaunch, launch[t].ranges # DOMAIN snapshot
      PROVE  call_path' = call_path
  <2>1. launch'[t] # launch[t]
    BY <1>1 DEF NoLaunch
  <2>2. PICK u \in Threads : \/ redshow_torchview_ongpu_get_range_size(u)
                             \/ redshow_torchview_assemble_patch_analysis_address(u)
                             \/ analysis_begin(u)
                             \/ \E hit \in SUBSET (1 .. dict.size) : kernel_op_callback(u, hit)
    BY <1>1, <2>1 DEF Next, vars, register_memory_block, delete_forest_tree, enter, exit, flush
  <2>3. CASE \E hit \in SUBSET (1 .. dict.size) : kernel_op_callback(u, hit)
    <3>1. PICK hit \in SUBSET (1 .. dict.size) : kernel_op_callback(u, hit)
      BY <2>3
    <3>2. PICK S, T, n : S = launch[t].ranges /\ T = DOMAIN snapshot /\ n = launch[t].size
      OBVIOUS
    <3>3. /\ T \in SUBSET S /\ IsFiniteSet(S) /\ Cardinality(S) <= n /\ S # T
          /\ dict.size = n /\ n \in Nat
      BY <1>1, <3>2, LaunchTypes DEF LInv, LaunchInv
    <3>4. /\ Cardinality(T) <= Cardinality(S) /\ Cardinality(S) # Cardinality(T)
          /\ IsFiniteSet(T)
      BY <3>3, FS_Subset
    <3>5. Cardinality(S) \in Nat /\ Cardinality(T) \in Nat
      BY <3>3, <3>4, FS_CardinalityType
    <3>6. dict.size # Cardinality(DOMAIN snapshot)
      BY <3>2, <3>3, <3>4, <3>5
    <3>7. Attributed(hit) = {}
      BY <3>6 DEF Attributed
    <3>8. call_path' = [m \in DOMAIN call_path |-> call_path[m]]
      BY <3>1, <3>7 DEF kernel_op_callback
    <3>9. call_path \in [DOMAIN call_path -> States]
      BY <1>1, ForestParts DEF IInv, ForestInv, Good, StatesTyped
    <3> QED
      BY <3>8, <3>9
  <2>4. CASE \/ redshow_torchview_ongpu_get_range_size(u)
             \/ redshow_torchview_assemble_patch_analysis_address(u)
             \/ analysis_begin(u)
    BY <2>4 DEF redshow_torchview_ongpu_get_range_size, forest, analysis_begin,
                redshow_torchview_assemble_patch_analysis_address
  <2> QED
    BY <2>2, <2>3, <2>4
<1>2. IInv /\ LInv /\ [Next]_vars =>
        [\A t \in Threads :
           launch[t].phase = "analysed" /\ launch'[t] = NoLaunch
           => call_path' = call_path \/ launch[t].ranges = DOMAIN snapshot]_vars
  BY <1>1
<1> QED
  BY <1>2, AlwaysInv, InitLInv, NextLInv, PTL DEF Spec, MarksLineUp
=============================================================================
