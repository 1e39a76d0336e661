------------------------ MODULE MemoryLivenessProofs ------------------------
(***************************************************************************)
(* What the memory liveness analysis promises for any ranges, streams,     *)
(* operations and kernels: exact lists of operations and exact memory      *)
(* usage, a graph that orders every conflict between marked accesses, and  *)
(* a flush that only copies inside an object can stop.                     *)
(***************************************************************************)
EXTENDS MemoryLiveness, FiniteSetTheorems, WellFoundedInduction, TLAPS

-----------------------------------------------------------------------------
(* The inductive invariant: objects, tables and kernels *)

TableRec(T) ==
  T = [current |-> T.current, addresses |-> T.addresses, operations |-> T.operations,
       usage |-> T.usage, peak |-> T.peak, optimal_peak |-> T.optimal_peak,
       peak_kernel |-> T.peak_kernel]

\* The objects have ids up to the last operation and do not overlap.
Objects(objs, rs, o) ==
  /\ DOMAIN objs \subseteq 1 .. o
  /\ \A m \in DOMAIN objs : objs[m] \in rs
  /\ \A m, n \in DOMAIN objs : m # n => ~ Overlaps(objs[m], objs[n])

\* The addresses are those of the objects.
Addressed(T, objs) ==
  /\ DOMAIN T.addresses = Starts(objs, DOMAIN objs)
  /\ \A m \in DOMAIN objs : T.addresses[objs[m].start] = m

\* The counters of the memory in use.
Counted(T, objs) ==
  /\ T.current = objs
  /\ T.usage = SumLen(objs, DOMAIN objs)
  /\ T.peak \in Nat /\ T.usage <= T.peak
  /\ T.optimal_peak \in Nat /\ T.optimal_peak <= T.peak

Table(T, objs) == TableRec(T) /\ Addressed(T, objs) /\ Counted(T, objs)

TablesInv ==
  /\ Objects(live, Ranges, op) /\ Table(memories, live)
  /\ Objects(sub_live, SubRanges, op) /\ Table(submemories, sub_live)

Kernels == [op : OpIds, stream : Streams, read : SUBSET DOMAIN live, write : SUBSET DOMAIN live,
            atomic : SUBSET DOMAIN live, sub : SUBSET DOMAIN sub_live,
            stage : {"run", "hit", "graph", "analysed"}]

\* The kernels that have not entered the graph.
Untold(k) == k.stage \in {"run", "hit"}

\* The kernels that have not returned use live objects, are different operations,
\* and are not in the graph before they have reported to it.
KernelsInv ==
  /\ inflight \subseteq Kernels
  /\ \A k \in inflight : k.op <= op /\ k.read \cap k.write = {}
  /\ \A k, l \in inflight : k.op = l.op => k = l
  /\ \A k \in inflight : Untold(k) => k.op \notin graph.nodes

-----------------------------------------------------------------------------
(* The inductive invariant: the graph *)

GraphRec(G) ==
  G = [nodes |-> G.nodes, edges |-> G.edges, edge_list |-> G.edge_list,
       obj_ownership_map |-> G.obj_ownership_map, read_nodes |-> G.read_nodes,
       stream_ownership_map |-> G.stream_ownership_map, stream_nodes |-> G.stream_nodes]

EdgesIn(G) == \A e \in G.edges : e.from \in G.nodes /\ e.to \in G.nodes

\* Writers, readers and the last operations of the streams are nodes.
MapsIn(G) ==
  /\ DOMAIN G.read_nodes = DOMAIN G.obj_ownership_map
  /\ \A o \in DOMAIN G.obj_ownership_map :
       G.obj_ownership_map[o] \in G.nodes /\ G.read_nodes[o] \subseteq G.nodes
  /\ \A s \in DOMAIN G.stream_ownership_map : G.stream_ownership_map[s] \in G.nodes

\* A graph that nothing was removed from.
Whole(G) == G.edge_list = G.edges /\ EdgesIn(G) /\ MapsIn(G)

\* Every set of nodes has one that depends on none of the set, but for those of X,
\* which may depend on themselves.
Acyclic(G, X) ==
  \A S \in SUBSET G.nodes : S # {} =>
    \E n \in S : \A e \in G.edges : e.to = n => e.from \notin S \/ (e.from = n /\ n \in X)

KeepsAcyclic(G, H) == \A X : Acyclic(G, X) => Acyclic(H, X)

GraphInv ==
  /\ GraphRec(graph)
  /\ phase = "run" => /\ Whole(graph)
                      /\ DOMAIN live \subseteq DOMAIN graph.obj_ownership_map
                      /\ DOMAIN graph.obj_ownership_map \subseteq 1 .. op
                      /\ graph.nodes \subseteq 1 .. op

\* Operation b is after a for every set closed under the edges es.
Reaches(es, a, b) ==
  \A S \in SUBSET OpIds : a \in S /\ (\A e \in es : e.from \in S => e.to \in S) => b \in S

\* Those that touched an object are before its last writer, or are its readers
\* since, which are after the last writer; conflicts are ordered.
Ordered(G, T) ==
  /\ \A x \in T :
       /\ x[1] \in DOMAIN G.obj_ownership_map
       /\ \/ Reaches(G.edge_list, x[2], G.obj_ownership_map[x[1]])
          \/ x[3] = "r" /\ x[2] \in G.read_nodes[x[1]]
  /\ \A o \in DOMAIN G.obj_ownership_map : \A r \in G.read_nodes[o] :
       Reaches(G.edge_list, G.obj_ownership_map[o], r)
  /\ \A x, y \in T :
       x[1] = y[1] /\ x[2] # y[2] /\ "w" \in {x[3], y[3]} =>
         Reaches(G.edge_list, x[2], y[2]) \/ Reaches(G.edge_list, y[2], x[2])

\* The flush: what is removed has a level above that of what it depends on.
FlushInv ==
  /\ phase \in {"run", "topo", "done"}
  /\ phase = "run" => DOMAIN level = {}
  /\ phase # "run" => inflight = {}
  /\ graph.nodes \cap DOMAIN level = {}
  /\ graph.edges = {e \in graph.edge_list : e.from \in graph.nodes /\ e.to \in graph.nodes}
  /\ \A e \in graph.edge_list : {e.from, e.to} \subseteq graph.nodes \cup DOMAIN level
  /\ top_index \in Nat
  /\ \A n \in DOMAIN level : level[n] \in Nat /\ level[n] < top_index
  /\ \A e \in graph.edge_list : e.to \in DOMAIN level =>
       e.from \in DOMAIN level /\ level[e.from] < level[e.to]
  /\ graph.nodes \subseteq op_node \cup {k.op : k \in inflight}
  /\ DOMAIN level \subseteq op_node

IInv ==
  /\ op \in 0 .. MaxOps
  /\ TablesInv
  /\ KernelsInv
  /\ GraphInv
  /\ Ordered(graph, accesses)
  /\ FlushInv
  /\ OperationsExact
  /\ SubWritesKept

-----------------------------------------------------------------------------
(* Numbers and sums *)

\* A set of naturals that is not empty has a least element.
LEMMA LeastOf ==
  ASSUME NEW T \in SUBSET Nat, T # {}
  PROVE  \E x \in T : \A y \in T : x <= y
<1>1. PICK x \in T : \A y \in T : ~ (<<y, x>> \in OpToRel(<, Nat))
  BY NatLessThanWellFounded, WFMin, Zenon
<1>2. \A y \in T : ~ (<<y, x>> \in {p \in Nat \X Nat : p[1] < p[2]})
  BY <1>1, Zenon DEF OpToRel
<1>3. ASSUME NEW y \in T PROVE ~ (y < x)
  <2>1. <<y, x>> \in Nat \X Nat /\ <<y, x>>[1] = y /\ <<y, x>>[2] = x
    OBVIOUS
  <2> QED
    BY <1>2, <2>1, Zenon
<1> QED
  BY <1>3

\* Of the finite sets in a set of sets there is a smallest one.
LEMMA SmallestOf ==
  ASSUME NEW F, F # {}, \A s \in F : IsFiniteSet(s)
  PROVE  \E s \in F : \A t \in F : Cardinality(s) <= Cardinality(t)
<1> DEFINE sizes == {Cardinality(s) : s \in F}
<1>1. \A s \in F : Cardinality(s) \in Nat
  BY FS_CardinalityType
<1>2. sizes \in SUBSET Nat /\ sizes # {}
  BY <1>1
<1>3. PICK n \in sizes : \A m \in sizes : n <= m
  <2> HIDE DEF sizes
  <2> QED
    BY <1>2, LeastOf
<1> QED
  BY <1>3

Some(s) == CHOOSE x \in s : TRUE

\* One step of the recursion of SumLen.
SumStep(g, map, s) == IF s = {} THEN 0 ELSE Len2(map[Some(s)]) + g[s \ {Some(s)}]

SumOn(g, map, D) == g = [s \in D |-> SumStep(g, map, s)]
SumOf(g, map, S) == SumOn(g, map, SUBSET S)

\* The fold of SumLen is that recursion.
LEMMA SumIs ==
  ASSUME NEW map, NEW S
  PROVE  SumLen(map, S) = (CHOOSE g : SumOf(g, map, S))[S]
  BY DEF SumLen, MapThenSumSet, MapThenFoldSet, SumOf, SumOn, SumStep, Some

\* What remains of a finite set without its chosen element is smaller.
LEMMA SomeOf ==
  ASSUME NEW s, IsFiniteSet(s), s # {}
  PROVE  /\ Some(s) \in s
         /\ IsFiniteSet(s \ {Some(s)})
         /\ Cardinality(s) \in Nat /\ Cardinality(s \ {Some(s)}) \in Nat
         /\ Cardinality(s \ {Some(s)}) = Cardinality(s) - 1
<1>1. Some(s) \in s
  BY DEF Some
<1> QED
  BY <1>1, FS_RemoveElement, FS_CardinalityType

\* The recursion defines a function on the subsets of a finite set.
LEMMA SumExists ==
  ASSUME NEW map, NEW S, IsFiniteSet(S)
  PROVE  \E g : SumOf(g, map, S)
<1> DEFINE Small(n) == {s \in SUBSET S : Cardinality(s) <= n}
           Fails == {n \in Nat : ~ \E g : SumOn(g, map, Small(n))}
<1>1. \A s \in SUBSET S : IsFiniteSet(s) /\ Cardinality(s) \in Nat
  BY FS_Subset, FS_CardinalityType
<1>2. Fails = {}
  <2>1. SUFFICES ASSUME Fails # {} PROVE FALSE
    OBVIOUS
  <2>2. PICK n \in Fails : \A m \in Fails : n <= m
    <3>1. Fails \in SUBSET Nat
      OBVIOUS
    <3> HIDE DEF Fails
    <3> QED
      BY <2>1, <3>1, LeastOf
  <2>3. n \in Nat /\ ~ \E g : SumOn(g, map, Small(n))
    BY <2>2
  <2>4. CASE n = 0
    <3>1. \A s \in Small(n) : s = {}
      BY <1>1, <2>4, FS_EmptySet
    <3>2. PICK D : D = Small(n)
      OBVIOUS
    <3>3. PICK g : g = [s \in D |-> 0]
      OBVIOUS
    <3>4. \A s \in D : SumStep(g, map, s) = 0
      BY <3>1, <3>2 DEF SumStep
    <3>5. SumOn(g, map, D)
      BY <3>3, <3>4 DEF SumOn
    <3> QED
      BY <2>3, <3>2, <3>5
  <2>5. CASE n # 0
    <3>1. n - 1 \in Nat /\ n - 1 \notin Fails
      <4>1. n - 1 \in Nat /\ ~ (n <= n - 1)
        BY <2>3, <2>5
      <4> HIDE DEF Fails
      <4> QED
        BY <2>2, <4>1
    <3>2. PICK g : SumOn(g, map, Small(n - 1))
      BY <3>1
    <3>3. PICK D, E : D = Small(n) /\ E = Small(n - 1)
      OBVIOUS
    <3>4. g = [s \in E |-> SumStep(g, map, s)]
      BY <3>2, <3>3 DEF SumOn
    <3>5. PICK h : h = [s \in D |-> IF s \in E THEN g[s] ELSE SumStep(g, map, s)]
      OBVIOUS
    <3>6. ASSUME NEW s \in D PROVE h[s] = SumStep(h, map, s)
      <4>1. h[s] = SumStep(g, map, s)
        BY <3>4, <3>5
      <4>2. CASE s = {}
        BY <4>1, <4>2 DEF SumStep
      <4>3. CASE s # {}
        <5>1. s \ {Some(s)} \in E /\ s \ {Some(s)} \in D
          <6>1. s \in SUBSET S /\ IsFiniteSet(s) /\ Cardinality(s) <= n
            BY <1>1, <3>3
          <6>2. /\ Cardinality(s) \in Nat /\ Cardinality(s \ {Some(s)}) \in Nat
                /\ Cardinality(s \ {Some(s)}) = Cardinality(s) - 1
            BY <4>3, <6>1, SomeOf
          <6>3. s \ {Some(s)} \in SUBSET S
            BY <6>1
          <6>4. Cardinality(s \ {Some(s)}) <= n - 1 /\ Cardinality(s \ {Some(s)}) <= n
            BY <2>3, <6>1, <6>2
          <6> QED
            BY <3>3, <6>3, <6>4
        <5>2. h[s \ {Some(s)}] = g[s \ {Some(s)}]
          BY <3>5, <5>1
        <5> QED
          BY <4>1, <4>3, <5>2 DEF SumStep
      <4> QED
        BY <4>2, <4>3
    <3>7. h = [s \in D |-> SumStep(h, map, s)]
      <4>1. h = [s \in D |-> h[s]]
        BY <3>5
      <4> QED
        BY <3>6, <4>1, Zenon
    <3> QED
      BY <2>3, <3>3, <3>7 DEF SumOn
  <2> QED
    BY <2>4, <2>5
<1>3. Cardinality(S) \in Nat /\ Cardinality(S) \notin Fails
  <2>1. Cardinality(S) \in Nat
    BY FS_CardinalityType
  <2> HIDE DEF Fails
  <2> QED
    BY <1>2, <2>1
<1>4. PICK g : SumOn(g, map, Small(Cardinality(S)))
  BY <1>3
<1>5. Small(Cardinality(S)) = SUBSET S
  <2>1. \A s \in SUBSET S : Cardinality(s) <= Cardinality(S)
    BY FS_Subset
  <2> QED
    BY <2>1
<1> QED
  BY <1>4, <1>5 DEF SumOf

\* Two such functions agree where their maps do.
LEMMA SumsAgree ==
  ASSUME NEW map, NEW other, NEW S, NEW T, T \subseteq S, IsFiniteSet(T),
         \A m \in T : map[m] = other[m],
         NEW g, SumOf(g, map, S), NEW h, SumOf(h, other, T)
  PROVE  g[T] = h[T]
<1> DEFINE Fails == {s \in SUBSET T : g[s] # h[s]}
<1>1. \A s \in SUBSET T : IsFiniteSet(s)
  BY FS_Subset
<1>2. SUFFICES ASSUME Fails # {} PROVE FALSE
  OBVIOUS
<1>3. PICK s \in Fails : \A t \in Fails : Cardinality(s) <= Cardinality(t)
  <2>1. \A t \in Fails : IsFiniteSet(t)
    BY <1>1
  <2> HIDE DEF Fails
  <2> QED
    BY <1>2, <2>1, SmallestOf
<1>4. s \in SUBSET T /\ s \in SUBSET S /\ g[s] # h[s] /\ IsFiniteSet(s)
  BY <1>1, <1>3
<1>5. g[s] = SumStep(g, map, s) /\ h[s] = SumStep(h, other, s)
  <2>1. g = [t \in SUBSET S |-> SumStep(g, map, t)] /\ h = [t \in SUBSET T |-> SumStep(h, other, t)]
    BY DEF SumOf, SumOn
  <2> QED
    BY <1>4, <2>1, Zenon
<1>6. s # {}
  BY <1>4, <1>5 DEF SumStep
<1>7. /\ Some(s) \in s /\ Cardinality(s) \in Nat /\ Cardinality(s \ {Some(s)}) \in Nat
      /\ Cardinality(s \ {Some(s)}) = Cardinality(s) - 1
  BY <1>4, <1>6, SomeOf
<1>8. g[s \ {Some(s)}] = h[s \ {Some(s)}]
  <2>1. s \ {Some(s)} \notin Fails
    <3>1. ~ (Cardinality(s) <= Cardinality(s \ {Some(s)}))
      BY <1>7
    <3> HIDE DEF Fails
    <3> QED
      BY <1>3, <3>1
  <2>2. s \ {Some(s)} \in SUBSET T
    BY <1>4
  <2> QED
    BY <2>1, <2>2
<1>9. map[Some(s)] = other[Some(s)]
  BY <1>4, <1>7
<1> QED
  BY <1>4, <1>5, <1>6, <1>8, <1>9 DEF SumStep

\* The sum depends only on the ranges of the objects that are summed up.
LEMMA SumLenSame ==
  ASSUME NEW map, NEW other, NEW S, IsFiniteSet(S), \A m \in S : map[m] = other[m]
  PROVE  SumLen(map, S) = SumLen(other, S)
<1>1. PICK g : g = (CHOOSE f : SumOf(f, map, S))
  OBVIOUS
<1>2. PICK h : h = (CHOOSE f : SumOf(f, other, S))
  OBVIOUS
<1>3. SumOf(g, map, S) /\ SumOf(h, other, S)
  BY <1>1, <1>2, SumExists
<1>4. g[S] = h[S]
  <2>1. S \subseteq S
    OBVIOUS
  <2> QED
    BY <1>3, <2>1, SumsAgree
<1> QED
  BY <1>1, <1>2, <1>4, SumIs

\* No objects, no memory.
LEMMA SumLenEmpty ==
  ASSUME NEW map
  PROVE  SumLen(map, {}) = 0
<1>1. PICK g : g = (CHOOSE f : SumOf(f, map, {}))
  OBVIOUS
<1>2. SumOf(g, map, {})
  BY <1>1, SumExists, FS_EmptySet
<1>3. g[{}] = SumStep(g, map, {})
  <2>1. g = [t \in SUBSET {} |-> SumStep(g, map, t)] /\ {} \in SUBSET {}
    BY <1>2 DEF SumOf, SumOn
  <2> QED
    BY <2>1, Zenon
<1> QED
  BY <1>1, <1>3, SumIs DEF SumStep

\* The first step of a sum.
LEMMA SumLenStep ==
  ASSUME NEW map, NEW S, IsFiniteSet(S), S # {}
  PROVE  SumLen(map, S) = Len2(map[Some(S)]) + SumLen(map, S \ {Some(S)})
<1>0. PICK U : U = S \ {Some(S)}
  OBVIOUS
<1>1. PICK g : g = (CHOOSE f : SumOf(f, map, S))
  OBVIOUS
<1>2. PICK h : h = (CHOOSE f : SumOf(f, map, U))
  OBVIOUS
<1>3. IsFiniteSet(U) /\ U \subseteq S
  BY <1>0, SomeOf
<1>4. SumOf(g, map, S) /\ SumOf(h, map, U)
  BY <1>1, <1>2, <1>3, SumExists
<1>5. g[U] = h[U]
  <2>1. PICK other : other = map
    OBVIOUS
  <2>2. SumOf(h, other, U) /\ \A m \in U : map[m] = other[m]
    BY <1>4, <2>1
  <2> QED
    BY <1>3, <1>4, <2>2, SumsAgree
<1>6. g[S] = SumStep(g, map, S)
  <2>1. g = [t \in SUBSET S |-> SumStep(g, map, t)] /\ S \in SUBSET S
    BY <1>4 DEF SumOf, SumOn
  <2> QED
    BY <2>1, Zenon
<1>7. SumLen(map, S) = g[S] /\ SumLen(map, U) = h[U]
  BY <1>1, <1>2, SumIs
<1> QED
  BY <1>0, <1>5, <1>6, <1>7 DEF SumStep

\* A sum of lengths is a natural number.
LEMMA SumLenNat ==
  ASSUME NEW map, NEW S, IsFiniteSet(S), \A m \in S : Len2(map[m]) \in Nat
  PROVE  SumLen(map, S) \in Nat
<1> DEFINE Fails == {s \in SUBSET S : SumLen(map, s) \notin Nat}
<1>1. \A s \in SUBSET S : IsFiniteSet(s)
  BY FS_Subset
<1>2. SUFFICES ASSUME Fails # {} PROVE FALSE
  OBVIOUS
<1>3. PICK s \in Fails : \A t \in Fails : Cardinality(s) <= Cardinality(t)
  <2>1. \A t \in Fails : IsFiniteSet(t)
    BY <1>1
  <2> HIDE DEF Fails
  <2> QED
    BY <1>2, <2>1, SmallestOf
<1>4. s \in SUBSET S /\ SumLen(map, s) \notin Nat /\ IsFiniteSet(s)
  BY <1>1, <1>3
<1>5. s # {}
  BY <1>4, SumLenEmpty
<1>6. /\ Some(s) \in s /\ Cardinality(s) \in Nat /\ Cardinality(s \ {Some(s)}) \in Nat
      /\ Cardinality(s \ {Some(s)}) = Cardinality(s) - 1
  BY <1>4, <1>5, SomeOf
<1>7. s \ {Some(s)} \notin Fails
  <2>1. ~ (Cardinality(s) <= Cardinality(s \ {Some(s)}))
    BY <1>6
  <2> HIDE DEF Fails
  <2> QED
    BY <1>3, <2>1
<1>8. SumLen(map, s \ {Some(s)}) \in Nat
  BY <1>4, <1>7
<1>9. Len2(map[Some(s)]) \in Nat
  BY <1>4, <1>6
<1>10. SumLen(map, s) = Len2(map[Some(s)]) + SumLen(map, s \ {Some(s)})
  BY <1>4, <1>5, SumLenStep
<1>11. PICK a, b : a = Len2(map[Some(s)]) /\ b = SumLen(map, s \ {Some(s)})
  OBVIOUS
<1>12. a + b \in Nat
  BY <1>8, <1>9, <1>11
<1> QED
  BY <1>4, <1>10, <1>11, <1>12

\* The sum does not depend on the order: any object can be taken out first.
LEMMA SumLenAdd ==
  ASSUME NEW map, NEW S, IsFiniteSet(S), \A m \in S : Len2(map[m]) \in Nat, NEW x \in S
  PROVE  SumLen(map, S) = Len2(map[x]) + SumLen(map, S \ {x})
<1> DEFINE Adds(s) == \A y \in s : SumLen(map, s) = Len2(map[y]) + SumLen(map, s \ {y})
           Fails == {s \in SUBSET S : ~ Adds(s)}
<1>1. \A s \in SUBSET S : IsFiniteSet(s)
  BY FS_Subset
<1>2. SUFFICES ASSUME Fails # {} PROVE FALSE
  OBVIOUS
<1>3. PICK s \in Fails : \A t \in Fails : Cardinality(s) <= Cardinality(t)
  <2>1. \A t \in Fails : IsFiniteSet(t)
    BY <1>1
  <2> HIDE DEF Fails
  <2> QED
    BY <1>2, <2>1, SmallestOf
<1>4. s \in SUBSET S /\ IsFiniteSet(s) /\ ~ Adds(s)
  BY <1>1, <1>3
<1>5. PICK y \in s : SumLen(map, s) # Len2(map[y]) + SumLen(map, s \ {y})
  BY <1>4
<1>6. PICK c : c = Some(s)
  OBVIOUS
<1>7. SumLen(map, s) = Len2(map[c]) + SumLen(map, s \ {c})
  BY <1>4, <1>5, <1>6, SumLenStep
<1>8. y # c
  BY <1>5, <1>7
<1>9. c \in s
  BY <1>5, <1>6 DEF Some
<1>10. ASSUME NEW z \in s PROVE Adds(s \ {z})
  <2>1. s \ {z} \in SUBSET S
    BY <1>4
  <2>2. Cardinality(s \ {z}) = Cardinality(s) - 1 /\ Cardinality(s) \in Nat
    BY <1>4, FS_RemoveElement, FS_CardinalityType
  <2>3. s \ {z} \notin Fails
    <3>1. ~ (Cardinality(s) <= Cardinality(s \ {z}))
      BY <2>2
    <3> HIDE DEF Fails
    <3> QED
      BY <1>3, <3>1
  <2> HIDE DEF Adds
  <2> QED
    BY <2>1, <2>3
<1>11. SumLen(map, s \ {c}) = Len2(map[y]) + SumLen(map, (s \ {c}) \ {y})
  <2>1. y \in s \ {c}
    BY <1>5, <1>8
  <2> QED
    BY <1>9, <1>10, <2>1
<1>12. SumLen(map, s \ {y}) = Len2(map[c]) + SumLen(map, (s \ {y}) \ {c})
  <2>1. c \in s \ {y}
    BY <1>8, <1>9
  <2> QED
    BY <1>5, <1>10, <2>1
<1>13. PICK U : U = (s \ {c}) \ {y}
  OBVIOUS
<1>14. U = (s \ {y}) \ {c}
  BY <1>13
<1>15. PICK a, b, d : a = Len2(map[c]) /\ b = Len2(map[y]) /\ d = SumLen(map, U)
  OBVIOUS
<1>16. a \in Nat /\ b \in Nat /\ d \in Nat
  <2>1. a \in Nat /\ b \in Nat
    BY <1>4, <1>5, <1>9, <1>15
  <2>2. IsFiniteSet(U) /\ \A m \in U : Len2(map[m]) \in Nat
    <3>1. U \in SUBSET S
      BY <1>4, <1>13
    <3> QED
      BY <1>1, <3>1
  <2> QED
    BY <1>15, <2>1, <2>2, SumLenNat
<1>17. SumLen(map, s) = a + (b + d) /\ Len2(map[y]) + SumLen(map, s \ {y}) = b + (a + d)
  BY <1>7, <1>11, <1>12, <1>13, <1>14, <1>15
<1>18. a + (b + d) = b + (a + d)
  BY <1>16
<1> QED
  BY <1>5, <1>17, <1>18

\* The sum over some of the objects is at most the sum over all.
LEMMA SumLenPart ==
  ASSUME NEW map, NEW S, IsFiniteSet(S), \A m \in S : Len2(map[m]) \in Nat, NEW P \in SUBSET S
  PROVE  SumLen(map, P) <= SumLen(map, S)
<1> DEFINE Fails == {s \in SUBSET S : P \subseteq s /\ ~ (SumLen(map, P) <= SumLen(map, s))}
<1>1. \A s \in SUBSET S : IsFiniteSet(s)
  BY FS_Subset
<1>2. \A s \in SUBSET S : SumLen(map, s) \in Nat
  BY <1>1, SumLenNat
<1>3. SUFFICES ASSUME Fails # {} PROVE FALSE
  OBVIOUS
<1>4. PICK s \in Fails : \A t \in Fails : Cardinality(s) <= Cardinality(t)
  <2>1. \A t \in Fails : IsFiniteSet(t)
    BY <1>1
  <2> HIDE DEF Fails
  <2> QED
    BY <1>3, <2>1, SmallestOf
<1>5. s \in SUBSET S /\ IsFiniteSet(s) /\ P \subseteq s /\ ~ (SumLen(map, P) <= SumLen(map, s))
  BY <1>1, <1>4
<1>6. P # s
  BY <1>2, <1>5
<1>7. PICK x \in s : x \notin P
  BY <1>5, <1>6
<1>8. s \ {x} \in SUBSET S /\ P \subseteq s \ {x}
  BY <1>5, <1>7
<1>9. s \ {x} \notin Fails
  <2>1. Cardinality(s \ {x}) = Cardinality(s) - 1 /\ Cardinality(s) \in Nat
    BY <1>5, <1>7, FS_RemoveElement, FS_CardinalityType
  <2>2. ~ (Cardinality(s) <= Cardinality(s \ {x}))
    BY <2>1
  <2> HIDE DEF Fails
  <2> QED
    BY <1>4, <2>2
<1>10. SumLen(map, P) <= SumLen(map, s \ {x})
  BY <1>8, <1>9
<1>11. SumLen(map, s) = Len2(map[x]) + SumLen(map, s \ {x})
  BY <1>5, <1>7, SumLenAdd
<1>12. PICK a, b, c : a = SumLen(map, P) /\ b = Len2(map[x]) /\ c = SumLen(map, s \ {x})
  OBVIOUS
<1>13. a \in Nat /\ b \in Nat /\ c \in Nat
  BY <1>2, <1>5, <1>7, <1>8, <1>12
<1>14. a <= b + c
  BY <1>10, <1>12, <1>13
<1> QED
  BY <1>5, <1>11, <1>12, <1>14

-----------------------------------------------------------------------------
(* The tables *)

Pairs(X) == {<<x[1], x[2]>> : x \in X}

\* Table H is table T with the pairs P added to the lists of operations.
Listed(T, H, P) ==
  /\ TableRec(H)
  /\ H.current = T.current /\ H.addresses = T.addresses /\ H.usage = T.usage
  /\ H.peak = T.peak /\ H.optimal_peak = T.optimal_peak
  /\ Pairs(H.operations) = Pairs(T.operations) \cup P

\* Every range starts above 0 and is not empty.
LEMMA RangeTypes ==
  ASSUME NEW r \in AllRanges
  PROVE  /\ r.start \in Nat /\ r.end \in Nat /\ 0 < r.start /\ r.start < r.end
         /\ Len2(r) \in Nat
  BY LivenessAssumption DEF Len2

\* The list X with the operation for those of the objects that do not have it.
WithNew(X, objs, o, kind) ==
  X \cup {<<m, o, kind>> : m \in {m \in objs : \A x \in X : x[1] # m \/ x[2] # o}}

\* A register adds the pairs of the operation and no others.
LEMMA PairsRegister ==
  ASSUME NEW X, NEW objs, NEW o, NEW kind
  PROVE  Pairs(WithNew(X, objs, o, kind)) = Pairs(X) \cup (objs \X {o})
<1> DEFINE new == {m \in objs : \A x \in X : x[1] # m \/ x[2] # o}
           Y == {<<m, o, kind>> : m \in new}
<1>1. ASSUME NEW p \in Pairs(X \cup Y) PROVE p \in Pairs(X) \cup (objs \X {o})
  <2>1. PICK x \in X \cup Y : p = <<x[1], x[2]>>
    BY DEF Pairs
  <2>2. CASE x \in X
    BY <2>1, <2>2 DEF Pairs
  <2>3. CASE x \in Y
    <3>1. PICK m \in objs : x = <<m, o, kind>>
      BY <2>3
    <3>2. p = <<m, o>>
      BY <2>1, <3>1
    <3> QED
      BY <3>1, <3>2
  <2> QED
    BY <2>2, <2>3
<1>2. ASSUME NEW p \in Pairs(X) PROVE p \in Pairs(X \cup Y)
  BY DEF Pairs
<1>3. ASSUME NEW m \in objs PROVE <<m, o>> \in Pairs(X \cup Y)
  <2>1. CASE m \in new
    <3>1. <<m, o, kind>> \in X \cup Y
      BY <2>1
    <3>2. <<m, o, kind>>[1] = m /\ <<m, o, kind>>[2] = o
      OBVIOUS
    <3> QED
      BY <3>1, <3>2 DEF Pairs
  <2>2. CASE m \notin new
    <3>1. PICK x \in X : x[1] = m /\ x[2] = o
      BY <2>2
    <3> QED
      BY <3>1 DEF Pairs
  <2> QED
    BY <2>1, <2>2
<1>4. ASSUME NEW p \in objs \X {o} PROVE p \in Pairs(X \cup Y)
  <2>1. PICK m \in objs : p = <<m, o>>
    OBVIOUS
  <2> QED
    BY <1>3, <2>1
<1>5. Pairs(X \cup Y) = Pairs(X) \cup (objs \X {o})
  <2> HIDE DEF Y
  <2> QED
    BY <1>1, <1>2, <1>4
<1> QED
  BY <1>5 DEF WithNew

\* memory_operation_register lists the operation for exactly the objects.
LEMMA RegisterLists ==
  ASSUME NEW T, TableRec(T), NEW objs, NEW o, NEW kind,
         NEW H, H = memory_operation_register(T, objs, o, kind)
  PROVE  Listed(T, H, objs \X {o})
<1>1. PICK X : X = WithNew(T.operations, objs, o, kind)
  OBVIOUS
<1>2. H = [T EXCEPT !.operations = X]
  BY <1>1 DEF memory_operation_register, WithNew
<1>3. PICK a, b, c, d, e, f, g :
        T = [current |-> a, addresses |-> b, operations |-> c, usage |-> d, peak |-> e,
             optimal_peak |-> f, peak_kernel |-> g]
  BY DEF TableRec
<1>4. H = [current |-> a, addresses |-> b, operations |-> X, usage |-> d, peak |-> e,
           optimal_peak |-> f, peak_kernel |-> g]
  BY <1>2, <1>3
<1>5. /\ TableRec(H) /\ H.current = T.current /\ H.addresses = T.addresses /\ H.usage = T.usage
      /\ H.peak = T.peak /\ H.optimal_peak = T.optimal_peak /\ H.operations = X
  BY <1>3, <1>4 DEF TableRec
<1>6. Pairs(X) = Pairs(T.operations) \cup (objs \X {o})
  BY <1>1, PairsRegister
<1> QED
  BY <1>5, <1>6 DEF Listed

\* Two calls in a row, as for a copy on the device.
LEMMA ListedTwice ==
  ASSUME NEW T, NEW G, NEW H, NEW P, NEW Q, Listed(T, G, P), Listed(G, H, Q)
  PROVE  Listed(T, H, P \cup Q)
  BY DEF Listed

\* Listing an operation leaves the rest of the table.
LEMMA ListedTable ==
  ASSUME NEW T, NEW objs, Table(T, objs), NEW H, NEW P, Listed(T, H, P)
  PROVE  Table(H, objs)
  BY DEF Listed, Table, Addressed, Counted

\* The lengths and the sum of the objects of a table.
LEMMA ObjectSums ==
  ASSUME NEW objs, NEW rs, rs \subseteq AllRanges, NEW o \in Nat, Objects(objs, rs, o)
  PROVE  /\ IsFiniteSet(DOMAIN objs)
         /\ \A m \in DOMAIN objs : Len2(objs[m]) \in Nat
         /\ \A S \in SUBSET DOMAIN objs :
              /\ IsFiniteSet(S) /\ SumLen(objs, S) \in Nat
              /\ SumLen(objs, S) <= SumLen(objs, DOMAIN objs)
<1>1. IsFiniteSet(1 .. o)
  BY FS_Interval
<1>2. IsFiniteSet(DOMAIN objs)
  BY <1>1, FS_Subset DEF Objects
<1>3. ASSUME NEW m \in DOMAIN objs PROVE Len2(objs[m]) \in Nat
  <2>1. PICK r \in AllRanges : r = objs[m]
    BY DEF Objects
  <2> QED
    BY <2>1, RangeTypes
<1>4. ASSUME NEW S \in SUBSET DOMAIN objs
      PROVE  /\ IsFiniteSet(S) /\ SumLen(objs, S) \in Nat
             /\ SumLen(objs, S) <= SumLen(objs, DOMAIN objs)
  <2>1. IsFiniteSet(S)
    BY <1>2, FS_Subset
  <2>2. SumLen(objs, S) \in Nat
    BY <1>3, <2>1, SumLenNat
  <2>3. SumLen(objs, S) <= SumLen(objs, DOMAIN objs)
    <3>1. PICK D : D = DOMAIN objs
      OBVIOUS
    <3>2. IsFiniteSet(D) /\ (\A m \in D : Len2(objs[m]) \in Nat) /\ S \in SUBSET D
      BY <1>2, <1>3, <3>1
    <3>3. SumLen(objs, S) <= SumLen(objs, D)
      BY <3>2, SumLenPart
    <3> QED
      BY <3>1, <3>3
  <2> QED
    BY <2>1, <2>2, <2>3
<1> QED
  BY <1>2, <1>3, <1>4

\* The starts of objects that do not overlap are different.
LEMMA StartsDiffer ==
  ASSUME NEW objs, NEW rs, rs \subseteq AllRanges, NEW o \in Nat, Objects(objs, rs, o)
  PROVE  \A m, n \in DOMAIN objs : objs[m].start = objs[n].start => m = n
<1>1. SUFFICES ASSUME NEW m \in DOMAIN objs, NEW n \in DOMAIN objs,
                      objs[m].start = objs[n].start, m # n
               PROVE  FALSE
  OBVIOUS
<1>2. objs[m] \in AllRanges /\ objs[n] \in AllRanges
  BY DEF Objects
<1>3. Overlaps(objs[m], objs[n])
  BY <1>1, <1>2, RangeTypes DEF Overlaps
<1> QED
  BY <1>1, <1>3 DEF Objects

\* The objects new are objs with the range r for p.
WithObject(objs, new, p, r) ==
  /\ p \notin DOMAIN objs
  /\ DOMAIN new = DOMAIN objs \cup {p} /\ new[p] = r
  /\ \A m \in DOMAIN objs : new[m] = objs[m]

IsNext(o, p) == p \in Nat /\ p = o + 1

\* What an allocation does to the objects.
LEMMA ObjectsPut ==
  ASSUME NEW objs, NEW rs, NEW o \in Nat, NEW p, IsNext(o, p), Objects(objs, rs, o), NEW r \in rs,
         \A m \in DOMAIN objs : ~ Overlaps(objs[m], r),
         NEW new, new = Put(objs, p, r)
  PROVE  Objects(new, rs, p) /\ WithObject(objs, new, p, r)
<1> USE DEF IsNext
<1>1. p \notin DOMAIN objs /\ p \in 1 .. p /\ 1 .. o \subseteq 1 .. p
  BY DEF Objects
<1>2. /\ DOMAIN new = DOMAIN objs \cup {p} /\ new[p] = r
      /\ \A m \in DOMAIN objs : new[m] = objs[m]
  BY <1>1 DEF Put
<1>3. DOMAIN new \subseteq 1 .. p /\ \A m \in DOMAIN new : new[m] \in rs
  BY <1>1, <1>2 DEF Objects
<1>4. ASSUME NEW m \in DOMAIN new, NEW n \in DOMAIN new, m # n
      PROVE  ~ Overlaps(new[m], new[n])
  <2>1. CASE m \in DOMAIN objs /\ n \in DOMAIN objs
    BY <1>2, <1>4, <2>1 DEF Objects
  <2>2. CASE m = p
    BY <1>2, <1>4, <2>2 DEF Overlaps
  <2>3. CASE n = p
    BY <1>2, <1>4, <2>3 DEF Overlaps
  <2> QED
    BY <1>2, <2>1, <2>2, <2>3
<1> QED
  BY <1>1, <1>2, <1>3, <1>4 DEF Objects, WithObject

\* A table after several of its fields were assigned.
AllocatedFields(T, x, y, z, w) ==
  [T EXCEPT !.current = x, !.addresses = y, !.usage = z, !.peak = w]
FreedFields(T, x, y, z) == [T EXCEPT !.addresses = y, !.current = x, !.usage = z]

\* The fields of a table after memory_op_callback has assigned some of them.
LEMMA AllocatedRec ==
  ASSUME NEW T, TableRec(T), NEW x, NEW y, NEW z, NEW w,
         NEW X, X = AllocatedFields(T, x, y, z, w)
  PROVE  /\ TableRec(X) /\ X.current = x /\ X.addresses = y /\ X.usage = z /\ X.peak = w
         /\ X.operations = T.operations /\ X.optimal_peak = T.optimal_peak
<1>0. PICK a, b, c, d, e, f, g :
        T = [current |-> a, addresses |-> b, operations |-> c, usage |-> d, peak |-> e,
             optimal_peak |-> f, peak_kernel |-> g]
  BY DEF TableRec
<1>1. PICK U : U = [T EXCEPT !.current = x]
  OBVIOUS
<1>2. PICK V : V = [U EXCEPT !.addresses = y]
  OBVIOUS
<1>3. PICK W : W = [V EXCEPT !.usage = z]
  OBVIOUS
<1>4. U = [current |-> x, addresses |-> b, operations |-> c, usage |-> d, peak |-> e,
           optimal_peak |-> f, peak_kernel |-> g]
  BY <1>0, <1>1
<1>5. V = [current |-> x, addresses |-> y, operations |-> c, usage |-> d, peak |-> e,
           optimal_peak |-> f, peak_kernel |-> g]
  BY <1>2, <1>4
<1>6. W = [current |-> x, addresses |-> y, operations |-> c, usage |-> z, peak |-> e,
           optimal_peak |-> f, peak_kernel |-> g]
  BY <1>3, <1>5
<1>7. X = [W EXCEPT !.peak = w]
  BY <1>1, <1>2, <1>3 DEF AllocatedFields
<1>8. X = [current |-> x, addresses |-> y, operations |-> c, usage |-> z, peak |-> w,
           optimal_peak |-> f, peak_kernel |-> g]
  BY <1>6, <1>7
<1> QED
  BY <1>0, <1>8 DEF TableRec

\* The same for memfree_op_callback.
LEMMA FreedRec ==
  ASSUME NEW T, TableRec(T), NEW x, NEW y, NEW z,
         NEW X, X = FreedFields(T, x, y, z)
  PROVE  /\ TableRec(X) /\ X.current = x /\ X.addresses = y /\ X.usage = z
         /\ X.peak = T.peak /\ X.operations = T.operations
         /\ X.optimal_peak = T.optimal_peak
<1>0. PICK a, b, c, d, e, f, g :
        T = [current |-> a, addresses |-> b, operations |-> c, usage |-> d, peak |-> e,
             optimal_peak |-> f, peak_kernel |-> g]
  BY DEF TableRec
<1>1. PICK U : U = [T EXCEPT !.addresses = y]
  OBVIOUS
<1>2. PICK V : V = [U EXCEPT !.current = x]
  OBVIOUS
<1>3. U = [current |-> a, addresses |-> y, operations |-> c, usage |-> d, peak |-> e,
           optimal_peak |-> f, peak_kernel |-> g]
  BY <1>0, <1>1
<1>4. V = [current |-> x, addresses |-> y, operations |-> c, usage |-> d, peak |-> e,
           optimal_peak |-> f, peak_kernel |-> g]
  BY <1>2, <1>3
<1>5. X = [V EXCEPT !.usage = z]
  BY <1>1, <1>2 DEF FreedFields
<1>6. X = [current |-> x, addresses |-> y, operations |-> c, usage |-> z, peak |-> e,
           optimal_peak |-> f, peak_kernel |-> g]
  BY <1>4, <1>5
<1> QED
  BY <1>0, <1>6 DEF TableRec

\* Table H, of the objects new, is table T with operation p listed for ids.
TableStep(T, H, new, rs, p, ids) ==
  /\ Table(H, new)
  /\ Objects(new, rs, p)
  /\ Pairs(H.operations) = Pairs(T.operations) \cup (ids \X {p})

\* memory_op_callback and its sibling for sub-allocations.
LEMMA AllocatedTable ==
  ASSUME NEW T, NEW objs, Table(T, objs), NEW rs, rs \subseteq AllRanges, NEW o \in Nat,
         NEW p, IsNext(o, p), Objects(objs, rs, o), NEW r \in rs,
         \A m \in DOMAIN objs : ~ Overlaps(objs[m], r),
         NEW new, new = Put(objs, p, r), NEW H, H = Allocated(T, p, r)
  PROVE  TableStep(T, H, new, rs, p, {p})
<1>1. Objects(new, rs, p) /\ WithObject(objs, new, p, r)
  BY ObjectsPut
<1> USE DEF WithObject
<1> USE DEF IsNext
<1>2. /\ r.start \in Nat /\ r.end \in Nat /\ 0 < r.start /\ r.start < r.end /\ Len2(r) \in Nat
  BY RangeTypes
<1>3. r.start \notin DOMAIN T.addresses
  <2>1. SUFFICES ASSUME NEW m \in DOMAIN objs, objs[m].start = r.start PROVE FALSE
    BY DEF Table, Addressed, Starts
  <2>2. objs[m] \in AllRanges
    BY DEF Objects
  <2> QED
    BY <1>2, <2>1, <2>2, RangeTypes DEF Overlaps
<1>4. PICK cur, adr, use, top :
        /\ cur = Put(T.current, p, r) /\ adr = Put(T.addresses, r.start, p)
        /\ use = T.usage + Len2(r) /\ top = Peak(T, T.usage + Len2(r))
  OBVIOUS
<1>5. PICK U : U = AllocatedFields(T, cur, adr, use, top)
  OBVIOUS
<1>6. /\ TableRec(U) /\ U.current = cur /\ U.addresses = adr /\ U.usage = use /\ U.peak = top
      /\ U.operations = T.operations /\ U.optimal_peak = T.optimal_peak
  BY <1>5, AllocatedRec DEF Table
<1>7. H = memory_operation_register(U, {p}, p, "ALLOC")
  <2>1. TryEmplace(T.current, p, r) = cur /\ TryEmplace(T.addresses, r.start, p) = adr
    <3>1. p \notin DOMAIN T.current
      BY <1>1 DEF Table, Counted
    <3> QED
      BY <1>3, <1>4, <3>1 DEF TryEmplace
  <2>2. [T EXCEPT !.current = TryEmplace(@, p, r),
                  !.addresses = TryEmplace(@, r.start, p),
                  !.usage = @ + Len2(r),
                  !.peak = Peak(T, T.usage + Len2(r))] = U
    BY <1>4, <1>5, <2>1 DEF AllocatedFields
  <2> QED
    BY <2>2 DEF Allocated
<1>9. Listed(U, H, {p} \X {p})
  BY <1>6, <1>7, RegisterLists
<1>10. /\ TableRec(H) /\ H.current = cur /\ H.addresses = adr /\ H.usage = use /\ H.peak = top
       /\ H.optimal_peak = T.optimal_peak
       /\ Pairs(H.operations) = Pairs(T.operations) \cup ({p} \X {p})
  BY <1>6, <1>9 DEF Listed
<1>11. Addressed(H, new)
  <2>1. /\ DOMAIN adr = DOMAIN T.addresses \cup {r.start} /\ adr[r.start] = p
        /\ \A x \in DOMAIN T.addresses : adr[x] = T.addresses[x]
    BY <1>3, <1>4 DEF Put
  <2>2. /\ DOMAIN T.addresses = Starts(objs, DOMAIN objs)
        /\ \A m \in DOMAIN objs : T.addresses[objs[m].start] = m
    BY DEF Table, Addressed
  <2>3. Starts(new, DOMAIN new) = Starts(objs, DOMAIN objs) \cup {r.start}
    BY <1>1 DEF Starts
  <2>4. ASSUME NEW m \in DOMAIN new PROVE adr[new[m].start] = m
    <3>1. CASE m \in DOMAIN objs
      <4>1. objs[m].start \in DOMAIN T.addresses
        BY <2>2, <3>1 DEF Starts
      <4> QED
        BY <1>1, <2>1, <2>2, <3>1, <4>1
    <3>2. CASE m = p
      BY <1>1, <2>1, <3>2
    <3> QED
      BY <1>1, <3>1, <3>2
  <2> QED
    BY <1>10, <2>1, <2>2, <2>3, <2>4 DEF Addressed
<1>12. Counted(H, new)
  <2>1. T.current = objs /\ T.usage = SumLen(objs, DOMAIN objs) /\ T.peak \in Nat
        /\ T.usage <= T.peak /\ T.optimal_peak \in Nat /\ T.optimal_peak <= T.peak
    BY DEF Table, Counted
  <2>2. T.usage \in Nat
    BY <2>1, ObjectSums
  <2>3. SumLen(new, DOMAIN new) = Len2(r) + SumLen(objs, DOMAIN objs)
    <3>1. PICK D, E : D = DOMAIN new /\ E = DOMAIN objs
      OBVIOUS
    <3>2. IsFiniteSet(D) /\ \A m \in D : Len2(new[m]) \in Nat
      <4>1. p \in Nat
        OBVIOUS
      <4>2. IsFiniteSet(DOMAIN new) /\ \A m \in DOMAIN new : Len2(new[m]) \in Nat
        BY <1>1, <4>1, ObjectSums, Zenon
      <4> QED
        BY <3>1, <4>2
    <3>3. p \in D /\ D \ {p} = E
      BY <1>1, <3>1
    <3>4. SumLen(new, D) = Len2(new[p]) + SumLen(new, D \ {p})
      <4>1. PICK map : map = new
        OBVIOUS
      <4>2. PICK x \in D : x = p
        BY <3>3
      <4>3. \A m \in D : Len2(map[m]) \in Nat
        BY <3>2, <4>1
      <4>4. SumLen(map, D) = Len2(map[x]) + SumLen(map, D \ {x})
        BY <3>2, <4>3, SumLenAdd
      <4> QED
        BY <4>1, <4>2, <4>4
    <3>5. IsFiniteSet(E) /\ \A m \in E : new[m] = objs[m]
      BY <1>1, <3>1, <3>2, <3>3, FS_Subset
    <3>6. SumLen(new, E) = SumLen(objs, E)
      BY <3>5, SumLenSame
    <3> QED
      BY <1>1, <3>1, <3>3, <3>4, <3>6
  <2>4. use = Len2(r) + T.usage /\ use \in Nat
    BY <1>2, <1>4, <2>2
  <2>5. top \in Nat /\ use <= top /\ T.peak <= top
    BY <1>4, <2>1, <2>4 DEF Peak
  <2>6. cur = new
    BY <1>4, <2>1
  <2>7. T.optimal_peak <= top
    BY <2>1, <2>5
  <2> QED
    BY <1>10, <2>1, <2>3, <2>4, <2>5, <2>6, <2>7 DEF Counted
<1> QED
  BY <1>1, <1>10, <1>11, <1>12 DEF Table, TableStep

\* memfree_op_callback and its sibling for sub-allocations find the object by its
\* address.
LEMMA FreedTable ==
  ASSUME NEW T, NEW objs, Table(T, objs), NEW rs, rs \subseteq AllRanges, NEW o \in Nat,
         NEW p, IsNext(o, p), Objects(objs, rs, o), NEW m \in DOMAIN objs,
         NEW new, new = Erase(objs, m), NEW H, H = Freed(T, p, objs[m])
  PROVE  TableStep(T, H, new, rs, p, {m})
<1> USE DEF IsNext
<1>1. DOMAIN new = DOMAIN objs \ {m} /\ \A n \in DOMAIN objs : n # m => new[n] = objs[n]
  BY DEF Erase
<1>2. Objects(new, rs, p)
  <2>1. 1 .. o \subseteq 1 .. p
    OBVIOUS
  <2> QED
    BY <1>1, <2>1 DEF Objects
<1>3. T.addresses[objs[m].start] = m
  BY DEF Table, Addressed
<1>4. PICK r \in AllRanges : r = objs[m]
  BY DEF Objects
<1>5. PICK cur, adr, use :
        /\ cur = Erase(T.current, m) /\ adr = Erase(T.addresses, r.start)
        /\ use = T.usage - Len2(r)
  OBVIOUS
<1>6. PICK U : U = FreedFields(T, cur, adr, use)
  OBVIOUS
<1>7. /\ TableRec(U) /\ U.current = cur /\ U.addresses = adr /\ U.usage = use
      /\ U.peak = T.peak /\ U.operations = T.operations /\ U.optimal_peak = T.optimal_peak
  BY <1>6, FreedRec DEF Table
<1>8. H = memory_operation_register(U, {m}, p, "FREE")
  <2>1. [T EXCEPT !.addresses = EraseAddress(@, r.start), !.current = Erase(@, m),
                  !.usage = @ - Len2(r)] = U
    BY <1>5, <1>6 DEF FreedFields, EraseAddress
  <2>2. T.addresses[r.start] = m
    BY <1>3, <1>4
  <2>3. H = Freed(T, p, r)
    BY <1>4
  <2> QED
    BY <2>1, <2>2, <2>3 DEF Freed
<1>10. Listed(U, H, {m} \X {p})
  BY <1>7, <1>8, RegisterLists
<1>11. /\ TableRec(H) /\ H.current = cur /\ H.addresses = adr /\ H.usage = use
       /\ H.peak = T.peak /\ H.optimal_peak = T.optimal_peak
       /\ Pairs(H.operations) = Pairs(T.operations) \cup ({m} \X {p})
  BY <1>7, <1>10 DEF Listed
<1>12. Addressed(H, new)
  <2>1. /\ DOMAIN adr = DOMAIN T.addresses \ {r.start}
        /\ \A x \in DOMAIN T.addresses : x # r.start => adr[x] = T.addresses[x]
    BY <1>5 DEF Erase
  <2>2. /\ DOMAIN T.addresses = Starts(objs, DOMAIN objs)
        /\ \A n \in DOMAIN objs : T.addresses[objs[n].start] = n
    BY DEF Table, Addressed
  <2>3. \A n \in DOMAIN objs : n # m => objs[n].start # r.start
    BY <1>4, StartsDiffer
  <2>4. Starts(new, DOMAIN new) = Starts(objs, DOMAIN objs) \ {r.start}
    BY <1>1, <1>4, <2>3 DEF Starts
  <2>5. ASSUME NEW n \in DOMAIN new PROVE adr[new[n].start] = n
    <3>1. n \in DOMAIN objs /\ n # m /\ new[n] = objs[n]
      BY <1>1
    <3>2. objs[n].start \in DOMAIN T.addresses
      BY <2>2, <3>1 DEF Starts
    <3> QED
      BY <2>1, <2>2, <2>3, <3>1, <3>2
  <2> QED
    BY <1>11, <2>1, <2>2, <2>4, <2>5 DEF Addressed
<1>13. Counted(H, new)
  <2>1. T.current = objs /\ T.usage = SumLen(objs, DOMAIN objs) /\ T.peak \in Nat
        /\ T.usage <= T.peak /\ T.optimal_peak \in Nat /\ T.optimal_peak <= T.peak
    BY DEF Table, Counted
  <2>2. PICK D, E : D = DOMAIN objs /\ E = DOMAIN new
    OBVIOUS
  <2>3. IsFiniteSet(D) /\ (\A n \in D : Len2(objs[n]) \in Nat) /\ m \in D /\ D \ {m} = E
    BY <1>1, <2>2, ObjectSums
  <2>4. SumLen(objs, D) = Len2(objs[m]) + SumLen(objs, D \ {m})
    BY <2>3, SumLenAdd
  <2>5. IsFiniteSet(E) /\ SumLen(objs, E) \in Nat
    <3>1. E \in SUBSET DOMAIN objs
      BY <2>2, <2>3
    <3> QED
      BY <3>1, ObjectSums
  <2>6. SumLen(objs, E) = SumLen(new, E)
    <3>1. \A n \in E : objs[n] = new[n]
      BY <1>1, <2>2
    <3> QED
      BY <2>5, <3>1, SumLenSame
  <2>7. PICK s, l : s = SumLen(new, E) /\ l = Len2(r)
    OBVIOUS
  <2>8. s \in Nat /\ l \in Nat /\ T.usage = l + s
    BY <1>4, <2>1, <2>2, <2>3, <2>4, <2>5, <2>6, <2>7
  <2>9. use = s /\ use <= T.peak
    BY <1>5, <2>1, <2>7, <2>8
  <2>10. cur = new
    BY <1>5, <2>1
  <2> QED
    BY <1>11, <2>1, <2>2, <2>7, <2>9, <2>10 DEF Counted
<1> QED
  BY <1>2, <1>3, <1>11, <1>12, <1>13 DEF Table, TableStep

\* The objects at the addresses a kernel hit are the objects it used.
LEMMA HitObjects ==
  ASSUME NEW T, NEW objs, Addressed(T, objs), NEW ids, ids \subseteq DOMAIN objs
  PROVE  {T.addresses[a] : a \in Starts(objs, ids)} = ids
<1>1. ASSUME NEW x \in {T.addresses[a] : a \in Starts(objs, ids)} PROVE x \in ids
  <2>1. PICK m \in ids : x = T.addresses[objs[m].start]
    BY DEF Starts
  <2> QED
    BY <2>1 DEF Addressed
<1>2. ASSUME NEW m \in ids PROVE m \in {T.addresses[a] : a \in Starts(objs, ids)}
  <2>1. objs[m].start \in Starts(objs, ids) /\ T.addresses[objs[m].start] = m
    BY DEF Starts, Addressed
  <2> QED
    BY <2>1
<1> QED
  BY <1>1, <1>2, Zenon

HitStep(T, H, objs, ids, k) ==
  Table(H, objs) /\ Pairs(H.operations) = Pairs(T.operations) \cup (ids \X {k})

\* update_aux_hit: the memory a kernel needs is at most the memory in use.
LEMMA HitTable ==
  ASSUME NEW T, NEW objs, Table(T, objs), NEW rs, rs \subseteq AllRanges, NEW o \in Nat,
         Objects(objs, rs, o), NEW ids, ids \subseteq DOMAIN objs, NEW k,
         NEW H, H = update_aux_hit(T, k, Starts(objs, ids))
  PROVE  HitStep(T, H, objs, ids, k)
<1>1. {T.addresses[a] : a \in Starts(objs, ids)} = ids
  BY HitObjects DEF Table
<1>2. PICK use : use = SumLen(objs, ids)
  OBVIOUS
<1>3. PICK U : U = memory_operation_register(T, ids, k, "ACCESS")
  OBVIOUS
<1>4. T.current = objs /\ T.usage = SumLen(objs, DOMAIN objs)
      /\ T.peak \in Nat /\ T.usage <= T.peak /\ T.usage \in Nat
  BY ObjectSums DEF Table, Counted
<1>5. H = IF T.optimal_peak < use THEN [U EXCEPT !.optimal_peak = use, !.peak_kernel = k] ELSE U
  BY <1>1, <1>2, <1>3, <1>4 DEF update_aux_hit
<1>6. Listed(T, U, ids \X {k})
  BY <1>3, RegisterLists DEF Table
<1>7. Table(U, objs) /\ Pairs(U.operations) = Pairs(T.operations) \cup (ids \X {k})
  BY <1>6, ListedTable DEF Listed
<1>8. use \in Nat /\ use <= T.peak
  <2>1. use \in Nat /\ use <= T.usage
    BY <1>2, <1>4, ObjectSums
  <2> QED
    BY <1>4, <2>1
<1>9. CASE T.optimal_peak < use
  <2>1. PICK a, b, c, d, e, f, g :
          U = [current |-> a, addresses |-> b, operations |-> c, usage |-> d, peak |-> e,
               optimal_peak |-> f, peak_kernel |-> g]
    BY <1>7 DEF Table, TableRec
  <2>2. H = [current |-> a, addresses |-> b, operations |-> c, usage |-> d, peak |-> e,
             optimal_peak |-> use, peak_kernel |-> k]
    BY <1>5, <1>9, <2>1
  <2>3. /\ TableRec(H) /\ H.current = U.current /\ H.addresses = U.addresses
        /\ H.operations = U.operations /\ H.usage = U.usage /\ H.peak = U.peak
        /\ H.optimal_peak = use
    BY <2>1, <2>2 DEF TableRec
  <2>4. H.peak = T.peak
    BY <1>6, <2>3 DEF Listed
  <2> QED
    BY <1>7, <1>8, <2>3, <2>4 DEF HitStep, Table, Addressed, Counted
<1>10. CASE ~ (T.optimal_peak < use)
  BY <1>5, <1>7, <1>10 DEF HitStep
<1> QED
  BY <1>9, <1>10

\* A set of naturals with an upper bound has a greatest element.
LEMMA GreatestOf ==
  ASSUME NEW S \in SUBSET Nat, S # {}, NEW k \in Nat, \A s \in S : s <= k
  PROVE  \E x \in S : \A y \in S : y <= x
<1> DEFINE T == {n \in Nat : k - n \in S}
<1>1. T # {}
  <2>1. PICK s \in S : TRUE
    OBVIOUS
  <2>2. k - s \in T
    BY <2>1
  <2> QED
    BY <2>2
<1>2. PICK n \in T : \A m \in T : n <= m
  BY <1>1, LeastOf
<1>3. ASSUME NEW y \in S PROVE y <= k - n
  <2>1. k - y \in T
    OBVIOUS
  <2> QED
    BY <1>2, <2>1
<1> QED
  BY <1>2, <1>3

\* Map::prev finds the last start at or before an address, if there is one.
LEMMA PrevIsLast ==
  ASSUME NEW T, DOMAIN T.addresses \subseteq Nat, NEW a \in Nat,
         NEW s \in DOMAIN T.addresses, s <= a
  PROVE  /\ PrevStart(T, a) \in DOMAIN T.addresses
         /\ PrevStart(T, a) <= a
         /\ \A x \in DOMAIN T.addresses : x <= a => x <= PrevStart(T, a)
<1>1. PICK below : below = {x \in DOMAIN T.addresses : x <= a}
  OBVIOUS
<1>2. below \in SUBSET Nat /\ below # {} /\ \A x \in below : x <= a
  BY <1>1
<1>3. \E x \in below : \A y \in below : y <= x
  BY <1>2, GreatestOf
<1>4. PrevStart(T, a) = CHOOSE x \in below : \A y \in below : y <= x
  BY <1>1, <1>2 DEF PrevStart
<1>5. PrevStart(T, a) \in below /\ \A y \in below : y <= PrevStart(T, a)
  BY <1>3, <1>4
<1> QED
  BY <1>1, <1>5

\* What is between the last starts before both ends of a range is all that the
\* range overlaps, if it starts in a sub-allocation.
LEMMA SubsListed ==
  ASSUME NEW T, NEW objs, Addressed(T, objs), NEW rs, rs \subseteq AllRanges, NEW o \in Nat,
         Objects(objs, rs, o), NEW r \in AllRanges,
         NEW x \in DOMAIN objs, Overlaps(objs[x], r),
         NEW y \in DOMAIN objs, objs[y].start <= r.start, r.start < objs[y].end
  PROVE  x \in SubsOf(T, r)
<1>1. PICK q \in AllRanges : q = objs[x]
  BY DEF Objects
<1>2. PICK u \in AllRanges : u = objs[y]
  BY DEF Objects
<1>3. /\ q.start \in Nat /\ q.end \in Nat /\ 0 < q.start /\ q.start < q.end
      /\ u.start \in Nat /\ u.end \in Nat /\ 0 < u.start /\ u.start < u.end
      /\ r.start \in Nat /\ r.end \in Nat /\ r.start < r.end
  BY RangeTypes
<1>4. q.start < r.end /\ r.start < q.end /\ u.start <= r.start
  BY <1>1, <1>2 DEF Overlaps
<1>5. DOMAIN T.addresses \subseteq Nat /\ 0 \notin DOMAIN T.addresses
  <2>1. ASSUME NEW m \in DOMAIN objs PROVE objs[m].start \in Nat \ {0}
    <3>1. PICK v \in AllRanges : v = objs[m]
      BY DEF Objects
    <3> QED
      BY <3>1, RangeTypes
  <2> QED
    BY <2>1 DEF Addressed, Starts
<1>6. q.start \in DOMAIN T.addresses /\ u.start \in DOMAIN T.addresses /\ T.addresses[q.start] = x
  BY <1>1, <1>2 DEF Addressed, Starts
<1>7. PICK lo : lo = PrevStart(T, r.start)
  OBVIOUS
<1>8. /\ lo \in DOMAIN T.addresses /\ lo <= r.start
      /\ \A s \in DOMAIN T.addresses : s <= r.start => s <= lo
  BY <1>3, <1>4, <1>5, <1>6, <1>7, PrevIsLast
<1>9. PICK hi : hi = PrevStart(T, r.end)
  OBVIOUS
<1>10. \A s \in DOMAIN T.addresses : s <= r.end => s <= hi
  <2>1. q.start <= r.end
    BY <1>3, <1>4
  <2> QED
    BY <1>3, <1>5, <1>6, <1>9, <2>1, PrevIsLast
<1>11. q.start <= hi
  BY <1>3, <1>4, <1>6, <1>10
<1>12. lo <= q.start
  <2>1. lo \in Nat
    BY <1>5, <1>8
  <2>2. CASE r.start <= q.start
    BY <1>3, <1>8, <2>1, <2>2
  <2>3. CASE q.start < r.start /\ q.start < lo
    <3>1. PICK n \in DOMAIN objs : lo = objs[n].start
      BY <1>8 DEF Addressed, Starts
    <3>2. PICK v \in AllRanges : v = objs[n]
      BY DEF Objects
    <3>3. n # x
      BY <1>1, <1>3, <2>3, <3>1
    <3>4. v.start \in Nat /\ v.end \in Nat /\ v.start < v.end /\ v.start = lo
      BY <3>1, <3>2, RangeTypes
    <3>5. q.start < v.end /\ v.start < q.end
      BY <1>3, <1>4, <1>8, <2>3, <3>4
    <3>6. Overlaps(objs[x], objs[n])
      BY <1>1, <3>2, <3>5 DEF Overlaps
    <3> QED
      BY <3>3, <3>6 DEF Objects
  <2> QED
    BY <1>3, <2>1, <2>2, <2>3
<1>13. lo # 0
  BY <1>5, <1>8
<1>14. q.start \in {s \in DOMAIN T.addresses : lo <= s /\ s <= hi}
  BY <1>6, <1>11, <1>12
<1>15. SubsOf(T, r) = {T.addresses[a] : a \in {s \in DOMAIN T.addresses : lo <= s /\ s <= hi}}
  BY <1>7, <1>9, <1>13 DEF SubsOf
<1> QED
  BY <1>6, <1>14, <1>15

-----------------------------------------------------------------------------
(* The graph: the parts of each function's result *)

\* The fields of graph H; the operations of each stream are only printed.
Fields(H, n, e, l, m, r, s) ==
  /\ GraphRec(H)
  /\ H.nodes = n /\ H.edges = e /\ H.edge_list = l
  /\ H.obj_ownership_map = m /\ H.read_nodes = r /\ H.stream_ownership_map = s

SetMaps(G, m, r) == [G EXCEPT !.obj_ownership_map = m, !.read_nodes = r]

\* What add_node leaves.
LEMMA NodeAdded ==
  ASSUME NEW G, GraphRec(G), NEW o, NEW H, H = add_node(G, o)
  PROVE  Fields(H, G.nodes \cup {o}, G.edges, G.edge_list, G.obj_ownership_map,
                G.read_nodes, G.stream_ownership_map)
<1>1. PICK a, b, c, d, e, f, g :
        G = [nodes |-> a, edges |-> b, edge_list |-> c, obj_ownership_map |-> d,
             read_nodes |-> e, stream_ownership_map |-> f, stream_nodes |-> g]
  BY DEF GraphRec
<1>2. PICK n : n = G.nodes \cup {o}
  OBVIOUS
<1>3. H = [G EXCEPT !.nodes = n]
  BY <1>2 DEF add_node
<1>4. H = [nodes |-> n, edges |-> b, edge_list |-> c, obj_ownership_map |-> d,
           read_nodes |-> e, stream_ownership_map |-> f, stream_nodes |-> g]
  BY <1>1, <1>3
<1> QED
  BY <1>1, <1>2, <1>4 DEF Fields, GraphRec

\* What add_edges leaves.
LEMMA EdgesAdded ==
  ASSUME NEW G, GraphRec(G), NEW es, NEW H, H = add_edges(G, es)
  PROVE  Fields(H, G.nodes, G.edges \cup es, G.edge_list \cup es, G.obj_ownership_map,
                G.read_nodes, G.stream_ownership_map)
<1>1. PICK a, b, c, d, e, f, g :
        G = [nodes |-> a, edges |-> b, edge_list |-> c, obj_ownership_map |-> d,
             read_nodes |-> e, stream_ownership_map |-> f, stream_nodes |-> g]
  BY DEF GraphRec
<1>2. PICK n : n = G.edges \cup es
  OBVIOUS
<1>3. PICK l : l = G.edge_list \cup es
  OBVIOUS
<1>4. PICK U : U = [G EXCEPT !.edges = n]
  OBVIOUS
<1>5. H = [U EXCEPT !.edge_list = l]
  BY <1>2, <1>3, <1>4 DEF add_edges
<1>6. U = [nodes |-> a, edges |-> n, edge_list |-> c, obj_ownership_map |-> d,
           read_nodes |-> e, stream_ownership_map |-> f, stream_nodes |-> g]
  BY <1>1, <1>4
<1>7. H = [nodes |-> a, edges |-> n, edge_list |-> l, obj_ownership_map |-> d,
           read_nodes |-> e, stream_ownership_map |-> f, stream_nodes |-> g]
  BY <1>5, <1>6
<1> QED
  BY <1>1, <1>2, <1>3, <1>7 DEF Fields, GraphRec

\* What an assignment of both maps of the objects leaves.
LEMMA MapsSet ==
  ASSUME NEW G, GraphRec(G), NEW m, NEW r, NEW H, H = SetMaps(G, m, r)
  PROVE  Fields(H, G.nodes, G.edges, G.edge_list, m, r, G.stream_ownership_map)
<1>1. PICK a, b, c, d, e, f, g :
        G = [nodes |-> a, edges |-> b, edge_list |-> c, obj_ownership_map |-> d,
             read_nodes |-> e, stream_ownership_map |-> f, stream_nodes |-> g]
  BY DEF GraphRec
<1>2. PICK U : U = [G EXCEPT !.obj_ownership_map = m]
  OBVIOUS
<1>3. H = [U EXCEPT !.read_nodes = r]
  BY <1>2 DEF SetMaps
<1>4. U = [nodes |-> a, edges |-> b, edge_list |-> c, obj_ownership_map |-> m,
           read_nodes |-> e, stream_ownership_map |-> f, stream_nodes |-> g]
  BY <1>1, <1>2
<1>5. H = [nodes |-> a, edges |-> b, edge_list |-> c, obj_ownership_map |-> m,
           read_nodes |-> r, stream_ownership_map |-> f, stream_nodes |-> g]
  BY <1>3, <1>4
<1> QED
  BY <1>1, <1>5 DEF Fields, GraphRec

\* What an assignment of the map of the streams leaves.
LEMMA StreamSet ==
  ASSUME NEW G, GraphRec(G), NEW s, NEW H, H = [G EXCEPT !.stream_ownership_map = s]
  PROVE  Fields(H, G.nodes, G.edges, G.edge_list, G.obj_ownership_map, G.read_nodes, s)
<1>1. PICK a, b, c, d, e, f, g :
        G = [nodes |-> a, edges |-> b, edge_list |-> c, obj_ownership_map |-> d,
             read_nodes |-> e, stream_ownership_map |-> f, stream_nodes |-> g]
  BY DEF GraphRec
<1>2. H = [nodes |-> a, edges |-> b, edge_list |-> c, obj_ownership_map |-> d,
           read_nodes |-> e, stream_ownership_map |-> s, stream_nodes |-> g]
  BY <1>1
<1> QED
  BY <1>1, <1>2 DEF Fields, GraphRec

\* The lists of the streams are of no concern to the rest.
LEMMA StreamNodesSet ==
  ASSUME NEW G, GraphRec(G), NEW o, NEW s, NEW H, H = update_stream_nodes(G, o, s)
  PROVE  Fields(H, G.nodes, G.edges, G.edge_list, G.obj_ownership_map, G.read_nodes,
                G.stream_ownership_map)
<1>1. PICK a, b, c, d, e, f, g :
        G = [nodes |-> a, edges |-> b, edge_list |-> c, obj_ownership_map |-> d,
             read_nodes |-> e, stream_ownership_map |-> f, stream_nodes |-> g]
  BY DEF GraphRec
<1>2. \E x : H = [G EXCEPT !.stream_nodes = x]
  <2>1. CASE s \notin DOMAIN G.stream_nodes
    BY <2>1 DEF update_stream_nodes
  <2>2. CASE s \in DOMAIN G.stream_nodes /\ \E i \in DOMAIN G.stream_nodes[s] : G.stream_nodes[s][i] = o
    <3>1. H = G
      BY <2>2 DEF update_stream_nodes
    <3>2. [G EXCEPT !.stream_nodes = g] = G
      BY <1>1
    <3> QED
      BY <3>1, <3>2
  <2>3. CASE s \in DOMAIN G.stream_nodes /\ ~ \E i \in DOMAIN G.stream_nodes[s] : G.stream_nodes[s][i] = o
    <3>1. H = [G EXCEPT !.stream_nodes[s] = Append(@, o)]
      BY <2>3 DEF update_stream_nodes
    <3>2. H = [G EXCEPT !.stream_nodes = [G.stream_nodes EXCEPT ![s] = Append(@, o)]]
      BY <3>1
    <3> QED
      BY <3>2
  <2> QED
    BY <2>1, <2>2, <2>3
<1>3. PICK x : H = [G EXCEPT !.stream_nodes = x]
  BY <1>2
<1>4. H = [nodes |-> a, edges |-> b, edge_list |-> c, obj_ownership_map |-> d,
           read_nodes |-> e, stream_ownership_map |-> f, stream_nodes |-> x]
  BY <1>1, <1>3
<1> QED
  BY <1>1, <1>4 DEF Fields, GraphRec

\* The last operations of the streams are those of before, or o.
StreamsFrom(G, H, o) ==
  \A t \in DOMAIN H.stream_ownership_map :
    \/ H.stream_ownership_map[t] = o
    \/ /\ t \in DOMAIN G.stream_ownership_map
       /\ H.stream_ownership_map[t] = G.stream_ownership_map[t]

\* The edges es come from last operations of streams of G, and lead to o.
FromStreams(G, o, es) ==
  \A e \in es : e.to = o /\ \E t \in DOMAIN G.stream_ownership_map : e.from = G.stream_ownership_map[t]

\* Graph H is graph G with o made the last operation of its stream.
Streamed(G, H, o, es) ==
  /\ Fields(H, G.nodes, G.edges \cup es, G.edge_list \cup es, G.obj_ownership_map,
            G.read_nodes, H.stream_ownership_map)
  /\ StreamsFrom(G, H, o)
  /\ FromStreams(G, o, es)

\* The stream part waits at most for the last operation of the stream.
LEMMA StreamStepParts ==
  ASSUME NEW G, GraphRec(G), NEW o, NEW s, NEW H, H = StreamStep(G, o, s)
  PROVE  \E es : /\ Streamed(G, H, o, es)
                 /\ \A e \in es : e.from = G.stream_ownership_map[s]
<1>1. PICK m : m = Put(G.stream_ownership_map, s, o)
  OBVIOUS
<1>2. PICK K : K = [G EXCEPT !.stream_ownership_map = m]
  OBVIOUS
<1>3. Fields(K, G.nodes, G.edges, G.edge_list, G.obj_ownership_map, G.read_nodes, m)
  BY <1>2, StreamSet
<1>4. ASSUME NEW t \in DOMAIN m
      PROVE  \/ m[t] = o
             \/ t \in DOMAIN G.stream_ownership_map /\ m[t] = G.stream_ownership_map[t]
  BY <1>1 DEF Put
<1>5. CASE s \notin DOMAIN G.stream_ownership_map
  <2>1. H = K
    BY <1>1, <1>2, <1>5 DEF StreamStep
  <2>2. G.edges \cup {} = G.edges /\ G.edge_list \cup {} = G.edge_list
    OBVIOUS
  <2>3. Streamed(G, H, o, {})
    BY <1>3, <1>4, <2>1, <2>2 DEF Streamed, Fields, StreamsFrom, FromStreams
  <2> QED
    BY <2>3
<1>6. CASE s \in DOMAIN G.stream_ownership_map
  <2>1. PICK e : e = StreamEdge(G.stream_ownership_map[s], o)
    OBVIOUS
  <2>2. H = add_edges(K, {e})
    BY <1>1, <1>2, <1>6, <2>1 DEF StreamStep
  <2>3. GraphRec(K)
    BY <1>3 DEF Fields
  <2>4. Fields(H, K.nodes, K.edges \cup {e}, K.edge_list \cup {e}, K.obj_ownership_map,
               K.read_nodes, K.stream_ownership_map)
    BY <2>2, <2>3, EdgesAdded
  <2>5. Fields(H, G.nodes, G.edges \cup {e}, G.edge_list \cup {e}, G.obj_ownership_map,
               G.read_nodes, m)
    BY <1>3, <2>4 DEF Fields
  <2>6. e.to = o /\ e.from = G.stream_ownership_map[s]
    BY <2>1 DEF StreamEdge
  <2>7. StreamsFrom(G, H, o)
    BY <1>4, <2>5 DEF Fields, StreamsFrom
  <2>8. FromStreams(G, o, {e})
    BY <1>6, <2>6 DEF FromStreams
  <2>9. Streamed(G, H, o, {e})
    BY <2>5, <2>7, <2>8 DEF Fields, Streamed
  <2> QED
    BY <2>6, <2>9
<1> QED
  BY <1>5, <1>6

\* An operation that is already the last of the stream does not wait for itself.
LEMMA AccessStreamParts ==
  ASSUME NEW G, GraphRec(G), NEW o, NEW s, NEW H, H = AccessStream(G, o, s)
  PROVE  \E es : /\ Streamed(G, H, o, es)
                 /\ \A e \in es : e.from # o
<1>1. CASE s \in DOMAIN G.stream_ownership_map /\ G.stream_ownership_map[s] = o
  <2>1. H = G
    BY <1>1 DEF AccessStream
  <2>2. G.edges \cup {} = G.edges /\ G.edge_list \cup {} = G.edge_list
    OBVIOUS
  <2>3. Streamed(G, H, o, {})
    BY <2>1, <2>2 DEF Streamed, Fields, StreamsFrom, FromStreams
  <2> QED
    BY <2>3
<1>2. CASE ~ (s \in DOMAIN G.stream_ownership_map /\ G.stream_ownership_map[s] = o)
  <2>1. H = StreamStep(G, o, s)
    BY <1>2 DEF AccessStream
  <2>2. PICK es : Streamed(G, H, o, es) /\ \A e \in es : e.from = G.stream_ownership_map[s]
    BY <2>1, StreamStepParts
  <2>3. CASE s \in DOMAIN G.stream_ownership_map
    BY <1>2, <2>2, <2>3
  <2>4. CASE s \notin DOMAIN G.stream_ownership_map
    <3>1. Fields(H, G.nodes, G.edges, G.edge_list, G.obj_ownership_map, G.read_nodes,
                 Put(G.stream_ownership_map, s, o))
      BY <2>1, <2>4, StreamSet DEF StreamStep
    <3>2. G.edges \cup {} = G.edges /\ G.edge_list \cup {} = G.edge_list
      OBVIOUS
    <3>3. Streamed(G, H, o, {})
      BY <2>2, <3>1, <3>2 DEF Streamed, Fields, FromStreams
    <3> QED
      BY <3>3
  <2> QED
    BY <2>3, <2>4
<1> QED
  BY <1>1, <1>2

\* Graph H is graph G with operation o added, which depends on the sources of es.
Added(G, H, o, es) ==
  /\ GraphRec(H)
  /\ H.nodes = G.nodes \cup {o}
  /\ H.edges = G.edges \cup es /\ H.edge_list = G.edge_list \cup es
  /\ StreamsFrom(G, H, o)
  /\ \A e \in es : e.to = o /\ e.from \in G.nodes

\* Operation o reads the objects R and writes the objects W: readers join, a
\* writer starts over, and o waits for those it conflicts with; it waits for
\* itself only if it was there before.
Touches(G, H, o, es, R, W) ==
  /\ Added(G, H, o, es)
  /\ DOMAIN H.obj_ownership_map = DOMAIN G.obj_ownership_map
  /\ DOMAIN H.read_nodes = DOMAIN G.obj_ownership_map
  /\ \A x \in DOMAIN G.obj_ownership_map :
       /\ H.obj_ownership_map[x] = IF x \in W THEN o ELSE G.obj_ownership_map[x]
       /\ H.read_nodes[x] = IF x \in R THEN G.read_nodes[x] \cup {o}
                            ELSE IF x \in W THEN {} ELSE G.read_nodes[x]
  /\ \A x \in R : DataEdge(G.obj_ownership_map[x], o) \in es
  /\ \A x \in W : WriteEdges(G, o, x) \subseteq es
  /\ \A e \in es : e.from = o =>
       \E x \in R \cup W : o = G.obj_ownership_map[x] \/ o \in G.read_nodes[x]

\* update_graph_at_malloc adds an operation that owns its object.
LEMMA MallocParts ==
  ASSUME NEW G, GraphRec(G), MapsIn(G), NEW o, o \notin G.nodes, NEW s,
         NEW H, H = update_graph_at_malloc(G, o, s)
  PROVE  \E es : /\ Added(G, H, o, es)
                 /\ H.obj_ownership_map = Put(G.obj_ownership_map, o, o)
                 /\ H.read_nodes = Put(G.read_nodes, o, {})
<1>1. PICK A : A = add_node(G, o)
  OBVIOUS
<1>2. Fields(A, G.nodes \cup {o}, G.edges, G.edge_list, G.obj_ownership_map,
             G.read_nodes, G.stream_ownership_map)
  BY <1>1, NodeAdded
<1>3. PICK m, r : m = Put(G.obj_ownership_map, o, o) /\ r = Put(G.read_nodes, o, {})
  OBVIOUS
<1>4. PICK B : B = SetMaps(A, m, r)
  OBVIOUS
<1>5. GraphRec(A)
  BY <1>2 DEF Fields
<1>6. Fields(B, A.nodes, A.edges, A.edge_list, m, r, A.stream_ownership_map)
  BY <1>4, <1>5, MapsSet
<1>7. Fields(B, G.nodes \cup {o}, G.edges, G.edge_list, m, r, G.stream_ownership_map)
  BY <1>2, <1>6 DEF Fields
<1>8. PICK C : C = update_stream_nodes(B, o, s)
  OBVIOUS
<1>9. GraphRec(B)
  BY <1>7 DEF Fields
<1>10. Fields(C, B.nodes, B.edges, B.edge_list, B.obj_ownership_map, B.read_nodes,
              B.stream_ownership_map)
  BY <1>8, <1>9, StreamNodesSet
<1>11. Fields(C, G.nodes \cup {o}, G.edges, G.edge_list, m, r, G.stream_ownership_map)
  BY <1>7, <1>10 DEF Fields
<1>12. H = StreamStep(C, o, s)
  <2>1. A.obj_ownership_map = G.obj_ownership_map /\ A.read_nodes = G.read_nodes
    BY <1>2 DEF Fields
  <2>2. [A EXCEPT !.obj_ownership_map = Put(@, o, o), !.read_nodes = Put(@, o, {})] = B
    BY <1>3, <1>4, <2>1 DEF SetMaps
  <2> QED
    BY <1>1, <1>8, <2>2 DEF update_graph_at_malloc
<1>13. GraphRec(C)
  BY <1>11 DEF Fields
<1>14. PICK es : Streamed(C, H, o, es)
  BY <1>12, <1>13, StreamStepParts
<1>15. \A e \in es : e.to = o /\ e.from \in G.nodes
  <2>1. FromStreams(C, o, es) /\ C.stream_ownership_map = G.stream_ownership_map
    BY <1>11, <1>14 DEF Streamed, Fields
  <2> QED
    BY <2>1 DEF FromStreams, MapsIn
<1>16. Added(G, H, o, es)
  BY <1>11, <1>14, <1>15 DEF Added, Streamed, Fields, StreamsFrom
<1>17. H.obj_ownership_map = m /\ H.read_nodes = r
  BY <1>11, <1>14 DEF Streamed, Fields
<1> QED
  BY <1>3, <1>16, <1>17

\* The edges of a write come from nodes.
LEMMA WriteEdgesFrom ==
  ASSUME NEW G, MapsIn(G), NEW o, NEW x \in DOMAIN G.obj_ownership_map, NEW e \in WriteEdges(G, o, x)
  PROVE  /\ e.to = o /\ e.from \in G.nodes
         /\ e.from = G.obj_ownership_map[x] \/ e.from \in G.read_nodes[x]
<1>1. CASE G.read_nodes[x] = {}
  BY <1>1 DEF WriteEdges, DataEdge, MapsIn
<1>2. CASE G.read_nodes[x] # {}
  BY <1>2 DEF WriteEdges, DataEdge, MapsIn
<1> QED
  BY <1>1, <1>2

\* update_graph_at_free adds an operation that writes the object.
LEMMA FreeParts ==
  ASSUME NEW G, GraphRec(G), MapsIn(G), NEW o, o \notin G.nodes, NEW s,
         NEW x \in DOMAIN G.obj_ownership_map,
         NEW H, H = update_graph_at_free(G, o, s, x)
  PROVE  \E es : Touches(G, H, o, es, {}, {x})
<1>1. PICK A : A = add_node(G, o)
  OBVIOUS
<1>2. Fields(A, G.nodes \cup {o}, G.edges, G.edge_list, G.obj_ownership_map,
             G.read_nodes, G.stream_ownership_map)
  BY <1>1, NodeAdded
<1>3. PICK ds : ds = WriteEdges(G, o, x)
  OBVIOUS
<1>4. PICK B : B = add_edges(A, ds)
  OBVIOUS
<1>5. GraphRec(A)
  BY <1>2 DEF Fields
<1>6. Fields(B, A.nodes, A.edges \cup ds, A.edge_list \cup ds, A.obj_ownership_map,
             A.read_nodes, A.stream_ownership_map)
  BY <1>4, <1>5, EdgesAdded
<1>7. Fields(B, G.nodes \cup {o}, G.edges \cup ds, G.edge_list \cup ds, G.obj_ownership_map,
             G.read_nodes, G.stream_ownership_map)
  BY <1>2, <1>6 DEF Fields
<1>8. PICK m, r : m = [G.obj_ownership_map EXCEPT ![x] = o] /\ r = [G.read_nodes EXCEPT ![x] = {}]
  OBVIOUS
<1>9. PICK C : C = SetMaps(B, m, r)
  OBVIOUS
<1>10. GraphRec(B)
  BY <1>7 DEF Fields
<1>11. Fields(C, B.nodes, B.edges, B.edge_list, m, r, B.stream_ownership_map)
  BY <1>9, <1>10, MapsSet
<1>12. Fields(C, G.nodes \cup {o}, G.edges \cup ds, G.edge_list \cup ds, m, r,
              G.stream_ownership_map)
  BY <1>7, <1>11 DEF Fields
<1>13. PICK D : D = update_stream_nodes(C, o, s)
  OBVIOUS
<1>14. GraphRec(C)
  BY <1>12 DEF Fields
<1>15. Fields(D, C.nodes, C.edges, C.edge_list, C.obj_ownership_map, C.read_nodes,
              C.stream_ownership_map)
  BY <1>13, <1>14, StreamNodesSet
<1>16. Fields(D, G.nodes \cup {o}, G.edges \cup ds, G.edge_list \cup ds, m, r,
              G.stream_ownership_map)
  BY <1>12, <1>15 DEF Fields
<1>17. H = StreamStep(D, o, s)
  <2>1. B.obj_ownership_map = G.obj_ownership_map /\ B.read_nodes = G.read_nodes
    BY <1>7 DEF Fields
  <2>2. [B EXCEPT !.obj_ownership_map[x] = o, !.read_nodes[x] = {}] = C
    BY <1>8, <1>9, <2>1 DEF SetMaps
  <2> QED
    BY <1>1, <1>3, <1>4, <1>13, <2>2 DEF update_graph_at_free
<1>18. GraphRec(D)
  BY <1>16 DEF Fields
<1>19. PICK fs : Streamed(D, H, o, fs)
  BY <1>17, <1>18, StreamStepParts
<1>20. \A e \in fs : e.to = o /\ e.from \in G.nodes
  <2>1. FromStreams(D, o, fs) /\ D.stream_ownership_map = G.stream_ownership_map
    BY <1>16, <1>19 DEF Streamed, Fields
  <2> QED
    BY <2>1 DEF FromStreams, MapsIn
<1>21. PICK es : es = ds \cup fs
  OBVIOUS
<1>22. \A e \in es : e.to = o /\ e.from \in G.nodes
  BY <1>3, <1>20, <1>21, WriteEdgesFrom
<1>23. Added(G, H, o, es)
  <2>1. GraphRec(H) /\ H.nodes = G.nodes \cup {o} /\ StreamsFrom(G, H, o)
    BY <1>16, <1>19 DEF Streamed, Fields, StreamsFrom
  <2>2. H.edges = (G.edges \cup ds) \cup fs /\ H.edge_list = (G.edge_list \cup ds) \cup fs
    BY <1>16, <1>19 DEF Streamed, Fields
  <2> QED
    BY <1>21, <1>22, <2>1, <2>2 DEF Added
<1>24. H.obj_ownership_map = m /\ H.read_nodes = r
  BY <1>16, <1>19 DEF Streamed, Fields
<1>25. /\ DOMAIN m = DOMAIN G.obj_ownership_map /\ DOMAIN r = DOMAIN G.obj_ownership_map
       /\ \A y \in DOMAIN G.obj_ownership_map :
            /\ m[y] = IF y \in {x} THEN o ELSE G.obj_ownership_map[y]
            /\ r[y] = IF y \in {} THEN G.read_nodes[y] \cup {o}
                      ELSE IF y \in {x} THEN {} ELSE G.read_nodes[y]
  BY <1>8 DEF MapsIn
<1>26. WriteEdges(G, o, x) \subseteq es
  BY <1>3, <1>21
<1>27. \A e \in es : e.from # o
  BY <1>22
<1>28. Touches(G, H, o, es, {}, {x})
  BY <1>23, <1>24, <1>25, <1>26, <1>27 DEF Touches
<1> QED
  BY <1>28

\* update_graph_at_access adds an operation with its reads and writes.
LEMMA AccessParts ==
  ASSUME NEW G, GraphRec(G), MapsIn(G), NEW o, NEW s, NEW R, NEW W,
         R \cup W \subseteq DOMAIN G.obj_ownership_map,
         NEW H, H = update_graph_at_access(G, o, s, R, W)
  PROVE  \E es : Touches(G, H, o, es, R, W)
<1>1. PICK A : A = add_node(G, o)
  OBVIOUS
<1>2. Fields(A, G.nodes \cup {o}, G.edges, G.edge_list, G.obj_ownership_map,
             G.read_nodes, G.stream_ownership_map)
  BY <1>1, NodeAdded
<1>3. PICK B : B = AccessStream(A, o, s)
  OBVIOUS
<1>4. GraphRec(A)
  BY <1>2 DEF Fields
<1>5. PICK fs : Streamed(A, B, o, fs) /\ \A e \in fs : e.from # o
  BY <1>3, <1>4, AccessStreamParts
<1>6. Fields(B, G.nodes \cup {o}, G.edges \cup fs, G.edge_list \cup fs, G.obj_ownership_map,
             G.read_nodes, B.stream_ownership_map)
  BY <1>2, <1>5 DEF Streamed, Fields
<1>7. PICK C : C = update_stream_nodes(B, o, s)
  OBVIOUS
<1>8. GraphRec(B)
  BY <1>6 DEF Fields
<1>9. Fields(C, B.nodes, B.edges, B.edge_list, B.obj_ownership_map, B.read_nodes,
             B.stream_ownership_map)
  BY <1>7, <1>8, StreamNodesSet
<1>10. PICK ds : ds = UNION ({ReadEdges(G, o, x) : x \in R} \cup {WriteEdges(G, o, x) : x \in W})
  OBVIOUS
<1>11. PICK D : D = add_edges(C, ds)
  OBVIOUS
<1>12. GraphRec(C)
  BY <1>9 DEF Fields
<1>13. Fields(D, C.nodes, C.edges \cup ds, C.edge_list \cup ds, C.obj_ownership_map,
              C.read_nodes, C.stream_ownership_map)
  BY <1>11, <1>12, EdgesAdded
<1>14. Fields(D, G.nodes \cup {o}, (G.edges \cup fs) \cup ds, (G.edge_list \cup fs) \cup ds,
              G.obj_ownership_map, G.read_nodes, B.stream_ownership_map)
  BY <1>6, <1>9, <1>13 DEF Fields
<1>15. PICK m : m = [x \in DOMAIN G.obj_ownership_map |-> IF x \in W THEN o ELSE G.obj_ownership_map[x]]
  OBVIOUS
<1>16. PICK r : r = Readers(G, o, R, W)
  OBVIOUS
<1>17. H = SetMaps(D, m, r)
  <2>1. D.obj_ownership_map = G.obj_ownership_map
    BY <1>14 DEF Fields
  <2>2. H = [D EXCEPT !.obj_ownership_map = [x \in DOMAIN @ |-> IF x \in W THEN o ELSE @[x]],
                      !.read_nodes = r]
    BY <1>1, <1>3, <1>7, <1>10, <1>11, <1>16 DEF update_graph_at_access
  <2> QED
    BY <1>15, <2>1, <2>2 DEF SetMaps
<1>18. GraphRec(D)
  BY <1>14 DEF Fields
<1>19. Fields(H, D.nodes, D.edges, D.edge_list, m, r, D.stream_ownership_map)
  BY <1>17, <1>18, MapsSet
<1>20. \A e \in fs : e.to = o /\ e.from \in G.nodes
  <2>1. FromStreams(A, o, fs) /\ A.stream_ownership_map = G.stream_ownership_map
    BY <1>2, <1>5 DEF Streamed, Fields
  <2> QED
    BY <2>1 DEF FromStreams, MapsIn
<1>21. ASSUME NEW e \in ds
       PROVE  /\ e.to = o /\ e.from \in G.nodes
              /\ \E x \in R \cup W : e.from = G.obj_ownership_map[x] \/ e.from \in G.read_nodes[x]
  <2>1. CASE \E x \in R : e \in ReadEdges(G, o, x)
    <3>1. PICK x \in R : e = DataEdge(G.obj_ownership_map[x], o)
      BY <2>1 DEF ReadEdges
    <3>2. e.to = o /\ e.from = G.obj_ownership_map[x]
      BY <3>1 DEF DataEdge
    <3> QED
      BY <3>2 DEF MapsIn
  <2>2. CASE \E x \in W : e \in WriteEdges(G, o, x)
    BY <2>2, WriteEdgesFrom
  <2> QED
    BY <1>10, <2>1, <2>2
<1>22. PICK es : es = fs \cup ds
  OBVIOUS
<1>23. \A e \in es : e.to = o /\ e.from \in G.nodes
  BY <1>20, <1>21, <1>22
<1>24. Added(G, H, o, es)
  <2>1. GraphRec(H) /\ H.nodes = G.nodes \cup {o} /\ H.stream_ownership_map = B.stream_ownership_map
    BY <1>14, <1>19 DEF Fields
  <2>2. H.edges = (G.edges \cup fs) \cup ds /\ H.edge_list = (G.edge_list \cup fs) \cup ds
    BY <1>14, <1>19 DEF Fields
  <2>3. StreamsFrom(G, H, o)
    BY <1>2, <1>5, <2>1 DEF Streamed, Fields, StreamsFrom
  <2> QED
    BY <1>22, <1>23, <2>1, <2>2, <2>3 DEF Added
<1>25. H.obj_ownership_map = m /\ H.read_nodes = r
  BY <1>19 DEF Fields
<1>26. /\ DOMAIN m = DOMAIN G.obj_ownership_map /\ DOMAIN r = DOMAIN G.obj_ownership_map
       /\ \A y \in DOMAIN G.obj_ownership_map :
            /\ m[y] = IF y \in W THEN o ELSE G.obj_ownership_map[y]
            /\ r[y] = IF y \in R THEN G.read_nodes[y] \cup {o}
                      ELSE IF y \in W THEN {} ELSE G.read_nodes[y]
  BY <1>15, <1>16 DEF MapsIn, Readers
<1>27. \A x \in R : DataEdge(G.obj_ownership_map[x], o) \in es
  BY <1>10, <1>22 DEF ReadEdges
<1>28. \A x \in W : WriteEdges(G, o, x) \subseteq es
  BY <1>10, <1>22
<1>29. \A e \in es : e.from = o =>
         \E x \in R \cup W : o = G.obj_ownership_map[x] \/ o \in G.read_nodes[x]
  BY <1>5, <1>21, <1>22
<1>30. Touches(G, H, o, es, R, W)
  BY <1>24, <1>25, <1>26, <1>27, <1>28, <1>29 DEF Touches
<1> QED
  BY <1>30

-----------------------------------------------------------------------------
(* The graph: what an operation preserves *)

\* The graph stays whole when an object is added.
LEMMA MallocWhole ==
  ASSUME NEW G, Whole(G), NEW o, NEW H, NEW es, Added(G, H, o, es),
         H.obj_ownership_map = Put(G.obj_ownership_map, o, o),
         H.read_nodes = Put(G.read_nodes, o, {})
  PROVE  Whole(H)
<1>1. H.edge_list = H.edges /\ EdgesIn(H)
  BY DEF Whole, EdgesIn, Added
<1>2. \A s \in DOMAIN H.stream_ownership_map : H.stream_ownership_map[s] \in H.nodes
  BY DEF Whole, MapsIn, Added, StreamsFrom
<1>3. /\ DOMAIN H.read_nodes = DOMAIN H.obj_ownership_map
      /\ \A x \in DOMAIN H.obj_ownership_map :
           H.obj_ownership_map[x] \in H.nodes /\ H.read_nodes[x] \subseteq H.nodes
  BY DEF Whole, MapsIn, Added, Put
<1> QED
  BY <1>1, <1>2, <1>3 DEF Whole, MapsIn

\* The graph stays whole when objects are touched.
LEMMA TouchesWhole ==
  ASSUME NEW G, Whole(G), NEW o, NEW H, NEW es, NEW R, NEW W, Touches(G, H, o, es, R, W)
  PROVE  Whole(H)
<1>0. Added(G, H, o, es)
  BY DEF Touches
<1>1. H.edge_list = H.edges /\ EdgesIn(H)
  BY <1>0 DEF Whole, EdgesIn, Added
<1>2. \A s \in DOMAIN H.stream_ownership_map : H.stream_ownership_map[s] \in H.nodes
  BY <1>0 DEF Whole, MapsIn, Added, StreamsFrom
<1>3. DOMAIN H.read_nodes = DOMAIN H.obj_ownership_map
  BY DEF Touches
<1>4. ASSUME NEW x \in DOMAIN H.obj_ownership_map
      PROVE  H.obj_ownership_map[x] \in H.nodes /\ H.read_nodes[x] \subseteq H.nodes
  <2>1. /\ x \in DOMAIN G.obj_ownership_map /\ G.obj_ownership_map[x] \in G.nodes
        /\ G.read_nodes[x] \subseteq G.nodes /\ H.nodes = G.nodes \cup {o}
    BY <1>0 DEF Touches, Whole, MapsIn, Added
  <2>2. H.obj_ownership_map[x] \in {o, G.obj_ownership_map[x]}
    BY <2>1 DEF Touches
  <2>3. H.read_nodes[x] \subseteq G.read_nodes[x] \cup {o}
    BY <2>1 DEF Touches
  <2> QED
    BY <2>1, <2>2, <2>3
<1> QED
  BY <1>1, <1>2, <1>3, <1>4 DEF Whole, MapsIn

\* An operation nothing depends on can be made to depend on others, and on
\* itself if it is one of X.
LEMMA AddedAcyclic ==
  ASSUME NEW G, NEW X, EdgesIn(G), Acyclic(G, X), NEW o, \A e \in G.edges : e.from # o,
         NEW H, NEW es, Added(G, H, o, es), \A e \in es : e.from = o => o \in X
  PROVE  Acyclic(H, X)
<1>1. H.edges = G.edges \cup es /\ H.nodes = G.nodes \cup {o} /\ \A e \in es : e.to = o
  BY DEF Added
<1>2. \A e \in H.edges : e.from = o => e.to = o /\ o \in X
  BY <1>1
<1>3. ASSUME NEW S \in SUBSET H.nodes, S # {}
      PROVE  \E n \in S : \A e \in H.edges : e.to = n => e.from \notin S \/ (e.from = n /\ n \in X)
  <2>1. CASE S \ {o} = {}
    <3>1. S = {o}
      BY <1>3, <2>1
    <3> QED
      BY <1>2, <3>1
  <2>2. CASE S \ {o} # {}
    <3>1. S \ {o} \in SUBSET G.nodes
      BY <1>1, <1>3
    <3>2. PICK n \in S \ {o} : \A e \in G.edges : e.to = n =>
            e.from \notin S \ {o} \/ (e.from = n /\ n \in X)
      BY <2>2, <3>1 DEF Acyclic
    <3>3. \A e \in H.edges : e.to = n => e.from \notin S \/ (e.from = n /\ n \in X)
      BY <1>1, <1>2, <3>2
    <3> QED
      BY <3>2, <3>3
  <2> QED
    BY <2>1, <2>2
<1> QED
  BY <1>3 DEF Acyclic

\* After is transitive, and more edges order more.
LEMMA ReachesMore ==
  ASSUME NEW es, NEW fs, es \subseteq fs, NEW a, NEW b, Reaches(es, a, b)
  PROVE  Reaches(fs, a, b)
  BY DEF Reaches

\* Over an operation between them.
LEMMA ReachesOver ==
  ASSUME NEW es, NEW a, NEW b, NEW c, Reaches(es, a, b), Reaches(es, b, c)
  PROVE  Reaches(es, a, c)
  BY DEF Reaches

\* An operation reaches itself.
LEMMA ReachesSelf ==
  ASSUME NEW es, NEW a
  PROVE  Reaches(es, a, a)
  BY DEF Reaches

\* An edge orders its ends.
LEMMA ReachesEdge ==
  ASSUME NEW es, NEW a, NEW b, DataEdge(a, b) \in es
  PROVE  Reaches(es, a, b)
<1>1. DataEdge(a, b).from = a /\ DataEdge(a, b).to = b
  BY DEF DataEdge
<1> QED
  BY <1>1 DEF Reaches

\* A new object has no conflicts.
LEMMA MallocOrdered ==
  ASSUME NEW G, Whole(G), NEW T, Ordered(G, T), NEW o, o \notin DOMAIN G.obj_ownership_map,
         NEW H, NEW es, Added(G, H, o, es),
         H.obj_ownership_map = Put(G.obj_ownership_map, o, o),
         H.read_nodes = Put(G.read_nodes, o, {}),
         NEW U, U = T \cup ({o} \X {o} \X {"w"})
  PROVE  Ordered(H, U)
<1>1. /\ DOMAIN H.obj_ownership_map = DOMAIN G.obj_ownership_map \cup {o}
      /\ H.obj_ownership_map[o] = o /\ H.read_nodes[o] = {}
      /\ \A x \in DOMAIN G.obj_ownership_map :
           H.obj_ownership_map[x] = G.obj_ownership_map[x] /\ H.read_nodes[x] = G.read_nodes[x]
  BY DEF Put, Whole, MapsIn
<1>2. G.edge_list \subseteq H.edge_list
  BY DEF Added
<1>3. \A a, b : Reaches(G.edge_list, a, b) => Reaches(H.edge_list, a, b)
  BY <1>2, ReachesMore
<1>4. \A x \in T : x[1] \in DOMAIN G.obj_ownership_map /\ x[1] # o
  BY DEF Ordered
<1>5. \A x \in U : x \in T \/ (x[1] = o /\ x[2] = o)
  OBVIOUS
<1>6. ASSUME NEW x \in U
      PROVE  /\ x[1] \in DOMAIN H.obj_ownership_map
             /\ \/ Reaches(H.edge_list, x[2], H.obj_ownership_map[x[1]])
                \/ x[3] = "r" /\ x[2] \in H.read_nodes[x[1]]
  <2>1. CASE x \in T
    BY <1>1, <1>3, <1>4, <2>1 DEF Ordered
  <2>2. CASE x[1] = o /\ x[2] = o
    BY <1>1, <2>2, ReachesSelf
  <2> QED
    BY <1>5, <2>1, <2>2
<1>7. ASSUME NEW x \in DOMAIN H.obj_ownership_map, NEW r \in H.read_nodes[x]
      PROVE  Reaches(H.edge_list, H.obj_ownership_map[x], r)
  BY <1>1, <1>3 DEF Ordered
<1>8. ASSUME NEW x \in U, NEW y \in U, x[1] = y[1], x[2] # y[2], "w" \in {x[3], y[3]}
      PROVE  Reaches(H.edge_list, x[2], y[2]) \/ Reaches(H.edge_list, y[2], x[2])
  <2>1. x \in T /\ y \in T
    BY <1>4, <1>5, <1>8
  <2> QED
    BY <1>3, <1>8, <2>1 DEF Ordered
<1> QED
  BY <1>6, <1>7, <1>8 DEF Ordered

\* An access comes after all that it conflicts with.
LEMMA TouchesOrdered ==
  ASSUME NEW G, Whole(G), NEW T, Ordered(G, T), NEW o, NEW H, NEW es, NEW R, NEW W,
         Touches(G, H, o, es, R, W), R \cup W \subseteq DOMAIN G.obj_ownership_map,
         R \cap W = {},
         NEW U, U = T \cup (R \X {o} \X {"r"}) \cup (W \X {o} \X {"w"})
  PROVE  Ordered(H, U)
<1>1. PICK own, rd : own = G.obj_ownership_map /\ rd = G.read_nodes
  OBVIOUS
<1>2. PICK own2, rd2 : own2 = H.obj_ownership_map /\ rd2 = H.read_nodes
  OBVIOUS
<1>3. /\ DOMAIN own2 = DOMAIN own
      /\ \A x \in DOMAIN own : x \in W => own2[x] = o /\ rd2[x] = {}
      /\ \A x \in DOMAIN own : x \in R => own2[x] = own[x] /\ rd2[x] = rd[x] \cup {o}
      /\ \A x \in DOMAIN own : x \notin R \cup W => own2[x] = own[x] /\ rd2[x] = rd[x]
  BY <1>1, <1>2 DEF Touches
<1>4. G.edge_list \subseteq H.edge_list /\ es \subseteq H.edge_list
  BY DEF Touches, Added
<1>5. \A a, b : Reaches(G.edge_list, a, b) => Reaches(H.edge_list, a, b)
  BY <1>4, ReachesMore
<1>6. PICK L : L = H.edge_list
  OBVIOUS
<1>7. /\ \A x \in T : /\ x[1] \in DOMAIN own
                      /\ \/ Reaches(L, x[2], own[x[1]])
                         \/ x[3] = "r" /\ x[2] \in rd[x[1]]
      /\ \A x \in DOMAIN own : \A r \in rd[x] : Reaches(L, own[x], r)
      /\ \A x, y \in T : x[1] = y[1] /\ x[2] # y[2] /\ "w" \in {x[3], y[3]} =>
           Reaches(L, x[2], y[2]) \/ Reaches(L, y[2], x[2])
  BY <1>1, <1>5, <1>6 DEF Ordered
<1>8. ASSUME NEW x \in R PROVE Reaches(L, own[x], o)
  <2>1. DataEdge(own[x], o) \in L
    BY <1>1, <1>4, <1>6 DEF Touches
  <2> QED
    BY <2>1, ReachesEdge
<1>9. ASSUME NEW x \in W PROVE Reaches(L, own[x], o) /\ \A r \in rd[x] : Reaches(L, r, o)
  <2>1. WriteEdges(G, o, x) \subseteq L
    BY <1>4, <1>6 DEF Touches
  <2>2. CASE rd[x] = {}
    <3>1. DataEdge(own[x], o) \in L
      BY <1>1, <2>1, <2>2 DEF WriteEdges
    <3> QED
      BY <2>2, <3>1, ReachesEdge
  <2>3. CASE rd[x] # {}
    <3>1. ASSUME NEW r \in rd[x] PROVE Reaches(L, r, o)
      <4>1. DataEdge(r, o) \in L
        BY <1>1, <2>1, <2>3 DEF WriteEdges
      <4> QED
        BY <4>1, ReachesEdge
    <3>2. PICK r \in rd[x] : TRUE
      BY <2>3
    <3>3. Reaches(L, own[x], r) /\ Reaches(L, r, o)
      BY <1>1, <1>7, <3>1
    <3>4. Reaches(L, own[x], o)
      BY <3>3, ReachesOver
    <3> QED
      BY <3>1, <3>4
  <2> QED
    BY <2>2, <2>3
\* A writer comes after every earlier access of the object, a reader after every write.
<1>10. ASSUME NEW x \in T, x[1] \in W PROVE Reaches(L, x[2], o)
  <2>1. CASE Reaches(L, x[2], own[x[1]])
    BY <1>9, <1>10, <2>1, ReachesOver
  <2>2. CASE x[2] \in rd[x[1]]
    BY <1>9, <1>10, <2>2
  <2> QED
    BY <1>7, <2>1, <2>2
<1>11. ASSUME NEW x \in T, x[1] \in R, x[3] # "r" PROVE Reaches(L, x[2], o)
  <2>1. Reaches(L, x[2], own[x[1]])
    BY <1>7, <1>11
  <2> QED
    BY <1>8, <1>11, <2>1, ReachesOver
<1>12. \A x \in U : \/ x \in T
                    \/ x[1] \in R /\ x[2] = o /\ x[3] = "r"
                    \/ x[1] \in W /\ x[2] = o /\ x[3] = "w"
  OBVIOUS
<1>13. ASSUME NEW x \in U
       PROVE  /\ x[1] \in DOMAIN own2
              /\ \/ Reaches(L, x[2], own2[x[1]])
                 \/ x[3] = "r" /\ x[2] \in rd2[x[1]]
  <2>1. x[1] \in DOMAIN own
    BY <1>1, <1>7, <1>12
  <2>2. CASE x \in T /\ x[1] \in W
    BY <1>3, <1>10, <2>1, <2>2
  <2>3. CASE x \in T /\ x[1] \notin W
    <3>1. own2[x[1]] = own[x[1]] /\ rd[x[1]] \subseteq rd2[x[1]]
      BY <1>3, <2>1, <2>3
    <3> QED
      BY <1>3, <1>7, <2>1, <2>3, <3>1
  <2>4. CASE x[1] \in R /\ x[2] = o /\ x[3] = "r"
    BY <1>3, <2>1, <2>4
  <2>5. CASE x[1] \in W /\ x[2] = o /\ x[3] = "w"
    BY <1>3, <2>1, <2>5, ReachesSelf
  <2> QED
    BY <1>12, <2>2, <2>3, <2>4, <2>5
<1>14. ASSUME NEW x \in DOMAIN own2, NEW r \in rd2[x] PROVE Reaches(L, own2[x], r)
  <2>1. CASE x \in W
    BY <1>3, <2>1
  <2>2. CASE x \in R
    <3>1. own2[x] = own[x] /\ r \in rd[x] \cup {o}
      BY <1>3, <2>2
    <3> QED
      BY <1>3, <1>7, <1>8, <2>2, <3>1
  <2>3. CASE x \notin R \cup W
    BY <1>3, <1>7, <2>3
  <2> QED
    BY <2>1, <2>2, <2>3
\* A new access and an earlier one.
<1>15. ASSUME NEW x \in T, NEW y \in U, x[1] = y[1], "w" \in {x[3], y[3]},
              (y[1] \in R /\ y[2] = o /\ y[3] = "r") \/ (y[1] \in W /\ y[2] = o /\ y[3] = "w")
       PROVE  Reaches(L, x[2], y[2])
  <2>1. CASE y[1] \in W /\ y[2] = o
    BY <1>10, <1>15, <2>1
  <2>2. CASE y[1] \in R /\ y[2] = o /\ y[3] = "r"
    BY <1>11, <1>15, <2>2
  <2> QED
    BY <1>15, <2>1, <2>2
<1>16. ASSUME NEW x \in U, NEW y \in U, x[1] = y[1], x[2] # y[2], "w" \in {x[3], y[3]}
       PROVE  Reaches(L, x[2], y[2]) \/ Reaches(L, y[2], x[2])
  <2>1. CASE x \in T /\ y \in T
    BY <1>7, <1>16, <2>1
  <2>2. CASE x \in T /\ y \notin T
    <3>1. (y[1] \in R /\ y[2] = o /\ y[3] = "r") \/ (y[1] \in W /\ y[2] = o /\ y[3] = "w")
      BY <1>12, <2>2
    <3>2. x \in T /\ x[1] = y[1] /\ "w" \in {x[3], y[3]}
      BY <1>16, <2>2
    <3>3. Reaches(L, x[2], y[2])
      BY <1>15, <3>1, <3>2, Zenon
    <3> QED
      BY <3>3
  <2>3. CASE x \notin T /\ y \in T
    <3>1. (x[1] \in R /\ x[2] = o /\ x[3] = "r") \/ (x[1] \in W /\ x[2] = o /\ x[3] = "w")
      BY <1>12, <2>3
    <3>2. y \in T /\ y[1] = x[1] /\ "w" \in {y[3], x[3]}
      BY <1>16, <2>3
    <3>3. Reaches(L, y[2], x[2])
      BY <1>15, <3>1, <3>2, Zenon
    <3> QED
      BY <3>3
  <2>4. CASE x \notin T /\ y \notin T
    BY <1>12, <1>16, <2>4
  <2> QED
    BY <2>1, <2>2, <2>3, <2>4
<1> QED
  BY <1>2, <1>6, <1>13, <1>14, <1>16 DEF Ordered

-----------------------------------------------------------------------------
(* The graph of a running program, for objects D and operations up to o *)

GraphOk(G, T, D, o) ==
  /\ GraphRec(G) /\ Whole(G)
  /\ Ordered(G, T)
  /\ D \subseteq DOMAIN G.obj_ownership_map
  /\ DOMAIN G.obj_ownership_map \subseteq 1 .. o
  /\ G.nodes \subseteq 1 .. o

\* The accesses T with those of operation k, which reads R and writes W.
TouchedBy(T, k, R, W) == T \cup (R \X {k} \X {"r"}) \cup (W \X {k} \X {"w"})

\* A new operation closes no cycle.
LEMMA FreshAcyclic ==
  ASSUME NEW G, Whole(G), NEW o, o \notin G.nodes, NEW H, NEW es, Added(G, H, o, es)
  PROVE  KeepsAcyclic(G, H) /\ \A e \in H.edges : e.from # o
<1>1. EdgesIn(G) /\ \A e \in G.edges : e.from # o
  BY DEF Whole, EdgesIn
<1>2. \A e \in es : e.from # o
  BY DEF Added
<1>3. ASSUME NEW X, Acyclic(G, X) PROVE Acyclic(H, X)
  <2>1. \A e \in es : e.from = o => o \in X
    BY <1>2
  <2> QED
    BY <1>1, <1>3, <2>1, AddedAcyclic
<1>4. \A e \in H.edges : e.from # o
  BY <1>1, <1>2 DEF Added
<1> QED
  BY <1>3, <1>4 DEF KeepsAcyclic

\* update_graph_at_malloc
LEMMA MallocGraph ==
  ASSUME NEW G, NEW T, NEW D, NEW o \in Nat, GraphOk(G, T, D, o), NEW p, IsNext(o, p), NEW s,
         NEW H, H = update_graph_at_malloc(G, p, s),
         NEW U, U = TouchedBy(T, p, {}, {p}), NEW E, E \subseteq D \cup {p}
  PROVE  /\ GraphOk(H, U, E, p)
         /\ H.nodes = G.nodes \cup {p}
         /\ KeepsAcyclic(G, H)
<1> USE DEF IsNext
<1>1. p \in Nat /\ p \notin 1 .. o /\ p \in 1 .. p /\ 1 .. o \subseteq 1 .. p
  OBVIOUS
<1>2. /\ GraphRec(G) /\ Whole(G) /\ MapsIn(G) /\ Ordered(G, T)
      /\ p \notin G.nodes /\ p \notin DOMAIN G.obj_ownership_map
  BY <1>1 DEF GraphOk, Whole
<1>3. PICK es : /\ Added(G, H, p, es)
                /\ H.obj_ownership_map = Put(G.obj_ownership_map, p, p)
                /\ H.read_nodes = Put(G.read_nodes, p, {})
  BY <1>2, MallocParts
<1>4. Whole(H)
  BY <1>2, <1>3, MallocWhole
<1>5. Ordered(H, U)
  <2>1. U = T \cup ({p} \X {p} \X {"w"})
    BY DEF TouchedBy
  <2> QED
    BY <1>2, <1>3, <2>1, MallocOrdered
<1>6. GraphRec(H) /\ H.nodes = G.nodes \cup {p}
  BY <1>3 DEF Added
<1>7. DOMAIN H.obj_ownership_map = DOMAIN G.obj_ownership_map \cup {p}
  BY <1>3 DEF Put
<1>8. GraphOk(H, U, E, p)
  BY <1>1, <1>4, <1>5, <1>6, <1>7 DEF GraphOk
<1>9. KeepsAcyclic(G, H)
  BY <1>2, <1>3, FreshAcyclic
<1> QED
  BY <1>6, <1>8, <1>9

\* An operation that touches objects the graph knows.
LEMMA TouchedGraph ==
  ASSUME NEW G, NEW T, NEW D, NEW o \in Nat, GraphOk(G, T, D, o), NEW q \in Nat, o <= q,
         NEW k \in 1 .. q, NEW R, NEW W, NEW H, NEW es, Touches(G, H, k, es, R, W),
         R \cup W \subseteq DOMAIN G.obj_ownership_map, R \cap W = {}
  PROVE  GraphOk(H, TouchedBy(T, k, R, W), D, q) /\ H.nodes = G.nodes \cup {k}
<1> DEFINE U == TouchedBy(T, k, R, W)
<1>1. 1 .. o \subseteq 1 .. q
  OBVIOUS
<1>2. GraphRec(G) /\ Whole(G) /\ Ordered(G, T)
  BY DEF GraphOk
<1>3. Whole(H)
  BY <1>2, TouchesWhole
<1>4. Ordered(H, U)
  BY <1>2, TouchesOrdered DEF TouchedBy
<1>5. Added(G, H, k, es) /\ DOMAIN H.obj_ownership_map = DOMAIN G.obj_ownership_map
  BY DEF Touches
<1>6. GraphRec(H) /\ H.nodes = G.nodes \cup {k}
  BY <1>5 DEF Added
<1> HIDE DEF U
<1>7. GraphOk(H, U, D, q)
  BY <1>1, <1>3, <1>4, <1>5, <1>6 DEF GraphOk
<1> QED
  BY <1>6, <1>7 DEF U

\* update_graph_at_free
LEMMA FreeGraph ==
  ASSUME NEW G, NEW T, NEW D, NEW o \in Nat, GraphOk(G, T, D, o), NEW p, IsNext(o, p), NEW s,
         NEW x \in D, NEW H, H = update_graph_at_free(G, p, s, x),
         NEW E, E \subseteq D
  PROVE  /\ GraphOk(H, TouchedBy(T, p, {}, {x}), E, p)
         /\ H.nodes = G.nodes \cup {p}
         /\ KeepsAcyclic(G, H)
<1> USE DEF IsNext
<1>1. PICK q \in Nat : q = p
  OBVIOUS
<1>2. q \notin 1 .. o /\ q \in 1 .. q /\ o <= q
  BY <1>1
<1>3. /\ GraphRec(G) /\ Whole(G) /\ MapsIn(G) /\ q \notin G.nodes
      /\ x \in DOMAIN G.obj_ownership_map /\ H = update_graph_at_free(G, q, s, x)
  BY <1>1, <1>2 DEF GraphOk, Whole
<1>4. PICK es : Touches(G, H, q, es, {}, {x})
  BY <1>3, FreeParts
<1>5. {} \cup {x} \subseteq DOMAIN G.obj_ownership_map /\ {} \cap {x} = {}
  BY <1>3
<1>6. GraphOk(H, TouchedBy(T, q, {}, {x}), D, q) /\ H.nodes = G.nodes \cup {q}
  BY <1>2, <1>4, <1>5, TouchedGraph
<1>7. GraphOk(H, TouchedBy(T, q, {}, {x}), E, q)
  BY <1>6 DEF GraphOk
<1>8. KeepsAcyclic(G, H)
  <2>1. Added(G, H, q, es)
    BY <1>4 DEF Touches
  <2> QED
    BY <1>3, <2>1, FreshAcyclic
<1> QED
  BY <1>1, <1>6, <1>7, <1>8

\* update_graph_at_access
LEMMA AccessGraph ==
  ASSUME NEW G, NEW T, NEW D, NEW o \in Nat, GraphOk(G, T, D, o), NEW q \in Nat, o <= q,
         NEW k \in 1 .. q, NEW s, NEW R, NEW W, R \cup W \subseteq D, R \cap W = {},
         NEW H, H = update_graph_at_access(G, k, s, R, W)
  PROVE  /\ GraphOk(H, TouchedBy(T, k, R, W), D, q)
         /\ H.nodes = G.nodes \cup {k}
         /\ k \notin G.nodes => KeepsAcyclic(G, H)
<1>1. /\ GraphRec(G) /\ Whole(G) /\ MapsIn(G)
      /\ R \cup W \subseteq DOMAIN G.obj_ownership_map
  BY DEF GraphOk, Whole
<1>2. PICK es : Touches(G, H, k, es, R, W)
  BY <1>1, AccessParts
<1>3. GraphOk(H, TouchedBy(T, k, R, W), D, q) /\ H.nodes = G.nodes \cup {k}
  BY <1>1, <1>2, TouchedGraph
<1>4. ASSUME k \notin G.nodes PROVE KeepsAcyclic(G, H)
  <2>1. Added(G, H, k, es)
    BY <1>2 DEF Touches
  <2> QED
    BY <1>1, <1>4, <2>1, FreshAcyclic
<1> QED
  BY <1>3, <1>4

\* The graph H after operation k, which of the objects hit reads R and writes W.
Enters(G, H, k, s, hit, read, write, R, W) ==
  /\ R = (hit \cap read) \ write /\ W = hit \cap write
  /\ H = update_graph_at_kernel(G, k, s, hit, read, write)

\* update_graph_at_kernel, for an operation that hits the objects hit.
LEMMA KernelGraph ==
  ASSUME NEW G, NEW T, NEW D, NEW o \in Nat, GraphOk(G, T, D, o),
         NEW k \in 1 .. o, NEW s, NEW hit, hit \subseteq D, NEW read, NEW write,
         NEW R, NEW W, NEW H, Enters(G, H, k, s, hit, read, write, R, W)
  PROVE  /\ GraphOk(H, TouchedBy(T, k, R, W), D, o)
         /\ H.nodes \subseteq G.nodes \cup {k}
         /\ k \notin G.nodes => KeepsAcyclic(G, H)
<1>1. CASE R \cup W = {}
  <2>1. H = G /\ R = {} /\ W = {}
    BY <1>1 DEF Enters, update_graph_at_kernel
  <2>2. TouchedBy(T, k, R, W) = T
    BY <2>1 DEF TouchedBy
  <2>3. GraphOk(H, TouchedBy(T, k, R, W), D, o)
    BY <2>1, <2>2
  <2> QED
    BY <2>1, <2>3 DEF KeepsAcyclic
<1>2. CASE R \cup W # {}
  <2>1. H = update_graph_at_access(G, k, s, R, W)
    BY <1>2 DEF Enters, update_graph_at_kernel
  <2>2. o <= o /\ R \cup W \subseteq D /\ R \cap W = {}
    BY DEF Enters
  <2>3. /\ GraphOk(H, TouchedBy(T, k, R, W), D, o)
        /\ H.nodes = G.nodes \cup {k}
        /\ k \notin G.nodes => KeepsAcyclic(G, H)
    BY <2>1, <2>2, AccessGraph
  <2> QED
    BY <2>3
<1> QED
  BY <1>1, <1>2

Copied(G, H, T, D, q, x, y) ==
  /\ GraphOk(H, TouchedBy(T, q, {x}, {y}), D, q)
  /\ H.nodes = G.nodes \cup {q}
  /\ q \notin G.nodes => \A X : (x # y \/ q \in X) /\ Acyclic(G, X) => Acyclic(H, X)

\* Two accesses of one operation, which reads x and then writes y.
LEMMA TouchedTwice ==
  ASSUME NEW G, NEW T, NEW D, NEW o \in Nat, GraphOk(G, T, D, o), NEW q \in Nat, o <= q,
         q \in 1 .. q, NEW x \in D, NEW y \in D, NEW M, NEW es, Touches(G, M, q, es, {x}, {}),
         NEW H, NEW fs, Touches(M, H, q, fs, {}, {y})
  PROVE  Copied(G, H, T, D, q, x, y)
<1>1. Whole(G) /\ MapsIn(G) /\ D \subseteq DOMAIN G.obj_ownership_map
  BY DEF GraphOk, Whole
<1>2. {x} \cup {} \subseteq DOMAIN G.obj_ownership_map /\ {x} \cap {} = {}
  BY <1>1
<1>3. PICK V : V = TouchedBy(T, q, {x}, {})
  OBVIOUS
<1>4. GraphOk(M, V, D, q) /\ M.nodes = G.nodes \cup {q}
  BY <1>2, <1>3, TouchedGraph
<1>5. Whole(M) /\ {} \cup {y} \subseteq DOMAIN M.obj_ownership_map /\ {} \cap {y} = {}
  BY <1>4 DEF GraphOk
<1>6. q <= q
  OBVIOUS
<1>7. GraphOk(H, TouchedBy(V, q, {}, {y}), D, q) /\ H.nodes = M.nodes \cup {q}
  BY <1>4, <1>5, <1>6, TouchedGraph
<1>8. TouchedBy(V, q, {}, {y}) = TouchedBy(T, q, {x}, {y})
  BY <1>3 DEF TouchedBy
<1>9. ASSUME q \notin G.nodes, NEW X, x # y \/ q \in X, Acyclic(G, X) PROVE Acyclic(H, X)
  <2>1. ASSUME x # y, NEW e \in fs PROVE e.from # q
    <3>1. /\ M.obj_ownership_map[y] = G.obj_ownership_map[y]
          /\ M.read_nodes[y] = G.read_nodes[y]
      BY <1>1, <2>1 DEF Touches
    <3>2. G.obj_ownership_map[y] # q /\ q \notin G.read_nodes[y]
      BY <1>1, <1>9 DEF MapsIn
    <3> QED
      BY <2>1, <3>1, <3>2 DEF Touches
  <2>2. \A e \in fs : e.from = q => q \in X
    BY <1>9, <2>1
  <2>3. Added(G, M, q, es) /\ Added(M, H, q, fs)
    BY DEF Touches
  <2>4. KeepsAcyclic(G, M) /\ \A e \in M.edges : e.from # q
    BY <1>1, <1>9, <2>3, FreshAcyclic
  <2>5. EdgesIn(M) /\ Acyclic(M, X)
    BY <1>5, <1>9, <2>4 DEF Whole, KeepsAcyclic
  <2> QED
    BY <2>2, <2>3, <2>4, <2>5, AddedAcyclic
<1> QED
  BY <1>4, <1>7, <1>8, <1>9 DEF Copied

\* memcpy_op_callback on the device: source and destination are two accesses of
\* one operation.
LEMMA CopyGraph ==
  ASSUME NEW G, NEW T, NEW D, NEW o \in Nat, GraphOk(G, T, D, o), NEW p, IsNext(o, p),
         NEW s, NEW t, NEW x \in D, NEW y \in D,
         NEW M, M = update_graph_at_access(G, p, s, {x}, {}),
         NEW H, H = update_graph_at_access(M, p, t, {}, {y})
  PROVE  Copied(G, H, T, D, p, x, y) /\ p \notin G.nodes
<1> USE DEF IsNext
<1>1. PICK q \in Nat : q = p
  OBVIOUS
<1>2. q \notin 1 .. o /\ q \in 1 .. q /\ o <= q
  BY <1>1
<1>3. /\ GraphRec(G) /\ MapsIn(G) /\ {x} \cup {} \subseteq DOMAIN G.obj_ownership_map
      /\ q \notin G.nodes /\ y \in DOMAIN G.obj_ownership_map
      /\ M = update_graph_at_access(G, q, s, {x}, {})
  BY <1>1, <1>2 DEF GraphOk, Whole
<1>4. PICK es : Touches(G, M, q, es, {x}, {})
  BY <1>3, AccessParts
<1>5. Whole(G)
  BY DEF GraphOk
<1>6. Whole(M)
  BY <1>4, <1>5, TouchesWhole
<1>7. /\ GraphRec(M) /\ MapsIn(M) /\ {} \cup {y} \subseteq DOMAIN M.obj_ownership_map
      /\ H = update_graph_at_access(M, q, t, {}, {y})
  BY <1>1, <1>3, <1>4, <1>6 DEF Touches, Added, Whole
<1>8. PICK fs : Touches(M, H, q, fs, {}, {y})
  BY <1>7, AccessParts
<1>9. Copied(G, H, T, D, q, x, y)
  BY <1>2, <1>4, <1>8, TouchedTwice
<1> QED
  BY <1>1, <1>3, <1>9

-----------------------------------------------------------------------------
(* Steps *)

\* What a running program shows of the graph.
LEMMA RunningGraph ==
  ASSUME IInv, phase = "run"
  PROVE  GraphOk(graph, accesses, DOMAIN live, op) /\ op \in Nat
  BY LivenessAssumption DEF IInv, GraphInv, GraphOk

\* Before the flush, what it needs follows from a whole graph.
LEMMA RunningFlush ==
  ASSUME phase' = "run", DOMAIN level' = {}, top_index' \in Nat, Whole(graph'),
         graph'.nodes \subseteq op_node' \cup {k.op : k \in inflight'}
  PROVE  FlushInv'
<1>1. /\ graph'.edge_list = graph'.edges
      /\ \A e \in graph'.edges : e.from \in graph'.nodes /\ e.to \in graph'.nodes
  BY DEF Whole, EdgesIn
<1>2. graph'.edges = {e \in graph'.edge_list : e.from \in graph'.nodes /\ e.to \in graph'.nodes}
  BY <1>1
<1> QED
  BY <1>1, <1>2 DEF FlushInv

\* Only a copy inside one object can close a cycle, with itself.
AcyclicKept == Acyclic(graph, SelfCopies) => Acyclic(graph', SelfCopies')

\* More copies allow more cycles.
LEMMA AcyclicMore ==
  ASSUME NEW G, NEW X, NEW Y, X \subseteq Y, Acyclic(G, X)
  PROVE  Acyclic(G, Y)
<1>1. ASSUME NEW S \in SUBSET G.nodes, S # {}
      PROVE  \E n \in S : \A e \in G.edges : e.to = n => e.from \notin S \/ (e.from = n /\ n \in Y)
  <2>1. PICK n \in S : \A e \in G.edges : e.to = n => e.from \notin S \/ (e.from = n /\ n \in X)
    BY <1>1 DEF Acyclic
  <2> QED
    BY <2>1
<1> QED
  BY <1>1 DEF Acyclic

\* What has copied inside an object remains so.
LEMMA CopiesStay ==
  ASSUME accesses \subseteq accesses'
  PROVE  SelfCopies \subseteq SelfCopies'
  BY DEF SelfCopies

\* A step whose operation does not copy inside an object.
LEMMA CyclesKept ==
  ASSUME KeepsAcyclic(graph, graph'), accesses \subseteq accesses'
  PROVE  AcyclicKept
<1>1. PICK X, Y, H : X = SelfCopies /\ Y = SelfCopies' /\ H = graph'
  OBVIOUS
<1>2. X \subseteq Y
  BY <1>1, CopiesStay
<1>3. ASSUME Acyclic(graph, X) PROVE Acyclic(H, Y)
  BY <1>1, <1>2, <1>3, AcyclicMore DEF KeepsAcyclic
<1> QED
  BY <1>1, <1>3 DEF AcyclicKept

\* A step that leaves the graph.
LEMMA GraphLeft ==
  ASSUME graph' = graph, accesses \subseteq accesses'
  PROVE  AcyclicKept
<1>1. KeepsAcyclic(graph, graph')
  BY DEF KeepsAcyclic
<1> QED
  BY <1>1, CyclesKept

\* The objects and the tables after a step.
TablesKept ==
  /\ Objects(live', Ranges, op') /\ Table(memories', live')
  /\ Objects(sub_live', SubRanges, op') /\ Table(submemories', sub_live')
  /\ Pairs(memories'.operations) = touched'
  /\ sub_written' \subseteq Pairs(submemories'.operations)

\* A new operation that leaves the kernels that have not returned.
LEMMA OperationStep ==
  ASSUME IInv, phase = "run", op < MaxOps, op' = op + 1,
         UNCHANGED <<inflight, phase, top_index, level>>, TablesKept,
         GraphOk(graph', accesses', DOMAIN live', op'),
         graph'.nodes \subseteq graph.nodes \cup {op'},
         op_node' = op_node \cup {op'} \/ (graph' = graph /\ op_node' = op_node),
         \A k \in inflight : Hit(k) \subseteq DOMAIN live' /\ k.sub \subseteq DOMAIN sub_live'
  PROVE  IInv'
<1>1. op \in Nat /\ op' \in 0 .. MaxOps /\ op' \in Nat /\ op < op'
  BY LivenessAssumption DEF IInv
<1>2. TablesInv'
  BY DEF TablesKept, TablesInv
<1>3. KernelsInv'
  <2>1. /\ inflight \subseteq Kernels
        /\ \A k \in inflight : k.op \in Nat /\ k.op <= op /\ k.read \cap k.write = {}
        /\ \A k, l \in inflight : k.op = l.op => k = l
        /\ \A k \in inflight : Untold(k) => k.op \notin graph.nodes
    BY LivenessAssumption DEF IInv, KernelsInv, Kernels, OpIds
  <2>2. inflight' \subseteq Kernels'
    <3>1. ASSUME NEW k \in inflight
          PROVE  k.read \subseteq DOMAIN live' /\ k.write \subseteq DOMAIN live' /\ k.atomic \subseteq DOMAIN live'
      BY DEF Hit
    <3> QED
      BY <2>1, <3>1 DEF Kernels
  <2>3. \A k \in inflight : k.op <= op' /\ k.op # op'
    BY <1>1, <2>1
  <2>4. \A k \in inflight : Untold(k) => k.op \notin graph'.nodes
    BY <2>1, <2>3
  <2> QED
    BY <2>1, <2>2, <2>3, <2>4 DEF KernelsInv
<1>4. GraphInv' /\ Ordered(graph', accesses') /\ Whole(graph')
  BY DEF GraphOk, GraphInv
<1>5. FlushInv'
  <2>1. /\ DOMAIN level = {} /\ top_index \in Nat
        /\ graph.nodes \subseteq op_node \cup {k.op : k \in inflight}
    BY DEF IInv, FlushInv
  <2>2. graph'.nodes \subseteq op_node' \cup {k.op : k \in inflight'}
    BY <2>1
  <2> QED
    BY <1>4, <2>1, <2>2, RunningFlush
<1>6. OperationsExact' /\ SubWritesKept'
  BY DEF TablesKept, OperationsExact, SubWritesKept, Pairs
<1> QED
  BY <1>1, <1>2, <1>3, <1>4, <1>5, <1>6 DEF IInv

\* What the tables show of a running program.
LEMMA RunningTables ==
  ASSUME IInv
  PROVE  /\ op \in Nat /\ Ranges \subseteq AllRanges /\ SubRanges \subseteq AllRanges
         /\ Objects(live, Ranges, op) /\ Table(memories, live)
         /\ Objects(sub_live, SubRanges, op) /\ Table(submemories, sub_live)
         /\ Pairs(memories.operations) = touched
         /\ sub_written \subseteq Pairs(submemories.operations)
         /\ \A k \in inflight :
              Hit(k) \subseteq DOMAIN live /\ k.sub \subseteq DOMAIN sub_live
<1>1. inflight \subseteq Kernels
  BY DEF IInv, KernelsInv
<1>2. \A k \in inflight : Hit(k) \subseteq DOMAIN live /\ k.sub \subseteq DOMAIN sub_live
  BY <1>1 DEF Kernels, Hit
<1> QED
  BY <1>2, LivenessAssumption DEF IInv, TablesInv, OperationsExact, SubWritesKept, Pairs, AllRanges

\* More operations leave the objects what they are.
LEMMA ObjectsLater ==
  ASSUME NEW objs, NEW rs, NEW o \in Nat, NEW p \in Nat, o <= p, Objects(objs, rs, o)
  PROVE  Objects(objs, rs, p)
<1>1. 1 .. o \subseteq 1 .. p
  OBVIOUS
<1> QED
  BY <1>1 DEF Objects

\* memory_op_callback keeps the invariant.
LEMMA MallocStep ==
  ASSUME IInv, NEW r \in Ranges, NEW s \in Streams, Malloc(r, s)
  PROVE  IInv' /\ AcyclicKept
<1>1. PICK o \in Nat : o = op
  BY RunningTables
<1>2. PICK p \in Nat : IsNext(o, p)
  BY DEF IsNext
<1>3. op' = p /\ op + 1 = p /\ o <= p
  BY <1>1, <1>2 DEF Malloc, NextOp, IsNext
<1>4. PICK T, H, objs, new : T = memories /\ H = memories' /\ objs = live /\ new = live'
  OBVIOUS
<1>5. TableStep(T, H, new, Ranges, p, {p})
  <2>1. /\ Table(T, objs) /\ Ranges \subseteq AllRanges /\ Objects(objs, Ranges, o)
        /\ \A m \in DOMAIN objs : ~ Overlaps(objs[m], r)
        /\ new = Put(objs, p, r) /\ H = Allocated(T, p, r)
    BY <1>1, <1>3, <1>4, RunningTables DEF Malloc
  <2> QED
    BY <1>2, <2>1, AllocatedTable
<1>6. PICK G, F, A, U : G = graph /\ F = graph' /\ A = accesses /\ U = accesses'
  OBVIOUS
<1>7. U = TouchedBy(A, p, {}, {p})
  BY <1>3, <1>6 DEF Malloc, NextOp, TouchedBy
<1>8. GraphOk(F, U, DOMAIN new, p) /\ F.nodes = G.nodes \cup {p} /\ KeepsAcyclic(G, F)
  <2>1. GraphOk(G, A, DOMAIN objs, o) /\ F = update_graph_at_malloc(G, p, s)
    BY <1>1, <1>3, <1>4, <1>6, RunningGraph DEF Malloc, NextOp
  <2>2. DOMAIN new \subseteq DOMAIN objs \cup {p}
    BY <1>3, <1>4 DEF Malloc, Put
  <2> QED
    BY <1>2, <1>7, <2>1, <2>2, MallocGraph
<1>9. TablesKept
  <2>1. Pairs(H.operations) = touched'
    <3>1. Pairs(T.operations) = touched
      BY <1>4, <1>6, RunningTables
    <3>2. touched' = touched \cup ({p} \X {p})
      BY <1>3 DEF Malloc, NextOp
    <3> QED
      BY <1>5, <3>1, <3>2 DEF TableStep
  <2>2. Objects(sub_live, SubRanges, p)
    BY <1>1, <1>3, RunningTables, ObjectsLater
  <2> QED
    BY <1>3, <1>4, <1>5, <1>6, <2>1, <2>2, RunningTables DEF Malloc, TablesKept, TableStep
<1>10. \A k \in inflight : Hit(k) \subseteq DOMAIN live' /\ k.sub \subseteq DOMAIN sub_live'
  BY RunningTables DEF Malloc, Put
<1>11. IInv'
  BY <1>3, <1>4, <1>6, <1>8, <1>9, <1>10, OperationStep DEF Malloc, NextOp, flush
<1> QED
  BY <1>6, <1>7, <1>8, <1>11, CyclesKept DEF TouchedBy

\* memfree_op_callback keeps the invariant: no kernel that has not returned
\* uses the object.
LEMMA MemFreeStep ==
  ASSUME IInv, NEW m \in DOMAIN live, NEW s \in Streams, MemFree(m, s)
  PROVE  IInv' /\ AcyclicKept
<1>1. PICK o \in Nat : o = op
  BY RunningTables
<1>2. PICK p \in Nat : IsNext(o, p)
  BY DEF IsNext
<1>3. op' = p /\ op + 1 = p /\ o <= p
  BY <1>1, <1>2 DEF MemFree, NextOp, IsNext
<1>4. PICK T, H, objs, new : T = memories /\ H = memories' /\ objs = live /\ new = live'
  OBVIOUS
<1>5. m \in DOMAIN objs
  BY <1>4
<1>6. TableStep(T, H, new, Ranges, p, {m})
  <2>1. /\ Table(T, objs) /\ Ranges \subseteq AllRanges /\ Objects(objs, Ranges, o)
        /\ new = Erase(objs, m) /\ H = Freed(T, p, objs[m])
    BY <1>1, <1>3, <1>4, RunningTables DEF MemFree
  <2> QED
    BY <1>2, <1>5, <2>1, FreedTable
<1>7. PICK G, F, A, U : G = graph /\ F = graph' /\ A = accesses /\ U = accesses'
  OBVIOUS
<1>8. U = TouchedBy(A, p, {}, {m})
  BY <1>3, <1>7 DEF MemFree, NextOp, TouchedBy
<1>9. DOMAIN new = DOMAIN objs \ {m}
  BY <1>4 DEF MemFree, Erase
<1>10. GraphOk(F, U, DOMAIN new, p) /\ F.nodes = G.nodes \cup {p} /\ KeepsAcyclic(G, F)
  <2>1. GraphOk(G, A, DOMAIN objs, o)
    BY <1>1, <1>4, <1>7, RunningGraph DEF MemFree, NextOp
  <2>2. F = update_graph_at_free(G, p, s, m)
    BY <1>3, <1>5, <1>7, RunningTables DEF MemFree, Table, Addressed
  <2>3. DOMAIN new \subseteq DOMAIN objs
    BY <1>9
  <2> QED
    BY <1>2, <1>5, <1>8, <2>1, <2>2, <2>3, FreeGraph
<1>11. TablesKept
  <2>1. Pairs(H.operations) = touched'
    <3>1. Pairs(T.operations) = touched
      BY <1>4, <1>7, RunningTables
    <3>2. touched' = touched \cup ({m} \X {p})
      BY <1>3 DEF MemFree, NextOp
    <3> QED
      BY <1>6, <3>1, <3>2 DEF TableStep
  <2>2. Objects(sub_live, SubRanges, p)
    BY <1>1, <1>3, RunningTables, ObjectsLater
  <2> QED
    BY <1>3, <1>4, <1>6, <1>7, <2>1, <2>2, RunningTables DEF MemFree, TablesKept, TableStep
<1>12. \A k \in inflight : Hit(k) \subseteq DOMAIN live' /\ k.sub \subseteq DOMAIN sub_live'
  <2>1. \A k \in inflight : m \notin Hit(k)
    BY DEF MemFree, InUse
  <2> QED
    BY <1>4, <1>9, <2>1, RunningTables DEF MemFree
<1>13. IInv'
  BY <1>3, <1>4, <1>7, <1>10, <1>11, <1>12, OperationStep DEF MemFree, NextOp, flush
<1> QED
  BY <1>7, <1>8, <1>10, <1>13, CyclesKept DEF TouchedBy

\* An operation that leaves the objects and the graph.
LEMMA GraphLater ==
  ASSUME NEW G, NEW T, NEW D, NEW o \in Nat, NEW p \in Nat, o <= p, GraphOk(G, T, D, o)
  PROVE  GraphOk(G, T, D, p)
<1>1. 1 .. o \subseteq 1 .. p
  OBVIOUS
<1> QED
  BY <1>1 DEF GraphOk

\* What a step of the framework's allocator leaves.
LEMMA SubStep ==
  ASSUME IInv, NextOp({}, {}),
         UNCHANGED <<live, inflight, memories, graph, op_node, sub_written>>,
         Objects(sub_live', SubRanges, op'), Table(submemories', sub_live'),
         Pairs(submemories.operations) \subseteq Pairs(submemories'.operations),
         \A k \in inflight : k.sub \subseteq DOMAIN sub_live'
  PROVE  IInv' /\ AcyclicKept
<1>1. PICK o \in Nat : o = op
  BY RunningTables
<1>2. PICK p \in Nat : IsNext(o, p)
  BY DEF IsNext
<1>3. op' = p /\ o <= p /\ accesses' = accesses /\ touched' = touched
  BY <1>1, <1>2 DEF NextOp, IsNext
<1>4. TablesKept
  <2>1. Objects(live, Ranges, p)
    BY <1>1, <1>3, RunningTables, ObjectsLater
  <2> QED
    BY <1>3, <2>1, RunningTables DEF TablesKept
<1>5. PICK G, T, D : G = graph /\ T = accesses /\ D = DOMAIN live
  OBVIOUS
<1>6. GraphOk(G, T, D, o)
  BY <1>1, <1>5, RunningGraph DEF NextOp
<1>7. GraphOk(G, T, D, p)
  BY <1>3, <1>6, GraphLater
<1>8. \A k \in inflight : Hit(k) \subseteq DOMAIN live' /\ k.sub \subseteq DOMAIN sub_live'
  BY RunningTables
<1>9. IInv'
  BY <1>3, <1>4, <1>5, <1>7, <1>8, OperationStep DEF NextOp, flush
<1> QED
  BY <1>3, <1>9, GraphLeft

\* The allocation of the framework keeps the invariant.
LEMMA SubMallocStep ==
  ASSUME IInv, NEW r \in SubRanges, SubMalloc(r)
  PROVE  IInv' /\ AcyclicKept
<1>1. PICK o \in Nat : o = op
  BY RunningTables
<1>2. PICK p \in Nat : IsNext(o, p)
  BY DEF IsNext
<1>3. op' = p /\ op + 1 = p
  BY <1>1, <1>2 DEF SubMalloc, NextOp, IsNext
<1>4. PICK T, H, objs, new :
        T = submemories /\ H = submemories' /\ objs = sub_live /\ new = sub_live'
  OBVIOUS
<1>5. TableStep(T, H, new, SubRanges, p, {p})
  <2>1. /\ Table(T, objs) /\ SubRanges \subseteq AllRanges /\ Objects(objs, SubRanges, o)
        /\ \A m \in DOMAIN objs : ~ Overlaps(objs[m], r)
        /\ new = Put(objs, p, r) /\ H = Allocated(T, p, r)
    BY <1>1, <1>3, <1>4, RunningTables DEF SubMalloc
  <2> QED
    BY <1>2, <2>1, AllocatedTable
<1>6. \A k \in inflight : k.sub \subseteq DOMAIN sub_live'
  BY RunningTables DEF SubMalloc, Put
<1> QED
  BY <1>3, <1>4, <1>5, <1>6, SubStep DEF SubMalloc, TableStep

\* The release of the framework keeps the invariant.
LEMMA SubFreeStep ==
  ASSUME IInv, NEW x \in DOMAIN sub_live, SubFree(x)
  PROVE  IInv' /\ AcyclicKept
<1>1. PICK o \in Nat : o = op
  BY RunningTables
<1>2. PICK p \in Nat : IsNext(o, p)
  BY DEF IsNext
<1>3. op' = p /\ op + 1 = p
  BY <1>1, <1>2 DEF SubFree, NextOp, IsNext
<1>4. PICK T, H, objs, new :
        T = submemories /\ H = submemories' /\ objs = sub_live /\ new = sub_live'
  OBVIOUS
<1>5. x \in DOMAIN objs
  BY <1>4
<1>6. TableStep(T, H, new, SubRanges, p, {x})
  <2>1. /\ Table(T, objs) /\ SubRanges \subseteq AllRanges /\ Objects(objs, SubRanges, o)
        /\ new = Erase(objs, x) /\ H = Freed(T, p, objs[x])
    BY <1>1, <1>3, <1>4, RunningTables DEF SubFree
  <2> QED
    BY <1>2, <1>5, <2>1, FreedTable
<1>7. \A k \in inflight : k.sub \subseteq DOMAIN sub_live'
  <2>1. \A k \in inflight : x \notin k.sub
    BY DEF SubFree, InUse
  <2> QED
    BY <2>1, RunningTables DEF SubFree, Erase
<1> QED
  BY <1>3, <1>4, <1>6, <1>7, SubStep DEF SubFree, TableStep

\* What the callbacks of copies and memsets leave.
LEMMA AccessStep ==
  ASSUME IInv, NEW R, NEW W, NextOp(R, W), UNCHANGED <<device, inflight>>,
         op_node' = op_node \cup {op'},
         Listed(memories, memories', (R \cup W) \X {op'}),
         NEW P, Listed(submemories, submemories', P),
         sub_written' \subseteq Pairs(submemories'.operations),
         GraphOk(graph', accesses', DOMAIN live, op'),
         graph'.nodes \subseteq graph.nodes \cup {op'}
  PROVE  IInv'
<1>1. PICK o \in Nat : o = op
  BY RunningTables
<1>2. PICK p \in Nat : IsNext(o, p)
  BY DEF IsNext
<1>3. op' = p /\ o <= p /\ op' = op + 1
  BY <1>1, <1>2 DEF NextOp, IsNext
<1>6. PICK T, H, objs, V, K, subs :
        /\ T = memories /\ H = memories' /\ objs = live
        /\ V = submemories /\ K = submemories' /\ subs = sub_live
  OBVIOUS
<1>7. Table(H, objs) /\ Table(K, subs)
  <2>1. Table(T, objs) /\ Listed(T, H, (R \cup W) \X {p}) /\ Table(V, subs) /\ Listed(V, K, P)
    BY <1>3, <1>6, RunningTables
  <2> QED
    BY <2>1, ListedTable
<1>8. Objects(objs, Ranges, p) /\ Objects(subs, SubRanges, p)
  <2>1. Objects(objs, Ranges, o) /\ Objects(subs, SubRanges, o)
    BY <1>1, <1>6, RunningTables
  <2> QED
    BY <1>3, <2>1, ObjectsLater
<1>9. Pairs(H.operations) = touched'
  <2>1. Pairs(T.operations) = touched
    BY <1>6, RunningTables
  <2>2. Pairs(H.operations) = Pairs(T.operations) \cup ((R \cup W) \X {p})
    BY <1>3, <1>6 DEF Listed
  <2>3. touched' = touched \cup ((R \cup W) \X {p})
    BY <1>3 DEF NextOp
  <2> QED
    BY <2>1, <2>2, <2>3
<1>10. TablesKept
  BY <1>3, <1>6, <1>7, <1>8, <1>9 DEF TablesKept, device
<1>11. \A k \in inflight : Hit(k) \subseteq DOMAIN live' /\ k.sub \subseteq DOMAIN sub_live'
  BY RunningTables DEF device
<1>12. GraphOk(graph', accesses', DOMAIN live', op')
  BY DEF device
<1> QED
  BY <1>3, <1>10, <1>11, <1>12, OperationStep DEF NextOp, flush

\* What a copy or a memset writes is among the sub-allocations it is counted for.
LEMMA WritesFound ==
  ASSUME IInv, NEW r \in AllRanges
  PROVE  SubsWritten(r) \subseteq SubsOf(submemories, r)
<1>1. PICK T, objs, o : T = submemories /\ objs = sub_live /\ o = op
  OBVIOUS
<1>2. /\ Addressed(T, objs) /\ o \in Nat /\ SubRanges \subseteq AllRanges
      /\ Objects(objs, SubRanges, o)
  BY <1>1, RunningTables DEF Table
<1>3. SUFFICES ASSUME NEW x \in SubsWritten(r) PROVE x \in SubsOf(T, r)
  BY <1>1
<1>4. x \in DOMAIN objs /\ Overlaps(objs[x], r)
  BY <1>1 DEF SubsWritten
<1>5. PICK y \in DOMAIN objs : objs[y].start <= r.start /\ r.start < objs[y].end
  BY <1>1 DEF SubsWritten
<1> QED
  BY <1>2, <1>4, <1>5, SubsListed

\* The writes stay listed when those of a new operation are.
LEMMA WritesListed ==
  ASSUME IInv, NEW r \in AllRanges, NEW p, NEW K, NEW P, Listed(submemories, K, P),
         SubsOf(submemories, r) \X {p} \subseteq P,
         sub_written' = sub_written \cup {<<x, p>> : x \in SubsWritten(r)}
  PROVE  sub_written' \subseteq Pairs(K.operations)
<1>1. Pairs(K.operations) = Pairs(submemories.operations) \cup P
  BY DEF Listed
<1>2. sub_written \subseteq Pairs(submemories.operations)
  BY RunningTables
<1>3. ASSUME NEW x \in SubsWritten(r) PROVE <<x, p>> \in P
  BY WritesFound
<1> QED
  BY <1>1, <1>2, <1>3

\* redshow_memory_query finds an object.
LEMMA ObjectFound ==
  ASSUME NEW r, OnDevice(r)
  PROVE  ObjectOf(r) \in DOMAIN live
  BY DEF OnDevice, ObjectOf

\* The graph after one access of a new operation.
LEMMA OneAccess ==
  ASSUME IInv, NEW R, NEW W, NextOp(R, W), R \cup W \subseteq DOMAIN live, R \cap W = {},
         NEW s, graph' = update_graph_at_access(graph, op + 1, s, R, W)
  PROVE  /\ GraphOk(graph', accesses', DOMAIN live, op')
         /\ graph'.nodes = graph.nodes \cup {op'}
         /\ AcyclicKept
<1>1. PICK o \in Nat : o = op
  BY RunningTables
<1>2. PICK p \in Nat : IsNext(o, p)
  BY DEF IsNext
<1>3. op' = p /\ op + 1 = p /\ o <= p /\ p \in 1 .. p /\ p \notin 1 .. o
  BY <1>1, <1>2 DEF NextOp, IsNext
<1>4. PICK G, F, A, U, D : G = graph /\ F = graph' /\ A = accesses /\ U = accesses' /\ D = DOMAIN live
  OBVIOUS
<1>5. U = TouchedBy(A, p, R, W)
  BY <1>3, <1>4 DEF NextOp, TouchedBy
<1>6. GraphOk(G, A, D, o)
  BY <1>1, <1>4, RunningGraph DEF NextOp
<1>7. R \cup W \subseteq D /\ F = update_graph_at_access(G, p, s, R, W)
  BY <1>3, <1>4
<1>8. /\ GraphOk(F, TouchedBy(A, p, R, W), D, p)
      /\ F.nodes = G.nodes \cup {p}
      /\ p \notin G.nodes => KeepsAcyclic(G, F)
  BY <1>3, <1>6, <1>7, AccessGraph
<1>9. p \notin G.nodes
  BY <1>3, <1>6 DEF GraphOk
<1>10. AcyclicKept
  BY <1>4, <1>5, <1>8, <1>9, CyclesKept DEF TouchedBy
<1> QED
  BY <1>3, <1>4, <1>5, <1>8, <1>10

\* memset_op_callback and copies from the host keep the invariant.
LEMMA WrittenStep ==
  ASSUME IInv, NEW r \in CopyRanges, NEW s \in Streams, NEW kind, Written(r, s, kind)
  PROVE  IInv' /\ AcyclicKept
<1>1. PICK m : m = ObjectOf(r)
  OBVIOUS
<1>2. m \in DOMAIN live
  BY <1>1, ObjectFound DEF Written
<1>3. PICK R, W : R = {} /\ W = {m}
  OBVIOUS
<1>4. /\ NextOp(R, W) /\ R \cup W \subseteq DOMAIN live /\ R \cap W = {}
      /\ graph' = update_graph_at_access(graph, op + 1, s, R, W)
  BY <1>1, <1>2, <1>3 DEF Written
<1>5. /\ GraphOk(graph', accesses', DOMAIN live, op')
      /\ graph'.nodes = graph.nodes \cup {op'}
      /\ AcyclicKept
  BY <1>4, OneAccess
<1>6. op' = op + 1 /\ r \in AllRanges
  BY <1>4 DEF NextOp, AllRanges
<1>7. PICK p, H, K : p = op' /\ H = memories' /\ K = submemories'
  OBVIOUS
<1>8. Listed(memories, H, (R \cup W) \X {p})
  <2>1. PICK T : T = memories
    OBVIOUS
  <2>2. TableRec(T) /\ R \cup W = {m} /\ H = memory_operation_register(T, {m}, p, kind)
    BY <1>1, <1>3, <1>6, <1>7, <2>1, RunningTables DEF Written, Table
  <2>3. Listed(T, H, {m} \X {p})
    BY <2>2, RegisterLists
  <2> QED
    BY <2>1, <2>2, <2>3
<1>9. PICK P : P = SubsOf(submemories, r) \X {p}
  OBVIOUS
<1>10. Listed(submemories, K, P)
  <2>1. PICK T, S : T = submemories /\ S = SubsOf(submemories, r)
    OBVIOUS
  <2>2. TableRec(T) /\ K = memory_operation_register(T, S, p, kind)
    BY <1>6, <1>7, <2>1, RunningTables DEF Written, Table
  <2>3. Listed(T, K, S \X {p})
    BY <2>2, RegisterLists
  <2> QED
    BY <1>9, <2>1, <2>3
<1>11. sub_written' \subseteq Pairs(submemories'.operations)
  <2>1. sub_written' = sub_written \cup {<<x, p>> : x \in SubsWritten(r)}
    BY <1>6, <1>7 DEF Written
  <2>2. SubsOf(submemories, r) \X {p} \subseteq P
    BY <1>9
  <2>3. sub_written' \subseteq Pairs(K.operations)
    BY <1>6, <1>10, <2>1, <2>2, WritesListed
  <2> QED
    BY <1>7, <2>3
<1>12. UNCHANGED <<device, inflight>> /\ op_node' = op_node \cup {op'}
  BY <1>6 DEF Written
<1>13. Listed(memories, memories', (R \cup W) \X {op'}) /\ Listed(submemories, submemories', P)
  BY <1>7, <1>8, <1>10
<1>14. IInv'
  BY <1>4, <1>5, <1>11, <1>12, <1>13, AccessStep
<1> QED
  BY <1>5, <1>14

\* Copies to the host keep the invariant.
LEMMA CopyToHostStep ==
  ASSUME IInv, NEW r \in CopyRanges, NEW s \in Streams, CopyToHost(r, s)
  PROVE  IInv' /\ AcyclicKept
<1>1. PICK m : m = ObjectOf(r)
  OBVIOUS
<1>2. m \in DOMAIN live
  BY <1>1, ObjectFound DEF CopyToHost
<1>3. PICK R, W : R = {m} /\ W = {}
  OBVIOUS
<1>4. /\ NextOp(R, W) /\ R \cup W \subseteq DOMAIN live /\ R \cap W = {}
      /\ graph' = update_graph_at_access(graph, op + 1, s, R, W)
  BY <1>1, <1>2, <1>3 DEF CopyToHost
<1>5. /\ GraphOk(graph', accesses', DOMAIN live, op')
      /\ graph'.nodes = graph.nodes \cup {op'}
      /\ AcyclicKept
  BY <1>4, OneAccess
<1>6. op' = op + 1
  BY <1>4 DEF NextOp
<1>7. PICK T, H, V, K, p, S :
        /\ T = memories /\ H = memories' /\ V = submemories /\ K = submemories'
        /\ p = op' /\ S = SubsReadOf(submemories, r)
  OBVIOUS
<1>8. TableRec(T) /\ TableRec(V) /\ R \cup W = {m}
  BY <1>3, <1>7, RunningTables DEF Table
<1>9. /\ H = memory_operation_register(T, {m}, p, "COPYF")
      /\ K = memory_operation_register(V, S, p, "COPYF")
  BY <1>1, <1>6, <1>7 DEF CopyToHost
<1>10. Listed(T, H, {m} \X {p})
  BY <1>8, <1>9, RegisterLists
<1>11. Listed(V, K, S \X {p})
  BY <1>8, <1>9, RegisterLists
<1>12. sub_written' \subseteq Pairs(submemories'.operations)
  <2>1. Pairs(V.operations) \subseteq Pairs(K.operations)
    BY <1>11 DEF Listed
  <2>2. sub_written \subseteq Pairs(submemories.operations)
    BY RunningTables
  <2> QED
    BY <1>7, <2>1, <2>2 DEF CopyToHost
<1>13. PICK P : P = S \X {p}
  OBVIOUS
<1>14. Listed(memories, memories', (R \cup W) \X {op'}) /\ Listed(submemories, submemories', P)
  BY <1>7, <1>8, <1>10, <1>11, <1>13
<1>15. UNCHANGED <<device, inflight>> /\ op_node' = op_node \cup {op'}
  BY <1>6 DEF CopyToHost
<1>16. IInv'
  BY <1>4, <1>5, <1>12, <1>14, <1>15, AccessStep
<1> QED
  BY <1>5, <1>16

\* Copies on the device keep the invariant, and only a copy inside one object
\* closes a cycle.
LEMMA CopyOnDeviceStep ==
  ASSUME IInv, NEW src \in CopyRanges, NEW dst \in CopyRanges, NEW s \in Streams, NEW t \in Streams,
         CopyOnDevice(src, dst, s, t)
  PROVE  IInv' /\ AcyclicKept
<1>1. PICK x, y : x = ObjectOf(src) /\ y = ObjectOf(dst)
  OBVIOUS
<1>2. x \in DOMAIN live /\ y \in DOMAIN live
  BY <1>1, ObjectFound DEF CopyOnDevice
<1>3. PICK o \in Nat : o = op
  BY RunningTables
<1>4. PICK p \in Nat : IsNext(o, p)
  BY DEF IsNext
<1>5. NextOp({x}, {y}) /\ op' = p /\ op + 1 = p
  BY <1>1, <1>3, <1>4 DEF CopyOnDevice, NextOp, IsNext
<1>6. PICK G, M, F, A, U, D :
        /\ G = graph /\ M = update_graph_at_access(graph, op + 1, s, {x}, {}) /\ F = graph'
        /\ A = accesses /\ U = accesses' /\ D = DOMAIN live
  OBVIOUS
<1>7. /\ GraphOk(F, U, D, p) /\ F.nodes = G.nodes \cup {p}
      /\ \A X : (x # y \/ p \in X) /\ Acyclic(G, X) => Acyclic(F, X)
  <2>1. U = TouchedBy(A, p, {x}, {y})
    BY <1>5, <1>6 DEF NextOp, TouchedBy
  <2>2. GraphOk(G, A, D, o)
    BY <1>3, <1>5, <1>6, RunningGraph DEF NextOp
  <2>3. /\ M = update_graph_at_access(G, p, s, {x}, {})
        /\ F = update_graph_at_access(M, p, t, {}, {y})
        /\ x \in D /\ y \in D
    BY <1>1, <1>2, <1>5, <1>6 DEF CopyOnDevice
  <2>4. Copied(G, F, A, D, p, x, y) /\ p \notin G.nodes
    BY <1>4, <2>2, <2>3, CopyGraph
  <2> QED
    BY <2>1, <2>4 DEF Copied
<1>8. AcyclicKept
  <2>1. PICK X, Y : X = SelfCopies /\ Y = SelfCopies'
    OBVIOUS
  <2>2. {<<x, p, "r">>, <<y, p, "w">>} \subseteq accesses' /\ accesses \subseteq accesses'
    BY <1>5 DEF NextOp
  <2>3. p \in OpIds /\ x \in OpIds
    BY <1>1, <1>2, <1>3, <1>4, <1>5, RunningTables, LivenessAssumption
    DEF NextOp, OpIds, Objects, IsNext, IInv
  <2>4. x # y \/ p \in Y
    BY <2>1, <2>2, <2>3 DEF SelfCopies
  <2>5. X \subseteq Y
    BY <2>1, <2>2, CopiesStay
  <2>6. Acyclic(G, X) => Acyclic(F, Y)
    BY <1>7, <2>4, <2>5, AcyclicMore
  <2> QED
    BY <1>6, <2>1, <2>6 DEF AcyclicKept
<1>9. PICK T, H, V, K, Q, S :
        /\ T = memories /\ H = memories' /\ V = submemories /\ K = submemories'
        /\ Q = SubsReadOf(submemories, src) /\ S = SubsOf(submemories, dst)
  OBVIOUS
<1>10. TableRec(T) /\ TableRec(V) /\ dst \in AllRanges
  BY <1>9, RunningTables DEF Table, AllRanges
<1>11. PICK N, L : /\ N = memory_operation_register(T, {x}, p, "COPYF")
                   /\ L = memory_operation_register(V, Q, p, "COPYF")
  OBVIOUS
<1>12. Listed(T, N, {x} \X {p}) /\ Listed(V, L, Q \X {p})
  BY <1>10, <1>11, RegisterLists
<1>13. TableRec(N) /\ TableRec(L)
  BY <1>12 DEF Listed
<1>14. /\ H = memory_operation_register(N, {y}, p, "COPYT")
       /\ K = memory_operation_register(L, S, p, "COPYT")
  BY <1>1, <1>5, <1>9, <1>11 DEF CopyOnDevice
<1>15. Listed(N, H, {y} \X {p}) /\ Listed(L, K, S \X {p})
  BY <1>13, <1>14, RegisterLists
<1>16. PICK P : P = (Q \X {p}) \cup (S \X {p})
  OBVIOUS
<1>17. Listed(T, H, ({x} \X {p}) \cup ({y} \X {p})) /\ Listed(V, K, P)
  BY <1>12, <1>15, <1>16, ListedTwice
<1>18. Listed(memories, memories', ({x} \cup {y}) \X {op'}) /\ Listed(submemories, submemories', P)
  <2>1. ({x} \cup {y}) \X {p} = ({x} \X {p}) \cup ({y} \X {p})
    OBVIOUS
  <2> QED
    BY <1>5, <1>9, <1>17, <2>1
<1>19. sub_written' \subseteq Pairs(submemories'.operations)
  <2>1. sub_written' = sub_written \cup {<<z, p>> : z \in SubsWritten(dst)}
    BY <1>5 DEF CopyOnDevice
  <2>2. SubsOf(submemories, dst) \X {p} \subseteq P /\ Listed(submemories, K, P)
    BY <1>9, <1>16, <1>17
  <2>3. sub_written' \subseteq Pairs(K.operations)
    BY <1>10, <2>1, <2>2, WritesListed
  <2> QED
    BY <1>9, <2>3
<1>20. UNCHANGED <<device, inflight>> /\ op_node' = op_node \cup {op'}
  BY <1>5 DEF CopyOnDevice
<1>21. GraphOk(graph', accesses', DOMAIN live, op') /\ graph'.nodes \subseteq graph.nodes \cup {op'}
  BY <1>5, <1>6, <1>7
<1>22. IInv'
  BY <1>5, <1>18, <1>19, <1>20, <1>21, AccessStep
<1> QED
  BY <1>8, <1>22

\* What the invariant says of the kernels.
LEMMA RunningKernels ==
  ASSUME IInv
  PROVE  /\ \A k \in inflight :
              /\ k = [op |-> k.op, stream |-> k.stream, read |-> k.read, write |-> k.write,
                      atomic |-> k.atomic, sub |-> k.sub, stage |-> k.stage]
              /\ k \in Kernels /\ k.op \in 1 .. op /\ k.op \in OpIds
              /\ k.read \cap k.write = {}
              /\ Untold(k) => k.op \notin graph.nodes
         /\ \A k, l \in inflight : k.op = l.op => k = l
         /\ inflight # {} => phase = "run"
<1>1. /\ inflight \subseteq Kernels
      /\ \A k \in inflight : k.op <= op /\ k.read \cap k.write = {}
      /\ \A k, l \in inflight : k.op = l.op => k = l
      /\ \A k \in inflight : Untold(k) => k.op \notin graph.nodes
      /\ phase # "run" => inflight = {}
      /\ op \in 0 .. MaxOps
  BY DEF IInv, KernelsInv, FlushInv
<1>2. ASSUME NEW k \in inflight
      PROVE  /\ k = [op |-> k.op, stream |-> k.stream, read |-> k.read, write |-> k.write,
                     atomic |-> k.atomic, sub |-> k.sub, stage |-> k.stage]
             /\ k \in Kernels /\ k.op \in OpIds
  BY <1>1 DEF Kernels
<1>3. ASSUME NEW k \in inflight PROVE k.op \in 1 .. op
  BY <1>1, <1>2, LivenessAssumption DEF OpIds
<1> QED
  BY <1>1, <1>2, <1>3

\* A kernel that starts keeps the invariant.
LEMMA LaunchStep ==
  ASSUME IInv, NEW s \in Streams, NEW R \in SUBSET DOMAIN live, NEW W \in SUBSET DOMAIN live,
         NEW A \in SUBSET DOMAIN live, NEW S \in SUBSET DOMAIN sub_live, Launch(s, R, W, A, S)
  PROVE  IInv' /\ AcyclicKept
<1>1. PICK o \in Nat : o = op
  BY RunningTables
<1>2. PICK p \in Nat : IsNext(o, p)
  BY DEF IsNext
<1>3. /\ op' = p /\ op + 1 = p /\ o <= p /\ p \notin 1 .. o /\ p \in OpIds /\ p \in 0 .. MaxOps
      /\ touched' = touched /\ accesses' = accesses /\ 1 .. o \subseteq 1 .. p
  BY <1>1, <1>2, LivenessAssumption DEF Launch, NextOp, IsNext, OpIds
<1>4. /\ phase = "run" /\ UNCHANGED <<live, sub_live, memories, submemories, graph, op_node, sub_written,
                                      phase, top_index, level>>
  BY DEF Launch, NextOp, device, tables, flush
<1>5. TablesInv'
  <2>1. Objects(live, Ranges, p) /\ Objects(sub_live, SubRanges, p)
    BY <1>1, <1>3, RunningTables, ObjectsLater
  <2> QED
    BY <1>3, <1>4, <2>1, RunningTables DEF TablesInv
<1>6. GraphOk(graph, accesses, DOMAIN live, p) /\ p \notin graph.nodes
  <2>1. GraphOk(graph, accesses, DOMAIN live, o)
    BY <1>1, <1>4, RunningGraph
  <2> QED
    BY <1>3, <2>1 DEF GraphOk
<1>7. PICK n : n = [op |-> p, stream |-> s, read |-> R, write |-> W, atomic |-> A, sub |-> S,
                    stage |-> "run"]
  OBVIOUS
<1>8. inflight' = inflight \cup {n} /\ n \in Kernels /\ n.op = p /\ n.read \cap n.write = {}
  BY <1>3, <1>7 DEF Launch, Kernels
<1>9. KernelsInv'
  <2>1. Kernels' = Kernels
    BY <1>4 DEF Kernels
  <2>2. \A k \in inflight : k.op <= p /\ k.op # p
    BY <1>1, <1>3, RunningKernels
  <2>3. \A k \in inflight' : k \in Kernels /\ k.op <= p /\ k.read \cap k.write = {}
    BY <1>8, <2>2, RunningKernels
  <2>4. \A k, l \in inflight' : k.op = l.op => k = l
    BY <1>8, <2>2, RunningKernels
  <2>5. \A k \in inflight' : Untold(k) => k.op \notin graph.nodes
    BY <1>6, <1>8, RunningKernels
  <2> QED
    BY <1>3, <1>4, <2>1, <2>3, <2>4, <2>5 DEF KernelsInv
<1>10. GraphInv' /\ Ordered(graph', accesses') /\ Whole(graph')
  BY <1>3, <1>4, <1>6 DEF GraphOk, GraphInv
<1>11. FlushInv'
  <2>1. /\ DOMAIN level = {} /\ top_index \in Nat
        /\ graph.nodes \subseteq op_node \cup {k.op : k \in inflight}
    BY <1>4 DEF IInv, FlushInv
  <2>2. graph'.nodes \subseteq op_node' \cup {k.op : k \in inflight'}
    BY <1>4, <1>8, <2>1
  <2> QED
    BY <1>4, <1>10, <2>1, <2>2, RunningFlush
<1>12. OperationsExact' /\ SubWritesKept'
  BY <1>3, <1>4, RunningTables DEF OperationsExact, SubWritesKept, Pairs
<1>13. IInv'
  BY <1>3, <1>5, <1>9, <1>10, <1>11, <1>12 DEF IInv
<1> QED
  BY <1>3, <1>4, <1>13, GraphLeft

\* A kernel goes one step further in its report; it enters the graph after it was
\* listed for its objects.
LEMMA StageStep ==
  ASSUME IInv, NEW k \in inflight, NEW from, NEW to \in {"hit", "graph", "analysed"},
         Advance(k, from, to), UNCHANGED <<op, live, sub_live>>,
         to = "hit" => from = "run" /\ graph' = graph,
         graph'.nodes \subseteq graph.nodes \cup {k.op}
  PROVE  KernelsInv' /\ {l.op : l \in inflight'} = {l.op : l \in inflight}
<1>1. k \in Kernels /\ k.read \cap k.write = {} /\ k.op \in 1 .. op
  BY RunningKernels
<1>2. PICK n : n = [k EXCEPT !.stage = to]
  OBVIOUS
<1>3. inflight' = (inflight \ {k}) \cup {n} /\ k.stage = from
  BY <1>2 DEF Advance
<1>4. n \in Kernels /\ n.op = k.op /\ n.read \cap n.write = {} /\ n.stage = to
  BY <1>1, <1>2 DEF Kernels
<1>5. Kernels' = Kernels
  BY DEF Kernels
<1>6. \A l \in inflight \ {k} : l.op # k.op
  BY RunningKernels
<1>7. \A l \in inflight' : l \in Kernels /\ l.op <= op /\ l.read \cap l.write = {}
  BY <1>1, <1>3, <1>4, RunningKernels, RunningTables
<1>8. \A l, m \in inflight' : l.op = m.op => l = m
  BY <1>3, <1>4, <1>6, RunningKernels
<1>9. ASSUME NEW l \in inflight', Untold(l) PROVE l.op \notin graph'.nodes
  <2>1. CASE l \in inflight \ {k}
    BY <1>6, <1>9, <2>1, RunningKernels
  <2>2. CASE l = n
    <3>1. to = "hit" /\ Untold(k)
      BY <1>3, <1>4, <1>9, <2>2 DEF Untold
    <3> QED
      BY <1>4, <2>2, <3>1, RunningKernels
  <2> QED
    BY <1>3, <2>1, <2>2
<1>10. KernelsInv'
  BY <1>5, <1>7, <1>8, <1>9 DEF KernelsInv, Untold
<1> QED
  BY <1>3, <1>4, <1>10

\* The graph and the flush after a report.
LEMMA ReportStep ==
  ASSUME IInv, phase = "run", UNCHANGED <<op, live, op_node, phase, top_index, level>>,
         GraphOk(graph', accesses', DOMAIN live, op),
         {l.op : l \in inflight'} = {l.op : l \in inflight},
         graph'.nodes \subseteq graph.nodes \cup {l.op : l \in inflight}
  PROVE  GraphInv' /\ Ordered(graph', accesses') /\ FlushInv'
<1>1. GraphInv' /\ Ordered(graph', accesses') /\ Whole(graph')
  BY DEF GraphOk, GraphInv
<1>2. /\ DOMAIN level = {} /\ top_index \in Nat
      /\ graph.nodes \subseteq op_node \cup {l.op : l \in inflight}
  BY DEF IInv, FlushInv
<1>3. graph'.nodes \subseteq op_node' \cup {l.op : l \in inflight'}
  BY <1>2
<1> QED
  BY <1>1, <1>2, <1>3, RunningFlush

\* A kernel is listed for the objects it hit.
LEMMA AnalysisHitStep ==
  ASSUME IInv, NEW k \in inflight, AnalysisHit(k)
  PROVE  IInv' /\ AcyclicKept
<1>1. /\ phase = "run" /\ op \in Nat /\ Hit(k) \subseteq DOMAIN live
  BY RunningKernels, RunningTables
<1>2. /\ UNCHANGED <<op, live, sub_live, submemories, graph, op_node, phase, top_index, level,
                     accesses, sub_written>>
      /\ Advance(k, "run", "hit") /\ touched' = touched \cup (Hit(k) \X {k.op})
  BY DEF AnalysisHit, device, flush
<1>3. PICK T, H, objs, ids, q : /\ T = memories /\ H = memories' /\ objs = live
                                /\ ids = Hit(k) /\ q = k.op
  OBVIOUS
<1>4. HitStep(T, H, objs, ids, q)
  <2>1. /\ Table(T, objs) /\ Objects(objs, Ranges, op) /\ Ranges \subseteq AllRanges
        /\ ids \subseteq DOMAIN objs
    BY <1>1, <1>3, RunningTables
  <2>2. H = update_aux_hit(T, q, Starts(objs, ids))
    BY <1>3 DEF AnalysisHit
  <2> QED
    BY <1>1, <2>1, <2>2, HitTable
<1>5. TablesInv'
  BY <1>2, <1>3, <1>4, RunningTables DEF TablesInv, HitStep
<1>6. KernelsInv' /\ {l.op : l \in inflight'} = {l.op : l \in inflight}
  BY <1>2, StageStep
<1>7. GraphInv' /\ Ordered(graph', accesses') /\ FlushInv'
  BY <1>1, <1>2, <1>6, RunningGraph, ReportStep
<1>8. OperationsExact' /\ SubWritesKept'
  BY <1>2, <1>3, <1>4, RunningTables DEF OperationsExact, SubWritesKept, Pairs, HitStep
<1>9. op' \in 0 .. MaxOps
  BY <1>2 DEF IInv
<1>10. IInv'
  BY <1>5, <1>6, <1>7, <1>8, <1>9 DEF IInv
<1> QED
  BY <1>2, <1>10, GraphLeft

\* A kernel enters the graph, where it was not before, with the objects that are
\* marked.
LEMMA AnalysisGraphStep ==
  ASSUME IInv, NEW k \in inflight, AnalysisGraph(k)
  PROVE  IInv' /\ AcyclicKept
<1>1. /\ phase = "run" /\ op \in Nat /\ k.op \in 1 .. op
      /\ k.read \cap k.write = {} /\ Hit(k) \subseteq DOMAIN live
  BY RunningKernels, RunningTables
<1>2. /\ UNCHANGED <<op, live, sub_live, memories, submemories, op_node, phase, top_index, level,
                     touched, sub_written>>
      /\ Advance(k, "hit", "graph")
  BY DEF AnalysisGraph, device, flush
<1>3. k.op \notin graph.nodes
  BY <1>2, RunningKernels DEF Advance, Untold
<1>4. PICK T, objs, G, F, A, U, D :
        /\ T = memories /\ objs = live /\ G = graph /\ F = graph'
        /\ A = accesses /\ U = accesses' /\ D = DOMAIN live
  OBVIOUS
<1>5. PICK hit, R, W, q, o, s : /\ hit = Hit(k) /\ R = k.read /\ W = k.write
                                /\ q = k.op /\ o = op /\ s = k.stream
  OBVIOUS
<1>6. R \subseteq hit /\ W \subseteq hit /\ R \cap W = {} /\ hit \subseteq D
  BY <1>1, <1>4, <1>5 DEF Hit
<1>7. U = TouchedBy(A, q, R, W)
  BY <1>4, <1>5 DEF AnalysisGraph, TouchedBy
<1>8. F = update_graph_at_kernel(G, q, s, hit, R, W)
  <2>1. Addressed(T, objs) /\ hit \subseteq DOMAIN objs /\ R \subseteq DOMAIN objs /\ W \subseteq DOMAIN objs
    BY <1>4, <1>6, RunningTables DEF Table
  <2>2. /\ {T.addresses[a] : a \in Starts(objs, hit)} = hit
        /\ {T.addresses[a] : a \in Starts(objs, R)} = R
        /\ {T.addresses[a] : a \in Starts(objs, W)} = W
    BY <2>1, HitObjects
  <2>3. F = update_graph_at_kernel(G, k.op, k.stream,
              {T.addresses[a] : a \in Starts(objs, Hit(k))},
              {T.addresses[a] : a \in Starts(objs, k.read)},
              {T.addresses[a] : a \in Starts(objs, k.write)})
    BY <1>4 DEF AnalysisGraph
  <2> QED
    BY <1>5, <2>2, <2>3
<1>9. GraphOk(F, U, D, o) /\ F.nodes \subseteq G.nodes \cup {q} /\ KeepsAcyclic(G, F)
  <2>1. GraphOk(G, A, D, o) /\ o \in Nat /\ q \in 1 .. o /\ q \notin G.nodes
    BY <1>1, <1>3, <1>4, <1>5, RunningGraph
  <2>2. PICK read, write : read = R /\ write = W
    OBVIOUS
  <2>3. hit \subseteq D /\ Enters(G, F, q, s, hit, read, write, R, W)
    BY <1>6, <1>8, <2>2 DEF Enters
  <2>4. /\ GraphOk(F, TouchedBy(A, q, R, W), D, o)
        /\ F.nodes \subseteq G.nodes \cup {q}
        /\ q \notin G.nodes => KeepsAcyclic(G, F)
    BY <2>1, <2>3, KernelGraph
  <2> QED
    BY <1>7, <2>1, <2>4
<1>10. KernelsInv' /\ {l.op : l \in inflight'} = {l.op : l \in inflight}
  BY <1>2, <1>4, <1>5, <1>9, StageStep
<1>11. GraphInv' /\ Ordered(graph', accesses') /\ FlushInv'
  BY <1>1, <1>2, <1>4, <1>5, <1>9, <1>10, ReportStep
<1>12. TablesInv' /\ OperationsExact' /\ SubWritesKept' /\ op' \in 0 .. MaxOps
  BY <1>2 DEF IInv, TablesInv, OperationsExact, SubWritesKept
<1>13. IInv'
  BY <1>10, <1>11, <1>12 DEF IInv
<1> QED
  BY <1>4, <1>7, <1>9, <1>13, CyclesKept DEF TouchedBy

\* A kernel is listed for the sub-allocations it hit.
LEMMA AnalysisSubHitStep ==
  ASSUME IInv, NEW k \in inflight, AnalysisSubHit(k)
  PROVE  IInv' /\ AcyclicKept
<1>1. /\ phase = "run" /\ op \in Nat /\ k.sub \subseteq DOMAIN sub_live
  BY RunningKernels, RunningTables
<1>2. /\ UNCHANGED <<op, live, sub_live, memories, graph, op_node, phase, top_index, level,
                     touched, accesses, sub_written>>
      /\ Advance(k, "graph", "analysed")
  BY DEF AnalysisSubHit, device, flush, history
<1>3. PICK T, H, objs, ids, q : /\ T = submemories /\ H = submemories' /\ objs = sub_live
                                /\ ids = k.sub /\ q = k.op
  OBVIOUS
<1>4. HitStep(T, H, objs, ids, q)
  <2>1. /\ Table(T, objs) /\ Objects(objs, SubRanges, op) /\ SubRanges \subseteq AllRanges
        /\ ids \subseteq DOMAIN objs
    BY <1>1, <1>3, RunningTables
  <2>2. H = update_aux_hit(T, q, Starts(objs, ids))
    BY <1>3 DEF AnalysisSubHit
  <2> QED
    BY <1>1, <2>1, <2>2, HitTable
<1>5. TablesInv'
  BY <1>2, <1>3, <1>4, RunningTables DEF TablesInv, HitStep
<1>6. KernelsInv' /\ {l.op : l \in inflight'} = {l.op : l \in inflight}
  BY <1>2, StageStep
<1>7. GraphInv' /\ Ordered(graph', accesses') /\ FlushInv'
  BY <1>1, <1>2, <1>6, RunningGraph, ReportStep
<1>8. OperationsExact' /\ SubWritesKept'
  BY <1>2, <1>3, <1>4, RunningTables DEF OperationsExact, SubWritesKept, Pairs, HitStep
<1>9. op' \in 0 .. MaxOps
  BY <1>2 DEF IInv
<1>10. IInv'
  BY <1>5, <1>6, <1>7, <1>8, <1>9 DEF IInv
<1> QED
  BY <1>2, <1>10, GraphLeft

\* A kernel that returns gets its calling context.
LEMMA KernelEndStep ==
  ASSUME IInv, NEW k \in inflight, KernelEnd(k)
  PROVE  IInv' /\ AcyclicKept
<1>1. phase = "run"
  BY RunningKernels
<1>2. /\ UNCHANGED <<op, live, sub_live, memories, submemories, graph, phase, top_index, level,
                     touched, accesses, sub_written>>
      /\ inflight' = inflight \ {k} /\ op_node' = op_node \cup {k.op}
  BY DEF KernelEnd, device, flush, history
<1>3. TablesInv' /\ OperationsExact' /\ SubWritesKept' /\ op' \in 0 .. MaxOps
  BY <1>2 DEF IInv, TablesInv, OperationsExact, SubWritesKept
<1>4. KernelsInv'
  <2>1. Kernels' = Kernels
    BY <1>2 DEF Kernels
  <2> QED
    BY <1>2, <2>1 DEF IInv, KernelsInv
<1>5. GraphInv' /\ Ordered(graph', accesses') /\ Whole(graph')
  BY <1>1, <1>2 DEF IInv, GraphInv
<1>6. FlushInv'
  <2>1. /\ DOMAIN level = {} /\ top_index \in Nat
        /\ graph.nodes \subseteq op_node \cup {l.op : l \in inflight}
    BY <1>1 DEF IInv, FlushInv
  <2>2. {l.op : l \in inflight} \subseteq {l.op : l \in inflight'} \cup {k.op}
    BY <1>2
  <2>3. graph'.nodes \subseteq op_node' \cup {l.op : l \in inflight'}
    BY <1>2, <2>1, <2>2
  <2> QED
    BY <1>1, <1>2, <1>5, <2>1, <2>3, RunningFlush
<1>7. IInv'
  BY <1>3, <1>4, <1>5, <1>6 DEF IInv
<1> QED
  BY <1>2, <1>7, GraphLeft

-----------------------------------------------------------------------------
(* The flush *)

\* What remove_node leaves of the graph.
LEMMA NodesRemoved ==
  ASSUME NEW G, GraphRec(G), NEW ns, NEW H, H = remove_nodes(G, ns)
  PROVE  Fields(H, G.nodes \ ns, {x \in G.edges : x.from \notin ns /\ x.to \notin ns},
                G.edge_list, G.obj_ownership_map, G.read_nodes, G.stream_ownership_map)
<1>1. PICK a, b, c, d, e, f, g :
        G = [nodes |-> a, edges |-> b, edge_list |-> c, obj_ownership_map |-> d,
             read_nodes |-> e, stream_ownership_map |-> f, stream_nodes |-> g]
  BY DEF GraphRec
<1>2. PICK n : n = G.nodes \ ns
  OBVIOUS
<1>3. PICK l : l = {x \in G.edges : x.from \notin ns /\ x.to \notin ns}
  OBVIOUS
<1>4. PICK U : U = [G EXCEPT !.nodes = n]
  OBVIOUS
<1>5. H = [U EXCEPT !.edges = l]
  BY <1>2, <1>3, <1>4 DEF remove_nodes
<1>6. U = [nodes |-> n, edges |-> b, edge_list |-> c, obj_ownership_map |-> d,
           read_nodes |-> e, stream_ownership_map |-> f, stream_nodes |-> g]
  BY <1>1, <1>4
<1>7. H = [nodes |-> n, edges |-> l, edge_list |-> c, obj_ownership_map |-> d,
           read_nodes |-> e, stream_ownership_map |-> f, stream_nodes |-> g]
  BY <1>5, <1>6
<1> QED
  BY <1>1, <1>2, <1>3, <1>7 DEF Fields, GraphRec

\* What the flush leaves of the rest.
LEMMA FlushLeaves ==
  ASSUME IInv, UNCHANGED <<op, device, inflight, memories, submemories, history>>,
         phase # "run", GraphRec(graph'), Ordered(graph', accesses)
  PROVE  /\ TablesInv' /\ OperationsExact' /\ SubWritesKept' /\ op' \in 0 .. MaxOps
         /\ KernelsInv' /\ Ordered(graph', accesses')
<1>1. TablesInv' /\ OperationsExact' /\ SubWritesKept' /\ op' \in 0 .. MaxOps
  BY DEF IInv, TablesInv, OperationsExact, SubWritesKept, device, history
<1>2. inflight' = {}
  BY DEF IInv, FlushInv
<1>3. KernelsInv'
  BY <1>2 DEF KernelsInv
<1> QED
  BY <1>1, <1>3 DEF history

\* The flush starts when all kernels have returned.
LEMMA FlushStep ==
  ASSUME IInv, Flush
  PROVE  IInv' /\ AcyclicKept
<1>1. /\ phase = "run" /\ phase' = "topo" /\ inflight = {}
      /\ UNCHANGED <<op, live, sub_live, inflight, memories, submemories, graph, op_node,
                     top_index, level, touched, accesses, sub_written>>
  BY DEF Flush, device, tables, history
<1>2. TablesInv' /\ OperationsExact' /\ SubWritesKept' /\ op' \in 0 .. MaxOps
  BY <1>1 DEF IInv, TablesInv, OperationsExact, SubWritesKept
<1>3. KernelsInv'
  BY <1>1 DEF KernelsInv
<1>4. GraphInv' /\ Ordered(graph', accesses')
  BY <1>1 DEF IInv, GraphInv
<1>5. FlushInv'
  BY <1>1 DEF IInv, FlushInv
<1>6. IInv'
  BY <1>2, <1>3, <1>4, <1>5 DEF IInv
<1> QED
  BY <1>1, <1>6, GraphLeft

\* The flush ends.
LEMMA TopologicalEndStep ==
  ASSUME IInv, TopologicalEnd
  PROVE  IInv' /\ AcyclicKept
<1>1. /\ phase = "topo" /\ phase' = "done"
      /\ UNCHANGED <<op, device, inflight, memories, submemories, graph, op_node,
                     top_index, level, history>>
  BY DEF TopologicalEnd, tables
<1>2. GraphRec(graph') /\ Ordered(graph', accesses)
  BY <1>1 DEF IInv, GraphInv
<1>3. /\ TablesInv' /\ OperationsExact' /\ SubWritesKept' /\ op' \in 0 .. MaxOps
      /\ KernelsInv' /\ Ordered(graph', accesses')
  BY <1>1, <1>2, FlushLeaves
<1>4. GraphInv'
  BY <1>1, <1>2 DEF GraphInv
<1>5. FlushInv'
  BY <1>1 DEF IInv, FlushInv
<1>6. IInv'
  BY <1>3, <1>4, <1>5 DEF IInv
<1> QED
  BY <1>1, <1>6, GraphLeft DEF history

\* A round of dump_topological_order gives a level to what depends on nothing
\* that is left.
LEMMA TopologicalRoundStep ==
  ASSUME IInv, TopologicalRound
  PROVE  IInv' /\ AcyclicKept
<1>1. PICK G, F, ns : G = graph /\ F = graph' /\ ns = get_no_inedge_nodes(graph)
  OBVIOUS
<1>2. /\ phase = "topo" /\ phase' = "topo" /\ F = remove_nodes(G, ns)
      /\ level' = [n \in DOMAIN level \cup ns |-> IF n \in ns THEN top_index ELSE level[n]]
      /\ top_index' = top_index + 1
      /\ UNCHANGED <<op, device, inflight, memories, submemories, op_node, history>>
  BY <1>1 DEF TopologicalRound
<1>3. /\ GraphRec(F) /\ F.nodes = G.nodes \ ns
      /\ F.edges = {x \in G.edges : x.from \notin ns /\ x.to \notin ns}
      /\ F.edge_list = G.edge_list /\ F.obj_ownership_map = G.obj_ownership_map
      /\ F.read_nodes = G.read_nodes
  <2>1. GraphRec(G)
    BY <1>1 DEF IInv, GraphInv
  <2> QED
    BY <1>2, <2>1, NodesRemoved DEF Fields
<1>4. GraphRec(graph') /\ Ordered(graph', accesses)
  <2>1. Ordered(G, accesses)
    BY <1>1 DEF IInv
  <2> QED
    BY <1>1, <1>3, <2>1 DEF Ordered
<1>5. /\ TablesInv' /\ OperationsExact' /\ SubWritesKept' /\ op' \in 0 .. MaxOps
      /\ KernelsInv' /\ Ordered(graph', accesses')
  BY <1>2, <1>4, FlushLeaves
<1>6. GraphInv'
  BY <1>2, <1>4 DEF GraphInv
<1>7. ns \subseteq G.nodes /\ \A n \in ns : \A e \in G.edges : e.to # n
  BY <1>1 DEF get_no_inedge_nodes
<1>8. PICK lev, lev2 : lev = level /\ lev2 = level'
  OBVIOUS
<1>9. /\ inflight = {} /\ G.nodes \cap DOMAIN lev = {}
      /\ G.edges = {e \in G.edge_list : e.from \in G.nodes /\ e.to \in G.nodes}
      /\ \A e \in G.edge_list : {e.from, e.to} \subseteq G.nodes \cup DOMAIN lev
      /\ top_index \in Nat
      /\ \A n \in DOMAIN lev : lev[n] \in Nat /\ lev[n] < top_index
      /\ \A e \in G.edge_list : e.to \in DOMAIN lev =>
           e.from \in DOMAIN lev /\ lev[e.from] < lev[e.to]
      /\ G.nodes \subseteq op_node /\ DOMAIN lev \subseteq op_node
  BY <1>1, <1>2, <1>8 DEF IInv, FlushInv
<1>10. /\ DOMAIN lev2 = DOMAIN lev \cup ns
       /\ \A n \in ns : lev2[n] = top_index
       /\ \A n \in DOMAIN lev : lev2[n] = lev[n]
  BY <1>2, <1>7, <1>8, <1>9
<1>11. ASSUME NEW e \in G.edge_list, e.to \in DOMAIN lev2
       PROVE  e.from \in DOMAIN lev2 /\ lev2[e.from] < lev2[e.to]
  <2>1. CASE e.to \in DOMAIN lev
    BY <1>9, <1>10, <2>1
  <2>2. CASE e.to \in ns
    <3>1. e.from \in DOMAIN lev
      BY <1>7, <1>9, <2>2
    <3> QED
      BY <1>9, <1>10, <2>2, <3>1
  <2> QED
    BY <1>10, <1>11, <2>1, <2>2
<1>12. F.nodes \cap DOMAIN lev2 = {}
  BY <1>3, <1>9, <1>10
<1>13. F.edges = {e \in F.edge_list : e.from \in F.nodes /\ e.to \in F.nodes}
  BY <1>3, <1>9
<1>14. \A e \in F.edge_list : {e.from, e.to} \subseteq F.nodes \cup DOMAIN lev2
  <2>1. F.nodes \cup DOMAIN lev2 = G.nodes \cup DOMAIN lev
    BY <1>3, <1>7, <1>10
  <2> QED
    BY <1>3, <1>9, <2>1
<1>15. top_index' \in Nat /\ \A n \in DOMAIN lev2 : lev2[n] \in Nat /\ lev2[n] < top_index'
  BY <1>2, <1>9, <1>10
<1>16. F.nodes \subseteq op_node /\ DOMAIN lev2 \subseteq op_node
  BY <1>3, <1>7, <1>9, <1>10
<1>17. FlushInv'
  <2>1. /\ phase' \in {"run", "topo", "done"} /\ phase' # "run" /\ inflight' = {}
        /\ graph'.nodes \cap DOMAIN level' = {}
        /\ top_index' \in Nat
        /\ \A n \in DOMAIN level' : level'[n] \in Nat /\ level'[n] < top_index'
        /\ graph'.nodes \subseteq op_node' /\ DOMAIN level' \subseteq op_node'
    BY <1>1, <1>2, <1>8, <1>9, <1>12, <1>15, <1>16
  <2>2. /\ graph'.edges = {e \in graph'.edge_list : e.from \in graph'.nodes /\ e.to \in graph'.nodes}
        /\ \A e \in graph'.edge_list : {e.from, e.to} \subseteq graph'.nodes \cup DOMAIN level'
    BY <1>1, <1>8, <1>13, <1>14
  <2>3. \A e \in graph'.edge_list : e.to \in DOMAIN level' =>
          e.from \in DOMAIN level' /\ level'[e.from] < level'[e.to]
    BY <1>1, <1>3, <1>8, <1>11
  <2> QED
    BY <2>1, <2>2, <2>3 DEF FlushInv
<1>18. IInv'
  BY <1>5, <1>6, <1>17, <1>4 DEF IInv
<1>19. ASSUME NEW X, Acyclic(G, X) PROVE Acyclic(F, X)
  <2>1. ASSUME NEW S \in SUBSET F.nodes, S # {}
        PROVE  \E n \in S : \A e \in F.edges : e.to = n => e.from \notin S \/ (e.from = n /\ n \in X)
    <3>1. S \in SUBSET G.nodes /\ F.edges \subseteq G.edges
      BY <1>3
    <3> QED
      BY <1>19, <2>1, <3>1 DEF Acyclic
  <2> QED
    BY <2>1 DEF Acyclic
<1>20. KeepsAcyclic(G, F)
  BY <1>19 DEF KeepsAcyclic
<1> QED
  BY <1>1, <1>2, <1>18, <1>20, CyclesKept DEF history

-----------------------------------------------------------------------------
(* The invariant, and what follows from it *)

\* The invariant holds of the empty tables.
LEMMA InitInv ==
  ASSUME Init
  PROVE  IInv /\ Acyclic(graph, SelfCopies)
<1> USE DEF Init
<1>1. DOMAIN EmptyMap = {}
  BY DEF EmptyMap
<1>2. Table(EmptyTable, EmptyMap)
  <2>1. SumLen(EmptyMap, DOMAIN EmptyMap) = 0
    BY <1>1, SumLenEmpty
  <2>2. TableRec(EmptyTable)
    BY DEF TableRec, EmptyTable
  <2>3. Addressed(EmptyTable, EmptyMap)
    BY <1>1 DEF Addressed, EmptyTable, Starts
  <2>4. Counted(EmptyTable, EmptyMap)
    BY <2>1 DEF Counted, EmptyTable
  <2> QED
    BY <2>2, <2>3, <2>4 DEF Table
<1>3. \A rs : Objects(EmptyMap, rs, 0)
  BY <1>1 DEF Objects
<1>4. TablesInv
  BY <1>2, <1>3 DEF TablesInv
<1>5. KernelsInv
  BY DEF KernelsInv
<1>6. /\ GraphRec(graph) /\ graph.nodes = {} /\ graph.edges = {} /\ graph.edge_list = {}
      /\ DOMAIN graph.obj_ownership_map = {} /\ DOMAIN graph.read_nodes = {}
      /\ DOMAIN graph.stream_ownership_map = {}
  BY <1>1 DEF GraphRec, EmptyGraph
<1>7. Whole(graph) /\ Acyclic(graph, SelfCopies)
  BY <1>6 DEF Whole, EdgesIn, MapsIn, Acyclic
<1>8. GraphInv
  BY <1>1, <1>6, <1>7 DEF GraphInv
<1>9. Ordered(graph, accesses)
  BY <1>6 DEF Ordered
<1>10. FlushInv
  BY <1>1, <1>6 DEF FlushInv
<1>11. OperationsExact /\ SubWritesKept
  BY DEF OperationsExact, SubWritesKept, EmptyTable
<1>12. op \in 0 .. MaxOps
  BY LivenessAssumption
<1> QED
  BY <1>4, <1>5, <1>7, <1>8, <1>9, <1>10, <1>11, <1>12 DEF IInv

\* A step that changes nothing.
LEMMA StutterStep ==
  ASSUME IInv, UNCHANGED vars
  PROVE  IInv' /\ AcyclicKept
<1>1. UNCHANGED <<op, live, sub_live, inflight, memories, submemories, graph, op_node, phase,
                  top_index, level, touched, accesses, sub_written>>
  BY DEF vars, device, tables, flush, history
<1>2. TablesInv' /\ OperationsExact' /\ SubWritesKept' /\ op' \in 0 .. MaxOps
  BY <1>1 DEF IInv, TablesInv, OperationsExact, SubWritesKept
<1>3. KernelsInv'
  <2>1. Kernels' = Kernels
    BY <1>1 DEF Kernels
  <2> QED
    BY <1>1, <2>1 DEF IInv, KernelsInv
<1>4. GraphInv' /\ Ordered(graph', accesses')
  BY <1>1 DEF IInv, GraphInv
<1>5. FlushInv'
  BY <1>1 DEF IInv, FlushInv
<1>6. IInv'
  BY <1>2, <1>3, <1>4, <1>5 DEF IInv
<1> QED
  BY <1>1, <1>6, GraphLeft

\* Every step keeps the invariant, and the graph free of cycles but for copies
\* inside an object.
LEMMA StepInv ==
  ASSUME IInv, [Next]_vars
  PROVE  IInv' /\ AcyclicKept
<1>1. CASE \E r \in Ranges, s \in Streams : Malloc(r, s)
  BY <1>1, MallocStep
<1>2. CASE \E m \in DOMAIN live, s \in Streams : MemFree(m, s)
  BY <1>2, MemFreeStep
<1>3. CASE \E r \in SubRanges : SubMalloc(r)
  BY <1>3, SubMallocStep
<1>4. CASE \E x \in DOMAIN sub_live : SubFree(x)
  BY <1>4, SubFreeStep
<1>5. CASE \E r \in CopyRanges, s \in Streams : MemSet(r, s)
  BY <1>5, WrittenStep DEF MemSet
<1>6. CASE \E r \in CopyRanges, s \in Streams : CopyToHost(r, s)
  BY <1>6, CopyToHostStep
<1>7. CASE \E r \in CopyRanges, s \in Streams : CopyFromHost(r, s)
  BY <1>7, WrittenStep DEF CopyFromHost
<1>8. CASE \E src, dst \in CopyRanges, s, t \in Streams : CopyOnDevice(src, dst, s, t)
  BY <1>8, CopyOnDeviceStep
<1>9. CASE \E s \in Streams, R, W, A \in SUBSET DOMAIN live, S \in SUBSET DOMAIN sub_live :
             Launch(s, R, W, A, S)
  BY <1>9, LaunchStep
<1>10. CASE \E k \in inflight : AnalysisHit(k) \/ AnalysisGraph(k) \/ AnalysisSubHit(k)
  BY <1>10, AnalysisHitStep, AnalysisGraphStep, AnalysisSubHitStep
<1>11. CASE \E k \in inflight : KernelEnd(k)
  BY <1>11, KernelEndStep
<1>12. CASE Flush
  BY <1>12, FlushStep
<1>13. CASE TopologicalRound
  BY <1>13, TopologicalRoundStep
<1>14. CASE TopologicalEnd
  BY <1>14, TopologicalEndStep
<1>15. CASE Done
  BY <1>15, StutterStep DEF Done
<1>16. CASE UNCHANGED vars
  BY <1>16, StutterStep
<1> QED
  BY <1>1, <1>2, <1>3, <1>4, <1>5, <1>6, <1>7, <1>8, <1>9, <1>10, <1>11, <1>12, <1>13, <1>14,
     <1>15, <1>16 DEF Next

\* The inductive invariant holds throughout: tables, kernels, graph and flush agree
\* (memory_liveness.cpp).
THEOREM InvariantHolds == Spec => []IInv
<1>1. Init => IInv
  BY InitInv
<1>2. IInv /\ [Next]_vars => IInv'
  BY StepInv
<1> QED
  BY <1>1, <1>2, PTL DEF Spec

\* The operations listed for an object are those that touched it, for any
\* addresses, reuse of addresses and order in which kernels report
\* (_addresses_map, memory_operation_register, update_aux_hit).
THEOREM OperationsStayExact == Spec => []OperationsExact
<1>1. IInv => OperationsExact
  BY DEF IInv
<1> QED
  BY <1>1, InvariantHolds, PTL

\* The memory in use is that of the live objects, whatever is allocated and
\* freed, and neither it nor what a kernel needs is above the peak
\* (memory_op_callback, memfree_op_callback, update_aux_hit).
THEOREM UsagesStayExact == Spec => []UsagesExact
<1>1. ASSUME NEW T, NEW objs, Table(T, objs) PROVE UsageExact(T, objs)
  BY <1>1 DEF Table, Addressed, Counted, UsageExact
<1>2. IInv => UsagesExact
  BY <1>1 DEF IInv, TablesInv, UsagesExact
<1> QED
  BY <1>2, InvariantHolds, PTL

\* The graph orders every two operations on an object of which one writes it,
\* for any number of streams and kernels that report late, unless a kernel left
\* the object without a mark (update_graph_at_access, update_graph_at_free,
\* update_graph_at_kernel).
THEOREM ConflictsStayOrdered == Spec => []ConflictsOrdered
<1>1. ASSUME IInv PROVE ConflictsOrdered
  <2>1. PICK L, A : L = graph.edge_list /\ A = accesses
    OBVIOUS
  <2>2. \A x, y \in A : x[1] = y[1] /\ x[2] # y[2] /\ "w" \in {x[3], y[3]} =>
          Reaches(L, x[2], y[2]) \/ Reaches(L, y[2], x[2])
    BY <1>1, <2>1 DEF IInv, Ordered
  <2>3. ASSUME NEW a, NEW b, Reaches(L, a, b) PROVE \A S \in Closed : a \in S => b \in S
    BY <2>1, <2>3 DEF Reaches, Closed
  <2> QED
    BY <2>1, <2>2, <2>3 DEF ConflictsOrdered, Ordering
<1> QED
  BY <1>1, InvariantHolds, PTL

\* A copy or a memset that starts in a sub-allocation is listed for all it
\* writes, for any ranges (memcpy_op_callback, memset_op_callback, Map::prev).
THEOREM SubWritesStayKept == Spec => []SubWritesKept
<1>1. IInv => SubWritesKept
  BY DEF IInv
<1> QED
  BY <1>1, InvariantHolds, PTL

\* The graph has no cycle but the edge of a copy inside one object to itself, so
\* that a round of the flush that removes nothing has such a copy in its way; the
\* levels respect the dependences and every operation with a level has a calling
\* context (dump_topological_order).
THEOREM FlushStallsOnSelfCopiesOnly == Spec => []FlushProgresses
<1>1. Init => IInv /\ Acyclic(graph, SelfCopies)
  BY InitInv
<1>2. IInv /\ Acyclic(graph, SelfCopies) /\ [Next]_vars => IInv' /\ Acyclic(graph, SelfCopies)'
  BY StepInv DEF AcyclicKept
<1>3. ASSUME IInv, Acyclic(graph, SelfCopies) PROVE FlushProgresses
  <2>1. \A e \in graph.edges : e.from \in graph.nodes
    BY <1>3 DEF IInv, FlushInv
  <2>2. ASSUME graph.nodes # {}, get_no_inedge_nodes(graph) = {}
        PROVE  graph.nodes \cap SelfCopies # {}
    <3>1. PICK n \in graph.nodes : \A e \in graph.edges : e.to = n =>
            e.from \notin graph.nodes \/ (e.from = n /\ n \in SelfCopies)
      BY <1>3, <2>2 DEF Acyclic
    <3>2. PICK e \in graph.edges : e.to = n
      BY <2>2 DEF get_no_inedge_nodes
    <3> QED
      BY <2>1, <3>1, <3>2
  <2> QED
    BY <1>3, <2>2 DEF IInv, FlushInv, FlushProgresses
<1> QED
  BY <1>1, <1>2, <1>3, PTL DEF Spec

=============================================================================
