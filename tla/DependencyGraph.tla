-------------------------- MODULE DependencyGraph --------------------------
(***************************************************************************)
(* The graph of operations that the memory liveness analysis keeps         *)
(* (redshow/include/analysis/memory_liveness.h, class DependencyGraph, and *)
(* update_graph_at_* of redshow/src/analysis/memory_liveness.cpp).  An     *)
(* operation depends on the operation before it in its stream and, for     *)
(* every memory object it touches, on the last writer or on the readers    *)
(* since.  A graph is a record; each function of the code is an operator   *)
(* from a graph to the next.                                               *)
(***************************************************************************)
EXTENDS Naturals, Sequences, FiniteSets

EmptyMap == [x \in {} |-> {}]

\* map[k] = v, and Map::emplace where the key is known to be new
Put(map, k, v) == [x \in DOMAIN map \cup {k} |-> IF x = k THEN v ELSE map[x]]

EmptyGraph ==
  [nodes                 |-> {},        \* _nodes, by operation id
   edges                 |-> {},        \* _edges
   edge_list             |-> {},        \* _edge_list, in any order
   obj_ownership_map     |-> EmptyMap,  \* object -> its last writer
   read_nodes            |-> EmptyMap,  \* object -> its readers since
   stream_ownership_map  |-> EmptyMap,  \* stream -> its last operation
   stream_nodes          |-> EmptyMap]  \* stream -> its operations in order

StreamEdge(a, b) == [from |-> a, to |-> b, type |-> "stream"]
DataEdge(a, b)   == [from |-> a, to |-> b, type |-> "data"]

add_node(G, op) == [G EXCEPT !.nodes = @ \cup {op}]

add_edges(G, es) == [G EXCEPT !.edges = @ \cup es, !.edge_list = @ \cup es]

\* remove_node, for each of ns: with it go its edges in both directions.
remove_nodes(G, ns) ==
  [G EXCEPT !.nodes = @ \ ns,
            !.edges = {e \in @ : e.from \notin ns /\ e.to \notin ns}]

get_no_inedge_nodes(G) == {n \in G.nodes : \A e \in G.edges : e.to # n}

update_stream_nodes(G, op, s) ==
  IF s \notin DOMAIN G.stream_nodes
  THEN [G EXCEPT !.stream_nodes = Put(@, s, <<op>>)]
  ELSE IF \E i \in DOMAIN G.stream_nodes[s] : G.stream_nodes[s][i] = op THEN G
  ELSE [G EXCEPT !.stream_nodes[s] = Append(@, op)]

\* The stream part of malloc and free, and of an access that is the first of
\* its operation in the stream.
StreamStep(G, op, s) ==
  LET H == [G EXCEPT !.stream_ownership_map = Put(@, s, op)] IN
  IF s \notin DOMAIN G.stream_ownership_map THEN H
  ELSE add_edges(H, {StreamEdge(G.stream_ownership_map[s], op)})

update_graph_at_malloc(G, op, s) ==
  LET H == [add_node(G, op) EXCEPT !.obj_ownership_map = Put(@, op, op),
                                   !.read_nodes = Put(@, op, {})] IN
  StreamStep(update_stream_nodes(H, op, s), op, s)

\* What a write of the object must wait for.
WriteEdges(G, op, obj) ==
  IF G.read_nodes[obj] = {} THEN {DataEdge(G.obj_ownership_map[obj], op)}
  ELSE {DataEdge(r, op) : r \in G.read_nodes[obj]}

ReadEdges(G, op, obj) == {DataEdge(G.obj_ownership_map[obj], op)}

update_graph_at_free(G, op, s, obj) ==
  LET H == [add_edges(add_node(G, op), WriteEdges(G, op, obj))
              EXCEPT !.obj_ownership_map[obj] = op, !.read_nodes[obj] = {}] IN
  StreamStep(update_stream_nodes(H, op, s), op, s)

\* Mutant: the test that the operation already is the last of the stream is gone.
AccessStreamAlways(G, op, s) == StreamStep(G, op, s)

\* "in case kernel call multiple times"
AccessStream(G, op, s) ==
  IF s \in DOMAIN G.stream_ownership_map /\ G.stream_ownership_map[s] = op
  THEN G ELSE StreamStep(G, op, s)

\* Mutant: the readers of an object are forgotten by the next read.
ReadersOnly(G, op, R, W) ==
  [o \in DOMAIN G.read_nodes |->
     IF o \in R THEN {op} ELSE IF o \in W THEN {} ELSE G.read_nodes[o]]

\* A read joins the readers, a write starts over.
Readers(G, op, R, W) ==
  [o \in DOMAIN G.read_nodes |->
     IF o \in R THEN G.read_nodes[o] \cup {op}
     ELSE IF o \in W THEN {} ELSE G.read_nodes[o]]

\* update_graph_at_access for the objects R that op reads and W that it writes
\* in stream s: the loop of update_graph_at_kernel, in which an object that is
\* both read and written counts as written.
update_graph_at_access(G, op, s, R, W) ==
  LET H == update_stream_nodes(AccessStream(add_node(G, op), op, s), op, s)
      es == UNION ({ReadEdges(G, op, o) : o \in R} \cup {WriteEdges(G, op, o) : o \in W})
  IN [add_edges(H, es) EXCEPT
        !.obj_ownership_map = [o \in DOMAIN @ |-> IF o \in W THEN op ELSE @[o]],
        !.read_nodes = Readers(G, op, R, W)]

\* The loop over the objects the kernel hit.  One marked as written counts as
\* written, else one marked as read as read.  For one with neither mark, which
\* is what atomics leave, the code prints "It shouldn't take this branch!!!" and
\* goes on.
update_graph_at_kernel(G, op, s, hit, read, write) ==
  LET W == hit \cap write
      R == (hit \cap read) \ write
  IN IF R \cup W = {} THEN G ELSE update_graph_at_access(G, op, s, R, W)

=============================================================================
