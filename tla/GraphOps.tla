------------------------------ MODULE GraphOps ------------------------------
(***************************************************************************)
(* Graphs and their strongly connected components: Graph<T> in             *)
(* libgringo/gringo/graph.hh with the iterative algorithm of Tarjan.       *)
(*                                                                         *)
(* A graph is kept between runs and may grow then.  The mark of a node is  *)
(* the number of the other phase before it is visited, its index while it  *)
(* is on the trail, and the number of the phase when its component is      *)
(* complete.  The phase is flipped at the end, so that the nodes are       *)
(* unvisited for the next run.                                             *)
(***************************************************************************)
EXTENDS Naturals, Sequences, SequencesExt

EmptyGraph == [nodes |-> <<>>, edges |-> <<>>, visited |-> <<>>, phase |-> 0]

NPhase(g) == IF g.phase = 0 THEN 1 ELSE 0

HasNode(g, x) == x \in DOMAIN g.visited

(* insertNode *)
InsertNode(g, x) ==
  [g EXCEPT !.nodes = <<x>> \o @, !.edges = @ @@ (x :> <<>>), !.visited = @ @@ (x :> NPhase(g))]

InsertEdge(g, x, y) == [g EXCEPT !.edges[x] = Append(@, y)]

(* A run: the graph, the positions reached in the edges of the nodes on    *)
(* the stack, the nodes without a component, the last index, components.   *)
Push(r, x) ==
  [r EXCEPT !.g.visited[x] = r.index + 1, !.index = @ + 1,
            !.stack = Append(@, [node |-> x, edge |-> 1]), !.trail = Append(@, x)]

(* The first edge from a position on that leads to an unvisited node, or   *)
(* the position behind the last one.                                       *)
NextEdge(g, x, k) ==
  LET unvisited == {j \in k..Len(g.edges[x]) : g.visited[g.edges[x][j]] = NPhase(g)}
  IN IF unvisited = {} THEN Len(g.edges[x]) + 1 ELSE Min(unvisited)

(* The smallest mark that a successor without a component has. *)
LowLink(g, x) ==
  Min({g.visited[x]} \union
      ({g.visited[g.edges[x][k]] : k \in DOMAIN g.edges[x]} \ {g.phase}))

(* The nodes on the trail from x on are a component. *)
Complete(r, x) ==
  LET from == CHOOSE k \in DOMAIN r.trail : r.trail[k] = x
      scc == SubSeq(r.trail, from, Len(r.trail))
  IN [r EXCEPT !.sccs = Append(@, Reverse(scc)), !.trail = SubSeq(@, 1, from - 1),
               !.g.visited = [y \in DOMAIN @ |-> IF Contains(scc, y) THEN r.g.phase ELSE @[y]]]

(* All edges of x have been followed. *)
Leave(r, x) ==
  LET low == LowLink(r.g, x)
      popped == [r EXCEPT !.stack = Front(@)]
  IN IF low = r.g.visited[x] THEN Complete(popped, x)
     ELSE [popped EXCEPT !.g.visited[x] = low]

RECURSIVE Visit(_)
Visit(r) ==
  IF r.stack = <<>> THEN r
  ELSE LET top == Last(r.stack)
           k == NextEdge(r.g, top.node, top.edge)
           moved == [r EXCEPT !.stack[Len(r.stack)].edge = k + 1]
       IN Visit(IF k <= Len(r.g.edges[top.node])
                THEN Push(moved, r.g.edges[top.node][k])
                ELSE Leave(r, top.node))

(* The index begins anew for each root. *)
VisitRoot(r, x) ==
  IF r.g.visited[x] # NPhase(r.g) THEN r ELSE Visit(Push([r EXCEPT !.index = 1], x))

(* The graph after a run; before it a slip that keeps the phase. *)
PhaseKept(g) == g

PhaseFlipped(g) == [g EXCEPT !.phase = NPhase(g)]

(* tarjan(): the components in the order they are completed, and the graph *)
(* that is left for the next run.                                          *)
Tarjan(g) ==
  LET start == [g |-> g, stack |-> <<>>, trail |-> <<>>, index |-> 1, sccs |-> <<>>]
      end == FoldLeft(VisitRoot, start, g.nodes)
  IN [sccs |-> end.sccs, graph |-> PhaseFlipped(end.g)]
=============================================================================
