--------------------------- MODULE DependencyGraph ---------------------------
(***************************************************************************)
(* graphcal-compiler's DependencyGraph: topological orders, cycle reports and *)
(* strongly connected components of declaration and import graphs, computed   *)
(* by iterative searches with explicit stacks.                                *)
(*                                                                         *)
(* Nodes are insertion positions.  An edge's label is left out: an edge is     *)
(* recorded once, so the edge itself says which label it has.                  *)
(***************************************************************************)
EXTENDS Naturals, Sequences, FiniteSets, SequencesExt

VARIABLES
    graph,       \* dependencies and dependents of each node, in insertion order
    task,        \* the function that runs, or how it ended
    visit,       \* depth_first: what it knows of a node
    depth,       \* depth_first: the place on the path of a node that is on it
    path,        \* the nodes being visited, each with its next edge to try
    postOrder,   \* depth_first: the nodes left, in this order
    cycle,       \* the cycle found, from the node that was entered again
    pending,     \* kahn_ranks: dependencies that were not emitted
    ready,       \* kahn_ranks: the queue
    order,       \* kahn_ranks: the nodes emitted
    index,       \* component_indices: when a node was entered, 0 for never
    lowLink, stack,
    components   \* the components found

searchVars == <<visit, depth, postOrder, cycle>>
rankVars == <<pending, ready, order>>
componentVars == <<index, lowLink, stack, components>>
graphVars == <<graph, task, path, searchVars, rankVars, componentVars>>

Nodes == DOMAIN graph.dependencies

\* The elements of seq that are in S, in their order.
Filtered(seq, S) ==
    FoldLeft(LAMBDA kept, x : IF x \in S THEN Append(kept, x) ELSE kept, <<>>, seq)

-----------------------------------------------------------------------------
(* Building a graph.                                                        *)

\* n nodes without edges.
WithNodes(n) ==
    [dependencies |-> [i \in 1 .. n |-> <<>>], dependents |-> [i \in 1 .. n |-> <<>>]]

\* add_labelled_dependency_between: an edge that is there is not added again.
AddDependency(g, edge) ==
    IF Contains(g.dependencies[edge[1]], edge[2]) THEN g
    ELSE [dependencies |-> [g.dependencies EXCEPT ![edge[1]] = Append(@, edge[2])],
          dependents |-> [g.dependents EXCEPT ![edge[2]] = Append(@, edge[1])]]

\* The graph of n nodes with these edges, added in this order.
GraphOf(n, edges) == FoldLeft(AddDependency, WithNodes(n), edges)

-----------------------------------------------------------------------------
(* depth_first.                                                             *)

\* The locals of the functions that do not run.
NoSearch == visit' = <<>> /\ depth' = <<>> /\ postOrder' = <<>>
NoRanks == pending' = <<>> /\ ready' = <<>>
NoComponentSearch == index' = <<>> /\ lowLink' = <<>> /\ stack' = <<>>

Top == path[Len(path)]
Popped == SubSeq(path, 1, Len(path) - 1)
Frame(node) == [node |-> node, cursor |-> 1]

\* Mutant: the cursor stays where it is.
NotAdvanced == path

\* The edge the topmost frame tries next, and the path that has tried it.
HasEdge == Top.cursor <= Len(graph.dependencies[Top.node])
Edge == graph.dependencies[Top.node][Top.cursor]
Advanced == [path EXCEPT ![Len(path)].cursor = @ + 1]

\* into_topo_order on graph g.
IntoTopoOrder(g) ==
    /\ graph' = g
    /\ task' = "search"
    /\ visit' = [n \in DOMAIN g.dependencies |-> "unvisited"]
    /\ depth' = [n \in DOMAIN g.dependencies |-> 0]
    /\ path' = <<>> /\ postOrder' = <<>> /\ cycle' = <<>>
    /\ order' = <<>> /\ components' = <<>>
    /\ NoRanks /\ NoComponentSearch

\* Puts an unvisited node on the path p.
Enter(node, p) ==
    /\ visit' = [visit EXCEPT ![node] = "onPath"]
    /\ depth' = [depth EXCEPT ![node] = Len(p) + 1]
    /\ path' = Append(p, Frame(node))

VisitRoot ==
    /\ task = "search" /\ path = <<>>
    /\ \E root \in Nodes :
         /\ visit[root] = "unvisited"
         /\ \A n \in Nodes : n < root => visit[n] # "unvisited"
         /\ Enter(root, path)
    /\ UNCHANGED <<graph, task, postOrder, cycle, rankVars, componentVars>>

\* Mutant: the cycle is reported from the start of the path.
VisitDependencyFromRoot ==
    /\ task = "search" /\ path # <<>> /\ HasEdge
    /\ \/ /\ visit[Edge] = "unvisited"
          /\ Enter(Edge, Advanced)
          /\ UNCHANGED <<task, postOrder, cycle>>
       \/ /\ visit[Edge] = "onPath"
          /\ cycle' = [i \in DOMAIN path |-> path[i].node]
          /\ task' = "cyclic" /\ path' = <<>> /\ NoSearch
       \/ /\ visit[Edge] = "done"
          /\ path' = Advanced
          /\ UNCHANGED <<task, visit, depth, postOrder, cycle>>
    /\ UNCHANGED <<graph, rankVars, componentVars>>

VisitDependency ==
    /\ task = "search" /\ path # <<>> /\ HasEdge
    /\ \/ /\ visit[Edge] = "unvisited"
          /\ Enter(Edge, Advanced)
          /\ UNCHANGED <<task, postOrder, cycle>>
       \/ /\ visit[Edge] = "onPath"
          /\ cycle' = [i \in 1 .. Len(path) - depth[Edge] + 1 |->
                         path[depth[Edge] + i - 1].node]
          /\ task' = "cyclic" /\ path' = <<>> /\ NoSearch
       \/ /\ visit[Edge] = "done"
          /\ path' = Advanced
          /\ UNCHANGED <<task, visit, depth, postOrder, cycle>>
    /\ UNCHANGED <<graph, rankVars, componentVars>>

LeaveNode ==
    /\ task = "search" /\ path # <<>> /\ ~HasEdge
    /\ visit' = [visit EXCEPT ![Top.node] = "done"]
    /\ postOrder' = Append(postOrder, Top.node)
    /\ path' = Popped
    /\ UNCHANGED <<graph, task, depth, cycle, rankVars, componentVars>>

-----------------------------------------------------------------------------
(* kahn_ranks.                                                              *)

\* The search found no cycle: the ranks are computed next.
SearchEnds ==
    /\ task = "search" /\ path = <<>>
    /\ \A n \in Nodes : visit[n] # "unvisited"
    /\ task' = "ranks"
    /\ pending' = [n \in Nodes |-> Len(graph.dependencies[n])]
    /\ ready' = Filtered([n \in Nodes |-> n], {n \in Nodes : graph.dependencies[n] = <<>>})
    /\ NoSearch
    /\ UNCHANGED <<graph, path, cycle, order, componentVars>>

\* Mutant: a dependent is released by the first of its dependencies.
EmitReadyAtOnce ==
    /\ task = "ranks" /\ ready # <<>>
    /\ LET node == Head(ready)
           released == graph.dependents[node] IN
       /\ order' = Append(order, node)
       /\ pending' = [n \in Nodes |-> IF Contains(released, n) THEN 0 ELSE pending[n]]
       /\ ready' = Tail(ready) \o Filtered(released, {n \in Nodes : pending[n] # 0})
    /\ UNCHANGED <<graph, task, path, searchVars, componentVars>>

\* Emits the first node of the queue and releases its dependents.
EmitReady ==
    /\ task = "ranks" /\ ready # <<>>
    /\ LET node == Head(ready)
           released == graph.dependents[node] IN
       /\ order' = Append(order, node)
       /\ pending' = [n \in Nodes |->
            IF Contains(released, n) /\ pending[n] > 0 THEN pending[n] - 1 ELSE pending[n]]
       /\ ready' = Tail(ready) \o Filtered(released, {n \in Nodes : pending'[n] = 0})
    /\ UNCHANGED <<graph, task, path, searchVars, componentVars>>

RanksEnd ==
    /\ task = "ranks" /\ ready = <<>>
    /\ task' = "ordered"
    /\ NoRanks
    /\ UNCHANGED <<graph, path, searchVars, order, componentVars>>

-----------------------------------------------------------------------------
(* cyclic_components.                                                       *)

CyclicComponents(g) ==
    /\ graph' = g
    /\ task' = "components"
    /\ index' = [n \in DOMAIN g.dependencies |-> 0]
    /\ lowLink' = [n \in DOMAIN g.dependencies |-> 0]
    /\ stack' = <<>> /\ components' = <<>>
    /\ path' = <<>> /\ cycle' = <<>> /\ order' = <<>>
    /\ NoSearch /\ NoRanks

\* The index of the next node: next_index counts the nodes entered.
NextIndex == Cardinality({n \in Nodes : index[n] # 0}) + 1
Lower(a, b) == IF a < b THEN a ELSE b

EnterComponent(node, p) ==
    /\ index' = [index EXCEPT ![node] = NextIndex]
    /\ lowLink' = [lowLink EXCEPT ![node] = NextIndex]
    /\ stack' = Append(stack, node)
    /\ path' = Append(p, Frame(node))

EnterRoot ==
    /\ task = "components" /\ path = <<>>
    /\ \E root \in Nodes :
         /\ index[root] = 0
         /\ \A n \in Nodes : n < root => index[n] # 0
         /\ EnterComponent(root, path)
    /\ UNCHANGED <<graph, task, components, searchVars, rankVars>>

\* Mutant: an edge into a component that was already closed counts too.
FollowAnyDependency ==
    /\ task = "components" /\ path # <<>> /\ HasEdge
    /\ IF index[Edge] = 0 THEN EnterComponent(Edge, Advanced)
       ELSE /\ lowLink' = [lowLink EXCEPT ![Top.node] = Lower(@, index[Edge])]
            /\ path' = Advanced
            /\ UNCHANGED <<index, stack>>
    /\ UNCHANGED <<graph, task, components, searchVars, rankVars>>

\* on_stack is true of the nodes on the stack.
FollowDependency ==
    /\ task = "components" /\ path # <<>> /\ HasEdge
    /\ \/ /\ index[Edge] = 0
          /\ EnterComponent(Edge, Advanced)
       \/ /\ index[Edge] # 0 /\ Contains(stack, Edge)
          /\ lowLink' = [lowLink EXCEPT ![Top.node] = Lower(@, index[Edge])]
          /\ path' = Advanced
          /\ UNCHANGED <<index, stack>>
       \/ /\ index[Edge] # 0 /\ ~Contains(stack, Edge)
          /\ path' = Advanced
          /\ UNCHANGED <<index, stack, lowLink>>
    /\ UNCHANGED <<graph, task, components, searchVars, rankVars>>

\* The node is left: its parent learns its low link, and the root of a component
\* takes the component off the stack.
CloseNode ==
    /\ task = "components" /\ path # <<>> /\ ~HasEdge
    /\ path' = Popped
    /\ LET node == Top.node
           parent == Popped[Len(Popped)].node IN
       /\ lowLink' = IF Popped = <<>> THEN lowLink
                     ELSE [lowLink EXCEPT ![parent] = Lower(@, lowLink[node])]
       /\ IF index[node] # lowLink[node] THEN UNCHANGED <<stack, components>>
          ELSE \E i \in DOMAIN stack :
                 /\ stack[i] = node
                 /\ stack' = SubSeq(stack, 1, i - 1)
                 /\ components' =
                      Append(components, ToSet(SubSeq(stack, i, Len(stack))))
    /\ UNCHANGED <<graph, task, index, searchVars, rankVars>>

\* The sets of S, which do not overlap, by their first elements.
ByFirst(S) ==
    LET firsts == Filtered([n \in Nodes |-> n], {Min(c) : c \in S})
    IN [i \in DOMAIN firsts |-> CHOOSE c \in S : firsts[i] = Min(c)]

\* The components with a cycle, by their first node.
ComponentsEnd ==
    /\ task = "components" /\ path = <<>>
    /\ \A n \in Nodes : index[n] # 0
    /\ task' = "found"
    /\ components' = ByFirst({c \in ToSet(components) :
           Cardinality(c) = 1 => \A n \in c : Contains(graph.dependencies[n], n)})
    /\ NoComponentSearch
    /\ UNCHANGED <<graph, path, searchVars, rankVars>>

-----------------------------------------------------------------------------
GraphIdle ==
    /\ graph = WithNodes(0) /\ task = "idle"
    /\ visit = <<>> /\ depth = <<>> /\ path = <<>> /\ postOrder = <<>> /\ cycle = <<>>
    /\ pending = <<>> /\ ready = <<>> /\ order = <<>>
    /\ index = <<>> /\ lowLink = <<>> /\ stack = <<>> /\ components = <<>>

GraphStep ==
    \/ VisitRoot \/ VisitDependency \/ LeaveNode \/ SearchEnds
    \/ EmitReady \/ RanksEnd
    \/ EnterRoot \/ FollowDependency \/ CloseNode \/ ComponentsEnd

\* What add_dependency builds: edges between nodes, each recorded once at both ends.
IsGraph(g) ==
    LET nodes == DOMAIN g.dependencies IN
    /\ g \in [dependencies : Seq(Seq(nodes)), dependents : Seq(Seq(nodes))]
    /\ DOMAIN g.dependents = nodes
    /\ \A n \in nodes : IsInjective(g.dependencies[n]) /\ IsInjective(g.dependents[n])
    /\ \A n, d \in nodes :
         Contains(g.dependencies[n], d) <=> Contains(g.dependents[d], n)

\* A caller asks for one thing at a time, of any graph.
Call ==
    /\ task \notin {"search", "ranks", "components"}
    /\ IsGraph(graph')
    /\ IntoTopoOrder(graph') \/ CyclicComponents(graph')

\* Every use of the graph, whoever the callers are.
GraphSpec == GraphIdle /\ [][GraphStep \/ Call]_graphVars

-----------------------------------------------------------------------------
(* Properties.                                                              *)

DependsOn(a, b) == Contains(graph.dependencies[a], b)

\* Reference: the sets that have what their members depend on, what is reachable from
\* a node along the edges or not at all, and the nodes reachable from each other.
Closed(T) == \A n \in T, d \in Nodes : DependsOn(n, d) => d \in T
Reachable(a, b) == \A T \in SUBSET Nodes : a \in T /\ Closed(T) => b \in T
OnCycle(n) == \E m \in Nodes : DependsOn(n, m) /\ Reachable(m, n)
MutuallyReachable(n) == {m \in Nodes : Reachable(n, m) /\ Reachable(m, n)}

\* seq lists each of its nodes once, after everything the node depends on.
DependenciesFirst(seq) ==
    \A j \in DOMAIN seq :
        /\ \A i \in 1 .. j - 1 : seq[i] # seq[j]
        /\ \A d \in Nodes : DependsOn(seq[j], d) => \E i \in 1 .. j - 1 : seq[i] = d

\* The search emits a node once, after all its dependencies, at every moment and not
\* only when it has found no cycle; emitted are exactly the nodes that are done.
SearchIsTopological ==
    task = "search" => /\ DependenciesFirst(postOrder)
                       /\ ToSet(postOrder) = {n \in Nodes : visit[n] = "done"}

\* A reported cycle is one: its nodes differ, each depends on the next and the last on
\* the first.
CycleIsReal ==
    task = "cyclic" =>
        /\ cycle # <<>>
        /\ \A i, j \in DOMAIN cycle : i # j => cycle[i] # cycle[j]
        /\ \A i \in DOMAIN cycle : DependsOn(cycle[i], cycle[(i % Len(cycle)) + 1])

\* The order of an acyclic graph has every node, after all its dependencies: the queue
\* never runs dry early (the debug assertion of kahn_ranks).
OrderIsTopological ==
    task = "ordered" => DependenciesFirst(order) /\ ToSet(order) = Nodes

\* The components found are the classes of mutually reachable nodes that lie on a
\* cycle, whatever the search met first.
ComponentsExact ==
    task = "found" =>
        /\ ToSet(components) = {MutuallyReachable(n) : n \in {m \in Nodes : OnCycle(m)}}
        /\ \A i, j \in DOMAIN components : i < j => Min(components[i]) < Min(components[j])
=============================================================================
