------------------------ MODULE DependencyGraph_proofs ------------------------
(***************************************************************************)
(* The compiler's dependency graph, for every graph and any sequence of calls: *)
(* the order the depth-first search emits and the cycle it reports, the order   *)
(* by ranks, and the strongly connected components.                             *)
(*                                                                         *)
(* The search: the path is a chain of edges, each node on it knows its place,  *)
(* the edges a frame has tried lead to nodes that are done, and what is done    *)
(* was emitted after everything it depends on.                                  *)
(*                                                                         *)
(* The ranks: each node counts the dependencies that were not emitted, and the  *)
(* queue has those that wait for none.  The order the search left ranks the     *)
(* nodes, so that a lowest node among those not emitted waits for none.         *)
(*                                                                         *)
(* The components: the path reaches what is above it on the stack, the stack    *)
(* reaches the path below it, and what was closed has all it depends on; a low  *)
(* link is an index that can be reached, and no edge left behind leads below    *)
(* it.  A node whose low link is its index is thus the root of a class that     *)
(* lies above it on the stack.                                                  *)
(***************************************************************************)
EXTENDS DependencyGraph, FiniteSetTheorems, SequenceTheorems, TLAPS

-----------------------------------------------------------------------------
(* The inductive invariant.                                                 *)

Status == {"unvisited", "onPath", "done"}
FrameType == [node : Nodes, cursor : Nat \ {0}]
Deps(n) == graph.dependencies[n]

SearchType ==
    /\ graph.dependencies \in Seq(Seq(Nodes))
    /\ visit \in [Nodes -> Status] /\ depth \in [Nodes -> Nat]
    /\ path \in Seq(FrameType) /\ postOrder \in Seq(Nodes)

\* A node is on the path exactly at the place it remembers.
OnPath ==
    /\ \A i \in 1 .. Len(path) : visit[path[i].node] = "onPath" /\ depth[path[i].node] = i
    /\ \A n \in Nodes : visit[n] = "onPath" =>
         depth[n] \in 1 .. Len(path) /\ path[depth[n]].node = n

\* The edge a frame tried last leads to the next node of the path.
Linked ==
    \A i \in 1 .. Len(path) - 1 :
        /\ path[i].cursor - 1 \in 1 .. Len(Deps(path[i].node))
        /\ Deps(path[i].node)[path[i].cursor - 1] = path[i + 1].node

\* The other edges it tried lead to nodes that are done.
Tried ==
    \A i \in 1 .. Len(path) : \A k \in 1 .. Len(Deps(path[i].node)) :
        k < path[i].cursor /\ (i < Len(path) => k < path[i].cursor - 1)
        => visit[Deps(path[i].node)[k]] = "done"

Emitted ==
    /\ \A n \in Nodes : visit[n] = "done" <=> \E i \in 1 .. Len(postOrder) : postOrder[i] = n
    /\ \A i, j \in 1 .. Len(postOrder) : postOrder[i] = postOrder[j] => i = j
    /\ \A j \in 1 .. Len(postOrder) : \A k \in 1 .. Len(Deps(postOrder[j])) :
         \E i \in 1 .. j - 1 : postOrder[i] = Deps(postOrder[j])[k]

Searching == SearchType /\ OnPath /\ Linked /\ Tried /\ Emitted

IInv == (task = "search" => Searching) /\ CycleIsReal

-----------------------------------------------------------------------------
(* The steps of the search.                                                 *)

LEMMA FrameIs ==
    ASSUME Searching, NEW i \in 1 .. Len(path)
    PROVE  /\ path[i] \in FrameType /\ path[i].node \in Nodes /\ path[i].cursor \in Nat \ {0}
           /\ Deps(path[i].node) \in Seq(Nodes)
           /\ \A k \in 1 .. Len(Deps(path[i].node)) : Deps(path[i].node)[k] \in Nodes
           /\ visit[path[i].node] = "onPath" /\ depth[path[i].node] = i
<1>1. path[i] \in FrameType
  BY DEF Searching, SearchType
<1>2. path[i].node \in Nodes /\ path[i].cursor \in Nat \ {0}
  BY <1>1 DEF FrameType
<1>3. Deps(path[i].node) \in Seq(Nodes)
  BY <1>2 DEF Searching, SearchType, Deps, Nodes
<1> QED BY <1>1, <1>2, <1>3 DEF Searching, OnPath

\* The edge the topmost frame tries.
LEMMA TopIs ==
    ASSUME Searching, path # <<>>
    PROVE  /\ Len(path) \in Nat \ {0} /\ Top = path[Len(path)] /\ Top \in FrameType
           /\ Top.node \in Nodes /\ Top.cursor \in Nat \ {0}
           /\ Deps(Top.node) \in Seq(Nodes)
           /\ HasEdge <=> Top.cursor <= Len(Deps(Top.node))
           /\ HasEdge => Edge = Deps(Top.node)[Top.cursor] /\ Edge \in Nodes
<1>1. Len(path) \in Nat \ {0} /\ Top \in FrameType
  BY DEF Searching, SearchType, Top
<1>2. Top.node \in Nodes /\ Top.cursor \in Nat \ {0}
  BY <1>1 DEF FrameType
<1>3. Deps(Top.node) \in Seq(Nodes)
  BY <1>2 DEF Searching, SearchType, Deps, Nodes
<1> QED BY <1>1, <1>2, <1>3 DEF Top, HasEdge, Edge, Deps

\* The path with the cursor of its last frame moved on.
LEMMA AdvancedIs ==
    ASSUME Searching, path # <<>>
    PROVE  /\ Advanced \in Seq(FrameType) /\ Len(Advanced) = Len(path)
           /\ \A i \in 1 .. Len(path) - 1 : Advanced[i] = path[i]
           /\ Advanced[Len(path)].node = Top.node
           /\ Advanced[Len(path)].cursor = Top.cursor + 1
<1>1. path \in Seq(FrameType) /\ Len(path) \in Nat \ {0} /\ path[Len(path)] \in FrameType
  BY DEF Searching, SearchType
<1>2. [path[Len(path)] EXCEPT !.cursor = @ + 1] \in FrameType
  BY <1>1 DEF FrameType
<1>3. Advanced = [path EXCEPT ![Len(path)] = [path[Len(path)] EXCEPT !.cursor = @ + 1]]
  BY <1>1 DEF Advanced
<1>4. /\ [path[Len(path)] EXCEPT !.cursor = @ + 1].node = Top.node
      /\ [path[Len(path)] EXCEPT !.cursor = @ + 1].cursor = Top.cursor + 1
  BY <1>1 DEF FrameType, Top
<1> QED BY <1>1, <1>2, <1>3, <1>4

\* A node is entered at the end of a path whose last frame has just tried the edge to it.
LEMMA EnterStep ==
    ASSUME Searching, NEW node \in Nodes, visit[node] = "unvisited",
           NEW p \in Seq(FrameType), Len(p) = Len(path),
           \A i \in 1 .. Len(path) : p[i].node = path[i].node,
           \A i \in 1 .. Len(path) - 1 : p[i] = path[i],
           path # <<>> => /\ HasEdge /\ Edge = node
                          /\ p[Len(path)].cursor = Top.cursor + 1,
           Enter(node, p), UNCHANGED <<graph, postOrder>>
    PROVE  Searching'
<1>1. /\ Nodes' = Nodes /\ FrameType' = FrameType /\ \A n : Deps(n)' = Deps(n)
      /\ Frame(node) \in FrameType /\ Frame(node).node = node /\ Frame(node).cursor = 1
  BY DEF Nodes, FrameType, Deps, Frame
<1>2. /\ visit' = [visit EXCEPT ![node] = "onPath"]
      /\ depth' = [depth EXCEPT ![node] = Len(p) + 1]
      /\ path' = Append(p, Frame(node)) /\ postOrder' = postOrder
  BY DEF Enter
<1>3. SearchType
  BY DEF Searching
<1>4. /\ Len(path) \in Nat /\ path' \in Seq(FrameType) /\ Len(path') = Len(path) + 1
      /\ \A i \in 1 .. Len(path) : path'[i] = p[i]
      /\ path'[Len(path) + 1] = Frame(node)
  BY <1>1, <1>2, <1>3 DEF SearchType
<1>5. SearchType'
  BY <1>1, <1>2, <1>3, <1>4 DEF SearchType, Status
<1>6. /\ visit'[node] = "onPath" /\ depth'[node] = Len(path) + 1
      /\ \A n \in Nodes : n # node => visit'[n] = visit[n] /\ depth'[n] = depth[n]
  BY <1>2, <1>3 DEF SearchType
<1>7. \A i \in 1 .. Len(path) :
        /\ path[i] \in FrameType /\ path[i].node \in Nodes /\ path[i].node # node
        /\ path[i].cursor \in Nat
        /\ visit[path[i].node] = "onPath" /\ depth[path[i].node] = i
  BY FrameIs
<1>8. OnPath'
  <2>1. ASSUME NEW i \in 1 .. Len(path')
        PROVE  visit'[path'[i].node] = "onPath" /\ depth'[path'[i].node] = i
    <3>1. CASE i = Len(path) + 1
      BY <1>1, <1>4, <1>6, <3>1
    <3>2. CASE i # Len(path) + 1
      <4>1. i \in 1 .. Len(path) /\ path'[i].node = path[i].node
        BY <1>4, <3>2
      <4> QED BY <1>6, <1>7, <4>1
    <3> QED BY <3>1, <3>2
  <2>2. ASSUME NEW n \in Nodes, visit'[n] = "onPath"
        PROVE  depth'[n] \in 1 .. Len(path') /\ path'[depth'[n]].node = n
    <3>1. CASE n = node
      <4>1. depth'[n] = Len(path) + 1 /\ path'[Len(path) + 1].node = n
        BY <1>1, <1>4, <1>6, <3>1
      <4> QED BY <1>4, <4>1
    <3>2. CASE n # node
      <4>1. depth'[n] = depth[n] /\ depth[n] \in 1 .. Len(path) /\ path[depth[n]].node = n
        BY <1>6, <2>2, <3>2 DEF Searching, OnPath
      <4>2. path'[depth[n]].node = path[depth[n]].node
        BY <1>4, <4>1
      <4> QED BY <1>4, <4>1, <4>2
    <3> QED BY <3>1, <3>2
  <2> QED BY <1>1, <2>1, <2>2 DEF OnPath
<1>9. path # <<>> => /\ Len(path) \in 1 .. Len(path) /\ Top = path[Len(path)]
                     /\ Top.cursor \in 1 .. Len(Deps(Top.node))
                     /\ Deps(Top.node)[Top.cursor] = node
  BY TopIs
<1>10. Linked'
  <2> SUFFICES ASSUME NEW i \in 1 .. Len(path') - 1
               PROVE  /\ path'[i].cursor - 1 \in 1 .. Len(Deps(path'[i].node))
                      /\ Deps(path'[i].node)[path'[i].cursor - 1] = path'[i + 1].node
    BY <1>1 DEF Linked
  <2>1. CASE i < Len(path)
    <3>1. i \in 1 .. Len(path) - 1 /\ i + 1 \in 1 .. Len(path)
      BY <1>4, <2>1
    <3>2. path'[i] = path[i] /\ path'[i + 1].node = path[i + 1].node
      BY <1>4, <3>1
    <3> QED BY <3>1, <3>2 DEF Searching, Linked
  <2>2. CASE i = Len(path)
    <3>1. path # <<>> /\ path'[i] = p[i] /\ path'[i].node = Top.node
          /\ path'[i].cursor = Top.cursor + 1 /\ path'[i + 1].node = node
      BY <1>1, <1>4, <1>9, <2>2
    <3>2. Top.cursor \in Nat
      BY <1>9, <3>1
    <3> QED BY <1>9, <3>1, <3>2
  <2> QED BY <1>4, <2>1, <2>2
<1>11. Tried'
  <2> SUFFICES ASSUME NEW i \in 1 .. Len(path'), NEW k \in 1 .. Len(Deps(path'[i].node)),
                      k < path'[i].cursor, i < Len(path') => k < path'[i].cursor - 1
               PROVE  visit'[Deps(path'[i].node)[k]] = "done"
    BY <1>1 DEF Tried
  <2>1. i # Len(path) + 1
    BY <1>1, <1>4
  <2>2. i \in 1 .. Len(path) /\ path'[i].node = path[i].node /\ k < path'[i].cursor - 1
    BY <1>4, <2>1
  <2>3. k < path[i].cursor /\ (i < Len(path) => k < path[i].cursor - 1)
    <3>1. CASE i < Len(path)
      <4>1. path'[i] = path[i] /\ path[i].cursor \in Nat
        BY <1>4, <1>7, <2>2, <3>1
      <4> QED BY <2>2, <4>1
    <3>2. CASE i = Len(path)
      <4>1. path # <<>> /\ path'[i].cursor = path[i].cursor + 1 /\ path[i].cursor \in Nat
        BY <1>4, <1>9, <2>2, <3>2
      <4> QED BY <2>2, <3>2, <4>1
    <3> QED BY <1>4, <2>2, <3>1, <3>2
  <2>4. visit[Deps(path[i].node)[k]] = "done"
    BY <2>2, <2>3 DEF Searching, Tried
  <2>5. Deps(path[i].node)[k] \in Nodes
    BY <2>2, FrameIs
  <2> QED BY <1>6, <2>2, <2>4, <2>5
<1>12. Emitted'
  <2>1. \A n \in Nodes : visit'[n] = "done" <=> visit[n] = "done"
    BY <1>6
  <2> QED BY <1>1, <1>2, <2>1 DEF Searching, Emitted
<1> QED BY <1>5, <1>8, <1>10, <1>11, <1>12 DEF Searching

LEMMA VisitRootStep ==
    ASSUME Searching, VisitRoot PROVE Searching'
<1>1. PICK root \in Nodes : visit[root] = "unvisited" /\ Enter(root, path)
  BY DEF VisitRoot
<1>2. path = <<>> /\ path \in Seq(FrameType) /\ Len(path) = 0
  BY DEF VisitRoot, Searching, SearchType
<1> QED BY <1>1, <1>2, EnterStep DEF VisitRoot

\* An edge to a node that is done is passed over.
LEMMA PassStep ==
    ASSUME Searching, path # <<>>, HasEdge, visit[Edge] = "done", path' = Advanced,
           UNCHANGED <<graph, visit, depth, postOrder>>
    PROVE  Searching'
<1>1. Nodes' = Nodes /\ FrameType' = FrameType /\ \A n : Deps(n)' = Deps(n)
  BY DEF Nodes, FrameType, Deps
<1>2. /\ path' \in Seq(FrameType) /\ Len(path') = Len(path) /\ Len(path) \in Nat \ {0}
      /\ \A i \in 1 .. Len(path) - 1 : path'[i] = path[i]
      /\ path'[Len(path)].node = Top.node
      /\ path'[Len(path)].cursor = Top.cursor + 1 /\ Top.cursor \in Nat
      /\ Top = path[Len(path)]
  BY TopIs, AdvancedIs
<1>3. \A i \in 1 .. Len(path) : path'[i].node = path[i].node
  BY <1>2
<1>4. SearchType'
  BY <1>1, <1>2 DEF Searching, SearchType, Status
<1>5. OnPath'
  <2>1. \A i \in 1 .. Len(path) : visit[path'[i].node] = "onPath" /\ depth[path'[i].node] = i
    BY <1>3 DEF Searching, OnPath
  <2>2. ASSUME NEW n \in Nodes, visit[n] = "onPath"
        PROVE  depth[n] \in 1 .. Len(path) /\ path'[depth[n]].node = n
    <3>1. depth[n] \in 1 .. Len(path) /\ path[depth[n]].node = n
      BY <2>2 DEF Searching, OnPath
    <3> QED BY <1>3, <3>1
  <2> QED BY <1>1, <1>2, <2>1, <2>2 DEF OnPath
<1>6. Linked'
  BY <1>1, <1>2, <1>3 DEF Searching, Linked
<1>7. Tried'
  <2> SUFFICES ASSUME NEW i \in 1 .. Len(path), NEW k \in 1 .. Len(Deps(path[i].node)),
                      k < path'[i].cursor, i < Len(path) => k < path'[i].cursor - 1
               PROVE  visit[Deps(path[i].node)[k]] = "done"
    BY <1>1, <1>2, <1>3 DEF Tried
  <2>1. CASE i < Len(path)
    BY <1>2, <2>1, SMTT(30) DEF Searching, Tried
  <2>2. CASE i = Len(path) /\ k = Top.cursor
    BY <1>2, <2>2, TopIs
  <2>3. CASE i = Len(path) /\ k # Top.cursor
    BY <1>2, <2>3 DEF Searching, Tried
  <2> QED BY <1>2, <2>1, <2>2, <2>3
<1>8. Emitted'
  BY <1>1 DEF Searching, Emitted
<1> QED BY <1>4, <1>5, <1>6, <1>7, <1>8 DEF Searching

-----------------------------------------------------------------------------
(* The cycle.                                                               *)

LEMMA Successor ==
    ASSUME NEW L \in Nat \ {0}, NEW i \in 1 .. L
    PROVE  (i % L) + 1 = IF i = L THEN 1 ELSE i + 1
OBVIOUS

LEMMA SameRange ==
    ASSUME NEW a \in Nat \ {0}, NEW b \in Nat, 1 .. a = 1 .. b PROVE a = b
<1>1. a \in 1 .. b
  <2>1. a \in 1 .. a
    OBVIOUS
  <2> QED BY <2>1
<1>2. b \in 1 .. a
  <2>1. b \in 1 .. b
    BY <1>1
  <2> QED BY <2>1
<1> QED BY <1>1, <1>2

\* The nodes from the one entered again to the end of the path are a cycle.
LEMMA CycleStep ==
    ASSUME Searching, path # <<>>, HasEdge, visit[Edge] = "onPath",
           cycle' = [i \in 1 .. Len(path) - depth[Edge] + 1 |-> path[depth[Edge] + i - 1].node],
           graph' = graph
    PROVE  /\ cycle' # <<>>
           /\ \A i, j \in DOMAIN cycle' : i # j => cycle'[i] # cycle'[j]
           /\ \A i \in DOMAIN cycle' :
                Contains(graph.dependencies[cycle'[i]], cycle'[(i % Len(cycle')) + 1])
<1>1. PICK first, last, length :
        first = depth[Edge] /\ last = Len(path) /\ length = last - first + 1
  OBVIOUS
<1>2. /\ last \in Nat \ {0} /\ first \in 1 .. last /\ path[first].node = Edge
      /\ Edge = Deps(Top.node)[Top.cursor] /\ Top.cursor \in 1 .. Len(Deps(Top.node))
      /\ Top = path[last]
  BY <1>1, TopIs DEF Searching, OnPath
<1>3. length \in 1 .. last /\ length \in Nat \ {0} /\ first + length - 1 = last
  <2>1. last \in Int /\ first \in Int /\ 1 <= first /\ first <= last
    BY <1>2, SMTT(20)
  <2>2. length = last - first + 1
    BY <1>1
  <2> QED BY ONLY <2>1, <2>2
<1>4. cycle' = [i \in 1 .. length |-> path[first + i - 1].node]
  BY <1>1
<1>5. \A i \in 1 .. length : first + i - 1 \in 1 .. last
  BY <1>2, <1>3, SMTT(20)
<1>6. Len(cycle') = length /\ DOMAIN cycle' = 1 .. length /\ cycle' # <<>>
  <2>1. \A i \in 1 .. length : path[first + i - 1].node \in Nodes
    BY <1>1, <1>5, FrameIs
  <2>2. cycle' \in [1 .. length -> Nodes]
    BY <1>4, <2>1
  <2>3. cycle' \in Seq(Nodes)
    BY <1>3, <2>2, SeqDef, ZenonT(60)
  <2>4. DOMAIN cycle' = 1 .. length /\ DOMAIN cycle' = 1 .. Len(cycle') /\ Len(cycle') \in Nat
    BY <2>2, <2>3, LenProperties
  <2>5. Len(cycle') = length
    BY <1>3, <2>4, SameRange
  <2>6. cycle' # <<>>
    BY <1>3, <2>3, <2>5
  <2> QED BY <2>4, <2>5, <2>6
<1>7. \A i \in 1 .. length : cycle'[i] = path[first + i - 1].node
  BY <1>4
<1>8. ASSUME NEW i \in 1 .. length, NEW j \in 1 .. length, cycle'[i] = cycle'[j] PROVE i = j
  <2>1. depth[cycle'[i]] = first + i - 1
    BY <1>1, <1>5, <1>7, FrameIs
  <2>2. depth[cycle'[j]] = first + j - 1
    BY <1>1, <1>5, <1>7, FrameIs
  <2>3. first + i - 1 = first + j - 1
    BY <1>8, <2>1, <2>2
  <2> QED BY <1>2, <1>3, <2>3, SMTT(20)
<1>9. ASSUME NEW i \in 1 .. length
      PROVE  Contains(graph.dependencies[cycle'[i]], cycle'[(i % length) + 1])
  <2>1. CASE i = length
    <3>1. cycle'[i] = Top.node
      BY <1>2, <1>3, <1>7, <2>1
    <3>2. 1 \in 1 .. length /\ first + 1 - 1 = first
      <4>1. first \in Int /\ length \in Nat \ {0}
        BY <1>2, <1>3
      <4> QED BY ONLY <4>1
    <3>3. cycle'[1] = Edge
      BY <1>2, <1>7, <3>2
    <3>4. (i % length) + 1 = 1
      BY <1>3, <2>1, Successor
    <3> QED BY <1>2, <3>1, <3>3, <3>4 DEF Contains, Deps
  <2>2. CASE i # length
    <3>1. (i % length) + 1 = i + 1
      BY <1>3, <2>2, Successor
    <3>2. PICK m : m = first + i - 1
      OBVIOUS
    <3>3. i + 1 \in 1 .. length /\ m \in 1 .. Len(path) - 1 /\ first + (i + 1) - 1 = m + 1
      <4>1. last \in Int /\ first \in Int /\ length \in Int /\ i \in Int /\ 1 <= first
            /\ first + length - 1 = last /\ 1 <= i /\ i < length
        BY <1>2, <1>3, <2>2
      <4>2. i + 1 \in 1 .. length /\ m \in 1 .. last - 1 /\ first + (i + 1) - 1 = m + 1
        BY ONLY <3>2, <4>1
      <4> QED BY <1>1, <4>2
    <3>4. cycle'[i] = path[m].node /\ cycle'[i + 1] = path[m + 1].node
      BY <1>7, <3>2, <3>3
    <3>5. /\ path[m].cursor - 1 \in 1 .. Len(Deps(path[m].node))
          /\ Deps(path[m].node)[path[m].cursor - 1] = path[m + 1].node
      BY <3>3 DEF Searching, Linked
    <3> QED BY <3>1, <3>4, <3>5 DEF Contains, Deps
  <2> QED BY <2>1, <2>2
<1>10. \A i, j \in 1 .. length : i # j => cycle'[i] # cycle'[j]
  BY <1>8
<1>11. \A i \in 1 .. length :
         Contains(graph.dependencies[cycle'[i]], cycle'[(i % length) + 1])
  BY <1>9
<1> QED BY ONLY <1>6, <1>10, <1>11

-----------------------------------------------------------------------------
(* Leaving a node.                                                          *)

LEMMA LeaveNodeStep ==
    ASSUME Searching, LeaveNode PROVE Searching'
<1>1. /\ Nodes' = Nodes /\ FrameType' = FrameType /\ \A n : Deps(n)' = Deps(n)
      /\ path # <<>> /\ ~HasEdge /\ depth' = depth /\ path' = Popped
      /\ visit' = [visit EXCEPT ![Top.node] = "done"]
      /\ postOrder' = Append(postOrder, Top.node) /\ graph' = graph
  BY DEF LeaveNode, Nodes, FrameType, Deps
<1>2. /\ SearchType /\ Len(path) \in Nat \ {0} /\ Top = path[Len(path)]
      /\ Top.node \in Nodes /\ Top.cursor \in Nat
      /\ Top.cursor > Len(Deps(Top.node)) /\ Deps(Top.node) \in Seq(Nodes)
  BY <1>1, TopIs DEF Searching
<1>3. /\ path' \in Seq(FrameType) /\ Len(path') = Len(path) - 1
      /\ \A i \in 1 .. Len(path) - 1 : path'[i] = path[i] /\ i \in 1 .. Len(path)
  <2>1. PICK n : n = Len(path) - 1
    OBVIOUS
  <2>2. n \in 0 .. Len(path) /\ path' = SubSeq(path, 1, n) /\ path \in Seq(FrameType)
    BY <1>1, <1>2, <2>1 DEF SearchType, Popped
  <2>3. path' = [i \in 1 .. n |-> path[i]]
    BY <2>2, SubSeqProperties
  <2>4. \A i \in 1 .. n : path[i] \in FrameType /\ i \in 1 .. Len(path)
    BY <2>2
  <2> QED BY <2>1, <2>2, <2>3, <2>4, SMTT(30)
<1>4. /\ postOrder' \in Seq(Nodes) /\ Len(postOrder') = Len(postOrder) + 1
      /\ \A i \in 1 .. Len(postOrder) : postOrder'[i] = postOrder[i]
      /\ postOrder'[Len(postOrder) + 1] = Top.node /\ Len(postOrder) \in Nat
  BY <1>1, <1>2 DEF SearchType
<1>5. /\ visit'[Top.node] = "done" /\ visit[Top.node] = "onPath" /\ depth[Top.node] = Len(path)
      /\ \A n \in Nodes : n # Top.node => visit'[n] = visit[n]
  BY <1>1, <1>2 DEF Searching, SearchType, OnPath
<1>6. SearchType'
  BY <1>1, <1>2, <1>3, <1>4 DEF SearchType, Status
<1>7. \A i \in 1 .. Len(path) :
        path[i].node \in Nodes /\ path[i].cursor \in Nat /\ depth[path[i].node] = i
  BY FrameIs
<1>8. OnPath'
  <2>1. \A i \in 1 .. Len(path) - 1 : path[i].node # Top.node
    BY <1>2, <1>5 DEF Searching, OnPath
  <2>2. \A i \in 1 .. Len(path') : visit'[path'[i].node] = "onPath" /\ depth'[path'[i].node] = i
    <3> SUFFICES ASSUME NEW i \in 1 .. Len(path')
                 PROVE  visit'[path'[i].node] = "onPath" /\ depth'[path'[i].node] = i
      OBVIOUS
    <3>1. i \in 1 .. Len(path) - 1 /\ i \in 1 .. Len(path) /\ path'[i] = path[i]
      BY <1>2, <1>3
    <3>2. path[i].node \in Nodes /\ visit[path[i].node] = "onPath" /\ depth[path[i].node] = i
      BY <3>1, FrameIs
    <3> QED BY <1>1, <1>5, <2>1, <3>1, <3>2
  <2>3. ASSUME NEW n \in Nodes, visit'[n] = "onPath"
        PROVE  depth'[n] \in 1 .. Len(path') /\ path'[depth'[n]].node = n
    <3>1. n # Top.node /\ visit[n] = "onPath"
      BY <1>5, <2>3
    <3>2. depth[n] \in 1 .. Len(path) /\ path[depth[n]].node = n
      BY <3>1 DEF Searching, OnPath
    <3>3. depth[n] # Len(path)
      BY <1>2, <3>1, <3>2
    <3>4. depth[n] \in 1 .. Len(path) - 1
      BY <1>2, <3>2, <3>3
    <3>5. path'[depth[n]] = path[depth[n]]
      BY <1>3, <3>4
    <3> QED BY <1>1, <1>3, <3>2, <3>4, <3>5
  <2> QED BY <1>1, <2>2, <2>3 DEF OnPath
<1>9. Linked'
  <2> SUFFICES ASSUME NEW i \in 1 .. Len(path') - 1
               PROVE  /\ path'[i].cursor - 1 \in 1 .. Len(Deps(path'[i].node))
                      /\ Deps(path'[i].node)[path'[i].cursor - 1] = path'[i + 1].node
    BY <1>1 DEF Linked
  <2>1. i \in 1 .. Len(path) - 1 /\ i + 1 \in 1 .. Len(path) - 1
    BY <1>2, <1>3
  <2>2. path'[i] = path[i] /\ path'[i + 1] = path[i + 1]
    BY <1>3, <2>1
  <2> QED BY <2>1, <2>2 DEF Searching, Linked
<1>10. Tried'
  <2> SUFFICES ASSUME NEW i \in 1 .. Len(path) - 1, NEW k \in 1 .. Len(Deps(path[i].node)),
                      k < path[i].cursor, i < Len(path) - 1 => k < path[i].cursor - 1
               PROVE  visit'[Deps(path[i].node)[k]] = "done"
    <3>1. /\ Len(path') = Len(path) - 1
          /\ \A i \in 1 .. Len(path) - 1 : path'[i] = path[i]
      BY <1>2, <1>3
    <3> QED BY <1>1, <3>1, SMTT(30) DEF Tried
  <2>1. /\ i \in 1 .. Len(path) /\ path[i].cursor \in Nat /\ Deps(path[i].node)[k] \in Nodes
    BY <1>2, <1>3, FrameIs
  <2>2. CASE k < path[i].cursor - 1
    <3>1. visit[Deps(path[i].node)[k]] = "done"
      BY <2>1, <2>2 DEF Searching, Tried
    <3> QED BY <1>5, <2>1, <3>1
  <2>3. CASE k = path[i].cursor - 1
    <3>1. Deps(path[i].node)[k] = path[i + 1].node /\ i + 1 \in 1 .. Len(path)
      BY <1>2, <2>3 DEF Searching, Linked
    <3>2. visit[Deps(path[i].node)[k]] = "onPath" /\ depth[Deps(path[i].node)[k]] = i + 1
      BY <3>1 DEF Searching, OnPath
    <3>3. CASE i + 1 = Len(path)
      BY <1>2, <1>5, <3>1, <3>3
    <3>4. CASE i + 1 # Len(path)
      BY <1>2, <2>1, <2>3, <3>1, <3>4
    <3> QED BY <3>3, <3>4
  <2> QED BY <2>1, <2>2, <2>3
<1>11. Emitted'
  <2>1. \A i \in 1 .. Len(postOrder) : postOrder[i] \in Nodes /\ postOrder[i] # Top.node
    <3> SUFFICES ASSUME NEW i \in 1 .. Len(postOrder)
                 PROVE  postOrder[i] \in Nodes /\ postOrder[i] # Top.node
      OBVIOUS
    <3>1. postOrder[i] \in Nodes
      BY <1>2 DEF SearchType
    <3>2. visit[postOrder[i]] = "done"
      BY <3>1 DEF Searching, Emitted
    <3> QED BY <1>5, <3>1, <3>2
  <2>2. ASSUME NEW n \in Nodes
        PROVE  visit'[n] = "done" <=> \E i \in 1 .. Len(postOrder') : postOrder'[i] = n
    <3>1. CASE n = Top.node
      BY <1>4, <1>5, <3>1
    <3>2. CASE n # Top.node
      <4>1. visit[n] = "done" <=> \E i \in 1 .. Len(postOrder) : postOrder[i] = n
        BY DEF Searching, Emitted
      <4> QED BY <1>4, <1>5, <3>2, <4>1
    <3> QED BY <3>1, <3>2
  <2>3. ASSUME NEW i \in 1 .. Len(postOrder'), NEW j \in 1 .. Len(postOrder'),
               postOrder'[i] = postOrder'[j]
        PROVE  i = j
    <3>1. CASE i \in 1 .. Len(postOrder) /\ j \in 1 .. Len(postOrder)
      BY <1>4, <2>3, <3>1 DEF Searching, Emitted
    <3>2. CASE ~(i \in 1 .. Len(postOrder) /\ j \in 1 .. Len(postOrder))
      BY <1>4, <2>1, <2>3, <3>2
    <3> QED BY <3>1, <3>2
  <2>4. ASSUME NEW j \in 1 .. Len(postOrder'), NEW k \in 1 .. Len(Deps(postOrder'[j]))
        PROVE  \E i \in 1 .. j - 1 : postOrder'[i] = Deps(postOrder'[j])[k]
    <3>1. CASE j \in 1 .. Len(postOrder)
      <4>1. PICK i \in 1 .. j - 1 : postOrder[i] = Deps(postOrder[j])[k]
        BY <1>4, <2>4, <3>1 DEF Searching, Emitted
      <4> QED BY <1>4, <3>1, <4>1
    <3>2. CASE j = Len(postOrder) + 1
      <4>1. k \in 1 .. Len(Deps(Top.node)) /\ k < Top.cursor
        BY <1>2, <1>4, <2>4, <3>2
      <4>2. visit[Deps(Top.node)[k]] = "done" /\ Deps(Top.node)[k] \in Nodes
        BY <1>2, <4>1 DEF Searching, Tried
      <4>3. PICK i \in 1 .. Len(postOrder) : postOrder[i] = Deps(Top.node)[k]
        BY <4>2 DEF Searching, Emitted
      <4> QED BY <1>4, <3>2, <4>3
    <3> QED BY <1>4, <3>1, <3>2
  <2>5. \A i, j \in 1 .. Len(postOrder') : postOrder'[i] = postOrder'[j] => i = j
    BY <2>3
  <2>6. \A j \in 1 .. Len(postOrder') : \A k \in 1 .. Len(graph'.dependencies[postOrder'[j]]) :
          \E i \in 1 .. j - 1 : postOrder'[i] = graph'.dependencies[postOrder'[j]][k]
    BY <1>1, <2>4, SMTT(30) DEF Deps
  <2>7. \A n \in Nodes' :
          visit'[n] = "done" <=> \E i \in 1 .. Len(postOrder') : postOrder'[i] = n
    BY <1>1, <2>2
  <2> QED BY <2>5, <2>6, <2>7 DEF Emitted, Deps
<1> QED BY <1>6, <1>8, <1>9, <1>10, <1>11 DEF Searching

-----------------------------------------------------------------------------
(* The invariant and the theorems.                                          *)

\* A call of into_topo_order starts a search that knows nothing yet.
LEMMA IntoTopoOrderStep ==
    ASSUME IsGraph(graph'), IntoTopoOrder(graph') PROVE IInv'
<1>1. /\ task' = "search" /\ path' = <<>> /\ postOrder' = <<>>
      /\ visit' = [n \in Nodes' |-> "unvisited"] /\ depth' = [n \in Nodes' |-> 0]
  BY DEF IntoTopoOrder, Nodes
<1>2. graph'.dependencies \in Seq(Seq(Nodes'))
  BY DEF IsGraph, Nodes
<1>3. SearchType'
  BY <1>1, <1>2 DEF SearchType, Status
<1>4. OnPath' /\ Linked' /\ Tried' /\ Emitted'
  BY <1>1 DEF OnPath, Linked, Tried, Emitted
<1> QED BY <1>1, <1>3, <1>4 DEF IInv, Searching, CycleIsReal

LEMMA VisitDependencyStep ==
    ASSUME Searching, VisitDependency PROVE IInv'
<1>1. task = "search" /\ path # <<>> /\ HasEdge /\ graph' = graph
  BY DEF VisitDependency
<1>2. CASE /\ visit[Edge] = "unvisited" /\ Enter(Edge, Advanced)
           /\ UNCHANGED <<task, postOrder, cycle>>
  <2>1. Edge \in Nodes /\ Top = path[Len(path)] /\ Len(path) \in Nat \ {0}
    BY <1>1, TopIs
  <2>2. \A i \in 1 .. Len(path) : Advanced[i].node = path[i].node
    BY <1>1, <2>1, AdvancedIs
  <2>3. Searching'
    BY <1>1, <1>2, <2>1, <2>2, AdvancedIs, EnterStep
  <2> QED BY <1>1, <1>2, <2>3 DEF IInv, CycleIsReal
<1>3. CASE /\ visit[Edge] = "onPath"
           /\ cycle' = [i \in 1 .. Len(path) - depth[Edge] + 1 |->
                          path[depth[Edge] + i - 1].node]
           /\ task' = "cyclic"
  BY <1>1, <1>3, CycleStep DEF IInv, CycleIsReal, DependsOn
<1>4. CASE /\ visit[Edge] = "done" /\ path' = Advanced
           /\ UNCHANGED <<task, visit, depth, postOrder, cycle>>
  BY <1>1, <1>4, PassStep DEF IInv, CycleIsReal
<1> QED BY <1>2, <1>3, <1>4 DEF VisitDependency

LEMMA NextIInv == IInv /\ [GraphStep \/ Call]_graphVars => IInv'
<1> SUFFICES ASSUME IInv, [GraphStep \/ Call]_graphVars PROVE IInv'
  OBVIOUS
<1>1. CASE VisitRoot
  BY <1>1, VisitRootStep DEF VisitRoot, IInv, CycleIsReal
<1>2. CASE VisitDependency
  BY <1>2, VisitDependencyStep DEF VisitDependency, IInv
<1>3. CASE LeaveNode
  BY <1>3, LeaveNodeStep DEF LeaveNode, IInv, CycleIsReal
<1>4. CASE SearchEnds \/ EmitReady \/ RanksEnd
  BY <1>4 DEF SearchEnds, EmitReady, RanksEnd, IInv, CycleIsReal
<1>5. CASE EnterRoot \/ FollowDependency \/ CloseNode \/ ComponentsEnd
  BY <1>5 DEF EnterRoot, FollowDependency, CloseNode, ComponentsEnd, IInv, CycleIsReal
<1>6. CASE Call
  <2>1. CASE IntoTopoOrder(graph')
    BY <1>6, <2>1, IntoTopoOrderStep DEF Call
  <2>2. CASE CyclicComponents(graph')
    BY <2>2 DEF CyclicComponents, IInv, CycleIsReal
  <2> QED BY <1>6, <2>1, <2>2 DEF Call
<1>7. CASE UNCHANGED graphVars
  <2>1. /\ task' = task /\ graph' = graph /\ visit' = visit /\ depth' = depth
        /\ path' = path /\ postOrder' = postOrder /\ cycle' = cycle
    BY <1>7 DEF graphVars, searchVars
  <2>2. Searching => Searching'
    <3>1. Searching => SearchType' /\ OnPath'
      BY <2>1 DEF Searching, SearchType, OnPath, Nodes, FrameType
    <3>2. Searching => Linked' /\ Tried'
      BY <2>1 DEF Searching, Linked, Tried, Deps
    <3>3. Searching => Emitted'
      BY <2>1 DEF Searching, Emitted, Nodes, Deps
    <3> QED BY <3>1, <3>2, <3>3 DEF Searching
  <2>3. CycleIsReal'
    BY <2>1 DEF IInv, CycleIsReal, DependsOn
  <2> QED BY <2>1, <2>2, <2>3 DEF IInv
<1> QED BY <1>1, <1>2, <1>3, <1>4, <1>5, <1>6, <1>7 DEF GraphStep

LEMMA Invariance == GraphSpec => []IInv
<1>1. GraphIdle => IInv
  BY DEF GraphIdle, IInv, CycleIsReal
<1> QED BY <1>1, NextIInv, PTL DEF GraphSpec

\* into_topo_order reports a cycle only of nodes that depend on each other in a ring.
THEOREM CycleIsRealTheorem == GraphSpec => []CycleIsReal
<1>1. IInv => CycleIsReal
  BY DEF IInv
<1> QED BY <1>1, Invariance, PTL

\* What depth_first has emitted is ordered at every moment, cycle or not.
THEOREM SearchIsTopologicalTheorem == GraphSpec => []SearchIsTopological
<1>1. IInv => SearchIsTopological
  <2> SUFFICES ASSUME Searching
               PROVE  /\ DependenciesFirst(postOrder)
                      /\ ToSet(postOrder) = {n \in Nodes : visit[n] = "done"}
    BY DEF IInv, SearchIsTopological
  <2>1. postOrder \in Seq(Nodes) /\ DOMAIN postOrder = 1 .. Len(postOrder)
    BY DEF Searching, SearchType
  <2>2. ToSet(postOrder) = {n \in Nodes : visit[n] = "done"}
    BY <2>1 DEF ToSet, Searching, Emitted
  <2>3. ASSUME NEW j \in 1 .. Len(postOrder)
        PROVE  /\ \A i \in 1 .. j - 1 : postOrder[i] # postOrder[j]
               /\ \A d \in Nodes : DependsOn(postOrder[j], d) =>
                    \E i \in 1 .. j - 1 : postOrder[i] = d
    <3>1. \A i \in 1 .. j - 1 : i \in 1 .. Len(postOrder) /\ i # j
      BY <2>1, <2>3
    <3>2. \A i \in 1 .. j - 1 : postOrder[i] # postOrder[j]
      BY <2>3, <3>1 DEF Searching, Emitted
    <3> QED BY <2>3, <3>2 DEF Searching, Emitted, DependsOn, Contains, Deps
  <2> QED BY <2>1, <2>2, <2>3 DEF DependenciesFirst
<1> QED BY <1>1, Invariance, PTL

-----------------------------------------------------------------------------
(* Sequences and sets of numbers.                                           *)

\* Induction on the natural numbers, for a set: by counting, since n + 1 numbers below
\* the first one missing would fit into n places.
LEMMA SetInduction ==
    ASSUME NEW P, 0 \in P, \A n \in Nat : n \in P => n + 1 \in P
    PROVE  \A n \in Nat : n \in P
<1> SUFFICES ASSUME NEW n \in Nat, n \notin P PROVE FALSE
  OBVIOUS
<1>1. PICK below : below = {k \in 0 .. n : k \in P}
  OBVIOUS
<1>2. PICK rest : rest = below \ {0}
  OBVIOUS
<1>3. \A k \in below : k + 1 \in rest
  <2> SUFFICES ASSUME NEW k \in below PROVE k + 1 \in rest
    OBVIOUS
  <2>1. k \in Nat /\ k <= n /\ k \in P /\ k # n
    BY <1>1
  <2>2. k + 1 \in P /\ k + 1 \in 0 .. n /\ k + 1 # 0
    BY <2>1
  <2> QED
    BY <1>1, <1>2, <2>2
<1>4. PICK next : next = [k \in below |-> k + 1]
  OBVIOUS
<1>5. next \in Injection(below, rest)
  <2>1. next \in [below -> rest]
    BY <1>3, <1>4
  <2>2. \A k, l \in below : next[k] = next[l] => k = l
    BY <1>1, <1>4
  <2> QED
    BY <2>1, <2>2 DEF Injection, IsInjective
<1>6. IsFiniteSet(below)
  <2>1. IsFiniteSet(0 .. n) /\ below \in SUBSET (0 .. n)
    BY <1>1, FS_Interval
  <2> QED
    BY <2>1, FS_Subset
<1>7. 0 \in below
  BY <1>1
<1>8. IsFiniteSet(rest) /\ Cardinality(rest) = Cardinality(below) - 1
  BY <1>2, <1>6, <1>7, FS_RemoveElement
<1>9. Cardinality(below) <= Cardinality(rest) /\ Cardinality(below) \in Nat
  BY <1>5, <1>6, <1>8, FS_Injection, FS_CardinalityType
<1> QED
  BY <1>8, <1>9

\* A set of natural numbers has a least element.
LEMMA LeastOf ==
    ASSUME NEW S, S \subseteq Nat, S # {}
    PROVE  \E m \in S : \A n \in S : m <= n
<1> SUFFICES ASSUME \A m \in S : \E n \in S : n < m PROVE FALSE
  <2>1. ASSUME \A m \in S : ~\A n \in S : m <= n PROVE \A m \in S : \E n \in S : n < m
    BY <2>1
  <2> QED
    BY <2>1
<1>1. PICK P : P = {k \in Nat : \A m \in 0 .. k : m \notin S}
  OBVIOUS
<1>2. 0 \in P
  <2>1. 0 \notin S
    <3> SUFFICES ASSUME 0 \in S PROVE FALSE
      OBVIOUS
    <3>1. PICK n \in S : n < 0
      OBVIOUS
    <3>2. n \in Nat
      OBVIOUS
    <3> QED
      BY <3>1, <3>2
  <2> QED
    BY <1>1, <2>1
<1>3. ASSUME NEW k \in Nat, k \in P PROVE k + 1 \in P
  <2>1. \A m \in 0 .. k : m \notin S
    BY <1>1, <1>3
  <2>2. k + 1 \notin S
    <3> SUFFICES ASSUME k + 1 \in S PROVE FALSE
      OBVIOUS
    <3>1. PICK n \in S : n < k + 1
      OBVIOUS
    <3>2. n \in 0 .. k
      <4>1. n \in Nat
        OBVIOUS
      <4> QED
        BY <3>1, <4>1
    <3> QED
      BY <2>1, <3>2
  <2>3. \A m \in 0 .. k + 1 : m \notin S
    BY <2>1, <2>2
  <2> QED
    BY <1>1, <2>3
<1>4. \A k \in Nat : k \in P
  BY <1>2, <1>3, SetInduction
<1>5. PICK m \in S : m \in Nat
  OBVIOUS
<1> QED
  BY <1>1, <1>4, <1>5

\* pick takes an element out of every subset of U that is not in base, and f computes
\* b for those and g of the element and the rest for the others.
Picks(U, base, pick) == \A s \in SUBSET U : s \notin base => pick[s] \in s
Recursive(U, base, b, pick, g, f) ==
    \A s \in SUBSET U : f[s] = IF s \in base THEN b ELSE g[pick[s]][f[s \ {pick[s]}]]

\* A function may be defined on the subsets of a finite set by taking an element out.
LEMMA SubsetRecursion ==
    ASSUME NEW U, IsFiniteSet(U), NEW D, NEW b \in D, NEW base, NEW pick,
           Picks(U, base, pick), NEW g \in [U -> [D -> D]]
    PROVE  \E f \in [SUBSET U -> D] : Recursive(U, base, b, pick, g, f)
<1> DEFINE small(n) == {s \in SUBSET U : Cardinality(s) <= n}
           defines(n, f) == /\ f \in [small(n) -> D]
                            /\ \A s \in small(n) :
                                 f[s] = IF s \in base THEN b ELSE g[pick[s]][f[s \ {pick[s]}]]
<1>1. PICK P : P = {n \in Nat : \E f : defines(n, f)}
  OBVIOUS
<1>2. ASSUME NEW s \in SUBSET U
      PROVE  /\ Cardinality(s) \in Nat
             /\ s \notin base => /\ pick[s] \in U /\ s \ {pick[s]} \in SUBSET U
                                /\ Cardinality(s) # 0
                                /\ Cardinality(s \ {pick[s]}) = Cardinality(s) - 1
  <2>1. IsFiniteSet(s) /\ Cardinality(s) \in Nat
    BY FS_Subset, FS_CardinalityType
  <2>2. CASE s \notin base
    <3>1. pick[s] \in s
      BY <2>2 DEF Picks
    <3>2. Cardinality(s \ {pick[s]}) = Cardinality(s) - 1
      BY <2>1, <3>1, FS_RemoveElement
    <3>3. Cardinality(s) # 0
      BY <2>1, <3>1, FS_EmptySet
    <3> QED
      BY <2>1, <3>1, <3>2, <3>3
  <2> QED
    BY <2>1, <2>2
<1>3. 0 \in P
  <2>1. PICK f : f = [s \in small(0) |-> b]
    OBVIOUS
  <2>2. ASSUME NEW s \in small(0) PROVE s \in base
    <3>1. s \in SUBSET U /\ Cardinality(s) <= 0
      OBVIOUS
    <3>2. Cardinality(s) \in Nat /\ (s \notin base => Cardinality(s) # 0)
      BY <1>2, <3>1
    <3> QED
      BY <3>1, <3>2
  <2>3. defines(0, f)
    BY <2>1, <2>2
  <2> QED
    BY <1>1, <2>3
<1>4. ASSUME NEW n \in Nat, n \in P PROVE n + 1 \in P
  <2>1. PICK f : defines(n, f)
    BY <1>1, <1>4
  <2>2. PICK h : h = [s \in small(n + 1) |->
                        IF s \in base THEN b ELSE g[pick[s]][f[s \ {pick[s]}]]]
    OBVIOUS
  <2>3. \A s \in small(n + 1) : s \notin base =>
          /\ s \ {pick[s]} \in small(n) /\ s \ {pick[s]} \in small(n + 1) /\ pick[s] \in U
    BY <1>2
  <2>4. h \in [small(n + 1) -> D]
    <3>1. ASSUME NEW s \in small(n + 1), s \notin base
          PROVE  g[pick[s]][f[s \ {pick[s]}]] \in D
      <4>1. pick[s] \in U /\ f[s \ {pick[s]}] \in D
        BY <2>1, <2>3, <3>1
      <4> QED
        BY <4>1
    <3> QED
      BY <2>2, <3>1
  <2>5. \A s \in small(n) : s \in small(n + 1) /\ h[s] = f[s]
    <3> SUFFICES ASSUME NEW s \in small(n) PROVE s \in small(n + 1) /\ h[s] = f[s]
      OBVIOUS
    <3>1. s \in small(n + 1)
      <4>1. s \in SUBSET U /\ Cardinality(s) <= n
        OBVIOUS
      <4>2. Cardinality(s) \in Nat
        BY <1>2, <4>1
      <4> QED
        BY <4>1, <4>2
    <3>2. f[s] = IF s \in base THEN b ELSE g[pick[s]][f[s \ {pick[s]}]]
      BY <2>1
    <3> QED
      BY <2>2, <3>1, <3>2
  <2>6. defines(n + 1, h)
    <3> SUFFICES ASSUME NEW s \in small(n + 1)
                 PROVE  h[s] = IF s \in base THEN b ELSE g[pick[s]][h[s \ {pick[s]}]]
      BY <2>4
    <3>1. CASE s \in base
      BY <2>2, <3>1
    <3>2. CASE s \notin base
      <4>1. h[s \ {pick[s]}] = f[s \ {pick[s]}]
        BY <2>3, <2>5, <3>2
      <4> QED
        BY <2>2, <3>2, <4>1
    <3> QED
      BY <3>1, <3>2
  <2> HIDE DEF defines
  <2> QED
    BY <1>1, <2>6
<1>5. Cardinality(U) \in P
  <2>1. Cardinality(U) \in Nat
    BY FS_CardinalityType
  <2> HIDE DEF defines
  <2> QED
    BY <1>3, <1>4, <2>1, SetInduction
<1>6. PICK f : defines(Cardinality(U), f)
  BY <1>1, <1>5
<1>7. small(Cardinality(U)) = SUBSET U
  <2>1. \A s \in SUBSET U : Cardinality(s) <= Cardinality(U)
    BY FS_Subset
  <2> QED
    BY <2>1
<1> QED
  BY <1>6, <1>7 DEF Recursive

\* Max of numbers up to n.
LEMMA GreatestIn ==
    ASSUME NEW n \in Nat, NEW s \in SUBSET (1 .. n), s # {}
    PROVE  Max(s) \in s /\ \A i \in s : i <= Max(s)
<1>1. PICK bounds : bounds = {m \in Nat : \A i \in s : i <= m}
  OBVIOUS
<1>2. n \in bounds /\ bounds \subseteq Nat
  BY <1>1
<1>3. PICK m \in bounds : \A k \in bounds : m <= k
  BY <1>2, LeastOf
<1>4. m \in Nat /\ \A i \in s : i <= m /\ i \in Nat /\ i >= 1
  BY <1>1, <1>3
<1>5. m \in s
  <2> SUFFICES ASSUME m \notin s PROVE FALSE
    OBVIOUS
  <2>1. \A i \in s : i <= m - 1
    BY <1>4
  <2>2. m - 1 \in Nat
    <3>1. PICK i \in s : i >= 1 /\ i <= m /\ i \in Nat
      BY <1>4
    <3> QED
      BY <1>4, <3>1
  <2>3. m - 1 \in bounds
    BY <1>1, <2>1, <2>2
  <2> QED
    BY <1>3, <1>4, <2>3
<1>6. \E x \in s : \A y \in s : x >= y
  BY <1>4, <1>5
<1> QED
  <2>1. Max(s) \in s /\ \A y \in s : Max(s) >= y
    BY <1>6 DEF Max
  <2> QED
    BY <1>4, <2>1

\* A fold from the left goes through the prefixes of a sequence.
LEMMA PrefixSets ==
    ASSUME NEW n \in Nat, NEW k \in 0 .. n - 1
    PROVE  /\ 1 .. k \in SUBSET (1 .. n) /\ 1 .. (k + 1) \in SUBSET (1 .. n)
           /\ 1 .. (k + 1) # {} /\ Max(1 .. (k + 1)) = k + 1
           /\ (1 .. (k + 1)) \ {k + 1} = 1 .. k
<1>1. /\ 1 .. k \in SUBSET (1 .. n) /\ 1 .. (k + 1) \in SUBSET (1 .. n)
      /\ k + 1 \in 1 .. (k + 1) /\ (1 .. (k + 1)) \ {k + 1} = 1 .. k
      /\ k + 1 \in Nat
  OBVIOUS
<1>2. Max(1 .. (k + 1)) \in 1 .. (k + 1) /\ k + 1 <= Max(1 .. (k + 1))
  <2>1. 1 .. (k + 1) # {} /\ 1 .. (k + 1) \in SUBSET (1 .. n)
    BY <1>1
  <2> QED
    BY <1>1, <2>1, GreatestIn
<1>3. Max(1 .. (k + 1)) = k + 1
  BY <1>1, <1>2
<1>4. 1 .. (k + 1) # {}
  BY <1>1
<1> QED
  BY <1>1, <1>3, <1>4

\* Filtered goes through the sequence and keeps what is in the set.
LEMMA FilteredSteps ==
    ASSUME NEW D, NEW seq \in Seq(D), NEW S
    PROVE  \E f : /\ f[0] = <<>> /\ f[Len(seq)] = Filtered(seq, S)
                  /\ \A k \in 0 .. Len(seq) - 1 :
                       f[k + 1] = IF seq[k + 1] \in S THEN Append(f[k], seq[k + 1]) ELSE f[k]
<1>1. PICK n, U : n = Len(seq) /\ U = DOMAIN seq
  OBVIOUS
<1>2. n \in Nat /\ U = 1 .. n /\ IsFiniteSet(U) /\ \A i \in U : seq[i] \in D
  <2>1. n \in Nat /\ U = 1 .. n /\ \A i \in U : seq[i] \in D
    BY <1>1
  <2> QED
    BY <2>1, FS_Interval
<1> DEFINE folds(it) ==
      it = [s \in SUBSET U |-> IF s = {} THEN <<>>
              ELSE IF seq[Max(s)] \in S THEN Append(it[s \ {Max(s)}], seq[Max(s)])
                   ELSE it[s \ {Max(s)}]]
<1>3. Filtered(seq, S) = (CHOOSE it : folds(it))[U]
  BY <1>1 DEF Filtered, FoldLeft, MapThenFoldSet
<1>4. \E it : folds(it)
  <2>1. PICK pick, g, base, none :
          /\ pick = [s \in SUBSET U |-> Max(s)] /\ base = {{}} /\ none = <<>>
          /\ g = [i \in U |-> [q \in Seq(D) |->
                    IF seq[i] \in S THEN Append(q, seq[i]) ELSE q]]
    OBVIOUS
  <2>2. Picks(U, base, pick) /\ \A s \in SUBSET U : s # {} => pick[s] = Max(s) /\ Max(s) \in U
    BY <1>2, <2>1, GreatestIn DEF Picks
  <2>3. g \in [U -> [Seq(D) -> Seq(D)]] /\ none \in Seq(D)
    BY <1>2, <2>1
  <2>4. PICK it \in [SUBSET U -> Seq(D)] : Recursive(U, base, none, pick, g, it)
    BY <1>2, <2>2, <2>3, SubsetRecursion
  <2>5. ASSUME NEW s \in SUBSET U
        PROVE  it[s] = IF s = {} THEN <<>>
                 ELSE IF seq[Max(s)] \in S THEN Append(it[s \ {Max(s)}], seq[Max(s)])
                      ELSE it[s \ {Max(s)}]
    <3>1. CASE s = {}
      BY <2>1, <2>4, <3>1 DEF Recursive
    <3>2. CASE s # {}
      <4>1. pick[s] = Max(s) /\ Max(s) \in U /\ s \notin base
        BY <2>1, <2>2, <3>2
      <4>2. PICK q \in Seq(D) : q = it[s \ {Max(s)}]
        BY <2>4
      <4>3. it[s] = g[Max(s)][q]
        BY <2>4, <4>1, <4>2 DEF Recursive
      <4>4. g[Max(s)][q] = IF seq[Max(s)] \in S THEN Append(q, seq[Max(s)]) ELSE q
        BY <2>1, <4>1, <4>2
      <4> QED
        BY <3>2, <4>2, <4>3, <4>4
    <3> QED
      BY <3>1, <3>2
  <2>6. folds(it)
    BY <2>4, <2>5
  <2> QED
    BY <2>6
<1>5. PICK it : it = CHOOSE f : folds(f)
  OBVIOUS
<1>6. folds(it)
  BY <1>4, <1>5
<1>7. PICK f : f = [k \in 0 .. n |-> it[1 .. k]]
  OBVIOUS
<1>8. f[0] = <<>>
  <2>1. 1 .. 0 = {} /\ 0 \in 0 .. n
    BY <1>2
  <2> QED
    BY <1>6, <1>7, <2>1
<1>9. f[n] = Filtered(seq, S)
  <2>1. n \in 0 .. n
    BY <1>2
  <2> QED
    BY <1>2, <1>3, <1>5, <1>7, <2>1
<1>10. ASSUME NEW k \in 0 .. n - 1
       PROVE  f[k + 1] = IF seq[k + 1] \in S THEN Append(f[k], seq[k + 1]) ELSE f[k]
  <2>1. /\ 1 .. (k + 1) \in SUBSET U /\ 1 .. (k + 1) # {} /\ Max(1 .. (k + 1)) = k + 1
        /\ (1 .. (k + 1)) \ {k + 1} = 1 .. k
    BY <1>2, PrefixSets
  <2>2. f[k] = it[1 .. k] /\ f[k + 1] = it[1 .. (k + 1)]
    BY <1>2, <1>7
  <2>3. it[1 .. (k + 1)] = IF seq[k + 1] \in S THEN Append(it[1 .. k], seq[k + 1]) ELSE it[1 .. k]
    BY <1>6, <2>1
  <2> QED
    BY <2>2, <2>3
<1> QED
  BY <1>1, <1>8, <1>9, <1>10

\* kept has the elements of the first k of seq that are in S, taken at the places at.
Keeps(seq, S, k, kept, at) ==
    /\ at \in [1 .. Len(kept) -> 1 .. k]
    /\ \A i \in 1 .. Len(kept) : kept[i] = seq[at[i]] /\ seq[at[i]] \in S
    /\ \A i, l \in 1 .. Len(kept) : i < l => at[i] < at[l]
    /\ \A i \in 1 .. k : seq[i] \in S => \E l \in 1 .. Len(kept) : at[l] = i

\* Filtered keeps the elements that are in the set, in their order.
LEMMA FilteredIs ==
    ASSUME NEW D, NEW seq \in Seq(D), NEW S
    PROVE  /\ Filtered(seq, S) \in Seq(D)
           /\ \E at \in [1 .. Len(Filtered(seq, S)) -> 1 .. Len(seq)] :
                /\ \A k \in 1 .. Len(Filtered(seq, S)) :
                     Filtered(seq, S)[k] = seq[at[k]] /\ seq[at[k]] \in S
                /\ \A k, l \in 1 .. Len(Filtered(seq, S)) : k < l => at[k] < at[l]
                /\ \A i \in 1 .. Len(seq) : seq[i] \in S =>
                     \E k \in 1 .. Len(Filtered(seq, S)) : at[k] = i
<1>1. PICK f : /\ f[0] = <<>> /\ f[Len(seq)] = Filtered(seq, S)
               /\ \A k \in 0 .. Len(seq) - 1 :
                    f[k + 1] = IF seq[k + 1] \in S THEN Append(f[k], seq[k + 1]) ELSE f[k]
  BY FilteredSteps
<1>2. PICK P : P = {k \in Nat : k <= Len(seq) =>
                      f[k] \in Seq(D) /\ \E at : Keeps(seq, S, k, f[k], at)}
  OBVIOUS
<1>3. Len(seq) \in Nat /\ \A i \in 1 .. Len(seq) : seq[i] \in D
  OBVIOUS
<1>4. 0 \in P
  <2>1. PICK at : at = [i \in 1 .. 0 |-> i]
    OBVIOUS
  <2>2. Keeps(seq, S, 0, <<>>, at)
    <3>1. 1 .. 0 = {} /\ Len(<<>>) = 0
      OBVIOUS
    <3>2. at \in [1 .. 0 -> 1 .. 0]
      BY <2>1, <3>1
    <3> QED
      BY <3>1, <3>2 DEF Keeps
  <2>3. f[0] \in Seq(D) /\ Keeps(seq, S, 0, f[0], at)
    BY <1>1, <2>2
  <2> QED
    BY <1>2, <2>3
<1>5. ASSUME NEW k \in Nat, k \in P PROVE k + 1 \in P
  <2> SUFFICES ASSUME k + 1 <= Len(seq)
               PROVE  f[k + 1] \in Seq(D) /\ \E at : Keeps(seq, S, k + 1, f[k + 1], at)
    BY <1>2
  <2>1. k \in 0 .. Len(seq) - 1 /\ k <= Len(seq) /\ k + 1 \in 1 .. Len(seq)
    BY <1>3
  <2>2. PICK at : f[k] \in Seq(D) /\ Keeps(seq, S, k, f[k], at)
    BY <1>2, <1>5, <2>1
  <2>3. PICK kept : kept = f[k]
    OBVIOUS
  <2>4. PICK size : size = Len(kept)
    OBVIOUS
  <2>5. /\ kept \in Seq(D) /\ size \in Nat /\ at \in [1 .. size -> 1 .. k]
        /\ \A i \in 1 .. size : kept[i] = seq[at[i]] /\ seq[at[i]] \in S
        /\ \A i, l \in 1 .. size : i < l => at[i] < at[l]
        /\ \A i \in 1 .. k : seq[i] \in S => \E l \in 1 .. size : at[l] = i
    BY <2>2, <2>3, <2>4 DEF Keeps
  <2>6. CASE seq[k + 1] \notin S
    <3>1. f[k + 1] = kept
      BY <1>1, <2>1, <2>3, <2>6
    <3>2. at \in [1 .. size -> 1 .. (k + 1)]
      BY <2>5
    <3>3. \A i \in 1 .. (k + 1) : seq[i] \in S => i \in 1 .. k
      BY <2>6
    <3>4. Keeps(seq, S, k + 1, kept, at)
      BY <2>4, <2>5, <3>2, <3>3 DEF Keeps
    <3> QED
      BY ONLY <2>5, <3>1, <3>4
  <2>7. CASE seq[k + 1] \in S
    <3>1. PICK more : more = Append(kept, seq[k + 1])
      OBVIOUS
    <3>2. /\ f[k + 1] = more /\ more \in Seq(D) /\ Len(more) = size + 1
          /\ more[size + 1] = seq[k + 1] /\ \A i \in 1 .. size : more[i] = kept[i]
      <4>1. f[k + 1] = more
        BY <1>1, <2>1, <2>3, <2>7, <3>1
      <4>2. seq[k + 1] \in D
        BY <1>3, <2>1
      <4> QED
        BY <2>4, <2>5, <3>1, <4>1, <4>2
    <3>3. PICK to : to = [i \in 1 .. (size + 1) |-> IF i <= size THEN at[i] ELSE k + 1]
      OBVIOUS
    <3>4. /\ to[size + 1] = k + 1
          /\ \A i \in 1 .. size : to[i] = at[i] /\ at[i] \in 1 .. k
      BY <2>5, <3>3
    <3>5. \A i \in 1 .. (size + 1) : i \in 1 .. size \/ i = size + 1
      BY <2>5
    <3>6. to \in [1 .. (size + 1) -> 1 .. (k + 1)]
      <4>1. \A i \in 1 .. (size + 1) : to[i] \in 1 .. (k + 1)
        BY <3>4, <3>5
      <4> QED
        BY <3>3, <4>1
    <3>7. \A i \in 1 .. (size + 1) : more[i] = seq[to[i]] /\ seq[to[i]] \in S
      BY <2>5, <2>7, <3>2, <3>4, <3>5
    <3>8. ASSUME NEW i \in 1 .. (size + 1), NEW l \in 1 .. (size + 1), i < l
          PROVE  to[i] < to[l]
      <4>1. i \in 1 .. size
        BY <2>5, <3>8
      <4>2. CASE l \in 1 .. size
        BY <2>5, <3>4, <3>8, <4>1, <4>2
      <4>3. CASE l = size + 1
        BY <3>4, <4>1, <4>3
      <4> QED
        BY <3>5, <4>2, <4>3
    <3>9. ASSUME NEW i \in 1 .. (k + 1), seq[i] \in S
          PROVE  \E l \in 1 .. (size + 1) : to[l] = i
      <4>1. CASE i = k + 1
        BY <2>5, <3>4, <4>1
      <4>2. CASE i # k + 1
        <5>1. i \in 1 .. k
          BY <4>2
        <5>2. PICK l \in 1 .. size : at[l] = i
          BY <2>5, <3>9, <5>1
        <5>3. l \in 1 .. (size + 1)
          BY <2>5
        <5> QED
          BY <3>4, <5>2, <5>3
      <4> QED
        BY <4>1, <4>2
    <3>10. Keeps(seq, S, k + 1, more, to)
      BY <3>2, <3>6, <3>7, <3>8, <3>9 DEF Keeps
    <3> QED
      BY <3>2, <3>10
  <2> QED
    BY <2>6, <2>7
<1>6. Len(seq) \in P
  BY <1>3, <1>4, <1>5, SetInduction
<1>7. PICK result : result = Filtered(seq, S)
  OBVIOUS
<1>8. result \in Seq(D) /\ \E at : Keeps(seq, S, Len(seq), result, at)
  BY <1>1, <1>2, <1>3, <1>6, <1>7
<1>9. PICK at : Keeps(seq, S, Len(seq), result, at)
  BY <1>8
<1> QED
  BY <1>7, <1>8, <1>9 DEF Keeps

\* What Filtered keeps, and that it repeats nothing.
LEMMA FilteredElements ==
    ASSUME NEW D, NEW seq \in Seq(D), NEW S
    PROVE  /\ Filtered(seq, S) \in Seq(D)
           /\ \A x : Contains(Filtered(seq, S), x) <=> Contains(seq, x) /\ x \in S
           /\ IsInjective(seq) => IsInjective(Filtered(seq, S))
<1>1. PICK result : result = Filtered(seq, S)
  OBVIOUS
<1>2. result \in Seq(D) /\ DOMAIN result = 1 .. Len(result) /\ Len(result) \in Nat
  BY <1>1, FilteredIs
<1>3. PICK at \in [1 .. Len(result) -> 1 .. Len(seq)] :
        /\ \A k \in 1 .. Len(result) : result[k] = seq[at[k]] /\ seq[at[k]] \in S
        /\ \A k, l \in 1 .. Len(result) : k < l => at[k] < at[l]
        /\ \A i \in 1 .. Len(seq) : seq[i] \in S => \E k \in 1 .. Len(result) : at[k] = i
  BY <1>1, FilteredIs
<1>4. \A x : Contains(result, x) <=> Contains(seq, x) /\ x \in S
  <2> SUFFICES ASSUME NEW x PROVE Contains(result, x) <=> Contains(seq, x) /\ x \in S
    OBVIOUS
  <2>1. ASSUME Contains(result, x) PROVE Contains(seq, x) /\ x \in S
    BY <1>3, <2>1 DEF Contains
  <2>2. ASSUME Contains(seq, x), x \in S PROVE Contains(result, x)
    <3>1. PICK i \in 1 .. Len(seq) : seq[i] = x
      BY <2>2 DEF Contains
    <3>2. PICK k \in 1 .. Len(result) : at[k] = i
      BY <1>3, <2>2, <3>1
    <3> QED
      BY <1>3, <3>1, <3>2 DEF Contains
  <2> QED
    BY <2>1, <2>2
<1>5. ASSUME IsInjective(seq) PROVE IsInjective(result)
  <2> SUFFICES ASSUME NEW k \in 1 .. Len(result), NEW l \in 1 .. Len(result),
                      result[k] = result[l]
               PROVE  k = l
    BY <1>2 DEF IsInjective
  <2>1. at[k] = at[l]
    <3>1. seq[at[k]] = seq[at[l]] /\ at[k] \in 1 .. Len(seq) /\ at[l] \in 1 .. Len(seq)
      BY <1>3
    <3> QED
      BY <1>5, <3>1 DEF IsInjective
  <2>2. ~(k < l) /\ ~(l < k)
    <3>1. at[k] \in Nat
      BY <1>3
    <3> QED
      BY <1>3, <2>1, <3>1
  <2> QED
    BY <2>2
<1> QED
  BY <1>1, <1>2, <1>4, <1>5

\* Two queues one after the other.
LEMMA Joined ==
    ASSUME NEW D, NEW s \in Seq(D), NEW t \in Seq(D)
    PROVE  /\ s \o t \in Seq(D)
           /\ \A x : Contains(s \o t, x) <=> Contains(s, x) \/ Contains(t, x)
           /\ IsInjective(s) /\ IsInjective(t) /\ (\A x : ~(Contains(s, x) /\ Contains(t, x)))
                => IsInjective(s \o t)
<1>1. PICK u : u = s \o t
  OBVIOUS
<1>2. /\ u \in Seq(D) /\ Len(u) = Len(s) + Len(t) /\ Len(s) \in Nat /\ Len(t) \in Nat
      /\ DOMAIN u = 1 .. Len(u) /\ DOMAIN s = 1 .. Len(s) /\ DOMAIN t = 1 .. Len(t)
      /\ \A i \in 1 .. Len(s) : u[i] = s[i]
      /\ \A i \in 1 .. Len(u) : i > Len(s) => i - Len(s) \in 1 .. Len(t) /\ u[i] = t[i - Len(s)]
      /\ \A i \in 1 .. Len(t) : Len(s) + i \in 1 .. Len(u) /\ u[Len(s) + i] = t[i]
  BY <1>1
<1>3. ASSUME NEW x PROVE Contains(u, x) <=> Contains(s, x) \/ Contains(t, x)
  <2>1. ASSUME Contains(u, x) PROVE Contains(s, x) \/ Contains(t, x)
    <3>1. PICK i \in 1 .. Len(u) : u[i] = x
      BY <2>1 DEF Contains
    <3>2. CASE i <= Len(s)
      BY <1>2, <3>1, <3>2 DEF Contains
    <3>3. CASE i > Len(s)
      BY <1>2, <3>1, <3>3 DEF Contains
    <3> QED
      BY <1>2, <3>2, <3>3
  <2>2. ASSUME Contains(s, x) PROVE Contains(u, x)
    <3>1. PICK i \in 1 .. Len(s) : s[i] = x
      BY <2>2 DEF Contains
    <3>2. i \in 1 .. Len(u) /\ u[i] = x
      BY <1>2, <3>1
    <3> QED
      BY <3>2 DEF Contains
  <2>3. ASSUME Contains(t, x) PROVE Contains(u, x)
    <3>1. PICK i \in 1 .. Len(t) : t[i] = x
      BY <2>3 DEF Contains
    <3>2. Len(s) + i \in 1 .. Len(u) /\ u[Len(s) + i] = x
      BY <1>2, <3>1
    <3> QED
      BY <3>2 DEF Contains
  <2> QED
    BY <2>1, <2>2, <2>3
<1>4. ASSUME IsInjective(s), IsInjective(t), \A x : ~(Contains(s, x) /\ Contains(t, x))
      PROVE  IsInjective(u)
  <2> SUFFICES ASSUME NEW i \in 1 .. Len(u), NEW j \in 1 .. Len(u), u[i] = u[j] PROVE i = j
    BY <1>2 DEF IsInjective
  <2>1. CASE i <= Len(s) /\ j <= Len(s)
    BY <1>2, <1>4, <2>1, SMTT(20) DEF IsInjective
  <2>2. CASE i > Len(s) /\ j > Len(s)
    <3>1. /\ i - Len(s) \in 1 .. Len(t) /\ j - Len(s) \in 1 .. Len(t)
          /\ t[i - Len(s)] = t[j - Len(s)]
      BY <1>2, <2>2
    <3>2. i - Len(s) = j - Len(s)
      BY <1>2, <1>4, <3>1 DEF IsInjective
    <3> QED
      BY <1>2, <3>2
  <2>3. ASSUME NEW k \in 1 .. Len(u), NEW l \in 1 .. Len(u), k <= Len(s), l > Len(s)
        PROVE  u[k] # u[l]
    <3>1. k \in 1 .. Len(s) /\ u[k] = s[k]
      BY <1>2, <2>3
    <3>2. l - Len(s) \in 1 .. Len(t) /\ u[l] = t[l - Len(s)]
      BY <1>2, <2>3
    <3>3. Contains(s, u[k]) /\ Contains(t, u[l])
      BY <3>1, <3>2 DEF Contains
    <3> QED
      BY <1>4, <3>3
  <2> QED
    BY <1>2, <2>1, <2>2, <2>3
<1> QED
  BY <1>1, <1>2, <1>3, <1>4

\* A queue without its first element.
LEMMA TailOf ==
    ASSUME NEW D, NEW s \in Seq(D), s # <<>>, IsInjective(s)
    PROVE  /\ Head(s) \in D /\ Contains(s, Head(s)) /\ Tail(s) \in Seq(D)
           /\ IsInjective(Tail(s))
           /\ \A x : Contains(Tail(s), x) <=> Contains(s, x) /\ x # Head(s)
<1>1. PICK t : t = Tail(s)
  OBVIOUS
<1>2. /\ t \in Seq(D) /\ Len(t) = Len(s) - 1 /\ Len(s) \in Nat \ {0} /\ Head(s) = s[1]
      /\ DOMAIN t = 1 .. Len(t) /\ DOMAIN s = 1 .. Len(s)
      /\ \A i \in 1 .. Len(t) : t[i] = s[i + 1] /\ i + 1 \in 1 .. Len(s)
  BY <1>1
<1>3. \A i, j \in 1 .. Len(s) : s[i] = s[j] => i = j
  BY <1>2 DEF IsInjective
<1>4. IsInjective(t)
  <2> SUFFICES ASSUME NEW i \in 1 .. Len(t), NEW j \in 1 .. Len(t), t[i] = t[j] PROVE i = j
    BY <1>2 DEF IsInjective
  <2>1. i + 1 = j + 1
    BY <1>2, <1>3
  <2> QED
    BY <1>2, <2>1
<1>5. ASSUME NEW x PROVE Contains(t, x) <=> Contains(s, x) /\ x # Head(s)
  <2>1. ASSUME Contains(t, x) PROVE Contains(s, x) /\ x # Head(s)
    <3>1. PICK i \in 1 .. Len(t) : t[i] = x
      BY <2>1 DEF Contains
    <3>2. i + 1 \in 1 .. Len(s) /\ s[i + 1] = x /\ i + 1 # 1 /\ 1 \in 1 .. Len(s)
      BY <1>2, <3>1
    <3> QED
      BY <1>2, <1>3, <3>2 DEF Contains
  <2>2. ASSUME Contains(s, x), x # Head(s) PROVE Contains(t, x)
    <3>1. PICK i \in 1 .. Len(s) : s[i] = x
      BY <2>2 DEF Contains
    <3>2. i # 1
      BY <1>2, <2>2, <3>1
    <3>3. i - 1 \in 1 .. Len(t) /\ (i - 1) + 1 = i
      BY <1>2, <3>1, <3>2
    <3> QED
      BY <1>2, <3>1, <3>3 DEF Contains
  <2> QED
    BY <2>1, <2>2
<1>6. Contains(s, Head(s)) /\ Head(s) \in D
  BY <1>2 DEF Contains
<1> QED
  BY <1>1, <1>2, <1>4, <1>5, <1>6

\* A sequence with one more element at its end.
LEMMA AppendedTo ==
    ASSUME NEW D, NEW s \in Seq(D), NEW e \in D
    PROVE  /\ Append(s, e) \in Seq(D) /\ Len(Append(s, e)) = Len(s) + 1 /\ Len(s) \in Nat
           /\ \A i \in 1 .. Len(s) : Append(s, e)[i] = s[i]
           /\ Append(s, e)[Len(s) + 1] = e
           /\ \A x : Contains(Append(s, e), x) <=> Contains(s, x) \/ x = e
           /\ IsInjective(s) /\ ~Contains(s, e) => IsInjective(Append(s, e))
<1>1. PICK t : t = Append(s, e)
  OBVIOUS
<1>2. /\ t \in Seq(D) /\ Len(t) = Len(s) + 1 /\ Len(s) \in Nat
      /\ \A i \in 1 .. Len(s) : t[i] = s[i]
      /\ t[Len(s) + 1] = e
      /\ DOMAIN t = 1 .. Len(s) + 1 /\ DOMAIN s = 1 .. Len(s)
  BY <1>1
<1>3. ASSUME NEW x PROVE Contains(t, x) <=> Contains(s, x) \/ x = e
  <2>1. Contains(t, x) <=> \E i \in 1 .. Len(s) + 1 : t[i] = x
    BY <1>2 DEF Contains
  <2>2. (\E i \in 1 .. Len(s) + 1 : t[i] = x)
          <=> (\E i \in 1 .. Len(s) : t[i] = x) \/ t[Len(s) + 1] = x
    BY <1>2
  <2>3. (\E i \in 1 .. Len(s) : t[i] = x) <=> Contains(s, x)
    BY <1>2 DEF Contains
  <2> QED
    BY <1>2, <2>1, <2>2, <2>3
<1>4. ASSUME IsInjective(s), ~Contains(s, e) PROVE IsInjective(t)
  <2>1. \A i, j \in 1 .. Len(s) : s[i] = s[j] => i = j
    BY <1>2, <1>4 DEF IsInjective
  <2>2. \A i \in 1 .. Len(s) : s[i] # e
    BY <1>4 DEF Contains
  <2>3. \A i, j \in 1 .. Len(s) + 1 : t[i] = t[j] => i = j
    BY <1>2, <2>1, <2>2
  <2> QED
    BY <1>2, <2>3 DEF IsInjective
<1> QED
  BY <1>1, <1>2, <1>3, <1>4

-----------------------------------------------------------------------------
(* The ranks.                                                               *)

\* The dependencies of a node that were not emitted.
Waiting(n) == {d \in Nodes : DependsOn(n, d) /\ ~Contains(order, d)}

RankType ==
    /\ IsGraph(graph)
    /\ pending \in [Nodes -> Nat]
    /\ ready \in Seq(Nodes) /\ order \in Seq(Nodes)

\* A node counts the dependencies it still waits for.
Counted == \A n \in Nodes : pending[n] = Cardinality(Waiting(n))

\* The queue has the nodes that wait for nothing, each once.
Queued ==
    /\ IsInjective(ready) /\ IsInjective(order)
    /\ \A n \in Nodes : Contains(ready, n) <=> pending[n] = 0 /\ ~Contains(order, n)

\* What was emitted comes after what it depends on.
Listed ==
    \A j \in 1 .. Len(order) : \A d \in Nodes :
        DependsOn(order[j], d) => \E i \in 1 .. j - 1 : order[i] = d

\* The search has found no cycle: the nodes can be ranked.
Ranked ==
    \E rank \in [Nodes -> Nat] :
        \A n, d \in Nodes : DependsOn(n, d) => rank[d] < rank[n]

Ranking == RankType /\ Counted /\ Queued /\ Listed /\ Ranked

RankInv ==
    /\ task = "search" => IsGraph(graph) /\ order = <<>>
    /\ task = "ranks" => Ranking
    /\ OrderIsTopological

LEMMA GraphIs ==
    ASSUME IsGraph(graph)
    PROVE  /\ graph.dependencies \in Seq(Seq(Nodes)) /\ graph.dependents \in Seq(Seq(Nodes))
           /\ Nodes = 1 .. Len(graph.dependencies) /\ Nodes \subseteq Nat
           /\ IsFiniteSet(Nodes)
           /\ \A n \in Nodes : /\ Deps(n) \in Seq(Nodes) /\ graph.dependents[n] \in Seq(Nodes)
                               /\ IsInjective(Deps(n)) /\ IsInjective(graph.dependents[n])
                               /\ \A d \in Nodes :
                                    DependsOn(n, d) <=> Contains(graph.dependents[d], n)
           /\ \A n, d : n \in Nodes /\ DependsOn(n, d) => d \in Nodes
<1>1. graph.dependencies \in Seq(Seq(Nodes)) /\ graph.dependents \in Seq(Seq(Nodes))
  BY DEF IsGraph, Nodes
<1>2. Nodes = 1 .. Len(graph.dependencies) /\ Len(graph.dependencies) \in Nat
      /\ DOMAIN graph.dependents = Nodes
  BY <1>1 DEF Nodes, IsGraph
<1>3. IsFiniteSet(Nodes) /\ Nodes \subseteq Nat
  BY <1>2, FS_Interval
<1>4. ASSUME NEW n \in Nodes
      PROVE  Deps(n) \in Seq(Nodes) /\ graph.dependents[n] \in Seq(Nodes)
  BY <1>1, <1>2, <1>4, SMTT(20) DEF Deps
<1>5. ASSUME NEW n \in Nodes
      PROVE  /\ IsInjective(Deps(n)) /\ IsInjective(graph.dependents[n])
             /\ \A d \in Nodes : DependsOn(n, d) <=> Contains(graph.dependents[d], n)
  BY <1>5 DEF IsGraph, Deps, DependsOn, Nodes
<1>6. ASSUME NEW n \in Nodes, NEW d, DependsOn(n, d) PROVE d \in Nodes
  BY <1>4, <1>6 DEF DependsOn, Contains, Deps
<1> QED
  BY <1>1, <1>2, <1>3, <1>4, <1>5, <1>6

\* A node has as many dependencies as its list is long.
LEMMA ManyDependencies ==
    ASSUME IsGraph(graph), NEW n \in Nodes
    PROVE  /\ IsFiniteSet({d \in Nodes : DependsOn(n, d)})
           /\ Cardinality({d \in Nodes : DependsOn(n, d)}) = Len(Deps(n))
<1>1. PICK D : D = {d \in Nodes : DependsOn(n, d)}
  OBVIOUS
<1>2. Deps(n) \in Seq(Nodes) /\ IsInjective(Deps(n)) /\ Len(Deps(n)) \in Nat
      /\ DOMAIN Deps(n) = 1 .. Len(Deps(n))
  BY GraphIs
<1>3. \A k \in 1 .. Len(Deps(n)) : Deps(n)[k] \in D
  BY <1>1, <1>2 DEF DependsOn, Contains, Deps
<1>4. \A d \in D : \E k \in 1 .. Len(Deps(n)) : Deps(n)[k] = d
  BY <1>1 DEF DependsOn, Contains, Deps
<1>5. Deps(n) \in [1 .. Len(Deps(n)) -> D]
  BY <1>2, <1>3
<1>6. Deps(n) \in Injection(1 .. Len(Deps(n)), D)
  BY <1>2, <1>5 DEF Injection
<1>7. Deps(n) \in Surjection(1 .. Len(Deps(n)), D)
  BY <1>4, <1>5 DEF Surjection
<1>8. IsFiniteSet(1 .. Len(Deps(n))) /\ Cardinality(1 .. Len(Deps(n))) = Len(Deps(n))
  BY <1>2, FS_Interval, SMTT(20)
<1>9. IsFiniteSet(D) /\ Cardinality(D) = Len(Deps(n))
  BY <1>6, <1>7, <1>8, FS_Surjection
<1> QED
  BY <1>1, <1>9

\* A search that found no cycle leaves an order that ranks the nodes.
LEMMA SearchEndsStep ==
    ASSUME Searching, IsGraph(graph), order = <<>>, SearchEnds PROVE Ranking'
<1>1. /\ graph' = graph /\ Nodes' = Nodes /\ order' = <<>>
      /\ (\A n : Deps(n)' = Deps(n)) /\ (\A n, d : DependsOn(n, d)' <=> DependsOn(n, d))
      /\ pending' = [n \in Nodes |-> Len(Deps(n))]
      /\ ready' = Filtered([n \in Nodes |-> n], {n \in Nodes : Deps(n) = <<>>})
  BY DEF SearchEnds, Nodes, Deps, DependsOn
<1>2. PICK all : all = [n \in Nodes |-> n]
  OBVIOUS
<1>3. all \in Seq(Nodes) /\ IsInjective(all) /\ \A n : Contains(all, n) <=> n \in Nodes
  <2>1. Nodes = 1 .. Len(graph.dependencies) /\ Len(graph.dependencies) \in Nat
    BY GraphIs
  <2>2. all \in Seq(Nodes) /\ Len(all) = Len(graph.dependencies)
    BY <1>2, <2>1
  <2> QED
    BY <1>2, <2>1, <2>2 DEF Contains, IsInjective
<1>4. /\ ready' \in Seq(Nodes) /\ IsInjective(ready')
      /\ \A n : Contains(ready', n) <=> n \in Nodes /\ Deps(n) = <<>>
  <2>1. PICK S : S = {n \in Nodes : Deps(n) = <<>>}
    OBVIOUS
  <2>2. ready' = Filtered(all, S)
    BY <1>1, <1>2, <2>1
  <2> QED
    BY <1>3, <2>1, <2>2, FilteredElements
<1>5. RankType'
  <2>1. IsGraph(graph)'
    BY <1>1 DEF IsGraph
  <2>2. \A n \in Nodes : Len(Deps(n)) \in Nat
    BY GraphIs
  <2> QED
    BY <1>1, <1>4, <2>1, <2>2 DEF RankType
<1>6. \A n : Waiting(n)' = {d \in Nodes : DependsOn(n, d)}
  BY <1>1 DEF Waiting, Contains
<1>7. Counted'
  <2>1. ASSUME NEW n \in Nodes PROVE pending'[n] = Cardinality(Waiting(n)')
    BY <1>1, <1>6, ManyDependencies
  <2> QED
    BY <1>1, <2>1 DEF Counted
<1>8. Queued'
  <2>1. IsInjective(order')
    BY <1>1 DEF IsInjective
  <2>2. \A n \in Nodes : pending'[n] = 0 <=> Deps(n) = <<>>
    <3>1. \A n \in Nodes : Deps(n) \in Seq(Nodes)
      BY GraphIs
    <3> QED
      BY <1>1, <3>1
  <2>3. \A n \in Nodes : Contains(ready', n) <=> pending'[n] = 0 /\ ~Contains(order', n)
    <3>1. \A n : ~Contains(order', n)
      BY <1>1 DEF Contains
    <3> QED
      BY <1>1, <1>4, <2>2, <3>1
  <2> QED
    BY <1>1, <1>4, <2>1, <2>3 DEF Queued
<1>9. Listed'
  BY <1>1 DEF Listed
<1>10. Ranked
  <2>1. \A n \in Nodes : visit[n] = "done"
    <3>1. path = <<>> /\ \A n \in Nodes : visit[n] # "unvisited"
      BY DEF SearchEnds
    <3>2. \A n \in Nodes : visit[n] \in Status /\ visit[n] # "onPath"
      <4>1. \A n \in Nodes : visit[n] \in Status
        BY DEF Searching, SearchType
      <4>2. Len(path) = 0
        BY <3>1
      <4>3. \A n \in Nodes : visit[n] = "onPath" => depth[n] \in 1 .. 0
        BY <4>2 DEF Searching, OnPath
      <4> QED
        BY <4>1, <4>3
    <3> QED
      BY <3>1, <3>2 DEF Status
  <2>2. \A n \in Nodes : \E i \in 1 .. Len(postOrder) : postOrder[i] = n
    BY <2>1 DEF Searching, Emitted
  <2>3. PICK rank : rank = [n \in Nodes |-> CHOOSE i \in 1 .. Len(postOrder) : postOrder[i] = n]
    OBVIOUS
  <2>4. \A n \in Nodes : rank[n] \in 1 .. Len(postOrder) /\ postOrder[rank[n]] = n
    BY <2>2, <2>3
  <2>5. rank \in [Nodes -> Nat]
    <3>1. \A n \in Nodes : rank[n] \in Nat
      BY <2>4
    <3> QED
      BY <2>3, <3>1
  <2>6. ASSUME NEW n \in Nodes, NEW d \in Nodes, DependsOn(n, d) PROVE rank[d] < rank[n]
    <3>1. PICK k \in 1 .. Len(Deps(n)) : Deps(n)[k] = d
      BY <2>6 DEF DependsOn, Contains, Deps
    <3>2. PICK i \in 1 .. rank[n] - 1 : postOrder[i] = d
      <4>1. rank[n] \in 1 .. Len(postOrder) /\ postOrder[rank[n]] = n
        BY <2>4
      <4> QED
        BY <3>1, <4>1 DEF Searching, Emitted
    <3>3. i \in 1 .. Len(postOrder) /\ i < rank[n]
      BY <2>4, <3>2
    <3>4. rank[d] = i
      BY <2>4, <3>2, <3>3 DEF Searching, Emitted
    <3> QED
      BY <3>3, <3>4
  <2> QED
    BY <2>5, <2>6 DEF Ranked
<1>11. Ranked'
  BY <1>1, <1>10 DEF Ranked
<1> QED
  BY <1>5, <1>7, <1>8, <1>9, <1>11 DEF Ranking

\* Emitting the first of the queue and releasing its dependents keeps the counts.
LEMMA EmitReadyStep ==
    ASSUME Ranking, EmitReady PROVE Ranking'
<1>1. PICK node, released : node = Head(ready) /\ released = graph.dependents[node]
  OBVIOUS
<1>2. /\ ready # <<>> /\ graph' = graph /\ Nodes' = Nodes
      /\ (\A n : Deps(n)' = Deps(n)) /\ (\A n, d : DependsOn(n, d)' <=> DependsOn(n, d))
      /\ order' = Append(order, node)
      /\ pending' = [n \in Nodes |-> IF Contains(released, n) /\ pending[n] > 0
                                     THEN pending[n] - 1 ELSE pending[n]]
      /\ ready' = Tail(ready) \o Filtered(released, {n \in Nodes : pending'[n] = 0})
  BY <1>1 DEF EmitReady, Nodes, Deps, DependsOn
<1>3. /\ IsGraph(graph) /\ pending \in [Nodes -> Nat] /\ ready \in Seq(Nodes)
      /\ order \in Seq(Nodes) /\ IsInjective(ready) /\ IsInjective(order)
      /\ \A n \in Nodes : Contains(ready, n) <=> pending[n] = 0 /\ ~Contains(order, n)
  BY DEF Ranking, RankType, Queued
<1>4. /\ node \in Nodes /\ Contains(ready, node) /\ Tail(ready) \in Seq(Nodes)
      /\ IsInjective(Tail(ready))
      /\ \A n : Contains(Tail(ready), n) <=> Contains(ready, n) /\ n # node
  BY <1>1, <1>2, <1>3, TailOf
<1>5. pending[node] = 0 /\ ~Contains(order, node)
  BY <1>3, <1>4
<1>6. /\ order' \in Seq(Nodes) /\ Len(order') = Len(order) + 1 /\ Len(order) \in Nat
      /\ \A i \in 1 .. Len(order) : order'[i] = order[i]
      /\ order'[Len(order) + 1] = node
      /\ \A n : Contains(order', n) <=> Contains(order, n) \/ n = node
      /\ IsInjective(order')
  BY <1>2, <1>3, <1>4, <1>5, AppendedTo
<1>7. /\ released \in Seq(Nodes) /\ IsInjective(released)
      /\ \A n \in Nodes : Contains(released, n) <=> DependsOn(n, node)
      /\ IsFiniteSet(Nodes)
  BY <1>1, <1>3, <1>4, GraphIs
<1>8. ASSUME NEW n \in Nodes
      PROVE  /\ IsFiniteSet(Waiting(n)) /\ Cardinality(Waiting(n)) \in Nat
             /\ pending[n] = Cardinality(Waiting(n))
             /\ pending[n] = 0 <=> Waiting(n) = {}
  <2>1. Waiting(n) \in SUBSET Nodes
    BY DEF Waiting
  <2>2. IsFiniteSet(Waiting(n))
    BY <1>7, <2>1, FS_Subset
  <2>3. Cardinality(Waiting(n)) \in Nat
    BY <2>2, FS_CardinalityType
  <2>4. Cardinality(Waiting(n)) = 0 <=> Waiting(n) = {}
    BY <2>2, FS_EmptySet
  <2>5. pending[n] = Cardinality(Waiting(n))
    BY DEF Ranking, Counted
  <2> QED
    BY <2>2, <2>3, <2>4, <2>5
\* Everything the node depends on was emitted.
<1>9. \A d \in Nodes : DependsOn(node, d) => Contains(order, d)
  BY <1>4, <1>5, <1>8 DEF Waiting
\* A dependent waits for the node, and was therefore neither queued nor emitted.
<1>10. ASSUME NEW n \in Nodes, DependsOn(n, node)
       PROVE  pending[n] > 0 /\ n # node /\ ~Contains(order, n) /\ ~Contains(ready, n)
  <2>1. node \in Waiting(n)
    BY <1>4, <1>5, <1>10 DEF Waiting
  <2>2. pending[n] # 0
    BY <1>8, <2>1
  <2>3. ~Contains(order, n)
    <3> SUFFICES ASSUME NEW j \in 1 .. Len(order), order[j] = n PROVE FALSE
      BY DEF Contains
    <3>1. PICK i \in 1 .. j - 1 : order[i] = node
      BY <1>4, <1>10 DEF Ranking, Listed
    <3>2. i \in 1 .. Len(order)
      BY <1>6, <3>1
    <3> QED
      BY <1>5, <3>1, <3>2 DEF Contains
  <2> QED
    BY <1>3, <1>5, <2>2, <2>3
<1>11. \A n \in Nodes : pending'[n] = IF DependsOn(n, node) THEN pending[n] - 1 ELSE pending[n]
  BY <1>2, <1>7, <1>10
<1>12. pending' \in [Nodes -> Nat]
  <2>1. ASSUME NEW n \in Nodes PROVE pending'[n] \in Nat
    <3>1. CASE DependsOn(n, node)
      BY <1>3, <1>10, <1>11, <3>1
    <3>2. CASE ~DependsOn(n, node)
      BY <1>3, <1>11, <3>2
    <3> QED
      BY <3>1, <3>2
  <2> QED
    BY <1>2, <2>1
<1>13. PICK opened : opened = Filtered(released, {n \in Nodes : pending'[n] = 0})
  OBVIOUS
<1>14. /\ opened \in Seq(Nodes) /\ IsInjective(opened)
       /\ \A n : Contains(opened, n) <=> n \in Nodes /\ DependsOn(n, node) /\ pending'[n] = 0
  <2>1. PICK S : S = {n \in Nodes : pending'[n] = 0}
    OBVIOUS
  <2>2. /\ opened \in Seq(Nodes) /\ IsInjective(opened)
        /\ \A n : Contains(opened, n) <=> Contains(released, n) /\ n \in S
    BY <1>7, <1>13, <2>1, FilteredElements
  <2>3. \A n : n \in S <=> n \in Nodes /\ pending'[n] = 0
    BY <2>1
  <2> QED
    BY <1>7, <2>2, <2>3
<1>15. /\ ready' \in Seq(Nodes) /\ IsInjective(ready')
       /\ \A n : Contains(ready', n) <=> Contains(Tail(ready), n) \/ Contains(opened, n)
  <2>1. \A n : ~(Contains(Tail(ready), n) /\ Contains(opened, n))
    BY <1>4, <1>10, <1>14
  <2>2. ready' = Tail(ready) \o opened
    BY <1>2, <1>13
  <2> QED
    BY <1>4, <1>14, <2>1, <2>2, Joined
<1>16. RankType'
  <2>1. IsGraph(graph)'
    BY <1>2, <1>3 DEF IsGraph
  <2> QED
    BY <1>2, <1>6, <1>12, <1>15, <2>1 DEF RankType
<1>17. Counted'
  <2> SUFFICES ASSUME NEW n \in Nodes PROVE pending'[n] = Cardinality(Waiting(n)')
    BY <1>2 DEF Counted
  <2>1. Waiting(n)' = Waiting(n) \ {node}
    BY <1>2, <1>6 DEF Waiting
  <2>2. node \in Waiting(n) <=> DependsOn(n, node)
    BY <1>4, <1>5 DEF Waiting
  <2>3. Cardinality(Waiting(n) \ {node}) =
          IF node \in Waiting(n) THEN Cardinality(Waiting(n)) - 1 ELSE Cardinality(Waiting(n))
    BY <1>8, FS_RemoveElement
  <2> QED
    BY <1>8, <1>11, <2>1, <2>2, <2>3
<1>18. Queued'
  <2> SUFFICES ASSUME NEW n \in Nodes
               PROVE  Contains(ready', n) <=> pending'[n] = 0 /\ ~Contains(order', n)
    BY <1>2, <1>6, <1>15 DEF Queued
  <2>1. CASE DependsOn(n, node)
    BY <1>4, <1>6, <1>10, <1>14, <1>15, <2>1
  <2>2. CASE ~DependsOn(n, node)
    BY <1>3, <1>4, <1>6, <1>11, <1>14, <1>15, <2>2
  <2> QED
    BY <2>1, <2>2
<1>19. Listed'
  <2> SUFFICES ASSUME NEW j \in 1 .. Len(order'), NEW d \in Nodes, DependsOn(order'[j], d)
               PROVE  \E i \in 1 .. j - 1 : order'[i] = d
    BY <1>2 DEF Listed
  <2>1. CASE j \in 1 .. Len(order)
    <3>1. PICK i \in 1 .. j - 1 : order[i] = d
      BY <1>6, <2>1 DEF Ranking, Listed
    <3>2. i \in 1 .. Len(order)
      BY <1>6, <2>1, <3>1
    <3> QED
      BY <1>6, <3>1, <3>2
  <2>2. CASE j = Len(order) + 1
    <3>1. Contains(order, d)
      BY <1>6, <1>9, <2>2
    <3>2. PICK i \in 1 .. Len(order) : order[i] = d
      BY <3>1 DEF Contains
    <3> QED
      BY <1>6, <2>2, <3>2
  <2> QED
    BY <1>6, <2>1, <2>2
<1>20. Ranked'
  BY <1>2 DEF Ranking, Ranked
<1> QED
  BY <1>16, <1>17, <1>18, <1>19, <1>20 DEF Ranking

\* When the queue is empty everything was emitted: a node of least rank among the others
\* would wait for nothing.
LEMMA RanksEndStep ==
    ASSUME Ranking, ready = <<>>
    PROVE  DependenciesFirst(order) /\ ToSet(order) = Nodes
<1>1. /\ IsGraph(graph) /\ order \in Seq(Nodes) /\ IsInjective(order)
      /\ \A n \in Nodes : Contains(ready, n) <=> pending[n] = 0 /\ ~Contains(order, n)
      /\ DOMAIN order = 1 .. Len(order) /\ Len(order) \in Nat
  BY DEF Ranking, RankType, Queued
<1>2. PICK rank \in [Nodes -> Nat] : \A n, d \in Nodes : DependsOn(n, d) => rank[d] < rank[n]
  BY DEF Ranking, Ranked
<1>3. \A n \in Nodes : Contains(order, n)
  <2> SUFFICES ASSUME NEW m \in Nodes, ~Contains(order, m) PROVE FALSE
    OBVIOUS
  <2>1. PICK S : S = {rank[n] : n \in {k \in Nodes : ~Contains(order, k)}}
    OBVIOUS
  <2>2. S \subseteq Nat /\ S # {}
    <3>1. rank[m] \in S
      BY <2>1
    <3>2. \A r \in S : r \in Nat
      BY <1>2, <2>1
    <3> QED
      BY <3>1, <3>2
  <2>3. PICK r \in S : \A s \in S : r <= s
    BY <2>2, LeastOf
  <2>4. PICK n \in Nodes : ~Contains(order, n) /\ rank[n] = r
    BY <2>1, <2>3
  <2>5. Waiting(n) = {}
    <3> SUFFICES ASSUME NEW d \in Nodes, DependsOn(n, d), ~Contains(order, d) PROVE FALSE
      BY DEF Waiting
    <3>1. rank[d] < rank[n]
      BY <1>2, <2>4
    <3>2. rank[d] \in S /\ rank[n] \in Nat /\ rank[d] \in Nat
      BY <1>2, <2>1
    <3> QED
      BY <2>3, <2>4, <3>1, <3>2
  <2>6. pending[n] = 0
    BY <2>5, FS_EmptySet DEF Ranking, Counted
  <2>7. ~Contains(ready, n)
    BY DEF Contains
  <2> QED
    BY <1>1, <2>4, <2>6, <2>7
<1>4. ToSet(order) = Nodes
  <2>1. \A n \in Nodes : \E i \in 1 .. Len(order) : order[i] = n
    BY <1>3 DEF Contains
  <2>2. \A i \in 1 .. Len(order) : order[i] \in Nodes
    BY <1>1
  <2> QED
    BY <1>1, <2>1, <2>2 DEF ToSet
<1>5. DependenciesFirst(order)
  <2>1. ASSUME NEW j \in 1 .. Len(order), NEW i \in 1 .. j - 1 PROVE order[i] # order[j]
    <3>1. i \in 1 .. Len(order) /\ i # j
      BY <1>1, <2>1
    <3> QED
      BY <1>1, <2>1, <3>1 DEF IsInjective
  <2> QED
    BY <1>1, <2>1 DEF Ranking, Listed, DependenciesFirst
<1> QED
  BY <1>4, <1>5

LEMMA NextRankInv == IInv /\ RankInv /\ [GraphStep \/ Call]_graphVars => RankInv'
<1> SUFFICES ASSUME IInv, RankInv, [GraphStep \/ Call]_graphVars PROVE RankInv'
  OBVIOUS
<1>1. CASE VisitRoot \/ VisitDependency \/ LeaveNode
  <2>1. task = "search" /\ graph' = graph /\ order' = order /\ task' \in {"search", "cyclic"}
    BY <1>1 DEF VisitRoot, VisitDependency, LeaveNode, rankVars
  <2>2. IsGraph(graph)'
    BY <2>1 DEF RankInv, IsGraph
  <2> QED
    BY <2>1, <2>2 DEF RankInv, OrderIsTopological
<1>2. CASE SearchEnds
  <2>1. task = "search" /\ task' = "ranks"
    BY <1>2 DEF SearchEnds
  <2>2. Ranking'
    BY <1>2, <2>1, SearchEndsStep DEF IInv, RankInv
  <2> QED
    BY <2>1, <2>2 DEF RankInv, OrderIsTopological
<1>3. CASE EmitReady
  <2>1. task = "ranks" /\ task' = "ranks"
    BY <1>3 DEF EmitReady
  <2>2. Ranking'
    BY <1>3, <2>1, EmitReadyStep DEF RankInv
  <2> QED
    BY <2>1, <2>2 DEF RankInv, OrderIsTopological
<1>4. CASE RanksEnd
  <2>1. task = "ranks" /\ task' = "ordered" /\ ready = <<>> /\ order' = order /\ graph' = graph
    BY <1>4 DEF RanksEnd
  <2>2. DependenciesFirst(order) /\ ToSet(order) = Nodes
    BY <2>1, RanksEndStep DEF RankInv
  <2>3. DependenciesFirst(order)' /\ ToSet(order)' = Nodes'
    BY <2>1, <2>2 DEF DependenciesFirst, DependsOn, Nodes
  <2> QED
    BY <2>1, <2>3 DEF RankInv, OrderIsTopological
<1>5. CASE EnterRoot \/ FollowDependency \/ CloseNode \/ ComponentsEnd
  <2>1. task' \in {"components", "found"}
    BY <1>5 DEF EnterRoot, FollowDependency, CloseNode, ComponentsEnd
  <2> QED
    BY <2>1 DEF RankInv, OrderIsTopological
<1>6. CASE Call
  <2>1. CASE IntoTopoOrder(graph')
    <3>1. task' = "search" /\ order' = <<>> /\ IsGraph(graph')
      BY <1>6, <2>1 DEF Call, IntoTopoOrder
    <3> QED
      BY <3>1 DEF RankInv, OrderIsTopological
  <2>2. CASE CyclicComponents(graph')
    BY <2>2 DEF CyclicComponents, RankInv, OrderIsTopological
  <2> QED
    BY <1>6, <2>1, <2>2 DEF Call
<1>7. CASE UNCHANGED graphVars
  <2>1. /\ task' = task /\ graph' = graph /\ order' = order /\ pending' = pending
        /\ ready' = ready
    BY <1>7 DEF graphVars, rankVars
  <2>2. Ranking => Ranking'
    <3>1. RankType => RankType'
      BY <2>1 DEF RankType, IsGraph, Nodes
    <3>2. \A n : Waiting(n)' = Waiting(n)
      BY <2>1 DEF Waiting, Nodes, DependsOn
    <3>3. Counted /\ Queued => Counted' /\ Queued'
      BY <2>1, <3>2 DEF Counted, Queued, Nodes
    <3>4. Listed /\ Ranked => Listed' /\ Ranked'
      BY <2>1 DEF Listed, Ranked, Nodes, DependsOn
    <3> QED
      BY <3>1, <3>3, <3>4 DEF Ranking
  <2>3. OrderIsTopological'
    BY <2>1 DEF RankInv, OrderIsTopological, DependenciesFirst, DependsOn, Nodes
  <2>4. IsGraph(graph) => IsGraph(graph)'
    BY <2>1 DEF IsGraph
  <2> QED
    BY <2>1, <2>2, <2>3, <2>4 DEF RankInv
<1> QED
  BY <1>1, <1>2, <1>3, <1>4, <1>5, <1>6, <1>7 DEF GraphStep

\* into_topo_order of a graph without a cycle has every node, after all its dependencies.
THEOREM OrderIsTopologicalTheorem == GraphSpec => []OrderIsTopological
<1>1. GraphIdle => RankInv
  BY DEF GraphIdle, RankInv, OrderIsTopological
<1>2. RankInv => OrderIsTopological
  BY DEF RankInv
<1> QED
  BY <1>1, <1>2, Invariance, NextRankInv, PTL DEF GraphSpec

\* Reachability is reflexive and transitive, follows the edges, and leaves no closed set.
LEMMA ReachableFacts ==
    ASSUME IsGraph(graph)
    PROVE  /\ \A a \in Nodes : Reachable(a, a)
           /\ \A a, b \in Nodes : DependsOn(a, b) => Reachable(a, b)
           /\ \A a, b, c \in Nodes : Reachable(a, b) /\ Reachable(b, c) => Reachable(a, c)
           /\ \A T, a, b : T \subseteq Nodes /\ Closed(T) /\ a \in T /\ Reachable(a, b)
                => b \in T
<1>1. \A a \in Nodes : Reachable(a, a)
  BY DEF Reachable
<1>2. ASSUME NEW a \in Nodes, NEW b \in Nodes, DependsOn(a, b) PROVE Reachable(a, b)
  BY <1>2 DEF Reachable, Closed
<1>3. ASSUME NEW a \in Nodes, NEW b \in Nodes, NEW c \in Nodes, Reachable(a, b), Reachable(b, c)
      PROVE  Reachable(a, c)
  BY <1>3 DEF Reachable
<1>4. ASSUME NEW T, NEW a, NEW b, T \subseteq Nodes, Closed(T), a \in T, Reachable(a, b)
      PROVE  b \in T
  BY <1>4 DEF Reachable
<1> QED
  BY <1>1, <1>2, <1>3, <1>4

-----------------------------------------------------------------------------
(* The components.                                                          *)

OnStack(n) == Contains(stack, n)
NodeAt(i) == path[i].node
OpenNode(n) == \E i \in 1 .. Len(path) : NodeAt(i) = n

\* Nodes of the components that were closed.
Gone(n) == n \in Nodes /\ index[n] # 0 /\ ~OnStack(n)

ComponentType ==
    /\ IsGraph(graph)
    /\ path \in Seq(FrameType) /\ stack \in Seq(Nodes)
    /\ index \in [Nodes -> Nat] /\ lowLink \in [Nodes -> Nat]
    /\ components \in Seq(SUBSET Nodes)

\* Indices are counted up, and rise along the stack and along the path, which lies on it.
Numbered ==
    /\ \A n \in Nodes : index[n] < NextIndex
    /\ \A i \in 1 .. Len(stack) : index[stack[i]] # 0
    /\ \A i, j \in 1 .. Len(stack) : i < j => index[stack[i]] < index[stack[j]]
    /\ \A i \in 1 .. Len(path) : OnStack(NodeAt(i))
    /\ \A i, j \in 1 .. Len(path) : i < j => index[NodeAt(i)] < index[NodeAt(j)]

\* What was tried was entered, and what a closed component depends on is closed.
Explored ==
    /\ \A i \in 1 .. Len(path) : \A k \in 1 .. Len(Deps(NodeAt(i))) :
         k < path[i].cursor => index[Deps(NodeAt(i))[k]] # 0
    /\ \A n, d \in Nodes :
         index[n] # 0 /\ ~OpenNode(n) /\ DependsOn(n, d) => index[d] # 0
    /\ \A n, d \in Nodes : Gone(n) /\ DependsOn(n, d) => Gone(d)

\* The path reaches the stack above it, and the stack reaches the path below it.
Connected ==
    /\ \A i \in 1 .. Len(path), n \in Nodes :
         OnStack(n) /\ index[NodeAt(i)] <= index[n] => Reachable(NodeAt(i), n)
    /\ \A n \in Nodes : OnStack(n) =>
         \E i \in 1 .. Len(path) : index[NodeAt(i)] <= index[n] /\ Reachable(n, NodeAt(i))

\* A low link is the index of a node on the stack that can be reached ...
LowReached ==
    \A i \in 1 .. Len(path) :
        /\ lowLink[NodeAt(i)] <= index[NodeAt(i)]
        /\ \E m \in Nodes : /\ OnStack(m) /\ index[m] = lowLink[NodeAt(i)]
                            /\ Reachable(NodeAt(i), m)

\* ... and no edge tried by the node, or by what was left between it and the next node of
\* the path, leads further down.
LowBounds ==
    /\ \A i \in 1 .. Len(path) : \A k \in 1 .. Len(Deps(NodeAt(i))) :
         /\ k < path[i].cursor /\ (i < Len(path) => k < path[i].cursor - 1)
         /\ OnStack(Deps(NodeAt(i))[k])
         => lowLink[NodeAt(i)] <= index[Deps(NodeAt(i))[k]]
    /\ \A i \in 1 .. Len(path), n, d \in Nodes :
         /\ OnStack(n) /\ ~OpenNode(n) /\ DependsOn(n, d) /\ OnStack(d)
         /\ index[NodeAt(i)] <= index[n] /\ (i < Len(path) => index[n] < index[NodeAt(i + 1)])
         => lowLink[NodeAt(i)] <= index[d]

\* The components found are the classes of their members, and have all the nodes gone.
Classes ==
    /\ \A i \in 1 .. Len(components) : components[i] # {}
    /\ \A i \in 1 .. Len(components) : \A n \in components[i] :
         Gone(n) /\ components[i] = MutuallyReachable(n)
    /\ \A n \in Nodes : Gone(n) => \E i \in 1 .. Len(components) : n \in components[i]

Finding ==
    /\ ComponentType /\ Numbered /\ Linked /\ Explored /\ Connected
    /\ LowReached /\ LowBounds /\ Classes

ComponentInv == (task = "components" => Finding) /\ ComponentsExact

\* The topmost frame, its next edge, and the paths that have moved on or popped it.
LEMMA TopFrame ==
    ASSUME ComponentType, path # <<>>
    PROVE  /\ Len(path) \in Nat \ {0} /\ Top = path[Len(path)] /\ Top.node = NodeAt(Len(path))
           /\ Top.node \in Nodes /\ Top.cursor \in Nat \ {0}
           /\ Deps(Top.node) \in Seq(Nodes)
           /\ HasEdge <=> Top.cursor <= Len(Deps(Top.node))
           /\ HasEdge => /\ Edge = Deps(Top.node)[Top.cursor] /\ Edge \in Nodes
                         /\ DependsOn(Top.node, Edge)
<1>1. Len(path) \in Nat \ {0} /\ Top \in FrameType
  BY DEF ComponentType, Top
<1>2. Top.node \in Nodes /\ Top.cursor \in Nat \ {0} /\ Top = path[Len(path)]
  BY <1>1 DEF FrameType, Top
<1>3. Deps(Top.node) \in Seq(Nodes)
  BY <1>2, GraphIs DEF ComponentType
<1>4. HasEdge <=> Top.cursor <= Len(Deps(Top.node))
  BY DEF HasEdge, Deps
<1>5. ASSUME HasEdge
      PROVE  /\ Edge = Deps(Top.node)[Top.cursor] /\ Edge \in Nodes
             /\ DependsOn(Top.node, Edge)
  BY <1>2, <1>3, <1>4, <1>5 DEF Edge, Deps, DependsOn, Contains
<1> QED
  BY <1>1, <1>2, <1>3, <1>4, <1>5 DEF NodeAt

LEMMA MovedOn ==
    ASSUME ComponentType, path # <<>>
    PROVE  /\ Advanced \in Seq(FrameType) /\ Len(Advanced) = Len(path)
           /\ \A i \in 1 .. Len(path) - 1 : Advanced[i] = path[i]
           /\ Advanced[Len(path)].node = Top.node
           /\ Advanced[Len(path)].cursor = Top.cursor + 1
           /\ \A i \in 1 .. Len(path) : Advanced[i].node = path[i].node
<1>1. path \in Seq(FrameType) /\ Len(path) \in Nat \ {0} /\ path[Len(path)] \in FrameType
  BY DEF ComponentType
<1>2. [path[Len(path)] EXCEPT !.cursor = @ + 1] \in FrameType
  BY <1>1 DEF FrameType
<1>3. Advanced = [path EXCEPT ![Len(path)] = [path[Len(path)] EXCEPT !.cursor = @ + 1]]
  BY <1>1 DEF Advanced
<1>4. /\ [path[Len(path)] EXCEPT !.cursor = @ + 1].node = Top.node
      /\ [path[Len(path)] EXCEPT !.cursor = @ + 1].cursor = Top.cursor + 1
  BY <1>1 DEF FrameType, Top
<1>5. /\ Advanced \in Seq(FrameType) /\ Len(Advanced) = Len(path)
      /\ \A i \in 1 .. Len(path) - 1 : Advanced[i] = path[i]
      /\ Advanced[Len(path)].node = Top.node
      /\ Advanced[Len(path)].cursor = Top.cursor + 1
  BY <1>1, <1>2, <1>3, <1>4
<1>6. \A i \in 1 .. Len(path) : Advanced[i].node = path[i].node
  BY <1>1, <1>5 DEF Top
<1> QED
  BY <1>5, <1>6

LEMMA PoppedIs ==
    ASSUME ComponentType, path # <<>>
    PROVE  /\ Popped \in Seq(FrameType) /\ Len(Popped) = Len(path) - 1
           /\ \A i \in 1 .. Len(path) - 1 : Popped[i] = path[i]
<1>1. PICK n : n = Len(path) - 1
  OBVIOUS
<1>2. n \in 0 .. Len(path) /\ Popped = SubSeq(path, 1, n) /\ path \in Seq(FrameType)
  BY <1>1 DEF ComponentType, Popped
<1>3. Popped = [i \in 1 .. n |-> path[i]]
  BY <1>2, SubSeqProperties
<1>4. \A i \in 1 .. n : path[i] \in FrameType /\ i \in 1 .. Len(path)
  BY <1>2
<1> QED
  BY <1>1, <1>2, <1>3, <1>4, SMTT(30)

\* What the invariant says of the nodes of the path and of the stack.
LEMMA OfPath ==
    ASSUME ComponentType, NEW i \in 1 .. Len(path)
    PROVE  /\ NodeAt(i) \in Nodes /\ path[i].cursor \in Nat \ {0} /\ OpenNode(NodeAt(i))
           /\ Deps(NodeAt(i)) \in Seq(Nodes)
           /\ \A k \in 1 .. Len(Deps(NodeAt(i))) :
                Deps(NodeAt(i))[k] \in Nodes /\ DependsOn(NodeAt(i), Deps(NodeAt(i))[k])
           /\ \A d \in Nodes : DependsOn(NodeAt(i), d) =>
                \E k \in 1 .. Len(Deps(NodeAt(i))) : Deps(NodeAt(i))[k] = d
<1>1. path[i] \in FrameType
  BY DEF ComponentType
<1>2. NodeAt(i) \in Nodes /\ path[i].cursor \in Nat \ {0}
  BY <1>1 DEF FrameType, NodeAt
<1>3. Deps(NodeAt(i)) \in Seq(Nodes)
  BY <1>2, GraphIs DEF ComponentType
<1>4. \A k \in 1 .. Len(Deps(NodeAt(i))) :
        Deps(NodeAt(i))[k] \in Nodes /\ DependsOn(NodeAt(i), Deps(NodeAt(i))[k])
  BY <1>3 DEF DependsOn, Contains, Deps
<1>5. \A d \in Nodes : DependsOn(NodeAt(i), d) =>
        \E k \in 1 .. Len(Deps(NodeAt(i))) : Deps(NodeAt(i))[k] = d
  BY DEF DependsOn, Contains, Deps
<1> QED
  BY <1>2, <1>3, <1>4, <1>5 DEF OpenNode

LEMMA OfStack ==
    ASSUME ComponentType, Numbered
    PROVE  /\ \A n : OnStack(n) => n \in Nodes /\ index[n] \in Nat \ {0}
           /\ \A n, m : OnStack(n) /\ OnStack(m) /\ index[n] = index[m] => n = m
           /\ \A i \in 1 .. Len(path) : index[NodeAt(i)] \in Nat \ {0}
           /\ \A i, j \in 1 .. Len(path) : NodeAt(i) = NodeAt(j) => i = j
           /\ \A n : OpenNode(n) => OnStack(n)
<1>1. \A i \in 1 .. Len(stack) : stack[i] \in Nodes /\ index[stack[i]] \in Nat \ {0}
  BY DEF ComponentType, Numbered
<1>2. \A n : OnStack(n) => n \in Nodes /\ index[n] \in Nat \ {0}
  BY <1>1 DEF OnStack, Contains
<1>3. ASSUME NEW n, NEW m, OnStack(n), OnStack(m), index[n] = index[m] PROVE n = m
  <2>1. PICK i, j \in 1 .. Len(stack) : stack[i] = n /\ stack[j] = m
    BY <1>3 DEF OnStack, Contains
  <2>2. ~(i < j) /\ ~(j < i)
    BY <1>1, <1>3, <2>1 DEF Numbered
  <2> QED
    BY <2>1, <2>2
<1>4. \A i \in 1 .. Len(path) : index[NodeAt(i)] \in Nat \ {0}
  BY <1>2 DEF Numbered
<1>5. ASSUME NEW i \in 1 .. Len(path), NEW j \in 1 .. Len(path), NodeAt(i) = NodeAt(j)
      PROVE  i = j
  <2>1. ~(i < j) /\ ~(j < i)
    BY <1>4, <1>5 DEF Numbered
  <2> QED
    BY <2>1
<1>6. \A n : OpenNode(n) => OnStack(n)
  BY DEF OpenNode, Numbered
<1> QED
  BY <1>2, <1>3, <1>4, <1>5, <1>6

\* What is said of the graph alone stays.
LEMMA GraphKept ==
    ASSUME graph' = graph
    PROVE  /\ Nodes' = Nodes /\ FrameType' = FrameType
           /\ IsGraph(graph)' <=> IsGraph(graph)
           /\ \A n : Deps(n)' = Deps(n)
           /\ \A n, d : DependsOn(n, d)' <=> DependsOn(n, d)
           /\ \A a, b : Reachable(a, b)' <=> Reachable(a, b)
           /\ \A n : MutuallyReachable(n)' = MutuallyReachable(n)
<1>1. Nodes' = Nodes /\ FrameType' = FrameType /\ (IsGraph(graph)' <=> IsGraph(graph))
  BY DEF Nodes, FrameType, IsGraph
<1>2. \A n : Deps(n)' = Deps(n)
  BY DEF Deps
<1>3. \A n, d : DependsOn(n, d)' <=> DependsOn(n, d)
  BY DEF DependsOn
<1>4. \A T : Closed(T)' <=> Closed(T)
  BY <1>1, <1>3 DEF Closed
<1>5. \A a, b : Reachable(a, b)' <=> Reachable(a, b)
  BY <1>1, <1>4 DEF Reachable
<1>6. \A n : MutuallyReachable(n)' = MutuallyReachable(n)
  BY <1>1, <1>5 DEF MutuallyReachable
<1> QED
  BY <1>1, <1>2, <1>3, <1>5, <1>6

\* How many nodes were entered.
LEMMA NextIndexIs ==
    ASSUME ComponentType
    PROVE  /\ NextIndex \in Nat \ {0}
           /\ \A n \in Nodes : index[n] = 0 /\ graph' = graph
                /\ index' = [index EXCEPT ![n] = NextIndex] => NextIndex' = NextIndex + 1
<1>1. PICK seen : seen = {n \in Nodes : index[n] # 0}
  OBVIOUS
<1>2. IsFiniteSet(seen) /\ Cardinality(seen) \in Nat
  <2>1. IsFiniteSet(Nodes) /\ seen \in SUBSET Nodes
    BY <1>1, GraphIs DEF ComponentType
  <2> QED
    BY <2>1, FS_Subset, FS_CardinalityType
<1>3. NextIndex = Cardinality(seen) + 1
  BY <1>1 DEF NextIndex
<1>4. ASSUME NEW n \in Nodes, index[n] = 0, graph' = graph,
             index' = [index EXCEPT ![n] = NextIndex]
      PROVE  NextIndex' = NextIndex + 1
  <2>1. \A m \in Nodes : index'[m] # 0 <=> m \in seen \/ m = n
    BY <1>1, <1>2, <1>3, <1>4 DEF ComponentType
  <2>2. {m \in Nodes' : index'[m] # 0} = seen \cup {n}
    BY <1>1, <1>4, <2>1, GraphKept
  <2>3. Cardinality(seen \cup {n}) = Cardinality(seen) + 1
    BY <1>1, <1>2, <1>4, FS_AddElement
  <2> QED
    BY <1>3, <2>2, <2>3 DEF NextIndex
<1> QED
  BY <1>2, <1>3, <1>4

\* Entering a node, from the root loop or along the edge just tried.
LEMMA EnterEffect ==
    ASSUME Finding, NEW node \in Nodes, index[node] = 0,
           NEW p \in Seq(FrameType), Len(p) = Len(path),
           \A i \in 1 .. Len(path) : p[i].node = path[i].node,
           EnterComponent(node, p), UNCHANGED <<graph, components>>
    PROVE  /\ ComponentType'
           /\ index'[node] = NextIndex /\ lowLink'[node] = NextIndex
           /\ \A n \in Nodes : n # node => index'[n] = index[n] /\ lowLink'[n] = lowLink[n]
           /\ \A n : OnStack(n)' <=> OnStack(n) \/ n = node
           /\ Len(stack') = Len(stack) + 1 /\ stack'[Len(stack) + 1] = node
           /\ \A i \in 1 .. Len(stack) : stack'[i] = stack[i]
           /\ Len(path') = Len(path) + 1
           /\ \A i \in 1 .. Len(path) : NodeAt(i)' = NodeAt(i) /\ path'[i] = p[i]
           /\ path'[Len(path) + 1].node = node /\ path'[Len(path) + 1].cursor = 1
           /\ \A n : OpenNode(n)' <=> OpenNode(n) \/ n = node
           /\ \A n : Gone(n)' <=> Gone(n)
           /\ NextIndex' = NextIndex + 1 /\ NextIndex \in Nat \ {0}
           /\ ~OnStack(node)
<1>1. /\ index' = [index EXCEPT ![node] = NextIndex]
      /\ lowLink' = [lowLink EXCEPT ![node] = NextIndex]
      /\ stack' = Append(stack, node) /\ path' = Append(p, Frame(node))
      /\ graph' = graph /\ components' = components
  BY DEF EnterComponent
<1>2. /\ path \in Seq(FrameType) /\ stack \in Seq(Nodes)
      /\ index \in [Nodes -> Nat] /\ lowLink \in [Nodes -> Nat]
      /\ components \in Seq(SUBSET Nodes) /\ IsGraph(graph) /\ ComponentType /\ Numbered
  BY DEF Finding, ComponentType
<1>3. NextIndex \in Nat \ {0} /\ NextIndex' = NextIndex + 1
  BY <1>1, <1>2, NextIndexIs
<1>4. Frame(node) \in FrameType /\ Frame(node).node = node /\ Frame(node).cursor = 1
  BY DEF FrameType, Frame
<1>5. /\ path' \in Seq(FrameType) /\ Len(path') = Len(path) + 1
      /\ \A i \in 1 .. Len(path) : path'[i] = p[i]
      /\ path'[Len(path) + 1] = Frame(node) /\ Len(path) \in Nat
  BY <1>1, <1>2, <1>4
<1>6. /\ stack' \in Seq(Nodes) /\ Len(stack') = Len(stack) + 1 /\ Len(stack) \in Nat
      /\ \A i \in 1 .. Len(stack) : stack'[i] = stack[i]
      /\ stack'[Len(stack) + 1] = node
      /\ \A n : Contains(stack', n) <=> Contains(stack, n) \/ n = node
  BY <1>1, <1>2, AppendedTo
<1>7. \A n : OnStack(n)' <=> OnStack(n) \/ n = node
  BY <1>6 DEF OnStack
<1>8. /\ index'[node] = NextIndex /\ lowLink'[node] = NextIndex
      /\ \A n \in Nodes : n # node => index'[n] = index[n] /\ lowLink'[n] = lowLink[n]
      /\ index' \in [Nodes -> Nat] /\ lowLink' \in [Nodes -> Nat]
  BY <1>1, <1>2, <1>3
<1>9. /\ \A i \in 1 .. Len(path) : NodeAt(i)' = NodeAt(i)
      /\ path'[Len(path) + 1].node = node /\ path'[Len(path) + 1].cursor = 1
  BY <1>4, <1>5 DEF NodeAt
<1>10. \A n : OpenNode(n)' <=> OpenNode(n) \/ n = node
  <2> SUFFICES ASSUME NEW n
               PROVE  (\E i \in 1 .. Len(path') : NodeAt(i)' = n)
                        <=> (\E i \in 1 .. Len(path) : NodeAt(i) = n) \/ n = node
    BY DEF OpenNode
  <2>1. (\E i \in 1 .. Len(path') : NodeAt(i)' = n)
          <=> (\E i \in 1 .. Len(path) : NodeAt(i)' = n) \/ path'[Len(path) + 1].node = n
    BY <1>5 DEF NodeAt
  <2> QED
    BY <1>9, <2>1
<1>11. ~OnStack(node)
  BY <1>2, OfStack
<1>12. ComponentType'
  BY <1>1, <1>2, <1>5, <1>6, <1>8, GraphKept DEF ComponentType
<1>13. \A n : Gone(n)' <=> Gone(n)
  <2>1. \A n \in Nodes : n # node => (Gone(n)' <=> Gone(n))
    BY <1>1, <1>7, <1>8, GraphKept DEF Gone
  <2>2. ~Gone(node) /\ ~Gone(node)'
    BY <1>7 DEF Gone
  <2>3. \A n : n \notin Nodes => ~Gone(n) /\ ~Gone(n)'
    BY <1>1, GraphKept DEF Gone
  <2> QED
    BY <2>1, <2>2, <2>3
<1> QED
  BY <1>3, <1>5, <1>6, <1>7, <1>8, <1>9, <1>10, <1>11, <1>12, <1>13

LEMMA EnterComponentStep ==
    ASSUME Finding, NEW node \in Nodes, index[node] = 0,
           NEW p \in Seq(FrameType), Len(p) = Len(path),
           \A i \in 1 .. Len(path) : p[i].node = path[i].node,
           \A i \in 1 .. Len(path) - 1 : p[i] = path[i],
           path # <<>> => /\ HasEdge /\ Edge = node
                          /\ p[Len(path)].cursor = Top.cursor + 1,
           EnterComponent(node, p), UNCHANGED <<graph, components>>
    PROVE  Finding'
<1>1. /\ ComponentType'
      /\ index'[node] = NextIndex /\ lowLink'[node] = NextIndex
      /\ \A n \in Nodes : n # node => index'[n] = index[n] /\ lowLink'[n] = lowLink[n]
      /\ \A n : OnStack(n)' <=> OnStack(n) \/ n = node
      /\ Len(stack') = Len(stack) + 1 /\ stack'[Len(stack) + 1] = node
      /\ \A i \in 1 .. Len(stack) : stack'[i] = stack[i]
      /\ Len(path') = Len(path) + 1
      /\ \A i \in 1 .. Len(path) : NodeAt(i)' = NodeAt(i) /\ path'[i] = p[i]
      /\ path'[Len(path) + 1].node = node /\ path'[Len(path) + 1].cursor = 1
      /\ \A n : OpenNode(n)' <=> OpenNode(n) \/ n = node
      /\ \A n : Gone(n)' <=> Gone(n)
      /\ NextIndex' = NextIndex + 1 /\ NextIndex \in Nat \ {0}
      /\ ~OnStack(node)
  BY EnterEffect
<1>2. /\ ComponentType /\ Numbered /\ IsGraph(graph) /\ graph' = graph
      /\ path \in Seq(FrameType) /\ stack \in Seq(Nodes) /\ index \in [Nodes -> Nat]
      /\ lowLink \in [Nodes -> Nat]
  BY DEF Finding, ComponentType
<1>3. /\ Nodes' = Nodes /\ (\A n : Deps(n)' = Deps(n))
      /\ (\A n, d : DependsOn(n, d)' <=> DependsOn(n, d))
      /\ (\A a, b : Reachable(a, b)' <=> Reachable(a, b))
      /\ (\A n : MutuallyReachable(n)' = MutuallyReachable(n))
  BY <1>2, GraphKept
<1>4. Len(path) \in Nat /\ Len(stack) \in Nat
  BY <1>2
\* The new place and the old ones.
<1>5. PICK last : last = Len(path) + 1
  OBVIOUS
<1>6. /\ NodeAt(last)' = node /\ path'[last].cursor = 1
      /\ \A i \in 1 .. Len(path') : i # last => i \in 1 .. Len(path)
      /\ \A i \in 1 .. Len(path) : i \in 1 .. Len(path') /\ i # last
      /\ last = Len(path') /\ last \in 1 .. Len(path')
  BY <1>1, <1>4, <1>5 DEF NodeAt
<1>7. \A i \in 1 .. Len(path) :
        /\ NodeAt(i) \in Nodes /\ NodeAt(i) # node /\ OnStack(NodeAt(i))
        /\ index'[NodeAt(i)] = index[NodeAt(i)] /\ lowLink'[NodeAt(i)] = lowLink[NodeAt(i)]
        /\ index[NodeAt(i)] \in Nat \ {0} /\ lowLink[NodeAt(i)] \in Nat
        /\ index[NodeAt(i)] < NextIndex
  <2> SUFFICES ASSUME NEW i \in 1 .. Len(path)
               PROVE  /\ NodeAt(i) \in Nodes /\ NodeAt(i) # node /\ OnStack(NodeAt(i))
                      /\ index'[NodeAt(i)] = index[NodeAt(i)]
                      /\ lowLink'[NodeAt(i)] = lowLink[NodeAt(i)]
                      /\ index[NodeAt(i)] \in Nat \ {0} /\ lowLink[NodeAt(i)] \in Nat
                      /\ index[NodeAt(i)] < NextIndex
    OBVIOUS
  <2>1. NodeAt(i) \in Nodes /\ index[NodeAt(i)] \in Nat \ {0}
    BY <1>2, OfPath, OfStack
  <2>2. OnStack(NodeAt(i)) /\ index[NodeAt(i)] < NextIndex
    BY <1>2, <2>1 DEF Numbered
  <2> QED
    BY <1>1, <1>2, <2>1, <2>2
<1>8. \A n \in Nodes : OnStack(n) =>
        /\ n # node /\ index'[n] = index[n] /\ index[n] \in Nat \ {0} /\ index[n] < NextIndex
  BY <1>1, <1>2, OfStack DEF Numbered
<1>9. Numbered'
  <2>1. \A n \in Nodes : index'[n] < NextIndex'
    <3>1. \A n \in Nodes : n # node => index'[n] = index[n] /\ index[n] < NextIndex
                                       /\ index[n] \in Nat
      BY <1>1, <1>2 DEF Numbered
    <3> QED
      BY <1>1, <3>1
  <2>2. \A i \in 1 .. Len(stack) :
          /\ stack'[i] = stack[i] /\ index'[stack[i]] = index[stack[i]]
          /\ index[stack[i]] \in Nat \ {0} /\ index[stack[i]] < NextIndex
    <3> SUFFICES ASSUME NEW i \in 1 .. Len(stack)
                 PROVE  /\ stack'[i] = stack[i] /\ index'[stack[i]] = index[stack[i]]
                        /\ index[stack[i]] \in Nat \ {0} /\ index[stack[i]] < NextIndex
      OBVIOUS
    <3>1. stack[i] \in Nodes /\ OnStack(stack[i])
      BY <1>2 DEF OnStack, Contains
    <3> QED
      BY <1>1, <1>8, <3>1
  <2>3. \A i \in 1 .. Len(stack') : index'[stack'[i]] # 0
    BY <1>1, <1>4, <2>2
  <2>4. \A i, j \in 1 .. Len(stack') : i < j => index'[stack'[i]] < index'[stack'[j]]
    <3> SUFFICES ASSUME NEW i \in 1 .. Len(stack'), NEW j \in 1 .. Len(stack'), i < j
                 PROVE  index'[stack'[i]] < index'[stack'[j]]
      OBVIOUS
    <3>1. i \in 1 .. Len(stack)
      BY <1>1, <1>4
    <3>2. CASE j \in 1 .. Len(stack)
      <4>1. index[stack[i]] < index[stack[j]]
        BY <1>2, <3>1, <3>2 DEF Numbered
      <4> QED
        BY <2>2, <3>1, <3>2, <4>1
    <3>3. CASE j = Len(stack) + 1
      BY <1>1, <2>2, <3>1, <3>3
    <3> QED
      BY <1>1, <1>4, <3>2, <3>3
  <2>5. \A i \in 1 .. Len(path') : OnStack(NodeAt(i))'
    <3>1. ASSUME NEW i \in 1 .. Len(path') PROVE Contains(stack', NodeAt(i)')
      <4>1. \A n : Contains(stack', n) <=> OnStack(n) \/ n = node
        BY <1>1 DEF OnStack
      <4>2. CASE i = last
        BY <1>6, <4>1, <4>2
      <4>3. CASE i # last
        <5>1. NodeAt(i)' = NodeAt(i) /\ OnStack(NodeAt(i))
          BY <1>1, <1>6, <1>7, <4>3
        <5> QED
          BY <4>1, <5>1
      <4> QED
        BY <4>2, <4>3
    <3> QED
      BY <3>1 DEF OnStack
  <2>6. \A i, j \in 1 .. Len(path') : i < j => index'[NodeAt(i)'] < index'[NodeAt(j)']
    <3> SUFFICES ASSUME NEW i \in 1 .. Len(path'), NEW j \in 1 .. Len(path'), i < j
                 PROVE  index'[NodeAt(i)'] < index'[NodeAt(j)']
      OBVIOUS
    <3>1. i \in 1 .. Len(path)
      BY <1>6
    <3>2. CASE j \in 1 .. Len(path)
      BY <1>1, <1>2, <1>7, <3>1, <3>2 DEF Numbered
    <3>3. CASE j = last
      BY <1>1, <1>6, <1>7, <3>1, <3>3
    <3> QED
      BY <1>6, <3>2, <3>3
  <2> QED
    BY <1>3, <2>1, <2>3, <2>4, <2>5, <2>6 DEF Numbered
<1>10. path # <<>> =>
         /\ Len(path) \in 1 .. Len(path) /\ Top = path[Len(path)]
         /\ NodeAt(Len(path)) = Top.node
         /\ Top.cursor \in 1 .. Len(Deps(Top.node))
         /\ Deps(Top.node)[Top.cursor] = node /\ DependsOn(Top.node, node)
         /\ path'[Len(path)].cursor = Top.cursor + 1
  <2> SUFFICES ASSUME path # <<>>
               PROVE  /\ Len(path) \in 1 .. Len(path) /\ Top = path[Len(path)]
                      /\ NodeAt(Len(path)) = Top.node
                      /\ Top.cursor \in 1 .. Len(Deps(Top.node))
                      /\ Deps(Top.node)[Top.cursor] = node /\ DependsOn(Top.node, node)
                      /\ path'[Len(path)].cursor = Top.cursor + 1
    OBVIOUS
  <2>1. Len(path) \in 1 .. Len(path)
    BY <1>2
  <2>2. path'[Len(path)] = p[Len(path)]
    BY <1>1, <2>1
  <2>3. path'[Len(path)].cursor = Top.cursor + 1
    BY <2>2
  <2>4. /\ Top = path[Len(path)] /\ NodeAt(Len(path)) = Top.node
        /\ Top.cursor \in 1 .. Len(Deps(Top.node))
        /\ Deps(Top.node)[Top.cursor] = node /\ DependsOn(Top.node, node)
    BY <1>2, TopFrame
  <2> QED
    BY <2>1, <2>3, <2>4
<1>11. \A i \in 1 .. Len(path) : i < Len(path) => path'[i] = path[i]
  BY <1>1, <1>4
<1>12. Linked'
  <2> SUFFICES ASSUME NEW i \in 1 .. Len(path') - 1
               PROVE  /\ path'[i].cursor - 1 \in 1 .. Len(Deps(path'[i].node))
                      /\ Deps(path'[i].node)[path'[i].cursor - 1] = path'[i + 1].node
    BY <1>3 DEF Linked
  <2>1. CASE i < Len(path)
    <3>1. i \in 1 .. Len(path) - 1 /\ i + 1 \in 1 .. Len(path) /\ i \in 1 .. Len(path)
      BY <1>4, <2>1
    <3>2. path'[i] = path[i] /\ path'[i + 1].node = path[i + 1].node
      BY <1>1, <1>11, <2>1, <3>1 DEF NodeAt
    <3> QED
      BY <3>1, <3>2 DEF Finding, Linked
  <2>2. CASE i = Len(path)
    <3>1. path # <<>> /\ i \in 1 .. Len(path) /\ i + 1 = last
      BY <1>4, <1>5, <2>2
    <3>2. path'[i].node = Top.node /\ path'[i].cursor = Top.cursor + 1
      BY <1>1, <1>10, <2>2, <3>1 DEF NodeAt
    <3>3. path'[i + 1].node = node
      BY <1>6, <3>1 DEF NodeAt
    <3> QED
      BY <1>10, <3>1, <3>2, <3>3
  <2> QED
    BY <1>6, <2>1, <2>2
<1>13. Explored'
  <2>1. ASSUME NEW i \in 1 .. Len(path'), NEW k \in 1 .. Len(Deps(path'[i].node)),
               k < path'[i].cursor
        PROVE  index'[Deps(path'[i].node)[k]] # 0
    <3>1. i \in 1 .. Len(path)
      BY <1>6, <2>1
    <3>2. path'[i].node = NodeAt(i) /\ Deps(NodeAt(i))[k] \in Nodes /\ path[i].cursor \in Nat
      <4>1. path'[i].node = NodeAt(i)
        BY <1>1, <3>1 DEF NodeAt
      <4> QED
        BY <1>2, <2>1, <3>1, <4>1, OfPath
    <3>3. CASE k < path[i].cursor
      <4>1. index[Deps(NodeAt(i))[k]] # 0
        BY <2>1, <3>1, <3>2, <3>3 DEF Finding, Explored
      <4> QED
        BY <1>1, <3>2, <4>1
    <3>4. CASE ~(k < path[i].cursor)
      <4>1. i = Len(path) /\ path # <<>>
        BY <1>4, <1>11, <2>1, <3>1, <3>4, SMTT(20)
      <4>2. k = Top.cursor
        BY <1>10, <2>1, <3>2, <3>4, <4>1
      <4>3. Deps(NodeAt(i))[k] = node
        BY <1>10, <4>1, <4>2
      <4> QED
        BY <1>1, <3>2, <4>3
    <3> QED
      BY <3>3, <3>4
  <2>2. ASSUME NEW n \in Nodes, NEW d \in Nodes,
               index'[n] # 0, ~OpenNode(n)', DependsOn(n, d)
        PROVE  index'[d] # 0
    <3>1. n # node /\ ~OpenNode(n) /\ index[n] # 0
      BY <1>1, <2>2
    <3>2. index[d] # 0
      BY <2>2, <3>1 DEF Finding, Explored
    <3> QED
      BY <1>1, <3>2
  <2>3. \A n, d \in Nodes : Gone(n)' /\ DependsOn(n, d) => Gone(d)'
    BY <1>1 DEF Finding, Explored
  <2>4. \A i \in 1 .. Len(path') : \A k \in 1 .. Len(Deps(path'[i].node)) :
          k < path'[i].cursor => index'[Deps(path'[i].node)[k]] # 0
    BY <2>1
  <2>5. \A n, d \in Nodes : index'[n] # 0 /\ ~OpenNode(n)' /\ DependsOn(n, d) => index'[d] # 0
    BY <2>2
  <2> QED
    BY <1>3, <2>3, <2>4, <2>5 DEF Explored, NodeAt
<1>14. Connected'
  <2>1. ASSUME NEW i \in 1 .. Len(path'), NEW n \in Nodes,
               OnStack(n)', index'[NodeAt(i)'] <= index'[n]
        PROVE  Reachable(NodeAt(i)', n)
    <3>1. CASE n = node /\ i = last
      BY <1>2, <1>6, <3>1, ReachableFacts
    <3>2. CASE n = node /\ i # last
      <4>1. i \in 1 .. Len(path) /\ NodeAt(i)' = NodeAt(i) /\ path # <<>>
        BY <1>1, <1>2, <1>6, <3>2
      <4>2. OnStack(Top.node) /\ index[NodeAt(i)] <= index[Top.node] /\ Top.node \in Nodes
        <5>1. PICK l \in 1 .. Len(path) : l = Len(path)
          BY <1>10, <4>1
        <5>2. NodeAt(l) = Top.node
          BY <1>10, <4>1, <5>1
        <5>3. OnStack(NodeAt(l)) /\ NodeAt(l) \in Nodes
          BY <1>7
        <5>4. index[NodeAt(i)] <= index[NodeAt(l)]
          <6>1. CASE i = l
            BY <1>7, <6>1
          <6>2. CASE i < l
            BY <1>2, <1>7, <4>1, <6>2 DEF Numbered
          <6> QED
            BY <1>4, <4>1, <5>1, <6>1, <6>2
        <5> QED
          BY <5>2, <5>3, <5>4
      <4>3. Reachable(NodeAt(i), Top.node)
        BY <4>1, <4>2 DEF Finding, Connected
      <4>4. Reachable(Top.node, node)
        BY <1>2, <1>10, <4>1, <4>2, ReachableFacts
      <4> QED
        BY <1>2, <1>7, <3>2, <4>1, <4>2, <4>3, <4>4, ReachableFacts
    <3>3. CASE n # node
      <4>1. OnStack(n) /\ index'[n] = index[n] /\ index[n] < NextIndex /\ index[n] \in Nat
        BY <1>1, <1>8, <2>1, <3>3
      <4>2. i # last
        BY <1>1, <1>6, <2>1, <4>1
      <4>3. i \in 1 .. Len(path) /\ NodeAt(i)' = NodeAt(i)
        BY <1>1, <1>6, <4>2
      <4> QED
        BY <1>7, <2>1, <4>1, <4>3 DEF Finding, Connected
    <3> QED
      BY <3>1, <3>2, <3>3
  <2>2. ASSUME NEW n \in Nodes, OnStack(n)'
        PROVE  \E i \in 1 .. Len(path') :
                 index'[NodeAt(i)'] <= index'[n] /\ Reachable(n, NodeAt(i)')
    <3>1. CASE n = node
      <4>1. index'[NodeAt(last)'] <= index'[n]
        BY <1>1, <1>6, <3>1
      <4> QED
        BY <1>2, <1>6, <3>1, <4>1, ReachableFacts
    <3>2. CASE n # node
      <4>1. OnStack(n) /\ index'[n] = index[n]
        BY <1>1, <1>8, <2>2, <3>2
      <4>2. PICK i \in 1 .. Len(path) : index[NodeAt(i)] <= index[n] /\ Reachable(n, NodeAt(i))
        BY <4>1 DEF Finding, Connected
      <4>3. /\ i \in 1 .. Len(path') /\ NodeAt(i)' = NodeAt(i)
            /\ index'[NodeAt(i)] = index[NodeAt(i)]
        BY <1>1, <1>6, <1>7
      <4> QED
        BY <4>1, <4>2, <4>3
    <3> QED
      BY <3>1, <3>2
  <2>3. \A i \in 1 .. Len(path'), n \in Nodes :
          OnStack(n)' /\ index'[NodeAt(i)'] <= index'[n] => Reachable(NodeAt(i)', n)
    BY <2>1
  <2>4. \A i \in 1 .. Len(path'), n \in Nodes :
          OnStack(n)' /\ index'[path'[i].node] <= index'[n] => Reachable(path'[i].node, n)
    BY <2>3 DEF NodeAt
  <2>5. \A n \in Nodes : OnStack(n)' => \E i \in 1 .. Len(path') :
          index'[path'[i].node] <= index'[n] /\ Reachable(n, path'[i].node)
    BY <2>2 DEF NodeAt
  <2> QED
    BY <1>3, <2>4, <2>5 DEF Connected, NodeAt
<1>15. LowReached'
  <2> SUFFICES ASSUME NEW i \in 1 .. Len(path')
               PROVE  /\ lowLink'[NodeAt(i)'] <= index'[NodeAt(i)']
                      /\ \E m \in Nodes : /\ OnStack(m)' /\ index'[m] = lowLink'[NodeAt(i)']
                                          /\ Reachable(NodeAt(i)', m)
    BY <1>3 DEF LowReached, NodeAt
  <2>1. CASE i = last
    <3>1. Reachable(node, node) /\ OnStack(node)'
      BY <1>1, <1>2, ReachableFacts
    <3> QED
      BY <1>1, <1>6, <2>1, <3>1
  <2>2. CASE i # last
    <3>1. i \in 1 .. Len(path) /\ NodeAt(i)' = NodeAt(i)
      BY <1>1, <1>6, <2>2
    <3>2. PICK m \in Nodes : /\ OnStack(m) /\ index[m] = lowLink[NodeAt(i)]
                             /\ Reachable(NodeAt(i), m)
      BY <3>1 DEF Finding, LowReached
    <3>3. lowLink[NodeAt(i)] <= index[NodeAt(i)]
      BY <3>1 DEF Finding, LowReached
    <3>4. OnStack(m)' /\ index'[m] = index[m]
      BY <1>1, <1>8, <3>2
    <3> QED
      BY <1>7, <3>1, <3>2, <3>3, <3>4
  <2> QED
    BY <2>1, <2>2
<1>16. LowBounds'
  <2>1. ASSUME NEW i \in 1 .. Len(path'), NEW k \in 1 .. Len(Deps(path'[i].node)),
               k < path'[i].cursor, i < Len(path') => k < path'[i].cursor - 1,
               OnStack(Deps(NodeAt(i))[k])'
        PROVE  lowLink'[NodeAt(i)'] <= index'[Deps(path'[i].node)[k]]
    <3>1. i \in 1 .. Len(path)
      BY <1>6, <2>1
    <3>2. path'[i].node = NodeAt(i) /\ NodeAt(i)' = NodeAt(i) /\ Deps(NodeAt(i))[k] \in Nodes
          /\ path[i].cursor \in Nat
      <4>1. path'[i].node = NodeAt(i) /\ NodeAt(i)' = NodeAt(i)
        BY <1>1, <3>1 DEF NodeAt
      <4> QED
        BY <1>2, <2>1, <3>1, <4>1, OfPath
    <3>3. k < path[i].cursor /\ (i < Len(path) => k < path[i].cursor - 1)
      <4>1. CASE i < Len(path)
        BY <1>6, <1>11, <2>1, <3>1, <3>2, <4>1
      <4>2. CASE i = Len(path)
        <5>1. path # <<>> /\ i < Len(path') /\ path'[i].cursor = path[i].cursor + 1
          BY <1>1, <1>2, <1>10, <4>2
        <5> QED
          BY <2>1, <3>2, <4>2, <5>1
      <4> QED
        BY <1>4, <3>1, <4>1, <4>2
    <3>4. PICK d : d = Deps(NodeAt(i))[k]
      OBVIOUS
    <3>5. OnStack(d)'
      <4>1. (Deps(NodeAt(i))[k])' = d
        BY <1>3, <3>2, <3>4 DEF Deps
      <4> QED
        BY <2>1, <4>1 DEF OnStack
    <3>6. CASE d = node
      <4>1. lowLink[NodeAt(i)] <= index[NodeAt(i)]
        BY <3>1 DEF Finding, LowReached
      <4> QED
        BY <1>1, <1>7, <3>1, <3>2, <3>4, <3>6, <4>1
    <3>7. CASE d # node
      <4>1. OnStack(d)
        BY <1>1, <3>5, <3>7
      <4>2. lowLink[NodeAt(i)] <= index[d]
        BY <2>1, <3>1, <3>2, <3>3, <3>4, <4>1 DEF Finding, LowBounds
      <4> QED
        BY <1>7, <1>8, <3>1, <3>2, <3>4, <4>1, <4>2
    <3> QED
      BY <3>6, <3>7
  <2>2. ASSUME NEW i \in 1 .. Len(path'), NEW n \in Nodes, NEW d \in Nodes,
               OnStack(n)', ~OpenNode(n)', DependsOn(n, d), OnStack(d)',
               index'[NodeAt(i)'] <= index'[n],
               i < Len(path') => index'[n] < index'[path'[i + 1].node]
        PROVE  lowLink'[NodeAt(i)'] <= index'[d]
    <3>1. n # node /\ OnStack(n) /\ ~OpenNode(n)
      BY <1>1, <2>2
    <3>2. index'[n] = index[n] /\ index[n] < NextIndex /\ index[n] \in Nat
      BY <1>8, <3>1
    <3>3. i # last
      BY <1>1, <1>6, <2>2, <3>2
    <3>4. i \in 1 .. Len(path) /\ NodeAt(i)' = NodeAt(i) /\ index[NodeAt(i)] <= index[n]
      BY <1>1, <1>6, <1>7, <2>2, <3>2, <3>3
    <3>5. i < Len(path) => index[n] < index[NodeAt(i + 1)]
      <4> SUFFICES ASSUME i < Len(path) PROVE index[n] < index[NodeAt(i + 1)]
        OBVIOUS
      <4>1. i + 1 \in 1 .. Len(path) /\ i < Len(path')
        BY <1>1, <1>4, <3>4
      <4>2. path'[i + 1].node = NodeAt(i + 1) /\ index'[NodeAt(i + 1)] = index[NodeAt(i + 1)]
        BY <1>1, <1>7, <4>1 DEF NodeAt
      <4> QED
        BY <2>2, <3>2, <4>1, <4>2
    <3>6. CASE d = node
      <4>1. lowLink[NodeAt(i)] <= index[NodeAt(i)]
        BY <3>4 DEF Finding, LowReached
      <4> QED
        BY <1>1, <1>7, <3>4, <3>6, <4>1
    <3>7. CASE d # node
      <4>1. OnStack(d)
        BY <1>1, <2>2, <3>7
      <4>2. lowLink[NodeAt(i)] <= index[d]
        BY <2>2, <3>1, <3>4, <3>5, <4>1 DEF Finding, LowBounds
      <4> QED
        BY <1>7, <1>8, <3>4, <4>1, <4>2
    <3> QED
      BY <3>6, <3>7
  <2>3. \A i \in 1 .. Len(path') : \A k \in 1 .. Len(Deps(path'[i].node)) :
          /\ k < path'[i].cursor /\ (i < Len(path') => k < path'[i].cursor - 1)
          /\ OnStack(Deps(NodeAt(i))[k])'
          => lowLink'[path'[i].node] <= index'[Deps(path'[i].node)[k]]
    BY <2>1 DEF NodeAt
  <2>4. \A i \in 1 .. Len(path'), n, d \in Nodes :
          /\ OnStack(n)' /\ ~OpenNode(n)' /\ DependsOn(n, d) /\ OnStack(d)'
          /\ index'[path'[i].node] <= index'[n]
          /\ (i < Len(path') => index'[n] < index'[path'[i + 1].node])
          => lowLink'[path'[i].node] <= index'[d]
    BY <2>2 DEF NodeAt
  <2> QED
    BY <1>3, <2>3, <2>4 DEF LowBounds, NodeAt
<1>17. Classes'
  <2>1. components' = components
    OBVIOUS
  <2> QED
    BY <1>1, <1>3, <2>1 DEF Finding, Classes
<1> QED
  BY <1>1, <1>9, <1>12, <1>13, <1>14, <1>15, <1>16, <1>17 DEF Finding

LEMMA StackKept ==
    ASSUME graph' = graph, stack' = stack, index' = index
    PROVE  /\ \A n : OnStack(n)' <=> OnStack(n)
           /\ \A n : Gone(n)' <=> Gone(n)
           /\ NextIndex' = NextIndex
<1>1. \A n : OnStack(n)' <=> OnStack(n)
  BY DEF OnStack
<1>2. \A n : Gone(n)' <=> Gone(n)
  BY <1>1, GraphKept DEF Gone
<1>3. NextIndex' = NextIndex
  BY GraphKept DEF NextIndex
<1> QED
  BY <1>1, <1>2, <1>3

\* Trying an edge whose node was entered before.
LEMMA AdvanceStep ==
    ASSUME Finding, path # <<>>, HasEdge, index[Edge] # 0,
           path' = Advanced, UNCHANGED <<graph, stack, index, components>>,
           lowLink' \in [Nodes -> Nat],
           \A n \in Nodes : n # Top.node => lowLink'[n] = lowLink[n],
           lowLink'[Top.node] <= lowLink[Top.node],
           OnStack(Edge) => lowLink'[Top.node] <= index[Edge],
           \/ lowLink'[Top.node] = lowLink[Top.node]
           \/ OnStack(Edge) /\ lowLink'[Top.node] = index[Edge]
    PROVE  Finding'
<1>1. /\ ComponentType /\ Numbered /\ IsGraph(graph) /\ graph' = graph
      /\ path \in Seq(FrameType) /\ stack \in Seq(Nodes) /\ index \in [Nodes -> Nat]
      /\ lowLink \in [Nodes -> Nat] /\ lowLink' \in [Nodes -> Nat]
      /\ components' = components /\ index' = index /\ stack' = stack
  BY DEF Finding, ComponentType
<1>2. /\ Nodes' = Nodes /\ FrameType' = FrameType /\ (\A n : Deps(n)' = Deps(n))
      /\ (\A n, d : DependsOn(n, d)' <=> DependsOn(n, d))
      /\ (\A a, b : Reachable(a, b)' <=> Reachable(a, b))
      /\ (\A n : MutuallyReachable(n)' = MutuallyReachable(n))
      /\ IsGraph(graph)'
  BY <1>1, GraphKept
<1>3. /\ \A n : OnStack(n)' <=> OnStack(n)
      /\ \A n : Gone(n)' <=> Gone(n)
      /\ NextIndex' = NextIndex
  BY <1>1, StackKept
<1>4. /\ path' \in Seq(FrameType) /\ Len(path') = Len(path)
      /\ \A i \in 1 .. Len(path) - 1 : path'[i] = path[i]
      /\ path'[Len(path)].cursor = Top.cursor + 1
      /\ \A i \in 1 .. Len(path) : path'[i].node = path[i].node
  BY <1>1, MovedOn
<1>5. PICK last : last = Len(path)
  OBVIOUS
<1>6. /\ last \in 1 .. Len(path) /\ Top = path[last] /\ Top.node = NodeAt(last)
      /\ Top.node \in Nodes /\ Top.cursor \in 1 .. Len(Deps(Top.node))
      /\ Edge = Deps(Top.node)[Top.cursor] /\ Edge \in Nodes /\ DependsOn(Top.node, Edge)
  <2>1. /\ Len(path) \in Nat \ {0} /\ Top = path[Len(path)] /\ Top.node \in Nodes
        /\ Top.cursor \in Nat \ {0} /\ Deps(Top.node) \in Seq(Nodes)
        /\ Top.cursor <= Len(Deps(Top.node))
        /\ Edge = Deps(Top.node)[Top.cursor] /\ Edge \in Nodes /\ DependsOn(Top.node, Edge)
    BY <1>1, TopFrame
  <2>2. last \in 1 .. Len(path) /\ Top = path[last]
    BY <1>5, <2>1
  <2>3. Top.node = NodeAt(last)
    BY <2>2 DEF NodeAt
  <2>4. Top.cursor \in 1 .. Len(Deps(Top.node))
    BY <2>1
  <2> QED
    BY <2>1, <2>2, <2>3, <2>4
<1>7. /\ \A i \in 1 .. Len(path) : NodeAt(i)' = NodeAt(i) /\ path'[i].node = NodeAt(i)
      /\ \A i \in 1 .. Len(path) : i # last => path'[i] = path[i] /\ i \in 1 .. Len(path) - 1
      /\ path'[last].cursor = path[last].cursor + 1
  BY <1>4, <1>5, <1>6 DEF NodeAt
<1>8. \A n : OpenNode(n)' <=> OpenNode(n)
  <2>1. \A i \in 1 .. Len(path) : NodeAt(i)' = NodeAt(i)
    BY <1>7
  <2>2. 1 .. Len(path') = 1 .. Len(path)
    BY <1>4
  <2>3. \A n : (\E i \in 1 .. Len(path') : NodeAt(i)' = n)
                <=> (\E i \in 1 .. Len(path) : NodeAt(i) = n)
    BY <2>1, <2>2
  <2> QED
    BY <2>3 DEF OpenNode
<1>9. \A i \in 1 .. Len(path) :
        /\ NodeAt(i) \in Nodes /\ path[i].cursor \in Nat /\ Deps(NodeAt(i)) \in Seq(Nodes)
        /\ index[NodeAt(i)] \in Nat
        /\ lowLink[NodeAt(i)] \in Nat /\ lowLink'[NodeAt(i)] \in Nat
        /\ lowLink'[NodeAt(i)] <= lowLink[NodeAt(i)]
        /\ i # last => lowLink'[NodeAt(i)] = lowLink[NodeAt(i)]
  <2> SUFFICES ASSUME NEW i \in 1 .. Len(path)
               PROVE  /\ NodeAt(i) \in Nodes /\ path[i].cursor \in Nat
                      /\ Deps(NodeAt(i)) \in Seq(Nodes) /\ index[NodeAt(i)] \in Nat
                      /\ lowLink[NodeAt(i)] \in Nat /\ lowLink'[NodeAt(i)] \in Nat
                      /\ lowLink'[NodeAt(i)] <= lowLink[NodeAt(i)]
                      /\ i # last => lowLink'[NodeAt(i)] = lowLink[NodeAt(i)]
    OBVIOUS
  <2>1. NodeAt(i) \in Nodes /\ path[i].cursor \in Nat /\ Deps(NodeAt(i)) \in Seq(Nodes)
    BY <1>1, OfPath
  <2>2. NodeAt(i) = Top.node => i = last
    BY <1>1, <1>6, OfStack
  <2> QED
    BY <1>1, <2>1, <2>2
<1>10. ComponentType'
  BY <1>1, <1>2, <1>4 DEF ComponentType
<1>11. Numbered'
  <2>1. \A i \in 1 .. Len(path) : OnStack(NodeAt(i))
    BY <1>1 DEF Numbered
  <2>2. ASSUME NEW i \in 1 .. Len(path') PROVE Contains(stack', NodeAt(i)')
    BY <1>1, <1>4, <1>7, <2>1 DEF OnStack
  <2>3. \A i, j \in 1 .. Len(path') : i < j => index'[NodeAt(i)'] < index'[NodeAt(j)']
    <3>1. \A i, j \in 1 .. Len(path) : i < j => index[NodeAt(i)] < index[NodeAt(j)]
      BY <1>1 DEF Numbered
    <3> SUFFICES ASSUME NEW i \in 1 .. Len(path'), NEW j \in 1 .. Len(path'), i < j
                 PROVE  index'[NodeAt(i)'] < index'[NodeAt(j)']
      OBVIOUS
    <3>2. i \in 1 .. Len(path) /\ j \in 1 .. Len(path)
      BY <1>4
    <3>3. NodeAt(i)' = NodeAt(i) /\ NodeAt(j)' = NodeAt(j)
      BY <1>7, <3>2
    <3> QED
      BY <1>1, <3>1, <3>2, <3>3
  <2>4. /\ \A n \in Nodes : index[n] < NextIndex
        /\ \A i \in 1 .. Len(stack) : index[stack[i]] # 0
        /\ \A i, j \in 1 .. Len(stack) : i < j => index[stack[i]] < index[stack[j]]
    BY <1>1 DEF Numbered
  <2> QED
    BY <1>1, <1>2, <1>3, <2>2, <2>3, <2>4 DEF Numbered, OnStack
<1>12. Linked'
  <2> SUFFICES ASSUME NEW i \in 1 .. Len(path') - 1
               PROVE  /\ path'[i].cursor - 1 \in 1 .. Len(Deps(path'[i].node))
                      /\ Deps(path'[i].node)[path'[i].cursor - 1] = path'[i + 1].node
    BY <1>2 DEF Linked
  <2>1. i \in 1 .. Len(path) - 1 /\ i + 1 \in 1 .. Len(path) /\ path'[i] = path[i]
    BY <1>4
  <2>2. path'[i + 1].node = path[i + 1].node
    BY <1>4, <2>1
  <2> QED
    BY <2>1, <2>2 DEF Finding, Linked
<1>13. Explored'
  <2>1. ASSUME NEW i \in 1 .. Len(path'), NEW k \in 1 .. Len(Deps(path'[i].node)),
               k < path'[i].cursor
        PROVE  index[Deps(path'[i].node)[k]] # 0
    <3>1. i \in 1 .. Len(path) /\ path'[i].node = NodeAt(i)
      BY <1>4, <1>7
    <3>2. CASE k < path[i].cursor
      BY <2>1, <3>1, <3>2 DEF Finding, Explored
    <3>3. CASE ~(k < path[i].cursor)
      <4>1. i = last
        BY <1>7, <2>1, <3>1, <3>3
      <4>2. k = Top.cursor
        BY <1>6, <1>7, <2>1, <3>1, <3>3, <4>1
      <4> QED
        BY <1>6, <3>1, <4>1, <4>2
    <3> QED
      BY <3>2, <3>3
  <2>2. \A i \in 1 .. Len(path') : \A k \in 1 .. Len(Deps(path'[i].node)) :
          k < path'[i].cursor => index'[Deps(path'[i].node)[k]] # 0
    BY <1>1, <2>1, SMTT(20)
  <2>3. \A n, d \in Nodes : index'[n] # 0 /\ ~OpenNode(n)' /\ DependsOn(n, d) => index'[d] # 0
    BY <1>1, <1>8 DEF Finding, Explored
  <2>4. \A n, d \in Nodes : Gone(n)' /\ DependsOn(n, d) => Gone(d)'
    BY <1>3 DEF Finding, Explored
  <2> QED
    BY <1>2, <2>2, <2>3, <2>4 DEF Explored, NodeAt
<1>14. Connected'
  <2>1. \A i \in 1 .. Len(path'), n \in Nodes :
          OnStack(n)' /\ index'[path'[i].node] <= index'[n] => Reachable(path'[i].node, n)
    BY <1>1, <1>3, <1>4, <1>7 DEF Finding, Connected
  <2>2. ASSUME NEW n \in Nodes, OnStack(n)'
        PROVE  \E i \in 1 .. Len(path') :
                 index'[path'[i].node] <= index'[n] /\ Reachable(n, path'[i].node)
    <3>1. PICK i \in 1 .. Len(path) : index[NodeAt(i)] <= index[n] /\ Reachable(n, NodeAt(i))
      BY <1>3, <2>2 DEF Finding, Connected
    <3> QED
      BY <1>1, <1>4, <1>7, <3>1
  <2> QED
    BY <1>2, <2>1, <2>2 DEF Connected, NodeAt
<1>15. LowReached'
  <2> SUFFICES ASSUME NEW i \in 1 .. Len(path')
               PROVE  /\ lowLink'[NodeAt(i)'] <= index'[NodeAt(i)']
                      /\ \E m \in Nodes : /\ OnStack(m)' /\ index'[m] = lowLink'[NodeAt(i)']
                                          /\ Reachable(NodeAt(i)', m)
    BY <1>2 DEF LowReached, NodeAt
  <2>1. i \in 1 .. Len(path) /\ NodeAt(i)' = NodeAt(i)
    BY <1>4, <1>7
  <2>2. PICK m \in Nodes : /\ OnStack(m) /\ index[m] = lowLink[NodeAt(i)]
                           /\ Reachable(NodeAt(i), m)
    BY <2>1 DEF Finding, LowReached
  <2>3. lowLink[NodeAt(i)] <= index[NodeAt(i)]
    BY <2>1 DEF Finding, LowReached
  <2>4. lowLink'[NodeAt(i)] <= index[NodeAt(i)]
    BY <1>9, <2>1, <2>3
  <2>5. CASE lowLink'[NodeAt(i)] = lowLink[NodeAt(i)]
    BY <1>1, <1>3, <2>1, <2>2, <2>4, <2>5
  <2>6. CASE lowLink'[NodeAt(i)] # lowLink[NodeAt(i)]
    <3>1. NodeAt(i) = Top.node /\ OnStack(Edge) /\ lowLink'[NodeAt(i)] = index[Edge]
      BY <1>6, <1>9, <2>1, <2>6
    <3>2. Reachable(NodeAt(i), Edge)
      BY <1>1, <1>6, <3>1, ReachableFacts
    <3> QED
      BY <1>1, <1>3, <1>6, <2>1, <2>4, <3>1, <3>2
  <2> QED
    BY <2>5, <2>6
<1>16. LowBounds'
  <2>1. ASSUME NEW i \in 1 .. Len(path'), NEW k \in 1 .. Len(Deps(path'[i].node)),
               k < path'[i].cursor, i < Len(path') => k < path'[i].cursor - 1,
               OnStack(Deps(path'[i].node)[k])
        PROVE  lowLink'[path'[i].node] <= index[Deps(path'[i].node)[k]]
    <3>1. i \in 1 .. Len(path) /\ path'[i].node = NodeAt(i)
      BY <1>4, <1>7
    <3>2. PICK d : d = Deps(NodeAt(i))[k]
      OBVIOUS
    <3>3. d \in Nodes /\ index[d] \in Nat
      BY <1>1, <2>1, <3>1, <3>2, OfPath
    <3>4. CASE k < path[i].cursor /\ (i < Len(path) => k < path[i].cursor - 1)
      <4>1. lowLink[NodeAt(i)] <= index[d]
        BY <2>1, <3>1, <3>2, <3>4 DEF Finding, LowBounds
      <4> QED
        BY <1>9, <3>1, <3>2, <3>3, <4>1
    <3>5. CASE ~(k < path[i].cursor /\ (i < Len(path) => k < path[i].cursor - 1))
      <4>1. i = last
        BY <1>4, <1>7, <2>1, <3>1, <3>5
      <4>2. k = Top.cursor
        BY <1>5, <1>6, <1>7, <2>1, <3>1, <3>5, <4>1
      <4>3. d = Edge
        BY <1>6, <3>1, <3>2, <4>1, <4>2
      <4> QED
        BY <1>6, <2>1, <3>1, <3>2, <4>1, <4>3
    <3> QED
      BY <3>4, <3>5
  <2>2. ASSUME NEW i \in 1 .. Len(path'), NEW n \in Nodes, NEW d \in Nodes,
               OnStack(n), ~OpenNode(n), DependsOn(n, d), OnStack(d),
               index[path'[i].node] <= index[n],
               i < Len(path') => index[n] < index[path'[i + 1].node]
        PROVE  lowLink'[path'[i].node] <= index[d]
    <3>1. i \in 1 .. Len(path) /\ path'[i].node = NodeAt(i)
      BY <1>4, <1>7
    <3>2. i < Len(path) => index[n] < index[NodeAt(i + 1)]
      <4>1. i < Len(path) => i + 1 \in 1 .. Len(path)
        BY <1>4, <3>1
      <4> QED
        BY <1>4, <1>7, <2>2, <4>1
    <3>3. lowLink[NodeAt(i)] <= index[d]
      BY <2>2, <3>1, <3>2 DEF Finding, LowBounds
    <3> QED
      BY <1>1, <1>9, <3>1, <3>3
  <2>3. \A i \in 1 .. Len(path') : \A k \in 1 .. Len(Deps(path'[i].node)) :
          /\ k < path'[i].cursor /\ (i < Len(path') => k < path'[i].cursor - 1)
          /\ OnStack(Deps(path'[i].node)[k])
          => lowLink'[path'[i].node] <= index[Deps(path'[i].node)[k]]
    BY <2>1
  <2>4. \A i \in 1 .. Len(path'), n, d \in Nodes :
          /\ OnStack(n)' /\ ~OpenNode(n)' /\ DependsOn(n, d) /\ OnStack(d)'
          /\ index'[path'[i].node] <= index'[n]
          /\ (i < Len(path') => index'[n] < index'[path'[i + 1].node])
          => lowLink'[path'[i].node] <= index'[d]
    BY <1>1, <1>3, <1>8, <2>2
  <2>5. \A i \in 1 .. Len(path') : \A k \in 1 .. Len(Deps(path'[i].node)) :
          /\ k < path'[i].cursor /\ (i < Len(path') => k < path'[i].cursor - 1)
          /\ Contains(stack', Deps(path'[i].node)[k])
          => lowLink'[path'[i].node] <= index'[Deps(path'[i].node)[k]]
    BY <1>1, <2>3 DEF OnStack
  <2> QED
    BY <1>2, <2>4, <2>5 DEF LowBounds, NodeAt, OnStack
<1>17. Classes'
  BY <1>1, <1>2, <1>3 DEF Finding, Classes
<1> QED
  BY <1>10, <1>11, <1>12, <1>13, <1>14, <1>15, <1>16, <1>17 DEF Finding

\* When the topmost node has tried its edges, everything entered since it has, too.
LEMMA TopExplored ==
    ASSUME Finding, path # <<>>, ~HasEdge
    PROVE  /\ Top.node \in Nodes /\ OnStack(Top.node)
           /\ index[Top.node] \in Nat \ {0} /\ lowLink[Top.node] \in Nat
           /\ lowLink[Top.node] <= index[Top.node]
           /\ \A i \in 1 .. Len(path) - 1 : index[NodeAt(i)] < index[Top.node]
           /\ \A n \in Nodes : OnStack(n) /\ index[Top.node] <= index[n] =>
                /\ Reachable(Top.node, n)
                /\ n = Top.node \/ ~OpenNode(n)
                /\ \A d \in Nodes : DependsOn(n, d) =>
                     /\ index[d] # 0
                     /\ OnStack(d) => lowLink[Top.node] <= index[d]
<1>1. /\ ComponentType /\ Numbered /\ IsGraph(graph)
      /\ path \in Seq(FrameType) /\ stack \in Seq(Nodes) /\ index \in [Nodes -> Nat]
      /\ lowLink \in [Nodes -> Nat]
  BY DEF Finding, ComponentType
<1>2. PICK last : last = Len(path)
  OBVIOUS
<1>3. PICK top : top = Top.node
  OBVIOUS
<1>4. /\ last \in 1 .. Len(path) /\ Top = path[last] /\ top \in Nodes
      /\ path[last].cursor > Len(Deps(top)) /\ path[last].cursor \in Nat
      /\ Len(Deps(top)) \in Nat
  <2>1. /\ Len(path) \in Nat \ {0} /\ Top = path[Len(path)] /\ Top.node \in Nodes
        /\ Top.cursor \in Nat \ {0} /\ Deps(Top.node) \in Seq(Nodes)
        /\ ~(Top.cursor <= Len(Deps(Top.node)))
    BY <1>1, TopFrame
  <2>2. Len(Deps(top)) \in Nat /\ ~(Top.cursor <= Len(Deps(top)))
    BY <1>3, <2>1
  <2> QED
    BY <1>2, <1>3, <2>1, <2>2
<1>5. NodeAt(last) = top
  BY <1>3, <1>4 DEF NodeAt
<1>6. OnStack(top) /\ index[top] \in Nat \ {0} /\ lowLink[top] \in Nat
  BY <1>1, <1>4, <1>5, OfStack DEF Numbered
<1>7. lowLink[top] <= index[top]
  BY <1>4, <1>5 DEF Finding, LowReached
<1>8. \A i \in 1 .. Len(path) - 1 : index[NodeAt(i)] < index[top]
  <2> SUFFICES ASSUME NEW i \in 1 .. Len(path) - 1 PROVE index[NodeAt(i)] < index[top]
    OBVIOUS
  <2>1. i \in 1 .. Len(path) /\ i < last
    BY <1>2, <1>4
  <2> QED
    BY <1>1, <1>4, <1>5, <2>1 DEF Numbered
<1>9. ASSUME NEW n \in Nodes, OnStack(n), index[top] <= index[n]
      PROVE  Reachable(top, n) /\ (n = top \/ ~OpenNode(n))
  <2>1. Reachable(top, n)
    BY <1>4, <1>5, <1>9 DEF Finding, Connected
  <2>2. ASSUME OpenNode(n) PROVE n = top
    <3>1. PICK i \in 1 .. Len(path) : NodeAt(i) = n
      BY <2>2 DEF OpenNode
    <3>2. CASE i = last
      BY <1>5, <3>1, <3>2
    <3>3. CASE i # last
      <4>1. i \in 1 .. Len(path) - 1
        BY <1>2, <1>4, <3>3
      <4> QED
        BY <1>1, <1>6, <1>8, <1>9, <3>1, <4>1
    <3> QED
      BY <3>2, <3>3
  <2> QED
    BY <2>1, <2>2
<1>10. ASSUME NEW n \in Nodes, OnStack(n), index[top] <= index[n],
              NEW d \in Nodes, DependsOn(n, d)
       PROVE  index[d] # 0 /\ (OnStack(d) => lowLink[top] <= index[d])
  <2>1. CASE n = top
    <3>1. PICK k \in 1 .. Len(Deps(top)) : Deps(top)[k] = d
      BY <1>1, <1>4, <1>5, <1>10, <2>1, OfPath
    <3>2. k < path[last].cursor /\ ~(last < Len(path))
      BY <1>2, <1>4
    <3>3. index[d] # 0
      BY <1>4, <1>5, <3>1, <3>2 DEF Finding, Explored
    <3>4. OnStack(d) => lowLink[top] <= index[d]
      BY <1>4, <1>5, <3>1, <3>2 DEF Finding, LowBounds
    <3> QED
      BY <3>3, <3>4
  <2>2. CASE n # top
    <3>1. ~OpenNode(n)
      BY <1>9, <1>10, <2>2
    <3>2. index[n] # 0
      BY <1>1, <1>6, <1>10
    <3>3. index[d] # 0
      BY <1>10, <3>1, <3>2 DEF Finding, Explored
    <3>4. ~(last < Len(path))
      BY <1>2, <1>4
    <3>5. OnStack(d) => lowLink[top] <= index[d]
      BY <1>4, <1>5, <1>10, <3>1, <3>4 DEF Finding, LowBounds
    <3> QED
      BY <3>3, <3>5
  <2> QED
    BY <2>1, <2>2
<1> QED
  BY <1>3, <1>4, <1>6, <1>7, <1>8, <1>9, <1>10

\* The path without its topmost frame.
LEMMA PopEffect ==
    ASSUME Finding, path # <<>>, path' = Popped, UNCHANGED <<graph, index>>
    PROVE  /\ path' \in Seq(FrameType) /\ Len(path) \in Nat \ {0} /\ Len(path') = Len(path) - 1
           /\ Top.node = NodeAt(Len(path))
           /\ \A i \in 1 .. Len(path') : /\ i \in 1 .. Len(path) - 1 /\ i \in 1 .. Len(path)
                                         /\ i < Len(path)
                                         /\ path'[i] = path[i] /\ NodeAt(i)' = NodeAt(i)
                                         /\ NodeAt(i) # Top.node
                                         /\ i < Len(path') => /\ i + 1 \in 1 .. Len(path')
                                                              /\ i + 1 \in 1 .. Len(path)
           /\ \A n : OpenNode(n)' <=> OpenNode(n) /\ n # Top.node
           /\ Linked'
<1>1. /\ ComponentType /\ Numbered /\ graph' = graph /\ path \in Seq(FrameType)
      /\ index' = index
  BY DEF Finding, ComponentType
<1>2. PICK last : last = Len(path)
  OBVIOUS
<1>3. /\ Len(path) \in Nat \ {0} /\ path' \in Seq(FrameType) /\ Len(path') = Len(path) - 1
      /\ \A i \in 1 .. Len(path) - 1 : path'[i] = path[i]
      /\ last \in 1 .. Len(path) /\ Top = path[last]
      /\ Top.node = NodeAt(Len(path))
  <2>1. Len(path) \in Nat \ {0} /\ Top = path[Len(path)] /\ Top.node = NodeAt(Len(path))
    BY <1>1, TopFrame
  <2> QED
    BY <1>1, <1>2, <2>1, PoppedIs
<1>4. Top.node = NodeAt(last)
  BY <1>3 DEF NodeAt
<1>5. ASSUME NEW i \in 1 .. Len(path')
      PROVE  /\ i \in 1 .. Len(path) - 1 /\ i \in 1 .. Len(path)
             /\ i < Len(path)
             /\ path'[i] = path[i] /\ NodeAt(i)' = NodeAt(i)
             /\ NodeAt(i) # Top.node
             /\ i < Len(path') => i + 1 \in 1 .. Len(path') /\ i + 1 \in 1 .. Len(path)
  <2>1. i \in 1 .. Len(path) - 1 /\ i \in 1 .. Len(path) /\ i < Len(path) /\ i # last
    BY <1>2, <1>3
  <2>2. path'[i] = path[i] /\ NodeAt(i)' = NodeAt(i)
    BY <1>3, <2>1 DEF NodeAt
  <2>3. NodeAt(i) # Top.node
    BY <1>1, <1>3, <1>4, <2>1, OfStack
  <2>4. i < Len(path') => i + 1 \in 1 .. Len(path') /\ i + 1 \in 1 .. Len(path)
    BY <1>3, <2>1
  <2> QED
    BY <2>1, <2>2, <2>3, <2>4
<1>6. ASSUME NEW n PROVE OpenNode(n)' <=> OpenNode(n) /\ n # Top.node
  <2>1. ASSUME NEW i \in 1 .. Len(path), i # last PROVE i \in 1 .. Len(path')
    BY <1>2, <1>3, <2>1
  <2>2. (\E i \in 1 .. Len(path') : NodeAt(i)' = n)
          => (\E i \in 1 .. Len(path) : NodeAt(i) = n) /\ n # Top.node
    BY <1>5
  <2>3. (\E i \in 1 .. Len(path) : NodeAt(i) = n) /\ n # Top.node
          => \E i \in 1 .. Len(path') : NodeAt(i)' = n
    BY <1>4, <1>5, <2>1
  <2> QED
    BY <2>2, <2>3 DEF OpenNode
<1>7. Linked'
  <2>1. \A n : Deps(n)' = Deps(n)
    BY <1>1, GraphKept
  <2> SUFFICES ASSUME NEW i \in 1 .. Len(path') - 1
               PROVE  /\ path'[i].cursor - 1 \in 1 .. Len(Deps(path'[i].node))
                      /\ Deps(path'[i].node)[path'[i].cursor - 1] = path'[i + 1].node
    BY <2>1 DEF Linked
  <2>2. i \in 1 .. Len(path') /\ i + 1 \in 1 .. Len(path') /\ i \in 1 .. Len(path) - 1
    BY <1>3
  <2>3. path'[i] = path[i] /\ path'[i + 1] = path[i + 1]
    BY <1>5, <2>2
  <2> QED
    BY <2>2, <2>3 DEF Finding, Linked
<1> QED
  BY <1>1, <1>3, <1>5, <1>6, <1>7

\* Leaving a node whose component goes further down the stack.
LEMMA PassLowLinkStep ==
    ASSUME Finding, path # <<>>, ~HasEdge, path' = Popped,
           index[Top.node] # lowLink[Top.node],
           UNCHANGED <<graph, stack, index, components>>,
           NEW par, par = Len(path) - 1,
           Popped = <<>> => lowLink' = lowLink,
           Popped # <<>> =>
             lowLink' = [lowLink EXCEPT ![NodeAt(par)] = Lower(@, lowLink[Top.node])]
    PROVE  Finding'
<1>1. /\ ComponentType /\ Numbered /\ IsGraph(graph) /\ graph' = graph
      /\ path \in Seq(FrameType) /\ stack \in Seq(Nodes) /\ index \in [Nodes -> Nat]
      /\ lowLink \in [Nodes -> Nat] /\ components \in Seq(SUBSET Nodes)
      /\ components' = components /\ index' = index /\ stack' = stack
  BY DEF Finding, ComponentType
<1>2. /\ Nodes' = Nodes /\ FrameType' = FrameType /\ (\A n : Deps(n)' = Deps(n))
      /\ (\A n, d : DependsOn(n, d)' <=> DependsOn(n, d))
      /\ (\A a, b : Reachable(a, b)' <=> Reachable(a, b))
      /\ (\A n : MutuallyReachable(n)' = MutuallyReachable(n))
      /\ IsGraph(graph)'
  BY <1>1, GraphKept
<1>3. /\ \A n : OnStack(n)' <=> OnStack(n)
      /\ \A n : Gone(n)' <=> Gone(n)
      /\ NextIndex' = NextIndex
  BY <1>1, StackKept
<1>4. /\ path' \in Seq(FrameType) /\ Len(path) \in Nat \ {0} /\ Len(path') = Len(path) - 1
      /\ Top.node = NodeAt(Len(path))
      /\ \A i \in 1 .. Len(path') : /\ i \in 1 .. Len(path) - 1 /\ i \in 1 .. Len(path)
                                    /\ i < Len(path)
                                    /\ path'[i] = path[i] /\ NodeAt(i)' = NodeAt(i)
                                    /\ NodeAt(i) # Top.node
                                    /\ i < Len(path') => /\ i + 1 \in 1 .. Len(path')
                                                         /\ i + 1 \in 1 .. Len(path)
      /\ \A n : OpenNode(n)' <=> OpenNode(n) /\ n # Top.node
      /\ Linked'
  BY <1>1, PopEffect
<1>5. PICK top : top = Top.node
  OBVIOUS
<1>6. /\ top \in Nodes /\ OnStack(top)
      /\ index[top] \in Nat \ {0} /\ lowLink[top] \in Nat
      /\ lowLink[top] <= index[top]
      /\ \A i \in 1 .. Len(path) - 1 : index[NodeAt(i)] < index[top]
      /\ \A n \in Nodes : OnStack(n) /\ index[top] <= index[n] =>
           /\ Reachable(top, n)
           /\ n = top \/ ~OpenNode(n)
           /\ \A d \in Nodes : DependsOn(n, d) =>
                /\ index[d] # 0
                /\ OnStack(d) => lowLink[top] <= index[d]
  BY <1>5, TopExplored
<1>7. PICK last : last = Len(path)
  OBVIOUS
<1>8. last \in 1 .. Len(path) /\ NodeAt(last) = top
  <2>1. Top = path[last]
    BY <1>1, <1>7, TopFrame
  <2> QED
    BY <1>4, <1>5, <1>7, <2>1 DEF NodeAt
\* The node reaches one that is older, and from there one of the path below it.
<1>9. PICK m \in Nodes : OnStack(m) /\ index[m] = lowLink[top] /\ Reachable(top, m)
  BY <1>8 DEF Finding, LowReached
<1>10. PICK low \in 1 .. Len(path) : index[NodeAt(low)] <= index[m] /\ Reachable(m, NodeAt(low))
  BY <1>9 DEF Finding, Connected
<1>11. \A i \in 1 .. Len(path) :
         /\ NodeAt(i) \in Nodes /\ index[NodeAt(i)] \in Nat /\ lowLink[NodeAt(i)] \in Nat
         /\ path[i].cursor \in Nat /\ Deps(NodeAt(i)) \in Seq(Nodes)
  BY <1>1, OfPath
<1>12. low \in 1 .. Len(path') /\ index[NodeAt(low)] < index[top] /\ Reachable(top, NodeAt(low))
  <2>1. index[NodeAt(low)] < index[top]
    <3>1. lowLink[top] < index[top]
      BY <1>5, <1>6
    <3> QED
      BY <1>6, <1>9, <1>10, <1>11, <3>1
  <2>2. low # last
    BY <1>6, <1>8, <2>1
  <2> QED
    BY <1>1, <1>4, <1>6, <1>7, <1>9, <1>10, <1>11, <2>1, <2>2, ReachableFacts
<1>13. par \in 1 .. Len(path') /\ par = Len(path') /\ Popped # <<>>
  BY <1>4, <1>12
<1>14. /\ lowLink' \in [Nodes -> Nat]
       /\ \A n \in Nodes : n # NodeAt(par) => lowLink'[n] = lowLink[n]
       /\ lowLink'[NodeAt(par)] <= lowLink[NodeAt(par)]
       /\ lowLink'[NodeAt(par)] <= lowLink[top]
       /\ \/ lowLink'[NodeAt(par)] = lowLink[NodeAt(par)]
          \/ lowLink'[NodeAt(par)] = lowLink[top]
  <2>1. lowLink' = [lowLink EXCEPT ![NodeAt(par)] = Lower(@, lowLink[top])]
    BY <1>5, <1>13
  <2>2. par \in 1 .. Len(path)
    BY <1>4, <1>13
  <2>3. NodeAt(par) \in Nodes /\ lowLink[NodeAt(par)] \in Nat /\ lowLink[top] \in Nat
    BY <1>6, <1>11, <2>2
  <2>4. PICK lower : lower = Lower(lowLink[NodeAt(par)], lowLink[top])
    OBVIOUS
  <2>5. /\ lower \in Nat /\ lower <= lowLink[NodeAt(par)] /\ lower <= lowLink[top]
        /\ lower = lowLink[NodeAt(par)] \/ lower = lowLink[top]
    BY <2>3, <2>4 DEF Lower
  <2>6. /\ lowLink' \in [Nodes -> Nat] /\ lowLink'[NodeAt(par)] = lower
        /\ \A n \in Nodes : n # NodeAt(par) => lowLink'[n] = lowLink[n]
    BY <1>1, <2>1, <2>3, <2>4, <2>5
  <2> QED
    BY <2>5, <2>6
<1>15. \A i \in 1 .. Len(path') :
         /\ lowLink'[NodeAt(i)] \in Nat
         /\ lowLink'[NodeAt(i)] <= lowLink[NodeAt(i)]
         /\ i # par => lowLink'[NodeAt(i)] = lowLink[NodeAt(i)]
  <2> SUFFICES ASSUME NEW i \in 1 .. Len(path')
               PROVE  /\ lowLink'[NodeAt(i)] \in Nat
                      /\ lowLink'[NodeAt(i)] <= lowLink[NodeAt(i)]
                      /\ i # par => lowLink'[NodeAt(i)] = lowLink[NodeAt(i)]
    OBVIOUS
  <2>1. i \in 1 .. Len(path) /\ par \in 1 .. Len(path)
    BY <1>4, <1>13
  <2>2. NodeAt(i) = NodeAt(par) => i = par
    BY <1>1, <2>1, OfStack
  <2>3. NodeAt(i) \in Nodes /\ lowLink[NodeAt(i)] \in Nat
    BY <1>11, <2>1
  <2> QED
    BY <1>14, <2>2, <2>3
<1>16. ComponentType'
  BY <1>1, <1>2, <1>4, <1>14 DEF ComponentType
<1>17. Numbered'
  <2>1. \A i \in 1 .. Len(path) : OnStack(NodeAt(i))
    BY <1>1 DEF Numbered
  <2>2. ASSUME NEW i \in 1 .. Len(path') PROVE Contains(stack', NodeAt(i)')
    BY <1>1, <1>4, <2>1 DEF OnStack
  <2>3. \A i, j \in 1 .. Len(path') : i < j => index'[NodeAt(i)'] < index'[NodeAt(j)']
    <3>1. \A i, j \in 1 .. Len(path) : i < j => index[NodeAt(i)] < index[NodeAt(j)]
      BY <1>1 DEF Numbered
    <3> SUFFICES ASSUME NEW i \in 1 .. Len(path'), NEW j \in 1 .. Len(path'), i < j
                 PROVE  index'[NodeAt(i)'] < index'[NodeAt(j)']
      OBVIOUS
    <3>2. i \in 1 .. Len(path) /\ j \in 1 .. Len(path)
      BY <1>4
    <3>3. NodeAt(i)' = NodeAt(i) /\ NodeAt(j)' = NodeAt(j)
      BY <1>4
    <3> QED
      BY <1>1, <3>1, <3>2, <3>3
  <2>4. /\ \A n \in Nodes : index[n] < NextIndex
        /\ \A i \in 1 .. Len(stack) : index[stack[i]] # 0
        /\ \A i, j \in 1 .. Len(stack) : i < j => index[stack[i]] < index[stack[j]]
    BY <1>1 DEF Numbered
  <2> QED
    BY <1>1, <1>2, <1>3, <2>2, <2>3, <2>4 DEF Numbered, OnStack
<1>18. Explored'
  <2>1. ASSUME NEW i \in 1 .. Len(path'), NEW k \in 1 .. Len(Deps(path'[i].node)),
               k < path'[i].cursor
        PROVE  index[Deps(path'[i].node)[k]] # 0
    <3>1. i \in 1 .. Len(path) /\ path'[i] = path[i] /\ path[i].node = NodeAt(i)
      BY <1>4 DEF NodeAt
    <3> QED
      BY <2>1, <3>1 DEF Finding, Explored
  <2>2. ASSUME NEW n \in Nodes, NEW d \in Nodes, index[n] # 0, ~OpenNode(n)', DependsOn(n, d)
        PROVE  index[d] # 0
    <3>1. CASE n = top
      BY <1>6, <2>2, <3>1
    <3>2. CASE n # top
      <4>1. ~OpenNode(n)
        BY <1>4, <1>5, <2>2, <3>2
      <4> QED
        BY <2>2, <4>1 DEF Finding, Explored
    <3> QED
      BY <3>1, <3>2
  <2>3. \A n, d \in Nodes : Gone(n)' /\ DependsOn(n, d) => Gone(d)'
    BY <1>3 DEF Finding, Explored
  <2>4. \A i \in 1 .. Len(path') : \A k \in 1 .. Len(Deps(path'[i].node)) :
          k < path'[i].cursor => index'[Deps(path'[i].node)[k]] # 0
    BY <1>1, <2>1
  <2>5. \A n, d \in Nodes : index'[n] # 0 /\ ~OpenNode(n)' /\ DependsOn(n, d) => index'[d] # 0
    BY <1>1, <2>2
  <2> QED
    BY <1>2, <2>3, <2>4, <2>5 DEF Explored, NodeAt
<1>19. Connected'
  <2>1. ASSUME NEW i \in 1 .. Len(path'), NEW n \in Nodes, OnStack(n),
               index[path'[i].node] <= index[n]
        PROVE  Reachable(path'[i].node, n)
    <3>1. i \in 1 .. Len(path) /\ path'[i].node = NodeAt(i)
      BY <1>4 DEF NodeAt
    <3> QED
      BY <2>1, <3>1 DEF Finding, Connected
  <2>2. ASSUME NEW n \in Nodes, OnStack(n)
        PROVE  \E i \in 1 .. Len(path') :
                 index[path'[i].node] <= index[n] /\ Reachable(n, path'[i].node)
    <3>1. PICK i \in 1 .. Len(path) : index[NodeAt(i)] <= index[n] /\ Reachable(n, NodeAt(i))
      BY <2>2 DEF Finding, Connected
    <3>2. CASE i # last
      <4>1. i \in 1 .. Len(path')
        BY <1>4, <1>7, <3>2
      <4>2. path'[i].node = NodeAt(i)
        BY <1>4, <4>1 DEF NodeAt
      <4> QED
        BY <3>1, <4>1, <4>2
    <3>3. CASE i = last
      <4>1. path'[low].node = NodeAt(low) /\ low \in 1 .. Len(path)
        BY <1>4, <1>12 DEF NodeAt
      <4>2. Reachable(n, NodeAt(low))
        <5>1. Reachable(n, top) /\ Reachable(top, NodeAt(low))
          BY <1>8, <1>12, <3>1, <3>3
        <5>2. NodeAt(low) \in Nodes
          BY <1>11
        <5> QED
          BY <1>1, <1>6, <5>1, <5>2, ReachableFacts
      <4>3. index[NodeAt(low)] <= index[n]
        <5>1. index[top] <= index[n] /\ index[NodeAt(low)] < index[top]
          BY <1>8, <1>12, <3>1, <3>3
        <5>2. index[NodeAt(low)] \in Nat /\ index[n] \in Nat
          BY <1>1, <1>11
        <5> QED
          BY <1>6, <5>1, <5>2
      <4> QED
        BY <1>12, <4>1, <4>2, <4>3
    <3> QED
      BY <3>2, <3>3
  <2>3. \A i \in 1 .. Len(path'), n \in Nodes :
          OnStack(n)' /\ index'[path'[i].node] <= index'[n] => Reachable(path'[i].node, n)
    BY <1>1, <1>3, <2>1
  <2>4. \A n \in Nodes : OnStack(n)' => \E i \in 1 .. Len(path') :
          index'[path'[i].node] <= index'[n] /\ Reachable(n, path'[i].node)
    BY <1>1, <1>3, <2>2
  <2> QED
    BY <1>2, <2>3, <2>4 DEF Connected, NodeAt
<1>20. LowReached'
  <2> SUFFICES ASSUME NEW i \in 1 .. Len(path')
               PROVE  /\ lowLink'[NodeAt(i)'] <= index'[NodeAt(i)']
                      /\ \E n \in Nodes : /\ OnStack(n)' /\ index'[n] = lowLink'[NodeAt(i)']
                                          /\ Reachable(NodeAt(i)', n)
    BY <1>2 DEF LowReached, NodeAt
  <2>1. i \in 1 .. Len(path) /\ NodeAt(i)' = NodeAt(i) /\ i \in 1 .. Len(path) - 1
    BY <1>4
  <2>2. PICK n \in Nodes : /\ OnStack(n) /\ index[n] = lowLink[NodeAt(i)]
                           /\ Reachable(NodeAt(i), n)
    BY <2>1 DEF Finding, LowReached
  <2>3. lowLink'[NodeAt(i)] <= index[NodeAt(i)]
    <3>1. lowLink[NodeAt(i)] <= index[NodeAt(i)]
      BY <2>1 DEF Finding, LowReached
    <3> QED
      BY <1>11, <1>15, <2>1, <3>1
  <2>4. CASE lowLink'[NodeAt(i)] = lowLink[NodeAt(i)]
    BY <1>1, <1>3, <2>1, <2>2, <2>3, <2>4
  <2>5. CASE lowLink'[NodeAt(i)] # lowLink[NodeAt(i)]
    <3>1. i = par /\ lowLink'[NodeAt(i)] = lowLink[top]
      BY <1>14, <1>15, <2>5
    <3>2. index[NodeAt(i)] <= index[top]
      BY <1>6, <1>11, <2>1
    <3>3. Reachable(NodeAt(i), top)
      BY <1>6, <2>1, <3>2 DEF Finding, Connected
    <3>4. Reachable(NodeAt(i), m)
      BY <1>1, <1>6, <1>9, <1>11, <2>1, <3>3, ReachableFacts
    <3> QED
      BY <1>1, <1>3, <1>9, <2>1, <2>3, <3>1, <3>4
  <2> QED
    BY <2>4, <2>5
<1>21. LowBounds'
  <2>1. ASSUME NEW i \in 1 .. Len(path'), NEW k \in 1 .. Len(Deps(path'[i].node)),
               k < path'[i].cursor, i < Len(path') => k < path'[i].cursor - 1,
               OnStack(Deps(path'[i].node)[k])
        PROVE  lowLink'[path'[i].node] <= index[Deps(path'[i].node)[k]]
    <3>1. /\ i \in 1 .. Len(path) /\ path'[i] = path[i] /\ path'[i].node = NodeAt(i)
          /\ i \in 1 .. Len(path) - 1 /\ i < Len(path)
      BY <1>4 DEF NodeAt
    <3>2. PICK d : d = Deps(NodeAt(i))[k]
      OBVIOUS
    <3>3. d \in Nodes /\ index[d] \in Nat
      BY <1>1, <2>1, <3>1, <3>2, OfPath
    <3>4. CASE k < path[i].cursor - 1
      <4>1. k < path[i].cursor
        BY <2>1, <3>1
      <4>2. lowLink[NodeAt(i)] <= index[d]
        BY <2>1, <3>1, <3>2, <3>4, <4>1 DEF Finding, LowBounds
      <4> QED
        <5>1. /\ lowLink'[NodeAt(i)] <= lowLink[NodeAt(i)]
              /\ lowLink'[NodeAt(i)] \in Nat /\ lowLink[NodeAt(i)] \in Nat
          BY <1>11, <1>15, <3>1
        <5>2. lowLink'[NodeAt(i)] <= index[d]
          BY <3>3, <4>2, <5>1
        <5> QED
          BY <3>1, <3>2, <5>2
    <3>5. CASE ~(k < path[i].cursor - 1)
      <4>1. i = par /\ k = path[i].cursor - 1
        <5>1. path[i].cursor \in Nat
          BY <1>11, <3>1
        <5>2. ~(i < Len(path'))
          BY <2>1, <3>1, <3>5
        <5> QED
          BY <1>4, <1>13, <2>1, <3>1, <3>5, <5>1, <5>2
      <4>2. Deps(path[i].node)[path[i].cursor - 1] = path[i + 1].node
        BY <3>1 DEF Finding, Linked
      <4>3. i + 1 = last
        BY <1>4, <1>7, <1>13, <4>1
      <4>4. d = top
        BY <1>8, <3>1, <3>2, <4>1, <4>2, <4>3 DEF NodeAt
      <4> QED
        <5>1. lowLink'[NodeAt(i)] <= lowLink[top] /\ lowLink'[NodeAt(i)] \in Nat
          BY <1>14, <1>15, <4>1
        <5>2. lowLink'[NodeAt(i)] <= index[top]
          BY <1>6, <5>1
        <5> QED
          BY <3>1, <3>2, <4>4, <5>2
    <3> QED
      BY <3>4, <3>5
  <2>2. ASSUME NEW i \in 1 .. Len(path'), NEW n \in Nodes, NEW d \in Nodes,
               OnStack(n), ~OpenNode(n)', DependsOn(n, d), OnStack(d),
               index[path'[i].node] <= index[n],
               i < Len(path') => index[n] < index[path'[i + 1].node]
        PROVE  lowLink'[path'[i].node] <= index[d]
    <3>1. /\ i \in 1 .. Len(path) /\ path'[i].node = NodeAt(i) /\ i \in 1 .. Len(path) - 1
          /\ index[d] \in Nat /\ index[n] \in Nat
      BY <1>1, <1>4 DEF NodeAt
    <3>2. CASE index[top] <= index[n]
      <4>1. lowLink[top] <= index[d]
        BY <1>6, <2>2, <3>2
      <4>2. i = par
        <5> SUFFICES ASSUME i # par PROVE FALSE
          OBVIOUS
        <5>1. i < Len(path')
          BY <1>13
        <5>2. /\ i + 1 \in 1 .. Len(path') /\ i + 1 \in 1 .. Len(path) - 1
              /\ i + 1 \in 1 .. Len(path)
          BY <1>4, <5>1
        <5>3. path'[i + 1].node = NodeAt(i + 1)
          BY <1>4, <5>2 DEF NodeAt
        <5>4. index[NodeAt(i + 1)] < index[top]
          BY <1>6, <5>2
        <5> QED
          <6>1. index[NodeAt(i + 1)] \in Nat /\ index[n] < index[NodeAt(i + 1)]
            BY <1>11, <2>2, <5>1, <5>2, <5>3
          <6> QED
            <7>1. index[top] \in Nat /\ index[n] \in Nat
              BY <1>6, <3>1
            <7> QED
              BY <3>2, <5>4, <6>1, <7>1
      <4>3. /\ lowLink'[NodeAt(i)] <= lowLink[top] /\ lowLink'[NodeAt(i)] \in Nat
            /\ lowLink[top] \in Nat
        BY <1>6, <1>14, <1>15, <4>2
      <4>4. lowLink'[NodeAt(i)] <= index[d]
        BY <3>1, <4>1, <4>3
      <4> QED
        BY <3>1, <4>4
    <3>3. CASE ~(index[top] <= index[n])
      <4>1. ~OpenNode(n)
        BY <1>4, <1>5, <1>6, <2>2, <3>1, <3>3, SMTT(20)
      <4>2. i < Len(path) => index[n] < index[NodeAt(i + 1)]
        <5>1. CASE i = par
          <6>1. i + 1 = last
            BY <1>4, <1>7, <1>13, <5>1
          <6> QED
            BY <1>6, <1>8, <3>1, <3>3, <6>1
        <5>2. CASE i # par
          <6>1. i < Len(path')
            BY <1>13, <5>2
          <6>2. i + 1 \in 1 .. Len(path')
            BY <1>4, <6>1
          <6>3. path'[i + 1].node = NodeAt(i + 1)
            BY <1>4, <6>2 DEF NodeAt
          <6> QED
            BY <2>2, <6>1, <6>3
        <5> QED
          BY <5>1, <5>2
      <4>3. lowLink[NodeAt(i)] <= index[d]
        BY <2>2, <3>1, <4>1, <4>2 DEF Finding, LowBounds
      <4> QED
        <5>1. /\ lowLink'[NodeAt(i)] <= lowLink[NodeAt(i)]
              /\ lowLink'[NodeAt(i)] \in Nat /\ lowLink[NodeAt(i)] \in Nat
          BY <1>11, <1>15, <3>1
        <5>2. lowLink'[NodeAt(i)] <= index[d]
          BY <3>1, <4>3, <5>1
        <5> QED
          BY <3>1, <5>2
    <3> QED
      BY <3>2, <3>3
  <2>3. \A i \in 1 .. Len(path') : \A k \in 1 .. Len(Deps(path'[i].node)) :
          /\ k < path'[i].cursor /\ (i < Len(path') => k < path'[i].cursor - 1)
          /\ OnStack(Deps(path'[i].node)[k])
          => lowLink'[path'[i].node] <= index[Deps(path'[i].node)[k]]
    BY <2>1
  <2>4. \A i \in 1 .. Len(path'), n, d \in Nodes :
          /\ OnStack(n)' /\ ~OpenNode(n)' /\ DependsOn(n, d) /\ OnStack(d)'
          /\ index'[path'[i].node] <= index'[n]
          /\ (i < Len(path') => index'[n] < index'[path'[i + 1].node])
          => lowLink'[path'[i].node] <= index'[d]
    BY <1>1, <1>3, <2>2
  <2>5. \A i \in 1 .. Len(path') : \A k \in 1 .. Len(Deps(path'[i].node)) :
          /\ k < path'[i].cursor /\ (i < Len(path') => k < path'[i].cursor - 1)
          /\ Contains(stack', Deps(path'[i].node)[k])
          => lowLink'[path'[i].node] <= index'[Deps(path'[i].node)[k]]
    BY <1>1, <2>3 DEF OnStack
  <2> QED
    BY <1>2, <2>4, <2>5 DEF LowBounds, NodeAt, OnStack
<1>22. Classes'
  BY <1>1, <1>2, <1>3 DEF Finding, Classes
<1> QED
  BY <1>4, <1>16, <1>17, <1>18, <1>19, <1>20, <1>21, <1>22 DEF Finding

\* A sequence cut in two.
LEMMA CutAt ==
    ASSUME NEW D, NEW s \in Seq(D), NEW k \in 1 .. Len(s)
    PROVE  /\ SubSeq(s, 1, k - 1) \in Seq(D) /\ Len(SubSeq(s, 1, k - 1)) = k - 1
           /\ \A i \in 1 .. k - 1 : SubSeq(s, 1, k - 1)[i] = s[i]
           /\ \A x : Contains(SubSeq(s, 1, k - 1), x) <=> \E i \in 1 .. k - 1 : s[i] = x
           /\ \A x : x \in ToSet(SubSeq(s, k, Len(s))) <=> \E i \in k .. Len(s) : s[i] = x
<1>1. PICK low, high : low = SubSeq(s, 1, k - 1) /\ high = SubSeq(s, k, Len(s))
  OBVIOUS
<1>2. Len(s) \in Nat /\ \A i \in 1 .. Len(s) : s[i] \in D
  OBVIOUS
<1>3. /\ Len(low) = k - 1 /\ DOMAIN low = 1 .. k - 1
      /\ \A i \in 1 .. k - 1 : low[i] = s[i]
      /\ low = [i \in 1 .. k - 1 |-> s[i]]
  BY <1>1
<1>4. low \in Seq(D)
  <2>1. \A i \in 1 .. k - 1 : i \in 1 .. Len(s)
    BY <1>2
  <2>2. \A i \in 1 .. k - 1 : s[i] \in D
    BY <1>2, <2>1
  <2> QED
    BY <1>3, <2>2
<1>5. /\ DOMAIN high = 1 .. Len(s) - k + 1
      /\ \A i \in 1 .. Len(s) - k + 1 : high[i] = s[i + k - 1]
  BY <1>1
<1>6. \A x : Contains(low, x) <=> \E i \in 1 .. k - 1 : s[i] = x
  BY <1>3 DEF Contains
<1>7. ASSUME NEW x PROVE x \in ToSet(high) <=> \E i \in k .. Len(s) : s[i] = x
  <2>1. ASSUME NEW i \in k .. Len(s), s[i] = x PROVE \E j \in DOMAIN high : high[j] = x
    <3>1. PICK j : j = i - k + 1
      OBVIOUS
    <3>2. j \in 1 .. Len(s) - k + 1 /\ j + k - 1 = i
      BY <1>2, <3>1
    <3> QED
      BY <1>5, <2>1, <3>2
  <2>2. ASSUME NEW j \in DOMAIN high, high[j] = x PROVE \E i \in k .. Len(s) : s[i] = x
    <3>1. j + k - 1 \in k .. Len(s) /\ j \in 1 .. Len(s) - k + 1
      BY <1>2, <1>5
    <3> QED
      BY <1>5, <2>2, <3>1
  <2> QED
    BY <2>1, <2>2 DEF ToSet
<1> QED
  BY <1>1, <1>3, <1>4, <1>6, <1>7

\* Closing a component: what lies above its root on the stack.
LEMMA CloseEffect ==
    ASSUME ComponentType, Numbered, NEW at \in 1 .. Len(stack),
           NEW top, stack[at] = top,
           stack' = SubSeq(stack, 1, at - 1), UNCHANGED <<graph, index>>,
           NEW C, C = ToSet(SubSeq(stack, at, Len(stack)))
    PROVE  /\ stack' \in Seq(Nodes) /\ Len(stack') = at - 1
           /\ \A i \in 1 .. Len(stack') : stack'[i] = stack[i] /\ i \in 1 .. Len(stack)
           /\ \A n : OnStack(n)' <=> OnStack(n) /\ index[n] < index[top]
           /\ \A n : n \in C <=> OnStack(n) /\ index[top] <= index[n]
           /\ \A n : Gone(n)' <=> Gone(n) \/ n \in C
           /\ top \in C /\ C \subseteq Nodes
           /\ NextIndex' = NextIndex
<1>1. /\ stack \in Seq(Nodes) /\ Len(stack) \in Nat /\ index \in [Nodes -> Nat]
      /\ graph' = graph /\ index' = index /\ Nodes' = Nodes
      /\ NextIndex' = NextIndex
  BY GraphKept DEF ComponentType, NextIndex
<1>2. PICK low : low = SubSeq(stack, 1, at - 1)
  OBVIOUS
<1>3. /\ low \in Seq(Nodes) /\ Len(low) = at - 1
      /\ \A i \in 1 .. at - 1 : low[i] = stack[i]
      /\ \A n : Contains(low, n) <=> \E i \in 1 .. at - 1 : stack[i] = n
      /\ \A n : n \in C <=> \E i \in at .. Len(stack) : stack[i] = n
  BY <1>1, <1>2, CutAt
<1>4. \A i \in 1 .. Len(stack) :
        /\ stack[i] \in Nodes /\ index[stack[i]] \in Nat
        /\ i < at => index[stack[i]] < index[top]
        /\ at <= i => index[top] <= index[stack[i]]
  <2>1. \A i \in 1 .. Len(stack) : stack[i] \in Nodes /\ index[stack[i]] \in Nat
    BY <1>1
  <2>2. ASSUME NEW i \in 1 .. Len(stack)
        PROVE  /\ i < at => index[stack[i]] < index[top]
               /\ at <= i => index[top] <= index[stack[i]]
    <3>1. i < at => index[stack[i]] < index[top]
      BY DEF Numbered
    <3>2. at < i => index[top] < index[stack[i]]
      BY DEF Numbered
    <3>3. i = at => index[top] <= index[stack[i]]
      BY <2>1
    <3> QED
      BY <2>1, <3>1, <3>2, <3>3
  <2> QED
    BY <2>1, <2>2
<1>5. \A n : OnStack(n) <=> \E i \in 1 .. Len(stack) : stack[i] = n
  BY <1>1 DEF OnStack, Contains
<1>6. ASSUME NEW n PROVE Contains(low, n) <=> OnStack(n) /\ index[n] < index[top]
  <2>1. ASSUME Contains(low, n) PROVE OnStack(n) /\ index[n] < index[top]
    <3>1. PICK i \in 1 .. at - 1 : stack[i] = n
      BY <1>3, <2>1
    <3>2. i \in 1 .. Len(stack) /\ i < at
      BY <1>1
    <3> QED
      BY <1>4, <1>5, <3>1, <3>2
  <2>2. ASSUME OnStack(n), index[n] < index[top] PROVE Contains(low, n)
    <3>1. PICK i \in 1 .. Len(stack) : stack[i] = n
      BY <1>5, <2>2
    <3>2. ~(at <= i)
      BY <1>4, <2>2, <3>1
    <3>3. i \in 1 .. at - 1
      BY <1>1, <3>2
    <3> QED
      BY <1>3, <3>1, <3>3
  <2> QED
    BY <2>1, <2>2
<1>7. \A n : OnStack(n)' <=> OnStack(n) /\ index[n] < index[top]
  BY <1>2, <1>6 DEF OnStack
<1>8. ASSUME NEW n PROVE n \in C <=> OnStack(n) /\ index[top] <= index[n]
  <2>1. ASSUME n \in C PROVE OnStack(n) /\ index[top] <= index[n]
    <3>1. PICK i \in at .. Len(stack) : stack[i] = n
      BY <1>3, <2>1
    <3>2. i \in 1 .. Len(stack) /\ at <= i
      BY <1>1
    <3> QED
      BY <1>4, <1>5, <3>1, <3>2
  <2>2. ASSUME OnStack(n), index[top] <= index[n] PROVE n \in C
    <3>1. PICK i \in 1 .. Len(stack) : stack[i] = n
      BY <1>5, <2>2
    <3>2. ~(i < at)
      BY <1>4, <2>2, <3>1
    <3>3. i \in at .. Len(stack)
      BY <1>1, <3>2
    <3> QED
      BY <1>3, <3>1, <3>3
  <2> QED
    BY <2>1, <2>2
<1>9. \A n : OnStack(n) => n \in Nodes /\ index[n] \in Nat \ {0}
  BY OfStack
<1>10. top \in C /\ C \subseteq Nodes
  BY <1>4, <1>5, <1>8, <1>9
<1>11. ASSUME NEW n PROVE Gone(n)' <=> Gone(n) \/ n \in C
  <2>1. Gone(n)' <=> n \in Nodes /\ index[n] # 0 /\ ~(OnStack(n) /\ index[n] < index[top])
    BY <1>1, <1>7 DEF Gone
  <2>2. n \in Nodes => index[n] \in Nat /\ index[top] \in Nat
    BY <1>1, <1>4
  <2> QED
    BY <1>8, <1>9, <2>1, <2>2 DEF Gone
<1> QED
  BY <1>1, <1>2, <1>3, <1>7, <1>8, <1>10, <1>11

\* What lies on the stack from a node whose low link is its index is its component.
LEMMA ComponentClosed ==
    ASSUME Finding, path # <<>>, ~HasEdge, index[Top.node] = lowLink[Top.node],
           NEW C, \A n : n \in C <=> OnStack(n) /\ index[Top.node] <= index[n]
    PROVE  /\ \A n \in C : C = MutuallyReachable(n)
           /\ \A n \in C, d \in Nodes : DependsOn(n, d) => d \in C \/ Gone(d)
<1>1. /\ ComponentType /\ Numbered /\ IsGraph(graph) /\ index \in [Nodes -> Nat]
  BY DEF Finding, ComponentType
<1>2. PICK top : top = Top.node
  OBVIOUS
<1>3. /\ top \in Nodes /\ OnStack(top)
      /\ index[top] \in Nat \ {0} /\ lowLink[top] = index[top]
      /\ \A i \in 1 .. Len(path) - 1 : index[NodeAt(i)] < index[top]
      /\ \A n \in Nodes : OnStack(n) /\ index[top] <= index[n] =>
           /\ Reachable(top, n)
           /\ n = top \/ ~OpenNode(n)
           /\ \A d \in Nodes : DependsOn(n, d) =>
                /\ index[d] # 0
                /\ OnStack(d) => lowLink[top] <= index[d]
      /\ \A n : n \in C <=> OnStack(n) /\ index[top] <= index[n]
  BY <1>2, TopExplored
<1>4. C \subseteq Nodes /\ top \in C
  BY <1>1, <1>3, OfStack
<1>5. \A n \in C, d \in Nodes : DependsOn(n, d) => d \in C \/ Gone(d)
  BY <1>3, <1>4 DEF Gone
\* The nodes of C and those gone have all they depend on.
<1>6. PICK T : T = {n \in Nodes : n \in C \/ Gone(n)}
  OBVIOUS
<1>7. Closed(T) /\ T \subseteq Nodes
  <2>1. \A n \in Nodes, d \in Nodes : Gone(n) /\ DependsOn(n, d) => Gone(d)
    BY DEF Finding, Explored
  <2> QED
    BY <1>5, <1>6, <2>1 DEF Closed
<1>8. ASSUME NEW n \in C PROVE Reachable(top, n) /\ Reachable(n, top)
  <2>1. n \in Nodes /\ OnStack(n) /\ Reachable(top, n)
    BY <1>3, <1>4
  <2>2. PICK i \in 1 .. Len(path) : index[NodeAt(i)] <= index[n] /\ Reachable(n, NodeAt(i))
    BY <2>1 DEF Finding, Connected
  <2>3. NodeAt(i) \in Nodes
    BY <1>1, OfPath
  <2>4. index[NodeAt(i)] <= index[top]
    <3>1. CASE i \in 1 .. Len(path) - 1
      BY <1>1, <1>3, <2>3, <3>1
    <3>2. CASE i \notin 1 .. Len(path) - 1
      <4>1. i = Len(path) /\ Top = path[i]
        BY <1>1, <3>2, TopFrame
      <4>2. NodeAt(i) = top
        BY <1>2, <4>1 DEF NodeAt
      <4> QED
        BY <1>3, <4>2
    <3> QED
      BY <3>1, <3>2
  <2>5. Reachable(NodeAt(i), top)
    BY <1>3, <2>4 DEF Finding, Connected
  <2> QED
    BY <1>1, <1>3, <2>1, <2>2, <2>3, <2>5, ReachableFacts
<1>9. ASSUME NEW n \in C PROVE C = MutuallyReachable(n)
  <2>1. ASSUME NEW m \in C PROVE m \in MutuallyReachable(n)
    <3>1. m \in Nodes /\ n \in Nodes /\ top \in Nodes
      BY <1>4
    <3>2. Reachable(n, m) /\ Reachable(m, n)
      BY <1>1, <1>8, <3>1, ReachableFacts
    <3> QED
      BY <3>1, <3>2 DEF MutuallyReachable
  <2>2. ASSUME NEW m \in MutuallyReachable(n) PROVE m \in C
    <3>1. m \in Nodes /\ Reachable(n, m) /\ Reachable(m, n) /\ n \in Nodes
      BY <1>4 DEF MutuallyReachable
    <3>2. m \in T
      BY <1>1, <1>6, <1>7, <3>1, ReachableFacts
    <3>3. ASSUME Gone(m) PROVE FALSE
      <4>1. PICK G : G = {x \in Nodes : Gone(x)}
        OBVIOUS
      <4>2. Closed(G) /\ G \subseteq Nodes /\ m \in G
        BY <3>1, <3>3, <4>1 DEF Closed, Finding, Explored
      <4>3. n \in G
        BY <1>1, <3>1, <4>2, ReachableFacts
      <4> QED
        BY <1>3, <4>1, <4>3 DEF Gone
    <3> QED
      BY <1>6, <3>2, <3>3
  <2> QED
    BY <2>1, <2>2
<1> QED
  BY <1>5, <1>9

\* Leaving the root of a component, which is taken off the stack.
LEMMA CloseComponentStep ==
    ASSUME Finding, path # <<>>, ~HasEdge, path' = Popped,
           index[Top.node] = lowLink[Top.node],
           NEW at \in 1 .. Len(stack), stack[at] = Top.node,
           stack' = SubSeq(stack, 1, at - 1),
           components' = Append(components, ToSet(SubSeq(stack, at, Len(stack)))),
           UNCHANGED <<graph, index>>,
           NEW par, par = Len(path) - 1,
           Popped = <<>> => lowLink' = lowLink,
           Popped # <<>> =>
             lowLink' = [lowLink EXCEPT ![NodeAt(par)] = Lower(@, lowLink[Top.node])]
    PROVE  Finding'
<1>1. /\ ComponentType /\ Numbered /\ IsGraph(graph) /\ graph' = graph
      /\ path \in Seq(FrameType) /\ stack \in Seq(Nodes) /\ index \in [Nodes -> Nat]
      /\ lowLink \in [Nodes -> Nat] /\ components \in Seq(SUBSET Nodes)
      /\ index' = index
  BY DEF Finding, ComponentType
<1>2. /\ Nodes' = Nodes /\ FrameType' = FrameType /\ (\A n : Deps(n)' = Deps(n))
      /\ (\A n, d : DependsOn(n, d)' <=> DependsOn(n, d))
      /\ (\A a, b : Reachable(a, b)' <=> Reachable(a, b))
      /\ (\A n : MutuallyReachable(n)' = MutuallyReachable(n))
      /\ IsGraph(graph)'
  BY <1>1, GraphKept
<1>3. PICK top, C : top = Top.node /\ C = ToSet(SubSeq(stack, at, Len(stack)))
  OBVIOUS
<1>4. /\ stack' \in Seq(Nodes)
      /\ \A i \in 1 .. Len(stack') : stack'[i] = stack[i] /\ i \in 1 .. Len(stack)
      /\ \A n : OnStack(n)' <=> OnStack(n) /\ index[n] < index[top]
      /\ \A n : n \in C <=> OnStack(n) /\ index[top] <= index[n]
      /\ \A n : Gone(n)' <=> Gone(n) \/ n \in C
      /\ top \in C /\ C \subseteq Nodes
      /\ NextIndex' = NextIndex
  <2>1. /\ ComponentType /\ Numbered /\ stack[at] = top /\ UNCHANGED <<graph, index>>
        /\ stack' = SubSeq(stack, 1, at - 1) /\ C = ToSet(SubSeq(stack, at, Len(stack)))
    BY <1>1, <1>3
  <2>2. /\ stack' \in Seq(Nodes) /\ Len(stack') = at - 1
        /\ \A i \in 1 .. Len(stack') : stack'[i] = stack[i] /\ i \in 1 .. Len(stack)
        /\ \A n : OnStack(n)' <=> OnStack(n) /\ index[n] < index[top]
        /\ \A n : n \in C <=> OnStack(n) /\ index[top] <= index[n]
        /\ \A n : Gone(n)' <=> Gone(n) \/ n \in C
        /\ top \in C /\ C \subseteq Nodes
        /\ NextIndex' = NextIndex
    BY <2>1, CloseEffect
  <2> QED
    BY <2>2
<1>5. /\ path' \in Seq(FrameType) /\ Len(path) \in Nat \ {0} /\ Len(path') = Len(path) - 1
      /\ Top.node = NodeAt(Len(path))
      /\ \A i \in 1 .. Len(path') : /\ i \in 1 .. Len(path) - 1 /\ i \in 1 .. Len(path)
                                    /\ i < Len(path)
                                    /\ path'[i] = path[i] /\ NodeAt(i)' = NodeAt(i)
                                    /\ NodeAt(i) # Top.node
                                    /\ i < Len(path') => /\ i + 1 \in 1 .. Len(path')
                                                         /\ i + 1 \in 1 .. Len(path)
      /\ \A n : OpenNode(n)' <=> OpenNode(n) /\ n # Top.node
      /\ Linked'
  BY <1>1, PopEffect
<1>6. /\ top \in Nodes /\ OnStack(top)
      /\ index[top] \in Nat \ {0} /\ lowLink[top] = index[top]
      /\ \A i \in 1 .. Len(path) - 1 : index[NodeAt(i)] < index[top]
      /\ \A n \in Nodes : OnStack(n) /\ index[top] <= index[n] =>
           /\ n = top \/ ~OpenNode(n)
           /\ \A d \in Nodes : DependsOn(n, d) => index[d] # 0
  BY <1>3, TopExplored
<1>7. /\ \A n \in C : C = MutuallyReachable(n)
      /\ \A n \in C, d \in Nodes : DependsOn(n, d) => d \in C \/ Gone(d)
  <2>1. \A n : n \in C <=> OnStack(n) /\ index[Top.node] <= index[n]
    BY <1>3, <1>4
  <2>2. index[Top.node] = lowLink[Top.node]
    OBVIOUS
  <2> QED
    BY <2>1, <2>2, ComponentClosed
<1>8. PICK last : last = Len(path)
  OBVIOUS
<1>9. last \in 1 .. Len(path) /\ NodeAt(last) = top
  <2>1. Top = path[last]
    BY <1>1, <1>8, TopFrame
  <2> QED
    BY <1>3, <1>5, <1>8, <2>1 DEF NodeAt
<1>10. \A i \in 1 .. Len(path') :
         /\ i \in 1 .. Len(path) /\ i \in 1 .. Len(path) - 1
         /\ NodeAt(i) \in Nodes /\ index[NodeAt(i)] \in Nat /\ lowLink[NodeAt(i)] \in Nat
         /\ path[i].cursor \in Nat /\ Deps(NodeAt(i)) \in Seq(Nodes)
         /\ index[NodeAt(i)] < index[top]
         /\ path'[i] = path[i] /\ NodeAt(i)' = NodeAt(i) /\ path'[i].node = NodeAt(i)
  <2> SUFFICES ASSUME NEW i \in 1 .. Len(path')
               PROVE  /\ i \in 1 .. Len(path) /\ i \in 1 .. Len(path) - 1
                      /\ NodeAt(i) \in Nodes /\ index[NodeAt(i)] \in Nat
                      /\ lowLink[NodeAt(i)] \in Nat
                      /\ path[i].cursor \in Nat /\ Deps(NodeAt(i)) \in Seq(Nodes)
                      /\ index[NodeAt(i)] < index[top]
                      /\ path'[i] = path[i] /\ NodeAt(i)' = NodeAt(i)
                      /\ path'[i].node = NodeAt(i)
    OBVIOUS
  <2>1. i \in 1 .. Len(path) /\ i \in 1 .. Len(path) - 1
        /\ path'[i] = path[i] /\ NodeAt(i)' = NodeAt(i)
    BY <1>5
  <2>2. NodeAt(i) \in Nodes /\ path[i].cursor \in Nat /\ Deps(NodeAt(i)) \in Seq(Nodes)
    BY <1>1, <2>1, OfPath
  <2>3. path'[i].node = NodeAt(i)
    BY <2>1 DEF NodeAt
  <2> QED
    BY <1>1, <1>6, <2>1, <2>2, <2>3
\* The parent has no higher low link than its index, which is lower.
<1>11. lowLink' = lowLink
  <2>1. CASE Popped = <<>>
    BY <2>1
  <2>2. CASE Popped # <<>>
    <3>1. par \in 1 .. Len(path')
      BY <1>5, <2>2
    <3>2. lowLink[NodeAt(par)] <= index[NodeAt(par)] /\ index[NodeAt(par)] < index[top]
          /\ lowLink[NodeAt(par)] \in Nat /\ index[NodeAt(par)] \in Nat
      BY <1>10, <3>1 DEF Finding, LowReached
    <3>3. Lower(lowLink[NodeAt(par)], lowLink[top]) = lowLink[NodeAt(par)]
      BY <1>6, <3>2 DEF Lower
    <3>4. lowLink' = [lowLink EXCEPT ![NodeAt(par)] = Lower(@, lowLink[top])]
      BY <1>3, <2>2
    <3> QED
      BY <1>1, <3>3, <3>4
  <2> QED
    BY <2>1, <2>2
<1>12. ComponentType'
  <2>1. components' = Append(components, C) /\ C \in SUBSET Nodes
    BY <1>3, <1>4
  <2>2. components' \in Seq(SUBSET Nodes)
    BY <1>1, <2>1
  <2> QED
    BY <1>1, <1>2, <1>4, <1>5, <1>11, <2>2 DEF ComponentType
<1>13. Numbered'
  <2>1. \A i \in 1 .. Len(path) : OnStack(NodeAt(i))
    BY <1>1 DEF Numbered
  <2>2. ASSUME NEW i \in 1 .. Len(path') PROVE Contains(stack', NodeAt(i)')
    <3>1. \A n : Contains(stack', n) <=> OnStack(n) /\ index[n] < index[top]
      BY <1>4 DEF OnStack
    <3>2. NodeAt(i)' = NodeAt(i) /\ OnStack(NodeAt(i)) /\ index[NodeAt(i)] < index[top]
      BY <1>10, <2>1
    <3> QED
      BY <3>1, <3>2
  <2>3. \A i, j \in 1 .. Len(path') : i < j => index'[NodeAt(i)'] < index'[NodeAt(j)']
    <3>1. \A i, j \in 1 .. Len(path) : i < j => index[NodeAt(i)] < index[NodeAt(j)]
      BY <1>1 DEF Numbered
    <3> SUFFICES ASSUME NEW i \in 1 .. Len(path'), NEW j \in 1 .. Len(path'), i < j
                 PROVE  index'[NodeAt(i)'] < index'[NodeAt(j)']
      OBVIOUS
    <3>2. i \in 1 .. Len(path) /\ j \in 1 .. Len(path)
      BY <1>10
    <3>3. NodeAt(i)' = NodeAt(i) /\ NodeAt(j)' = NodeAt(j)
      BY <1>10
    <3> QED
      BY <1>1, <3>1, <3>2, <3>3
  <2>4. /\ \A n \in Nodes : index[n] < NextIndex
        /\ \A i \in 1 .. Len(stack') : index[stack'[i]] # 0
        /\ \A i, j \in 1 .. Len(stack') : i < j => index[stack'[i]] < index[stack'[j]]
    BY <1>1, <1>4 DEF Numbered
  <2> QED
    BY <1>1, <1>2, <1>4, <2>2, <2>3, <2>4 DEF Numbered, OnStack
<1>14. Explored'
  <2>1. ASSUME NEW i \in 1 .. Len(path'), NEW k \in 1 .. Len(Deps(path'[i].node)),
               k < path'[i].cursor
        PROVE  index[Deps(path'[i].node)[k]] # 0
    <3>1. i \in 1 .. Len(path) /\ path'[i] = path[i] /\ path[i].node = NodeAt(i)
      BY <1>10
    <3> QED
      BY <2>1, <3>1 DEF Finding, Explored
  <2>2. ASSUME NEW n \in Nodes, NEW d \in Nodes, index[n] # 0, ~OpenNode(n)', DependsOn(n, d)
        PROVE  index[d] # 0
    <3>1. CASE n = top
      BY <1>6, <2>2, <3>1
    <3>2. CASE n # top
      <4>1. ~OpenNode(n)
        BY <1>3, <1>5, <2>2, <3>2
      <4> QED
        BY <2>2, <4>1 DEF Finding, Explored
    <3> QED
      BY <3>1, <3>2
  <2>3. ASSUME NEW n \in Nodes, NEW d \in Nodes, Gone(n)', DependsOn(n, d) PROVE Gone(d)'
    <3>1. CASE Gone(n)
      BY <1>4, <2>3, <3>1 DEF Finding, Explored
    <3>2. CASE n \in C
      BY <1>4, <1>7, <2>3, <3>2
    <3>3. Gone(n) \/ n \in C
      BY <1>4, <2>3
    <3> QED
      BY <3>1, <3>2, <3>3
  <2>4. \A i \in 1 .. Len(path') : \A k \in 1 .. Len(Deps(path'[i].node)) :
          k < path'[i].cursor => index'[Deps(path'[i].node)[k]] # 0
    BY <1>1, <2>1, SMTT(20)
  <2>5. \A n, d \in Nodes : index'[n] # 0 /\ ~OpenNode(n)' /\ DependsOn(n, d) => index'[d] # 0
    BY <1>1, <2>2
  <2>6. \A n, d \in Nodes : Gone(n)' /\ DependsOn(n, d) => Gone(d)'
    BY <2>3
  <2> QED
    BY <1>2, <2>4, <2>5, <2>6 DEF Explored, NodeAt
<1>15. Connected'
  <2>1. ASSUME NEW i \in 1 .. Len(path'), NEW n \in Nodes, OnStack(n)',
               index[path'[i].node] <= index[n]
        PROVE  Reachable(path'[i].node, n)
    <3>1. i \in 1 .. Len(path) /\ path'[i].node = NodeAt(i) /\ OnStack(n)
      BY <1>4, <1>10, <2>1
    <3> QED
      BY <2>1, <3>1 DEF Finding, Connected
  <2>2. ASSUME NEW n \in Nodes, OnStack(n)'
        PROVE  \E i \in 1 .. Len(path') :
                 index[path'[i].node] <= index[n] /\ Reachable(n, path'[i].node)
    <3>1. OnStack(n) /\ index[n] < index[top] /\ index[n] \in Nat
      BY <1>1, <1>4, <2>2
    <3>2. PICK i \in 1 .. Len(path) : index[NodeAt(i)] <= index[n] /\ Reachable(n, NodeAt(i))
      BY <3>1 DEF Finding, Connected
    <3>3. i # last
      BY <1>6, <1>9, <3>1, <3>2
    <3>4. i \in 1 .. Len(path')
      BY <1>5, <1>8, <3>3
    <3>5. path'[i].node = NodeAt(i)
      BY <1>10, <3>4
    <3> QED
      BY <3>2, <3>4, <3>5
  <2>3. \A i \in 1 .. Len(path'), n \in Nodes :
          OnStack(n)' /\ index'[path'[i].node] <= index'[n] => Reachable(path'[i].node, n)
    BY <1>1, <2>1
  <2>4. \A n \in Nodes : OnStack(n)' => \E i \in 1 .. Len(path') :
          index'[path'[i].node] <= index'[n] /\ Reachable(n, path'[i].node)
    BY <1>1, <2>2
  <2> QED
    BY <1>2, <2>3, <2>4 DEF Connected, NodeAt
<1>16. LowReached'
  <2> SUFFICES ASSUME NEW i \in 1 .. Len(path')
               PROVE  /\ lowLink'[NodeAt(i)'] <= index'[NodeAt(i)']
                      /\ \E m \in Nodes : /\ OnStack(m)' /\ index'[m] = lowLink'[NodeAt(i)']
                                          /\ Reachable(NodeAt(i)', m)
    BY <1>2 DEF LowReached, NodeAt
  <2>1. /\ i \in 1 .. Len(path) /\ NodeAt(i)' = NodeAt(i) /\ index[NodeAt(i)] < index[top]
        /\ lowLink[NodeAt(i)] \in Nat /\ index[NodeAt(i)] \in Nat
    BY <1>10
  <2>2. PICK m \in Nodes : /\ OnStack(m) /\ index[m] = lowLink[NodeAt(i)]
                           /\ Reachable(NodeAt(i), m)
    BY <2>1 DEF Finding, LowReached
  <2>3. lowLink[NodeAt(i)] <= index[NodeAt(i)]
    BY <2>1 DEF Finding, LowReached
  <2>4. OnStack(m)'
    <3>1. index[m] < index[top]
      BY <1>6, <2>1, <2>2, <2>3
    <3> QED
      BY <1>4, <2>2, <3>1
  <2> QED
    BY <1>1, <1>11, <2>1, <2>2, <2>3, <2>4
<1>17. LowBounds'
  <2>1. ASSUME NEW i \in 1 .. Len(path'), NEW k \in 1 .. Len(Deps(path'[i].node)),
               k < path'[i].cursor, i < Len(path') => k < path'[i].cursor - 1,
               NEW d, d = Deps(path'[i].node)[k], OnStack(d)'
        PROVE  lowLink[path'[i].node] <= index[d]
    <3>1. /\ i \in 1 .. Len(path) /\ i \in 1 .. Len(path) - 1
          /\ path'[i] = path[i] /\ path'[i].node = NodeAt(i) /\ path[i].node = NodeAt(i)
          /\ path[i].cursor \in Nat /\ index[NodeAt(i)] < index[top]
      BY <1>10
    <3>2. OnStack(d) /\ index[d] < index[top] /\ d = Deps(NodeAt(i))[k]
      BY <1>4, <2>1, <3>1
    <3>3. k < path[i].cursor - 1
      <4>1. CASE i < Len(path')
        BY <2>1, <3>1, <4>1
      <4>2. CASE i = Len(path')
        <5>1. i + 1 = last
          BY <1>5, <1>8, <4>2
        <5>2. Deps(path[i].node)[path[i].cursor - 1] = path[i + 1].node
          BY <3>1 DEF Finding, Linked
        <5>3. Deps(NodeAt(i))[path[i].cursor - 1] = top
          BY <1>9, <3>1, <5>1, <5>2 DEF NodeAt
        <5>4. index[top] \in Nat /\ d # top
          BY <1>6, <3>2
        <5>5. k # path[i].cursor - 1
          BY <3>2, <5>3, <5>4
        <5>6. k < path[i].cursor /\ path[i].cursor \in Nat
          BY <2>1, <3>1
        <5>7. k \in Nat
          <6>1. Deps(NodeAt(i)) \in Seq(Nodes)
            BY <1>10
          <6>2. Len(Deps(NodeAt(i))) \in Nat
            BY <6>1
          <6> QED
            BY <3>1, <6>2
        <5> QED
          BY <5>5, <5>6, <5>7, SMTT(20)
      <4>3. i < Len(path') \/ i = Len(path')
        BY <1>5
      <4> QED
        BY <4>1, <4>2, <4>3
    <3>4. k < path[i].cursor
      BY <2>1, <3>1
    <3>5. lowLink[NodeAt(i)] <= index[d]
      BY <2>1, <3>1, <3>2, <3>3, <3>4 DEF Finding, LowBounds
    <3> QED
      BY <3>1, <3>5
  <2>2. ASSUME NEW i \in 1 .. Len(path'), NEW n \in Nodes, NEW d \in Nodes,
               OnStack(n)', ~OpenNode(n)', DependsOn(n, d), OnStack(d)',
               index[path'[i].node] <= index[n],
               i < Len(path') => index[n] < index[path'[i + 1].node]
        PROVE  lowLink[path'[i].node] <= index[d]
    <3>1. i \in 1 .. Len(path) /\ path'[i].node = NodeAt(i)
      BY <1>10
    <3>2. /\ OnStack(n) /\ OnStack(d) /\ index[n] < index[top] /\ n # top
          /\ index[n] \in Nat
      BY <1>1, <1>4, <1>6, <2>2
    <3>3. ~OpenNode(n)
      BY <1>3, <1>5, <2>2, <3>2
    <3>4. i < Len(path) => index[n] < index[NodeAt(i + 1)]
      <4>1. CASE i = Len(path')
        <5>1. i + 1 = last
          BY <1>5, <1>8, <4>1
        <5> QED
          BY <1>9, <3>2, <5>1
      <4>2. CASE i < Len(path')
        <5>1. i + 1 \in 1 .. Len(path')
          BY <1>5, <4>2
        <5>2. path'[i + 1].node = NodeAt(i + 1)
          BY <1>10, <5>1
        <5> QED
          BY <2>2, <4>2, <5>2
      <4>3. i < Len(path') \/ i = Len(path')
        BY <1>5
      <4> QED
        BY <4>1, <4>2, <4>3
    <3>5. lowLink[NodeAt(i)] <= index[d]
      BY <2>2, <3>1, <3>2, <3>3, <3>4 DEF Finding, LowBounds
    <3> QED
      BY <3>1, <3>5
  <2>3. \A i \in 1 .. Len(path') : \A k \in 1 .. Len(Deps(path'[i].node)) :
          /\ k < path'[i].cursor /\ (i < Len(path') => k < path'[i].cursor - 1)
          /\ Contains(stack', Deps(path'[i].node)[k])
          => lowLink'[path'[i].node] <= index'[Deps(path'[i].node)[k]]
    <3> SUFFICES ASSUME NEW i \in 1 .. Len(path'), NEW k \in 1 .. Len(Deps(path'[i].node)),
                        k < path'[i].cursor, i < Len(path') => k < path'[i].cursor - 1,
                        Contains(stack', Deps(path'[i].node)[k])
                 PROVE  lowLink'[path'[i].node] <= index'[Deps(path'[i].node)[k]]
      OBVIOUS
    <3>1. PICK d : d = Deps(path'[i].node)[k]
      OBVIOUS
    <3>2. OnStack(d)'
      BY <3>1 DEF OnStack
    <3> QED
      BY <1>1, <1>11, <2>1, <3>1, <3>2
  <2>4. \A i \in 1 .. Len(path'), n, d \in Nodes :
          /\ OnStack(n)' /\ ~OpenNode(n)' /\ DependsOn(n, d) /\ OnStack(d)'
          /\ index'[path'[i].node] <= index'[n]
          /\ (i < Len(path') => index'[n] < index'[path'[i + 1].node])
          => lowLink'[path'[i].node] <= index'[d]
    BY <1>1, <1>11, <2>2
  <2> QED
    BY <1>2, <2>3, <2>4 DEF LowBounds, NodeAt, OnStack
<1>18. Classes'
  <2>1. PICK many : many = Len(components)
    OBVIOUS
  <2>2. /\ many \in Nat /\ Len(components') = many + 1 /\ components'[many + 1] = C
        /\ \A i \in 1 .. many : components'[i] = components[i]
    BY <1>1, <1>3, <2>1
  <2>3. \A i \in 1 .. Len(components') : i \in 1 .. many \/ i = many + 1
    BY <2>2
  <2>4. \A i \in 1 .. Len(components') : components'[i] # {}
    BY <1>4, <2>1, <2>2, <2>3 DEF Finding, Classes
  <2>5. ASSUME NEW i \in 1 .. Len(components'), NEW n \in components'[i]
        PROVE  Gone(n)' /\ components'[i] = MutuallyReachable(n)
    <3>1. CASE i \in 1 .. many
      <4>1. n \in components[i] /\ components'[i] = components[i]
        BY <2>2, <2>5, <3>1
      <4>2. Gone(n) /\ components[i] = MutuallyReachable(n)
        BY <2>1, <3>1, <4>1 DEF Finding, Classes
      <4> QED
        BY <1>4, <4>1, <4>2
    <3>2. CASE i = many + 1
      <4>1. n \in C /\ components'[i] = C
        BY <2>2, <2>5, <3>2
      <4> QED
        BY <1>4, <1>7, <4>1
    <3> QED
      BY <2>3, <3>1, <3>2
  <2>6. ASSUME NEW n \in Nodes, Gone(n)'
        PROVE  \E i \in 1 .. Len(components') : n \in components'[i]
    <3>1. CASE Gone(n)
      <4>1. PICK i \in 1 .. many : n \in components[i]
        BY <2>1, <3>1 DEF Finding, Classes
      <4> QED
        BY <2>2, <4>1
    <3>2. CASE n \in C
      BY <2>2, <3>2
    <3> QED
      BY <1>4, <2>6, <3>1, <3>2
  <2>7. \A i \in 1 .. Len(components') : \A n \in components'[i] :
          Gone(n)' /\ components'[i] = MutuallyReachable(n)
    BY <2>5
  <2>8. \A n \in Nodes : Gone(n)' => \E i \in 1 .. Len(components') : n \in components'[i]
    BY <2>6
  <2> QED
    BY <1>2, <2>4, <2>7, <2>8 DEF Classes
<1> QED
  BY <1>5, <1>12, <1>13, <1>14, <1>15, <1>16, <1>17, <1>18 DEF Finding

LEMMA EnterRootStep == ASSUME Finding, EnterRoot PROVE Finding'
<1>1. PICK root \in Nodes : index[root] = 0 /\ EnterComponent(root, path)
  BY DEF EnterRoot
<1>2. path = <<>> /\ UNCHANGED <<graph, components>> /\ path \in Seq(FrameType)
  BY DEF EnterRoot, Finding, ComponentType
<1> QED
  BY <1>1, <1>2, EnterComponentStep

LEMMA FollowDependencyStep == ASSUME Finding, FollowDependency PROVE Finding'
<1>1. /\ path # <<>> /\ HasEdge /\ UNCHANGED <<graph, components>>
      /\ ComponentType /\ Numbered
      /\ index \in [Nodes -> Nat] /\ lowLink \in [Nodes -> Nat]
  BY DEF FollowDependency, Finding, ComponentType
<1>2. Top.node \in Nodes /\ Edge \in Nodes /\ lowLink[Top.node] \in Nat /\ index[Edge] \in Nat
  BY <1>1, TopFrame
<1>3. CASE index[Edge] = 0
  <2>1. EnterComponent(Edge, Advanced)
    BY <1>3 DEF FollowDependency
  <2>2. /\ Advanced \in Seq(FrameType) /\ Len(Advanced) = Len(path)
        /\ \A i \in 1 .. Len(path) - 1 : Advanced[i] = path[i]
        /\ Advanced[Len(path)].cursor = Top.cursor + 1
        /\ \A i \in 1 .. Len(path) : Advanced[i].node = path[i].node
    BY <1>1, MovedOn
  <2>3. PICK node, p : node = Edge /\ p = Advanced
    OBVIOUS
  <2>4. /\ node \in Nodes /\ index[node] = 0 /\ EnterComponent(node, p)
        /\ p \in Seq(FrameType) /\ Len(p) = Len(path)
        /\ \A i \in 1 .. Len(path) : p[i].node = path[i].node
        /\ \A i \in 1 .. Len(path) - 1 : p[i] = path[i]
        /\ path # <<>> => HasEdge /\ Edge = node /\ p[Len(path)].cursor = Top.cursor + 1
    BY <1>1, <1>2, <1>3, <2>1, <2>2, <2>3
  <2> QED
    BY <1>1, <2>4, EnterComponentStep
<1>4. CASE index[Edge] # 0 /\ OnStack(Edge)
  <2>1. /\ lowLink' = [lowLink EXCEPT ![Top.node] = Lower(@, index[Edge])]
        /\ path' = Advanced /\ index' = index /\ stack' = stack
    BY <1>4 DEF FollowDependency, OnStack
  <2>2. /\ lowLink' \in [Nodes -> Nat]
        /\ \A n \in Nodes : n # Top.node => lowLink'[n] = lowLink[n]
        /\ lowLink'[Top.node] <= lowLink[Top.node] /\ lowLink'[Top.node] <= index[Edge]
        /\ lowLink'[Top.node] = lowLink[Top.node] \/ lowLink'[Top.node] = index[Edge]
    BY <1>1, <1>2, <2>1 DEF Lower
  <2> QED
    BY <1>1, <1>4, <2>1, <2>2, AdvanceStep
<1>5. CASE index[Edge] # 0 /\ ~OnStack(Edge)
  <2>1. path' = Advanced /\ index' = index /\ stack' = stack /\ lowLink' = lowLink
    BY <1>5 DEF FollowDependency, OnStack
  <2>2. lowLink'[Top.node] <= lowLink[Top.node]
    BY <1>2, <2>1
  <2> QED
    BY <1>1, <1>5, <2>1, <2>2, AdvanceStep
<1> QED
  BY <1>3, <1>4, <1>5

LEMMA CloseNodeStep == ASSUME Finding, CloseNode PROVE Finding'
<1>1. /\ path # <<>> /\ ~HasEdge /\ path' = Popped /\ UNCHANGED <<graph, index>>
      /\ ComponentType /\ Numbered
  BY DEF CloseNode, Finding
<1>2. PICK par : par = Len(path) - 1
  OBVIOUS
<1>3. Popped = <<>> => lowLink' = lowLink
  BY DEF CloseNode
<1>4. Popped # <<>> =>
        lowLink' = [lowLink EXCEPT ![NodeAt(par)] = Lower(@, lowLink[Top.node])]
  <2> SUFFICES ASSUME Popped # <<>>
               PROVE  lowLink' = [lowLink EXCEPT ![NodeAt(par)] = Lower(@, lowLink[Top.node])]
    OBVIOUS
  <2>1. lowLink' = [lowLink EXCEPT ![Popped[Len(Popped)].node] = Lower(@, lowLink[Top.node])]
    BY DEF CloseNode
  <2>2. Len(Popped) = par /\ Len(path) \in Nat \ {0} /\ par \in 1 .. Len(path) - 1
    <3>1. /\ Popped \in Seq(FrameType) /\ Len(Popped) = Len(path) - 1
          /\ Len(path) \in Nat \ {0}
      BY <1>1, PoppedIs, TopFrame
    <3> QED
      BY <1>2, <3>1
  <2>3. Popped[Len(Popped)] = path[par]
    BY <1>1, <2>2, PoppedIs
  <2>4. Popped[Len(Popped)].node = NodeAt(par)
    BY <2>3 DEF NodeAt
  <2> QED
    BY <2>1, <2>4
<1>5. CASE index[Top.node] # lowLink[Top.node]
  <2>1. stack' = stack /\ components' = components
    BY <1>5 DEF CloseNode
  <2> QED
    BY <1>1, <1>2, <1>3, <1>4, <1>5, <2>1, PassLowLinkStep
<1>6. CASE index[Top.node] = lowLink[Top.node]
  <2>1. PICK at \in DOMAIN stack :
          /\ stack[at] = Top.node
          /\ stack' = SubSeq(stack, 1, at - 1)
          /\ components' = Append(components, ToSet(SubSeq(stack, at, Len(stack))))
    BY <1>6 DEF CloseNode
  <2>2. at \in 1 .. Len(stack)
    BY <1>1 DEF ComponentType
  <2> QED
    BY <1>1, <1>2, <1>3, <1>4, <1>6, <2>1, <2>2, CloseComponentStep
<1> QED
  BY <1>5, <1>6

\* A search starts with nothing found.
LEMMA CyclicComponentsStep ==
    ASSUME IsGraph(graph'), CyclicComponents(graph') PROVE Finding'
<1>1. /\ index' = [n \in Nodes' |-> 0] /\ lowLink' = [n \in Nodes' |-> 0]
      /\ stack' = <<>> /\ components' = <<>> /\ path' = <<>>
  BY DEF CyclicComponents, Nodes
<1>2. \A n : ~Contains(stack', n)
  BY <1>1 DEF Contains
<1>3. \A n : ~Gone(n)'
  BY <1>1 DEF Gone
<1>4. ComponentType'
  BY <1>1 DEF ComponentType
<1>5. Numbered'
  <2>1. NextIndex' = 1
    <3>1. {n \in Nodes' : index'[n] # 0} = {}
      BY <1>1
    <3> QED
      BY <3>1, FS_EmptySet DEF NextIndex
  <2> QED
    BY <1>1, <2>1 DEF Numbered
<1>6. Linked' /\ LowReached'
  BY <1>1 DEF Linked, LowReached
<1>7. Explored'
  BY <1>1, <1>3 DEF Explored
<1>8. Connected'
  BY <1>1, <1>2 DEF Connected, OnStack
<1>9. LowBounds'
  BY <1>1 DEF LowBounds
<1>10. Classes'
  BY <1>1, <1>3 DEF Classes
<1> QED
  BY <1>4, <1>5, <1>6, <1>7, <1>8, <1>9, <1>10 DEF Finding

\* Another node is reached through a dependency.
LEMMA FirstEdge ==
    ASSUME IsGraph(graph), NEW a \in Nodes, NEW b \in Nodes, a # b, Reachable(a, b)
    PROVE  \E m \in Nodes : DependsOn(a, m) /\ Reachable(m, b)
<1>1. PICK T : T = {x \in Nodes : x = a \/ \E m \in Nodes : DependsOn(a, m) /\ Reachable(m, x)}
  OBVIOUS
<1>2. ASSUME NEW n \in T, NEW d \in Nodes, DependsOn(n, d) PROVE d \in T
  <2>1. n \in Nodes /\ Reachable(n, d) /\ Reachable(d, d)
    BY <1>1, <1>2, ReachableFacts
  <2>2. CASE n = a
    BY <1>1, <1>2, <2>1, <2>2
  <2>3. CASE n # a
    <3>1. PICK m \in Nodes : DependsOn(a, m) /\ Reachable(m, n)
      BY <1>1, <2>3
    <3>2. Reachable(m, d)
      BY <2>1, <3>1, ReachableFacts
    <3> QED
      BY <1>1, <3>1, <3>2
  <2> QED
    BY <2>2, <2>3
<1>3. Closed(T) /\ T \subseteq Nodes /\ a \in T
  BY <1>1, <1>2 DEF Closed
<1>4. b \in T
  BY <1>3, ReachableFacts
<1> QED
  BY <1>1, <1>4

\* When everything is entered and left, the components are all the classes.
LEMMA AllClasses ==
    ASSUME Finding, path = <<>>, \A n \in Nodes : index[n] # 0
    PROVE  /\ \A c \in ToSet(components) : \E n \in Nodes : n \in c /\ c = MutuallyReachable(n)
           /\ \A n \in Nodes : MutuallyReachable(n) \in ToSet(components)
<1>1. components \in Seq(SUBSET Nodes) /\ IsGraph(graph) /\ Len(path) = 0
  BY DEF Finding, ComponentType
<1>2. \A c : c \in ToSet(components) <=> \E i \in 1 .. Len(components) : components[i] = c
  BY <1>1 DEF ToSet
<1>3. ASSUME NEW c \in ToSet(components)
      PROVE  \E n \in Nodes : n \in c /\ c = MutuallyReachable(n)
  <2>1. PICK i \in 1 .. Len(components) : components[i] = c
    BY <1>2
  <2>2. PICK n : n \in c
    BY <2>1 DEF Finding, Classes
  <2>3. Gone(n) /\ c = MutuallyReachable(n)
    BY <2>1, <2>2 DEF Finding, Classes
  <2> QED
    BY <2>2, <2>3 DEF Gone
<1>4. ASSUME NEW n \in Nodes PROVE MutuallyReachable(n) \in ToSet(components)
  <2>1. ~OnStack(n)
    BY <1>1 DEF Finding, Connected
  <2>2. Gone(n)
    BY <2>1 DEF Gone
  <2>3. PICK i \in 1 .. Len(components) : n \in components[i]
    BY <2>2 DEF Finding, Classes
  <2>4. components[i] = MutuallyReachable(n)
    BY <2>3 DEF Finding, Classes
  <2> QED
    BY <1>2, <2>4
<1> QED
  BY <1>3, <1>4

\* A class has a cycle unless it is one node that does not depend on itself.
LEMMA ClassOnCycle ==
    ASSUME IsGraph(graph), NEW n \in Nodes
    PROVE  LET c == MutuallyReachable(n) IN
           OnCycle(n) <=> (Cardinality(c) = 1 => \A m \in c : DependsOn(m, m))
<1>1. PICK c : c = MutuallyReachable(n)
  OBVIOUS
<1>2. n \in c /\ c \subseteq Nodes /\ \A m \in c : Reachable(n, m) /\ Reachable(m, n)
  BY <1>1, ReachableFacts DEF MutuallyReachable
<1>3. Cardinality(c) = 1 <=> c = {n}
  <2>1. IsFiniteSet(c)
    BY <1>2, GraphIs, FS_Subset
  <2>2. Cardinality({n}) = 1
    BY FS_Singleton
  <2>3. Cardinality(c) = 1 => \E m : c = {m}
    BY <2>1, FS_Singleton
  <2> QED
    BY <1>2, <2>2, <2>3
<1>4. ASSUME OnCycle(n), Cardinality(c) = 1 PROVE \A m \in c : DependsOn(m, m)
  <2>1. PICK m \in Nodes : DependsOn(n, m) /\ Reachable(m, n)
    BY <1>4 DEF OnCycle
  <2>2. m \in c
    BY <1>1, <2>1, ReachableFacts DEF MutuallyReachable
  <2> QED
    BY <1>3, <1>4, <2>1, <2>2
<1>5. ASSUME Cardinality(c) # 1 PROVE OnCycle(n)
  <2>1. PICK b \in c : b # n
    BY <1>2, <1>3, <1>5
  <2>2. PICK m \in Nodes : DependsOn(n, m) /\ Reachable(m, b)
    BY <1>2, <2>1, FirstEdge
  <2>3. Reachable(m, n)
    BY <1>2, <2>1, <2>2, ReachableFacts
  <2> QED
    BY <2>2, <2>3 DEF OnCycle
<1>6. ASSUME \A m \in c : DependsOn(m, m) PROVE OnCycle(n)
  BY <1>2, <1>6, ReachableFacts DEF OnCycle
<1>7. OnCycle(n) <=> (Cardinality(c) = 1 => \A m \in c : DependsOn(m, m))
  BY <1>4, <1>5, <1>6
<1> QED
  BY <1>1, <1>7

LEMMA CyclicClasses ==
    ASSUME Finding, path = <<>>, \A n \in Nodes : index[n] # 0,
           NEW S, S = {c \in ToSet(components) :
                         Cardinality(c) = 1 => \A n \in c : DependsOn(n, n)}
    PROVE  S = {MutuallyReachable(n) : n \in {m \in Nodes : OnCycle(m)}}
<1>1. IsGraph(graph)
  BY DEF Finding, ComponentType
<1>2. ASSUME NEW c \in S PROVE \E n \in {m \in Nodes : OnCycle(m)} : c = MutuallyReachable(n)
  <2>1. PICK n \in Nodes : n \in c /\ c = MutuallyReachable(n)
    BY AllClasses
  <2>2. OnCycle(n)
    BY <1>1, <2>1, ClassOnCycle
  <2> QED
    BY <2>1, <2>2
<1>3. ASSUME NEW n \in {m \in Nodes : OnCycle(m)} PROVE MutuallyReachable(n) \in S
  BY <1>1, AllClasses, ClassOnCycle
<1> QED
  BY <1>2, <1>3

LEMMA LeastIn ==
    ASSUME NEW c, c \subseteq Nat, c # {}
    PROVE  Min(c) \in c /\ \A n \in c : Min(c) <= n
<1>1. \E m \in c : \A n \in c : m <= n
  BY LeastOf
<1> QED
  BY <1>1 DEF Min

\* Sets that do not overlap, listed by their first elements.
LEMMA ByFirstLists ==
    ASSUME IsGraph(graph), NEW S, \A c \in S : c \subseteq Nodes /\ c # {},
           \A c, d \in S : \A n \in c : n \in d => c = d
    PROVE  /\ ToSet(ByFirst(S)) = S
           /\ \A i, j \in DOMAIN ByFirst(S) : i < j => Min(ByFirst(S)[i]) < Min(ByFirst(S)[j])
<1>1. PICK all, least : all = [n \in Nodes |-> n] /\ least = {Min(c) : c \in S}
  OBVIOUS
<1>2. PICK firsts, listed : firsts = Filtered(all, least) /\ listed = ByFirst(S)
  OBVIOUS
<1>3. listed = [i \in DOMAIN firsts |-> CHOOSE c \in S : firsts[i] = Min(c)]
  BY <1>1, <1>2 DEF ByFirst
<1>4. /\ Nodes = 1 .. Len(graph.dependencies) /\ Nodes \subseteq Nat
      /\ Len(graph.dependencies) \in Nat
  BY GraphIs
<1>5. all \in Seq(Nodes) /\ Len(all) = Len(graph.dependencies) /\ \A n \in Nodes : all[n] = n
  BY <1>1, <1>4
<1>6. \A c \in S : Min(c) \in c /\ Min(c) \in Nodes
  <2> SUFFICES ASSUME NEW c \in S PROVE Min(c) \in c /\ Min(c) \in Nodes
    OBVIOUS
  <2>1. c \subseteq Nat /\ c # {} /\ c \subseteq Nodes
    BY <1>4
  <2> QED
    BY <2>1, LeastIn
<1>7. PICK at \in [1 .. Len(firsts) -> 1 .. Len(all)] :
        /\ \A k \in 1 .. Len(firsts) : firsts[k] = all[at[k]] /\ all[at[k]] \in least
        /\ \A k, l \in 1 .. Len(firsts) : k < l => at[k] < at[l]
        /\ \A i \in 1 .. Len(all) : all[i] \in least => \E k \in 1 .. Len(firsts) : at[k] = i
  BY <1>2, <1>5, FilteredIs
<1>8. firsts \in Seq(Nodes) /\ DOMAIN firsts = 1 .. Len(firsts)
  BY <1>2, <1>5, FilteredIs
<1>9. /\ \A k \in DOMAIN firsts : firsts[k] = at[k] /\ firsts[k] \in least
      /\ \A k, l \in DOMAIN firsts : k < l => firsts[k] < firsts[l]
      /\ \A n \in least : \E k \in DOMAIN firsts : firsts[k] = n
  <2>1. \A k \in DOMAIN firsts : at[k] \in Nodes /\ firsts[k] = at[k] /\ firsts[k] \in least
    BY <1>4, <1>5, <1>7, <1>8
  <2>2. \A k, l \in DOMAIN firsts : k < l => firsts[k] < firsts[l]
    BY <1>7, <1>8, <2>1
  <2>3. ASSUME NEW n \in least PROVE \E k \in DOMAIN firsts : firsts[k] = n
    <3>1. n \in Nodes
      BY <1>1, <1>6
    <3>2. n \in 1 .. Len(all) /\ all[n] = n
      BY <1>4, <1>5, <3>1
    <3>3. PICK k \in 1 .. Len(firsts) : at[k] = n
      BY <1>7, <3>2
    <3> QED
      BY <1>8, <2>1, <3>3
  <2> QED
    BY <2>1, <2>2, <2>3
<1>10. \A k \in DOMAIN firsts : listed[k] \in S /\ firsts[k] = Min(listed[k])
  <2> SUFFICES ASSUME NEW k \in DOMAIN firsts
               PROVE  listed[k] \in S /\ firsts[k] = Min(listed[k])
    OBVIOUS
  <2>1. \E c \in S : firsts[k] = Min(c)
    <3>1. firsts[k] \in {Min(c) : c \in S}
      BY <1>1, <1>9
    <3> QED
      BY <3>1
  <2>2. listed[k] = CHOOSE c \in S : firsts[k] = Min(c)
    BY <1>3
  <2> QED
    BY <2>1, <2>2
<1>11. DOMAIN listed = DOMAIN firsts
  BY <1>3
<1>12. ASSUME NEW c \in S PROVE \E k \in DOMAIN listed : listed[k] = c
  <2>1. Min(c) \in least
    BY <1>1
  <2>2. PICK k \in DOMAIN firsts : firsts[k] = Min(c)
    BY <1>9, <2>1
  <2>3. listed[k] \in S /\ Min(c) = Min(listed[k])
    BY <1>10, <2>2
  <2>4. Min(c) \in c /\ Min(c) \in listed[k]
    BY <1>6, <2>3
  <2>5. listed[k] = c
    BY <2>3, <2>4
  <2> QED
    BY <1>11, <2>5
<1>13. ToSet(listed) = S
  BY <1>10, <1>11, <1>12 DEF ToSet
<1>14. \A i, j \in DOMAIN listed : i < j => Min(listed[i]) < Min(listed[j])
  BY <1>9, <1>10, <1>11
<1> QED
  BY <1>2, <1>13, <1>14

LEMMA ComponentsEndStep ==
    ASSUME Finding, ComponentsEnd PROVE ComponentsExact'
<1>1. PICK S : S = {c \in ToSet(components) :
                      Cardinality(c) = 1 => \A n \in c : DependsOn(n, n)}
  OBVIOUS
<1>2. /\ graph' = graph /\ path = <<>> /\ (\A n \in Nodes : index[n] # 0)
      /\ IsGraph(graph)
  BY DEF ComponentsEnd, Finding, ComponentType
<1>3. components' = ByFirst(S)
  BY <1>1 DEF ComponentsEnd, DependsOn
<1>4. S = {MutuallyReachable(n) : n \in {m \in Nodes : OnCycle(m)}}
  BY <1>1, <1>2, CyclicClasses
<1>5. \A c \in S : c \subseteq Nodes /\ c # {}
  BY <1>2, <1>4, ReachableFacts DEF MutuallyReachable
<1>6. ASSUME NEW c \in S, NEW d \in S, NEW n \in c, n \in d PROVE c = d
  <2>1. \A e \in S : n \in e => e = MutuallyReachable(n)
    <3> SUFFICES ASSUME NEW e \in S, n \in e PROVE e = MutuallyReachable(n)
      OBVIOUS
    <3>1. PICK m \in Nodes : e = MutuallyReachable(m)
      BY <1>4
    <3>2. n \in Nodes /\ Reachable(m, n) /\ Reachable(n, m)
      BY <3>1 DEF MutuallyReachable
    <3>3. \A x \in Nodes : /\ Reachable(m, x) <=> Reachable(n, x)
                           /\ Reachable(x, m) <=> Reachable(x, n)
      BY <1>2, <3>2, ReachableFacts
    <3> QED
      BY <3>1, <3>3 DEF MutuallyReachable
  <2> QED
    BY <1>6, <2>1
<1>7. /\ ToSet(ByFirst(S)) = S
      /\ \A i, j \in DOMAIN ByFirst(S) : i < j => Min(ByFirst(S)[i]) < Min(ByFirst(S)[j])
  BY <1>2, <1>5, <1>6, ByFirstLists
<1>8. /\ Nodes' = Nodes /\ (\A n : MutuallyReachable(n)' = MutuallyReachable(n))
      /\ (\A n : OnCycle(n)' <=> OnCycle(n))
  <2>1. /\ Nodes' = Nodes /\ (\A n : MutuallyReachable(n)' = MutuallyReachable(n))
        /\ (\A n, d : DependsOn(n, d)' <=> DependsOn(n, d))
        /\ (\A a, b : Reachable(a, b)' <=> Reachable(a, b))
    BY <1>2, GraphKept
  <2>2. \A n : OnCycle(n)' <=> OnCycle(n)
    BY <2>1 DEF OnCycle
  <2> QED
    BY <2>1, <2>2
<1>9. ToSet(components') = {MutuallyReachable(n)' : n \in {m \in Nodes' : OnCycle(m)'}}
  BY <1>3, <1>4, <1>7, <1>8
<1>10. \A i, j \in DOMAIN components' : i < j => Min(components'[i]) < Min(components'[j])
  BY <1>3, <1>7
<1> QED
  BY <1>9, <1>10 DEF ComponentsExact

LEMMA NextComponentInv == ComponentInv /\ [GraphStep \/ Call]_graphVars => ComponentInv'
<1> SUFFICES ASSUME ComponentInv, [GraphStep \/ Call]_graphVars PROVE ComponentInv'
  OBVIOUS
<1>1. CASE EnterRoot
  <2>1. task = "components" /\ task' = "components"
    BY <1>1 DEF EnterRoot
  <2> QED
    BY <1>1, <2>1, EnterRootStep DEF ComponentInv, ComponentsExact
<1>2. CASE FollowDependency
  <2>1. task = "components" /\ task' = "components"
    BY <1>2 DEF FollowDependency
  <2> QED
    BY <1>2, <2>1, FollowDependencyStep DEF ComponentInv, ComponentsExact
<1>3. CASE CloseNode
  <2>1. task = "components" /\ task' = "components"
    BY <1>3 DEF CloseNode
  <2> QED
    BY <1>3, <2>1, CloseNodeStep DEF ComponentInv, ComponentsExact
<1>4. CASE ComponentsEnd
  <2>1. task = "components" /\ task' = "found"
    BY <1>4 DEF ComponentsEnd
  <2>2. ComponentsExact'
    BY <1>4, <2>1, ComponentsEndStep DEF ComponentInv
  <2> QED
    BY <2>1, <2>2 DEF ComponentInv
<1>5. CASE VisitRoot \/ VisitDependency \/ LeaveNode \/ SearchEnds \/ EmitReady \/ RanksEnd
  <2>1. task' \in {"search", "cyclic", "ranks", "ordered"}
    BY <1>5 DEF VisitRoot, VisitDependency, LeaveNode, SearchEnds, EmitReady, RanksEnd
  <2> QED
    BY <2>1 DEF ComponentInv, ComponentsExact
<1>6. CASE Call
  <2>1. CASE IntoTopoOrder(graph')
    BY <2>1 DEF IntoTopoOrder, ComponentInv, ComponentsExact
  <2>2. CASE CyclicComponents(graph')
    <3>1. task' = "components" /\ IsGraph(graph')
      BY <1>6, <2>2 DEF Call, CyclicComponents
    <3> QED
      BY <2>2, <3>1, CyclicComponentsStep DEF ComponentInv, ComponentsExact
  <2> QED
    BY <1>6, <2>1, <2>2 DEF Call
<1>7. CASE UNCHANGED graphVars
  <2>1. /\ task' = task /\ graph' = graph /\ path' = path /\ index' = index
        /\ lowLink' = lowLink /\ stack' = stack /\ components' = components
    BY <1>7 DEF graphVars, componentVars
  <2>2. /\ Nodes' = Nodes /\ FrameType' = FrameType /\ (\A n : Deps(n)' = Deps(n))
        /\ (\A n, d : DependsOn(n, d)' <=> DependsOn(n, d))
        /\ (\A a, b : Reachable(a, b)' <=> Reachable(a, b))
        /\ (\A n : MutuallyReachable(n)' = MutuallyReachable(n))
        /\ (IsGraph(graph)' <=> IsGraph(graph))
    BY <2>1, GraphKept
  <2>3. /\ \A n : OnStack(n)' <=> OnStack(n)
        /\ \A n : Gone(n)' <=> Gone(n)
        /\ NextIndex' = NextIndex
    BY <2>1, StackKept
  <2>4. (\A i : NodeAt(i)' = NodeAt(i)) /\ (\A n : OpenNode(n)' <=> OpenNode(n))
    BY <2>1 DEF NodeAt, OpenNode
  <2>5. ComponentsExact'
    <3>1. \A n : OnCycle(n)' <=> OnCycle(n)
      BY <2>2 DEF OnCycle
    <3> QED
      BY <2>1, <2>2, <3>1 DEF ComponentInv, ComponentsExact
  <2>6. ASSUME Finding PROVE Finding'
    <3>1. ComponentType'
      BY <2>1, <2>2, <2>6 DEF Finding, ComponentType
    <3>2. Numbered'
      BY <2>1, <2>2, <2>3, <2>4, <2>6 DEF Finding, Numbered, OnStack, NodeAt
    <3>3. Linked'
      BY <2>1, <2>2, <2>6 DEF Finding, Linked
    <3>4. Explored'
      BY <2>1, <2>2, <2>3, <2>4, <2>6 DEF Finding, Explored, NodeAt
    <3>5. Connected'
      BY <2>1, <2>2, <2>3, <2>6 DEF Finding, Connected, NodeAt
    <3>6. LowReached'
      BY <2>1, <2>2, <2>3, <2>6 DEF Finding, LowReached, NodeAt
    <3>7. LowBounds'
      BY <2>1, <2>2, <2>3, <2>4, <2>6 DEF Finding, LowBounds, NodeAt, OnStack
    <3>8. Classes'
      BY <2>1, <2>2, <2>3, <2>6 DEF Finding, Classes
    <3> QED
      BY <3>1, <3>2, <3>3, <3>4, <3>5, <3>6, <3>7, <3>8 DEF Finding
  <2> QED
    BY <2>1, <2>5, <2>6 DEF ComponentInv
<1> QED
  BY <1>1, <1>2, <1>3, <1>4, <1>5, <1>6, <1>7 DEF GraphStep

\* cyclic_components finds the classes of mutually reachable nodes that lie on a cycle,
\* each once, by their first node, of every graph.
THEOREM ComponentsExactTheorem == GraphSpec => []ComponentsExact
<1>1. GraphIdle => ComponentInv
  BY DEF GraphIdle, ComponentInv, ComponentsExact
<1>2. ComponentInv => ComponentsExact
  BY DEF ComponentInv
<1> QED
  BY <1>1, <1>2, NextComponentInv, PTL DEF GraphSpec
=============================================================================
