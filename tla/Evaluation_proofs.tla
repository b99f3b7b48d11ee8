-------------------------- MODULE Evaluation_proofs --------------------------
(***************************************************************************)
(* The checker's schedule and the evaluator's frame, for any number of         *)
(* declarations, any reads between them and any length of the recurrence axis. *)
(*                                                                         *)
(* Schedule: order_units uses the graph functions as their own proofs assume,   *)
(* so their results are known: the components are the classes of declarations   *)
(* that read each other, the orders are topological, the cycles real.  A cycle  *)
(* left after contraction stays in one class, which was then rejected; units    *)
(* on a cycle would be in one class and so one unit.                        *)
(*                                                                         *)
(* Frame: every declaration is handled or still listed, after what it reads; a  *)
(* reason blames only what is behind its declaration; a value has only values   *)
(* behind it; and an element of a group that is missing has a member with a     *)
(* reason, or another missing element, before it.                           *)
(***************************************************************************)
EXTENDS ExecutionFrame, DependencyGraph_proofs

-----------------------------------------------------------------------------
(* Numbers and graphs.                                                      *)

\* The quotient and the remainder of a number.
LEMMA Quotient ==
    ASSUME NEW n \in Nat \ {0}, NEW k \in Nat
    PROVE  /\ k \div n \in Nat /\ k % n \in 0 .. n - 1
           /\ k = n * (k \div n) + (k % n)
  OBVIOUS

\* A number made of a quotient and a remainder has these.
LEMMA DivMod ==
    ASSUME NEW n \in Nat \ {0}, NEW q \in Nat, NEW r \in 0 .. n - 1
    PROVE  (q * n + r) \div n = q /\ (q * n + r) % n = r
<1>1. PICK k : k = q * n + r
  OBVIOUS
<1>2. k \in Nat
  BY <1>1
<1>3. PICK p, s : p = k \div n /\ s = k % n
  OBVIOUS
<1>4. p \in Nat /\ s \in 0 .. n - 1 /\ k = n * p + s
  BY <1>2, <1>3, Quotient
<1>5. ~(p < q)
  <2> SUFFICES ASSUME p < q PROVE FALSE
    OBVIOUS
  <2>1. PICK d \in Nat : q = p + d /\ d >= 1
    BY <1>4
  <2>2. q * n = p * n + d * n
    BY <1>4, <2>1
  <2>3. d * n >= n
    BY <2>1
  <2> QED BY <1>1, <1>4, <2>2, <2>3
<1>6. ~(q < p)
  <2> SUFFICES ASSUME q < p PROVE FALSE
    OBVIOUS
  <2>1. PICK d \in Nat : p = q + d /\ d >= 1
    BY <1>4
  <2>2. p * n = q * n + d * n
    BY <1>4, <2>1
  <2>3. d * n >= n
    BY <2>1
  <2> QED BY <1>1, <1>4, <2>2, <2>3
<1>7. p = q /\ s = r
  BY <1>1, <1>4, <1>5, <1>6
<1> QED BY <1>1, <1>3, <1>7

\* ReadEdges lists every read, as a pair, once.
LEMMA ReadEdgesIs ==
    /\ ReadEdges \in Seq(Decls \X Decls)
    /\ \A a, b \in Decls : Contains(ReadEdges, <<a, b>>) <=> b \in reads[a]
    /\ IsInjective(ReadEdges)
<1>1. PICK pairs : pairs = [k \in 1 .. N * N |-> <<((k - 1) \div N) + 1, ((k - 1) % N) + 1>>]
  OBVIOUS
<1>2. PICK all : all = {r \in Decls \X Decls : r[2] \in reads[r[1]]}
  OBVIOUS
<1>3. N \in Nat \ {0} /\ N * N \in Nat
  BY ScheduleAssumption
<1>4. ASSUME NEW k \in 1 .. N * N
      PROVE  /\ k - 1 \in Nat /\ (k - 1) \div N \in 0 .. N - 1 /\ (k - 1) % N \in 0 .. N - 1
             /\ k - 1 = N * ((k - 1) \div N) + ((k - 1) % N)
             /\ pairs[k] = <<((k - 1) \div N) + 1, ((k - 1) % N) + 1>>
  <2>1. k - 1 \in Nat /\ k - 1 < N * N
    BY <1>3
  <2>2. PICK q, r : q = (k - 1) \div N /\ r = (k - 1) % N
    OBVIOUS
  <2>3. q \in Nat /\ r \in 0 .. N - 1 /\ k - 1 = N * q + r
    BY <1>3, <2>1, <2>2, Quotient
  <2>4. ~(q >= N)
    <3> SUFFICES ASSUME q >= N PROVE FALSE
      OBVIOUS
    <3>1. N * q >= N * N
      BY <1>3, <2>3
    <3> QED
      BY <1>3, <2>1, <2>3, <3>1
  <2> QED
    BY <1>1, <1>3, <2>1, <2>2, <2>3, <2>4
<1>5. pairs \in Seq(Decls \X Decls) /\ Len(pairs) = N * N /\ DOMAIN pairs = 1 .. N * N
  <2>1. \A k \in 1 .. N * N : pairs[k] \in Decls \X Decls
    <3> SUFFICES ASSUME NEW k \in 1 .. N * N PROVE pairs[k] \in Decls \X Decls
      OBVIOUS
    <3>1. PICK q \in 0 .. N - 1, r \in 0 .. N - 1 : pairs[k] = <<q + 1, r + 1>>
      BY <1>4
    <3>2. q + 1 \in Decls /\ r + 1 \in Decls
      BY <1>3 DEF Decls
    <3> QED
      BY <3>1, <3>2
  <2>2. PICK total \in Nat : total = N * N
    BY <1>3
  <2>3. pairs = [k \in 1 .. total |-> pairs[k]]
    BY <1>1, <2>2
  <2>4. pairs \in [1 .. total -> Decls \X Decls]
    BY <2>1, <2>2, <2>3
  <2>5. pairs \in Seq(Decls \X Decls) /\ Len(pairs) = total /\ DOMAIN pairs = 1 .. total
    BY <2>2, <2>4
  <2> QED
    BY <2>2, <2>5
<1>6. ASSUME NEW a \in Decls, NEW b \in Decls PROVE Contains(pairs, <<a, b>>)
  <2>1. a - 1 \in Nat /\ b - 1 \in 0 .. N - 1 /\ a - 1 <= N - 1
    BY <1>3 DEF Decls
  <2>2. PICK p, q, r : p = q * N + r /\ q = a - 1 /\ r = b - 1
    OBVIOUS
  <2>3. q \in Nat /\ r \in 0 .. N - 1 /\ q <= N - 1
    BY <2>1, <2>2
  <2>4. p \div N = q /\ p % N = r
    BY <1>3, <2>2, <2>3, DivMod
  <2>5. p \in Nat /\ p < N * N
    <3>1. q * N <= (N - 1) * N
      BY <1>3, <2>3
    <3>2. (N - 1) * N = N * N - N /\ q * N \in Nat
      BY <1>3, <2>3
    <3> QED
      BY <1>3, <2>2, <2>3, <3>1, <3>2
  <2>6. p + 1 \in 1 .. N * N /\ (p + 1) - 1 = p
    BY <1>3, <2>5
  <2>7. pairs[p + 1] = <<q + 1, r + 1>>
    BY <1>1, <2>4, <2>6
  <2>8. q + 1 = a /\ r + 1 = b
    BY <2>1, <2>2, <1>3 DEF Decls
  <2> QED
    BY <1>5, <2>6, <2>7, <2>8 DEF Contains
<1>7. IsInjective(pairs)
  <2> SUFFICES ASSUME NEW k \in 1 .. N * N, NEW l \in 1 .. N * N, pairs[k] = pairs[l]
               PROVE  k = l
    BY <1>5 DEF IsInjective
  <2>1. PICK q, r : q = (k - 1) \div N /\ r = (k - 1) % N
    OBVIOUS
  <2>2. PICK p, s : p = (l - 1) \div N /\ s = (l - 1) % N
    OBVIOUS
  <2>3. /\ q \in Nat /\ r \in Nat /\ k - 1 = N * q + r /\ pairs[k] = <<q + 1, r + 1>>
        /\ p \in Nat /\ s \in Nat /\ l - 1 = N * p + s /\ pairs[l] = <<p + 1, s + 1>>
    BY <1>4, <2>1, <2>2
  <2>4. q = p /\ r = s
    <3>1. <<q + 1, r + 1>> = <<p + 1, s + 1>> /\ q \in Nat /\ r \in Nat /\ p \in Nat /\ s \in Nat
      BY <2>3
    <3> QED
      BY ONLY <3>1
  <2>5. k - 1 = l - 1
    BY <2>3, <2>4
  <2>6. k \in Nat /\ l \in Nat
    BY <1>3
  <2> QED
    BY ONLY <2>5, <2>6
<1>8. ReadEdges = Filtered(pairs, all)
  BY <1>1, <1>2 DEF ReadEdges
<1>9. /\ ReadEdges \in Seq(Decls \X Decls)
      /\ \A x : Contains(ReadEdges, x) <=> Contains(pairs, x) /\ x \in all
      /\ IsInjective(ReadEdges)
  BY <1>5, <1>7, <1>8, FilteredElements
<1> QED
  <2>1. ASSUME NEW a \in Decls, NEW b \in Decls
        PROVE  Contains(ReadEdges, <<a, b>>) <=> b \in reads[a]
    BY <1>2, <1>6, <1>9
  <2> QED
    BY <1>9, <2>1

\* The graphs of n nodes.
GraphsOf(n) == {g \in [dependencies : [1 .. n -> Seq(1 .. n)], dependents : [1 .. n -> Seq(1 .. n)]] :
                  /\ \A m \in 1 .. n : IsInjective(g.dependencies[m]) /\ IsInjective(g.dependents[m])
                  /\ \A m, d \in 1 .. n :
                       Contains(g.dependencies[m], d) <=> Contains(g.dependents[d], m)}

\* The sequence without elements.
LEMMA EmptySequence ==
    ASSUME NEW D
    PROVE  <<>> \in Seq(D) /\ IsInjective(<<>>) /\ \A x : ~Contains(<<>>, x)
  BY DEF IsInjective, Contains

\* WithNodes: a graph without edges.
LEMMA NoEdges ==
    ASSUME NEW n \in Nat
    PROVE  /\ WithNodes(n) \in GraphsOf(n)
           /\ \A a, b \in 1 .. n : ~Contains(WithNodes(n).dependencies[a], b)
<1>1. PICK g : g = WithNodes(n)
  OBVIOUS
<1>2. /\ g \in [dependencies : [1 .. n -> Seq(1 .. n)], dependents : [1 .. n -> Seq(1 .. n)]]
      /\ \A m \in 1 .. n : g.dependencies[m] = <<>> /\ g.dependents[m] = <<>>
  BY <1>1, EmptySequence DEF WithNodes
<1>3. g \in GraphsOf(n)
  BY <1>2, EmptySequence DEF GraphsOf
<1>4. \A a, b \in 1 .. n : ~Contains(g.dependencies[a], b)
  BY <1>2, EmptySequence
<1> QED
  BY <1>1, <1>3, <1>4

\* add_dependency: the edge is there afterwards, once, and nothing else changed.
LEMMA EdgeAdded ==
    ASSUME NEW n \in Nat, NEW g \in GraphsOf(n), NEW a \in 1 .. n, NEW b \in 1 .. n
    PROVE  /\ AddDependency(g, <<a, b>>) \in GraphsOf(n)
           /\ \A m, d \in 1 .. n : Contains(AddDependency(g, <<a, b>>).dependencies[m], d)
                <=> Contains(g.dependencies[m], d) \/ (m = a /\ d = b)
<1>1. PICK h : h = AddDependency(g, <<a, b>>)
  OBVIOUS
<1>2. /\ g \in [dependencies : [1 .. n -> Seq(1 .. n)], dependents : [1 .. n -> Seq(1 .. n)]]
      /\ \A m \in 1 .. n : IsInjective(g.dependencies[m]) /\ IsInjective(g.dependents[m])
      /\ \A m, d \in 1 .. n :
           Contains(g.dependencies[m], d) <=> Contains(g.dependents[d], m)
  BY DEF GraphsOf
<1>3. CASE Contains(g.dependencies[a], b)
  <2>1. h = g
    BY <1>1, <1>3 DEF AddDependency
  <2> QED
    BY <1>1, <1>3, <2>1
<1>4. CASE ~Contains(g.dependencies[a], b)
  <2>1. PICK out, in : out = Append(g.dependencies[a], b) /\ in = Append(g.dependents[b], a)
    OBVIOUS
  <2>2. /\ out \in Seq(1 .. n) /\ IsInjective(out)
        /\ \A x : Contains(out, x) <=> Contains(g.dependencies[a], x) \/ x = b
    BY <1>2, <1>4, <2>1, AppendedTo
  <2>3. ~Contains(g.dependents[b], a)
    BY <1>2, <1>4
  <2>4. /\ in \in Seq(1 .. n) /\ IsInjective(in)
        /\ \A x : Contains(in, x) <=> Contains(g.dependents[b], x) \/ x = a
    BY <1>2, <2>1, <2>3, AppendedTo, SMTT(20)
  <2>5. h = [dependencies |-> [g.dependencies EXCEPT ![a] = out],
             dependents |-> [g.dependents EXCEPT ![b] = in]]
    BY <1>1, <1>4, <2>1 DEF AddDependency
  <2>6. /\ h \in [dependencies : [1 .. n -> Seq(1 .. n)], dependents : [1 .. n -> Seq(1 .. n)]]
        /\ \A m \in 1 .. n : h.dependencies[m] = IF m = a THEN out ELSE g.dependencies[m]
        /\ \A m \in 1 .. n : h.dependents[m] = IF m = b THEN in ELSE g.dependents[m]
    BY <1>2, <2>2, <2>4, <2>5
  <2>7. \A m, d \in 1 .. n : Contains(h.dependencies[m], d)
                <=> Contains(g.dependencies[m], d) \/ (m = a /\ d = b)
    BY <2>2, <2>6
  <2>8. \A m, d \in 1 .. n : Contains(h.dependents[d], m)
                <=> Contains(g.dependents[d], m) \/ (m = a /\ d = b)
    BY <2>4, <2>6
  <2>9. \A m \in 1 .. n : IsInjective(h.dependencies[m]) /\ IsInjective(h.dependents[m])
    BY <1>2, <2>2, <2>4, <2>6
  <2>10. \A m, d \in 1 .. n : Contains(h.dependencies[m], d) <=> Contains(h.dependents[d], m)
    BY <1>2, <2>7, <2>8
  <2>11. h \in GraphsOf(n)
    BY <2>6, <2>9, <2>10 DEF GraphsOf
  <2> QED
    BY <1>1, <2>7, <2>11
<1> QED
  BY <1>3, <1>4

\* A pair is made of its components.
LEMMA PairIs ==
    ASSUME NEW A, NEW B, NEW p \in A \X B
    PROVE  p[1] \in A /\ p[2] \in B /\ p = <<p[1], p[2]>>
  OBVIOUS

\* GraphOf goes through the edges and adds each.
LEMMA GraphSteps ==
    ASSUME NEW n \in Nat, NEW edges \in Seq((1 .. n) \X (1 .. n))
    PROVE  \E f : /\ f[0] = WithNodes(n) /\ f[Len(edges)] = GraphOf(n, edges)
                  /\ \A k \in 0 .. Len(edges) - 1 : f[k + 1] = AddDependency(f[k], edges[k + 1])
<1>1. PICK l, U : l = Len(edges) /\ U = DOMAIN edges
  OBVIOUS
<1>2. l \in Nat /\ U = 1 .. l /\ IsFiniteSet(U) /\ \A i \in U : edges[i] \in (1 .. n) \X (1 .. n)
  <2>1. l \in Nat /\ U = 1 .. l /\ \A i \in U : edges[i] \in (1 .. n) \X (1 .. n)
    BY <1>1
  <2> QED
    BY <2>1, FS_Interval
<1>3. ASSUME NEW i \in U, NEW g \in GraphsOf(n)
      PROVE  AddDependency(g, edges[i]) \in GraphsOf(n)
  <2>1. PICK a \in 1 .. n, b \in 1 .. n : edges[i] = <<a, b>>
    BY <1>2, PairIs
  <2> QED
    BY <2>1, EdgeAdded
<1> DEFINE folds(it) ==
      it = [s \in SUBSET U |-> IF s = {} THEN WithNodes(n)
              ELSE AddDependency(it[s \ {Max(s)}], edges[Max(s)])]
<1>4. GraphOf(n, edges) = (CHOOSE it : folds(it))[U]
  BY <1>1 DEF GraphOf, FoldLeft, MapThenFoldSet
<1>5. \E it : folds(it)
  <2>1. PICK pick, g, base, none, D :
          /\ pick = [s \in SUBSET U |-> Max(s)] /\ base = {{}} /\ none = WithNodes(n)
          /\ D = GraphsOf(n)
          /\ g = [i \in U |-> [q \in GraphsOf(n) |-> AddDependency(q, edges[i])]]
    OBVIOUS
  <2>2. Picks(U, base, pick) /\ \A s \in SUBSET U : s # {} => pick[s] = Max(s) /\ Max(s) \in U
    BY <1>2, <2>1, GreatestIn DEF Picks
  <2>3. g \in [U -> [D -> D]]
    <3>1. ASSUME NEW i \in U PROVE g[i] \in [D -> D]
      BY <1>3, <2>1
    <3> QED
      BY <2>1, <3>1
  <2>4. none \in D
    BY <2>1, NoEdges
  <2>5. PICK it \in [SUBSET U -> D] : Recursive(U, base, none, pick, g, it)
    BY <1>2, <2>2, <2>3, <2>4, SubsetRecursion
  <2>6. ASSUME NEW s \in SUBSET U
        PROVE  it[s] = IF s = {} THEN WithNodes(n)
                 ELSE AddDependency(it[s \ {Max(s)}], edges[Max(s)])
    <3>1. CASE s = {}
      BY <2>1, <2>5, <3>1 DEF Recursive
    <3>2. CASE s # {}
      <4>1. pick[s] = Max(s) /\ Max(s) \in U /\ s \notin base
        BY <2>1, <2>2, <3>2
      <4>2. PICK q \in D : q = it[s \ {Max(s)}]
        BY <2>5
      <4>3. it[s] = g[Max(s)][q]
        BY <2>5, <4>1, <4>2 DEF Recursive
      <4>4. g[Max(s)][q] = AddDependency(q, edges[Max(s)])
        BY <2>1, <4>1, <4>2
      <4> QED
        BY <3>2, <4>2, <4>3, <4>4
    <3> QED
      BY <3>1, <3>2
  <2>7. folds(it)
    BY <2>5, <2>6
  <2> QED
    BY <2>7
<1>6. PICK it : it = CHOOSE f : folds(f)
  OBVIOUS
<1>7. folds(it)
  BY <1>5, <1>6
<1>8. PICK f : f = [k \in 0 .. l |-> it[1 .. k]]
  OBVIOUS
<1>9. f[0] = WithNodes(n)
  <2>1. 1 .. 0 = {} /\ 0 \in 0 .. l
    BY <1>2
  <2> QED
    BY <1>7, <1>8, <2>1
<1>10. f[l] = GraphOf(n, edges)
  <2>1. l \in 0 .. l
    BY <1>2
  <2> QED
    BY <1>2, <1>4, <1>6, <1>8, <2>1
<1>11. ASSUME NEW k \in 0 .. l - 1 PROVE f[k + 1] = AddDependency(f[k], edges[k + 1])
  <2>1. /\ 1 .. (k + 1) \in SUBSET U /\ 1 .. (k + 1) # {} /\ Max(1 .. (k + 1)) = k + 1
        /\ (1 .. (k + 1)) \ {k + 1} = 1 .. k
    BY <1>2, PrefixSets
  <2>2. f[k] = it[1 .. k] /\ f[k + 1] = it[1 .. (k + 1)]
    BY <1>2, <1>8
  <2>3. it[1 .. (k + 1)] = AddDependency(it[1 .. k], edges[k + 1])
    BY <1>7, <2>1
  <2> QED
    BY <2>2, <2>3
<1> QED
  BY <1>1, <1>9, <1>10, <1>11

\* g has the first k edges.
Added(n, edges, k, g) ==
    /\ g \in GraphsOf(n)
    /\ \A a, b \in 1 .. n : Contains(g.dependencies[a], b)
                               <=> \E i \in 1 .. k : edges[i] = <<a, b>>

\* The graph of some edges depends exactly along them.
LEMMA GraphOfIs ==
    ASSUME NEW n \in Nat, NEW edges \in Seq((1 .. n) \X (1 .. n))
    PROVE  /\ GraphOf(n, edges) \in GraphsOf(n)
           /\ \A a, b \in 1 .. n :
                Contains(GraphOf(n, edges).dependencies[a], b) <=> Contains(edges, <<a, b>>)
<1>1. PICK f : /\ f[0] = WithNodes(n) /\ f[Len(edges)] = GraphOf(n, edges)
               /\ \A k \in 0 .. Len(edges) - 1 : f[k + 1] = AddDependency(f[k], edges[k + 1])
  BY GraphSteps
<1>2. PICK P : P = {k \in Nat : k <= Len(edges) => Added(n, edges, k, f[k])}
  OBVIOUS
<1>3. 0 \in P
  <2>1. 1 .. 0 = {}
    OBVIOUS
  <2>2. Added(n, edges, 0, f[0])
    BY <1>1, <2>1, NoEdges DEF Added
  <2> QED
    BY <1>2, <2>2
<1>4. ASSUME NEW k \in Nat, k \in P PROVE k + 1 \in P
  <2> SUFFICES ASSUME k + 1 <= Len(edges) PROVE Added(n, edges, k + 1, f[k + 1])
    BY <1>2
  <2>1. k \in 0 .. Len(edges) - 1 /\ k <= Len(edges) /\ k + 1 \in 1 .. Len(edges)
    OBVIOUS
  <2>2. Added(n, edges, k, f[k])
    BY <1>2, <1>4, <2>1
  <2>3. PICK x \in 1 .. n, y \in 1 .. n : edges[k + 1] = <<x, y>>
    <3>1. edges[k + 1] \in (1 .. n) \X (1 .. n)
      BY <2>1
    <3>2. PICK e : e = edges[k + 1]
      OBVIOUS
    <3>3. e[1] \in 1 .. n /\ e[2] \in 1 .. n /\ e = <<e[1], e[2]>>
      <4>1. e \in (1 .. n) \X (1 .. n)
        BY <3>1, <3>2
      <4> QED
        BY <4>1, PairIs
    <3> QED
      BY <3>2, <3>3
  <2>4. PICK old, h : old = f[k] /\ h = AddDependency(old, <<x, y>>)
    OBVIOUS
  <2>5. f[k + 1] = h
    BY <1>1, <2>1, <2>3, <2>4
  <2>6. /\ h \in GraphsOf(n)
        /\ \A m, d \in 1 .. n : Contains(h.dependencies[m], d)
             <=> Contains(old.dependencies[m], d) \/ (m = x /\ d = y)
    <3>1. old \in GraphsOf(n)
      BY <2>2, <2>4 DEF Added
    <3>2. /\ AddDependency(old, <<x, y>>) \in GraphsOf(n)
          /\ \A m, d \in 1 .. n : Contains(AddDependency(old, <<x, y>>).dependencies[m], d)
               <=> Contains(old.dependencies[m], d) \/ (m = x /\ d = y)
      BY <3>1, EdgeAdded
    <3> QED
      BY <2>4, <3>2
  <2>7. ASSUME NEW a \in 1 .. n, NEW b \in 1 .. n
        PROVE  Contains(h.dependencies[a], b) <=> \E i \in 1 .. (k + 1) : edges[i] = <<a, b>>
    <3>1. \A i : i \in 1 .. (k + 1) <=> i \in 1 .. k \/ i = k + 1
      OBVIOUS
    <3>2. (a = x /\ b = y) <=> edges[k + 1] = <<a, b>>
      BY <2>3
    <3>3. Contains(old.dependencies[a], b) <=> \E i \in 1 .. k : edges[i] = <<a, b>>
      <4>1. Added(n, edges, k, old)
        BY <2>2, <2>4
      <4> QED
        BY ONLY <4>1, a \in 1 .. n, b \in 1 .. n DEF Added
    <3> QED
      BY ONLY <2>6, <3>1, <3>2, <3>3
  <2> QED
    BY <2>5, <2>6, <2>7 DEF Added
<1>5. Len(edges) \in Nat
  OBVIOUS
<1>6. Len(edges) \in P
  <2> QED
    BY <1>3, <1>4, <1>5, SetInduction
<1>7. Added(n, edges, Len(edges), f[Len(edges)])
  BY <1>2, <1>5, <1>6
<1>8. PICK g : g = GraphOf(n, edges)
  OBVIOUS
<1>9. Added(n, edges, Len(edges), g)
  BY <1>1, <1>7, <1>8
<1>10. \A x : Contains(edges, x) <=> \E i \in 1 .. Len(edges) : edges[i] = x
  BY DEF Contains
<1> QED
  BY <1>8, <1>9, <1>10 DEF Added

\* Such graphs are what the graph functions take.
LEMMA GraphsAre ==
    ASSUME NEW n \in Nat, NEW g \in GraphsOf(n)
    PROVE  IsGraph(g) /\ DOMAIN g.dependencies = 1 .. n
<1>1. /\ g \in [dependencies : [1 .. n -> Seq(1 .. n)], dependents : [1 .. n -> Seq(1 .. n)]]
      /\ \A m \in 1 .. n : IsInjective(g.dependencies[m]) /\ IsInjective(g.dependents[m])
      /\ \A m, d \in 1 .. n : Contains(g.dependencies[m], d) <=> Contains(g.dependents[d], m)
  BY DEF GraphsOf
<1>2. DOMAIN g.dependencies = 1 .. n /\ DOMAIN g.dependents = 1 .. n
  BY <1>1
<1>3. g \in [dependencies : Seq(Seq(1 .. n)), dependents : Seq(Seq(1 .. n))]
  BY <1>1
<1> QED
  BY <1>1, <1>2, <1>3 DEF IsGraph

-----------------------------------------------------------------------------
(* check_group.                                                             *)

\* q places members of s, each after those of its targets that are in s; none of the
\* members left over could be placed next.
Placed(c, s, targets, q) ==
    /\ q \in Seq(c) /\ IsInjective(q)
    /\ \A m : Contains(q, m) => m \in s
    /\ \A j \in 1 .. Len(q) : \A t \in targets[q[j]] : t \in s => \E i \in 1 .. j - 1 : q[i] = t
    /\ \A m \in s : ~Contains(q, m) => \E t \in targets[m] : t \in s /\ ~Contains(q, t)

\* The elements of two sequences put together.
LEMMA JoinedAt ==
    ASSUME NEW D, NEW s \in Seq(D), NEW t \in Seq(D)
    PROVE  /\ s \o t \in Seq(D) /\ Len(s \o t) = Len(s) + Len(t)
           /\ Len(s) \in Nat /\ Len(t) \in Nat
           /\ \A i \in 1 .. Len(s) : (s \o t)[i] = s[i]
           /\ \A i \in 1 .. Len(t) : (s \o t)[Len(s) + i] = t[i]
  OBVIOUS

\* A sequence with an element put before it.
LEMMA Prepended ==
    ASSUME NEW D, NEW q \in Seq(D), NEW x \in D
    PROVE  /\ <<x>> \o q \in Seq(D) /\ Len(<<x>> \o q) = Len(q) + 1 /\ Len(q) \in Nat
           /\ (<<x>> \o q)[1] = x
           /\ \A i \in 1 .. Len(q) : (<<x>> \o q)[i + 1] = q[i]
           /\ \A y : Contains(<<x>> \o q, y) <=> y = x \/ Contains(q, y)
           /\ IsInjective(q) /\ ~Contains(q, x) => IsInjective(<<x>> \o q)
<1>1. PICK one : one = <<x>>
  OBVIOUS
<1>2. one \in Seq(D) /\ Len(one) = 1 /\ one[1] = x /\ DOMAIN one = {1}
  BY <1>1
<1>3. /\ one \o q \in Seq(D) /\ Len(one \o q) = Len(q) + 1 /\ Len(q) \in Nat
      /\ (one \o q)[1] = x
      /\ \A i \in 1 .. Len(q) : (one \o q)[i + 1] = q[i]
  <2>1. PICK u : u = one \o q
    OBVIOUS
  <2>2. /\ u \in Seq(D) /\ Len(u) = Len(one) + Len(q) /\ Len(q) \in Nat
        /\ \A i \in 1 .. Len(one) : u[i] = one[i]
        /\ \A i \in 1 .. Len(q) : u[Len(one) + i] = q[i]
    <3>1. one \in Seq(D)
      BY <1>2
    <3>2. /\ one \o q \in Seq(D) /\ Len(one \o q) = Len(one) + Len(q)
          /\ Len(one) \in Nat /\ Len(q) \in Nat
          /\ \A i \in 1 .. Len(one) : (one \o q)[i] = one[i]
          /\ \A i \in 1 .. Len(q) : (one \o q)[Len(one) + i] = q[i]
      BY ONLY <3>1, q \in Seq(D), JoinedAt
    <3> QED
      BY <2>1, <3>2
  <2>3. u[1] = x
    BY <1>2, <2>2
  <2>4. Len(u) = Len(q) + 1 /\ \A i \in 1 .. Len(q) : Len(one) + i = i + 1
    BY <1>2, <2>2
  <2> QED
    BY <2>1, <2>2, <2>3, <2>4
<1>4. IsInjective(one) /\ \A y : Contains(one, y) <=> y = x
  BY <1>2 DEF IsInjective, Contains
<1>5. \A y : Contains(one \o q, y) <=> y = x \/ Contains(q, y)
  BY <1>2, <1>4, Joined
<1>6. ASSUME IsInjective(q), ~Contains(q, x) PROVE IsInjective(one \o q)
  <2>1. \A y : ~(Contains(one, y) /\ Contains(q, y))
    BY <1>4, <1>6
  <2> QED
    BY <1>2, <1>4, <1>6, <2>1, Joined
<1> QED
  BY <1>1, <1>3, <1>5, <1>6

\* Placing the first free member, then the rest.
LEMMA PlacedStep ==
    ASSUME NEW c, NEW s, NEW targets, NEW q, NEW x \in s, x \in c,
           \A t \in targets[x] : t \notin s, Placed(c, s \ {x}, targets, q)
    PROVE  Placed(c, s, targets, <<x>> \o q)
<1>1. /\ q \in Seq(c) /\ IsInjective(q)
      /\ \A m : Contains(q, m) => m \in s /\ m # x
      /\ \A j \in 1 .. Len(q) : \A t \in targets[q[j]] :
           t \in s /\ t # x => \E i \in 1 .. j - 1 : q[i] = t
      /\ \A m \in s : m # x /\ ~Contains(q, m) =>
           \E t \in targets[m] : t \in s /\ t # x /\ ~Contains(q, t)
  BY DEF Placed
<1>2. PICK w : w = <<x>> \o q
  OBVIOUS
<1>3. /\ w \in Seq(c) /\ Len(w) = Len(q) + 1 /\ Len(q) \in Nat /\ w[1] = x
      /\ \A i \in 1 .. Len(q) : w[i + 1] = q[i]
      /\ \A y : Contains(w, y) <=> y = x \/ Contains(q, y)
      /\ IsInjective(w)
  BY <1>1, <1>2, Prepended
<1>4. ASSUME NEW j \in 1 .. Len(w), NEW t \in targets[w[j]], t \in s
      PROVE  \E i \in 1 .. j - 1 : w[i] = t
  <2>1. j # 1
    BY <1>3, <1>4
  <2>2. j - 1 \in 1 .. Len(q) /\ w[j] = q[j - 1]
    <3>1. j - 1 \in 1 .. Len(q) /\ (j - 1) + 1 = j
      BY <1>3, <2>1
    <3> QED
      BY <1>3, <3>1
  <2>3. 1 \in 1 .. j - 1
    BY <2>2
  <2>4. CASE t = x
    BY <1>3, <2>3, <2>4
  <2>5. CASE t # x
    <3>1. PICK i \in 1 .. (j - 1) - 1 : q[i] = t
      BY <1>1, <1>4, <2>2, <2>5
    <3>2. i \in 1 .. Len(q) /\ i + 1 \in 1 .. j - 1
      BY <2>2, <3>1, <1>3
    <3> QED
      BY <1>3, <3>1, <3>2
  <2> QED
    BY <2>4, <2>5
<1>5. \A m \in s : ~Contains(w, m) => \E t \in targets[m] : t \in s /\ ~Contains(w, t)
  BY <1>1, <1>3
<1>6. \A m : Contains(w, m) => m \in s
  BY <1>1, <1>3
<1>7. Placed(c, s, targets, w)
  BY <1>3, <1>4, <1>5, <1>6 DEF Placed
<1> QED
  BY <1>2, <1>7

\* What greedy_order returns.
LEMMA GreedyIs ==
    ASSUME NEW c \in SUBSET Decls, NEW targets
    PROVE  Placed(c, c, targets, GreedyOrder(c, targets))
<1> DEFINE free(left) == {m \in left : targets[m] \cap left = {}}
           greedy(it) == it = [left \in SUBSET c |->
              IF free(left) = {} THEN <<>>
              ELSE <<Min(free(left))>> \o it[left \ {Min(free(left))}]]
<1>1. GreedyOrder(c, targets) = (CHOOSE it : greedy(it))[c]
  BY DEF GreedyOrder
<1>2. IsFiniteSet(c) /\ c \subseteq Nat
  <2>1. IsFiniteSet(Decls)
    BY ScheduleAssumption, FS_Interval DEF Decls
  <2>2. IsFiniteSet(c)
    BY <2>1, FS_Subset
  <2> QED
    BY <2>2 DEF Decls
<1>3. ASSUME NEW s \in SUBSET c, free(s) # {}
      PROVE  Min(free(s)) \in s /\ \A t \in targets[Min(free(s))] : t \notin s
  <2>1. free(s) \subseteq Nat
    BY <1>2
  <2>2. Min(free(s)) \in free(s)
    BY <1>3, <2>1, LeastIn
  <2> QED
    BY <2>2
<1>4. \E it : greedy(it)
  <2>1. PICK pick, g, base, none, D :
          /\ pick = [s \in SUBSET c |-> Min(free(s))] /\ base = {s \in SUBSET c : free(s) = {}}
          /\ none = <<>> /\ D = Seq(c)
          /\ g = [m \in c |-> [q \in Seq(c) |-> <<m>> \o q]]
    OBVIOUS
  <2>2. /\ Picks(c, base, pick)
        /\ \A s \in SUBSET c : s \in base <=> free(s) = {}
        /\ \A s \in SUBSET c : s \notin base => pick[s] = Min(free(s)) /\ Min(free(s)) \in c
    <3>1. \A s \in SUBSET c : s \in base <=> free(s) = {}
      BY <2>1
    <3>2. \A s \in SUBSET c : s \notin base => pick[s] = Min(free(s)) /\ Min(free(s)) \in s
      BY <1>3, <2>1, <3>1
    <3> HIDE DEF free
    <3> QED
      BY <3>1, <3>2 DEF Picks
  <2>3. g \in [c -> [D -> D]] /\ none \in D
    <3>1. \A m \in c, q \in Seq(c) : <<m>> \o q \in Seq(c)
      OBVIOUS
    <3> QED
      BY <2>1, <3>1
  <2>4. PICK it \in [SUBSET c -> D] : Recursive(c, base, none, pick, g, it)
    BY <1>2, <2>2, <2>3, SubsetRecursion
  <2>5. ASSUME NEW s \in SUBSET c
        PROVE  it[s] = IF free(s) = {} THEN <<>>
                       ELSE <<Min(free(s))>> \o it[s \ {Min(free(s))}]
    <3> HIDE DEF free
    <3>1. CASE free(s) = {}
      BY <2>1, <2>2, <2>4, <3>1 DEF Recursive
    <3>2. CASE free(s) # {}
      <4>1. PICK x : x = Min(free(s))
        OBVIOUS
      <4>2. pick[s] = x /\ x \in c /\ s \notin base
        BY <2>2, <3>2, <4>1
      <4>3. PICK q \in D : q = it[s \ {x}]
        BY <2>4
      <4>4. it[s] = g[x][q]
        BY <2>4, <4>2, <4>3 DEF Recursive
      <4>5. g[x][q] = <<x>> \o q
        BY <2>1, <4>2, <4>3
      <4> QED
        BY <3>2, <4>1, <4>3, <4>4, <4>5
    <3> QED
      BY <3>1, <3>2
  <2>6. greedy(it)
    <3> HIDE DEF free
    <3> QED
      BY <2>4, <2>5
  <2> QED
    BY <2>6
<1>5. PICK it : it = CHOOSE f : greedy(f)
  OBVIOUS
<1>6. greedy(it)
  BY <1>4, <1>5
<1>7. PICK P : P = {n \in Nat : \A s \in SUBSET c : Cardinality(s) <= n => Placed(c, s, targets, it[s])}
  OBVIOUS
<1>8. ASSUME NEW s \in SUBSET c, free(s) = {}
      PROVE  Placed(c, s, targets, it[s])
  <2>1. it[s] = <<>>
    BY <1>6, <1>8
  <2>2. Placed(c, s, targets, <<>>)
    <3>1. \A m \in s : \E t \in targets[m] : t \in s
      BY <1>8
    <3>2. Len(<<>>) = 0 /\ 1 .. 0 = {}
      OBVIOUS
    <3> QED
      BY <3>1, <3>2, EmptySequence DEF Placed
  <2> QED
    BY <2>1, <2>2
<1>9. ASSUME NEW s \in SUBSET c PROVE IsFiniteSet(s) /\ Cardinality(s) \in Nat
  BY <1>2, FS_Subset, FS_CardinalityType
<1>10. 0 \in P
  <2> SUFFICES ASSUME NEW s \in SUBSET c, Cardinality(s) <= 0
               PROVE  Placed(c, s, targets, it[s])
    BY <1>7
  <2>1. s = {}
    BY <1>9, FS_EmptySet
  <2>2. free(s) = {}
    BY <2>1
  <2> QED
    BY <1>8, <2>2
<1>11. ASSUME NEW n \in Nat, n \in P PROVE n + 1 \in P
  <2> SUFFICES ASSUME NEW s \in SUBSET c, Cardinality(s) <= n + 1
               PROVE  Placed(c, s, targets, it[s])
    BY <1>7
  <2>1. CASE free(s) = {}
    BY <1>8, <2>1
  <2>2. CASE free(s) # {}
    <3>1. PICK x : x = Min(free(s))
      OBVIOUS
    <3>2. x \in s /\ x \in c /\ (\A t \in targets[x] : t \notin s)
      BY <1>3, <2>2, <3>1
    <3>3. it[s] = <<x>> \o it[s \ {x}]
      <4> HIDE DEF free
      <4> QED
        BY <1>6, <2>2, <3>1
    <3>4. s \ {x} \in SUBSET c /\ Cardinality(s \ {x}) <= n
      <4>1. Cardinality(s \ {x}) = Cardinality(s) - 1
        BY <1>9, <3>2, FS_RemoveElement
      <4> QED
        BY <1>9, <4>1
    <3>5. PICK q : q = it[s \ {x}]
      OBVIOUS
    <3>6. Placed(c, s \ {x}, targets, q)
      BY <1>7, <1>11, <3>4, <3>5
    <3>7. Placed(c, s, targets, <<x>> \o q)
      BY <3>2, <3>6, PlacedStep
    <3> QED
      BY <3>3, <3>5, <3>7
  <2> QED
    BY <2>1, <2>2
<1>12. Cardinality(c) \in P
  BY <1>9, <1>10, <1>11, SetInduction
<1>13. Placed(c, c, targets, it[c])
  <2>1. c \in SUBSET c /\ Cardinality(c) \in Nat /\ Cardinality(c) <= Cardinality(c)
    BY <1>9
  <2> QED
    BY <1>7, <1>12, <2>1
<1> QED
  BY <1>1, <1>5, <1>13

\* Every member of s reads a member of s in the same step.
Stuck(s, targets) == s # {} /\ \A m \in s : \E t \in targets[m] : t \in s

\* Sets of declarations are finite.
LEMMA DeclsFinite ==
    ASSUME NEW c \in SUBSET Decls
    PROVE  IsFiniteSet(c) /\ Cardinality(c) \in Nat /\ c \subseteq Nat
<1>1. IsFiniteSet(Decls)
  BY ScheduleAssumption, FS_Interval DEF Decls
<1>2. IsFiniteSet(c) /\ Cardinality(c) \in Nat
  BY <1>1, FS_Subset, FS_CardinalityType
<1> QED
  BY <1>2 DEF Decls

\* An injective sequence over a finite set has its length when it has all of it.
LEMMA FullLength ==
    ASSUME NEW c, IsFiniteSet(c), NEW q \in Seq(c), IsInjective(q)
    PROVE  Len(q) = Cardinality(c) <=> \A m \in c : Contains(q, m)
<1>1. Len(q) \in Nat /\ DOMAIN q = 1 .. Len(q) /\ q \in [1 .. Len(q) -> c]
  OBVIOUS
<1>2. PICK D : D = 1 .. Len(q)
  OBVIOUS
<1>3. IsFiniteSet(D) /\ Cardinality(D) = Len(q)
  BY <1>1, <1>2, FS_Interval
<1>4. q \in Injection(D, c)
  <2>1. \A a, b \in D : q[a] = q[b] => a = b
    BY <1>1, <1>2 DEF IsInjective
  <2> QED
    BY <1>1, <1>2, <2>1 DEF Injection, IsInjective
<1>5. Cardinality(D) = Cardinality(c) <=> q \in Surjection(D, c)
  BY <1>3, <1>4, FS_Injection
<1>6. q \in Surjection(D, c) <=> \A m \in c : \E i \in D : q[i] = m
  BY <1>1, <1>2 DEF Surjection
<1>7. \A m : Contains(q, m) <=> \E i \in D : q[i] = m
  BY <1>1, <1>2 DEF Contains
<1> QED
  BY <1>3, <1>5, <1>6, <1>7

\* greedy_order places all members exactly when no members wait for each other.
LEMMA GreedyFull ==
    ASSUME NEW c \in SUBSET Decls, NEW targets
    PROVE  /\ Len(GreedyOrder(c, targets)) = Cardinality(c)
                <=> \A m \in c : Contains(GreedyOrder(c, targets), m)
           /\ Len(GreedyOrder(c, targets)) = Cardinality(c)
                <=> \A s \in SUBSET c : ~Stuck(s, targets)
<1>1. PICK q : q = GreedyOrder(c, targets)
  OBVIOUS
<1>2. Placed(c, c, targets, q)
  BY <1>1, GreedyIs
<1>3. Len(q) = Cardinality(c) <=> \A m \in c : Contains(q, m)
  BY <1>2, DeclsFinite, FullLength DEF Placed
<1>4. ASSUME \A m \in c : Contains(q, m), NEW s \in SUBSET c, Stuck(s, targets)
      PROVE  FALSE
  <2>1. PICK places : places = {j \in 1 .. Len(q) : q[j] \in s}
    OBVIOUS
  <2>2. places \subseteq Nat /\ places # {}
    <3>1. PICK m \in s : m \in c
      BY <1>4 DEF Stuck
    <3>2. PICK j \in 1 .. Len(q) : q[j] = m
      BY <1>2, <1>4, <3>1 DEF Contains, Placed
    <3> QED
      BY <2>1, <3>1, <3>2
  <2>3. PICK j \in places : \A i \in places : j <= i
    BY <2>2, LeastOf
  <2>4. j \in 1 .. Len(q) /\ q[j] \in s
    BY <2>1
  <2>5. PICK t \in targets[q[j]] : t \in s
    BY <1>4, <2>4 DEF Stuck
  <2>6. PICK i \in 1 .. j - 1 : q[i] = t
    BY <1>2, <2>4, <2>5 DEF Placed
  <2>7. i \in 1 .. Len(q) /\ i < j
    BY <1>2, <2>4 DEF Placed
  <2> QED
    BY <2>1, <2>3, <2>4, <2>5, <2>6, <2>7
<1>5. ASSUME NEW m \in c, ~Contains(q, m)
      PROVE  \E s \in SUBSET c : Stuck(s, targets)
  <2>1. PICK s : s = {x \in c : ~Contains(q, x)}
    OBVIOUS
  <2>2. \A x \in s : \E t \in targets[x] : t \in s
    BY <1>2, <2>1 DEF Placed
  <2>3. Stuck(s, targets) /\ s \in SUBSET c
    BY <1>5, <2>1, <2>2 DEF Stuck
  <2> QED
    BY <2>3
<1> QED
  BY <1>1, <1>3, <1>4, <1>5

\* What a member reads in a form.
LEMMA SameStepIs ==
    ASSUME NEW c, NEW form, DOMAIN form \subseteq c \X c, NEW m \in c
    PROVE  \A t : t \in SameStep(c, form)[m] <=>
                    <<m, t>> \in DOMAIN form /\ "same" \in form[<<m, t>>]
<1>1. SameStep(c, form)[m] = {r[2] : r \in {x \in DOMAIN form : x[1] = m /\ "same" \in form[x]}}
  BY DEF SameStep
<1>2. \A x \in DOMAIN form : x[1] \in c /\ x[2] \in c /\ x = <<x[1], x[2]>>
  <2> SUFFICES ASSUME NEW x \in DOMAIN form PROVE x[1] \in c /\ x[2] \in c /\ x = <<x[1], x[2]>>
    OBVIOUS
  <2>1. x \in c \X c
    OBVIOUS
  <2> QED
    BY <2>1, PairIs
<1> SUFFICES ASSUME NEW t PROVE t \in SameStep(c, form)[m] <=>
                    <<m, t>> \in DOMAIN form /\ "same" \in form[<<m, t>>]
  OBVIOUS
<1>3. ASSUME t \in SameStep(c, form)[m]
      PROVE  <<m, t>> \in DOMAIN form /\ "same" \in form[<<m, t>>]
  <2>1. PICK x \in DOMAIN form : x[1] = m /\ "same" \in form[x] /\ x[2] = t
    BY <1>1, <1>3
  <2>2. x = <<m, t>>
    BY <1>2, <2>1
  <2> QED
    BY <2>1, <2>2
<1>4. ASSUME <<m, t>> \in DOMAIN form, "same" \in form[<<m, t>>]
      PROVE  t \in SameStep(c, form)[m]
  <2>1. PICK x : x = <<m, t>>
    OBVIOUS
  <2>2. x \in DOMAIN form /\ x[1] = m /\ x[2] = t /\ "same" \in form[x]
    BY <1>4, <2>1
  <2> QED
    BY <1>1, <2>2
<1> QED
  BY <1>3, <1>4

\* Element (m, k) of the plan reads the element e.
ReadsElement(plan, m, k, e) ==
    \/ /\ plan.shape[m] = "for" \/ k # 1
       /\ e = <<e[1], k>> /\ <<m, e[1]>> \in DOMAIN plan.form
       /\ "same" \in plan.form[<<m, e[1]>>]
    \/ /\ k > 1
       /\ e = <<e[1], k - 1>> /\ <<m, e[1]>> \in DOMAIN plan.form
       /\ "previous" \in plan.form[<<m, e[1]>>]
    \/ k > 1 /\ plan.shape[m] = "unfold" /\ e = <<m, k - 1>>

\* element_dependencies: exactly the elements that are read.
LEMMA ElementDependenciesAre ==
    ASSUME NEW c, NEW plan, DOMAIN plan.form \subseteq c \X c, NEW m \in c, NEW k \in Nat, NEW e
    PROVE  e \in ElementDependencies(plan, m, k) <=> ReadsElement(plan, m, k, e)
<1> DEFINE targets(f) == {r[2] : r \in {x \in DOMAIN plan.form : x[1] = m /\ f \in plan.form[x]}}
<1>1. ASSUME NEW x \in DOMAIN plan.form PROVE x[1] \in c /\ x[2] \in c /\ x = <<x[1], x[2]>>
  <2>1. x \in c \X c
    BY <1>1
  <2> QED
    BY <2>1, PairIs
<1>2. ASSUME NEW f, NEW t
      PROVE  t \in targets(f) <=> <<m, t>> \in DOMAIN plan.form /\ f \in plan.form[<<m, t>>]
  <2>1. ASSUME t \in targets(f)
        PROVE  <<m, t>> \in DOMAIN plan.form /\ f \in plan.form[<<m, t>>]
    <3>1. PICK x \in DOMAIN plan.form : x[1] = m /\ f \in plan.form[x] /\ x[2] = t
      BY <2>1
    <3>2. x = <<m, t>>
      BY <1>1, <3>1
    <3> QED
      BY <3>1, <3>2
  <2>2. ASSUME <<m, t>> \in DOMAIN plan.form, f \in plan.form[<<m, t>>]
        PROVE  t \in targets(f)
    <3>1. PICK x : x = <<m, t>>
      OBVIOUS
    <3>2. x \in DOMAIN plan.form /\ x[1] = m /\ x[2] = t /\ f \in plan.form[x]
      BY <2>2, <3>1
    <3> QED
      BY <3>2
  <2> QED
    BY <2>1, <2>2
<1>3. ElementDependencies(plan, m, k) =
        (IF plan.shape[m] = "for" \/ k # 1 THEN targets("same") \X {k} ELSE {})
          \cup (IF k > 1 THEN targets("previous") \X {k - 1} ELSE {})
          \cup (IF k > 1 /\ plan.shape[m] = "unfold" THEN {<<m, k - 1>>} ELSE {})
  BY DEF ElementDependencies
<1>4. ASSUME NEW f, NEW l
      PROVE  e \in targets(f) \X {l} <=> e = <<e[1], l>> /\ e[1] \in targets(f)
  <2> HIDE DEF targets
  <2>1. ASSUME e \in targets(f) \X {l} PROVE e = <<e[1], l>> /\ e[1] \in targets(f)
    BY <2>1, PairIs
  <2>2. ASSUME e = <<e[1], l>>, e[1] \in targets(f) PROVE e \in targets(f) \X {l}
    <3>1. <<e[1], l>> \in targets(f) \X {l}
      BY <2>2
    <3> QED
      BY <2>2, <3>1
  <2> QED
    BY <2>1, <2>2
<1> HIDE DEF targets
<1>5. e \in ElementDependencies(plan, m, k) <=>
        \/ (plan.shape[m] = "for" \/ k # 1) /\ e \in targets("same") \X {k}
        \/ k > 1 /\ e \in targets("previous") \X {k - 1}
        \/ k > 1 /\ plan.shape[m] = "unfold" /\ e = <<m, k - 1>>
  BY <1>3
<1>6. e \in targets("same") \X {k} <=>
        e = <<e[1], k>> /\ <<m, e[1]>> \in DOMAIN plan.form /\ "same" \in plan.form[<<m, e[1]>>]
  BY <1>2, <1>4
<1>7. e \in targets("previous") \X {k - 1} <=>
        e = <<e[1], k - 1>> /\ <<m, e[1]>> \in DOMAIN plan.form
          /\ "previous" \in plan.form[<<m, e[1]>>]
  BY <1>2, <1>4
<1> QED
  BY <1>5, <1>6, <1>7 DEF ReadsElement

\* The elements at one step, and one step in two.
LEMMA ElementsAt ==
    ASSUME NEW c, NEW left \in SUBSET (c \X (1 .. 2)), left # {}
    PROVE  /\ \A e \in left : e[1] \in c /\ e[2] \in {1, 2} /\ e = <<e[1], e[2]>>
           /\ \E s \in SUBSET c : s # {} /\ \E k \in {1, 2} :
                /\ \A m : m \in s <=> <<m, k>> \in left
                /\ k = 2 => \A m : <<m, 1>> \notin left
<1>1. ASSUME NEW e \in left PROVE e[1] \in c /\ e[2] \in {1, 2} /\ e = <<e[1], e[2]>>
  <2>1. e \in c \X (1 .. 2)
    OBVIOUS
  <2>2. e[1] \in c /\ e[2] \in 1 .. 2 /\ e = <<e[1], e[2]>>
    BY <2>1, PairIs
  <2> QED
    BY <2>2
<1>2. CASE \E m : <<m, 1>> \in left
  <2>1. PICK s : s = {m \in c : <<m, 1>> \in left}
    OBVIOUS
  <2>2. \A m : <<m, 1>> \in left => m \in c
    <3> SUFFICES ASSUME NEW m, <<m, 1>> \in left PROVE m \in c
      OBVIOUS
    <3>1. PICK e : e = <<m, 1>>
      OBVIOUS
    <3> QED
      BY <1>1, <3>1
  <2>3. s \in SUBSET c /\ s # {} /\ \A m : m \in s <=> <<m, 1>> \in left
    BY <1>2, <2>1, <2>2
  <2> QED
    BY <1>1, <2>3
<1>3. CASE \A m : <<m, 1>> \notin left
  <2>1. PICK s : s = {m \in c : <<m, 2>> \in left}
    OBVIOUS
  <2>2. \A m : <<m, 2>> \in left => m \in c
    <3> SUFFICES ASSUME NEW m, <<m, 2>> \in left PROVE m \in c
      OBVIOUS
    <3>1. PICK e : e = <<m, 2>>
      OBVIOUS
    <3> QED
      BY <1>1, <3>1
  <2>3. PICK e \in left : TRUE
    OBVIOUS
  <2>4. e[1] \in c /\ <<e[1], 2>> \in left
    BY <1>1, <1>3
  <2>5. s \in SUBSET c /\ s # {} /\ \A m : m \in s <=> <<m, 2>> \in left
    BY <2>1, <2>2, <2>4
  <2> QED
    BY <1>1, <1>3, <2>5
<1> QED
  BY <1>2, <1>3

\* The elements of some members at one step.
LEMMA AllAt ==
    ASSUME NEW c, NEW s \in SUBSET c, s # {}, NEW k \in 1 .. 2
    PROVE  /\ {<<m, k>> : m \in s} \in SUBSET (c \X (1 .. 2)) /\ {<<m, k>> : m \in s} # {}
           /\ \A e \in {<<m, k>> : m \in s} : e[1] \in s /\ e[2] = k
           /\ \A m \in s : <<m, k>> \in {<<n, k>> : n \in s}
<1>1. \A m \in s : <<m, k>> \in c \X (1 .. 2)
  OBVIOUS
<1>2. {<<m, k>> : m \in s} \in SUBSET (c \X (1 .. 2))
  BY <1>1
<1>3. PICK m \in s : TRUE
  OBVIOUS
<1>4. {<<n, k>> : n \in s} # {}
  BY <1>3
<1>5. ASSUME NEW e \in {<<n, k>> : n \in s} PROVE e[1] \in s /\ e[2] = k
  BY <1>5
<1> QED
  BY <1>2, <1>4, <1>5

\* check_group accepts a keyed component exactly when its elements can be ordered.
LEMMA AcceptedExactly ==
    ASSUME NEW c \in SUBSET Decls, c # {}, \A m \in c : \E n \in c : n \in reads[m],
           NEW shape \in [c -> {"for", "unfold"}],
           NEW form \in [InGroup(c) -> ReadForms \ {{"other"}}],
           \A m \in c : m \notin reads[m],
           \A r \in DOMAIN form : "previous" \in form[r] => shape[r[1]] = "unfold"
    PROVE  Accepted(c, shape, form) <=> ElementsOrdered(c, shape, form)
<1>1. /\ DOMAIN form = InGroup(c) /\ DOMAIN form \subseteq c \X c
      /\ \A m, n \in c : <<m, n>> \in DOMAIN form <=> n \in reads[m]
  BY DEF InGroup
<1>2. PICK plan : plan = [shape |-> shape, form |-> form]
  OBVIOUS
<1>3. plan.shape = shape /\ plan.form = form /\ DOMAIN plan.form \subseteq c \X c
  BY <1>1, <1>2
<1>4. ElementsOrdered(c, shape, form) <=>
        \A left \in SUBSET (c \X (1 .. 2)) : left # {} =>
          \E e \in left : \A d \in left : d \notin ElementDependencies(plan, e[1], e[2])
  <2> DEFINE Q == SUBSET (c \X (1 .. 2))
  <2>1. ElementsOrdered(c, shape, form) <=>
          \A left \in (SUBSET (c \X (1 .. 2))) \ {{}} :
            \E e \in left : ElementDependencies(plan, e[1], e[2]) \cap left = {}
    BY <1>2 DEF ElementsOrdered
  <2>2. ElementsOrdered(c, shape, form) <=>
          \A left \in Q \ {{}} : \E e \in left : ElementDependencies(plan, e[1], e[2]) \cap left = {}
    BY <2>1
  <2> HIDE DEF Q
  <2>3. \A left, e : ElementDependencies(plan, e[1], e[2]) \cap left = {}
                       <=> \A d \in left : d \notin ElementDependencies(plan, e[1], e[2])
    OBVIOUS
  <2>4. ElementsOrdered(c, shape, form) <=>
          \A left \in Q : left # {} =>
            \E e \in left : \A d \in left : d \notin ElementDependencies(plan, e[1], e[2])
    BY ONLY <2>2, <2>3
  <2> QED
    BY <2>4 DEF Q
<1>5. PICK targets : targets = SameStep(c, form)
  OBVIOUS
<1>6. \A m \in c : \A t : t \in targets[m] <=> <<m, t>> \in DOMAIN form /\ "same" \in form[<<m, t>>]
  BY <1>1, <1>5, SameStepIs
<1>7. \A r \in DOMAIN form : form[r] \in ReadForms /\ "other" \notin form[r]
  <2> SUFFICES ASSUME NEW r \in DOMAIN form PROVE form[r] \in ReadForms /\ "other" \notin form[r]
    OBVIOUS
  <2>1. form[r] \in ReadForms \ {{"other"}}
    BY <1>1
  <2> QED
    BY <2>1 DEF ReadForms
<1>8. Accepted(c, shape, form) <=>
        (\E m \in c : shape[m] = "unfold") /\ \A s \in SUBSET c : ~Stuck(s, targets)
  <2>1. WellKeyed(c, shape, form) <=> \E m \in c : shape[m] = "unfold"
    BY <1>7 DEF WellKeyed
  <2>2. Len(GreedyOrder(c, targets)) = Cardinality(c) <=> \A s \in SUBSET c : ~Stuck(s, targets)
    BY GreedyFull
  <2> QED
    BY <1>5, <2>1, <2>2 DEF Accepted
<1>9. ASSUME Accepted(c, shape, form) PROVE ElementsOrdered(c, shape, form)
  <2> SUFFICES ASSUME NEW left \in SUBSET (c \X (1 .. 2)), left # {}
               PROVE  \E e \in left : \A d \in left : d \notin ElementDependencies(plan, e[1], e[2])
    BY <1>4
  <2>1. PICK s \in SUBSET c : s # {} /\ \E k \in {1, 2} :
          /\ \A m : m \in s <=> <<m, k>> \in left
          /\ k = 2 => \A m : <<m, 1>> \notin left
    BY ElementsAt
  <2>10. PICK k \in {1, 2} : /\ \A m : m \in s <=> <<m, k>> \in left
                             /\ k = 2 => \A m : <<m, 1>> \notin left
    BY <2>1
  <2>2. PICK m \in s : \A t \in targets[m] : t \notin s
    BY <1>8, <1>9, <2>1 DEF Stuck
  <2>3. PICK e : e = <<m, k>>
    OBVIOUS
  <2>4. e \in left /\ e[1] = m /\ e[2] = k /\ k \in Nat /\ m \in c
    BY <2>3, <2>10
  <2>5. ASSUME NEW d \in left, d \in ElementDependencies(plan, m, k) PROVE FALSE
    <3>1. \/ d = <<d[1], k>> /\ <<m, d[1]>> \in DOMAIN form /\ "same" \in form[<<m, d[1]>>]
          \/ k > 1 /\ d = <<d[1], k - 1>>
          \/ k > 1 /\ d = <<m, k - 1>>
      <4>1. \/ /\ plan.shape[m] = "for" \/ k # 1
               /\ d = <<d[1], k>> /\ <<m, d[1]>> \in DOMAIN plan.form
               /\ "same" \in plan.form[<<m, d[1]>>]
            \/ /\ k > 1
               /\ d = <<d[1], k - 1>> /\ <<m, d[1]>> \in DOMAIN plan.form
               /\ "previous" \in plan.form[<<m, d[1]>>]
            \/ k > 1 /\ plan.shape[m] = "unfold" /\ d = <<m, k - 1>>
        <5>1. m \in c /\ k \in Nat /\ DOMAIN plan.form \subseteq c \X c
          BY <1>3, <2>4
        <5>2. ReadsElement(plan, m, k, d)
          BY <2>5, <5>1, ElementDependenciesAre
        <5> QED
          BY <5>2 DEF ReadsElement
      <4> QED
        BY ONLY <1>3, <4>1
    <3>2. CASE d = <<d[1], k>> /\ <<m, d[1]>> \in DOMAIN form /\ "same" \in form[<<m, d[1]>>]
      <4>1. d[1] \in targets[m] /\ d[1] \in s
        BY <1>6, <2>10, <2>4, <2>5, <3>2
      <4> QED
        BY <2>2, <4>1
    <3>3. CASE k > 1 /\ \E x : d = <<x, k - 1>>
      <4>1. k = 2 /\ k - 1 = 1
        BY <3>3
      <4> QED
        BY <2>10, <2>5, <3>3, <4>1
    <3> QED
      BY <3>1, <3>2, <3>3
  <2> QED
    BY <2>4, <2>5
<1>10. ASSUME ElementsOrdered(c, shape, form), NEW s \in SUBSET c, Stuck(s, targets) PROVE FALSE
  <2>1. PICK left : left = {<<m, 2>> : m \in s}
    OBVIOUS
  <2>2. left \in SUBSET (c \X (1 .. 2)) /\ left # {}
    BY <1>10, <2>1, AllAt DEF Stuck
  <2>3. PICK e \in left : ElementDependencies(plan, e[1], e[2]) \cap left = {}
    BY <1>4, <1>10, <2>2
  <2>4. PICK m \in s : e = <<m, 2>> /\ e[1] = m /\ e[2] = 2
    BY <2>1
  <2>5. PICK t \in targets[m] : t \in s
    BY <1>10, <2>4 DEF Stuck
  <2>6. <<m, t>> \in DOMAIN form /\ "same" \in form[<<m, t>>] /\ m \in c
    BY <1>6, <2>5
  <2>7. PICK d : d = <<t, 2>>
    OBVIOUS
  <2>8. d[1] = t /\ d \in left
    BY <2>1, <2>5, <2>7
  <2>9. d \in ElementDependencies(plan, m, 2)
    <3>1. /\ d = <<d[1], 2>> /\ <<m, d[1]>> \in DOMAIN plan.form
          /\ "same" \in plan.form[<<m, d[1]>>] /\ 2 # 1 /\ 2 \in Nat
      BY <1>3, <2>6, <2>7, <2>8
    <3>2. ReadsElement(plan, m, 2, d)
      BY <3>1 DEF ReadsElement
    <3> QED
      BY <1>3, <2>6, <3>1, <3>2, ElementDependenciesAre
  <2> QED
    BY <2>3, <2>4, <2>8, <2>9
<1>11. ASSUME ElementsOrdered(c, shape, form) PROVE \E m \in c : shape[m] = "unfold"
  <2> SUFFICES ASSUME \A m \in c : shape[m] = "for" PROVE FALSE
    OBVIOUS
  <2>1. PICK left : left = {<<m, 1>> : m \in c}
    OBVIOUS
  <2>2. left \in SUBSET (c \X (1 .. 2)) /\ left # {}
    BY <2>1, AllAt
  <2>3. PICK e \in left : ElementDependencies(plan, e[1], e[2]) \cap left = {}
    BY <1>4, <1>11, <2>2
  <2>4. PICK m \in c : e = <<m, 1>> /\ e[1] = m /\ e[2] = 1
    BY <2>1
  <2>5. PICK t \in c : t \in reads[m]
    OBVIOUS
  <2>6. PICK r : r = <<m, t>>
    OBVIOUS
  <2>7. r \in DOMAIN form /\ r[1] = m
    BY <1>1, <2>4, <2>5, <2>6
  <2>8. "previous" \notin form[r] /\ form[r] \in ReadForms \ {{"other"}}
    BY <1>1, <2>4, <2>7
  <2>9. "same" \in form[r]
    BY <2>8 DEF ReadForms
  <2>10. PICK d : d = <<t, 1>>
    OBVIOUS
  <2>11. d[1] = t /\ d \in left
    BY <2>1, <2>10
  <2>12. plan.shape[m] = "for"
    BY <1>3
  <2>13. d \in ElementDependencies(plan, m, 1)
    <3>1. /\ d = <<d[1], 1>> /\ <<m, d[1]>> \in DOMAIN plan.form
          /\ "same" \in plan.form[<<m, d[1]>>] /\ 1 \in Nat
      BY <1>3, <2>6, <2>7, <2>9, <2>10, <2>11
    <3>2. ReadsElement(plan, m, 1, d)
      BY <2>12, <3>1 DEF ReadsElement
    <3> QED
      BY <1>3, <2>4, <3>1, <3>2, ElementDependenciesAre
  <2> QED
    BY <2>3, <2>4, <2>11, <2>13
<1> QED
  BY <1>8, <1>9, <1>10, <1>11

-----------------------------------------------------------------------------
(* Reads and their classes.                                                 *)

\* What a declaration reads at any distance, and the classes of declarations that read
\* each other.
Follows(T) == \A n \in T : reads[n] \subseteq T
ReadsTo(a, b) == \A T \in SUBSET Decls : a \in T /\ Follows(T) => b \in T
ClassOf(a) == {b \in Decls : ReadsTo(a, b) /\ ReadsTo(b, a)}
ReadsItself(a) == \E d \in reads[a] : ReadsTo(d, a)
ReadClasses == {ClassOf(a) : a \in {b \in Decls : ReadsItself(b)}}
ReadsType == reads \in [Decls -> SUBSET Decls]

\* Reading at a distance is reflexive and transitive, and starts with a read.
LEMMA ReadsToFacts ==
    ASSUME ReadsType
    PROVE  /\ \A a \in Decls : ReadsTo(a, a)
           /\ \A a \in Decls : \A b \in reads[a] : b \in Decls /\ ReadsTo(a, b)
           /\ \A a, b, c : ReadsTo(a, b) /\ ReadsTo(b, c) => ReadsTo(a, c)
           /\ \A a \in Decls : \A b : ReadsTo(a, b) => b \in Decls
           /\ \A a \in Decls : \A b : ReadsTo(a, b) => a = b \/ \E n \in reads[a] : ReadsTo(n, b)
<1>1. \A a \in Decls : ReadsTo(a, a)
  BY DEF ReadsTo
<1>2. ASSUME NEW a \in Decls, NEW b \in reads[a] PROVE b \in Decls /\ ReadsTo(a, b)
  BY DEF ReadsTo, Follows, ReadsType
<1>3. ASSUME NEW a, NEW b, NEW c, ReadsTo(a, b), ReadsTo(b, c) PROVE ReadsTo(a, c)
  BY <1>3 DEF ReadsTo
<1>4. ASSUME NEW a \in Decls, NEW b, ReadsTo(a, b) PROVE b \in Decls
  <2>1. Decls \in SUBSET Decls /\ Follows(Decls)
    BY DEF Follows, ReadsType
  <2> QED
    BY <1>4, <2>1 DEF ReadsTo
<1>5. ASSUME NEW a \in Decls, NEW b, ReadsTo(a, b)
      PROVE  a = b \/ \E n \in reads[a] : ReadsTo(n, b)
  <2>1. PICK T : T = {x \in Decls : x = a \/ \E n \in reads[a] : ReadsTo(n, x)}
    OBVIOUS
  <2>2. ASSUME NEW x \in T, NEW y \in reads[x] PROVE y \in T
    <3>1. x \in Decls /\ y \in Decls /\ ReadsTo(x, y) /\ ReadsTo(y, y)
      BY <1>1, <1>2, <2>1
    <3>2. CASE x = a
      BY <2>1, <3>1, <3>2
    <3>3. CASE x # a
      <4>1. PICK n \in reads[a] : ReadsTo(n, x)
        BY <2>1, <3>3
      <4> QED
        BY <1>3, <2>1, <3>1, <4>1
    <3> QED
      BY <3>2, <3>3
  <2>3. T \in SUBSET Decls /\ Follows(T) /\ a \in T
    BY <2>1, <2>2 DEF Follows
  <2>4. b \in T
    BY <1>5, <2>3 DEF ReadsTo
  <2> QED
    BY <2>1, <2>4
<1> QED
  BY <1>1, <1>2, <1>3, <1>4, <1>5

\* Declarations that read each other at a distance form classes.
LEMMA ClassFacts ==
    ASSUME ReadsType, NEW c \in ReadClasses
    PROVE  /\ c \in SUBSET Decls /\ c # {}
           /\ \A m \in c : c = ClassOf(m)
           /\ \A m \in c : \E n \in c : n \in reads[m]
           /\ \A a, b \in c : ReadsTo(a, b)
           /\ \A b \in c : \A x : ReadsTo(b, x) /\ ReadsTo(x, b) => x \in c
           /\ \A d \in ReadClasses : \A m \in c : m \in d => c = d
<1>1. PICK a \in Decls : ReadsItself(a) /\ c = ClassOf(a)
  BY DEF ReadClasses
<1>2. PICK d \in reads[a] : ReadsTo(d, a)
  BY <1>1 DEF ReadsItself
<1>3. /\ \A x \in Decls : ReadsTo(x, x)
      /\ \A x \in Decls : \A y \in reads[x] : y \in Decls /\ ReadsTo(x, y)
      /\ \A x, y, z : ReadsTo(x, y) /\ ReadsTo(y, z) => ReadsTo(x, z)
      /\ \A x \in Decls : \A y : ReadsTo(x, y) => y \in Decls
      /\ \A x \in Decls : \A y : ReadsTo(x, y) => x = y \/ \E n \in reads[x] : ReadsTo(n, y)
  BY ReadsToFacts
<1>4. c \in SUBSET Decls /\ a \in c
  BY <1>1, <1>3 DEF ClassOf
<1>5. \A x, y \in c : ReadsTo(x, y)
  BY <1>1, <1>3 DEF ClassOf
<1>6. ASSUME NEW b \in c, NEW x, ReadsTo(b, x), ReadsTo(x, b) PROVE x \in c
  <2>1. x \in Decls /\ ReadsTo(a, b) /\ ReadsTo(b, a)
    BY <1>3, <1>4, <1>5, <1>6
  <2> QED
    BY <1>1, <1>3, <1>6, <2>1 DEF ClassOf
<1>7. ASSUME NEW e \in ReadClasses, NEW m \in e PROVE e = ClassOf(m)
  <2>1. PICK b \in Decls : e = ClassOf(b)
    BY DEF ReadClasses
  <2>2. m \in Decls /\ ReadsTo(b, m) /\ ReadsTo(m, b)
    BY <1>7, <2>1 DEF ClassOf
  <2>3. \A x \in Decls : (ReadsTo(b, x) <=> ReadsTo(m, x)) /\ (ReadsTo(x, b) <=> ReadsTo(x, m))
    BY <1>3, <2>2
  <2> QED
    BY <2>1, <2>3 DEF ClassOf
<1>8. ASSUME NEW m \in c PROVE \E n \in c : n \in reads[m]
  <2>1. m \in Decls /\ ReadsTo(m, a) /\ ReadsTo(a, m) /\ ReadsTo(m, d) /\ ReadsTo(d, m)
    BY <1>2, <1>3, <1>4, <1>5
  <2>2. \E n \in reads[m] : ReadsTo(n, m)
    <3>1. CASE m = a
      BY <1>2, <3>1
    <3>2. CASE m # a
      <4>1. PICK n \in reads[m] : ReadsTo(n, a)
        BY <1>3, <2>1, <3>2
      <4> QED
        BY <1>3, <2>1, <4>1
    <3> QED
      BY <3>1, <3>2
  <2>3. PICK n \in reads[m] : ReadsTo(n, m)
    BY <2>2
  <2>4. ReadsTo(m, n)
    BY <1>3, <2>1
  <2> QED
    BY <1>6, <2>3, <2>4
<1>9. \A m \in c : c = ClassOf(m)
  BY <1>7
<1>10. \A e \in ReadClasses : \A m \in c : m \in e => c = e
  BY <1>7
<1> QED
  BY <1>4, <1>5, <1>6, <1>8, <1>9, <1>10

\* A read that is answered at some distance stays within a class.
LEMMA WithinClass ==
    ASSUME ReadsType, NEW a \in Decls, NEW d \in reads[a], ReadsTo(d, a)
    PROVE  \E c \in ReadClasses : a \in c /\ d \in c
<1>1. ClassOf(a) \in ReadClasses
  BY DEF ReadClasses, ReadsItself
<1>2. a \in ClassOf(a) /\ d \in ClassOf(a)
  BY ReadsToFacts DEF ClassOf
<1> QED
  BY <1>1, <1>2

\* Nothing of this changes while the reads do not.
LEMMA ReadsKept ==
    ASSUME reads' = reads
    PROVE  /\ ReadClasses' = ReadClasses /\ (ReadsType' <=> ReadsType)
           /\ \A a, b : ReadsTo(a, b)' <=> ReadsTo(a, b)
<1>1. \A T : Follows(T)' <=> Follows(T)
  BY DEF Follows
<1>2. \A a, b : ReadsTo(a, b)' <=> ReadsTo(a, b)
  BY <1>1 DEF ReadsTo
<1>3. \A a : ClassOf(a)' = ClassOf(a)
  BY <1>2 DEF ClassOf
<1>4. \A a : ReadsItself(a)' <=> ReadsItself(a)
  BY <1>2 DEF ReadsItself
<1> QED
  BY <1>2, <1>3, <1>4 DEF ReadClasses, ReadsType

-----------------------------------------------------------------------------
\* The graph has the reads.
GraphOfReads ==
    /\ graph \in GraphsOf(N)
    /\ \A a, b \in Decls : DependsOn(a, b) <=> b \in reads[a]

\* The checker's graph: its cyclic components are the classes of the reads.
LEMMA GraphIsReads ==
    ASSUME ReadsType, GraphOfReads
    PROVE  /\ Nodes = Decls /\ IsGraph(graph)
           /\ \A a, b \in Decls : Reachable(a, b) <=> ReadsTo(a, b)
           /\ {MutuallyReachable(n) : n \in {m \in Nodes : OnCycle(m)}} = ReadClasses
<1>1. N \in Nat
  BY ScheduleAssumption
<1>2. Nodes = Decls /\ IsGraph(graph)
  BY <1>1, GraphsAre DEF GraphOfReads, Nodes, Decls
<1>3. \A T \in SUBSET Decls : Closed(T) <=> Follows(T)
  <2>1. ASSUME NEW T \in SUBSET Decls, Closed(T) PROVE Follows(T)
    BY <1>2, <2>1 DEF Closed, Follows, GraphOfReads, ReadsType
  <2>2. ASSUME NEW T \in SUBSET Decls, Follows(T) PROVE Closed(T)
    BY <1>2, <2>2 DEF Closed, Follows, GraphOfReads
  <2> QED
    BY <2>1, <2>2
<1>4. \A a, b : Reachable(a, b) <=> ReadsTo(a, b)
  BY <1>2, <1>3 DEF Reachable, ReadsTo
<1>5. \A n : MutuallyReachable(n) = ClassOf(n)
  BY <1>2, <1>4 DEF MutuallyReachable, ClassOf
<1>6. \A n \in Decls : OnCycle(n) <=> ReadsItself(n)
  <2>1. \A n \in Decls : \A m \in reads[n] : m \in Decls
    BY DEF ReadsType
  <2> QED
    BY <1>2, <1>4, <2>1 DEF OnCycle, ReadsItself, GraphOfReads
<1>7. {m \in Nodes : OnCycle(m)} = {b \in Decls : ReadsItself(b)}
  BY <1>2, <1>6
<1> QED
  BY <1>2, <1>4, <1>5, <1>7 DEF ReadClasses

-----------------------------------------------------------------------------
(* Plans and units.                                                         *)

\* p is the plan of an accepted class.
Planned(p) ==
    \E c \in ReadClasses : \E shape \in [c -> Shapes], form \in [InGroup(c) -> ReadForms] :
        Accepted(c, shape, form) /\ p = Plan(c, shape, form)

\* What is known of every plan.
PlanFacts(p) ==
    /\ Members(p) \in ReadClasses /\ Members(p) \in SUBSET Decls
    /\ p.members \in Seq(Members(p)) /\ IsInjective(p.members)
    /\ \A m : Contains(p.members, m) <=> m \in Members(p)
    /\ p.shape \in [Members(p) -> {"for", "unfold"}]
    /\ DOMAIN p.form \subseteq Members(p) \X Members(p)
    /\ \A m, n \in Members(p) : <<m, n>> \in DOMAIN p.form <=> n \in reads[m]
    /\ \A m, n \in Members(p) : "same" \in p.form[<<m, n>>] /\ n \in reads[m] =>
         \A j \in 1 .. Len(p.members) : p.members[j] = m => \E i \in 1 .. j - 1 : p.members[i] = n
    /\ \A m, n \in Members(p) : n \in reads[m] =>
         /\ p.form[<<m, n>>] \in ReadForms \ {{"other"}}
         /\ "previous" \in p.form[<<m, n>>] => p.shape[m] = "unfold"
    /\ \A m \in Members(p) : m \notin reads[m]

\* What check_group made sure of when it planned a group.
LEMMA PlannedIs ==
    ASSUME ReadsType, NEW p, Planned(p)
    PROVE  PlanFacts(p)
<1> PICK c \in ReadClasses : \E shape \in [c -> Shapes], form \in [InGroup(c) -> ReadForms] :
        Accepted(c, shape, form) /\ p = Plan(c, shape, form)
  BY DEF Planned
<1>1. PICK shape \in [c -> Shapes], form \in [InGroup(c) -> ReadForms] :
        Accepted(c, shape, form) /\ p = Plan(c, shape, form)
  OBVIOUS
<1>2. c \in SUBSET Decls /\ c # {}
  BY ClassFacts
<1>3. PICK targets, q : targets = SameStep(c, form) /\ q = GreedyOrder(c, targets)
  OBVIOUS
<1>4. p = [members |-> q, shape |-> shape, form |-> form]
  BY <1>1, <1>3 DEF Plan
<1>5. p.members = q /\ p.shape = shape /\ p.form = form
  BY <1>4
<1>6. WellKeyed(c, shape, form) /\ Len(q) = Cardinality(c)
  BY <1>1, <1>3 DEF Accepted
<1>7. Placed(c, c, targets, q)
  BY <1>2, <1>3, GreedyIs
<1>8. \A m \in c : Contains(q, m)
  BY <1>2, <1>3, <1>6, GreedyFull
<1>9. q \in Seq(c) /\ IsInjective(q) /\ \A m : Contains(q, m) <=> m \in c
  BY <1>7, <1>8 DEF Placed
<1>10. Members(p) = c
  <2>1. \A m : m \in ToSet(q) <=> Contains(q, m)
    BY DEF ToSet, Contains
  <2> QED
    BY <1>5, <1>9, <2>1 DEF Members
<1>11. /\ DOMAIN form = InGroup(c) /\ DOMAIN form \subseteq c \X c
       /\ \A m, n \in c : <<m, n>> \in DOMAIN form <=> n \in reads[m]
  BY DEF InGroup
<1>12. ASSUME NEW m \in c, NEW n \in c, "same" \in form[<<m, n>>], n \in reads[m],
              NEW j \in 1 .. Len(q), q[j] = m
       PROVE  \E i \in 1 .. j - 1 : q[i] = n
  <2>1. n \in targets[m]
    BY <1>3, <1>11, <1>12, SameStepIs
  <2> QED
    BY <1>7, <1>12, <2>1 DEF Placed
<1>13. shape \in [c -> {"for", "unfold"}]
  BY <1>6 DEF WellKeyed, Shapes
<1>14. ASSUME NEW m \in c, NEW n \in c, n \in reads[m]
       PROVE  /\ form[<<m, n>>] \in ReadForms \ {{"other"}}
              /\ "previous" \in form[<<m, n>>] => shape[m] = "unfold"
  <2>1. PICK r : r = <<m, n>>
    OBVIOUS
  <2>2. r \in DOMAIN form /\ r[1] = m
    BY <1>11, <1>14, <2>1
  <2>3. form[r] \in ReadForms /\ "other" \notin form[r] /\ ("previous" \in form[r] => shape[m] = "unfold")
    BY <1>6, <1>11, <2>2 DEF WellKeyed
  <2>4. form[r] # {"other"}
    BY <2>3
  <2> QED
    BY <2>1, <2>3, <2>4
<1>15. \A m \in c : m \notin reads[m]
  BY <1>6 DEF WellKeyed
<1>16. /\ \A m, n \in c : "same" \in form[<<m, n>>] /\ n \in reads[m] =>
            \A j \in 1 .. Len(q) : q[j] = m => \E i \in 1 .. j - 1 : q[i] = n
       /\ \A m, n \in c : n \in reads[m] =>
            /\ form[<<m, n>>] \in ReadForms \ {{"other"}}
            /\ "previous" \in form[<<m, n>>] => shape[m] = "unfold"
  BY <1>12, <1>14
<1> QED
  BY <1>2, <1>5, <1>9, <1>10, <1>11, <1>13, <1>15, <1>16 DEF PlanFacts

\* Every class is not checked yet, rejected or planned, and only one of these.
Checked ==
    /\ unchecked \in Seq(ReadClasses) /\ IsInjective(unchecked)
    /\ rejected \subseteq ReadClasses
    /\ \E S : plans \in Seq(S)
    /\ \A p \in ToSet(plans) :
         Planned(p) /\ Members(p) \notin rejected /\ ~Contains(unchecked, Members(p))
    /\ \A p, q \in ToSet(plans) : Members(p) = Members(q) => p = q
    /\ \A c \in rejected : ~Contains(unchecked, c)
    /\ \A c \in ReadClasses : \/ Contains(unchecked, c) \/ c \in rejected
                              \/ \E p \in ToSet(plans) : Members(p) = c

\* unit_of: the units split the declarations.
LEMMA UnitFacts ==
    ASSUME ReadsType, Checked
    PROVE  /\ \A a, b : SameGroup(a, b) <=> \E p \in ToSet(plans) : a \in Members(p) /\ b \in Members(p)
           /\ \A p \in ToSet(plans) : \A a \in Members(p) : UnitOf(a) = Members(p)
           /\ \A a : (\A p \in ToSet(plans) : a \notin Members(p)) => UnitOf(a) = {a}
           /\ \A a, b : b \in UnitOf(a) <=> a = b \/ SameGroup(a, b)
           /\ \A a \in Decls : UnitOf(a) \in SUBSET Decls /\ a \in UnitOf(a)
           /\ \A a \in Decls : \A b \in UnitOf(a) : UnitOf(b) = UnitOf(a)
<1>1. \A a, b : SameGroup(a, b) <=> \E p \in ToSet(plans) : a \in Members(p) /\ b \in Members(p)
  BY DEF SameGroup
<1>2. \A p \in ToSet(plans) : Members(p) \in ReadClasses /\ Members(p) \in SUBSET Decls
  BY PlannedIs DEF Checked, PlanFacts
<1>3. \A p, q \in ToSet(plans) : \A a : a \in Members(p) /\ a \in Members(q) => p = q
  BY <1>2, ClassFacts DEF Checked
<1>4. \A m : m \in Grouped <=> \E p \in ToSet(plans) : m \in Members(p)
  BY DEF Grouped
<1>5. \A a, b : b \in UnitOf(a) <=> a = b \/ SameGroup(a, b)
  BY <1>1, <1>4 DEF UnitOf
<1>6. ASSUME NEW p \in ToSet(plans), NEW a \in Members(p) PROVE UnitOf(a) = Members(p)
  <2>1. \A b : b \in UnitOf(a) <=> b \in Members(p)
    BY <1>1, <1>3, <1>5
  <2> QED
    BY <2>1
<1>7. ASSUME NEW a, \A p \in ToSet(plans) : a \notin Members(p) PROVE UnitOf(a) = {a}
  <2>1. \A b : b \in UnitOf(a) <=> b \in {a}
    BY <1>1, <1>5, <1>7
  <2> QED
    BY <2>1
<1>8. ASSUME NEW a \in Decls
      PROVE  /\ UnitOf(a) \in SUBSET Decls /\ a \in UnitOf(a)
             /\ \A b \in UnitOf(a) : UnitOf(b) = UnitOf(a)
  <2>1. CASE \E p \in ToSet(plans) : a \in Members(p)
    BY <1>2, <1>6, <2>1
  <2>2. CASE \A p \in ToSet(plans) : a \notin Members(p)
    BY <1>7, <2>2
  <2> QED
    BY <2>1, <2>2
<1> QED
  BY <1>1, <1>5, <1>6, <1>7, <1>8

\* us lists the units, each once.
Partition(us) ==
    /\ us \in Seq(SUBSET Decls)
    /\ \A i \in 1 .. Len(us) : us[i] # {} /\ \A d \in us[i] : us[i] = UnitOf(d)
    /\ \A d \in Decls : \E i \in 1 .. Len(us) : d \in us[i]
    /\ \A i, j \in 1 .. Len(us) : us[i] = us[j] => i = j

\* order_units makes one node of every unit.
LEMMA UnitNodesAre ==
    ASSUME ReadsType, Checked
    PROVE  Partition(UnitNodes)
<1>1. PICK all, least : all = [d \in Decls |-> d] /\ least = {d \in Decls : d = Min(UnitOf(d))}
  OBVIOUS
<1>2. PICK firsts : firsts = Filtered(all, least)
  OBVIOUS
<1>3. PICK us : us = UnitNodes
  OBVIOUS
<1>4. us = [i \in DOMAIN firsts |-> UnitOf(firsts[i])]
  BY <1>1, <1>2, <1>3 DEF UnitNodes
<1>5. N \in Nat /\ Decls = 1 .. N
  BY ScheduleAssumption DEF Decls
<1>6. all \in Seq(Decls) /\ IsInjective(all) /\ \A d : Contains(all, d) <=> d \in Decls
  <2>1. all \in Seq(Decls) /\ DOMAIN all = Decls
    BY <1>1, <1>5
  <2> QED
    BY <1>1, <1>5, <2>1 DEF IsInjective, Contains
<1>7. /\ firsts \in Seq(Decls) /\ IsInjective(firsts)
      /\ \A d : Contains(firsts, d) <=> d \in Decls /\ d = Min(UnitOf(d))
  <2>1. /\ firsts \in Seq(Decls) /\ IsInjective(firsts)
        /\ \A d : Contains(firsts, d) <=> Contains(all, d) /\ d \in least
    BY <1>2, <1>6, FilteredElements
  <2> QED
    BY <1>1, <1>6, <2>1
<1>8. /\ Len(firsts) \in Nat /\ DOMAIN firsts = 1 .. Len(firsts)
      /\ \A i \in 1 .. Len(firsts) : firsts[i] \in Decls /\ firsts[i] = Min(UnitOf(firsts[i]))
      /\ \A i, j \in 1 .. Len(firsts) : firsts[i] = firsts[j] => i = j
  <2>1. Len(firsts) \in Nat /\ DOMAIN firsts = 1 .. Len(firsts)
    BY <1>7
  <2>2. \A i \in 1 .. Len(firsts) : Contains(firsts, firsts[i])
    BY <2>1 DEF Contains
  <2> QED
    BY <1>7, <2>1, <2>2 DEF IsInjective
<1>9. /\ \A a \in Decls : UnitOf(a) \in SUBSET Decls /\ a \in UnitOf(a)
      /\ \A a \in Decls : \A b \in UnitOf(a) : UnitOf(b) = UnitOf(a)
  BY UnitFacts
<1>10. us \in Seq(SUBSET Decls) /\ Len(us) = Len(firsts)
  <2>1. \A i \in 1 .. Len(firsts) : UnitOf(firsts[i]) \in SUBSET Decls
    BY <1>8, <1>9
  <2> QED
    BY <1>4, <1>8, <2>1
<1>11. \A i \in 1 .. Len(us) : us[i] = UnitOf(firsts[i])
  BY <1>4, <1>8, <1>10
<1>12. \A i \in 1 .. Len(us) : us[i] # {} /\ \A d \in us[i] : us[i] = UnitOf(d)
  BY <1>8, <1>9, <1>10, <1>11
<1>13. ASSUME NEW d \in Decls PROVE \E i \in 1 .. Len(us) : d \in us[i]
  <2>1. UnitOf(d) \subseteq Nat /\ UnitOf(d) # {}
    BY <1>5, <1>9
  <2>2. PICK m : m = Min(UnitOf(d))
    OBVIOUS
  <2>3. m \in UnitOf(d) /\ m \in Decls
    BY <1>9, <2>1, <2>2, LeastIn
  <2>4. UnitOf(m) = UnitOf(d)
    BY <1>9, <2>3
  <2>5. Contains(firsts, m)
    BY <1>7, <2>2, <2>3, <2>4
  <2>6. PICK i \in 1 .. Len(firsts) : firsts[i] = m
    BY <1>8, <2>5 DEF Contains
  <2> QED
    BY <1>9, <1>10, <1>11, <2>4, <2>6
<1>14. \A i, j \in 1 .. Len(us) : us[i] = us[j] => i = j
  BY <1>8, <1>10, <1>11
<1> QED
  BY <1>3, <1>10, <1>12, <1>13, <1>14 DEF Partition

\* The reads between the units of us.
Between(us, i, j) == i # j /\ \E a \in us[i], b \in us[j] : b \in reads[a]

\* order_units makes an edge wherever a unit reads another.
LEMMA UnitEdgesAre ==
    ASSUME ReadsType, Checked, NEW us, us = UnitNodes
    PROVE  /\ UnitEdges \in Seq((1 .. Len(us)) \X (1 .. Len(us)))
           /\ \A i, j \in 1 .. Len(us) : Contains(UnitEdges, <<i, j>>) <=> Between(us, i, j)
<1>1. PICK apart : apart = {r \in Decls \X Decls : UnitOf(r[1]) # UnitOf(r[2])}
  OBVIOUS
<1>2. PICK between : between = Filtered(ReadEdges, apart)
  OBVIOUS
<1>3. PICK position : position = [d \in Decls |-> CHOOSE i \in DOMAIN us : d \in us[i]]
  OBVIOUS
<1>4. Partition(us) /\ DOMAIN us = 1 .. Len(us) /\ Len(us) \in Nat
  BY UnitNodesAre DEF Partition
<1>5. \A d \in Decls : position[d] \in 1 .. Len(us) /\ d \in us[position[d]]
  BY <1>3, <1>4 DEF Partition
<1>6. \A d \in Decls : \A i \in 1 .. Len(us) : d \in us[i] => i = position[d]
  <2>1. \A d \in Decls : \A i \in 1 .. Len(us) : d \in us[i] => us[i] = us[position[d]]
    BY <1>4, <1>5 DEF Partition
  <2> QED
    BY <1>4, <1>5, <2>1 DEF Partition
<1>7. \A a, b \in Decls : UnitOf(a) = UnitOf(b) <=> position[a] = position[b]
  <2>1. \A a \in Decls : us[position[a]] = UnitOf(a)
    BY <1>4, <1>5 DEF Partition
  <2>2. \A a, b \in Decls : us[position[a]] = us[position[b]] => position[a] = position[b]
    BY <1>4, <1>5 DEF Partition
  <2> QED
    BY <2>1, <2>2
<1>8. /\ between \in Seq(Decls \X Decls)
      /\ \A x : Contains(between, x) <=> Contains(ReadEdges, x) /\ x \in apart
  BY <1>2, ReadEdgesIs, FilteredElements
<1>9. /\ Len(between) \in Nat /\ DOMAIN between = 1 .. Len(between)
      /\ \A k \in 1 .. Len(between) : between[k][1] \in Decls /\ between[k][2] \in Decls
  <2>1. Len(between) \in Nat /\ DOMAIN between = 1 .. Len(between)
    BY <1>8
  <2>2. \A k \in 1 .. Len(between) : between[k] \in Decls \X Decls
    BY <1>8, <2>1
  <2> QED
    BY <2>1, <2>2
<1>10. PICK edges : edges = UnitEdges
  OBVIOUS
<1>11. edges = [k \in DOMAIN between |-> <<position[between[k][1]], position[between[k][2]]>>]
  <2>1. UnitEdges = [k \in DOMAIN between |->
                       <<CHOOSE i \in DOMAIN us : between[k][1] \in us[i],
                         CHOOSE i \in DOMAIN us : between[k][2] \in us[i]>>]
    BY <1>1, <1>2 DEF UnitEdges
  <2>2. \A k \in DOMAIN between :
          /\ position[between[k][1]] = CHOOSE i \in DOMAIN us : between[k][1] \in us[i]
          /\ position[between[k][2]] = CHOOSE i \in DOMAIN us : between[k][2] \in us[i]
    BY <1>3, <1>9
  <2> QED
    BY <1>10, <2>1, <2>2
<1>12. edges \in Seq((1 .. Len(us)) \X (1 .. Len(us))) /\ Len(edges) = Len(between)
  <2>1. \A k \in 1 .. Len(between) :
          <<position[between[k][1]], position[between[k][2]]>> \in (1 .. Len(us)) \X (1 .. Len(us))
    BY <1>5, <1>9
  <2> QED
    BY <1>9, <1>11, <2>1
<1>13. ASSUME NEW i \in 1 .. Len(us), NEW j \in 1 .. Len(us), Contains(edges, <<i, j>>)
       PROVE  Between(us, i, j)
  <2>1. PICK k \in 1 .. Len(between) : <<position[between[k][1]], position[between[k][2]]>> = <<i, j>>
    BY <1>9, <1>11, <1>13 DEF Contains
  <2>2. PICK a \in Decls, b \in Decls : a = between[k][1] /\ b = between[k][2]
    BY <1>9
  <2>3. position[a] = i /\ position[b] = j
    BY <2>1, <2>2
  <2>4. between[k] = <<a, b>>
    <3>1. between[k] \in Decls \X Decls
      BY <1>8, <1>9
    <3> QED
      BY <2>2, <3>1, PairIs
  <2>5. Contains(between, <<a, b>>)
    BY <1>9, <2>4 DEF Contains
  <2>6. b \in reads[a] /\ UnitOf(a) # UnitOf(b)
    BY <1>1, <1>8, <2>5, ReadEdgesIs
  <2> QED
    BY <1>5, <1>7, <2>3, <2>6 DEF Between
<1>14. ASSUME NEW i \in 1 .. Len(us), NEW j \in 1 .. Len(us), Between(us, i, j)
       PROVE  Contains(edges, <<i, j>>)
  <2>1. PICK a \in us[i], b \in us[j] : b \in reads[a] /\ i # j
    BY <1>14 DEF Between
  <2>2. a \in Decls /\ b \in Decls
    BY <1>4 DEF Partition
  <2>3. position[a] = i /\ position[b] = j
    BY <1>6, <2>2
  <2>4. <<a, b>> \in apart
    BY <1>1, <1>7, <2>1, <2>2, <2>3
  <2>5. Contains(between, <<a, b>>)
    BY <1>8, <2>1, <2>2, <2>4, ReadEdgesIs
  <2>6. PICK k \in 1 .. Len(between) : between[k] = <<a, b>>
    BY <1>9, <2>5 DEF Contains
  <2>7. edges[k] = <<i, j>>
    BY <1>9, <1>11, <2>3, <2>6
  <2>8. k \in DOMAIN edges
    BY <1>9, <1>11, <2>6
  <2> QED
    BY <2>7, <2>8 DEF Contains
<1> QED
  BY <1>10, <1>12, <1>13, <1>14

-----------------------------------------------------------------------------
(* The invariant of order_units.                                            *)

Blank == unchecked = <<>> /\ rejected = {} /\ plans = <<>>
Sorting == {"search", "ranks", "ordered", "cyclic"}

\* The graph has the reads outside accepted groups, or those between the units.
Contracted ==
    /\ graph \in GraphsOf(N)
    /\ \A a, b \in Decls : DependsOn(a, b) <=> b \in reads[a] /\ ~SameGroup(a, b)
UnitGraph ==
    /\ graph \in GraphsOf(Len(units))
    /\ \A i, j \in 1 .. Len(units) : DependsOn(i, j) <=> Between(units, i, j)

\* What a unit reads is in the unit or in an earlier one.
InOrder(us) ==
    \A j \in 1 .. Len(us) : \A a \in us[j] : \A b \in reads[a] :
        b \in us[j] \/ \E i \in 1 .. j - 1 : b \in us[i]

ScheduleInv ==
    /\ ReadsType
    /\ stage \in {"start", "components", "check", "contracted", "units", "scheduled", "rejected"}
    /\ stage = "start" => task = "idle" /\ Blank
    /\ stage = "components" => task \in {"components", "found"} /\ GraphOfReads /\ Blank
    /\ stage = "check" => task = "found" /\ Checked
    /\ stage \in {"contracted", "units", "scheduled"} => Checked /\ unchecked = <<>>
    /\ stage = "contracted" => task \in Sorting /\ Contracted
    /\ stage \in {"units", "scheduled"} => rejected = {} /\ Partition(units)
    /\ stage = "units" => task \in Sorting /\ UnitGraph
    /\ stage = "scheduled" => InOrder(units)

\* The results of the graph's functions are sequences.
ListInv ==
    /\ task = "found" => \E S : components \in Seq(S)
    /\ task = "ordered" => order \in Seq(Nodes)
    /\ task = "cyclic" => cycle \in Seq(Nodes)

\* What the graph functions return are lists of nodes.
LEMMA NextListInv ==
    IInv /\ RankInv /\ ComponentInv /\ ListInv /\ [GraphStep \/ Call]_graphVars => ListInv'
<1> SUFFICES ASSUME IInv, RankInv, ComponentInv, ListInv, [GraphStep \/ Call]_graphVars
             PROVE  ListInv'
  OBVIOUS
<1>1. CASE task' \notin {"found", "ordered", "cyclic"}
  BY <1>1 DEF ListInv
<1>2. CASE ComponentsEnd
  <2>1. task = "components" /\ task' = "found" /\ Finding
    BY <1>2 DEF ComponentsEnd, ComponentInv
  <2>10. PICK sets :
          sets = {c \in ToSet(components) :
               Cardinality(c) = 1 => \A n \in c : Contains(graph.dependencies[n], n)}
    OBVIOUS
  <2>11. components' = ByFirst(sets)
    BY <1>2, <2>10 DEF ComponentsEnd
  <2>2. PICK all, least : all = [n \in Nodes |-> n] /\ least = {Min(c) : c \in sets}
    OBVIOUS
  <2>3. PICK firsts : firsts = Filtered(all, least)
    OBVIOUS
  <2>4. components' = [i \in DOMAIN firsts |-> CHOOSE c \in sets : firsts[i] = Min(c)]
    BY <2>2, <2>3, <2>11 DEF ByFirst
  <2>5. firsts \in Seq(Nodes)
    <3>1. Nodes = 1 .. Len(graph.dependencies) /\ Len(graph.dependencies) \in Nat
      BY <2>1, GraphIs DEF Finding, ComponentType
    <3>2. all \in Seq(Nodes)
      BY <2>2, <3>1
    <3> QED
      BY <2>3, <3>2, FilteredElements
  <2>6. DOMAIN firsts = 1 .. Len(firsts) /\ Len(firsts) \in Nat
    BY <2>5
  <2>7. PICK f : f = components'
    OBVIOUS
  <2>8. f = [i \in 1 .. Len(firsts) |-> f[i]]
    BY <2>4, <2>6, <2>7
  <2>9. f \in Seq({f[i] : i \in 1 .. Len(firsts)})
    BY <2>6, <2>8
  <2> QED
    BY <2>1, <2>7, <2>9 DEF ListInv
<1>3. CASE RanksEnd
  <2>1. task = "ranks" /\ task' = "ordered" /\ order' = order /\ graph' = graph /\ Ranking
    BY <1>3 DEF RanksEnd, RankInv
  <2>2. order \in Seq(Nodes) /\ Nodes' = Nodes
    BY <2>1 DEF Ranking, RankType, Nodes
  <2> QED
    BY <2>1, <2>2 DEF ListInv
<1>4. CASE VisitDependency
  <2>1. task = "search" /\ path # <<>> /\ HasEdge /\ graph' = graph /\ Searching
    BY <1>4 DEF VisitDependency, IInv
  <2>2. CASE task' # "cyclic"
    <3>1. task' = "search"
      BY <1>4, <2>1, <2>2 DEF VisitDependency
    <3> QED
      BY <3>1 DEF ListInv
  <2>3. CASE task' = "cyclic"
    <3>1. /\ visit[Edge] = "onPath"
          /\ cycle' = [i \in 1 .. Len(path) - depth[Edge] + 1 |-> path[depth[Edge] + i - 1].node]
      BY <1>4, <2>1, <2>3 DEF VisitDependency
    <3>2. /\ path \in Seq(FrameType) /\ Len(path) \in Nat
          /\ depth[Edge] \in 1 .. Len(path)
      <4>1. Edge \in Nodes
        BY <2>1, TopIs DEF Searching
      <4> QED
        BY <2>1, <3>1, <4>1 DEF Searching, SearchType, OnPath
    <3>3. PICK first, last : first = depth[Edge] /\ last = Len(path)
      OBVIOUS
    <3>4. PICK f : f = [i \in 1 .. last - first + 1 |-> path[first + i - 1].node]
      OBVIOUS
    <3>5. last - first + 1 \in Nat /\ \A i \in 1 .. last - first + 1 : first + i - 1 \in 1 .. last
      BY <3>2, <3>3
    <3>6. \A i \in 1 .. last : path[i].node \in Nodes
      <4>1. \A i \in 1 .. last : path[i] \in FrameType
        BY <3>2, <3>3
      <4> QED
        BY <4>1 DEF FrameType
    <3>7. f \in Seq(Nodes)
      BY <3>4, <3>5, <3>6
    <3>8. cycle' = f
      BY <3>1, <3>3, <3>4
    <3>9. Nodes' = Nodes
      BY <2>1 DEF Nodes
    <3> QED
      BY <2>3, <3>7, <3>8, <3>9 DEF ListInv
  <2> QED
    BY <2>2, <2>3
<1>5. CASE VisitRoot \/ LeaveNode \/ SearchEnds \/ EmitReady \/ EnterRoot \/ FollowDependency
           \/ CloseNode \/ Call
  <2>1. task' \notin {"found", "ordered", "cyclic"}
    BY <1>5 DEF VisitRoot, LeaveNode, SearchEnds, EmitReady, EnterRoot, FollowDependency, CloseNode,
                Call, IntoTopoOrder, CyclicComponents
  <2> QED
    BY <1>1, <2>1
<1>6. CASE UNCHANGED graphVars
  <2>1. task' = task /\ graph' = graph /\ components' = components /\ order' = order /\ cycle' = cycle
    BY <1>6 DEF graphVars, componentVars, rankVars, searchVars
  <2>2. Nodes' = Nodes
    BY <2>1 DEF Nodes
  <2> QED
    BY <2>1, <2>2 DEF ListInv
<1> QED
  BY <1>2, <1>3, <1>4, <1>5, <1>6 DEF GraphStep

\* The steps of the graph's functions leave the graph alone.
LEMMA GraphStepTask ==
    ASSUME GraphStep
    PROVE  /\ graph' = graph
           /\ \/ task \in {"search", "ranks"} /\ task' \in Sorting
              \/ task = "components" /\ task' \in {"components", "found"}
<1>1. CASE VisitRoot \/ VisitDependency \/ LeaveNode \/ SearchEnds
  BY <1>1 DEF VisitRoot, VisitDependency, LeaveNode, SearchEnds, Sorting
<1>2. CASE EmitReady \/ RanksEnd
  BY <1>2 DEF EmitReady, RanksEnd, Sorting
<1>3. CASE EnterRoot \/ FollowDependency \/ CloseNode \/ ComponentsEnd
  BY <1>3 DEF EnterRoot, FollowDependency, CloseNode, ComponentsEnd
<1> QED
  BY <1>1, <1>2, <1>3 DEF GraphStep

\* Units stay what they are while reads and plans do.
LEMMA PlansKept ==
    ASSUME reads' = reads, plans' = plans
    PROVE  /\ \A a, b : SameGroup(a, b)' <=> SameGroup(a, b)
           /\ \A a : UnitOf(a)' = UnitOf(a)
           /\ \A p : Planned(p)' <=> Planned(p)
           /\ \A us : (Partition(us)' <=> Partition(us)) /\ (InOrder(us)' <=> InOrder(us))
           /\ \A us, i, j : Between(us, i, j)' <=> Between(us, i, j)
<1>1. \A a, b : SameGroup(a, b)' <=> SameGroup(a, b)
  BY DEF SameGroup, Members
<1>2. \A a : UnitOf(a)' = UnitOf(a)
  BY <1>1 DEF UnitOf, Grouped, Members
<1>3. ReadClasses' = ReadClasses
  BY ReadsKept
<1>4. \A p : Planned(p)' <=> Planned(p)
  BY <1>3 DEF Planned, InGroup, Accepted, WellKeyed
<1>5. \A us : (Partition(us)' <=> Partition(us)) /\ (InOrder(us)' <=> InOrder(us))
  BY <1>2 DEF Partition, InOrder
<1>6. \A us, i, j : Between(us, i, j)' <=> Between(us, i, j)
  BY DEF Between
<1> QED
  BY <1>1, <1>2, <1>4, <1>5, <1>6

\* What was checked stays checked.
LEMMA CheckedKept ==
    ASSUME reads' = reads, plans' = plans, unchecked' = unchecked, rejected' = rejected
    PROVE  Checked' <=> Checked
<1>1. ReadClasses' = ReadClasses /\ \A p : Planned(p)' <=> Planned(p)
  BY ReadsKept, PlansKept
<1> QED
  BY <1>1 DEF Checked, Members

\* A step of the graph's functions under the schedule, or of neither.
LEMMA ScheduleKept ==
    ASSUME ScheduleInv, UNCHANGED scheduleVars, graph' = graph,
           \/ task' = task
           \/ task \in {"search", "ranks"} /\ task' \in Sorting
           \/ task = "components" /\ task' \in {"components", "found"}
    PROVE  ScheduleInv'
<1>1. /\ reads' = reads /\ stage' = stage /\ unchecked' = unchecked /\ rejected' = rejected
      /\ plans' = plans /\ units' = units
  BY DEF scheduleVars
<1>2. (ReadsType' <=> ReadsType) /\ (Checked' <=> Checked) /\ (Blank' <=> Blank)
  BY <1>1, ReadsKept, CheckedKept DEF Blank
<1>3. \A a, b : DependsOn(a, b)' <=> DependsOn(a, b)
  BY GraphKept
<1>4. (GraphOfReads' <=> GraphOfReads) /\ (Contracted' <=> Contracted)
  <2>1. \A a, b : SameGroup(a, b)' <=> SameGroup(a, b)
    BY <1>1, PlansKept
  <2> QED
    BY <1>1, <1>3, <2>1 DEF GraphOfReads, Contracted
<1>5. (Partition(units)' <=> Partition(units)) /\ (InOrder(units)' <=> InOrder(units))
  <2>1. \A a : UnitOf(a)' = UnitOf(a)
    BY <1>1, PlansKept
  <2> QED
    BY <1>1, <2>1 DEF Partition, InOrder
<1>6. UnitGraph' <=> UnitGraph
  <2>1. \A i, j : Between(units, i, j)' <=> Between(units, i, j)
    BY <1>1 DEF Between
  <2> QED
    BY <1>1, <1>3, <2>1 DEF UnitGraph
<1> QED
  BY <1>1, <1>2, <1>4, <1>5, <1>6 DEF ScheduleInv, Sorting

-----------------------------------------------------------------------------
(* The steps of order_units.                                                *)

\* The graph of a list of edges between declarations.
LEMMA DeclGraph ==
    ASSUME NEW edges \in Seq(Decls \X Decls), NEW g, g = GraphOf(N, edges)
    PROVE  /\ g \in GraphsOf(N) /\ IsGraph(g)
           /\ \A a, b \in Decls : Contains(g.dependencies[a], b) <=> Contains(edges, <<a, b>>)
<1>1. N \in Nat
  BY ScheduleAssumption
<1>2. edges \in Seq((1 .. N) \X (1 .. N))
  BY DEF Decls
<1>3. /\ g \in GraphsOf(N)
      /\ \A a, b \in 1 .. N : Contains(g.dependencies[a], b) <=> Contains(edges, <<a, b>>)
  BY <1>1, <1>2, GraphOfIs
<1>4. IsGraph(g)
  BY <1>1, <1>3, GraphsAre
<1> QED
  BY <1>3, <1>4 DEF Decls

\* order_units fills in the graph of the reads and asks for its cyclic components.
LEMMA FindComponentsStep ==
    ASSUME ScheduleInv, FindComponents
    PROVE  Call /\ ScheduleInv'
<1>1. PICK g : g = GraphOf(N, ReadEdges)
  OBVIOUS
<1>2. CyclicComponents(g) /\ stage = "start"
  BY <1>1 DEF FindComponents
<1>3. graph' = g /\ task' = "components" /\ task = "idle" /\ Blank
  BY <1>2 DEF CyclicComponents, ScheduleInv
<1>4. /\ reads' = reads /\ stage' = "components" /\ unchecked' = unchecked /\ rejected' = rejected
      /\ plans' = plans /\ units' = units
  BY DEF FindComponents
<1>5. /\ g \in GraphsOf(N) /\ IsGraph(g)
      /\ \A a, b \in Decls : Contains(g.dependencies[a], b) <=> b \in reads[a]
  BY <1>1, ReadEdgesIs, DeclGraph
<1>6. Call
  BY <1>2, <1>3, <1>5 DEF Call
<1>7. GraphOfReads'
  BY <1>3, <1>4, <1>5 DEF GraphOfReads, DependsOn
<1>8. ReadsType' /\ Blank'
  BY <1>3, <1>4 DEF ScheduleInv, ReadsType, Blank
<1>9. ScheduleInv'
  BY <1>3, <1>4, <1>7, <1>8 DEF ScheduleInv
<1> QED
  BY <1>6, <1>9

\* The components found are the classes of the reads.
LEMMA ClassesFound ==
    ASSUME ScheduleInv, ComponentInv, ListInv, stage = "components", task = "found"
    PROVE  components \in Seq(ReadClasses) /\ IsInjective(components)
           /\ \A c : Contains(components, c) <=> c \in ReadClasses
<1>1. ReadsType /\ GraphOfReads
  BY DEF ScheduleInv
<1>2. /\ ToSet(components) = ReadClasses
      /\ \A i, j \in DOMAIN components : i < j => Min(components[i]) < Min(components[j])
  BY <1>1, GraphIsReads DEF ComponentInv, ComponentsExact
<1>3. PICK S : components \in Seq(S)
  BY DEF ListInv
<1>4. Len(components) \in Nat /\ DOMAIN components = 1 .. Len(components)
  BY <1>3
<1>5. /\ \A i \in 1 .. Len(components) : components[i] \in ReadClasses
      /\ \A c : Contains(components, c) <=> c \in ReadClasses
  BY <1>2, <1>4 DEF ToSet, Contains
<1>6. components \in Seq(ReadClasses)
  BY <1>3, <1>4, <1>5
<1>7. IsInjective(components)
  <2>1. \A c \in ReadClasses : Min(c) \in Nat
    <3> SUFFICES ASSUME NEW c \in ReadClasses PROVE Min(c) \in Nat
      OBVIOUS
    <3>1. c \subseteq Nat /\ c # {}
      BY <1>1, ClassFacts DEF Decls
    <3> QED
      BY <3>1, LeastIn
  <2> SUFFICES ASSUME NEW i \in 1 .. Len(components), NEW j \in 1 .. Len(components),
                      components[i] = components[j]
               PROVE  i = j
    BY <1>4 DEF IsInjective
  <2>2. PICK k : k = Min(components[i])
    OBVIOUS
  <2>3. k \in Nat /\ ~(k < k)
    BY <1>5, <2>1, <2>2
  <2>4. ~(i < j) /\ ~(j < i)
    BY <1>2, <1>4, <2>2, <2>3
  <2> QED
    BY <2>4
<1> QED
  BY <1>5, <1>6, <1>7

\* Without a cyclic component every declaration is a unit of its own.
LEMMA NoComponentsStep ==
    ASSUME ScheduleInv, ComponentInv, ListInv, NoComponents
    PROVE  Call /\ ScheduleInv'
<1>1. stage = "components" /\ task = "found" /\ components = <<>> /\ IntoTopoOrder(graph)
  BY DEF NoComponents
<1>2. graph' = graph /\ task' = "search" /\ GraphOfReads /\ Blank /\ ReadsType
  BY <1>1 DEF IntoTopoOrder, ScheduleInv
<1>3. /\ reads' = reads /\ stage' = "units" /\ unchecked' = unchecked /\ rejected' = rejected
      /\ plans' = plans /\ units' = [d \in Decls |-> {d}]
  BY DEF NoComponents
<1>4. ReadClasses = {}
  BY <1>1, ClassesFound, EmptySequence
<1>5. Nodes = Decls /\ IsGraph(graph) /\ graph \in GraphsOf(N)
  BY <1>2, GraphIsReads DEF GraphOfReads
<1>6. Call
  BY <1>1, <1>2, <1>5 DEF Call
<1>7. Checked
  <2>1. unchecked = <<>> /\ rejected = {} /\ plans = <<>> /\ ToSet(plans) = {}
    BY <1>2 DEF Blank, ToSet
  <2>2. <<>> \in Seq(ReadClasses) /\ IsInjective(<<>>) /\ <<>> \in Seq({})
    BY EmptySequence
  <2> QED
    BY <1>4, <2>1, <2>2 DEF Checked
<1>8. \A d : UnitOf(d) = {d}
  <2>1. ToSet(plans) = {}
    BY <1>2 DEF Blank, ToSet
  <2> QED
    BY <1>2, <1>7, <2>1, UnitFacts
<1>9. PICK us : us = [d \in Decls |-> {d}]
  OBVIOUS
<1>10. N \in Nat /\ Decls = 1 .. N
  BY ScheduleAssumption DEF Decls
<1>11. us \in Seq(SUBSET Decls) /\ Len(us) = N /\ \A i \in 1 .. N : us[i] = {i}
  BY <1>9, <1>10
<1>12. Partition(us)
  <2>1. \A i \in 1 .. N : us[i] # {} /\ \A d \in us[i] : us[i] = UnitOf(d)
    <3> SUFFICES ASSUME NEW i \in 1 .. N
                 PROVE  us[i] # {} /\ \A d \in us[i] : us[i] = UnitOf(d)
      OBVIOUS
    <3>1. us[i] = {i} /\ UnitOf(i) = {i}
      BY <1>8, <1>11
    <3> QED
      BY <3>1
  <2>2. \A d \in Decls : d \in us[d]
    BY <1>10, <1>11
  <2>3. \A i, j \in 1 .. N : us[i] = us[j] => i = j
    BY <1>11
  <2> QED
    BY <1>10, <1>11, <2>1, <2>2, <2>3 DEF Partition
<1>13. \A i, j \in 1 .. N : DependsOn(i, j) <=> Between(us, i, j)
  <2> SUFFICES ASSUME NEW i \in 1 .. N, NEW j \in 1 .. N
               PROVE  DependsOn(i, j) <=> Between(us, i, j)
    OBVIOUS
  <2>1. DependsOn(i, j) <=> j \in reads[i]
    BY <1>2, <1>10 DEF GraphOfReads
  <2>2. Between(us, i, j) <=> i # j /\ j \in reads[i]
    BY <1>11 DEF Between
  <2>3. i \notin reads[i]
    BY <1>2, <1>4, <1>10, WithinClass, ReadsToFacts
  <2> QED
    BY <2>1, <2>2, <2>3
<1>14. \A i, j : (DependsOn(i, j)' <=> DependsOn(i, j)) /\ (Between(us, i, j)' <=> Between(us, i, j))
  BY <1>2, <1>3 DEF DependsOn, Between
<1>15. units' = us /\ \A a : UnitOf(a)' = UnitOf(a)
  BY <1>3, <1>9, PlansKept
<1>16. Partition(units)'
  BY <1>12, <1>15 DEF Partition
<1>17. UnitGraph'
  <2>1. \A i, j \in 1 .. N : DependsOn(i, j)' <=> Between(us, i, j)'
    BY <1>13, <1>14
  <2>2. \A i, j : Between(units, i, j)' <=> Between(us, i, j)'
    BY <1>15 DEF Between
  <2> QED
    BY <1>2, <1>5, <1>11, <1>15, <2>1, <2>2 DEF UnitGraph
<1>18. ReadsType' /\ Checked'
  BY <1>2, <1>3, <1>7, CheckedKept DEF ReadsType
<1>19. rejected' = {} /\ unchecked' = <<>>
  BY <1>2, <1>3 DEF Blank
<1>20. ScheduleInv'
  BY <1>2, <1>3, <1>16, <1>17, <1>18, <1>19 DEF ScheduleInv, Sorting
<1> QED
  BY <1>6, <1>20

\* The cyclic components are taken for checking.
LEMMA TakeComponentsStep ==
    ASSUME ScheduleInv, ComponentInv, ListInv, TakeComponents
    PROVE  UNCHANGED graphVars /\ ScheduleInv'
<1>1. /\ stage = "components" /\ task = "found" /\ unchecked' = components /\ stage' = "check"
      /\ reads' = reads /\ rejected' = rejected /\ plans' = plans /\ UNCHANGED graphVars
  BY DEF TakeComponents
<1>2. task' = task
  BY <1>1 DEF graphVars
<1>3. /\ components \in Seq(ReadClasses) /\ IsInjective(components)
      /\ \A c : Contains(components, c) <=> c \in ReadClasses
  BY <1>1, ClassesFound
<1>4. ReadsType /\ rejected = {} /\ plans = <<>> /\ ToSet(plans) = {}
  BY <1>1 DEF ScheduleInv, Blank, ToSet
<1>5. ReadClasses' = ReadClasses /\ ReadsType'
  BY <1>1, <1>4, ReadsKept
<1>6. Checked'
  <2>1. <<>> \in Seq({})
    BY EmptySequence
  <2> QED
    BY <1>1, <1>3, <1>4, <1>5, <2>1 DEF Checked
<1> QED
  BY <1>1, <1>2, <1>5, <1>6 DEF ScheduleInv

\* A plan stays one while the reads do not change.
LEMMA PlannedKept ==
    ASSUME reads' = reads
    PROVE  \A p : Planned(p)' <=> Planned(p)
<1>1. ReadClasses' = ReadClasses
  BY ReadsKept
<1> QED
  BY <1>1 DEF Planned, InGroup, Accepted, WellKeyed

\* A sequence over a set is one over a larger set.
LEMMA Enlarged ==
    ASSUME NEW S, NEW T, S \subseteq T, NEW s \in Seq(S)
    PROVE  s \in Seq(T)
  OBVIOUS

\* The set of what a sequence contains.
LEMMA ToSetIs ==
    ASSUME NEW s
    PROVE  \A x : x \in ToSet(s) <=> Contains(s, x)
  BY DEF ToSet, Contains

\* check_group accepts or rejects the next component.
LEMMA CheckComponentStep ==
    ASSUME ScheduleInv, CheckComponent
    PROVE  UNCHANGED graphVars /\ ScheduleInv'
<1>1. PICK c : c = Head(unchecked)
  OBVIOUS
<1>2. /\ stage = "check" /\ unchecked # <<>> /\ unchecked' = Tail(unchecked) /\ stage' = stage
      /\ reads' = reads /\ UNCHANGED graphVars
  BY DEF CheckComponent
<1>3. ReadsType /\ Checked /\ task = "found" /\ task' = task
  BY <1>2 DEF ScheduleInv, graphVars
<1>4. ReadClasses' = ReadClasses /\ ReadsType' /\ \A p : Planned(p)' <=> Planned(p)
  BY <1>2, <1>3, ReadsKept, PlannedKept
<1>5. /\ c \in ReadClasses /\ Contains(unchecked, c) /\ unchecked' \in Seq(ReadClasses)
      /\ IsInjective(unchecked') /\ \A x : Contains(unchecked', x) <=> Contains(unchecked, x) /\ x # c
  BY <1>1, <1>2, <1>3, TailOf DEF Checked
<1>6. CASE rejected' = rejected \cup {c} /\ plans' = plans
  <2>1. ToSet(plans') = ToSet(plans)
    BY <1>6
  <2> QED
    <3>1. Checked'
      BY <1>3, <1>4, <1>5, <1>6, <2>1 DEF Checked, Members
    <3> QED
      BY <1>2, <1>3, <1>4, <3>1 DEF ScheduleInv
<1>7. ASSUME NEW shape \in [c -> Shapes], NEW form \in [InGroup(c) -> ReadForms],
             Accepted(c, shape, form), rejected' = rejected, plans' = Append(plans, Plan(c, shape, form))
      PROVE  ScheduleInv'
  <2>1. PICK p : p = Plan(c, shape, form)
    OBVIOUS
  <2>2. Planned(p)
    BY <1>5, <1>7, <2>1 DEF Planned
  <2>3. PlanFacts(p)
    BY <1>3, <2>2, PlannedIs
  <2>4. Members(p) = c
    <3>1. p.members = GreedyOrder(c, SameStep(c, form))
      BY <2>1 DEF Plan
    <3>2. c \in SUBSET Decls
      BY <1>3, <1>5, ClassFacts
    <3>3. \A m \in c : Contains(p.members, m)
      <4>1. Len(GreedyOrder(c, SameStep(c, form))) = Cardinality(c)
        BY <1>7 DEF Accepted
      <4> QED
        BY <3>1, <3>2, <4>1, GreedyFull
    <3>4. \A m : Contains(p.members, m) => m \in c
      BY <3>1, <3>2, GreedyIs DEF Placed
    <3> QED
      BY <2>3, <3>3, <3>4 DEF PlanFacts
  <2>5. PICK S : plans \in Seq(S)
    BY <1>3 DEF Checked
  <2>6. /\ plans' \in Seq(S \cup {p})
        /\ \A q : q \in ToSet(plans') <=> q \in ToSet(plans) \/ q = p
    <3>1. plans \in Seq(S \cup {p}) /\ p \in S \cup {p}
      BY <2>5, Enlarged
    <3>2. /\ Append(plans, p) \in Seq(S \cup {p})
          /\ \A q : Contains(Append(plans, p), q) <=> Contains(plans, q) \/ q = p
      BY <3>1, AppendedTo
    <3> QED
      BY <1>7, <2>1, <3>2, ToSetIs
  <2>7. /\ \A q \in ToSet(plans') : Planned(q)
        /\ \A q \in ToSet(plans') : Members(q) \notin rejected /\ ~Contains(unchecked', Members(q))
        /\ \A q, r \in ToSet(plans') : Members(q) = Members(r) => q = r
        /\ \A d \in ReadClasses : \/ Contains(unchecked', d) \/ d \in rejected
                                  \/ \E q \in ToSet(plans') : Members(q) = d
    BY <1>3, <1>5, <2>2, <2>4, <2>6 DEF Checked
  <2>8. \A q : Members(q)' = Members(q)
    BY DEF Members
  <2>9. Checked'
    BY <1>3, <1>4, <1>5, <1>7, <2>6, <2>7, <2>8 DEF Checked
  <2> QED
    BY <1>2, <1>3, <1>4, <2>9 DEF ScheduleInv
<1>8. ScheduleInv'
  BY <1>1, <1>6, <1>7 DEF CheckComponent
<1> QED
  BY <1>2, <1>8

\* order_units leaves out the reads inside accepted groups.
LEMMA ContractStep ==
    ASSUME ScheduleInv, Contract
    PROVE  Call /\ ScheduleInv'
<1>1. PICK apart, edges : /\ apart = {r \in Decls \X Decls : ~SameGroup(r[1], r[2])}
                          /\ edges = UngroupedReads
  OBVIOUS
<1>2. PICK g : g = GraphOf(N, edges)
  OBVIOUS
<1>3. /\ stage = "check" /\ unchecked = <<>> /\ IntoTopoOrder(g) /\ stage' = "contracted"
      /\ reads' = reads /\ unchecked' = unchecked /\ rejected' = rejected /\ plans' = plans
  BY <1>1, <1>2 DEF Contract
<1>4. ReadsType /\ Checked /\ task = "found" /\ graph' = g /\ task' = "search"
  BY <1>3 DEF ScheduleInv, IntoTopoOrder
<1>5. /\ edges \in Seq(Decls \X Decls)
      /\ \A x : Contains(edges, x) <=> Contains(ReadEdges, x) /\ x \in apart
  BY <1>1, ReadEdgesIs, FilteredElements DEF UngroupedReads
<1>6. ASSUME NEW a \in Decls, NEW b \in Decls
      PROVE  Contains(edges, <<a, b>>) <=> b \in reads[a] /\ ~SameGroup(a, b)
  <2>1. PICK r : r = <<a, b>>
    OBVIOUS
  <2>2. r \in Decls \X Decls /\ r[1] = a /\ r[2] = b
    BY <2>1
  <2>3. r \in apart <=> ~SameGroup(a, b)
    BY <1>1, <2>2
  <2>4. Contains(ReadEdges, <<a, b>>) <=> b \in reads[a]
    BY <1>4, ReadEdgesIs
  <2> QED
    BY <1>5, <2>1, <2>3, <2>4
<1>7. /\ g \in GraphsOf(N) /\ IsGraph(g)
      /\ \A a, b \in Decls : Contains(g.dependencies[a], b) <=> Contains(edges, <<a, b>>)
  BY <1>2, <1>5, DeclGraph
<1>8. Call
  BY <1>3, <1>4, <1>7 DEF Call
<1>9. Contracted'
  <2>1. \A a, b : SameGroup(a, b)' <=> SameGroup(a, b)
    BY <1>3, PlansKept
  <2> QED
    BY <1>3, <1>4, <1>6, <1>7, <2>1 DEF Contracted, DependsOn
<1>10. Checked' /\ ReadsType'
  BY <1>3, <1>4, CheckedKept, ReadsKept
<1>11. ScheduleInv'
  BY <1>3, <1>4, <1>9, <1>10 DEF ScheduleInv, Sorting
<1> QED
  BY <1>8, <1>11

\* What goes on from a place of a cycle to the next one is everywhere on it.
LEMMA AroundCycle ==
    ASSUME NEW L \in Nat \ {0}, NEW K \in SUBSET (1 .. L), K # {},
           \A k \in K : (k % L) + 1 \in K
    PROVE  K = 1 .. L
<1>1. \A k \in 1 .. L : k % L = IF k = L THEN 0 ELSE k
  <2> SUFFICES ASSUME NEW k \in 1 .. L PROVE k % L = IF k = L THEN 0 ELSE k
    OBVIOUS
  <2>1. CASE k = L
    BY <2>1
  <2>2. CASE k # L
    BY <2>2
  <2> QED
    BY <2>1, <2>2
<1>2. \A k \in K : (k = L => 1 \in K) /\ (k < L => k + 1 \in K)
  BY <1>1
<1>3. ASSUME NEW first \in K PROVE \A k \in first .. L : k \in K
  <2>1. PICK P : P = {n \in Nat : first + n <= L => first + n \in K}
    OBVIOUS
  <2>2. first \in 1 .. L
    OBVIOUS
  <2>3. 0 \in P
    BY <2>1, <2>2
  <2>4. \A n \in Nat : n \in P => n + 1 \in P
    <3> SUFFICES ASSUME NEW n \in Nat, n \in P, first + (n + 1) <= L PROVE first + (n + 1) \in K
      BY <2>1
    <3>1. PICK k : k = first + n
      OBVIOUS
    <3>2. k \in Nat /\ k < L /\ k + 1 = first + (n + 1)
      BY <2>2, <3>1
    <3>3. k \in K
      BY <2>1, <2>2, <3>1, <3>2
    <3> QED
      BY <1>2, <3>2, <3>3
  <2>5. \A n \in Nat : n \in P
    BY <2>3, <2>4, SetInduction
  <2> SUFFICES ASSUME NEW k \in first .. L PROVE k \in K
    OBVIOUS
  <2>6. k - first \in Nat /\ first + (k - first) = k /\ k <= L
    BY <2>2
  <2>7. k - first \in P
    BY <2>5, <2>6
  <2> QED
    BY <2>1, <2>6, <2>7
<1>4. L \in K
  <2>1. PICK first \in K : TRUE
    OBVIOUS
  <2>2. L \in first .. L
    BY <2>1
  <2> QED
    BY <1>3, <2>1, <2>2
<1>5. 1 \in K
  BY <1>2, <1>4
<1> QED
  BY <1>3, <1>5

\* Around a reported cycle of reads every node reads every other at some distance.
LEMMA CycleReads ==
    ASSUME ReadsType, NEW L \in Nat \ {0}, NEW on \in [1 .. L -> Decls],
           \A i \in 1 .. L : ReadsTo(on[i], on[(i % L) + 1])
    PROVE  \A i, j \in 1 .. L : ReadsTo(on[i], on[j])
<1> SUFFICES ASSUME NEW i \in 1 .. L PROVE \A j \in 1 .. L : ReadsTo(on[i], on[j])
  OBVIOUS
<1>1. PICK K : K = {j \in 1 .. L : ReadsTo(on[i], on[j])}
  OBVIOUS
<1>2. i \in K
  BY <1>1, ReadsToFacts
<1>3. \A k \in K : (k % L) + 1 \in 1 .. L
  <2>1. \A k \in 1 .. L : (k % L) + 1 \in 1 .. L
    OBVIOUS
  <2> QED
    BY <1>1, <2>1
<1>4. \A k \in K : (k % L) + 1 \in K
  <2> SUFFICES ASSUME NEW k \in K PROVE (k % L) + 1 \in K
    OBVIOUS
  <2>1. PICK n : n = (k % L) + 1
    OBVIOUS
  <2>2. n \in 1 .. L /\ ReadsTo(on[k], on[n]) /\ ReadsTo(on[i], on[k])
    BY <1>1, <1>3, <2>1
  <2> QED
    BY <1>1, <2>1, <2>2, ReadsToFacts
<1>5. K = 1 .. L
  BY <1>1, <1>2, <1>4, AroundCycle
<1> QED
  BY <1>1, <1>5

\* A cycle that is left lies in a rejected component.
LEMMA RejectScheduleStep ==
    ASSUME ScheduleInv, ListInv, CycleIsReal, RejectSchedule
    PROVE  UNCHANGED graphVars /\ ScheduleInv'
<1>1. /\ stage = "contracted" /\ task = "cyclic" /\ UNCHANGED graphVars
      /\ stage' = IF \E c \in rejected : cycle[1] \in c THEN "rejected" ELSE "cycle"
      /\ reads' = reads
  BY DEF RejectSchedule
<1>2. ReadsType /\ Checked /\ unchecked = <<>> /\ Contracted
  BY <1>1 DEF ScheduleInv
<1>3. N \in Nat /\ Nodes = Decls
  BY <1>2, ScheduleAssumption, GraphsAre DEF Contracted, Nodes, Decls
<1>4. PICK L, on : L = Len(cycle) /\ on = cycle
  OBVIOUS
<1>5. L \in Nat \ {0} /\ on \in [1 .. L -> Decls] /\ DOMAIN cycle = 1 .. L
  <2>1. cycle \in Seq(Decls) /\ cycle # <<>>
    BY <1>1, <1>3 DEF ListInv, CycleIsReal
  <2> QED
    BY <1>4, <2>1
<1>6. \A i \in 1 .. L : (i % L) + 1 \in 1 .. L
  BY <1>5
<1>7. \A i \in 1 .. L : on[(i % L) + 1] \in reads[on[i]] /\ ~SameGroup(on[i], on[(i % L) + 1])
  <2> SUFFICES ASSUME NEW i \in 1 .. L
               PROVE  on[(i % L) + 1] \in reads[on[i]] /\ ~SameGroup(on[i], on[(i % L) + 1])
    OBVIOUS
  <2>1. DependsOn(on[i], on[(i % L) + 1])
    BY <1>1, <1>4, <1>5 DEF CycleIsReal
  <2>2. on[i] \in Decls /\ on[(i % L) + 1] \in Decls
    BY <1>5, <1>6
  <2> QED
    BY <1>2, <2>1, <2>2 DEF Contracted
<1>8. \A i \in 1 .. L : ReadsTo(on[i], on[(i % L) + 1])
  BY <1>2, <1>5, <1>7, ReadsToFacts
<1>9. PICK a, d : a = on[1] /\ d = on[(1 % L) + 1]
  OBVIOUS
<1>10. a \in Decls /\ d \in reads[a] /\ ~SameGroup(a, d) /\ ReadsTo(d, a)
  <2>1. PICK n : n = (1 % L) + 1
    OBVIOUS
  <2>2. n \in 1 .. L /\ 1 \in 1 .. L
    BY <1>5, <1>6, <2>1
  <2>3. ReadsTo(on[n], on[1])
    BY <1>2, <1>5, <1>8, <2>2, CycleReads
  <2> QED
    BY <1>5, <1>7, <1>9, <2>1, <2>2, <2>3
<1>11. PICK c \in ReadClasses : a \in c /\ d \in c
  BY <1>2, <1>10, WithinClass
<1>12. c \in rejected
  <2>1. SUFFICES ASSUME NEW p \in ToSet(plans), Members(p) = c PROVE FALSE
    BY <1>2, EmptySequence DEF Checked
  <2>2. SameGroup(a, d)
    BY <1>2, <1>11, <2>1, UnitFacts
  <2> QED
    BY <1>10, <2>2
<1>13. stage' = "rejected"
  BY <1>1, <1>4, <1>9, <1>11, <1>12
<1>14. ReadsType'
  BY <1>1, <1>2, ReadsKept
<1> QED
  BY <1>1, <1>13, <1>14 DEF ScheduleInv

\* A rejected class keeps its reads in the contracted graph, which then has a cycle.
LEMMA OrderedRejectsNone ==
    ASSUME ScheduleInv, ListInv, OrderIsTopological, stage = "contracted", task = "ordered"
    PROVE  rejected = {}
<1>1. ReadsType /\ Checked /\ Contracted
  BY DEF ScheduleInv
<1>2. N \in Nat /\ Nodes = Decls
  BY <1>1, ScheduleAssumption, GraphsAre DEF Contracted, Nodes, Decls
<1>3. PICK q : q = order
  OBVIOUS
<1>4. /\ q \in Seq(Decls) /\ DOMAIN q = 1 .. Len(q) /\ Len(q) \in Nat
      /\ \A d \in Decls : \E j \in 1 .. Len(q) : q[j] = d
      /\ \A j \in 1 .. Len(q) : \A d \in Decls : DependsOn(q[j], d) => \E i \in 1 .. j - 1 : q[i] = d
  <2>1. q \in Seq(Decls)
    BY <1>2, <1>3 DEF ListInv
  <2>2. DOMAIN q = 1 .. Len(q) /\ Len(q) \in Nat
    BY <2>1
  <2>3. DependenciesFirst(q) /\ ToSet(q) = Decls
    BY <1>2, <1>3 DEF OrderIsTopological
  <2> QED
    BY <1>2, <2>1, <2>2, <2>3 DEF DependenciesFirst, ToSet
<1> SUFFICES ASSUME NEW c \in rejected PROVE FALSE
  OBVIOUS
<1>5. c \in ReadClasses
  BY <1>1 DEF Checked
<1>6. c \in SUBSET Decls /\ c # {} /\ \A m \in c : \E n \in c : n \in reads[m]
  BY <1>1, <1>5, ClassFacts
<1>7. \A m, n \in c : ~SameGroup(m, n)
  <2> SUFFICES ASSUME NEW m \in c, NEW n \in c, NEW p \in ToSet(plans), m \in Members(p) PROVE FALSE
    BY <1>1, UnitFacts
  <2>1. Members(p) \in ReadClasses /\ Members(p) \notin rejected
    BY <1>1, PlannedIs DEF Checked, PlanFacts
  <2>2. c = Members(p)
    BY <1>1, <1>5, <2>1, ClassFacts
  <2> QED
    BY <2>1, <2>2
<1>8. PICK S : S = {j \in 1 .. Len(q) : q[j] \in c}
  OBVIOUS
<1>9. S \subseteq Nat /\ S # {}
  BY <1>4, <1>6, <1>8
<1>10. PICK j \in S : \A i \in S : j <= i
  BY <1>9, LeastOf
<1>11. PICK n \in c : n \in reads[q[j]]
  BY <1>6, <1>8
<1>12. q[j] \in c /\ j \in 1 .. Len(q) /\ q[j] \in Decls /\ n \in Decls
  BY <1>6, <1>8
<1>13. DependsOn(q[j], n)
  BY <1>1, <1>7, <1>11, <1>12 DEF Contracted
<1>14. PICK i \in 1 .. j - 1 : q[i] = n
  BY <1>4, <1>12, <1>13
<1>15. i \in S /\ i < j
  BY <1>4, <1>8, <1>12, <1>14
<1> QED
  BY <1>4, <1>10, <1>12, <1>15

\* order_units makes the graph of the units and asks for its order.
LEMMA OrderUnitsStep ==
    ASSUME ScheduleInv, ListInv, OrderIsTopological, OrderUnits
    PROVE  Call /\ ScheduleInv'
<1>1. PICK us : us = UnitNodes
  OBVIOUS
<1>2. PICK edges : edges = UnitEdges
  OBVIOUS
<1>3. PICK g : g = GraphOf(Len(us), edges)
  OBVIOUS
<1>4. /\ stage = "contracted" /\ task = "ordered" /\ units' = us /\ IntoTopoOrder(g)
      /\ stage' = "units" /\ reads' = reads /\ unchecked' = unchecked /\ rejected' = rejected
      /\ plans' = plans
  BY <1>1, <1>2, <1>3 DEF OrderUnits
<1>5. ReadsType /\ Checked /\ unchecked = <<>> /\ rejected = {} /\ graph' = g /\ task' = "search"
  BY <1>4, OrderedRejectsNone DEF ScheduleInv, IntoTopoOrder
<1>6. Partition(us) /\ Len(us) \in Nat
  BY <1>1, <1>5, UnitNodesAre DEF Partition
<1>7. /\ edges \in Seq((1 .. Len(us)) \X (1 .. Len(us)))
      /\ \A i, j \in 1 .. Len(us) : Contains(edges, <<i, j>>) <=> Between(us, i, j)
  BY <1>1, <1>2, <1>5, UnitEdgesAre
<1>8. /\ g \in GraphsOf(Len(us))
      /\ \A i, j \in 1 .. Len(us) : Contains(g.dependencies[i], j) <=> Between(us, i, j)
  <2>1. PICK n : n = Len(us)
    OBVIOUS
  <2>2. /\ GraphOf(n, edges) \in GraphsOf(n)
        /\ \A i, j \in 1 .. n : Contains(GraphOf(n, edges).dependencies[i], j) <=> Contains(edges, <<i, j>>)
    BY <1>6, <1>7, <2>1, GraphOfIs
  <2> QED
    BY <1>3, <1>7, <2>1, <2>2
<1>9. IsGraph(g)
  BY <1>6, <1>8, GraphsAre
<1>10. Call
  BY <1>4, <1>5, <1>9 DEF Call
<1>11. Partition(units)'
  <2>1. \A a : UnitOf(a)' = UnitOf(a)
    BY <1>4, PlansKept
  <2> QED
    BY <1>4, <1>6, <2>1 DEF Partition
<1>12. UnitGraph'
  <2>1. \A i, j : Between(us, i, j)' <=> Between(us, i, j)
    BY <1>4, PlansKept
  <2>2. \A i, j : Between(units, i, j)' <=> Between(us, i, j)
    BY <1>4 DEF Between
  <2> QED
    BY <1>4, <1>5, <1>8, <2>2 DEF UnitGraph, DependsOn
<1>13. Checked' /\ ReadsType'
  BY <1>4, <1>5, CheckedKept, ReadsKept
<1>14. ScheduleInv'
  BY <1>4, <1>5, <1>11, <1>12, <1>13 DEF ScheduleInv, Sorting
<1> QED
  BY <1>10, <1>14

\* Units that read each other would be one class, and so one unit.
LEMMA UnitsCyclicStep ==
    ASSUME ScheduleInv, ListInv, CycleIsReal, UnitsCyclic
    PROVE  FALSE
<1>1. ReadsType /\ Checked /\ rejected = {} /\ unchecked = <<>> /\ Partition(units) /\ UnitGraph
      /\ task = "cyclic"
  BY DEF ScheduleInv, UnitsCyclic
<1>2. PICK us : us = units
  OBVIOUS
<1>3. us \in Seq(SUBSET Decls) /\ Len(us) \in Nat
  BY <1>1, <1>2 DEF Partition
<1>4. Nodes = 1 .. Len(us)
  BY <1>1, <1>2, <1>3, GraphsAre DEF UnitGraph, Nodes
<1>5. PICK L, on : L = Len(cycle) /\ on = cycle
  OBVIOUS
<1>6. L \in Nat \ {0} /\ on \in [1 .. L -> 1 .. Len(us)] /\ DOMAIN cycle = 1 .. L
  <2>1. cycle \in Seq(1 .. Len(us)) /\ cycle # <<>>
    BY <1>1, <1>4 DEF ListInv, CycleIsReal
  <2> QED
    BY <1>5, <2>1
<1>7. \A i \in 1 .. L : (i % L) + 1 \in 1 .. L
  BY <1>6
<1>8. \A i \in 1 .. L : Between(us, on[i], on[(i % L) + 1])
  <2> SUFFICES ASSUME NEW i \in 1 .. L PROVE Between(us, on[i], on[(i % L) + 1])
    OBVIOUS
  <2>1. DependsOn(on[i], on[(i % L) + 1])
    BY <1>1, <1>5, <1>6 DEF CycleIsReal
  <2> QED
    BY <1>1, <1>2, <1>6, <1>7, <2>1 DEF UnitGraph
<1>9. \A i \in 1 .. Len(us) : us[i] \in SUBSET Decls /\ us[i] # {} /\ \A d \in us[i] : us[i] = UnitOf(d)
  BY <1>1, <1>2, <1>3 DEF Partition
<1>10. \A i \in 1 .. Len(us) : \A a, b \in us[i] : ReadsTo(a, b)
  <2> SUFFICES ASSUME NEW i \in 1 .. Len(us), NEW a \in us[i], NEW b \in us[i] PROVE ReadsTo(a, b)
    OBVIOUS
  <2>1. a \in Decls /\ b \in UnitOf(a)
    BY <1>9
  <2>2. CASE a = b
    BY <1>1, <2>1, <2>2, ReadsToFacts
  <2>3. CASE SameGroup(a, b)
    <3>1. PICK p \in ToSet(plans) : a \in Members(p) /\ b \in Members(p)
      BY <1>1, <2>3, UnitFacts
    <3>2. Members(p) \in ReadClasses
      BY <1>1, PlannedIs DEF Checked, PlanFacts
    <3> QED
      BY <1>1, <3>1, <3>2, ClassFacts
  <2> QED
    BY <1>1, <2>1, <2>2, <2>3, UnitFacts
\* One declaration of every unit on the cycle, and what they all read at some distance.
<1>11. PICK one : one = [i \in 1 .. L |-> CHOOSE d \in us[on[i]] : TRUE]
  OBVIOUS
<1>12. \A i \in 1 .. L : one[i] \in us[on[i]] /\ one[i] \in Decls
  <2>1. \A i \in 1 .. L : us[on[i]] # {} /\ us[on[i]] \in SUBSET Decls
    BY <1>6, <1>9
  <2> QED
    BY <1>11, <2>1
<1>13. one \in [1 .. L -> Decls]
  BY <1>11, <1>12
<1>14. \A i \in 1 .. L : ReadsTo(one[i], one[(i % L) + 1])
  <2> SUFFICES ASSUME NEW i \in 1 .. L PROVE ReadsTo(one[i], one[(i % L) + 1])
    OBVIOUS
  <2>1. PICK n : n = (i % L) + 1
    OBVIOUS
  <2>2. n \in 1 .. L /\ Between(us, on[i], on[n]) /\ on[i] \in 1 .. Len(us) /\ on[n] \in 1 .. Len(us)
    BY <1>6, <1>7, <1>8, <2>1
  <2>3. PICK a \in us[on[i]], b \in us[on[n]] : b \in reads[a]
    BY <2>2 DEF Between
  <2>4. a \in Decls /\ ReadsTo(one[i], a) /\ ReadsTo(b, one[n])
    BY <1>9, <1>10, <1>12, <2>2
  <2>5. ReadsTo(a, b)
    BY <1>1, <2>3, <2>4, ReadsToFacts
  <2> QED
    BY <1>1, <2>1, <2>4, <2>5, ReadsToFacts
<1>15. \A i, j \in 1 .. L : ReadsTo(one[i], one[j])
  BY <1>1, <1>6, <1>13, <1>14, CycleReads
<1>16. PICK n : n = (1 % L) + 1
  OBVIOUS
<1>17. n \in 1 .. L /\ 1 \in 1 .. L /\ Between(us, on[1], on[n])
       /\ on[1] \in 1 .. Len(us) /\ on[n] \in 1 .. Len(us)
  BY <1>6, <1>7, <1>8, <1>16
<1>18. PICK a \in us[on[1]], b \in us[on[n]] : b \in reads[a] /\ on[1] # on[n]
  BY <1>17 DEF Between
<1>19. ReadsTo(b, one[n]) /\ ReadsTo(one[n], one[1]) /\ ReadsTo(one[1], a) /\ a \in Decls
  BY <1>9, <1>10, <1>12, <1>15, <1>17
<1>20. ReadsTo(b, a)
  BY <1>1, <1>19, ReadsToFacts
<1>21. PICK c \in ReadClasses : a \in c /\ b \in c
  BY <1>1, <1>18, <1>19, <1>20, WithinClass
<1>22. PICK p \in ToSet(plans) : Members(p) = c
  BY <1>1, EmptySequence DEF Checked
<1>23. UnitOf(a) = UnitOf(b)
  BY <1>1, <1>21, <1>22, UnitFacts
<1>24. us[on[1]] = us[on[n]]
  BY <1>9, <1>17, <1>23
<1> QED
  BY <1>1, <1>2, <1>17, <1>18, <1>24 DEF Partition

\* The units in the order of the unit graph.
LEMMA UnitsSorted ==
    ASSUME ScheduleInv, ListInv, OrderIsTopological, stage = "units", task = "ordered",
           NEW vs, vs = [i \in DOMAIN order |-> units[order[i]]]
    PROVE  Partition(vs) /\ InOrder(vs)
<1>1. ReadsType /\ Checked /\ Partition(units) /\ UnitGraph
  BY DEF ScheduleInv
<1>2. PICK us, q : us = units /\ q = order
  OBVIOUS
<1>3. us \in Seq(SUBSET Decls) /\ Len(us) \in Nat
  BY <1>1, <1>2 DEF Partition
<1>4. Nodes = 1 .. Len(us)
  BY <1>1, <1>2, <1>3, GraphsAre DEF UnitGraph, Nodes
<1>5. q \in Seq(1 .. Len(us))
  BY <1>2, <1>4 DEF ListInv
<1>6. DOMAIN q = 1 .. Len(q) /\ Len(q) \in Nat /\ \A i \in 1 .. Len(q) : q[i] \in 1 .. Len(us)
  BY <1>5
<1>7. DependenciesFirst(q) /\ ToSet(q) = 1 .. Len(us)
  BY <1>2, <1>4 DEF OrderIsTopological
<1>8. /\ \A j \in 1 .. Len(q) : \A i \in 1 .. j - 1 : q[i] # q[j]
      /\ \A k \in 1 .. Len(us) : \E i \in 1 .. Len(q) : q[i] = k
      /\ \A j \in 1 .. Len(q) : \A k \in 1 .. Len(us) :
           DependsOn(q[j], k) => \E i \in 1 .. j - 1 : q[i] = k
  BY <1>4, <1>6, <1>7 DEF DependenciesFirst, ToSet
<1>9. vs = [i \in 1 .. Len(q) |-> us[q[i]]]
  BY <1>2, <1>6
<1>10. vs \in Seq(SUBSET Decls) /\ Len(vs) = Len(q) /\ \A i \in 1 .. Len(q) : vs[i] = us[q[i]]
  <2>1. \A i \in 1 .. Len(q) : us[q[i]] \in SUBSET Decls
    BY <1>3, <1>6
  <2>2. PICK n : n = Len(q)
    OBVIOUS
  <2>3. n \in Nat /\ vs = [i \in 1 .. n |-> us[q[i]]] /\ \A i \in 1 .. n : us[q[i]] \in SUBSET Decls
    BY <1>6, <1>9, <2>1, <2>2
  <2>4. vs \in Seq(SUBSET Decls) /\ Len(vs) = n
    BY <2>3
  <2> QED
    BY <2>2, <2>3, <2>4
<1>11. /\ \A i \in 1 .. Len(us) : us[i] # {} /\ \A d \in us[i] : us[i] = UnitOf(d)
       /\ \A d \in Decls : \E i \in 1 .. Len(us) : d \in us[i]
       /\ \A i, j \in 1 .. Len(us) : us[i] = us[j] => i = j
  BY <1>1, <1>2 DEF Partition
<1>16. \A i \in 1 .. Len(vs) : i \in 1 .. Len(q) /\ q[i] \in 1 .. Len(us) /\ vs[i] = us[q[i]]
  BY <1>6, <1>10
<1>12. \A i \in 1 .. Len(vs) : vs[i] # {} /\ \A d \in vs[i] : vs[i] = UnitOf(d)
  <2> SUFFICES ASSUME NEW i \in 1 .. Len(vs) PROVE vs[i] # {} /\ \A d \in vs[i] : vs[i] = UnitOf(d)
    OBVIOUS
  <2>1. PICK k \in 1 .. Len(us) : vs[i] = us[k]
    BY <1>16
  <2> QED
    BY <1>11, <2>1
<1>13. ASSUME NEW d \in Decls PROVE \E i \in 1 .. Len(vs) : d \in vs[i]
  <2>1. PICK k \in 1 .. Len(us) : d \in us[k]
    BY <1>11
  <2>2. PICK i \in 1 .. Len(q) : q[i] = k
    BY <1>8
  <2> QED
    BY <1>10, <2>1, <2>2
<1>14. ASSUME NEW i \in 1 .. Len(vs), NEW j \in 1 .. Len(vs), vs[i] = vs[j] PROVE i = j
  <2>1. i \in 1 .. Len(q) /\ j \in 1 .. Len(q) /\ q[i] = q[j]
    <3>1. /\ i \in 1 .. Len(q) /\ q[i] \in 1 .. Len(us) /\ vs[i] = us[q[i]]
          /\ j \in 1 .. Len(q) /\ q[j] \in 1 .. Len(us) /\ vs[j] = us[q[j]]
      BY <1>16
    <3>2. us[q[i]] = us[q[j]]
      BY <1>14, <3>1
    <3> QED
      BY <1>11, <3>1, <3>2
  <2>2. ~(i < j) /\ ~(j < i)
    BY <1>6, <1>8, <2>1
  <2> QED
    BY <1>6, <2>1, <2>2
<1>15. ASSUME NEW j \in 1 .. Len(vs), NEW a \in vs[j], NEW b \in reads[a]
       PROVE  b \in vs[j] \/ \E i \in 1 .. j - 1 : b \in vs[i]
  <2>1. j \in 1 .. Len(q) /\ a \in us[q[j]] /\ q[j] \in 1 .. Len(us)
    BY <1>6, <1>10
  <2>2. a \in Decls /\ b \in Decls
    BY <1>1, <1>3, <2>1, ReadsToFacts
  <2>3. PICK k \in 1 .. Len(us) : b \in us[k]
    BY <1>11, <2>2
  <2>4. CASE k = q[j]
    BY <1>10, <2>1, <2>3, <2>4
  <2>5. CASE k # q[j]
    <3>1. Between(us, q[j], k)
      BY <2>1, <2>3, <2>5 DEF Between
    <3>2. DependsOn(q[j], k)
      BY <1>1, <1>2, <2>1, <3>1 DEF UnitGraph
    <3>3. PICK i \in 1 .. j - 1 : q[i] = k
      BY <1>8, <2>1, <3>2
    <3>4. i \in 1 .. Len(q)
      BY <1>6, <2>1, <3>3
    <3> QED
      BY <1>10, <2>3, <3>3, <3>4
  <2> QED
    BY <2>4, <2>5
<1> QED
  BY <1>10, <1>12, <1>13, <1>14, <1>15 DEF Partition, InOrder

\* The schedule: the units in the order that was found.
LEMMA UnitsOrderedStep ==
    ASSUME ScheduleInv, ListInv, OrderIsTopological, UnitsOrdered
    PROVE  UNCHANGED graphVars /\ ScheduleInv'
<1>1. PICK vs : vs = [i \in DOMAIN order |-> units[order[i]]]
  OBVIOUS
<1>2. /\ stage = "units" /\ task = "ordered" /\ stage' = "scheduled" /\ units' = vs
      /\ UNCHANGED graphVars /\ reads' = reads /\ unchecked' = unchecked /\ rejected' = rejected
      /\ plans' = plans
  BY <1>1 DEF UnitsOrdered
<1>3. ReadsType /\ Checked /\ rejected = {} /\ unchecked = <<>>
  BY <1>2 DEF ScheduleInv
<1>4. Partition(vs) /\ InOrder(vs)
  BY <1>1, <1>2, UnitsSorted
<1>5. Partition(units)' /\ InOrder(units)'
  <2>1. \A a : UnitOf(a)' = UnitOf(a)
    BY <1>2, PlansKept
  <2> QED
    BY <1>2, <1>4, <2>1 DEF Partition, InOrder
<1>6. Checked' /\ ReadsType'
  BY <1>2, <1>3, CheckedKept, ReadsKept
<1> QED
  BY <1>2, <1>3, <1>5, <1>6 DEF ScheduleInv

-----------------------------------------------------------------------------
(* Together.                                                                *)

CheckingInv == IInv /\ RankInv /\ ComponentInv /\ ListInv /\ ScheduleInv

\* Every step uses the graph as GraphSpec says.
LEMMA GraphUsed ==
    CheckingInv /\ [Next]_vars => [GraphStep \/ Call]_graphVars /\ ScheduleInv'
<1> SUFFICES ASSUME CheckingInv, [Next]_vars
             PROVE  [GraphStep \/ Call]_graphVars /\ ScheduleInv'
  OBVIOUS
<1>1. ScheduleInv /\ ComponentInv /\ ListInv /\ CycleIsReal /\ OrderIsTopological
  BY DEF CheckingInv, IInv, RankInv
<1>2. CASE FindComponents
  BY <1>1, <1>2, FindComponentsStep
<1>3. CASE NoComponents
  BY <1>1, <1>3, NoComponentsStep
<1>4. CASE TakeComponents
  BY <1>1, <1>4, TakeComponentsStep
<1>5. CASE CheckComponent
  BY <1>1, <1>5, CheckComponentStep
<1>6. CASE Contract
  BY <1>1, <1>6, ContractStep
<1>7. CASE RejectSchedule
  BY <1>1, <1>7, RejectScheduleStep
<1>8. CASE OrderUnits
  BY <1>1, <1>8, OrderUnitsStep
<1>9. CASE UnitsCyclic
  BY <1>1, <1>9, UnitsCyclicStep
<1>10. CASE UnitsOrdered
  BY <1>1, <1>10, UnitsOrderedStep
<1>11. CASE GraphStep /\ UNCHANGED scheduleVars
  BY <1>1, <1>11, GraphStepTask, ScheduleKept
<1>12. CASE UNCHANGED <<graphVars, scheduleVars>>
  BY <1>1, <1>12, ScheduleKept DEF graphVars
<1>13. FrameStep \/ Cancel \/ UNCHANGED vars => UNCHANGED <<graphVars, scheduleVars>>
  BY DEF FrameStep, Cancel, Start, RunStep, RunEnds, EnterGroup, RunElement, ReportProblems,
         SpreadReason, GroupEnds, vars
<1> QED
  BY <1>2, <1>3, <1>4, <1>5, <1>6, <1>7, <1>8, <1>9, <1>10, <1>11, <1>12, <1>13
     DEF Next, ScheduleStep

\* It holds at the start.
LEMMA CheckingStarts == Init => GraphIdle /\ CheckingInv
<1> SUFFICES ASSUME Init PROVE GraphIdle /\ CheckingInv
  OBVIOUS
<1>1. /\ GraphIdle /\ task = "idle" /\ reads \in [Decls -> SUBSET Decls] /\ stage = "start"
      /\ unchecked = <<>> /\ rejected = {} /\ plans = <<>>
  BY DEF Init, ScheduleInit, GraphIdle
<1>2. IInv /\ RankInv /\ ComponentInv /\ ListInv
  BY <1>1 DEF IInv, CycleIsReal, RankInv, OrderIsTopological, ComponentInv, ComponentsExact, ListInv
<1>3. ScheduleInv
  BY <1>1 DEF ScheduleInv, ReadsType, Blank
<1> QED
  BY <1>1, <1>2, <1>3 DEF CheckingInv

\* It always holds, and the checker calls the graph functions only with graphs that
\* add_dependency can make: all that is proved of them holds for their results.
LEMMA CheckingInvariance == Spec => []CheckingInv /\ GraphSpec
<1>1. CheckingInv /\ [Next]_vars => CheckingInv'
  <2> SUFFICES ASSUME CheckingInv, [Next]_vars PROVE CheckingInv'
    OBVIOUS
  <2>1. [GraphStep \/ Call]_graphVars /\ ScheduleInv'
    BY GraphUsed
  <2> QED
    BY <2>1, NextIInv, NextRankInv, NextComponentInv, NextListInv DEF CheckingInv
<1> QED
  BY <1>1, GraphUsed, CheckingStarts, PTL DEF Spec, GraphSpec

-----------------------------------------------------------------------------
(* What the checker promises.                                               *)

\* Whatever the component: check_group, which looks at members only, accepts exactly
\* the keyed groups whose elements can be run one after the other.
THEOREM AcceptanceExactTheorem == Spec => []AcceptanceExact
<1>1. CheckingInv => AcceptanceExact
  <2> SUFFICES ASSUME CheckingInv, stage = "check", unchecked # <<>>,
                      NEW shape \in [Head(unchecked) -> {"for", "unfold"}],
                      NEW form \in [InGroup(Head(unchecked)) -> ReadForms \ {{"other"}}],
                      \A m \in Head(unchecked) : m \notin reads[m],
                      \A r \in DOMAIN form : "previous" \in form[r] => shape[r[1]] = "unfold"
               PROVE  Accepted(Head(unchecked), shape, form)
                        <=> ElementsOrdered(Head(unchecked), shape, form)
    BY DEF AcceptanceExact
  <2>1. PICK c : c = Head(unchecked)
    OBVIOUS
  <2>2. ReadsType /\ Checked
    BY DEF CheckingInv, ScheduleInv
  <2>3. c \in ReadClasses
    BY <2>1, <2>2, TailOf DEF Checked
  <2>4. c \in SUBSET Decls /\ c # {} /\ \A m \in c : \E n \in c : n \in reads[m]
    BY <2>2, <2>3, ClassFacts
  <2>5. /\ shape \in [c -> {"for", "unfold"}] /\ form \in [InGroup(c) -> ReadForms \ {{"other"}}]
        /\ \A m \in c : m \notin reads[m]
    BY <2>1
  <2>6. Accepted(c, shape, form) <=> ElementsOrdered(c, shape, form)
    BY <2>4, <2>5, AcceptedExactly
  <2> QED
    BY <2>1, <2>6
<1> QED
  BY <1>1, CheckingInvariance, PTL

\* order_units never reports a cycle that it cannot explain by a rejected component,
\* and never schedules with one.
THEOREM RejectionExplainedTheorem == Spec => []RejectionExplained
<1>1. CheckingInv => RejectionExplained
  BY DEF CheckingInv, ScheduleInv, RejectionExplained
<1> QED
  BY <1>1, CheckingInvariance, PTL

-----------------------------------------------------------------------------
(* The list of a frame.                                                     *)

\* FlattenSeq appends one sequence after the other.
LEMMA FlattenSteps ==
    ASSUME NEW D, NEW seqs \in Seq(Seq(D))
    PROVE  \E f : /\ f[0] = <<>> /\ f[Len(seqs)] = FlattenSeq(seqs)
                  /\ \A k \in 0 .. Len(seqs) - 1 : f[k + 1] = f[k] \o seqs[k + 1]
<1>1. PICK n, B : n = Len(seqs) /\ B = Seq(D)
  OBVIOUS
<1>2. n \in Nat /\ DOMAIN seqs = 1 .. n /\ \A i \in 1 .. n : seqs[i] \in B
  BY <1>1
<1>3. \A p, q \in B : p \o q \in B /\ <<>> \o p = p
  BY <1>1
<1>4. CASE n = 0
  <2>4. FlattenSeq(seqs) = seqs
    BY <1>1, <1>4 DEF FlattenSeq
  <2>1. FlattenSeq(seqs) = <<>>
    <3>1. ASSUME NEW S, NEW s \in Seq(S), Len(s) = 0 PROVE s = <<>>
      BY <3>1
    <3>2. seqs = <<>>
      BY <1>1, <1>4, <3>1
    <3> QED
      BY <2>4, <3>2
  <2>2. PICK f : f = [k \in 0 .. 0 |-> <<>>]
    OBVIOUS
  <2>3. f[0] = <<>> /\ \A k \in 0 .. n - 1 : FALSE
    BY <1>4, <2>2
  <2> QED
    BY <1>1, <1>4, <2>1, <2>3
<1>5. CASE n # 0
  <2> DEFINE flattens(k, it) ==
        it = [i \in 1 .. k |-> IF i = 1 THEN seqs[i] ELSE it[i - 1] \o seqs[i]]
  <2>1. FlattenSeq(seqs) = (CHOOSE it : flattens(n, it))[n]
    BY <1>1, <1>5 DEF FlattenSeq
  <2>2. \E it : flattens(n, it)
    <3>1. PICK P : P = {k \in Nat : \E it : flattens(k, it)}
      OBVIOUS
    <3>2. 0 \in P
      <4>1. 1 .. 0 = {}
        OBVIOUS
      <4>2. PICK it : it = [i \in 1 .. 0 |-> <<>>]
        OBVIOUS
      <4>3. flattens(0, it)
        BY <4>1, <4>2
      <4> QED
        BY <3>1, <4>3
    <3>3. ASSUME NEW k \in Nat, k \in P PROVE k + 1 \in P
      <4>1. PICK it : flattens(k, it)
        BY <3>1, <3>3
      <4>2. PICK more : more = [i \in 1 .. k + 1 |-> IF i <= k THEN it[i]
                                  ELSE IF i = 1 THEN seqs[i] ELSE it[i - 1] \o seqs[i]]
        OBVIOUS
      <4>3. ASSUME NEW i \in 1 .. k + 1
            PROVE  more[i] = IF i = 1 THEN seqs[i] ELSE more[i - 1] \o seqs[i]
        <5>1. i # 1 => i - 1 \in 1 .. k /\ i - 1 \in 1 .. k + 1
          BY <3>3
        <5>2. i # 1 => more[i - 1] = it[i - 1]
          BY <4>2, <5>1
        <5>3. i <= k => i \in 1 .. k
          BY <3>3
        <5>4. i <= k => it[i] = IF i = 1 THEN seqs[i] ELSE it[i - 1] \o seqs[i]
          BY <4>1, <5>3
        <5> QED
          BY <4>2, <5>2, <5>4
      <4>4. flattens(k + 1, more)
        BY <4>2, <4>3
      <4> HIDE DEF flattens
      <4> QED
        BY <3>1, <4>4
    <3>4. n \in P
      <4> HIDE DEF flattens
      <4> QED
        BY <1>2, <3>2, <3>3, SetInduction
    <3> QED
      BY <3>1, <3>4
  <2>3. PICK it : it = CHOOSE h : flattens(n, h)
    OBVIOUS
  <2>4. flattens(n, it)
    BY <2>2, <2>3
  <2>5. PICK f : f = [k \in 0 .. n |-> IF k = 0 THEN <<>> ELSE it[k]]
    OBVIOUS
  <2>6. f[0] = <<>> /\ f[n] = FlattenSeq(seqs)
    <3>1. 0 \in 0 .. n /\ n \in 0 .. n
      BY <1>2
    <3> HIDE DEF flattens
    <3> QED
      BY <1>5, <2>1, <2>3, <2>5, <3>1
  <2>7. ASSUME NEW k \in 0 .. n - 1 PROVE f[k + 1] = f[k] \o seqs[k + 1]
    <3>1. k \in 0 .. n /\ k + 1 \in 0 .. n /\ k + 1 \in 1 .. n /\ k + 1 # 0 /\ (k + 1) - 1 = k
          /\ (k + 1 = 1 <=> k = 0)
      BY <1>2
    <3>2. f[k + 1] = it[k + 1] /\ (k # 0 => f[k] = it[k]) /\ (k = 0 => f[k] = <<>>)
      BY <2>5, <3>1
    <3>3. it[k + 1] = IF k = 0 THEN seqs[k + 1] ELSE it[k] \o seqs[k + 1]
      BY <2>4, <3>1
    <3>4. <<>> \o seqs[k + 1] = seqs[k + 1]
      BY <1>2, <1>3, <3>1
    <3> HIDE DEF flattens
    <3> QED
      BY <3>2, <3>3, <3>4
  <2> QED
    BY <1>1, <2>6, <2>7
<1> QED
  BY <1>4, <1>5

\* q has the elements of the first k sequences, those of an earlier one before those of
\* a later one.
Flat(D, seqs, k, q) ==
    /\ q \in Seq(D)
    /\ \E at \in [1 .. Len(q) -> 1 .. k] :
         /\ \A j \in 1 .. Len(q) : Contains(seqs[at[j]], q[j])
         /\ \A i, j \in 1 .. Len(q) : i < j => at[i] <= at[j]
         /\ \A i \in 1 .. k : \A x : Contains(seqs[i], x) =>
              \E j \in 1 .. Len(q) : at[j] = i /\ q[j] = x

\* One more sequence at the end.
LEMMA FlatStep ==
    ASSUME NEW D, NEW seqs, NEW k \in Nat, NEW q, Flat(D, seqs, k, q),
           NEW s \in Seq(D), s = seqs[k + 1]
    PROVE  Flat(D, seqs, k + 1, q \o s)
<1>1. PICK at \in [1 .. Len(q) -> 1 .. k] :
         /\ \A j \in 1 .. Len(q) : Contains(seqs[at[j]], q[j])
         /\ \A i, j \in 1 .. Len(q) : i < j => at[i] <= at[j]
         /\ \A i \in 1 .. k : \A x : Contains(seqs[i], x) =>
              \E j \in 1 .. Len(q) : at[j] = i /\ q[j] = x
  BY DEF Flat
<1>2. q \in Seq(D)
  BY DEF Flat
<1>3. PICK u, l : u = q \o s /\ l = Len(q)
  OBVIOUS
<1>4. /\ u \in Seq(D) /\ Len(u) = l + Len(s) /\ l \in Nat /\ Len(s) \in Nat
      /\ \A j \in 1 .. l : j \in 1 .. Len(u) /\ u[j] = q[j]
      /\ \A j \in 1 .. Len(u) : ~(j <= l) => j - l \in 1 .. Len(s) /\ u[j] = s[j - l]
      /\ \A j \in 1 .. Len(s) : l + j \in 1 .. Len(u) /\ ~(l + j <= l) /\ u[l + j] = s[j]
      /\ DOMAIN s = 1 .. Len(s)
  BY <1>2, <1>3
<1>5. PICK new : new = [j \in 1 .. Len(u) |-> IF j <= l THEN at[j] ELSE k + 1]
  OBVIOUS
<1>6. \A j \in 1 .. Len(u) : j <= l => j \in 1 .. l /\ at[j] \in 1 .. k /\ new[j] = at[j]
  BY <1>1, <1>3, <1>4, <1>5
<1>7. \A j \in 1 .. Len(u) : ~(j <= l) => new[j] = k + 1
  BY <1>5
<1>8. new \in [1 .. Len(u) -> 1 .. k + 1]
  <2>1. \A j \in 1 .. Len(u) : new[j] \in 1 .. k + 1
    BY <1>6, <1>7
  <2> QED
    BY <1>5, <2>1
<1>9. ASSUME NEW j \in 1 .. Len(u) PROVE Contains(seqs[new[j]], u[j])
  <2>1. CASE j <= l
    BY <1>1, <1>3, <1>4, <1>6, <2>1
  <2>2. CASE ~(j <= l)
    <3>1. j - l \in DOMAIN s /\ u[j] = s[j - l]
      BY <1>4, <2>2
    <3>2. Contains(s, u[j])
      BY <3>1 DEF Contains
    <3> QED
      BY <1>7, <2>2, <3>2
  <2> QED
    BY <2>1, <2>2
<1>10. ASSUME NEW i \in 1 .. Len(u), NEW j \in 1 .. Len(u), i < j PROVE new[i] <= new[j]
  <2>1. CASE j <= l
    <3>1. i <= l
      BY <1>4, <1>10, <2>1
    <3> QED
      BY <1>1, <1>3, <1>6, <1>10, <2>1, <3>1
  <2>2. CASE ~(j <= l)
    BY <1>7, <1>8, <2>2
  <2> QED
    BY <2>1, <2>2
<1>11. ASSUME NEW i \in 1 .. k + 1, NEW x, Contains(seqs[i], x)
       PROVE  \E j \in 1 .. Len(u) : new[j] = i /\ u[j] = x
  <2>1. CASE i \in 1 .. k
    <3>1. PICK j \in 1 .. l : at[j] = i /\ q[j] = x
      BY <1>1, <1>3, <1>11, <2>1
    <3>2. j \in 1 .. Len(u) /\ j <= l /\ u[j] = q[j]
      BY <1>4, <3>1
    <3> QED
      BY <1>6, <3>1, <3>2
  <2>2. CASE i = k + 1
    <3>1. PICK j \in 1 .. Len(s) : s[j] = x
      BY <1>4, <1>11, <2>2 DEF Contains
    <3>2. l + j \in 1 .. Len(u) /\ new[l + j] = k + 1 /\ u[l + j] = x
      BY <1>4, <1>7, <3>1
    <3> QED
      BY <2>2, <3>2
  <2> QED
    BY <2>1, <2>2
<1>12. /\ \A j \in 1 .. Len(u) : Contains(seqs[new[j]], u[j])
       /\ \A i, j \in 1 .. Len(u) : i < j => new[i] <= new[j]
       /\ \A i \in 1 .. k + 1 : \A x : Contains(seqs[i], x) =>
            \E j \in 1 .. Len(u) : new[j] = i /\ u[j] = x
  BY <1>9, <1>10, <1>11
<1>13. Flat(D, seqs, k + 1, u)
  BY <1>4, <1>8, <1>12 DEF Flat
<1> QED
  BY <1>3, <1>13

\* FlattenSeq: the elements of all sequences, one sequence after the other.
LEMMA FlattenIs ==
    ASSUME NEW D, NEW seqs \in Seq(Seq(D))
    PROVE  Flat(D, seqs, Len(seqs), FlattenSeq(seqs))
<1>1. PICK f : /\ f[0] = <<>> /\ f[Len(seqs)] = FlattenSeq(seqs)
               /\ \A k \in 0 .. Len(seqs) - 1 : f[k + 1] = f[k] \o seqs[k + 1]
  BY FlattenSteps
<1>2. PICK n : n = Len(seqs)
  OBVIOUS
<1>3. n \in Nat /\ \A i \in 1 .. n : seqs[i] \in Seq(D)
  BY <1>2
<1>4. PICK P : P = {k \in Nat : k <= n => Flat(D, seqs, k, f[k])}
  OBVIOUS
<1>5. Flat(D, seqs, 0, <<>>)
  <2>1. PICK at : at = [j \in 1 .. 0 |-> 0]
    OBVIOUS
  <2>2. at \in [1 .. 0 -> 1 .. 0] /\ Len(<<>>) = 0 /\ \A i \in 1 .. 0 : FALSE
    BY <2>1
  <2>3. <<>> \in Seq(D)
    OBVIOUS
  <2> QED
    BY <2>2, <2>3 DEF Flat
<1>6. 0 \in P
  BY <1>1, <1>4, <1>5
<1>7. ASSUME NEW k \in Nat, k \in P PROVE k + 1 \in P
  <2> SUFFICES ASSUME k + 1 <= n PROVE Flat(D, seqs, k + 1, f[k + 1])
    BY <1>4
  <2>1. k \in 0 .. n - 1 /\ k <= n /\ k + 1 \in 1 .. n
    BY <1>3
  <2>2. Flat(D, seqs, k, f[k]) /\ f[k + 1] = f[k] \o seqs[k + 1] /\ seqs[k + 1] \in Seq(D)
    BY <1>1, <1>2, <1>3, <1>4, <1>7, <2>1
  <2> QED
    BY <2>2, FlatStep
<1>8. n \in P
  BY <1>3, <1>6, <1>7, SetInduction
<1> QED
  BY <1>1, <1>2, <1>3, <1>4, <1>8

\* What an entry of the frame's list may be: a declaration that runs alone, or a group
\* without unfinished members.
Entry(s, unfinished) ==
    \/ \E d \in Decls : s = <<d>> /\ (UnitOf(d) = {d} \/ UnitOf(d) \cap unfinished # {})
    \/ \E p \in ToSet(plans) : s = p.members /\ Members(p) \cap unfinished = {}

\* A group has at least two members: one that reads itself is not accepted.
LEMMA GroupSize ==
    ASSUME ReadsType, NEW p, PlanFacts(p)
    PROVE  Len(p.members) \in Nat /\ Len(p.members) > 1
<1>1. PICK c, q : c = Members(p) /\ q = p.members
  OBVIOUS
<1>2. /\ c \in ReadClasses /\ q \in Seq(c) /\ \A m : Contains(q, m) <=> m \in c
      /\ \A m \in c : m \notin reads[m]
  BY <1>1 DEF PlanFacts
<1>3. PICK m \in c, n \in c : n \in reads[m]
  BY <1>2, ClassFacts
<1>4. m # n
  BY <1>2, <1>3
<1>5. Len(q) \in Nat /\ DOMAIN q = 1 .. Len(q)
  BY <1>2
<1>6. PICK i \in 1 .. Len(q), j \in 1 .. Len(q) : q[i] = m /\ q[j] = n
  BY <1>2, <1>5 DEF Contains
<1>7. i # j
  BY <1>4, <1>6
<1> QED
  BY <1>1, <1>5, <1>6, <1>7

\* A sequence of one element.
LEMMA SingleElement ==
    ASSUME NEW D, NEW d \in D
    PROVE  <<d>> \in Seq(D) /\ Len(<<d>>) = 1 /\ <<d>>[1] = d /\ \A x : Contains(<<d>>, x) <=> x = d
<1>1. DOMAIN <<d>> = {1} /\ <<d>>[1] = d
  OBVIOUS
<1>2. \A x : Contains(<<d>>, x) <=> x = d
  BY <1>1 DEF Contains
<1> QED
  BY <1>2

\* The declarations of a unit, and how they are listed.
LEMMA MembersOfIs ==
    ASSUME ReadsType, Checked, Partition(units), NEW i \in 1 .. Len(units),
           NEW u, u = units[i], NEW q, q = MembersOf(u)
    PROVE  /\ q \in Seq(Decls) /\ \A d : Contains(q, d) <=> d \in u
           /\ \/ \E d \in Decls : q = <<d>> /\ UnitOf(d) = {d} /\ u = {d}
              \/ \E p \in ToSet(plans) : q = p.members /\ Members(p) = u
<1>1. u \in SUBSET Decls /\ u # {} /\ \A d \in u : u = UnitOf(d)
  BY DEF Partition
<1>2. u \subseteq Nat
  BY <1>1 DEF Decls
<1>3. PICK m : m = Min(u)
  OBVIOUS
<1>4. m \in u /\ m \in Decls /\ u = UnitOf(m)
  BY <1>1, <1>2, <1>3, LeastIn
<1>5. PICK p : p = PlanOf(m)
  OBVIOUS
<1>6. q = IF p = {} THEN <<m>> ELSE (CHOOSE x \in p : TRUE).members
  BY <1>3, <1>5 DEF MembersOf
<1>7. p = {x \in ToSet(plans) : m \in Members(x)}
  BY <1>5 DEF PlanOf
<1>8. CASE p = {}
  <2>1. q = <<m>>
    BY <1>6, <1>8
  <2>2. u = {m}
    BY <1>4, <1>7, <1>8, UnitFacts
  <2>4. <<m>> \in Seq(Decls) /\ \A d : Contains(<<m>>, d) <=> d = m
    BY <1>4, SingleElement
  <2>3. q \in Seq(Decls) /\ \A d : Contains(q, d) <=> d = m
    BY <2>1, <2>4
  <2> QED
    BY <1>4, <2>1, <2>2, <2>3
<1>9. CASE p # {}
  <2>1. PICK x : x = CHOOSE y \in p : TRUE
    OBVIOUS
  <2>2. x \in ToSet(plans) /\ m \in Members(x) /\ q = x.members
    BY <1>6, <1>7, <1>9, <2>1
  <2>3. PlanFacts(x)
    BY <2>2, PlannedIs DEF Checked
  <2>4. u = Members(x)
    BY <1>4, <2>2, UnitFacts
  <2>5. q \in Seq(u) /\ \A d : Contains(q, d) <=> d \in u
    BY <2>2, <2>3, <2>4 DEF PlanFacts
  <2>6. q \in Seq(Decls)
    BY <1>1, <2>5, Enlarged
  <2> QED
    BY <2>2, <2>4, <2>5, <2>6
<1> QED
  BY <1>8, <1>9

UnitEntries(i, unfinished) ==
    LET members == MembersOf(units[i]) IN
    IF units[i] \cap unfinished = {} THEN <<members>>
    ELSE [k \in DOMAIN members |-> <<members[k]>>]

\* plan_recurrence: what a unit becomes in the list of a frame.
LEMMA UnitEntriesAre ==
    ASSUME ReadsType, Checked, Partition(units), NEW i \in 1 .. Len(units), NEW unfinished
    PROVE  /\ UnitEntries(i, unfinished) \in Seq(Seq(Decls))
           /\ \A s : Contains(UnitEntries(i, unfinished), s) =>
                Entry(s, unfinished) /\ \A d : Contains(s, d) => d \in units[i]
           /\ \A d \in units[i] : \E s : Contains(UnitEntries(i, unfinished), s) /\ Contains(s, d)
<1>1. PICK u, q, e : u = units[i] /\ q = MembersOf(u) /\ e = UnitEntries(i, unfinished)
  OBVIOUS
<1>2. /\ q \in Seq(Decls) /\ \A d : Contains(q, d) <=> d \in u
      /\ \/ \E d \in Decls : q = <<d>> /\ UnitOf(d) = {d} /\ u = {d}
         \/ \E p \in ToSet(plans) : q = p.members /\ Members(p) = u
  BY <1>1, MembersOfIs
<1>3. \A d \in u : d \in Decls /\ u = UnitOf(d)
  BY <1>1 DEF Partition
<1>4. CASE u \cap unfinished = {}
  <2>1. e = <<q>>
    BY <1>1, <1>4 DEF UnitEntries
  <2>2. e \in Seq(Seq(Decls)) /\ \A s : Contains(e, s) <=> s = q
    BY <1>2, <2>1, SingleElement
  <2>3. Entry(q, unfinished)
    BY <1>2, <1>4 DEF Entry
  <2> QED
    BY <1>1, <1>2, <2>2, <2>3
<1>5. CASE u \cap unfinished # {}
  <2>1. e = [k \in DOMAIN q |-> <<q[k]>>]
    BY <1>1, <1>5 DEF UnitEntries
  <2>2. DOMAIN q = 1 .. Len(q) /\ Len(q) \in Nat /\ \A k \in 1 .. Len(q) : q[k] \in Decls
    BY <1>2
  <2>3. \A k \in 1 .. Len(q) : <<q[k]>> \in Seq(Decls)
    BY <2>2, SingleElement
  <2>4. e \in Seq(Seq(Decls)) /\ DOMAIN e = 1 .. Len(q) /\ \A k \in 1 .. Len(q) : e[k] = <<q[k]>>
    BY <2>1, <2>2, <2>3
  <2>5. ASSUME NEW s, Contains(e, s)
        PROVE  Entry(s, unfinished) /\ \A d : Contains(s, d) => d \in u
    <3>0. PICK k \in DOMAIN e : e[k] = s
      BY <2>5 DEF Contains
    <3>1. k \in 1 .. Len(q) /\ s = <<q[k]>>
      BY <2>4, <3>0
    <3>2. PICK d \in Decls : d = q[k]
      BY <2>2, <3>1
    <3>3. s = <<d>> /\ d \in u /\ UnitOf(d) = u
      BY <1>2, <1>3, <2>2, <3>1, <3>2 DEF Contains
    <3>4. \A x : Contains(s, x) <=> x = d
      BY <3>3, SingleElement
    <3> QED
      BY <1>5, <3>3, <3>4 DEF Entry
  <2>6. ASSUME NEW d \in u PROVE \E s : Contains(e, s) /\ Contains(s, d)
    <3>1. PICK k \in 1 .. Len(q) : q[k] = d
      BY <1>2, <2>2 DEF Contains
    <3>2. Contains(e, <<d>>)
      BY <2>4, <3>1 DEF Contains
    <3> QED
      BY <1>3, <3>2, SingleElement
  <2> QED
    BY <1>1, <2>4, <2>5, <2>6
<1> QED
  BY <1>4, <1>5

\* The frame's list: entries, all declarations, and what is read elsewhere comes earlier.
LEMMA RunUnitsAre ==
    ASSUME ReadsType, Checked, Partition(units), InOrder(units), NEW unfinished,
           NEW r, r = RunUnits(unfinished)
    PROVE  /\ r \in Seq(Seq(Decls))
           /\ \A i \in 1 .. Len(r) : Entry(r[i], unfinished)
           /\ \A d \in Decls : \E i \in 1 .. Len(r) : Contains(r[i], d)
           /\ \A i \in 1 .. Len(r) : \A a : Contains(r[i], a) => \A b \in reads[a] \ UnitOf(a) :
                \E j \in 1 .. i - 1 : Contains(r[j], b)
<1>1. PICK us, n : us = units /\ n = Len(us)
  OBVIOUS
<1>2. us \in Seq(SUBSET Decls) /\ n \in Nat /\ DOMAIN units = 1 .. n
  BY <1>1 DEF Partition
<1>3. PICK seqs : seqs = [i \in 1 .. n |-> UnitEntries(i, unfinished)]
  OBVIOUS
<1>4. r = FlattenSeq(seqs)
  BY <1>2, <1>3 DEF RunUnits, UnitEntries
<1>5. /\ \A i \in 1 .. n : seqs[i] \in Seq(Seq(Decls))
      /\ \A i \in 1 .. n : \A s : Contains(seqs[i], s) =>
           Entry(s, unfinished) /\ \A d : Contains(s, d) => d \in us[i]
      /\ \A i \in 1 .. n : \A d \in us[i] : \E s : Contains(seqs[i], s) /\ Contains(s, d)
  <2> SUFFICES ASSUME NEW i \in 1 .. n
               PROVE  /\ seqs[i] \in Seq(Seq(Decls))
                      /\ \A s : Contains(seqs[i], s) =>
                           Entry(s, unfinished) /\ \A d : Contains(s, d) => d \in us[i]
                      /\ \A d \in us[i] : \E s : Contains(seqs[i], s) /\ Contains(s, d)
    OBVIOUS
  <2>1. seqs[i] = UnitEntries(i, unfinished)
    BY <1>3
  <2> QED
    BY <1>1, <2>1, UnitEntriesAre
<1>6. seqs \in Seq(Seq(Seq(Decls))) /\ Len(seqs) = n
  <2>1. PICK S : S = Seq(Seq(Decls))
    OBVIOUS
  <2>2. seqs \in Seq(S) /\ Len(seqs) = n
    BY <1>2, <1>3, <1>5, <2>1
  <2> QED
    BY <2>1, <2>2
<1>7. Flat(Seq(Decls), seqs, n, r)
  BY <1>4, <1>6, FlattenIs
<1>8. r \in Seq(Seq(Decls)) /\ Len(r) \in Nat
  BY <1>7 DEF Flat
<1>9. PICK at \in [1 .. Len(r) -> 1 .. n] :
         /\ \A j \in 1 .. Len(r) : Contains(seqs[at[j]], r[j])
         /\ \A i, j \in 1 .. Len(r) : i < j => at[i] <= at[j]
         /\ \A i \in 1 .. n : \A x : Contains(seqs[i], x) =>
              \E j \in 1 .. Len(r) : at[j] = i /\ r[j] = x
  BY <1>7 DEF Flat
<1>10. \A i \in 1 .. n : \A d \in us[i] : \E j \in 1 .. Len(r) : at[j] = i /\ Contains(r[j], d)
  <2> SUFFICES ASSUME NEW i \in 1 .. n, NEW d \in us[i]
               PROVE  \E j \in 1 .. Len(r) : at[j] = i /\ Contains(r[j], d)
    OBVIOUS
  <2>1. PICK s : Contains(seqs[i], s) /\ Contains(s, d)
    BY <1>5
  <2> QED
    BY <1>9, <2>1
<1>11. \A i \in 1 .. Len(r) : Entry(r[i], unfinished) /\ \A d : Contains(r[i], d) => d \in us[at[i]]
  BY <1>5, <1>9
<1>12. \A d \in Decls : \E i \in 1 .. Len(r) : Contains(r[i], d)
  <2> SUFFICES ASSUME NEW d \in Decls PROVE \E i \in 1 .. Len(r) : Contains(r[i], d)
    OBVIOUS
  <2>1. PICK k \in 1 .. n : d \in us[k]
    BY <1>1 DEF Partition
  <2> QED
    BY <1>10, <2>1
<1>13. ASSUME NEW i \in 1 .. Len(r), NEW a, Contains(r[i], a), NEW b \in reads[a] \ UnitOf(a)
       PROVE  \E j \in 1 .. i - 1 : Contains(r[j], b)
  <2>1. PICK k \in 1 .. n : k = at[i]
    BY <1>9
  <2>2. a \in us[k] /\ us[k] = UnitOf(a)
    BY <1>1, <1>11, <1>13, <2>1 DEF Partition
  <2>3. PICK l \in 1 .. k - 1 : b \in us[l]
    BY <1>1, <1>13, <2>2 DEF InOrder
  <2>4. l \in 1 .. n /\ l < k
    BY <1>2, <2>3
  <2>5. PICK j \in 1 .. Len(r) : at[j] = l /\ Contains(r[j], b)
    BY <1>10, <2>3, <2>4
  <2>6. ~(i <= j)
    <3>1. i # j
      BY <2>1, <2>4, <2>5
    <3>2. ~(i < j)
      BY <1>2, <1>9, <2>1, <2>4, <2>5
    <3> QED
      BY <1>8, <3>1, <3>2
  <2>7. j \in 1 .. i - 1
    BY <1>8, <2>6
  <2> QED
    BY <2>5, <2>7
<1> QED
  BY <1>8, <1>11, <1>12, <1>13

\* CallablePlan::new never refuses the checker's schedule.
LEMMA StepsAreOrdered ==
    ASSUME ReadsType, Checked, Partition(units), InOrder(units), NEW unfinished
    PROVE  StepsOrdered(unfinished)
<1>1. PICK r, q : r = RunUnits(unfinished) /\ q = FlattenSeq(r)
  OBVIOUS
<1>2. /\ r \in Seq(Seq(Decls))
      /\ \A i \in 1 .. Len(r) : \A a : Contains(r[i], a) => \A b \in reads[a] \ UnitOf(a) :
           \E j \in 1 .. i - 1 : Contains(r[j], b)
  BY <1>1, RunUnitsAre
<1>3. Flat(Decls, r, Len(r), q)
  BY <1>1, <1>2, FlattenIs
<1>4. q \in Seq(Decls) /\ Len(r) \in Nat /\ Len(q) \in Nat /\ DOMAIN q = 1 .. Len(q)
  BY <1>2, <1>3 DEF Flat
<1>5. PICK at \in [1 .. Len(q) -> 1 .. Len(r)] :
         /\ \A j \in 1 .. Len(q) : Contains(r[at[j]], q[j])
         /\ \A i, j \in 1 .. Len(q) : i < j => at[i] <= at[j]
         /\ \A i \in 1 .. Len(r) : \A x : Contains(r[i], x) =>
              \E j \in 1 .. Len(q) : at[j] = i /\ q[j] = x
  BY <1>3 DEF Flat
<1>6. ASSUME NEW i \in 1 .. Len(q), NEW e \in reads[q[i]] \ UnitOf(q[i])
      PROVE  \E j \in 1 .. i - 1 : q[j] = e
  <2>1. PICK k \in 1 .. Len(r) : k = at[i]
    BY <1>5
  <2>2. PICK l \in 1 .. k - 1 : Contains(r[l], e)
    BY <1>2, <1>5, <1>6, <2>1
  <2>3. l \in 1 .. Len(r) /\ l < k
    BY <1>4, <2>2
  <2>4. PICK j \in 1 .. Len(q) : at[j] = l /\ q[j] = e
    BY <1>5, <2>2, <2>3
  <2>5. i # j /\ ~(i < j)
    BY <1>4, <1>5, <2>1, <2>3, <2>4
  <2>6. j \in 1 .. i - 1
    BY <1>4, <2>5
  <2> QED
    BY <2>4, <2>6
<1> QED
  BY <1>1, <1>4, <1>6 DEF StepsOrdered

-----------------------------------------------------------------------------
(* The invariant of a frame.                                                *)

Reason == [kind : {"none", "todo", "failed", "blocked"}, unfinished : SUBSET (Decls \cup {0}),
           failedDeps : SUBSET Decls]
Told(r) == r.unfinished # {} \/ HasFailure(r)
Handled(d) == d \in values \/ errors[d] # None

EvaluatorType ==
    /\ supplied \in SUBSET Decls /\ todo \in SUBSET Decls /\ supplied \cap todo = {}
    /\ values \in SUBSET Decls /\ errors \in [Decls -> Reason]
    /\ origins \in [Decls -> {"none", "failed", "incomplete"}]

\* The list has what is not handled yet, after what it reads elsewhere.
RunInv ==
    /\ run \in Seq(Seq(Decls))
    /\ \A i \in 1 .. Len(run) : Entry(run[i], todo)
    /\ \A d \in Decls : Handled(d) \/ \E i \in 1 .. Len(run) : Contains(run[i], d)
    /\ \A i \in 1 .. Len(run) : \A a : Contains(run[i], a) => \A b \in reads[a] \ UnitOf(a) :
         Handled(b) \/ \E j \in 1 .. i - 1 : Contains(run[j], b)

\* A reason blames only what is behind the declaration.
Blames(d, r) ==
    /\ HasFailure(r) => \E e \in Behind(d) : origins[e] = "failed"
    /\ r.unfinished # {} => \E e \in Behind(d) : e \in todo \/ origins[e] = "incomplete"
    /\ r # None => Told(r)

\* How evaluations went is how the reason says.
Agrees(d, r) ==
    /\ r.kind = "failed" <=> origins[d] = "failed"
    /\ r = None => origins[d] = "none"

\* A value has values behind it and nothing unfinished.
Complete(d) ==
    /\ errors[d] = None /\ origins[d] = "none" /\ d \notin todo
    /\ d \in supplied \/ (reads[d] \subseteq values /\ UnitOf(d) \cap todo = {})

OutcomeInv ==
    /\ \A d \in supplied : Handled(d)
    /\ \A d \in values : Complete(d)
    /\ \A d \in Decls : Blames(d, errors[d])
    /\ \A d \in Decls : Agrees(d, errors[d]) \/ (frame = "group" /\ d \in Group /\ errors[d] = None)

-----------------------------------------------------------------------------
(* The group that runs.                                                     *)

Bad == {"failed", "unavailable"}
Looked(i, k) == frame = "spread" \/ (k - 1) * Len(Head(run)) + i <= element
Troubled(m) == errors[m] # None \/ (frame = "group" /\ problems[m] # None)

GroupType ==
    /\ run # <<>> /\ Len(Head(run)) > 1
    /\ slots \in [Group -> [1 .. Steps -> {"pending", "computed"} \cup Bad]]
    /\ problems \in [Group -> Reason]
    /\ element \in Nat /\ (frame = "group" => element <= Steps * Len(Head(run)))

ReadElements(m, k) == ElementDependencies(GroupPlan, m, k)

\* What is known of the element of member m, the i-th, at step k.
ElementInv(m, i, k) ==
    /\ m \in values => slots[m][k] = "computed"
    /\ m \notin values => (slots[m][k] = "pending" <=> ~Looked(i, k))
    /\ slots[m][k] = "computed" /\ GroupPlan.shape[m] = "unfold" => slots[m][1] = "computed"
    /\ slots[m][k] \in Bad =>
         Troubled(m) \/ \E e \in ReadElements(m, k) : slots[e[1]][e[2]] \in Bad

MemberInv(m) ==
    /\ frame = "group" /\ m \in values => problems[m] = None
    /\ frame = "group" => Blames(m, problems[m])
    /\ frame = "group" /\ errors[m] = None =>
         /\ Agrees(m, problems[m])
         /\ problems[m] = None \/ problems[m].kind \in {"failed", "blocked"}
    /\ m \notin values /\ ~Troubled(m) => reads[m] \ UnitOf(m) \subseteq values

GroupInv ==
    /\ GroupType
    /\ \A i \in 1 .. Len(Head(run)), k \in 1 .. Steps : \A m \in Group :
         Head(run)[i] = m => ElementInv(m, i, k)
    /\ \A m \in Group : MemberInv(m)

FrameInv ==
    /\ frame \in {"idle", "run", "group", "spread", "done", "aborted"}
    /\ frame # "idle" => stage = "scheduled"
    /\ frame \in {"run", "group", "spread", "done"} => EvaluatorType /\ RunInv /\ OutcomeInv
    /\ frame \in {"group", "spread"} => GroupInv
    /\ frame = "done" => run = <<>>

-----------------------------------------------------------------------------
(* What is behind a declaration, and reasons.                               *)

\* What is behind what a declaration needs is behind the declaration.
LEMMA BehindFacts ==
    /\ \A d \in Decls : d \in Behind(d)
    /\ \A d : \A n \in Needs(d) : Behind(n) \subseteq Behind(d)
    /\ \A d : Behind(d) \subseteq Decls
<1>1. \A d \in Decls : d \in Behind(d)
  BY DEF Behind
<1>2. ASSUME NEW d, NEW n \in Needs(d), NEW e \in Behind(n) PROVE e \in Behind(d)
  <2>1. e \in Decls /\ \A T \in SUBSET Decls :
          n \in T /\ (\A x \in T : Needs(x) \subseteq T) => e \in T
    BY DEF Behind
  <2>2. ASSUME NEW T \in SUBSET Decls, d \in T, \A x \in T : Needs(x) \subseteq T PROVE e \in T
    <3>1. n \in T
      BY <1>2, <2>2
    <3> QED
      BY <2>1, <2>2, <3>1
  <2> QED
    BY <2>1, <2>2 DEF Behind
<1>3. \A d : Behind(d) \subseteq Decls
  BY DEF Behind
<1> QED
  BY <1>1, <1>2, <1>3

\* What the run of a frame leaves alone.
Fixed == reads' = reads /\ plans' = plans /\ supplied' = supplied /\ todo' = todo

\* Units, needs and list entries stay what they are during a frame.
LEMMA FixedKeeps ==
    ASSUME Fixed
    PROVE  /\ \A d : UnitOf(d)' = UnitOf(d) /\ Needs(d)' = Needs(d) /\ Behind(d)' = Behind(d)
           /\ \A s, u : Entry(s, u)' <=> Entry(s, u)
<1>1. \A d : UnitOf(d)' = UnitOf(d)
  BY PlansKept DEF Fixed
<1>2. \A d : Needs(d)' = Needs(d)
  BY <1>1 DEF Needs, Fixed
<1>3. \A d : Behind(d)' = Behind(d)
  BY <1>2 DEF Behind
<1>4. \A s, u : Entry(s, u)' <=> Entry(s, u)
  BY <1>1 DEF Entry, Fixed, Members
<1> QED
  BY <1>1, <1>2, <1>3, <1>4

\* A reason stays justified, since what went wrong stays known.
LEMMA BlamesKept ==
    ASSUME Fixed, \A e \in Decls : origins[e] # "none" => origins'[e] = origins[e]
    PROVE  \A d, r : Blames(d, r) => Blames(d, r)'
<1> SUFFICES ASSUME NEW d, NEW r, Blames(d, r) PROVE Blames(d, r)'
  OBVIOUS
<1>1. Behind(d)' = Behind(d) /\ Behind(d) \subseteq Decls /\ todo' = todo
  BY FixedKeeps, BehindFacts DEF Fixed
<1>2. \A e \in Behind(d) : (origins[e] = "failed" => origins'[e] = "failed")
                           /\ (origins[e] = "incomplete" => origins'[e] = "incomplete")
  BY <1>1
<1> QED
  BY <1>1, <1>2 DEF Blames

\* The reasons of the evaluator: NodeUnavailable.
LEMMA ReasonsAre ==
    /\ None \in Reason /\ EvalFailed \in Reason /\ Incomplete \in Reason
    /\ \A d \in Decls : Todo(d) \in Reason
    /\ ~Told(None) /\ ~HasFailure(None) /\ None.unfinished = {} /\ None.kind = "none"
    /\ Told(EvalFailed) /\ HasFailure(EvalFailed) /\ EvalFailed.unfinished = {}
    /\ EvalFailed.kind = "failed" /\ EvalFailed # None
    /\ Told(Incomplete) /\ ~HasFailure(Incomplete) /\ Incomplete.unfinished # {}
    /\ Incomplete.kind = "blocked" /\ Incomplete # None
    /\ \A d : Told(Todo(d)) /\ ~HasFailure(Todo(d)) /\ Todo(d).kind = "todo" /\ Todo(d) # None
<1>1. None \in Reason /\ EvalFailed \in Reason /\ Incomplete \in Reason
  BY DEF None, EvalFailed, Incomplete, Reason
<1>2. \A d \in Decls : Todo(d) \in Reason
  BY DEF Todo, Reason
<1>3. ~Told(None) /\ ~HasFailure(None) /\ None.unfinished = {} /\ None.kind = "none"
  BY DEF None, Told, HasFailure
<1>4. /\ Told(EvalFailed) /\ HasFailure(EvalFailed) /\ EvalFailed.unfinished = {}
      /\ EvalFailed.kind = "failed"
  BY DEF EvalFailed, Told, HasFailure
<1>5. /\ Told(Incomplete) /\ ~HasFailure(Incomplete) /\ Incomplete.unfinished # {}
      /\ Incomplete.kind = "blocked"
  BY DEF Incomplete, Told, HasFailure
<1>6. \A d : Told(Todo(d)) /\ ~HasFailure(Todo(d)) /\ Todo(d).kind = "todo"
  BY DEF Todo, Told, HasFailure
<1> QED
  BY <1>1, <1>2, <1>3, <1>4, <1>5, <1>6

\* blocked_by tells what its dependencies tell.
TellsOf(r, deps, reasons) ==
    /\ r \in Reason /\ r.kind # "failed" /\ (r # None => r.kind = "blocked" /\ Told(r))
    /\ HasFailure(r) => \E e \in deps : HasFailure(reasons[e])
    /\ r.unfinished # {} => \E e \in deps : reasons[e].unfinished # {}
    /\ r = None => \A e \in deps : ~Told(reasons[e])

\* blocked_by returns a reason exactly when a dependency has something to tell.
LEMMA BlockedByIs ==
    ASSUME NEW deps \in SUBSET Decls, NEW reasons \in [Decls -> Reason],
           NEW r, r = BlockedBy(deps, reasons)
    PROVE  TellsOf(r, deps, reasons)
<1>1. PICK unfinished, failed : /\ unfinished = UNION {reasons[e].unfinished : e \in deps}
                                /\ failed = {e \in deps : HasFailure(reasons[e])}
  OBVIOUS
<1>2. r = IF unfinished = {} /\ failed = {} THEN None
          ELSE [kind |-> "blocked", unfinished |-> unfinished, failedDeps |-> failed]
  BY <1>1 DEF BlockedBy
<1>3. \A e \in deps : reasons[e].unfinished \in SUBSET (Decls \cup {0})
  BY DEF Reason
<1>4. unfinished \in SUBSET (Decls \cup {0}) /\ failed \in SUBSET Decls
  BY <1>1, <1>3
<1>5. unfinished # {} <=> \E e \in deps : reasons[e].unfinished # {}
  BY <1>1
<1>6. failed # {} <=> \E e \in deps : HasFailure(reasons[e])
  BY <1>1
<1>7. CASE unfinished = {} /\ failed = {}
  <2>1. r = None
    BY <1>2, <1>7
  <2> QED
    BY <1>5, <1>6, <1>7, <2>1, ReasonsAre DEF Told, TellsOf
<1>8. CASE ~(unfinished = {} /\ failed = {})
  <2>1. r = [kind |-> "blocked", unfinished |-> unfinished, failedDeps |-> failed]
    BY <1>2, <1>8
  <2>2. r \in Reason /\ r.kind = "blocked" /\ r.unfinished = unfinished /\ r.failedDeps = failed
    BY <1>4, <2>1 DEF Reason
  <2>3. (HasFailure(r) <=> failed # {}) /\ Told(r)
    BY <1>8, <2>2 DEF HasFailure, Told
  <2>4. r # None
    BY <2>2, ReasonsAre
  <2> QED
    BY <1>5, <1>6, <2>2, <2>3, <2>4 DEF TellsOf
<1> QED
  BY <1>7, <1>8

\* A reason made from justified reasons of what is needed is justified.
LEMMA BlockedBlames ==
    ASSUME NEW d \in Decls, NEW deps \in SUBSET Decls, deps \subseteq Needs(d),
           NEW reasons \in [Decls -> Reason], \A e \in deps : Blames(e, reasons[e]),
           NEW r, r = BlockedBy(deps, reasons)
    PROVE  Blames(d, r)
<1>1. /\ r # None => Told(r)
      /\ HasFailure(r) => \E e \in deps : HasFailure(reasons[e])
      /\ r.unfinished # {} => \E e \in deps : reasons[e].unfinished # {}
  <2>1. TellsOf(r, deps, reasons)
    BY BlockedByIs
  <2> QED
    BY <2>1 DEF TellsOf
<1>2. \A e \in deps : Behind(e) \subseteq Behind(d)
  BY BehindFacts
<1>3. HasFailure(r) => \E e \in Behind(d) : origins[e] = "failed"
  BY <1>1, <1>2 DEF Blames
<1>4. r.unfinished # {} => \E e \in Behind(d) : e \in todo \/ origins[e] = "incomplete"
  BY <1>1, <1>2 DEF Blames
<1> QED
  BY <1>1, <1>3, <1>4 DEF Blames

\* The reasons a declaration has of its own.
LEMMA OwnBlames ==
    ASSUME NEW d \in Decls
    PROVE  /\ Blames(d, None)
           /\ origins[d] = "failed" => Blames(d, EvalFailed)
           /\ origins[d] = "incomplete" => Blames(d, Incomplete)
           /\ d \in todo => Blames(d, Todo(d))
<1>1. d \in Behind(d)
  BY BehindFacts
<1> QED
  BY <1>1, ReasonsAre DEF Blames

\* The list without its first entry, whose declarations were handled.
LEMMA RunMovesOn ==
    ASSUME ReadsType, RunInv, Fixed, run # <<>>, run' = Tail(run),
           \A d \in Decls : Handled(d) => Handled(d)',
           \A d : Contains(Head(run), d) => Handled(d)'
    PROVE  RunInv'
<1>1. PICK r, t : r = run /\ t = Tail(run)
  OBVIOUS
<1>2. /\ r \in Seq(Seq(Decls)) /\ r # <<>>
      /\ \A i \in 1 .. Len(r) : Entry(r[i], todo)
      /\ \A d \in Decls : Handled(d) \/ \E i \in 1 .. Len(r) : Contains(r[i], d)
      /\ \A i \in 1 .. Len(r) : \A a : Contains(r[i], a) => \A b \in reads[a] \ UnitOf(a) :
           Handled(b) \/ \E j \in 1 .. i - 1 : Contains(r[j], b)
  BY <1>1 DEF RunInv
<1>3. PICK S : S = Seq(Decls)
  OBVIOUS
<1>4. /\ t \in Seq(S) /\ Len(t) = Len(r) - 1 /\ Len(r) \in Nat \ {0} /\ Head(r) = r[1]
      /\ \A i \in 1 .. Len(t) : t[i] = r[i + 1] /\ i + 1 \in 1 .. Len(r)
  <2>1. r \in Seq(S) /\ t = Tail(r)
    BY <1>1, <1>2, <1>3
  <2> QED
    BY <1>2, <2>1
<1>5. \A d : Contains(r[1], d) => Handled(d)'
  BY <1>1, <1>4
<1>6. \A i \in 1 .. Len(t) : Entry(t[i], todo)
  BY <1>2, <1>4
<1>7. ASSUME NEW d \in Decls PROVE Handled(d)' \/ \E i \in 1 .. Len(t) : Contains(t[i], d)
  <2>1. ASSUME NEW i \in 1 .. Len(r), Contains(r[i], d)
        PROVE  Handled(d)' \/ \E k \in 1 .. Len(t) : Contains(t[k], d)
    <3>1. CASE i = 1
      BY <1>5, <2>1, <3>1
    <3>2. CASE i # 1
      <4>1. i - 1 \in 1 .. Len(t) /\ (i - 1) + 1 = i
        BY <1>4, <3>2
      <4>2. t[i - 1] = r[i]
        BY <1>4, <4>1
      <4> QED
        BY <2>1, <4>1, <4>2
    <3> QED
      BY <3>1, <3>2
  <2> QED
    BY <1>2, <2>1
<1>8. ASSUME NEW i \in 1 .. Len(t), NEW a, Contains(t[i], a), NEW b \in reads[a] \ UnitOf(a)
      PROVE  Handled(b)' \/ \E j \in 1 .. i - 1 : Contains(t[j], b)
  <2>1. i + 1 \in 1 .. Len(r) /\ Contains(r[i + 1], a)
    BY <1>4, <1>8
  <2>2. CASE Handled(b)
    <3>1. r[i + 1] \in S
      BY <1>2, <1>3, <2>1
    <3>2. a \in Decls
      BY <1>3, <2>1, <3>1 DEF Contains
    <3>3. b \in Decls
      BY <1>8, <3>2 DEF ReadsType
    <3> QED
      BY <2>2, <3>3
  <2>3. CASE ~Handled(b)
    <3>1. PICK j \in 1 .. (i + 1) - 1 : Contains(r[j], b)
      BY <1>2, <1>8, <2>1, <2>3
    <3>2. CASE j = 1
      BY <1>5, <3>1, <3>2
    <3>3. CASE j # 1
      <4>1. j - 1 \in 1 .. i - 1 /\ j - 1 \in 1 .. Len(t) /\ (j - 1) + 1 = j
        BY <1>4, <3>3
      <4>2. t[j - 1] = r[j]
        BY <1>4, <4>1
      <4> QED
        BY <3>1, <4>1, <4>2
    <3> QED
      BY <3>2, <3>3
  <2> QED
    BY <2>2, <2>3
<1>9. /\ \A d : UnitOf(d)' = UnitOf(d)
      /\ \A s : Entry(s, todo)' <=> Entry(s, todo)
      /\ reads' = reads /\ run' = t
  <2>1. \A d : UnitOf(d)' = UnitOf(d)
    BY FixedKeeps
  <2>2. \A s : Entry(s, todo)' <=> Entry(s, todo)
    BY <2>1 DEF Entry, Members, Fixed
  <2> QED
    BY <1>1, <2>1, <2>2 DEF Fixed
<1> QED
  BY <1>3, <1>4, <1>6, <1>7, <1>8, <1>9 DEF RunInv

\* The schedule that is run.
Scheduled ==
    /\ ReadsType /\ Checked /\ rejected = {} /\ unchecked = <<>> /\ stage = "scheduled"
    /\ Partition(units) /\ InOrder(units)

\* No declaration of an accepted schedule reads itself.
LEMMA NoSelfRead ==
    ASSUME Scheduled, NEW d \in Decls
    PROVE  d \notin reads[d]
<1> SUFFICES ASSUME d \in reads[d] PROVE FALSE
  OBVIOUS
<1>1. ReadsType /\ Checked /\ rejected = {} /\ unchecked = <<>>
  BY DEF Scheduled
<1>2. PICK c \in ReadClasses : d \in c
  BY <1>1, WithinClass, ReadsToFacts
<1>3. PICK p \in ToSet(plans) : Members(p) = c
  BY <1>1, EmptySequence DEF Checked
<1>4. PlanFacts(p)
  BY <1>1, PlannedIs DEF Checked
<1> QED
  BY <1>2, <1>3, <1>4 DEF PlanFacts

\* What the next entry reads elsewhere was handled.
LEMMA HeadEntry ==
    ASSUME RunInv, run # <<>>
    PROVE  /\ Entry(Head(run), todo) /\ Head(run) \in Seq(Decls)
           /\ \A a : Contains(Head(run), a) => \A b \in reads[a] \ UnitOf(a) : Handled(b)
<1>1. PICK r, S : r = run /\ S = Seq(Decls)
  OBVIOUS
<1>2. r \in Seq(S) /\ r # <<>>
  BY <1>1 DEF RunInv
<1>3. Head(r) = r[1] /\ 1 \in 1 .. Len(r) /\ r[1] \in S
  BY <1>2
<1>4. Entry(r[1], todo)
  BY <1>1, <1>3 DEF RunInv
<1>5. ASSUME NEW a, Contains(r[1], a), NEW b \in reads[a] \ UnitOf(a) PROVE Handled(b)
  <2>1. Handled(b) \/ \E j \in 1 .. 1 - 1 : Contains(r[j], b)
    BY <1>1, <1>3, <1>5 DEF RunInv
  <2> QED
    BY <2>1
<1> QED
  BY <1>1, <1>3, <1>4, <1>5

\* The group whose turn it is.
LEMMA GroupIs ==
    ASSUME Scheduled, RunInv, run # <<>>, Len(Head(run)) > 1
    PROVE  /\ GroupPlan \in ToSet(plans) /\ PlanFacts(GroupPlan) /\ GroupPlan.members = Head(run)
           /\ Members(GroupPlan) = Group /\ Group \cap todo = {}
           /\ Group \in SUBSET Decls /\ \A m \in Group : UnitOf(m) = Group
           /\ Head(run) \in Seq(Group) /\ IsInjective(Head(run)) /\ Len(Head(run)) \in Nat \ {0}
           /\ \A m : m \in Group <=> Contains(Head(run), m)
<1>1. PICK q : q = Head(run)
  OBVIOUS
<1>2. Entry(q, todo) /\ ReadsType /\ Checked
  BY <1>1, HeadEntry DEF Scheduled
<1>3. ~\E d \in Decls : q = <<d>>
  <2> SUFFICES ASSUME NEW d \in Decls, q = <<d>> PROVE FALSE
    OBVIOUS
  <2>1. Len(<<d>>) = 1
    OBVIOUS
  <2>2. Len(q) = 1
    BY <2>1
  <2>3. Len(q) > 1
    BY <1>1
  <2> QED
    BY <2>2, <2>3
<1>4. PICK p \in ToSet(plans) : q = p.members /\ Members(p) \cap todo = {}
  BY <1>2, <1>3 DEF Entry
<1>5. PlanFacts(p)
  BY <1>2, <1>4, PlannedIs DEF Checked
<1>6. Group = Members(p)
  BY <1>1, <1>4 DEF Group, Members
<1>7. GroupPlan = p
  <2>1. \A x \in ToSet(plans) : Members(x) = Group => x = p
    BY <1>2, <1>4, <1>6 DEF Checked
  <2>2. GroupPlan \in ToSet(plans) /\ Members(GroupPlan) = Group
    BY <1>4, <1>6 DEF GroupPlan
  <2> QED
    BY <2>1, <2>2
<1>8. \A m \in Group : UnitOf(m) = Group
  BY <1>2, <1>4, <1>6, UnitFacts
<1>9. Len(q) \in Nat \ {0}
  <2>1. Len(p.members) \in Nat /\ Len(p.members) > 1
    BY <1>2, <1>5, GroupSize
  <2> QED
    BY <1>4, <2>1
<1>10. PICK l, c : l = p.members /\ c = Members(p)
  OBVIOUS
<1>11. /\ l \in Seq(c) /\ IsInjective(l) /\ c \in SUBSET Decls
       /\ \A m : m \in c <=> Contains(l, m)
  BY <1>5, <1>10 DEF PlanFacts
<1>12. l = Head(run) /\ c = Group
  BY <1>1, <1>4, <1>6, <1>10
<1>13. GroupPlan \in ToSet(plans) /\ PlanFacts(GroupPlan) /\ GroupPlan.members = Head(run)
       /\ Members(GroupPlan) = Group /\ Group \cap todo = {}
  BY <1>1, <1>4, <1>5, <1>6, <1>7
<1>14. Len(Head(run)) \in Nat \ {0}
  BY <1>1, <1>9
<1> QED
  BY <1>8, <1>11, <1>12, <1>13, <1>14

-----------------------------------------------------------------------------
(* The start of a frame.                                                    *)

\* CallablePlan::new accepts every schedule of the checker, and bound arguments are
\* handled.
LEMMA StartStep ==
    ASSUME ScheduleInv, Start
    PROVE  FrameInv'
<1>1. PICK given \in SUBSET Decls, unfinished \in SUBSET Decls :
        \E bad \in SUBSET Decls :
         /\ given \cap unfinished = {} /\ bad \subseteq given
         /\ policy' \in {"contain", "propagate"}
         /\ supplied' = given /\ todo' = unfinished
         /\ values' = given \ bad
         /\ errors' = [d \in Decls |-> IF d \in bad THEN EvalFailed ELSE None]
         /\ origins' = [d \in Decls |-> IF d \in bad THEN "failed" ELSE "none"]
         /\ run' = RunUnits(unfinished)
         /\ frame' = IF ~StepsOrdered(unfinished) THEN "refused"
                     ELSE IF bad # {} /\ policy' = "propagate" THEN "aborted" ELSE "run"
  BY DEF Start
<1>2. PICK bad \in SUBSET Decls :
         /\ given \cap unfinished = {} /\ bad \subseteq given
         /\ supplied' = given /\ todo' = unfinished
         /\ values' = given \ bad
         /\ errors' = [d \in Decls |-> IF d \in bad THEN EvalFailed ELSE None]
         /\ origins' = [d \in Decls |-> IF d \in bad THEN "failed" ELSE "none"]
         /\ run' = RunUnits(unfinished)
         /\ frame' = IF ~StepsOrdered(unfinished) THEN "refused"
                     ELSE IF bad # {} /\ policy' = "propagate" THEN "aborted" ELSE "run"
  BY <1>1
<1>3. stage = "scheduled" /\ stage' = stage /\ reads' = reads /\ plans' = plans
  BY DEF Start, scheduleVars
<1>4. ReadsType /\ Checked /\ Partition(units) /\ InOrder(units)
  BY <1>3 DEF ScheduleInv
<1>5. frame' \in {"aborted", "run"}
  BY <1>2, <1>4, StepsAreOrdered
<1>6. \A d : UnitOf(d)' = UnitOf(d)
  BY <1>3, PlansKept
<1>7. \A s : Entry(s, unfinished)' <=> Entry(s, unfinished)
  BY <1>3, <1>6 DEF Entry, Members
<1>8. \A d \in Decls : d \in Behind(d)'
  BY DEF Behind
<1>9. /\ \A d \in bad : errors'[d] = EvalFailed /\ origins'[d] = "failed"
      /\ \A d \in Decls \ bad : errors'[d] = None /\ origins'[d] = "none"
  BY <1>2
<1>10. EvaluatorType'
  BY <1>2, ReasonsAre DEF EvaluatorType, Reason
<1>11. RunInv'
  <2>1. PICK r : r = RunUnits(unfinished)
    OBVIOUS
  <2>2. /\ r \in Seq(Seq(Decls))
        /\ \A i \in 1 .. Len(r) : Entry(r[i], unfinished)
        /\ \A d \in Decls : \E i \in 1 .. Len(r) : Contains(r[i], d)
        /\ \A i \in 1 .. Len(r) : \A a : Contains(r[i], a) => \A b \in reads[a] \ UnitOf(a) :
             \E j \in 1 .. i - 1 : Contains(r[j], b)
    BY <1>4, <2>1, RunUnitsAre
  <2>3. run' = r /\ todo' = unfinished
    BY <1>2, <2>1
  <2> QED
    BY <1>3, <1>6, <1>7, <2>2, <2>3 DEF RunInv
<1>12. OutcomeInv'
  <2>1. \A d \in supplied' : Handled(d)'
    BY <1>2, <1>9, ReasonsAre DEF Handled
  <2>2. \A d \in values' : Complete(d)'
    BY <1>2, <1>9 DEF Complete
  <2>3. ASSUME NEW d \in Decls, NEW r, r = errors'[d] PROVE Blames(d, r)' /\ Agrees(d, r)'
    <3>1. CASE d \in bad
      BY <1>8, <1>9, <2>3, <3>1, ReasonsAre DEF Blames, Agrees
    <3>2. CASE d \notin bad
      BY <1>8, <1>9, <2>3, <3>2, ReasonsAre DEF Blames, Agrees
    <3> QED
      BY <3>1, <3>2
  <2>4. \A d \in Decls : Blames(d, errors[d])' /\ Agrees(d, errors[d])'
    BY <2>3
  <2> QED
    BY <2>1, <2>2, <2>4 DEF OutcomeInv
<1> QED
  BY <1>3, <1>5, <1>10, <1>11, <1>12 DEF FrameInv

-----------------------------------------------------------------------------
(* Recording reasons and values.                                            *)

\* A justified reason is recorded for a declaration.
LEMMA ErrorRecorded ==
    ASSUME EvaluatorType, OutcomeInv, Fixed, frame # "group", frame' # "group", values' = values,
           NEW d \in Decls, d \notin values, NEW r \in Reason, r # None,
           errors' = [errors EXCEPT ![d] = r],
           origins' \in [Decls -> {"none", "failed", "incomplete"}],
           \A e \in Decls : e # d => origins'[e] = origins[e],
           origins[d] # "none" => origins'[d] = origins[d],
           Blames(d, r)', Agrees(d, r)'
    PROVE  /\ EvaluatorType' /\ OutcomeInv'
           /\ Handled(d)' /\ \A e \in Decls : Handled(e) => Handled(e)'
<1>1. errors \in [Decls -> Reason] /\ values \in SUBSET Decls
  BY DEF EvaluatorType
<1>2. /\ errors' \in [Decls -> Reason] /\ errors'[d] = r
      /\ \A e \in Decls : e # d => errors'[e] = errors[e]
  BY <1>1
<1>3. Reason' = Reason
  BY DEF Reason
<1>4. EvaluatorType'
  BY <1>1, <1>2, <1>3 DEF EvaluatorType, Fixed
<1>5. Handled(d)' /\ \A e \in Decls : Handled(e) => Handled(e)'
  BY <1>2 DEF Handled
<1>6. \A e \in supplied' : Handled(e)'
  BY <1>5 DEF OutcomeInv, Fixed, EvaluatorType
<1>7. ASSUME NEW e \in values PROVE Complete(e)'
  <2>1. Complete(e) /\ e # d /\ e \in Decls
    BY <1>1 DEF OutcomeInv
  <2>2. errors'[e] = errors[e] /\ origins'[e] = origins[e] /\ UnitOf(e)' = UnitOf(e)
    BY <1>2, <2>1, FixedKeeps
  <2> QED
    BY <2>1, <2>2 DEF Complete, Fixed
<1>8. ASSUME NEW e \in Decls, NEW q, q = errors'[e] PROVE Blames(e, q)' /\ Agrees(e, q)'
  <2>1. CASE e = d
    BY <1>2, <1>8, <2>1
  <2>2. CASE e # d
    <3>1. q = errors[e] /\ Blames(e, q) /\ Agrees(e, q)
      BY <1>2, <1>8, <2>2 DEF OutcomeInv
    <3>2. Blames(e, q)'
      BY <3>1, BlamesKept
    <3>3. origins'[e] = origins[e]
      BY <2>2
    <3> QED
      BY <3>1, <3>2, <3>3 DEF Agrees
  <2> QED
    BY <2>1, <2>2
<1>9. \A e \in Decls : Blames(e, errors[e])' /\ Agrees(e, errors[e])'
  BY <1>8
<1> QED
  BY <1>4, <1>5, <1>6, <1>7, <1>9 DEF OutcomeInv

\* Declarations whose reads have values get values.
LEMMA ValuesAdded ==
    ASSUME EvaluatorType, OutcomeInv, Fixed, frame' # "group", errors' = errors, origins' = origins,
           NEW V \in SUBSET Decls, values' = values \cup V,
           \A d \in Decls : Agrees(d, errors[d]),
           \A d \in V : /\ errors[d] = None /\ d \notin todo
                        /\ reads[d] \subseteq values \cup V /\ UnitOf(d) \cap todo = {}
    PROVE  /\ EvaluatorType' /\ OutcomeInv'
           /\ \A e \in V : Handled(e)'
           /\ \A e \in Decls : Handled(e) => Handled(e)'
<1>1. Reason' = Reason
  BY DEF Reason
<1>2. EvaluatorType'
  BY <1>1 DEF EvaluatorType, Fixed
<1>3. /\ \A e \in V : Handled(e)'
      /\ \A e \in Decls : Handled(e) => Handled(e)'
  BY DEF Handled
<1>4. \A e \in supplied' : Handled(e)'
  BY <1>3 DEF OutcomeInv, Fixed, EvaluatorType
<1>5. ASSUME NEW e \in values \cup V PROVE Complete(e)'
  <2>1. UnitOf(e)' = UnitOf(e)
    BY FixedKeeps
  <2>2. CASE e \in values
    BY <2>1, <2>2 DEF OutcomeInv, Complete, Fixed
  <2>3. CASE e \in V
    <3>1. origins[e] = "none"
      BY <2>3 DEF Agrees
    <3> QED
      BY <2>1, <2>3, <3>1 DEF Complete, Fixed
  <2> QED
    BY <2>2, <2>3
<1>6. \A e, q : Blames(e, q) => Blames(e, q)'
  BY BlamesKept
<1>7. \A e \in Decls : Blames(e, errors[e])' /\ Agrees(e, errors[e])'
  <2> SUFFICES ASSUME NEW e \in Decls, NEW q, q = errors[e]
               PROVE  Blames(e, q)' /\ Agrees(e, q)'
    OBVIOUS
  <2>1. Blames(e, q) /\ Agrees(e, q)
    BY DEF OutcomeInv
  <2> QED
    BY <1>6, <2>1 DEF Agrees
<1> QED
  BY <1>2, <1>3, <1>4, <1>5, <1>7 DEF OutcomeInv

-----------------------------------------------------------------------------
(* Declarations that run alone.                                             *)

\* run_step: the reason of a declaration that is not evaluated, and what is known of
\* one that is.
LEMMA WithoutValueIs ==
    ASSUME ReadsType, Checked, EvaluatorType, OutcomeInv, NEW d \in Decls, d \notin supplied,
           NEW r, r = WithoutValue(d)
    PROVE  /\ r \in Reason /\ r.kind # "failed" /\ Blames(d, r)
           /\ r = None => /\ d \notin todo /\ UnitOf(d) \cap todo = {}
                          /\ \A e \in reads[d] \ UnitOf(d) : errors[e] = None
<1>1. CASE d \in todo
  <2>1. r = Todo(d)
    BY <1>1 DEF WithoutValue
  <2> QED
    BY <1>1, <2>1, OwnBlames, ReasonsAre
<1>2. CASE d \notin todo
  <2>1. PICK unfinished, deps, reasons :
          /\ unfinished = UnitOf(d) \cap todo /\ deps = Unavailable(d) \cup unfinished
          /\ reasons = [e \in Decls |-> IF e \in unfinished THEN Todo(e) ELSE errors[e]]
    OBVIOUS
  <2>2. r = BlockedBy(deps, reasons)
    BY <1>2, <2>1 DEF WithoutValue
  <2>3. errors \in [Decls -> Reason] /\ reads[d] \in SUBSET Decls /\ todo \in SUBSET Decls
    BY DEF EvaluatorType, ReadsType
  <2>4. Unavailable(d) \subseteq reads[d]
    BY DEF Unavailable
  <2>5. deps \in SUBSET Decls /\ deps \subseteq Needs(d)
    BY <2>1, <2>3, <2>4 DEF Needs
  <2>6. reasons \in [Decls -> Reason]
    BY <2>1, <2>3, ReasonsAre
  <2>7. \A e \in deps : Blames(e, reasons[e])
    <3> SUFFICES ASSUME NEW e \in deps, NEW q, q = reasons[e] PROVE Blames(e, q)
      OBVIOUS
    <3>1. CASE e \in unfinished
      BY <2>1, <2>5, <3>1, OwnBlames
    <3>2. CASE e \notin unfinished
      BY <2>1, <2>5, <3>2 DEF OutcomeInv
    <3> QED
      BY <3>1, <3>2
  <2>8. Blames(d, r)
    BY <2>2, <2>5, <2>6, <2>7, BlockedBlames
  <2>9. TellsOf(r, deps, reasons)
    BY <2>2, <2>5, <2>6, BlockedByIs
  <2>10. r \in Reason /\ r.kind # "failed" /\ (r = None => \A e \in deps : ~Told(reasons[e]))
    BY <2>9 DEF TellsOf
  <2>11. ASSUME r = None PROVE unfinished = {} /\ Unavailable(d) = {}
    <3>1. \A e \in unfinished : Told(reasons[e])
      BY <2>1, <2>3, ReasonsAre
    <3>2. \A e \in Unavailable(d) \ unfinished : Told(reasons[e])
      <4> SUFFICES ASSUME NEW e \in Unavailable(d) \ unfinished, NEW q, q = reasons[e]
                   PROVE  Told(q)
        OBVIOUS
      <4>1. e \in Decls /\ q = errors[e] /\ q # None
        BY <2>1, <2>3, <2>4 DEF Unavailable
      <4> QED
        BY <4>1 DEF OutcomeInv, Blames
    <3> QED
      BY <2>1, <2>10, <2>11, <3>1, <3>2
  <2> QED
    BY <1>2, <2>1, <2>8, <2>10, <2>11 DEF Unavailable
<1> QED
  BY <1>1, <1>2

-----------------------------------------------------------------------------
(* Declarations that run alone, step by step.                               *)

\* A frame starts with a schedule.
LEMMA ScheduledIs ==
    ASSUME ScheduleInv, stage = "scheduled"
    PROVE  Scheduled
  BY DEF ScheduleInv, Scheduled

\* The declaration whose turn it is.
LEMMA HeadAlone ==
    ASSUME ReadsType, Checked, RunInv, run # <<>>, Len(Head(run)) = 1
    PROVE  LET d == Head(run)[1] IN
           /\ d \in Decls /\ Head(run) = <<d>> /\ \A a : Contains(Head(run), a) <=> a = d
           /\ UnitOf(d) = {d} \/ UnitOf(d) \cap todo # {}
           /\ \A b \in reads[d] \ UnitOf(d) : Handled(b)
<1>1. PICK q : q = Head(run)
  OBVIOUS
<1>2. Entry(q, todo) /\ \A a : Contains(q, a) => \A b \in reads[a] \ UnitOf(a) : Handled(b)
  BY <1>1, HeadEntry
<1>3. ~\E p \in ToSet(plans) : q = p.members /\ Members(p) \cap todo = {}
  <2> SUFFICES ASSUME NEW p \in ToSet(plans), q = p.members PROVE FALSE
    OBVIOUS
  <2>1. Len(q) \in Nat /\ Len(q) > 1
    BY GroupSize, PlannedIs DEF Checked
  <2>2. Len(q) = 1
    BY <1>1
  <2> QED
    BY <2>1, <2>2
<1>4. PICK d \in Decls : q = <<d>> /\ (UnitOf(d) = {d} \/ UnitOf(d) \cap todo # {})
  BY <1>2, <1>3 DEF Entry
<1>5. <<d>>[1] = d /\ \A x : Contains(<<d>>, x) <=> x = d
  BY SingleElement
<1>6. q[1] = d /\ \A x : Contains(q, x) <=> x = d
  BY <1>4, <1>5
<1> QED
  BY <1>1, <1>2, <1>4, <1>6

\* What a step of the frame knows of the schedule.
Running ==
    /\ Scheduled /\ EvaluatorType /\ RunInv /\ OutcomeInv
    /\ stage' = stage /\ Fixed

\* A step of the evaluator leaves the schedule alone.
LEMMA RunsOn ==
    ASSUME ScheduleInv, FrameInv, frame \in {"run", "group", "spread"},
           UNCHANGED scheduleVars, supplied' = supplied, todo' = todo
    PROVE  Running
<1>1. stage = "scheduled" /\ EvaluatorType /\ RunInv /\ OutcomeInv
  BY DEF FrameInv
<1>2. Scheduled
  BY <1>1, ScheduledIs
<1> QED
  BY <1>1, <1>2 DEF Running, Fixed, scheduleVars

\* Nothing is asked of a frame that was given up.
LEMMA AbortKeeps ==
    ASSUME frame' = "aborted", stage' = "scheduled"
    PROVE  FrameInv'
  BY DEF FrameInv

\* The next entry, with everything kept of the others.
LEMMA NextEntry ==
    ASSUME Running, run # <<>>, run' = Tail(run), frame' = "run", stage = "scheduled",
           EvaluatorType', OutcomeInv',
           \A e \in Decls : Handled(e) => Handled(e)', \A e : Contains(Head(run), e) => Handled(e)'
    PROVE  FrameInv'
<1>1. RunInv'
  BY RunMovesOn DEF Running, Scheduled
<1> QED
  BY <1>1 DEF FrameInv, Running

\* run_step records a reason and goes on.
LEMMA RecordedKeeps ==
    ASSUME Running, run # <<>>, frame = "run", NEW d \in Decls, d \notin values,
           \A a : Contains(Head(run), a) <=> a = d,
           NEW r \in Reason, r # None, Recorded(d, r),
           origins' \in [Decls -> {"none", "failed", "incomplete"}],
           \A e \in Decls : e # d => origins'[e] = origins[e],
           origins[d] # "none" => origins'[d] = origins[d],
           Blames(d, r)', Agrees(d, r)'
    PROVE  FrameInv'
<1>1. /\ errors' = [errors EXCEPT ![d] = r] /\ values' = values
      /\ frame' = "run" /\ run' = Tail(run)
  BY DEF Recorded
<1>2. stage = "scheduled" /\ EvaluatorType /\ OutcomeInv /\ Fixed
  BY DEF Running, Scheduled
<1>3. frame # "group" /\ frame' # "group"
  BY <1>1
<1>4. EvaluatorType' /\ OutcomeInv' /\ Handled(d)' /\ \A e \in Decls : Handled(e) => Handled(e)'
  BY <1>1, <1>2, <1>3, ErrorRecorded
<1>5. \A e : Contains(Head(run), e) => Handled(e)'
  BY <1>4
<1> QED
  BY <1>1, <1>2, <1>4, <1>5, NextEntry

\* run_step, whichever way it goes.
LEMMA RunStepKeeps ==
    ASSUME ScheduleInv, FrameInv, RunStep
    PROVE  FrameInv'
<1>1. /\ frame = "run" /\ run # <<>> /\ Len(Head(run)) = 1 /\ UNCHANGED scheduleVars
      /\ stage' = stage
  BY DEF RunStep, scheduleVars
<1>2. PICK d : d = Head(run)[1]
  OBVIOUS
<1>3. \/ /\ d \in values \/ errors[d] # None
         /\ run' = Tail(run)
         /\ UNCHANGED <<frame, policy, supplied, todo, values, errors, groupVars, origins>>
      \/ /\ ~(d \in values \/ errors[d] # None) /\ WithoutValue(d) # None
         /\ Recorded(d, WithoutValue(d)) /\ UNCHANGED origins
      \/ /\ ~(d \in values \/ errors[d] # None) /\ WithoutValue(d) = None
         /\ \E outcome \in Outcomes(d) :
              /\ Note(d, outcome)
              /\ \/ /\ outcome = "value"
                    /\ values' = values \cup {d}
                    /\ run' = Tail(run)
                    /\ UNCHANGED <<frame, policy, supplied, todo, errors, groupVars>>
                 \/ outcome = "incomplete" /\ Recorded(d, Incomplete)
                 \/ outcome = "failed" /\ policy = "contain" /\ Recorded(d, EvalFailed)
                 \/ outcome = "failed" /\ policy = "propagate" /\ Abort
  BY <1>2 DEF RunStep
<1>4. supplied' = supplied /\ todo' = todo
  BY <1>3 DEF Recorded, Abort
<1>5. Running
  BY <1>1, <1>4, RunsOn
<1>6. /\ d \in Decls /\ \A a : Contains(Head(run), a) <=> a = d
      /\ UnitOf(d) = {d} \/ UnitOf(d) \cap todo # {}
      /\ \A b \in reads[d] \ UnitOf(d) : Handled(b)
  BY <1>1, <1>2, <1>5, HeadAlone DEF Running, Scheduled
<1>7. /\ stage = "scheduled" /\ EvaluatorType /\ OutcomeInv /\ Fixed
      /\ values \in SUBSET Decls /\ errors \in [Decls -> Reason]
      /\ origins \in [Decls -> {"none", "failed", "incomplete"}]
  BY <1>5 DEF Running, Scheduled, EvaluatorType
<1>8. CASE /\ d \in values \/ errors[d] # None
           /\ run' = Tail(run)
           /\ UNCHANGED <<frame, policy, supplied, todo, values, errors, groupVars, origins>>
  <2>1. frame' = "run" /\ values' = values /\ errors' = errors /\ origins' = origins
    BY <1>1, <1>8
  <2>2. \A e \in Decls : Agrees(e, errors[e])
    BY <1>1, <1>7 DEF OutcomeInv
  <2>3. EvaluatorType' /\ OutcomeInv' /\ \A e \in Decls : Handled(e) => Handled(e)'
    <3>1. PICK V : V = {}
      OBVIOUS
    <3>2. /\ V \in SUBSET Decls /\ values' = values \cup V /\ frame' # "group"
          /\ \A e \in V : /\ errors[e] = None /\ e \notin todo
                          /\ reads[e] \subseteq values \cup V /\ UnitOf(e) \cap todo = {}
      BY <1>1, <2>1, <3>1
    <3> QED
      BY <1>7, <2>1, <2>2, <3>2, ValuesAdded
  <2>4. \A e : Contains(Head(run), e) => Handled(e)'
    BY <1>6, <1>8, <2>3 DEF Handled
  <2> QED
    BY <1>1, <1>5, <1>7, <1>8, <2>1, <2>3, <2>4, NextEntry
<1>9. ASSUME d \notin values, errors[d] = None PROVE d \notin supplied /\ origins[d] = "none"
  <2>1. d \notin supplied
    BY <1>7, <1>9 DEF OutcomeInv, Handled
  <2>2. Agrees(d, errors[d])
    BY <1>1, <1>6, <1>7 DEF OutcomeInv
  <2> QED
    BY <1>9, <2>1, <2>2 DEF Agrees
<1>10. CASE /\ ~(d \in values \/ errors[d] # None) /\ WithoutValue(d) # None
            /\ Recorded(d, WithoutValue(d)) /\ UNCHANGED origins
  <2>1. PICK r : r = WithoutValue(d)
    OBVIOUS
  <2>2. r \in Reason /\ r.kind # "failed" /\ Blames(d, r) /\ r # None
    BY <1>5, <1>6, <1>9, <1>10, <2>1, WithoutValueIs DEF Running, Scheduled
  <2>3. Blames(d, r)' /\ Agrees(d, r)'
    <3>1. Blames(d, r)'
      BY <1>7, <1>10, <2>2, BlamesKept
    <3>2. origins'[d] = "none"
      BY <1>9, <1>10
    <3> QED
      BY <2>2, <3>1, <3>2 DEF Agrees
  <2>4. /\ d \in Decls /\ d \notin values /\ Recorded(d, r)
        /\ origins' = origins
    BY <1>6, <1>10, <2>1
  <2> QED
    BY <1>1, <1>5, <1>6, <1>7, <2>2, <2>3, <2>4, RecordedKeeps
<1>11. CASE /\ ~(d \in values \/ errors[d] # None) /\ WithoutValue(d) = None
            /\ \E outcome \in Outcomes(d) :
                /\ Note(d, outcome)
                /\ \/ /\ outcome = "value"
                      /\ values' = values \cup {d}
                      /\ run' = Tail(run)
                      /\ UNCHANGED <<frame, policy, supplied, todo, errors, groupVars>>
                   \/ outcome = "incomplete" /\ Recorded(d, Incomplete)
                   \/ outcome = "failed" /\ policy = "contain" /\ Recorded(d, EvalFailed)
                   \/ outcome = "failed" /\ policy = "propagate" /\ Abort
  <2>1. PICK outcome \in Outcomes(d) :
          /\ Note(d, outcome)
          /\ \/ /\ outcome = "value"
                /\ values' = values \cup {d}
                /\ run' = Tail(run)
                /\ UNCHANGED <<frame, policy, supplied, todo, errors, groupVars>>
             \/ outcome = "incomplete" /\ Recorded(d, Incomplete)
             \/ outcome = "failed" /\ policy = "contain" /\ Recorded(d, EvalFailed)
             \/ outcome = "failed" /\ policy = "propagate" /\ Abort
    BY <1>11
  <2>2. d \notin values /\ errors[d] = None /\ d \notin supplied /\ origins[d] = "none"
    BY <1>9, <1>11
  <2>3. /\ origins'[d] = IF outcome # "value" THEN outcome ELSE "none"
        /\ \A e \in Decls : e # d => origins'[e] = origins[e]
        /\ origins' \in [Decls -> {"none", "failed", "incomplete"}]
    <3>1. outcome \in {"value", "failed", "incomplete"}
      BY <2>1 DEF Outcomes
    <3> QED
      BY <1>6, <1>7, <2>1, <2>2, <3>1 DEF Note
  <2>4. CASE outcome = "value"
    <3>1. /\ values' = values \cup {d} /\ run' = Tail(run)
          /\ frame' = "run" /\ errors' = errors
      BY <1>1, <2>1, <2>4 DEF Recorded
    <3>2. origins' = origins
      BY <1>6, <1>7, <2>2, <2>3, <2>4
    <3>3. /\ d \notin todo /\ UnitOf(d) \cap todo = {}
          /\ \A e \in reads[d] \ UnitOf(d) : errors[e] = None
      BY <1>5, <1>6, <1>11, <2>2, WithoutValueIs DEF Running, Scheduled
    <3>4. reads[d] \subseteq values
      <4>1. UnitOf(d) = {d}
        BY <1>6, <3>3
      <4>2. d \notin reads[d]
        BY <1>5, <1>6, NoSelfRead DEF Running
      <4> QED
        BY <1>6, <3>3, <4>1, <4>2 DEF Handled
    <3>5. \A e \in Decls : Agrees(e, errors[e])
      BY <1>1, <1>7 DEF OutcomeInv
    <3>6. PICK V : V = {d}
      OBVIOUS
    <3>7. /\ V \in SUBSET Decls /\ values' = values \cup V
          /\ \A e \in V : /\ errors[e] = None /\ e \notin todo
                          /\ reads[e] \subseteq values \cup V /\ UnitOf(e) \cap todo = {}
      BY <1>6, <2>2, <3>1, <3>3, <3>4, <3>6
    <3>8. frame' # "group"
      BY <3>1
    <3>9. /\ EvaluatorType' /\ OutcomeInv' /\ \A e \in V : Handled(e)'
          /\ \A e \in Decls : Handled(e) => Handled(e)'
      BY <1>7, <3>1, <3>2, <3>5, <3>7, <3>8, ValuesAdded
    <3>10. \A e : Contains(Head(run), e) => Handled(e)'
      BY <1>6, <3>6, <3>9
    <3> QED
      BY <1>1, <1>5, <1>7, <3>1, <3>9, <3>10, NextEntry
  <2>5. CASE outcome # "value" /\ frame' = "aborted"
    BY <1>1, <1>7, <2>5, AbortKeeps
  <2>6. ASSUME NEW r \in {Incomplete, EvalFailed}, Recorded(d, r),
               r = Incomplete => outcome = "incomplete", r = EvalFailed => outcome = "failed"
        PROVE  FrameInv'
    <3>1. r \in Reason /\ r # None
      BY <2>6, ReasonsAre
    <3>2. d \in Behind(d)'
      BY <1>6, <1>7, FixedKeeps, BehindFacts
    <3>3. Blames(d, r)'
      BY <2>3, <2>6, <3>1, <3>2, ReasonsAre DEF Blames
    <3>4. Agrees(d, r)'
      BY <2>3, <2>6, <3>1, ReasonsAre DEF Agrees
    <3> QED
      BY <1>1, <1>5, <1>6, <2>2, <2>3, <2>6, <3>1, <3>3, <3>4, RecordedKeeps
  <2>7. Incomplete # EvalFailed
    BY ReasonsAre
  <2> QED
    BY <2>1, <2>4, <2>5, <2>6, <2>7 DEF Abort
<1> QED
  BY <1>3, <1>8, <1>10, <1>11

\* The list stays right while nothing that was handled is forgotten.
LEMMA RunKept ==
    ASSUME ReadsType, RunInv, Fixed, run' = run, \A e \in Decls : Handled(e) => Handled(e)'
    PROVE  RunInv'
<1>1. PICK r, S : r = run /\ S = Seq(Decls)
  OBVIOUS
<1>2. /\ r \in Seq(S)
      /\ \A i \in 1 .. Len(r) : Entry(r[i], todo)
      /\ \A d \in Decls : Handled(d) \/ \E i \in 1 .. Len(r) : Contains(r[i], d)
      /\ \A i \in 1 .. Len(r) : \A a : Contains(r[i], a) => \A b \in reads[a] \ UnitOf(a) :
           Handled(b) \/ \E j \in 1 .. i - 1 : Contains(r[j], b)
  BY <1>1 DEF RunInv
<1>3. \A d \in Decls : Handled(d)' \/ \E i \in 1 .. Len(r) : Contains(r[i], d)
  BY <1>2
<1>4. ASSUME NEW i \in 1 .. Len(r), NEW a, Contains(r[i], a), NEW b \in reads[a] \ UnitOf(a)
      PROVE  Handled(b)' \/ \E j \in 1 .. i - 1 : Contains(r[j], b)
  <2>1. r[i] \in S
    BY <1>2
  <2>2. a \in Decls
    BY <1>1, <1>4, <2>1 DEF Contains
  <2>3. b \in Decls
    BY <1>4, <2>2 DEF ReadsType
  <2> QED
    BY <1>2, <1>4, <2>3
<1>5. /\ \A d : UnitOf(d)' = UnitOf(d)
      /\ \A s : Entry(s, todo)' <=> Entry(s, todo)
      /\ reads' = reads /\ run' = r
  <2>1. \A d : UnitOf(d)' = UnitOf(d)
    BY FixedKeeps
  <2>2. \A s : Entry(s, todo)' <=> Entry(s, todo)
    BY <2>1 DEF Entry, Members, Fixed
  <2> QED
    BY <1>1, <2>1, <2>2 DEF Fixed
<1> QED
  BY <1>1, <1>2, <1>3, <1>4, <1>5 DEF RunInv

\* The group that runs stays the same.
LEMMA GroupKept ==
    ASSUME run' = run, plans' = plans
    PROVE  Group' = Group /\ GroupPlan' = GroupPlan
<1>1. Group' = Group
  BY DEF Group
<1> QED
  BY <1>1 DEF GroupPlan, Members

\* What a member reads outside its group.
LEMMA UnavailableIs ==
    ASSUME ReadsType, EvaluatorType, OutcomeInv, NEW m \in Decls, m \notin supplied,
           NEW r, r = BlockedBy(Unavailable(m), errors)
    PROVE  /\ r \in Reason /\ r.kind # "failed" /\ Blames(m, r) /\ (r # None => r.kind = "blocked")
           /\ r = None => \A e \in reads[m] \ UnitOf(m) : errors[e] = None
<1>1. PICK deps : deps = Unavailable(m)
  OBVIOUS
<1>2. errors \in [Decls -> Reason] /\ reads[m] \in SUBSET Decls
  BY DEF EvaluatorType, ReadsType
<1>3. deps \in SUBSET Decls /\ deps \subseteq Needs(m)
  BY <1>1, <1>2 DEF Unavailable, Needs
<1>4. \A e \in deps : Blames(e, errors[e])
  BY <1>3 DEF OutcomeInv
<1>5. r = BlockedBy(deps, errors)
  BY <1>1
<1>6. Blames(m, r) /\ TellsOf(r, deps, errors)
  BY <1>2, <1>3, <1>4, <1>5, BlockedBlames, BlockedByIs
<1>7. /\ r \in Reason /\ r.kind # "failed" /\ (r # None => r.kind = "blocked")
      /\ r = None => \A e \in deps : ~Told(errors[e])
  BY <1>6 DEF TellsOf
<1>8. ASSUME r = None, NEW e \in reads[m] \ UnitOf(m) PROVE errors[e] = None
  <2> SUFFICES ASSUME errors[e] # None PROVE FALSE
    OBVIOUS
  <2>1. e \in deps
    BY <1>1, <1>8 DEF Unavailable
  <2> QED
    BY <1>4, <1>7, <1>8, <2>1 DEF Blames
<1> QED
  BY <1>6, <1>7, <1>8

\* A group starts: supplied members are filled in, unavailable inputs are problems.
LEMMA EnterGroupKeeps ==
    ASSUME ScheduleInv, FrameInv, EnterGroup
    PROVE  FrameInv'
<1>1. /\ frame = "run" /\ run # <<>> /\ Len(Head(run)) > 1 /\ frame' = "group" /\ element' = 0
      /\ UNCHANGED scheduleVars /\ supplied' = supplied /\ todo' = todo /\ run' = run
      /\ values' = values /\ errors' = errors /\ origins' = origins
  BY DEF EnterGroup
<1>2. Running
  BY <1>1, RunsOn
<1>3. /\ Scheduled /\ ReadsType /\ Checked /\ EvaluatorType /\ RunInv /\ OutcomeInv /\ Fixed
      /\ stage' = "scheduled" /\ plans' = plans /\ reads' = reads
  BY <1>2 DEF Running, Scheduled, Fixed
<1>4. /\ Group \in SUBSET Decls /\ \A m : m \in Group <=> Contains(Head(run), m)
      /\ Len(Head(run)) \in Nat \ {0} /\ Group' = Group /\ GroupPlan' = GroupPlan
  BY <1>1, <1>3, GroupIs, GroupKept
<1>5. EvaluatorType'
  BY <1>1, <1>3 DEF EvaluatorType, Reason
<1>6. RunInv'
  <2>1. \A e \in Decls : Handled(e) => Handled(e)'
    BY <1>1 DEF Handled
  <2> QED
    BY <1>1, <1>3, <2>1, RunKept
<1>7. \A d \in Decls : Agrees(d, errors[d]) /\ Blames(d, errors[d])
  BY <1>1, <1>3 DEF OutcomeInv
<1>8. \A d, r : Blames(d, r) => Blames(d, r)'
  BY <1>1, <1>3, BlamesKept
<1>9. OutcomeInv'
  <2>1. \A d \in supplied' : Handled(d)'
    BY <1>1, <1>3 DEF OutcomeInv, Handled
  <2>2. \A d \in values' : Complete(d)'
    <3> SUFFICES ASSUME NEW d \in values PROVE Complete(d)'
      BY <1>1
    <3>1. Complete(d) /\ UnitOf(d)' = UnitOf(d)
      BY <1>3, FixedKeeps DEF OutcomeInv
    <3> QED
      BY <1>1, <1>3, <3>1 DEF Complete
  <2>3. \A d \in Decls : Blames(d, errors[d])' /\ Agrees(d, errors[d])'
    <3> SUFFICES ASSUME NEW d \in Decls, NEW q, q = errors[d]
                 PROVE  Blames(d, q)' /\ Agrees(d, q)'
      BY <1>1
    <3> QED
      BY <1>1, <1>7, <1>8 DEF Agrees
  <2> QED
    BY <2>1, <2>2, <2>3 DEF OutcomeInv
<1>10. /\ slots' = [m \in Group |->
                     [k \in 1 .. Steps |-> IF Supplied(m) THEN "computed" ELSE "pending"]]
       /\ problems' = [m \in Group |->
                        IF Supplied(m) THEN None
                        ELSE IF errors[m] # None THEN errors[m]
                        ELSE BlockedBy(Unavailable(m), errors)]
  BY DEF EnterGroup
<1>11. ASSUME NEW m \in Group
       PROVE  /\ m \in values => problems'[m] = None
              /\ problems'[m] \in Reason /\ Blames(m, problems'[m])
              /\ errors[m] = None =>
                   /\ Agrees(m, problems'[m])
                   /\ problems'[m] = None \/ problems'[m].kind \in {"failed", "blocked"}
              /\ m \notin values /\ errors[m] = None /\ problems'[m] = None =>
                   reads[m] \ UnitOf(m) \subseteq values
  <2>1. PICK p : p = problems'[m]
    OBVIOUS
  <2>2. p = IF m \in values THEN None
            ELSE IF errors[m] # None THEN errors[m] ELSE BlockedBy(Unavailable(m), errors)
    BY <1>10, <2>1 DEF Supplied
  <2>3. m \in Decls /\ errors \in [Decls -> Reason]
    BY <1>3, <1>4 DEF EvaluatorType
  <2>4. CASE m \in values
    <3>1. p = None /\ errors[m] = None
      BY <1>3, <2>2, <2>4 DEF OutcomeInv, Complete
    <3>2. Agrees(m, p)
      BY <1>7, <2>3, <3>1
    <3> QED
      BY <2>1, <2>3, <2>4, <3>1, <3>2, OwnBlames, ReasonsAre
  <2>5. CASE m \notin values /\ errors[m] # None
    <3>1. p = errors[m]
      BY <2>2, <2>5
    <3> QED
      BY <1>7, <2>1, <2>3, <2>5, <3>1
  <2>6. CASE m \notin values /\ errors[m] = None
    <3>1. p = BlockedBy(Unavailable(m), errors)
      BY <2>2, <2>6
    <3>2. m \notin supplied
      BY <1>3, <2>6 DEF OutcomeInv, Handled
    <3>3. /\ p \in Reason /\ p.kind # "failed" /\ Blames(m, p) /\ (p # None => p.kind = "blocked")
          /\ p = None => \A e \in reads[m] \ UnitOf(m) : errors[e] = None
      BY <1>3, <2>3, <3>1, <3>2, UnavailableIs
    <3>4. Agrees(m, p)
      <4>1. origins[m] = "none"
        BY <1>7, <2>3, <2>6 DEF Agrees
      <4> QED
        BY <3>3, <4>1 DEF Agrees
    <3>5. \A e \in reads[m] \ UnitOf(m) : Handled(e)
      BY <1>1, <1>3, <1>4, HeadEntry
    <3>6. p = None => reads[m] \ UnitOf(m) \subseteq values
      BY <3>3, <3>5 DEF Handled
    <3> QED
      BY <2>1, <2>6, <3>3, <3>4, <3>6
  <2> QED
    BY <2>4, <2>5, <2>6
<1>12. ASSUME NEW m \in Group PROVE MemberInv(m)'
  <2>1. m \in Decls /\ UnitOf(m)' = UnitOf(m)
    BY <1>3, <1>4, FixedKeeps
  <2>2. PICK p : p = problems'[m]
    OBVIOUS
  <2>3. Blames(m, p)' /\ (errors[m] = None => Agrees(m, p)')
    <3>1. Blames(m, p) /\ (errors[m] = None => Agrees(m, p))
      BY <1>11, <2>2
    <3> QED
      BY <1>1, <1>8, <2>1, <3>1 DEF Agrees
  <2>4. Blames(m, problems[m])' /\ (errors'[m] = None => Agrees(m, problems[m])')
    BY <1>1, <2>2, <2>3
  <2> QED
    BY <1>1, <1>3, <1>11, <2>1, <2>4 DEF MemberInv, Troubled
<1>13. /\ slots' \in [Group -> [1 .. Steps -> {"pending", "computed"} \cup Bad]]
       /\ problems' \in [Group -> Reason]
  <2>1. \A m \in Group : [k \in 1 .. Steps |-> IF Supplied(m) THEN "computed" ELSE "pending"]
                           \in [1 .. Steps -> {"pending", "computed"} \cup Bad]
    OBVIOUS
  <2> QED
    BY <1>10, <1>11, <2>1
<1>14. GroupType'
  <2>1. Reason' = Reason /\ Bad' = Bad
    BY DEF Reason, Bad
  <2>2. 0 <= Steps * Len(Head(run))
    <3>1. PICK L : L = Len(Head(run))
      OBVIOUS
    <3>2. L \in Nat /\ Steps \in Nat
      BY <1>4, <3>1, FrameAssumption
    <3>3. 0 <= Steps * L
      BY <3>2
    <3> QED
      BY <3>1, <3>3
  <2> QED
    BY <1>1, <1>4, <1>13, <2>1, <2>2 DEF GroupType
<1>15. ASSUME NEW i \in 1 .. Len(Head(run)), NEW k \in 1 .. Steps, NEW m \in Group
       PROVE  ElementInv(m, i, k)'
  <2>1. slots'[m][k] = IF m \in values THEN "computed" ELSE "pending"
    BY <1>10 DEF Supplied
  <2>2. slots'[m][1] = IF m \in values THEN "computed" ELSE "pending"
    <3>1. 1 \in 1 .. Steps
      BY FrameAssumption
    <3> QED
      BY <1>10, <3>1 DEF Supplied
  <2>3. ~Looked(i, k)'
    <3>1. PICK L : L = Len(Head(run))
      OBVIOUS
    <3>2. L \in Nat /\ k - 1 \in Nat /\ i \in Nat \ {0}
      BY <1>4, <3>1, FrameAssumption
    <3>3. ~((k - 1) * L + i <= 0)
      BY <3>2
    <3> QED
      BY <1>1, <3>1, <3>3 DEF Looked
  <2>4. slots'[m][k] \notin Bad
    BY <2>1 DEF Bad
  <2> QED
    BY <1>1, <2>1, <2>2, <2>3, <2>4 DEF ElementInv, Bad
<1>16. GroupInv'
  BY <1>1, <1>4, <1>12, <1>14, <1>15 DEF GroupInv
<1> QED
  BY <1>1, <1>3, <1>5, <1>6, <1>9, <1>16 DEF FrameInv

-----------------------------------------------------------------------------
(* The elements of a group.                                                 *)

\* Where number x is among the elements of L members over S steps: x = q * L + r.
Cell(L, S, x, q, r) ==
    /\ r + 1 \in 1 .. L /\ q + 1 \in 1 .. S
    /\ ~(q * L + (r + 1) <= x)
    /\ \A j \in 1 .. r : q * L + j <= x
    /\ q >= 1 => \A j \in 1 .. L : (q - 1) * L + j <= x
    /\ \A j \in 1 .. L, k \in 1 .. S :
         (k - 1) * L + j <= x + 1 <=> (k - 1) * L + j <= x \/ (j = r + 1 /\ k = q + 1)

\* Numbers and elements correspond.
LEMMA CellIs ==
    ASSUME NEW L \in Nat \ {0}, NEW S \in Nat, NEW x \in Nat, x < S * L,
           NEW q, q = x \div L, NEW r, r = x % L
    PROVE  Cell(L, S, x, q, r)
<1>1. q \in Nat /\ r \in 0 .. L - 1 /\ x = q * L + r
  <2>1. x \div L \in Nat /\ x % L \in 0 .. L - 1 /\ x = L * (x \div L) + (x % L)
    BY ONLY Quotient, x \in Nat, L \in Nat \ {0}
  <2>2. q \in Nat /\ r \in 0 .. L - 1 /\ x = L * q + r
    BY <2>1
  <2>3. L * q = q * L
    BY <2>2
  <2> QED
    BY <2>2, <2>3
<1>2. PICK a \in Nat : a = q * L
  BY <1>1
<1>3. q < S
  <2> SUFFICES ASSUME S <= q PROVE FALSE
    BY <1>1
  <2>1. PICK d \in Nat : q = S + d
    BY <1>1
  <2>2. q * L = S * L + d * L
    BY <2>1
  <2>3. d * L \in Nat
    OBVIOUS
  <2> QED
    BY <1>1, <2>2, <2>3
<1>4. ASSUME q >= 1, NEW j \in 1 .. L PROVE (q - 1) * L + j <= x
  <2>1. PICK d \in Nat : q = d + 1
    <3>1. q - 1 \in Nat /\ q = (q - 1) + 1
      BY ONLY <1>1, <1>4
    <3> QED
      BY <3>1
  <2>2. q * L = d * L + L /\ q - 1 = d
    BY <2>1
  <2>3. d * L \in Nat
    OBVIOUS
  <2> QED
    BY <1>1, <2>2, <2>3
<1>5. ASSUME NEW j \in 1 .. L, NEW k \in 1 .. S, (k - 1) * L + j = x + 1
      PROVE  j = r + 1 /\ k = q + 1
  <2>1. PICK p, s : p = k - 1 /\ s = j - 1
    OBVIOUS
  <2>2. p \in Nat /\ s \in 0 .. L - 1
    BY <1>5, <2>1
  <2>3. p * L + s = x
    <3>1. PICK b \in Nat : b = p * L
      BY <2>2
    <3>2. b + j = x + 1
      BY <1>5, <2>1, <3>1
    <3> QED
      BY <1>5, <2>1, <3>1, <3>2
  <2>4. x \div L = p /\ x % L = s
    BY <2>2, <2>3, DivMod
  <2> QED
    BY <1>5, <2>1, <2>4
<1>6. ASSUME NEW j \in 1 .. L, NEW k \in 1 .. S
      PROVE  (k - 1) * L + j <= x + 1 <=> (k - 1) * L + j <= x \/ (j = r + 1 /\ k = q + 1)
  <2>1. PICK b \in Nat : b = (k - 1) * L
    <3>1. k - 1 \in Nat
      OBVIOUS
    <3> QED
      BY <3>1
  <2>2. j = r + 1 /\ k = q + 1 => b + j = x + 1
    <3> SUFFICES ASSUME j = r + 1, k = q + 1 PROVE b + j = x + 1
      OBVIOUS
    <3>1. k - 1 = q
      BY <1>1
    <3>2. b = q * L
      BY <2>1, <3>1
    <3> QED
      BY <1>1, <3>2
  <2>3. b + j = x + 1 => j = r + 1 /\ k = q + 1
    BY <1>5, <2>1
  <2>4. b + j <= x + 1 <=> b + j <= x \/ b + j = x + 1
    BY <2>1
  <2>5. b + j <= x + 1 <=> b + j <= x \/ (j = r + 1 /\ k = q + 1)
    BY <2>2, <2>3, <2>4
  <2> QED
    BY <2>1, <2>5
<1>7. r + 1 \in 1 .. L /\ q + 1 \in 1 .. S
  BY <1>1, <1>3
<1>8. ~(a + (r + 1) <= x) /\ \A j \in 1 .. r : a + j <= x
  BY <1>1, <1>2
<1> QED
  BY <1>2, <1>4, <1>6, <1>7, <1>8 DEF Cell

\* The element whose turn it is, of member m, the i-th, at step k.
Turn(m, i, k) ==
    /\ m \in Group /\ i \in 1 .. Len(Head(run)) /\ k \in 1 .. Steps
    /\ Head(run)[i] = m /\ ~Looked(i, k)
    /\ \A j \in 1 .. i - 1 : Looked(j, k)
    /\ k > 1 => k - 1 \in 1 .. Steps /\ \A j \in 1 .. Len(Head(run)) : Looked(j, k - 1)
    /\ \A j \in 1 .. Len(Head(run)), l \in 1 .. Steps :
         (l - 1) * Len(Head(run)) + j <= element + 1 <=> Looked(j, l) \/ (j = i /\ l = k)

\* The element whose turn it is comes after all earlier ones.
LEMMA TurnIs ==
    ASSUME Running, frame = "group", GroupType, element < Steps * Len(Head(run))
    PROVE  \E i \in 1 .. Len(Head(run)) : Turn(Member, i, Step)
<1>1. PICK h, L : h = Head(run) /\ L = Len(h)
  OBVIOUS
<1>2. /\ h \in Seq(Group) /\ L \in Nat \ {0} /\ element \in Nat /\ Steps \in Nat
      /\ element < Steps * L
  BY <1>1, GroupIs, FrameAssumption DEF Running, GroupType
<1>3. PICK q, r : q = element \div L /\ r = element % L
  OBVIOUS
<1>4. /\ r + 1 \in 1 .. L /\ q + 1 \in 1 .. Steps
      /\ ~(q * L + (r + 1) <= element)
      /\ \A j \in 1 .. r : q * L + j <= element
      /\ q >= 1 => \A j \in 1 .. L : (q - 1) * L + j <= element
      /\ \A j \in 1 .. L, k \in 1 .. Steps :
           (k - 1) * L + j <= element + 1 <=> (k - 1) * L + j <= element \/ (j = r + 1 /\ k = q + 1)
  <2>1. Cell(L, Steps, element, q, r)
    BY ONLY <1>2, <1>3, CellIs
  <2> QED
    BY <2>1 DEF Cell
<1>5. Member = h[r + 1] /\ Step = q + 1
  BY <1>1, <1>3 DEF Member, Step
<1>6. \A j, k : Looked(j, k) <=> (k - 1) * L + j <= element
  BY <1>1 DEF Looked
<1>7. PICK i, k : i = r + 1 /\ k = q + 1
  OBVIOUS
<1>8. /\ r \in Nat /\ q \in Nat
  <2>1. element \div L \in Nat /\ element % L \in 0 .. L - 1
    BY <1>2, Quotient
  <2> QED
    BY <1>2, <1>3, <2>1
<1>9. i - 1 = r /\ k - 1 = q /\ (k > 1 => q >= 1 /\ q \in 1 .. Steps)
  <2>1. q + 1 \in 1 .. Steps /\ Steps \in Nat
    BY <1>2, <1>4
  <2> QED
    BY ONLY <1>7, <1>8, <2>1
<1>10. h[i] \in Group
  BY <1>1, <1>2, <1>4, <1>7
<1>11. /\ ~Looked(i, k) /\ \A j \in 1 .. i - 1 : Looked(j, k)
  BY <1>4, <1>6, <1>7, <1>9
<1>12. k > 1 => k - 1 \in 1 .. Steps /\ \A j \in 1 .. L : Looked(j, k - 1)
  BY <1>4, <1>6, <1>9
<1>13. \A j \in 1 .. L, l \in 1 .. Steps :
         (l - 1) * L + j <= element + 1 <=> Looked(j, l) \/ (j = i /\ l = k)
  BY <1>4, <1>6, <1>7
<1>14. Turn(h[i], i, k)
  BY <1>1, <1>4, <1>7, <1>10, <1>11, <1>12, <1>13 DEF Turn
<1> QED
  BY <1>1, <1>4, <1>5, <1>7, <1>14

\* What an element of a group reads: an earlier element, of a member that is read or of
\* its own.
Earlier(m, i, k, e) ==
    /\ e[1] \in Group /\ e[2] \in 1 .. Steps
    /\ \E j \in 1 .. Len(Head(run)) :
         /\ Head(run)[j] = e[1]
         /\ (e[2] = k /\ j \in 1 .. i - 1) \/ (k > 1 /\ e[2] = k - 1)
    /\ e[1] = m \/ <<m, e[1]>> \in DOMAIN GroupPlan.form
    /\ e[1] = m => k > 1

\* The plan of a group orders what its elements read.
LEMMA ReadElementsAre ==
    ASSUME Running, GroupType, NEW i \in 1 .. Len(Head(run)), NEW m \in Group, Head(run)[i] = m,
           NEW k \in 1 .. Steps, NEW e \in ReadElements(m, k)
    PROVE  Earlier(m, i, k, e)
<1>1. PICK p, h, L : p = GroupPlan /\ h = Head(run) /\ L = Len(h)
  OBVIOUS
<1>2. PlanFacts(p) /\ p.members = h /\ Members(p) = Group /\ L \in Nat \ {0} /\ h \in Seq(Group)
      /\ \A n : n \in Group <=> Contains(h, n)
  BY <1>1, GroupIs DEF Running, GroupType
<1>3. m \in Group /\ i \in 1 .. L /\ k \in 1 .. Steps /\ h[i] = m /\ Steps \in Nat
  BY <1>1, FrameAssumption
<1>4. ReadsElement(p, m, k, e)
  <2>1. DOMAIN p.form \subseteq Group \X Group /\ k \in Nat /\ e \in ElementDependencies(p, m, k)
    BY <1>1, <1>2, <1>3 DEF PlanFacts, ReadElements
  <2> QED
    BY <1>3, <2>1, ElementDependenciesAre
<1>5. ASSUME NEW n, <<m, n>> \in DOMAIN p.form PROVE n \in Group /\ n \in reads[m] /\ n # m
  <2>1. <<m, n>> \in Group \X Group
    BY <1>2, <1>5 DEF PlanFacts
  <2>2. n \in Group
    BY <2>1
  <2>3. n \in reads[m] /\ m \notin reads[m]
    BY <1>2, <1>3, <1>5, <2>2 DEF PlanFacts
  <2> QED
    BY <2>2, <2>3
<1>6. CASE /\ p.shape[m] = "for" \/ k # 1
           /\ e = <<e[1], k>> /\ <<m, e[1]>> \in DOMAIN p.form
           /\ "same" \in p.form[<<m, e[1]>>]
  <2>1. e[1] \in Group /\ e[1] \in reads[m] /\ e[1] # m /\ e[2] = k
    BY <1>5, <1>6
  <2>2. PICK j \in 1 .. i - 1 : h[j] = e[1]
    BY <1>1, <1>2, <1>3, <1>6, <2>1 DEF PlanFacts
  <2>3. j \in 1 .. L
    BY <1>2, <1>3, <2>2
  <2> QED
    BY <1>1, <1>3, <1>6, <2>1, <2>2, <2>3 DEF Earlier
<1>7. CASE /\ k > 1 /\ e = <<e[1], k - 1>> /\ e[1] \in Group
           /\ e[1] = m \/ <<m, e[1]>> \in DOMAIN p.form
  <2>1. e[2] = k - 1 /\ k - 1 \in 1 .. Steps
    BY <1>3, <1>7
  <2>2. PICK j \in 1 .. L : h[j] = e[1]
    <3>1. Contains(h, e[1])
      BY <1>2, <1>7
    <3> QED
      BY <1>1, <3>1 DEF Contains
  <2> QED
    BY <1>1, <1>7, <2>1, <2>2 DEF Earlier
<1>8. CASE k > 1 /\ e = <<m, k - 1>>
  <2>1. e[1] = m
    BY <1>8
  <2> QED
    BY <1>3, <1>7, <1>8, <2>1
<1> QED
  BY <1>4, <1>5, <1>6, <1>7, <1>8 DEF ReadsElement

\* What the element whose turn it is reads had its turn.
LEMMA LookedAt ==
    ASSUME Running, GroupType, NEW m, NEW i, NEW k, Turn(m, i, k), NEW e \in ReadElements(m, k)
    PROVE  /\ e[1] \in Group /\ e[2] \in 1 .. Steps
           /\ \E j \in 1 .. Len(Head(run)) : Head(run)[j] = e[1] /\ Looked(j, e[2])
<1>1. Earlier(m, i, k, e)
  BY ReadElementsAre DEF Turn
<1> QED
  BY <1>1 DEF Earlier, Turn

\* The element whose turn it was has its status.
LEMMA ElementDone ==
    ASSUME Running, frame = "group", frame' = "group", GroupInv,
           run' = run, values' = values, errors' = errors, element' = element + 1,
           element < Steps * Len(Head(run)),
           NEW m, NEW i, NEW k, Turn(m, i, k), NEW status,
           \/ m \in values /\ slots' = slots
           \/ /\ m \notin values /\ slots' = [slots EXCEPT ![m][k] = status]
              /\ status \in {"computed"} \cup Bad
              /\ status = "computed" /\ GroupPlan.shape[m] = "unfold" =>
                   k = 1 \/ slots[m][1] = "computed"
              /\ status \in Bad =>
                   Troubled(m)' \/ \E e \in ReadElements(m, k) : slots[e[1]][e[2]] \in Bad,
           problems' \in [Group -> Reason],
           \A n \in Group : problems[n] # None => problems'[n] = problems[n],
           \A n \in Group : MemberInv(n)',
           EvaluatorType', OutcomeInv'
    PROVE  FrameInv'
<1>1. GroupType /\ stage' = "scheduled" /\ Fixed /\ ReadsType /\ RunInv /\ Scheduled
  BY DEF Running, GroupInv, Scheduled
<1>2. Group' = Group /\ GroupPlan' = GroupPlan
  BY <1>1, GroupKept DEF Fixed
<1>3. PICK h, L : h = Head(run) /\ L = Len(h)
  OBVIOUS
<1>4. /\ L \in Nat \ {0} /\ IsInjective(h) /\ h \in Seq(Group) /\ element \in Nat /\ Steps \in Nat \ {0}
      /\ slots \in [Group -> [1 .. Steps -> {"pending", "computed"} \cup Bad]]
  BY <1>1, <1>3, GroupIs, FrameAssumption DEF GroupType
<1>5. /\ m \in Group /\ i \in 1 .. L /\ k \in 1 .. Steps /\ h[i] = m /\ ~Looked(i, k)
      /\ \A j \in 1 .. L, l \in 1 .. Steps :
           (l - 1) * L + j <= element + 1 <=> Looked(j, l) \/ (j = i /\ l = k)
  BY <1>3 DEF Turn
<1>6. ASSUME NEW j \in 1 .. L, NEW l \in 1 .. Steps, NEW n \in Group, h[j] = n
      PROVE  ElementInv(n, j, l)
  BY <1>3, <1>6 DEF GroupInv
<1>7. ASSUME NEW n \in Group PROVE \E j \in 1 .. L : h[j] = n
  <2>1. Contains(h, n)
    BY <1>1, <1>3, GroupIs DEF GroupType
  <2> QED
    BY <1>3, <2>1 DEF Contains
<1>8. m \notin values => slots[m][k] = "pending"
  BY <1>5, <1>6 DEF ElementInv
<1>9. /\ slots' \in [Group -> [1 .. Steps -> {"pending", "computed"} \cup Bad]]
      /\ \A n \in Group, l \in 1 .. Steps :
           slots'[n][l] = IF m \notin values /\ n = m /\ l = k THEN status ELSE slots[n][l]
  <2>1. CASE m \in values /\ slots' = slots
    BY <1>4, <2>1
  <2>2. CASE m \notin values /\ slots' = [slots EXCEPT ![m][k] = status] /\ status \in {"computed"} \cup Bad
    BY <1>4, <1>5, <2>2
  <2> QED
    BY <2>1, <2>2
<1>10. \A j \in 1 .. L, l \in 1 .. Steps : Looked(j, l)' <=> Looked(j, l) \/ (j = i /\ l = k)
  <2>1. \A j, l : Looked(j, l)' <=> (l - 1) * L + j <= element + 1
    BY <1>3 DEF Looked
  <2> QED
    BY <1>5, <2>1
<1>11. Bad' = Bad /\ "pending" \notin Bad /\ "computed" \notin Bad
  BY DEF Bad
<1>12. \A n, l : ReadElements(n, l)' = ReadElements(n, l)
  BY <1>2 DEF ReadElements, ElementDependencies
<1>13. \A n \in Group : Troubled(n) => Troubled(n)'
  BY DEF Troubled
<1>14. ASSUME NEW j \in 1 .. L, NEW l \in 1 .. Steps, NEW n \in Group, h[j] = n,
              NEW e \in ReadElements(n, l), slots[e[1]][e[2]] \in Bad
       PROVE  slots'[e[1]][e[2]] \in Bad
  <2>1. e[1] \in Group /\ e[2] \in 1 .. Steps
    <3>1. Earlier(n, j, l, e)
      BY <1>1, <1>3, <1>14, ReadElementsAre
    <3> QED
      BY <3>1 DEF Earlier
  <2> QED
    BY <1>8, <1>9, <1>11, <1>14, <2>1
<1>15. ASSUME NEW j \in 1 .. L, NEW l \in 1 .. Steps, NEW n \in Group, h[j] = n
       PROVE  ElementInv(n, j, l)'
  <2>1. ElementInv(n, j, l)
    BY <1>6, <1>15
  <2>2. n = m => j = i
    BY <1>3, <1>4, <1>5, <1>15 DEF IsInjective
  <2>3. n \in values => slots'[n][l] = "computed"
    BY <1>9, <2>1 DEF ElementInv
  <2>4. n \notin values => (slots'[n][l] = "pending" <=> ~Looked(j, l)')
    <3>1. CASE n = m /\ l = k
      BY <1>9, <1>10, <1>11, <2>2, <3>1
    <3>2. CASE ~(n = m /\ l = k)
      <4>1. ~(j = i /\ l = k)
        BY <1>5, <1>15, <3>2
      <4> QED
        BY <1>9, <1>10, <2>1, <3>2, <4>1 DEF ElementInv
    <3> QED
      BY <3>1, <3>2
  <2>5. slots'[n][l] = "computed" /\ GroupPlan.shape[n] = "unfold" => slots'[n][1] = "computed"
    <3>0. 1 \in 1 .. Steps
      BY <1>4
    <3>1. CASE m \notin values /\ n = m /\ l = k
      BY <1>5, <1>8, <1>9, <1>11, <3>0, <3>1
    <3>2. CASE ~(m \notin values /\ n = m /\ l = k)
      BY <1>8, <1>9, <2>1, <3>0, <3>2 DEF ElementInv
    <3> QED
      BY <3>1, <3>2
  <2>6. slots'[n][l] \in Bad =>
          Troubled(n)' \/ \E e \in ReadElements(n, l) : slots'[e[1]][e[2]] \in Bad
    <3>1. CASE m \notin values /\ n = m /\ l = k
      <4>1. slots'[n][l] = status
        BY <1>5, <1>9, <3>1
      <4> QED
        BY <1>14, <1>15, <3>1, <4>1
    <3>2. CASE ~(m \notin values /\ n = m /\ l = k)
      <4>1. slots'[n][l] = slots[n][l]
        BY <1>9, <3>2
      <4> QED
        BY <1>13, <1>14, <1>15, <2>1, <4>1 DEF ElementInv
    <3> QED
      BY <3>1, <3>2
  <2> QED
    BY <1>2, <1>11, <1>12, <2>3, <2>4, <2>5, <2>6 DEF ElementInv
<1>16. GroupType'
  <2>1. element' \in Nat /\ element' <= Steps * Len(Head(run))
    <3>1. PICK x : x = Steps * Len(Head(run))
      OBVIOUS
    <3>2. x \in Nat
      <4>1. x = Steps * L
        BY <1>3, <3>1
      <4> QED
        BY <1>4, <4>1
    <3> QED
      BY <1>4, <3>1, <3>2
  <2>2. Reason' = Reason
    BY DEF Reason
  <2> QED
    BY <1>1, <1>2, <1>9, <1>11, <2>1, <2>2 DEF GroupType
<1>17. GroupInv'
  BY <1>2, <1>3, <1>15, <1>16 DEF GroupInv
<1>18. RunInv'
  <2>1. \A e \in Decls : Handled(e) => Handled(e)'
    BY DEF Handled
  <2> QED
    BY <1>1, <2>1, RunKept
<1> QED
  BY <1>1, <1>17, <1>18 DEF FrameInv

\* How an evaluation of a member went is noted.
LEMMA OutcomeNoted ==
    ASSUME Running, frame = "group", frame' = "group", GroupInv,
           run' = run, values' = values, errors' = errors, NEW m \in Group,
           \/ origins' = origins /\ problems' = problems
           \/ /\ m \notin values /\ errors[m] = None /\ problems[m] = None
              /\ \E r \in {Incomplete, EvalFailed} :
                   /\ problems' = [problems EXCEPT ![m] = r]
                   /\ origins' = [origins EXCEPT ![m] = IF r = EvalFailed THEN "failed"
                                                        ELSE "incomplete"]
    PROVE  /\ EvaluatorType' /\ OutcomeInv' /\ problems' \in [Group -> Reason]
           /\ \A n \in Group : problems[n] # None => problems'[n] = problems[n]
           /\ \A n \in Group : MemberInv(n)'
<1>1. /\ GroupType /\ EvaluatorType /\ OutcomeInv /\ Fixed /\ Scheduled /\ RunInv
      /\ \A n \in Group : MemberInv(n)
  BY DEF Running, GroupInv
<1>2. /\ Group' = Group /\ Group \in SUBSET Decls /\ problems \in [Group -> Reason]
      /\ origins \in [Decls -> {"none", "failed", "incomplete"}] /\ values \in SUBSET Decls
  <2>1. Group' = Group
    BY <1>1, GroupKept DEF Fixed
  <2> QED
    BY <1>1, <2>1, GroupIs DEF GroupType, EvaluatorType
<1>3. PICK r \in {None, Incomplete, EvalFailed} :
        /\ r = None => origins' = origins /\ problems' = problems
        /\ r # None => /\ m \notin values /\ errors[m] = None /\ problems[m] = None
                       /\ problems' = [problems EXCEPT ![m] = r]
                       /\ origins' = [origins EXCEPT ![m] = IF r = EvalFailed THEN "failed"
                                                            ELSE "incomplete"]
  BY ReasonsAre
<1>4. r # None => origins[m] = "none"
  <2> SUFFICES ASSUME r # None PROVE origins[m] = "none"
    OBVIOUS
  <2>1. errors[m] = None /\ problems[m] = None
    BY <1>3
  <2>2. Agrees(m, problems[m])
    BY <1>1, <2>1 DEF MemberInv
  <2> QED
    BY <2>1, <2>2 DEF Agrees
<1>5. /\ origins' \in [Decls -> {"none", "failed", "incomplete"}]
      /\ \A e \in Decls : e # m \/ r = None => origins'[e] = origins[e]
      /\ \A e \in Decls : origins[e] # "none" => origins'[e] = origins[e]
      /\ r # None => origins'[m] = IF r = EvalFailed THEN "failed" ELSE "incomplete"
  <2>1. CASE r = None
    BY <1>2, <1>3, <2>1
  <2>2. CASE r # None
    BY <1>2, <1>3, <1>4, <2>2
  <2> QED
    BY <2>1, <2>2
<1>6. /\ problems' \in [Group -> Reason]
      /\ \A n \in Group : n # m \/ r = None => problems'[n] = problems[n]
      /\ r # None => problems'[m] = r
      /\ \A n \in Group : problems[n] # None => problems'[n] = problems[n]
  <2>1. CASE r = None
    BY <1>2, <1>3, <2>1
  <2>2. CASE r # None
    BY <1>2, <1>3, <2>2, ReasonsAre
  <2> QED
    BY <2>1, <2>2
<1>7. EvaluatorType'
  BY <1>1, <1>5 DEF EvaluatorType, Fixed, Reason
<1>8. \A d, q : Blames(d, q) => Blames(d, q)'
  BY <1>1, <1>5, BlamesKept
<1>9. OutcomeInv'
  <2>1. \A d \in supplied' : Handled(d)'
    BY <1>1 DEF OutcomeInv, Handled, Fixed
  <2>2. ASSUME NEW d \in values PROVE Complete(d)'
    <3>1. Complete(d) /\ UnitOf(d)' = UnitOf(d) /\ d \in Decls
      BY <1>1, <1>2, FixedKeeps DEF OutcomeInv
    <3>2. origins'[d] = origins[d]
      BY <1>3, <1>5, <2>2, <3>1
    <3> QED
      BY <1>1, <3>1, <3>2 DEF Complete, Fixed
  <2>3. ASSUME NEW d \in Decls, NEW q, q = errors[d]
        PROVE  Blames(d, q)' /\ (Agrees(d, q)' \/ (d \in Group /\ q = None))
    <3>1. Blames(d, q) /\ (Agrees(d, q) \/ (d \in Group /\ q = None))
      BY <1>1, <2>3 DEF OutcomeInv
    <3>2. Blames(d, q)'
      BY <1>8, <3>1
    <3>3. CASE r # None /\ d = m
      BY <1>3, <2>3, <3>2, <3>3
    <3>4. CASE ~(r # None /\ d = m)
      <4>1. origins'[d] = origins[d]
        BY <1>5, <3>4
      <4> QED
        BY <3>1, <3>2, <4>1 DEF Agrees
    <3> QED
      BY <3>3, <3>4
  <2>4. \A d \in Decls : /\ Blames(d, errors[d])'
                         /\ Agrees(d, errors[d])' \/ (d \in Group' /\ errors'[d] = None)
    BY <1>2, <2>3
  <2> QED
    BY <2>1, <2>2, <2>4 DEF OutcomeInv
<1>10. ASSUME NEW n \in Group PROVE MemberInv(n)'
  <2>1. MemberInv(n) /\ n \in Decls /\ UnitOf(n)' = UnitOf(n)
    BY <1>1, <1>2, FixedKeeps
  <2>2. PICK p : p = problems'[n]
    OBVIOUS
  <2>3. CASE r # None /\ n = m
    <3>1. p = r /\ origins'[n] = (IF r = EvalFailed THEN "failed" ELSE "incomplete")
      BY <1>5, <1>6, <2>2, <2>3
    <3>2. n \in Behind(n)'
      BY <1>1, <2>1, FixedKeeps, BehindFacts
    <3>3. Blames(n, p)' /\ Agrees(n, p)' /\ p.kind \in {"failed", "blocked"}
      <4>1. CASE r = EvalFailed
        BY <3>1, <3>2, <4>1, ReasonsAre DEF Blames, Agrees
      <4>2. CASE r = Incomplete
        <5>1. r # EvalFailed
          BY <4>2, ReasonsAre
        <5> QED
          BY <3>1, <3>2, <4>2, <5>1, ReasonsAre DEF Blames, Agrees
      <4> QED
        BY <1>3, <2>3, <4>1, <4>2
    <3>4. Blames(n, problems[n])' /\ Agrees(n, problems[n])'
      BY <2>2, <3>3
    <3>5. n \notin values /\ problems'[n] # None
      BY <1>3, <2>2, <2>3, <3>1
    <3> QED
      BY <2>2, <3>3, <3>4, <3>5 DEF MemberInv, Troubled
  <2>4. CASE ~(r # None /\ n = m)
    <3>1. p = problems[n] /\ origins'[n] = origins[n]
      BY <1>5, <1>6, <2>1, <2>2, <2>4
    <3>2. /\ n \in values => p = None
          /\ Blames(n, p) /\ (errors[n] = None => Agrees(n, p))
          /\ errors[n] = None => p = None \/ p.kind \in {"failed", "blocked"}
          /\ n \notin values /\ ~(errors[n] # None \/ p # None) =>
               reads[n] \ UnitOf(n) \subseteq values
      BY <2>1, <3>1 DEF MemberInv, Troubled
    <3>3. Blames(n, p)' /\ (errors[n] = None => Agrees(n, p)')
      BY <1>8, <3>1, <3>2 DEF Agrees
    <3>4. Blames(n, problems[n])' /\ (errors[n] = None => Agrees(n, problems[n])')
      BY <2>2, <3>3
    <3> QED
      BY <1>1, <2>1, <2>2, <3>2, <3>4 DEF MemberInv, Troubled, Fixed
  <2> QED
    BY <2>3, <2>4
<1> QED
  BY <1>6, <1>7, <1>9, <1>10

\* An element runs: none of the internal errors can happen.
LEMMA RunElementKeeps ==
    ASSUME ScheduleInv, FrameInv, RunElement
    PROVE  FrameInv'
<1>1. /\ frame = "group" /\ element < Steps * Len(Head(run)) /\ UNCHANGED scheduleVars
      /\ supplied' = supplied /\ todo' = todo /\ run' = run /\ values' = values /\ errors' = errors
  BY DEF RunElement
<1>2. Running /\ GroupInv /\ GroupType
  BY <1>1, RunsOn DEF FrameInv, GroupInv
<1>3. PICK m, k : m = Member /\ k = Step
  OBVIOUS
<1>4. PICK i \in 1 .. Len(Head(run)) : Turn(m, i, k)
  BY <1>1, <1>2, <1>3, TurnIs
<1>5. m \in Group /\ k \in 1 .. Steps
  BY <1>4 DEF Turn
<1>6. PICK dependencies : dependencies = {slots[e[1]][e[2]] : e \in ReadElements(m, k)}
  OBVIOUS
<1>7. PICK state \in BOOLEAN : state <=> GroupPlan.shape[m] = "unfold" /\ k > 1
  OBVIOUS
<1>8. \/ /\ m \in values
         /\ element' = element + 1
         /\ UNCHANGED <<frame, slots, problems, origins>>
      \/ /\ m \notin values /\ GivenUp(m)
         /\ Slot("unavailable") /\ UNCHANGED <<problems, origins>>
      \/ /\ m \notin values /\ ~GivenUp(m) /\ "pending" \in dependencies
         /\ frame' = "stuck" /\ UNCHANGED <<groupVars, origins>>
      \/ /\ m \notin values /\ ~GivenUp(m) /\ "pending" \notin dependencies
         /\ dependencies \cap {"failed", "unavailable"} # {}
         /\ Slot("unavailable") /\ UNCHANGED <<problems, origins>>
      \/ /\ m \notin values /\ ~GivenUp(m) /\ dependencies \subseteq {"computed"}
         /\ IF state /\ {slots[m][1], slots[m][k - 1]} # {"computed"}
            THEN frame' = "stuck" /\ UNCHANGED <<groupVars, origins>>
            ELSE EvaluateElement(m)
  BY <1>3, <1>6, <1>7 DEF RunElement, Supplied, ReadElements
<1>9. \A s : Slot(s) <=> /\ slots' = [slots EXCEPT ![m][k] = s]
                         /\ element' = element + 1 /\ frame' = frame
  BY <1>3 DEF Slot
<1>10. \A n, l : n \notin values /\ GivenUp(n) => Troubled(n)
  BY <1>1, ReasonsAre DEF GivenUp, Troubled
<1>11. "pending" \notin dependencies
  <2> SUFFICES ASSUME NEW e \in ReadElements(m, k), slots[e[1]][e[2]] = "pending" PROVE FALSE
    BY <1>6
  <2>1. PICK j \in 1 .. Len(Head(run)) : Head(run)[j] = e[1] /\ Looked(j, e[2])
    BY <1>2, <1>4, LookedAt
  <2>2. e[1] \in Group /\ e[2] \in 1 .. Steps
    BY <1>2, <1>4, LookedAt
  <2>3. ElementInv(e[1], j, e[2])
    BY <1>2, <2>1, <2>2 DEF GroupInv
  <2> QED
    BY <2>1, <2>3 DEF ElementInv
<1>12. CASE m \in values /\ element' = element + 1 /\ UNCHANGED <<frame, slots, problems, origins>>
  <2>1. frame' = "group" /\ slots' = slots /\ problems' = problems /\ origins' = origins
    BY <1>1, <1>12
  <2>2. /\ EvaluatorType' /\ OutcomeInv' /\ problems' \in [Group -> Reason]
        /\ \A n \in Group : problems[n] # None => problems'[n] = problems[n]
        /\ \A n \in Group : MemberInv(n)'
    BY <1>1, <1>2, <1>5, <2>1, OutcomeNoted
  <2> QED
    BY <1>1, <1>2, <1>4, <1>12, <2>1, <2>2, ElementDone
<1>13. ASSUME m \notin values, Slot("unavailable"), problems' = problems, origins' = origins,
              Troubled(m) \/ \E e \in ReadElements(m, k) : slots[e[1]][e[2]] \in Bad
       PROVE  FrameInv'
  <2>1. /\ frame' = "group" /\ slots' = [slots EXCEPT ![m][k] = "unavailable"]
        /\ element' = element + 1
    BY <1>1, <1>9, <1>13
  <2>2. /\ EvaluatorType' /\ OutcomeInv' /\ problems' \in [Group -> Reason]
        /\ \A n \in Group : problems[n] # None => problems'[n] = problems[n]
        /\ \A n \in Group : MemberInv(n)'
    BY <1>1, <1>2, <1>5, <1>13, <2>1, OutcomeNoted
  <2>3. Troubled(m)' \/ \E e \in ReadElements(m, k) : slots[e[1]][e[2]] \in Bad
    BY <1>1, <1>13, <2>1 DEF Troubled
  <2>4. "unavailable" \in Bad /\ "unavailable" # "computed"
    BY DEF Bad
  <2> QED
    BY <1>1, <1>2, <1>4, <1>13, <2>1, <2>2, <2>3, <2>4, ElementDone
<1>14. CASE /\ m \notin values /\ GivenUp(m)
            /\ Slot("unavailable") /\ UNCHANGED <<problems, origins>>
  BY <1>10, <1>13, <1>14
<1>15. CASE /\ m \notin values /\ dependencies \cap {"failed", "unavailable"} # {}
            /\ Slot("unavailable") /\ UNCHANGED <<problems, origins>>
  <2>1. \E e \in ReadElements(m, k) : slots[e[1]][e[2]] \in Bad
    BY <1>6, <1>15 DEF Bad
  <2> QED
    BY <1>13, <1>15, <2>1
<1>16. CASE /\ m \notin values /\ ~GivenUp(m) /\ dependencies \subseteq {"computed"}
            /\ IF state /\ {slots[m][1], slots[m][k - 1]} # {"computed"}
               THEN frame' = "stuck" /\ UNCHANGED <<groupVars, origins>>
               ELSE EvaluateElement(m)
  <2>1. state => slots[m][1] = "computed" /\ slots[m][k - 1] = "computed"
    <3> SUFFICES ASSUME state PROVE slots[m][1] = "computed" /\ slots[m][k - 1] = "computed"
      OBVIOUS
    <3>1. GroupPlan.shape[m] = "unfold" /\ k > 1 /\ k \in Nat /\ k - 1 \in 1 .. Steps
      BY <1>4, <1>5, <1>7 DEF Turn
    <3>2. PICK e : e = <<m, k - 1>>
      OBVIOUS
    <3>3. e[1] = m /\ e[2] = k - 1
      BY <3>2
    <3>4. e \in ReadElements(m, k)
      <4>1. PlanFacts(GroupPlan) /\ Members(GroupPlan) = Group
        BY <1>2, GroupIs DEF Running, GroupType
      <4>2. DOMAIN GroupPlan.form \subseteq Group \X Group
        BY <4>1 DEF PlanFacts
      <4>3. ReadsElement(GroupPlan, m, k, e)
        BY <3>1, <3>2 DEF ReadsElement
      <4> QED
        BY <1>5, <3>1, <4>2, <4>3, ElementDependenciesAre DEF ReadElements
    <3>5. slots[e[1]][e[2]] = "computed"
      BY <1>6, <1>16, <3>4
    <3>6. slots[m][k - 1] = "computed"
      BY <3>3, <3>5
    <3>7. ElementInv(m, i, k - 1)
      BY <1>2, <1>4, <3>1 DEF GroupInv, Turn
    <3> QED
      BY <3>1, <3>6, <3>7 DEF ElementInv
  <2>2. EvaluateElement(m)
    BY <1>16, <2>1
  <2>3. /\ errors[m] = None /\ problems[m].kind # "blocked"
        /\ problems[m] # None => problems[m].kind = "failed" /\ origins[m] = "failed"
    <3>1. errors[m] = None /\ problems[m].kind # "blocked"
      BY <1>16 DEF GivenUp
    <3>2. MemberInv(m)
      BY <1>2, <1>5 DEF GroupInv
    <3> QED
      BY <1>1, <3>1, <3>2 DEF MemberInv, Agrees
  <2>4. PICK outcome \in Outcomes(m) :
          /\ Note(m, outcome)
          /\ \/ outcome = "value" /\ Slot("computed") /\ UNCHANGED problems
             \/ outcome = "incomplete" /\ Slot("unavailable") /\ Problem(m, Incomplete)
             \/ /\ outcome = "failed" /\ policy = "contain"
                /\ Slot("failed") /\ Problem(m, EvalFailed)
             \/ /\ outcome = "failed" /\ policy = "propagate"
                /\ frame' = "aborted" /\ UNCHANGED groupVars
    BY <2>2 DEF EvaluateElement
  <2>5. /\ m \in Decls /\ origins \in [Decls -> {"none", "failed", "incomplete"}]
        /\ problems \in [Group -> Reason]
    BY <1>2, <1>5, GroupIs DEF Running, GroupType, EvaluatorType
  <2>6. CASE outcome = "value" /\ Slot("computed") /\ problems' = problems
    <3>1. origins' = origins
      BY <2>4, <2>5, <2>6 DEF Note
    <3>2. /\ frame' = "group" /\ slots' = [slots EXCEPT ![m][k] = "computed"]
          /\ element' = element + 1
      BY <1>1, <1>9, <2>6
    <3>3. /\ EvaluatorType' /\ OutcomeInv' /\ problems' \in [Group -> Reason]
          /\ \A n \in Group : problems[n] # None => problems'[n] = problems[n]
          /\ \A n \in Group : MemberInv(n)'
      BY <1>1, <1>2, <1>5, <2>6, <3>1, <3>2, OutcomeNoted
    <3>4. GroupPlan.shape[m] = "unfold" => k = 1 \/ slots[m][1] = "computed"
      BY <1>5, <1>7, <2>1
    <3>5. "computed" \notin Bad
      BY DEF Bad
    <3> QED
      BY <1>1, <1>2, <1>4, <1>16, <3>2, <3>3, <3>4, <3>5, ElementDone
  <2>7. ASSUME NEW status \in Bad, NEW r \in {Incomplete, EvalFailed}, Slot(status), Problem(m, r),
               outcome = IF r = EvalFailed THEN "failed" ELSE "incomplete"
        PROVE  FrameInv'
    <3>1. /\ frame' = "group" /\ slots' = [slots EXCEPT ![m][k] = status]
          /\ element' = element + 1
      BY <1>1, <1>9, <2>7
    <3>2. r # None
      BY ReasonsAre
    <3>3. CASE problems[m] # None
      <4>1. problems' = problems
        BY <1>5, <2>5, <2>7, <3>3 DEF Problem
      <4>2. origins' = origins
        BY <2>3, <2>4, <2>5, <3>3 DEF Note
      <4>3. /\ EvaluatorType' /\ OutcomeInv' /\ problems' \in [Group -> Reason]
            /\ \A n \in Group : problems[n] # None => problems'[n] = problems[n]
            /\ \A n \in Group : MemberInv(n)'
        BY <1>1, <1>2, <1>5, <3>1, <4>1, <4>2, OutcomeNoted
      <4>4. Troubled(m)'
        BY <3>1, <3>3, <4>1 DEF Troubled
      <4>5. status # "computed"
        BY DEF Bad
      <4> QED
        BY <1>1, <1>2, <1>4, <1>16, <3>1, <4>3, <4>4, <4>5, ElementDone
    <3>4. CASE problems[m] = None
      <4>1. problems' = [problems EXCEPT ![m] = r]
        BY <1>5, <2>5, <2>7, <3>4 DEF Problem
      <4>2. origins[m] = "none"
        <5>1. MemberInv(m)
          BY <1>2, <1>5 DEF GroupInv
        <5> QED
          BY <1>1, <2>3, <3>4, <5>1 DEF MemberInv, Agrees
      <4>3. origins' = [origins EXCEPT ![m] = IF r = EvalFailed THEN "failed" ELSE "incomplete"]
        BY <2>4, <2>5, <2>7, <4>2 DEF Note
      <4>4. /\ EvaluatorType' /\ OutcomeInv' /\ problems' \in [Group -> Reason]
            /\ \A n \in Group : problems[n] # None => problems'[n] = problems[n]
            /\ \A n \in Group : MemberInv(n)'
        BY <1>1, <1>2, <1>5, <1>16, <2>3, <3>1, <3>4, <4>1, <4>3, OutcomeNoted
      <4>5. Troubled(m)'
        BY <1>5, <2>5, <3>1, <3>2, <4>1 DEF Troubled
      <4>6. status # "computed"
        BY DEF Bad
      <4> QED
        BY <1>1, <1>2, <1>4, <1>16, <3>1, <4>4, <4>5, <4>6, ElementDone
    <3> QED
      BY <3>3, <3>4
  <2>8. CASE frame' = "aborted"
    <3>1. stage' = "scheduled"
      BY <1>2 DEF Running, Scheduled
    <3> QED
      BY <2>8, <3>1, AbortKeeps
  <2>9. "failed" \in Bad /\ "unavailable" \in Bad /\ Incomplete # EvalFailed
    BY ReasonsAre DEF Bad
  <2> QED
    BY <2>4, <2>6, <2>7, <2>8, <2>9
<1> QED
  BY <1>8, <1>11, <1>12, <1>14, <1>15, <1>16

\* The elements are numbered from 1 to steps times members.
LEMMA LastElement ==
    ASSUME NEW L \in Nat \ {0}, NEW S \in Nat, NEW k \in 1 .. S, NEW i \in 1 .. L
    PROVE  (k - 1) * L + i <= S * L
<1>1. PICK d \in Nat : S = (k - 1) + 1 + d
  <2>1. S - k \in Nat /\ S = (k - 1) + 1 + (S - k)
    OBVIOUS
  <2> QED
    BY <2>1
<1>2. k - 1 \in Nat
  OBVIOUS
<1>3. S * L = (k - 1) * L + L + d * L
  BY <1>1, <1>2
<1>4. d * L \in Nat /\ (k - 1) * L \in Nat
  BY <1>2
<1> QED
  BY <1>3, <1>4

\* The problems of the members become their reasons.
LEMMA ReportProblemsKeeps ==
    ASSUME ScheduleInv, FrameInv, ReportProblems
    PROVE  FrameInv'
<1>1. /\ frame = "group" /\ element = Steps * Len(Head(run)) /\ UNCHANGED scheduleVars
      /\ supplied' = supplied /\ todo' = todo /\ run' = run /\ values' = values /\ slots' = slots
      /\ problems' = problems /\ origins' = origins /\ frame' = "spread" /\ element' = 0
      /\ errors' = [d \in Decls |->
           IF d \in Group /\ errors[d] = None THEN problems[d] ELSE errors[d]]
  BY DEF ReportProblems
<1>2. Running /\ GroupInv
  BY <1>1, RunsOn DEF FrameInv
<1>3. /\ Scheduled /\ ReadsType /\ EvaluatorType /\ RunInv /\ OutcomeInv /\ Fixed /\ GroupType
      /\ stage' = "scheduled" /\ \A m \in Group : MemberInv(m)
  BY <1>2 DEF Running, Scheduled, GroupInv
<1>4. /\ Group' = Group /\ GroupPlan' = GroupPlan /\ Group \in SUBSET Decls
      /\ values \in SUBSET Decls /\ errors \in [Decls -> Reason] /\ problems \in [Group -> Reason]
  <2>1. Group' = Group /\ GroupPlan' = GroupPlan
    BY <1>1, <1>3, GroupKept DEF Fixed
  <2>2. Group \in SUBSET Decls
    BY <1>3, GroupIs DEF GroupType
  <2> QED
    BY <1>3, <2>1, <2>2 DEF EvaluatorType, GroupType
<1>5. /\ \A d \in Decls : errors'[d] = errors[d] \/ (d \in Group /\ errors[d] = None)
      /\ \A d \in Group : errors[d] = None => errors'[d] = problems[d]
      /\ \A d \in Group : errors[d] # None => errors'[d] = errors[d]
      /\ errors' \in [Decls -> Reason]
  BY <1>1, <1>4
<1>6. EvaluatorType'
  BY <1>1, <1>3, <1>5 DEF EvaluatorType, Reason
<1>7. \A e \in Decls : Handled(e) => Handled(e)'
  BY <1>1, <1>5 DEF Handled
<1>8. RunInv'
  BY <1>1, <1>3, <1>7, RunKept
<1>9. \A d, q : Blames(d, q) => Blames(d, q)'
  BY <1>1, <1>3, BlamesKept
<1>10. OutcomeInv'
  <2>1. \A d \in supplied' : Handled(d)'
    BY <1>3, <1>7 DEF OutcomeInv, Fixed, EvaluatorType
  <2>2. ASSUME NEW d \in values PROVE Complete(d)'
    <3>1. Complete(d) /\ UnitOf(d)' = UnitOf(d) /\ d \in Decls
      BY <1>3, <1>4, FixedKeeps DEF OutcomeInv
    <3>2. errors'[d] = None
      BY <1>1, <1>3, <1>5, <2>2, <3>1 DEF Complete, MemberInv
    <3> QED
      BY <1>1, <1>3, <3>1, <3>2 DEF Complete, Fixed
  <2>3. ASSUME NEW d \in Decls, NEW q, q = errors'[d] PROVE Blames(d, q)' /\ Agrees(d, q)'
    <3>1. CASE d \in Group /\ errors[d] = None
      <4>1. q = problems[d] /\ Blames(d, q) /\ Agrees(d, q)
        BY <1>1, <1>3, <1>5, <2>3, <3>1 DEF MemberInv
      <4> QED
        BY <1>1, <1>9, <4>1 DEF Agrees
    <3>2. CASE ~(d \in Group /\ errors[d] = None)
      <4>1. q = errors[d] /\ Blames(d, q) /\ Agrees(d, q)
        BY <1>1, <1>3, <1>5, <2>3, <3>2 DEF OutcomeInv
      <4> QED
        BY <1>1, <1>9, <4>1 DEF Agrees
    <3> QED
      BY <3>1, <3>2
  <2>4. \A d \in Decls : Blames(d, errors[d])' /\ Agrees(d, errors[d])'
    BY <2>3
  <2> QED
    BY <1>1, <2>1, <2>2, <2>4 DEF OutcomeInv
<1>11. \A m \in Group : Troubled(m) => Troubled(m)'
  BY <1>1, <1>4, <1>5 DEF Troubled
<1>12. \A m \in Group : Troubled(m)' => Troubled(m)
  BY <1>1, <1>4, <1>5 DEF Troubled
<1>13. GroupType'
  BY <1>1, <1>3, <1>4 DEF GroupType, Reason, Bad
<1>14. ASSUME NEW m \in Group PROVE MemberInv(m)'
  <2>1. MemberInv(m) /\ UnitOf(m)' = UnitOf(m)
    BY <1>3, FixedKeeps
  <2> QED
    BY <1>1, <1>3, <1>11, <2>1 DEF MemberInv, Fixed
<1>15. ASSUME NEW i \in 1 .. Len(Head(run)), NEW k \in 1 .. Steps, NEW m \in Group, Head(run)[i] = m
       PROVE  ElementInv(m, i, k)'
  <2>1. ElementInv(m, i, k)
    BY <1>2, <1>15 DEF GroupInv
  <2>2. Looked(i, k)
    <3>1. PICK L : L = Len(Head(run))
      OBVIOUS
    <3>2. L \in Nat \ {0} /\ Steps \in Nat
      BY <1>3, <3>1, GroupIs, FrameAssumption DEF GroupType
    <3>3. (k - 1) * L + i <= Steps * L
      BY <1>15, <3>1, <3>2, LastElement
    <3> QED
      BY <1>1, <3>1, <3>3 DEF Looked
  <2>3. Looked(i, k)'
    BY <1>1 DEF Looked
  <2>4. ReadElements(m, k)' = ReadElements(m, k) /\ Bad' = Bad
    BY <1>4 DEF ReadElements, ElementDependencies, Bad
  <2> QED
    BY <1>1, <1>4, <1>11, <2>1, <2>2, <2>3, <2>4 DEF ElementInv
<1>16. GroupInv'
  BY <1>1, <1>4, <1>13, <1>14, <1>15 DEF GroupInv
<1> QED
  BY <1>1, <1>3, <1>6, <1>8, <1>10, <1>16 DEF FrameInv

-----------------------------------------------------------------------------
(* Reasons spread through the group.                                        *)

\* The members with a reason that a member reads.
LEMMA TroubledReadsAre ==
    ASSUME Scheduled, RunInv, run # <<>>, Len(Head(run)) > 1, NEW m \in Group
    PROVE  \A e : e \in TroubledReads(m) <=>
                    e \in Group /\ e \in reads[m] /\ e \notin values /\ errors[e] # None
<1>1. PICK p : p = GroupPlan
  OBVIOUS
<1>2. PlanFacts(p) /\ Members(p) = Group
  BY <1>1, GroupIs
<1>3. /\ DOMAIN p.form \subseteq Group \X Group
      /\ \A n \in Group : <<m, n>> \in DOMAIN p.form <=> n \in reads[m]
  BY <1>2 DEF PlanFacts
<1>4. ASSUME NEW e PROVE e \in TroubledReads(m) <=> e \in Group /\ e \in reads[m] /\ e \notin values /\ errors[e] # None
  <2>1. ASSUME e \in TroubledReads(m)
        PROVE  e \in Group /\ e \in reads[m] /\ e \notin values /\ errors[e] # None
    <3>1. PICK x \in DOMAIN p.form : x[1] = m /\ x[2] \notin values /\ errors[x[2]] # None /\ e = x[2]
      BY <1>1, <2>1 DEF TroubledReads, Supplied
    <3>2. x \in Group \X Group
      BY <1>3, <3>1
    <3>3. x[2] \in Group /\ x = <<x[1], x[2]>>
      BY <3>2, PairIs
    <3>4. <<m, e>> \in DOMAIN p.form
      BY <3>1, <3>3
    <3> QED
      BY <1>3, <3>1, <3>3, <3>4
  <2>2. ASSUME e \in Group /\ e \in reads[m] /\ e \notin values /\ errors[e] # None
        PROVE  e \in TroubledReads(m)
    <3>1. PICK x : x = <<m, e>>
      OBVIOUS
    <3>2. x \in DOMAIN p.form /\ x[1] = m /\ x[2] = e
      BY <1>3, <2>2, <3>1
    <3> QED
      BY <1>1, <2>2, <3>2 DEF TroubledReads, Supplied
  <2> QED
    BY <2>1, <2>2
<1> QED
  BY <1>4

\* A member that reads one with a reason gets a reason.
LEMMA SpreadReasonKeeps ==
    ASSUME ScheduleInv, FrameInv, SpreadReason
    PROVE  FrameInv'
<1>1. /\ frame = "spread" /\ UNCHANGED scheduleVars
      /\ supplied' = supplied /\ todo' = todo /\ run' = run /\ values' = values /\ slots' = slots
      /\ problems' = problems /\ origins' = origins /\ frame' = frame
  BY DEF SpreadReason
<1>2. Running /\ GroupInv
  BY <1>1, RunsOn DEF FrameInv
<1>3. /\ Scheduled /\ ReadsType /\ EvaluatorType /\ RunInv /\ OutcomeInv /\ Fixed /\ GroupType
      /\ stage' = "scheduled" /\ \A m \in Group : MemberInv(m)
  BY <1>2 DEF Running, Scheduled, GroupInv
<1>4. PICK h, L : h = Head(run) /\ L = Len(h)
  OBVIOUS
<1>5. /\ Group' = Group /\ GroupPlan' = GroupPlan /\ Group \in SUBSET Decls
      /\ values \in SUBSET Decls /\ errors \in [Decls -> Reason]
      /\ h \in Seq(Group) /\ L \in Nat \ {0} /\ element \in Nat
  <2>1. Group' = Group /\ GroupPlan' = GroupPlan
    BY <1>1, <1>3, GroupKept DEF Fixed
  <2>2. Group \in SUBSET Decls /\ h \in Seq(Group) /\ L \in Nat \ {0}
    BY <1>3, <1>4, GroupIs DEF GroupType
  <2> QED
    BY <1>3, <2>1, <2>2 DEF EvaluatorType, GroupType
<1>6. PICK j \in DOMAIN h :
        /\ CanSpread(h[((element + j - 1) % L) + 1])
        /\ errors' = [errors EXCEPT ![h[((element + j - 1) % L) + 1]] =
                        BlockedBy(TroubledReads(h[((element + j - 1) % L) + 1]), errors)]
        /\ element' = (element + j) % L
  BY <1>4 DEF SpreadReason
<1>7. PICK m : m = h[((element + j - 1) % L) + 1]
  OBVIOUS
<1>8. m \in Group /\ element' \in Nat
  <2>1. j \in 1 .. L
    BY <1>4, <1>5
  <2>2. element + j - 1 \in Nat /\ element + j \in Nat
    BY <1>5, <2>1
  <2>3. (element + j - 1) % L \in 0 .. L - 1 /\ (element + j) % L \in 0 .. L - 1
    BY <1>5, <2>2, Quotient
  <2>4. ((element + j - 1) % L) + 1 \in 1 .. L
    BY <1>5, <2>3
  <2>5. m \in Group
    <3>1. PICK x : x = ((element + j - 1) % L) + 1
      OBVIOUS
    <3>2. h[x] \in Group
      BY <1>4, <1>5, <2>4, <3>1
    <3> QED
      BY <1>7, <3>1, <3>2
  <2>6. element' \in Nat
    <3>1. PICK x : x = (element + j) % L
      OBVIOUS
    <3>2. x \in Nat
      BY <1>5, <2>3, <3>1
    <3> QED
      BY <1>6, <3>1, <3>2
  <2> QED
    BY <2>5, <2>6
<1>9. PICK deps, r : deps = TroubledReads(m) /\ r = BlockedBy(deps, errors)
  OBVIOUS
<1>10. CanSpread(m) /\ errors' = [errors EXCEPT ![m] = r]
  BY <1>6, <1>7, <1>9
<1>11. m \in Decls /\ m \notin values /\ errors[m] = None /\ deps # {} /\ m \notin supplied
  BY <1>3, <1>5, <1>8, <1>9, <1>10 DEF CanSpread, Supplied, OutcomeInv, Handled
<1>12. \A e \in deps : e \in Decls /\ e \in reads[m] /\ errors[e] # None
  BY <1>3, <1>5, <1>8, <1>9, TroubledReadsAre DEF GroupType
<1>13. deps \in SUBSET Decls /\ deps \subseteq Needs(m)
  BY <1>11, <1>12 DEF Needs
<1>14. \A e \in deps : Blames(e, errors[e])
  BY <1>3, <1>13 DEF OutcomeInv
<1>15. Blames(m, r) /\ TellsOf(r, deps, errors)
  BY <1>5, <1>9, <1>11, <1>13, <1>14, BlockedBlames, BlockedByIs
<1>16. r \in Reason /\ r.kind # "failed" /\ r # None
  <2>1. \A e \in deps : Told(errors[e])
    BY <1>12, <1>14 DEF Blames
  <2> QED
    BY <1>11, <1>15, <2>1 DEF TellsOf
<1>17. Blames(m, r)' /\ Agrees(m, r)'
  <2>1. Blames(m, r)'
    BY <1>1, <1>3, <1>15, BlamesKept
  <2>2. Agrees(m, errors[m])
    BY <1>1, <1>3, <1>11 DEF OutcomeInv
  <2>3. origins'[m] = "none"
    BY <1>1, <1>11, <2>2 DEF Agrees
  <2> QED
    BY <1>16, <2>1, <2>3 DEF Agrees
<1>18. /\ EvaluatorType' /\ OutcomeInv' /\ \A e \in Decls : Handled(e) => Handled(e)'
  <2>1. frame # "group" /\ frame' # "group"
    BY <1>1
  <2>2. origins' \in [Decls -> {"none", "failed", "incomplete"}]
    BY <1>1, <1>3 DEF EvaluatorType
  <2> QED
    BY <1>1, <1>3, <1>10, <1>11, <1>16, <1>17, <2>1, <2>2, ErrorRecorded
<1>19. RunInv'
  BY <1>1, <1>3, <1>18, RunKept
<1>20. \A d \in Decls : errors[d] # None => errors'[d] # None
  BY <1>5, <1>10, <1>11, <1>16
<1>21. GroupType'
  BY <1>1, <1>3, <1>5, <1>8 DEF GroupType, Reason, Bad
<1>22. \A n \in Group : Troubled(n) => Troubled(n)'
  BY <1>1, <1>5, <1>20 DEF Troubled
<1>23. ASSUME NEW n \in Group PROVE MemberInv(n)'
  <2>1. MemberInv(n) /\ UnitOf(n)' = UnitOf(n)
    BY <1>3, FixedKeeps
  <2> QED
    BY <1>1, <1>3, <1>22, <2>1 DEF MemberInv, Fixed
<1>24. ASSUME NEW i \in 1 .. Len(Head(run)), NEW k \in 1 .. Steps, NEW n \in Group, Head(run)[i] = n
       PROVE  ElementInv(n, i, k)'
  <2>1. ElementInv(n, i, k)
    BY <1>2, <1>24 DEF GroupInv
  <2>2. Looked(i, k) /\ Looked(i, k)'
    BY <1>1 DEF Looked
  <2>3. ReadElements(n, k)' = ReadElements(n, k) /\ Bad' = Bad
    BY <1>5 DEF ReadElements, ElementDependencies, Bad
  <2> QED
    BY <1>1, <1>5, <1>22, <2>1, <2>2, <2>3 DEF ElementInv
<1>25. GroupInv'
  BY <1>1, <1>5, <1>21, <1>23, <1>24 DEF GroupInv
<1> QED
  BY <1>1, <1>3, <1>18, <1>19, <1>25 DEF FrameInv

-----------------------------------------------------------------------------
(* The end of a group.                                                      *)

\* The first element, step by step and member by member, with a property.
LEMMA FirstElement ==
    ASSUME NEW L, NEW S, NEW P, P \subseteq (1 .. L) \X (1 .. S), P # {}
    PROVE  \E i \in 1 .. L, k \in 1 .. S :
             /\ <<i, k>> \in P
             /\ \A j \in 1 .. L, l \in 1 .. S :
                  l < k \/ (l = k /\ j < i) => <<j, l>> \notin P
<1>1. PICK K : K = {l \in 1 .. S : \E j \in 1 .. L : <<j, l>> \in P}
  OBVIOUS
<1>2. K \subseteq Nat /\ K # {}
  <2>1. PICK x : x \in P
    OBVIOUS
  <2>2. x \in (1 .. L) \X (1 .. S)
    BY <2>1
  <2>3. x[1] \in 1 .. L /\ x[2] \in 1 .. S /\ x = <<x[1], x[2]>>
    BY <2>2, PairIs
  <2>4. x[2] \in K
    BY <1>1, <2>1, <2>3
  <2> QED
    BY <1>1, <2>4
<1>3. PICK k : k = Min(K)
  OBVIOUS
<1>4. k \in K /\ \A l \in K : k <= l
  BY <1>2, <1>3, LeastIn
<1>5. PICK I : I = {j \in 1 .. L : <<j, k>> \in P}
  OBVIOUS
<1>6. I \subseteq Nat /\ I # {} /\ k \in 1 .. S
  BY <1>1, <1>4, <1>5
<1>7. PICK i : i = Min(I)
  OBVIOUS
<1>8. i \in I /\ \A j \in I : i <= j
  BY <1>6, <1>7, LeastIn
<1>9. <<i, k>> \in P /\ i \in 1 .. L
  BY <1>5, <1>8
<1>10. ASSUME NEW j \in 1 .. L, NEW l \in 1 .. S, l < k \/ (l = k /\ j < i), <<j, l>> \in P
       PROVE  FALSE
  <2>1. l \in K
    BY <1>1, <1>10
  <2>2. k <= l
    BY <1>4, <2>1
  <2>3. l = k /\ j < i
    BY <1>6, <1>10, <2>2
  <2>4. j \in I
    BY <1>5, <1>10, <2>3
  <2> QED
    BY <1>8, <1>9, <1>10, <2>3, <2>4
<1> QED
  BY <1>6, <1>9, <1>10

\* When reasons spread no further, the members without one have all their elements:
\* the first that is missing would have a reason.
LEMMA GroupEndsKeeps ==
    ASSUME ScheduleInv, FrameInv, GroupEnds
    PROVE  FrameInv'
<1>1. /\ frame = "spread" /\ UNCHANGED scheduleVars
      /\ \A m \in Group : ~CanSpread(m)
      /\ supplied' = supplied /\ todo' = todo /\ run' = Tail(run)
      /\ errors' = errors /\ origins' = origins
  BY DEF GroupEnds
<1>2. Running /\ GroupInv
  BY <1>1, RunsOn DEF FrameInv
<1>3. /\ Scheduled /\ ReadsType /\ EvaluatorType /\ RunInv /\ OutcomeInv /\ Fixed /\ GroupType
      /\ stage = "scheduled" /\ run # <<>> /\ \A m \in Group : MemberInv(m)
  BY <1>2 DEF Running, Scheduled, GroupInv, GroupType
<1>4. PICK fine : fine = {m \in Group : m \notin values /\ errors[m] = None}
  OBVIOUS
<1>5. /\ values' = values \cup fine
      /\ frame' = IF \E m \in fine : \E k \in 1 .. Steps : slots[m][k] # "computed"
                  THEN "stuck" ELSE "run"
  BY <1>4 DEF GroupEnds, Supplied
<1>6. PICK h, L : h = Head(run) /\ L = Len(h)
  OBVIOUS
<1>7. /\ Group \in SUBSET Decls /\ Group \cap todo = {} /\ \A m \in Group : UnitOf(m) = Group
      /\ h \in Seq(Group) /\ L \in Nat \ {0} /\ \A m : m \in Group <=> Contains(h, m)
      /\ PlanFacts(GroupPlan) /\ Members(GroupPlan) = Group
  BY <1>3, <1>6, GroupIs DEF GroupType
<1>8. \A m \in fine : m \in Group /\ m \notin values /\ errors[m] = None
  BY <1>4
<1>9. ASSUME NEW m \in fine, NEW n \in Group, n \in reads[m] PROVE n \in values \cup fine
  <2> SUFFICES ASSUME n \notin values, errors[n] # None PROVE FALSE
    BY <1>4
  <2>1. n \in TroubledReads(m)
    BY <1>3, <1>8, <1>9, TroubledReadsAre DEF GroupType
  <2>2. CanSpread(m)
    BY <1>8, <2>1 DEF CanSpread, Supplied
  <2> QED
    BY <1>1, <1>8, <2>2
<1>10. ASSUME NEW m \in fine PROVE reads[m] \subseteq values \cup fine
  <2>1. MemberInv(m) /\ UnitOf(m) = Group /\ ~Troubled(m)
    BY <1>1, <1>3, <1>7, <1>8 DEF Troubled
  <2>2. reads[m] \ Group \subseteq values
    BY <1>8, <2>1 DEF MemberInv
  <2> QED
    BY <1>9, <2>2
<1>11. ASSUME NEW m \in fine, NEW k \in 1 .. Steps, slots[m][k] # "computed" PROVE FALSE
  <2>1. PICK P : P = {x \in (1 .. L) \X (1 .. Steps) : h[x[1]] \in fine /\ slots[h[x[1]]][x[2]] # "computed"}
    OBVIOUS
  <2>2. \A i \in 1 .. L, l \in 1 .. Steps :
          <<i, l>> \in P <=> h[i] \in fine /\ slots[h[i]][l] # "computed"
    <3> SUFFICES ASSUME NEW i \in 1 .. L, NEW l \in 1 .. Steps, NEW x, x = <<i, l>>
                 PROVE  x \in P <=> h[i] \in fine /\ slots[h[i]][l] # "computed"
      OBVIOUS
    <3>1. x \in (1 .. L) \X (1 .. Steps) /\ x[1] = i /\ x[2] = l
      OBVIOUS
    <3> QED
      BY <2>1, <3>1
  <2>3. PICK j \in 1 .. L : h[j] = m
    <3>1. Contains(h, m)
      BY <1>7, <1>8
    <3> QED
      BY <1>6, <3>1 DEF Contains
  <2>4. P \subseteq (1 .. L) \X (1 .. Steps) /\ P # {}
    <3>1. <<j, k>> \in P
      BY <1>11, <2>2, <2>3
    <3> QED
      BY <2>1, <3>1
  <2>5. PICK i \in 1 .. L, l \in 1 .. Steps :
          /\ <<i, l>> \in P
          /\ \A a \in 1 .. L, b \in 1 .. Steps : b < l \/ (b = l /\ a < i) => <<a, b>> \notin P
    BY <2>4, FirstElement
  <2>6. PICK n : n = h[i]
    OBVIOUS
  <2>7. n \in fine /\ slots[n][l] # "computed" /\ n \in Group
    BY <1>8, <2>2, <2>5, <2>6
  <2>8. ElementInv(n, i, l)
    BY <1>2, <1>6, <2>5, <2>6, <2>7 DEF GroupInv
  <2>9. slots[n][l] \in Bad
    <3>1. Looked(i, l)
      BY <1>1 DEF Looked
    <3>2. slots[n][l] # "pending"
      BY <1>8, <2>7, <2>8, <3>1 DEF ElementInv
    <3>3. slots[n][l] \in {"pending", "computed"} \cup Bad
      BY <1>3, <2>5, <2>7 DEF GroupType
    <3> QED
      BY <2>7, <3>2, <3>3
  <2>10. ~Troubled(n)
    BY <1>1, <1>8, <2>7 DEF Troubled
  <2>11. PICK e \in ReadElements(n, l) : slots[e[1]][e[2]] \in Bad
    BY <2>8, <2>9, <2>10 DEF ElementInv
  <2>12. Earlier(n, i, l, e)
    BY <1>2, <1>3, <1>6, <2>5, <2>6, <2>7, <2>11, ReadElementsAre
  <2>13. PICK a \in 1 .. L : /\ h[a] = e[1]
                             /\ (e[2] = l /\ a \in 1 .. i - 1) \/ (l > 1 /\ e[2] = l - 1)
    BY <1>6, <2>12 DEF Earlier
  <2>14. e[1] \in Group /\ e[2] \in 1 .. Steps
    BY <2>12 DEF Earlier
  <2>15. slots[e[1]][e[2]] # "computed"
    BY <2>11 DEF Bad
  <2>16. e[1] \notin values
    <3>1. ElementInv(e[1], a, e[2])
      BY <1>2, <1>6, <2>13, <2>14 DEF GroupInv
    <3> QED
      BY <2>15, <3>1 DEF ElementInv
  <2>17. e[1] \in fine
    <3>1. CASE e[1] = n
      BY <2>7, <3>1
    <3>2. CASE <<n, e[1]>> \in DOMAIN GroupPlan.form
      <4>1. e[1] \in reads[n]
        BY <1>7, <2>7, <2>14, <3>2 DEF PlanFacts
      <4> QED
        BY <1>9, <2>7, <2>14, <2>16, <4>1
    <3> QED
      BY <2>12, <3>1, <3>2 DEF Earlier
  <2>18. <<a, e[2]>> \in P
    BY <2>2, <2>13, <2>14, <2>15, <2>17
  <2>19. e[2] < l \/ (e[2] = l /\ a < i)
    BY <2>5, <2>13, FrameAssumption
  <2> QED
    BY <2>5, <2>13, <2>14, <2>18, <2>19
<1>12. frame' = "run"
  BY <1>5, <1>11
<1>13. fine \in SUBSET Decls
  BY <1>7, <1>8
<1>14. \A d \in fine : /\ errors[d] = None /\ d \notin todo
                       /\ reads[d] \subseteq values \cup fine /\ UnitOf(d) \cap todo = {}
  BY <1>7, <1>8, <1>10
<1>15. \A d \in Decls : Agrees(d, errors[d])
  BY <1>1, <1>3 DEF OutcomeInv
<1>16. /\ EvaluatorType' /\ OutcomeInv' /\ \A e \in fine : Handled(e)'
       /\ \A e \in Decls : Handled(e) => Handled(e)'
  <2>1. frame' # "group"
    BY <1>12
  <2> QED
    BY <1>1, <1>3, <1>5, <1>13, <1>14, <1>15, <2>1, ValuesAdded
<1>17. \A e : Contains(Head(run), e) => Handled(e)'
  <2> SUFFICES ASSUME NEW e \in Group PROVE Handled(e)'
    BY <1>6, <1>7
  <2>1. CASE e \in fine
    BY <1>16, <2>1
  <2>2. CASE e \notin fine
    <3>1. Handled(e) /\ e \in Decls
      BY <1>4, <1>7, <2>2 DEF Handled
    <3> QED
      BY <1>16, <3>1
  <2> QED
    BY <2>1, <2>2
<1> QED
  BY <1>1, <1>2, <1>3, <1>12, <1>16, <1>17, NextEntry

-----------------------------------------------------------------------------
(* The frame as a whole.                                                    *)

\* The invariant is about the schedule and the frame only.
LEMMA FrameKept ==
    ASSUME FrameInv, UNCHANGED scheduleVars, UNCHANGED frameVars
    PROVE  FrameInv'
<1>1. /\ stage' = stage /\ reads' = reads /\ plans' = plans
      /\ frame' = frame /\ supplied' = supplied /\ todo' = todo /\ run' = run /\ values' = values
      /\ errors' = errors /\ slots' = slots /\ problems' = problems /\ element' = element
      /\ origins' = origins
  BY DEF scheduleVars, frameVars, groupVars
<1>2. Fixed /\ Reason' = Reason /\ Bad' = Bad
  BY <1>1 DEF Fixed, Reason, Bad
<1>3. /\ \A d : UnitOf(d)' = UnitOf(d)
      /\ \A s : Entry(s, todo)' <=> Entry(s, todo)
  <2>1. \A d : UnitOf(d)' = UnitOf(d)
    BY <1>2, FixedKeeps
  <2>2. \A s : Entry(s, todo)' <=> Entry(s, todo)
    BY <1>1, <2>1 DEF Entry, Members
  <2> QED
    BY <2>1, <2>2
<1>4. \A d, q : Blames(d, q) => Blames(d, q)'
  BY <1>1, <1>2, BlamesKept
<1>5. Group' = Group /\ GroupPlan' = GroupPlan
  BY <1>1, GroupKept
<1>6. \A n, l : ReadElements(n, l)' = ReadElements(n, l)
  BY <1>5 DEF ReadElements, ElementDependencies
<1>7. EvaluatorType => EvaluatorType'
  BY <1>1, <1>2 DEF EvaluatorType
<1>8. RunInv => RunInv'
  BY <1>1, <1>3 DEF RunInv, Handled
<1>9. ASSUME OutcomeInv PROVE OutcomeInv'
  <2>1. \A d \in supplied' : Handled(d)'
    BY <1>1, <1>9 DEF OutcomeInv, Handled
  <2>2. \A d \in values' : Complete(d)'
    BY <1>1, <1>3, <1>9 DEF OutcomeInv, Complete
  <2>3. ASSUME NEW d \in Decls, NEW q, q = errors[d]
        PROVE  Blames(d, q)' /\ (Agrees(d, q)' \/ (frame = "group" /\ d \in Group /\ q = None))
    BY <1>1, <1>4, <1>9, <2>3 DEF OutcomeInv, Agrees
  <2>4. \A d \in Decls : /\ Blames(d, errors[d])'
                         /\ Agrees(d, errors[d])' \/ (frame' = "group" /\ d \in Group' /\ errors'[d] = None)
    BY <1>1, <1>5, <2>3
  <2> QED
    BY <2>1, <2>2, <2>4 DEF OutcomeInv
<1>10. ASSUME GroupInv PROVE GroupInv'
  <2>1. GroupType'
    BY <1>1, <1>2, <1>5, <1>10 DEF GroupInv, GroupType
  <2>2. \A n : Troubled(n)' <=> Troubled(n)
    BY <1>1 DEF Troubled
  <2>3. \A j, l : Looked(j, l)' <=> Looked(j, l)
    BY <1>1 DEF Looked
  <2>4. \A n, j, l : ElementInv(n, j, l) => ElementInv(n, j, l)'
    BY <1>1, <1>2, <1>5, <1>6, <2>2, <2>3 DEF ElementInv
  <2>5. ASSUME NEW n \in Group PROVE MemberInv(n)'
    <3>1. MemberInv(n)
      BY <1>10 DEF GroupInv
    <3>2. PICK p : p = problems[n]
      OBVIOUS
    <3>3. frame = "group" => Blames(n, p)' /\ (errors[n] = None => Agrees(n, p)')
      BY <1>1, <1>4, <3>1, <3>2 DEF MemberInv, Agrees
    <3>4. frame = "group" => Blames(n, problems[n])' /\ (errors[n] = None => Agrees(n, problems[n])')
      BY <1>1, <3>2, <3>3
    <3> QED
      BY <1>1, <1>3, <2>2, <3>1, <3>4 DEF MemberInv
  <2> QED
    BY <1>1, <1>5, <1>10, <2>1, <2>4, <2>5 DEF GroupInv
<1> QED
  BY <1>1, <1>7, <1>8, <1>9, <1>10 DEF FrameInv

\* The schedule is made before a frame starts.
LEMMA ScheduleStepKeeps ==
    ASSUME FrameInv, ScheduleStep, UNCHANGED frameVars
    PROVE  FrameInv'
<1>1. frame' = frame
  BY DEF frameVars
<1>2. CASE frame = "idle"
  BY <1>1, <1>2 DEF FrameInv
<1>3. CASE frame # "idle"
  <2>1. stage = "scheduled"
    BY <1>3 DEF FrameInv
  <2>2. UNCHANGED scheduleVars
    BY <2>1 DEF ScheduleStep, FindComponents, NoComponents, TakeComponents, CheckComponent,
                Contract, RejectSchedule, OrderUnits, UnitsCyclic, UnitsOrdered
  <2> QED
    BY <2>2, FrameKept
<1> QED
  BY <1>2, <1>3

\* A frame ends or is cancelled.
LEMMA EndsKeep ==
    ASSUME ScheduleInv, FrameInv, Cancel \/ RunEnds
    PROVE  FrameInv'
<1>1. CASE Cancel
  <2>1. frame' = "aborted" /\ stage' = stage /\ frame \in {"run", "group"}
    BY <1>1 DEF Cancel, scheduleVars
  <2> QED
    BY <2>1 DEF FrameInv
<1>2. CASE RunEnds
  <2>1. /\ frame = "run" /\ run = <<>> /\ frame' = "done" /\ UNCHANGED scheduleVars
        /\ supplied' = supplied /\ todo' = todo /\ run' = run /\ values' = values
        /\ errors' = errors /\ origins' = origins
    BY <1>2 DEF RunEnds
  <2>2. Running
    BY <2>1, RunsOn
  <2>3. /\ EvaluatorType /\ OutcomeInv /\ Fixed /\ RunInv /\ ReadsType /\ stage' = "scheduled"
    BY <2>2 DEF Running, Scheduled
  <2>4. /\ EvaluatorType' /\ OutcomeInv'
    <3>1. \A e \in Decls : Agrees(e, errors[e])
      BY <2>1, <2>3 DEF OutcomeInv
    <3>2. PICK V : V = {}
      OBVIOUS
    <3>3. /\ V \in SUBSET Decls /\ values' = values \cup V /\ frame' # "group"
          /\ \A e \in V : /\ errors[e] = None /\ e \notin todo
                          /\ reads[e] \subseteq values \cup V /\ UnitOf(e) \cap todo = {}
      BY <2>1, <3>2
    <3> QED
      BY <2>1, <2>3, <3>1, <3>3, ValuesAdded
  <2>5. RunInv'
    <3>1. \A e \in Decls : Handled(e) => Handled(e)'
      BY <2>1 DEF Handled
    <3> QED
      BY <2>1, <2>3, <3>1, RunKept
  <2> QED
    BY <2>1, <2>3, <2>4, <2>5 DEF FrameInv
<1> QED
  BY <1>1, <1>2

\* The frame invariant is inductive, given the schedule.
LEMMA NextFrameInv ==
    ScheduleInv /\ FrameInv /\ [Next]_vars => FrameInv'
<1> SUFFICES ASSUME ScheduleInv, FrameInv, [Next]_vars PROVE FrameInv'
  OBVIOUS
<1>1. CASE ScheduleStep /\ UNCHANGED frameVars
  BY <1>1, ScheduleStepKeeps
<1>2. CASE Start
  BY <1>2, StartStep
<1>3. CASE RunStep
  BY <1>3, RunStepKeeps
<1>4. CASE RunEnds \/ Cancel
  BY <1>4, EndsKeep
<1>5. CASE EnterGroup
  BY <1>5, EnterGroupKeeps
<1>6. CASE RunElement
  BY <1>6, RunElementKeeps
<1>7. CASE ReportProblems
  BY <1>7, ReportProblemsKeeps
<1>8. CASE SpreadReason
  BY <1>8, SpreadReasonKeeps
<1>9. CASE GroupEnds
  BY <1>9, GroupEndsKeeps
<1>10. CASE UNCHANGED vars
  <2>1. UNCHANGED scheduleVars /\ UNCHANGED frameVars
    BY <1>10 DEF vars
  <2> QED
    BY <2>1, FrameKept
<1> QED
  BY <1>1, <1>2, <1>3, <1>4, <1>5, <1>6, <1>7, <1>8, <1>9, <1>10 DEF Next, FrameStep

\* Checking and running keep both invariants, for any number of declarations, any
\* reads, any steps and any failures.
THEOREM FrameInvariance == Spec => [](CheckingInv /\ FrameInv)
<1>1. Init => FrameInv
  BY DEF Init, FrameInv
<1>2. CheckingInv /\ FrameInv /\ [Next]_vars => FrameInv'
  BY NextFrameInv DEF CheckingInv
<1>3. Spec => []CheckingInv
  BY CheckingInvariance
<1> QED
  BY <1>1, <1>2, <1>3, PTL DEF Spec

\* The internal errors of the evaluator are unreachable: CallablePlan::new refuses no
\* schedule of the checker, and no element is read before it was evaluated.
THEOREM NeverStuckTheorem == Spec => []NeverStuck
<1>1. FrameInv => NeverStuck
  BY DEF FrameInv, NeverStuck
<1> QED
  BY <1>1, FrameInvariance, PTL

\* When the list is empty, everything was handled.
LEMMA EndedFrame == FrameInv /\ ScheduleInv => OutcomesExact
<1> SUFFICES ASSUME FrameInv, ScheduleInv, frame = "done", NEW d \in Decls,
                    NEW failed, failed = {e \in Behind(d) : origins[e] = "failed"},
                    NEW unfinished,
                    unfinished = {e \in Behind(d) : e \in todo \/ origins[e] = "incomplete"}
             PROVE  /\ d \in values <=> errors[d] = None
                    /\ errors[d] = None <=> failed \cup unfinished = {}
                    /\ errors[d].kind = "failed" <=> origins[d] = "failed"
                    /\ HasFailure(errors[d]) => failed # {}
                    /\ errors[d].unfinished # {} => unfinished # {}
  BY DEF OutcomesExact
<1>1. EvaluatorType /\ RunInv /\ OutcomeInv /\ run = <<>>
  BY DEF FrameInv
<1>2. Handled(d)
  <2>1. \A e \in Decls : Handled(e) \/ \E i \in 1 .. Len(run) : Contains(run[i], e)
    BY <1>1 DEF RunInv
  <2>2. Len(run) = 0
    BY <1>1
  <2>3. 1 .. Len(run) = {}
    BY <2>2
  <2> QED
    BY <2>1, <2>3
<1>3. Blames(d, errors[d]) /\ Agrees(d, errors[d])
  BY <1>1 DEF OutcomeInv
<1>4. d \in values <=> errors[d] = None
  BY <1>1, <1>2 DEF Handled, OutcomeInv, Complete
<1>5. ASSUME d \in values, NEW e \in Behind(d) PROVE e \notin todo /\ origins[e] = "none"
  <2>1. values \in SUBSET Decls
    BY <1>1 DEF EvaluatorType
  <2>2. ASSUME NEW n \in values PROVE Needs(n) \subseteq values
    <3>1. Complete(n)
      BY <1>1 DEF OutcomeInv
    <3> QED
      BY <3>1 DEF Complete, Needs
  <2>3. e \in values
    BY <1>5, <2>1, <2>2 DEF Behind
  <2>4. Complete(e)
    BY <1>1, <2>3 DEF OutcomeInv
  <2> QED
    BY <2>4 DEF Complete
<1>6. errors[d] = None => failed \cup unfinished = {}
  BY <1>4, <1>5
<1>7. HasFailure(errors[d]) => failed # {}
  BY <1>3 DEF Blames
<1>8. errors[d].unfinished # {} => unfinished # {}
  BY <1>3 DEF Blames
<1>9. errors[d] # None => failed \cup unfinished # {}
  BY <1>3, <1>7, <1>8 DEF Blames, Told
<1>10. errors[d].kind = "failed" <=> origins[d] = "failed"
  BY <1>3 DEF Agrees
<1> QED
  BY <1>4, <1>6, <1>7, <1>8, <1>9, <1>10

\* A frame that ends has a reason for exactly the declarations with something
\* unfinished or failed behind them, and a value for the others.
THEOREM OutcomesExactTheorem == Spec => []OutcomesExact
<1>1. CheckingInv /\ FrameInv => OutcomesExact
  BY EndedFrame DEF CheckingInv
<1> QED
  BY <1>1, FrameInvariance, PTL
=============================================================================
