--------------------------- MODULE RuntimeSchedule ---------------------------
(***************************************************************************)
(* The checker's schedule of one callable: order_units finds the cyclic       *)
(* components of its declarations, accepts each as a recurrence group or       *)
(* rejects it, and orders the groups and the other declarations as units.      *)
(*                                                                         *)
(* Declarations are numbered in source order.  How a declaration of a cyclic   *)
(* component is defined and how it reads the others is chosen when the         *)
(* component is looked at: nothing else depends on it.  A definition is a `for` *)
(* or an `unfold` along the group's axis in the group's DAG, or anything else; *)
(* a read takes the element of the current step, of the previous step (the     *)
(* binder of an `unfold`), of both, or is keyed in another way.                *)
(***************************************************************************)
EXTENDS DependencyGraph

CONSTANTS
    N,         \* the number of declarations
    MaxReads   \* bound: dependencies between declarations

ASSUME ScheduleAssumption == N \in Nat \ {0} /\ MaxReads \in Nat

VARIABLES
    reads,     \* runtime_deps
    stage,     \* where order_units is
    unchecked, \* components that were not checked yet
    rejected,  \* components that are no recurrence groups
    plans,     \* the plans of the others
    units      \* the nodes of the unit graph, then the schedule

scheduleVars == <<reads, stage, unchecked, rejected, plans, units>>

Decls == 1 .. N
Shapes == {"for", "unfold", "other"}
ReadForms == {{"same"}, {"previous"}, {"same", "previous"}, {"other"}}
InGroup(c) == {r \in c \X c : r[2] \in reads[r[1]]}

-----------------------------------------------------------------------------
(* check_group.                                                             *)

\* Mutant: members are placed in source order.
SourceOrder(c, targets) == SelectSeq([d \in Decls |-> d], LAMBDA d : d \in c)

\* greedy_order: always the first member whose targets of this step are placed.
GreedyOrder(c, targets) ==
    LET placing[left \in SUBSET c] ==
          LET free == {m \in left : targets[m] \cap left = {}} IN
          IF free = {} THEN <<>> ELSE <<Min(free)>> \o placing[left \ {Min(free)}]
    IN placing[c]

SameStep(c, form) ==
    [m \in c |-> {r[2] : r \in {x \in DOMAIN form : x[1] = m /\ "same" \in form[x]}}]

\* R1 to R4, then R5 and R6: the shape of every member and the key of every read.
WellKeyed(c, shape, form) ==
    /\ \E m \in c : shape[m] = "unfold"
    /\ \A m \in c : shape[m] # "other"
    /\ \A m \in c : m \notin reads[m]
    /\ \A r \in DOMAIN form :
         /\ "other" \notin form[r]
         /\ "previous" \in form[r] => shape[r[1]] = "unfold"

\* R7: the same-step reads can be ordered.
Accepted(c, shape, form) ==
    /\ WellKeyed(c, shape, form)
    /\ Len(GreedyOrder(c, SameStep(c, form))) = Cardinality(c)

Plan(c, shape, form) ==
    [members |-> GreedyOrder(c, SameStep(c, form)), shape |-> shape, form |-> form]

\* element_dependencies: the elements that element (m, k) of a plan reads.
ElementDependencies(plan, m, k) ==
    LET targets(f) == {r[2] : r \in {x \in DOMAIN plan.form : x[1] = m /\ f \in plan.form[x]}}
        body == plan.shape[m] = "for" \/ k # 1 IN
    (IF body THEN targets("same") \X {k} ELSE {})
      \cup (IF k > 1 THEN targets("previous") \X {k - 1} ELSE {})
      \cup (IF k > 1 /\ plan.shape[m] = "unfold" THEN {<<m, k - 1>>} ELSE {})

-----------------------------------------------------------------------------
(* order_units.                                                             *)

Members(plan) == ToSet(plan.members)
Grouped == UNION {Members(p) : p \in ToSet(plans)}
SameGroup(a, b) == \E p \in ToSet(plans) : {a, b} \subseteq Members(p)

\* The reads of the declarations, in the order the graphs are filled in.
ReadEdges ==
    Filtered([k \in 1 .. N * N |-> <<((k - 1) \div N) + 1, ((k - 1) % N) + 1>>],
             {r \in Decls \X Decls : r[2] \in reads[r[1]]})

ScheduleInit ==
    /\ GraphIdle
    /\ reads \in [Decls -> SUBSET Decls]
    /\ Len(ReadEdges) <= MaxReads
    /\ stage = "start"
    /\ unchecked = <<>> /\ rejected = {} /\ plans = <<>> /\ units = <<>>

FindComponents ==
    /\ stage = "start"
    /\ \E edges \in {ReadEdges} : CyclicComponents(GraphOf(N, edges))
    /\ stage' = "components"
    /\ UNCHANGED <<reads, unchecked, rejected, plans, units>>

\* Without a cyclic component every declaration is a unit.
NoComponents ==
    /\ stage = "components" /\ task = "found" /\ components = <<>>
    /\ units' = [d \in Decls |-> {d}]
    /\ IntoTopoOrder(graph)
    /\ stage' = "units"
    /\ UNCHANGED <<reads, unchecked, rejected, plans>>

TakeComponents ==
    /\ stage = "components" /\ task = "found" /\ components # <<>>
    /\ unchecked' = components
    /\ stage' = "check"
    /\ UNCHANGED <<graphVars, reads, rejected, plans, units>>

CheckComponent ==
    /\ stage = "check" /\ unchecked # <<>>
    /\ LET c == Head(unchecked) IN
       \E shape \in [c -> Shapes], form \in [InGroup(c) -> ReadForms] :
         IF Accepted(c, shape, form)
         THEN plans' = Append(plans, Plan(c, shape, form)) /\ UNCHANGED rejected
         ELSE rejected' = rejected \cup {c} /\ UNCHANGED plans
    /\ unchecked' = Tail(unchecked)
    /\ UNCHANGED <<graphVars, reads, stage, units>>

\* Mutant: the reads inside accepted groups stay in the graph.
ContractNothing ==
    /\ stage = "check" /\ unchecked = <<>>
    /\ IntoTopoOrder(GraphOf(N, ReadEdges))
    /\ stage' = "contracted"
    /\ UNCHANGED <<reads, unchecked, rejected, plans, units>>

\* The graph without the reads inside accepted groups.
UngroupedReads == Filtered(ReadEdges, {r \in Decls \X Decls : ~SameGroup(r[1], r[2])})
Contract ==
    /\ stage = "check" /\ unchecked = <<>>
    /\ \E edges \in {UngroupedReads} : IntoTopoOrder(GraphOf(N, edges))
    /\ stage' = "contracted"
    /\ UNCHANGED <<reads, unchecked, rejected, plans, units>>

\* The rejection of the component the cycle's entry lies in, or else the cycle.
RejectSchedule ==
    /\ stage = "contracted" /\ task = "cyclic"
    /\ stage' = IF \E c \in rejected : cycle[1] \in c THEN "rejected" ELSE "cycle"
    /\ UNCHANGED <<graphVars, reads, unchecked, rejected, plans, units>>

\* unit_of, as the set of the unit's declarations.
UnitOf(d) == {d} \cup {m \in Grouped : SameGroup(d, m)}

\* The units in insertion order, and the edges between different ones.
UnitNodes ==
    LET firsts == Filtered([d \in Decls |-> d], {d \in Decls : d = Min(UnitOf(d))})
    IN [i \in DOMAIN firsts |-> UnitOf(firsts[i])]

UnitEdges ==
    LET nodes == UnitNodes
        position(d) == CHOOSE i \in DOMAIN nodes : d \in nodes[i]
        between == Filtered(ReadEdges, {r \in Decls \X Decls : UnitOf(r[1]) # UnitOf(r[2])})
    IN [i \in DOMAIN between |-> <<position(between[i][1]), position(between[i][2])>>]

OrderUnits ==
    /\ stage = "contracted" /\ task = "ordered"
    /\ units' = UnitNodes
    /\ \E edges \in {UnitEdges} : IntoTopoOrder(GraphOf(Len(UnitNodes), edges))
    /\ stage' = "units"
    /\ UNCHANGED <<reads, unchecked, rejected, plans>>

\* A cycle of units is reported as such; there should be none.
UnitsCyclic ==
    /\ stage = "units" /\ task = "cyclic"
    /\ stage' = "cycle"
    /\ UNCHANGED <<graphVars, reads, unchecked, rejected, plans, units>>

UnitsOrdered ==
    /\ stage = "units" /\ task = "ordered"
    /\ units' = [i \in DOMAIN order |-> units[order[i]]]
    /\ stage' = "scheduled"
    /\ UNCHANGED <<graphVars, reads, unchecked, rejected, plans>>

ScheduleStep ==
    \/ FindComponents \/ NoComponents \/ TakeComponents \/ CheckComponent
    \/ Contract \/ RejectSchedule \/ OrderUnits \/ UnitsCyclic \/ UnitsOrdered
    \/ GraphStep /\ UNCHANGED scheduleVars

-----------------------------------------------------------------------------
(* Properties.                                                              *)

\* Reference: the elements of c over two steps can be evaluated one after the other,
\* since among any of them one reads none of the others.
ElementsOrdered(c, shape, form) ==
    LET plan == [shape |-> shape, form |-> form] IN
    \A left \in (SUBSET (c \X (1 .. 2))) \ {{}} :
        \E e \in left : ElementDependencies(plan, e[1], e[2]) \cap left = {}

\* A component whose reads are all keyed by a step is accepted exactly when its
\* elements can be ordered: the check by members neither lets a group through that
\* would read ahead nor turns one away that could run.
AcceptanceExact ==
    stage = "check" /\ unchecked # <<>> =>
        LET c == Head(unchecked) IN
        \A shape \in [c -> {"for", "unfold"}], form \in [InGroup(c) -> ReadForms \ {{"other"}}] :
            (/\ \A m \in c : m \notin reads[m]
             /\ \A r \in DOMAIN form : "previous" \in form[r] => shape[r[1]] = "unfold")
            => (Accepted(c, shape, form) <=> ElementsOrdered(c, shape, form))

\* What the comments of order_units claim: a cycle left after contraction lies in a
\* rejected component, which explains it, and the units themselves have no cycle.
RejectionExplained ==
    /\ stage # "cycle"
    /\ stage = "scheduled" => rejected = {}
=============================================================================
