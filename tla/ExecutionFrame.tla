--------------------------- MODULE ExecutionFrame ---------------------------
(***************************************************************************)
(* The evaluator's frame: it runs the units of a callable's schedule in order, *)
(* a declaration as a whole and a recurrence group element by element, and     *)
(* records a value or a reason for having none for every declaration.          *)
(*                                                                         *)
(* An evaluation gives a value, fails (a domain violation included), or is      *)
(* incomplete because something it called is unfinished.  Values themselves are *)
(* left out.                                                                 *)
(***************************************************************************)
EXTENDS RuntimeSchedule

CONSTANTS
    Steps,        \* length of the recurrence axis
    MaxGiven,     \* bound: declarations that are supplied or unfinished
    MaxTroubles   \* bound: declarations whose evaluation fails or is incomplete

ASSUME FrameAssumption == Steps \in Nat \ {0} /\ MaxGiven \in Nat /\ MaxTroubles \in Nat

VARIABLES
    frame,     \* where the frame is
    policy,    \* FailurePolicy
    supplied,  \* params the caller gave a value
    todo,      \* unfinished nodes
    run,       \* the units left to run, each the sequence of its declarations
    values,    \* declarations that have a value
    errors,    \* why a declaration has none
    slots,     \* the elements of the group that runs
    problems,  \* the problems of its members
    element,   \* how many of its elements have been looked at
    origins    \* for the properties: how evaluations went wrong

groupVars == <<slots, problems, element>>
frameVars == <<frame, policy, supplied, todo, run, values, errors, groupVars, origins>>
vars == <<graphVars, scheduleVars, frameVars>>

\* NodeUnavailable: Todo, EvalFailed, or Blocked and DependencyFailed.  The callee a
\* call found unfinished is the declaration 0.
None == [kind |-> "none", unfinished |-> {}, failedDeps |-> {}]
Todo(d) == [kind |-> "todo", unfinished |-> {d}, failedDeps |-> {}]
EvalFailed == [kind |-> "failed", unfinished |-> {}, failedDeps |-> {}]
Incomplete == [kind |-> "blocked", unfinished |-> {0}, failedDeps |-> {}]

HasFailure(reason) == reason.kind = "failed" \/ reason.failedDeps # {}

\* blocked_by: the unfinished origins of the dependencies and those that failed.
BlockedBy(deps, reasons) ==
    LET unfinished == UNION {reasons[e].unfinished : e \in deps}
        failed == {e \in deps : HasFailure(reasons[e])} IN
    IF unfinished = {} /\ failed = {} THEN None
    ELSE [kind |-> "blocked", unfinished |-> unfinished, failedDeps |-> failed]

-----------------------------------------------------------------------------
(* The plan of a callable.                                                  *)

PlanOf(d) == {p \in ToSet(plans) : d \in Members(p)}
MembersOf(u) == LET p == PlanOf(Min(u)) IN
    IF p = {} THEN <<Min(u)>> ELSE (CHOOSE q \in p : TRUE).members

\* plan_recurrence: a group with unfinished members does not run as a group.
RunUnits(unfinished) ==
    FlattenSeq([i \in DOMAIN units |->
        LET members == MembersOf(units[i]) IN
        IF units[i] \cap unfinished = {} THEN <<members>>
        ELSE [k \in DOMAIN members |-> <<members[k]>>]])

\* CallablePlan::new: every read outside the own group is an earlier step.
StepsOrdered(unfinished) ==
    LET steps == FlattenSeq(RunUnits(unfinished)) IN
    \A i \in DOMAIN steps : \A e \in reads[steps[i]] \ UnitOf(steps[i]) :
        \E j \in 1 .. i - 1 : steps[j] = e

\* The callable is planned and its arguments are bound; one of them may violate its
\* domain.
Start ==
    /\ stage = "scheduled" /\ frame = "idle"
    /\ \E given, unfinished \in SUBSET Decls, bad \in SUBSET Decls :
         /\ given \cap unfinished = {} /\ bad \subseteq given
         /\ Cardinality(given \cup unfinished) <= MaxGiven
         /\ Cardinality(bad) <= MaxTroubles
         /\ policy' \in {"contain", "propagate"}
         /\ supplied' = given /\ todo' = unfinished
         /\ values' = given \ bad
         /\ errors' = [d \in Decls |-> IF d \in bad THEN EvalFailed ELSE None]
         /\ origins' = [d \in Decls |-> IF d \in bad THEN "failed" ELSE "none"]
         /\ run' = RunUnits(unfinished)
         /\ frame' = IF ~StepsOrdered(unfinished) THEN "refused"
                     ELSE IF bad # {} /\ policy' = "propagate" THEN "aborted" ELSE "run"
    /\ UNCHANGED <<graphVars, scheduleVars, groupVars>>

-----------------------------------------------------------------------------
(* Declarations.                                                            *)

\* How an evaluation may go, and what it leaves in origins.
Outcomes(d) ==
    {"value"} \cup
    (IF origins[d] # "none" \/ Cardinality({e \in Decls : origins[e] # "none"}) < MaxTroubles
     THEN {"failed", "incomplete"} ELSE {})
Note(d, outcome) ==
    origins' = [origins EXCEPT ![d] =
                  IF @ = "none" /\ outcome # "value" THEN outcome ELSE @]

\* The frame is given up: an error is returned instead of it, or cancellation.
Abort ==
    /\ frame' = "aborted"
    /\ UNCHANGED <<policy, supplied, todo, run, values, errors, groupVars>>

Unavailable(d) == {e \in reads[d] \ UnitOf(d) : errors[e] # None}

Recorded(d, reason) ==
    /\ errors' = [errors EXCEPT ![d] = reason]
    /\ run' = Tail(run)
    /\ UNCHANGED <<frame, policy, supplied, todo, values, groupVars>>

\* run_step, for a declaration without a value: unfinished, in a group with
\* unfinished members, or with unavailable inputs.
WithoutValue(d) ==
    LET unfinished == UnitOf(d) \cap todo IN
    IF d \in todo THEN Todo(d)
    ELSE BlockedBy(Unavailable(d) \cup unfinished,
                   [e \in Decls |-> IF e \in unfinished THEN Todo(e) ELSE errors[e]])

RunStep ==
    /\ frame = "run" /\ run # <<>> /\ Len(Head(run)) = 1
    /\ LET d == Head(run)[1] IN
       IF d \in values \/ errors[d] # None
       THEN /\ run' = Tail(run)
            /\ UNCHANGED <<frame, policy, supplied, todo, values, errors, groupVars, origins>>
       ELSE IF WithoutValue(d) # None
       THEN Recorded(d, WithoutValue(d)) /\ UNCHANGED origins
       ELSE \E outcome \in Outcomes(d) :
              /\ Note(d, outcome)
              /\ \/ /\ outcome = "value"
                    /\ values' = values \cup {d}
                    /\ run' = Tail(run)
                    /\ UNCHANGED <<frame, policy, supplied, todo, errors, groupVars>>
                 \/ outcome = "incomplete" /\ Recorded(d, Incomplete)
                 \/ outcome = "failed" /\ policy = "contain" /\ Recorded(d, EvalFailed)
                 \/ outcome = "failed" /\ policy = "propagate" /\ Abort
    /\ UNCHANGED <<graphVars, scheduleVars>>

-----------------------------------------------------------------------------
(* Recurrence groups.                                                       *)

Group == ToSet(Head(run))
GroupPlan == CHOOSE p \in ToSet(plans) : Members(p) = Group
Supplied(m) == m \in values

\* Supplied members are filled in; members with unavailable inputs outside the group
\* have a problem from the start.
EnterGroup ==
    /\ frame = "run" /\ run # <<>> /\ Len(Head(run)) > 1
    /\ slots' = [m \in Group |->
                   [k \in 1 .. Steps |-> IF Supplied(m) THEN "computed" ELSE "pending"]]
    /\ problems' = [m \in Group |->
                      IF Supplied(m) THEN None
                      ELSE IF errors[m] # None THEN errors[m]
                      ELSE BlockedBy(Unavailable(m), errors)]
    /\ element' = 0
    /\ frame' = "group"
    /\ UNCHANGED <<graphVars, scheduleVars, policy, supplied, todo, run, values, errors, origins>>

\* The member and the step whose turn it is: step by step, in plan order.
Member == Head(run)[(element % Len(Head(run))) + 1]
Step == (element \div Len(Head(run))) + 1

Slot(status) ==
    /\ slots' = [slots EXCEPT ![Member][Step] = status]
    /\ element' = element + 1
    /\ UNCHANGED frame

\* A member whose own evaluation failed goes on with its next element; one that was
\* unavailable from the start, or came back incomplete, does not.
GivenUp(m) == errors[m] # None \/ problems[m].kind = "blocked"

Problem(m, reason) ==
    problems' = [problems EXCEPT ![m] = IF @ = None THEN reason ELSE @]

\* Evaluates the element, whose dependencies are all computed.
EvaluateElement(m) ==
    \E outcome \in Outcomes(m) :
      /\ Note(m, outcome)
      /\ \/ outcome = "value" /\ Slot("computed") /\ UNCHANGED problems
         \/ outcome = "incomplete" /\ Slot("unavailable") /\ Problem(m, Incomplete)
         \/ /\ outcome = "failed" /\ policy = "contain"
            /\ Slot("failed") /\ Problem(m, EvalFailed)
         \/ /\ outcome = "failed" /\ policy = "propagate"
            /\ frame' = "aborted" /\ UNCHANGED groupVars

RunElement ==
    /\ frame = "group" /\ element < Steps * Len(Head(run))
    /\ LET m == Member
           dependencies == {slots[e[1]][e[2]] : e \in ElementDependencies(GroupPlan, m, Step)}
           state == GroupPlan.shape[m] = "unfold" /\ Step > 1 IN
       \/ /\ Supplied(m)
          /\ element' = element + 1
          /\ UNCHANGED <<frame, slots, problems, origins>>
       \/ /\ ~Supplied(m) /\ GivenUp(m)
          /\ Slot("unavailable") /\ UNCHANGED <<problems, origins>>
       \/ /\ ~Supplied(m) /\ ~GivenUp(m) /\ "pending" \in dependencies
          /\ frame' = "stuck" /\ UNCHANGED <<groupVars, origins>>
       \/ /\ ~Supplied(m) /\ ~GivenUp(m) /\ "pending" \notin dependencies
          /\ dependencies \cap {"failed", "unavailable"} # {}
          /\ Slot("unavailable") /\ UNCHANGED <<problems, origins>>
       \/ /\ ~Supplied(m) /\ ~GivenUp(m) /\ dependencies \subseteq {"computed"}
          /\ IF state /\ {slots[m][1], slots[m][Step - 1]} # {"computed"}
             THEN frame' = "stuck" /\ UNCHANGED <<groupVars, origins>>
             ELSE EvaluateElement(m)
    /\ UNCHANGED <<graphVars, scheduleVars, policy, supplied, todo, run, values, errors>>

\* The problems of the members become their reasons.
ReportProblems ==
    /\ frame = "group" /\ element = Steps * Len(Head(run))
    /\ errors' = [d \in Decls |->
         IF d \in Group /\ errors[d] = None THEN problems[d] ELSE errors[d]]
    /\ frame' = "spread" /\ element' = 0
    /\ UNCHANGED <<graphVars, scheduleVars, policy, supplied, todo, run, values, slots,
                   problems, origins>>

\* The members that m reads and that have a reason, the supplied ones left out.
TroubledReads(m) ==
    {r[2] : r \in {x \in DOMAIN GroupPlan.form :
                     x[1] = m /\ ~Supplied(x[2]) /\ errors[x[2]] # None}}

\* Mutant: a reason reaches only members whose own elements are missing.
CanSpreadPartly(m) ==
    /\ ~Supplied(m) /\ errors[m] = None /\ TroubledReads(m) # {}
    /\ \E k \in 1 .. Steps : slots[m][k] # "computed"

CanSpread(m) == ~Supplied(m) /\ errors[m] = None /\ TroubledReads(m) # {}

\* A member that reads one with a reason is unavailable as well.  The members are
\* looked at in plan order, again and again, until nothing changes.
SpreadReason ==
    /\ frame = "spread"
    /\ \E j \in DOMAIN Head(run) :
         LET at(i) == Head(run)[((element + i - 1) % Len(Head(run))) + 1] IN
         /\ CanSpread(at(j))
         /\ \A i \in 1 .. j - 1 : ~CanSpread(at(i))
         /\ errors' = [errors EXCEPT ![at(j)] = BlockedBy(TroubledReads(at(j)), errors)]
         /\ element' = (element + j) % Len(Head(run))
    /\ UNCHANGED <<graphVars, scheduleVars, frame, policy, supplied, todo, run, values, slots,
                   problems, origins>>

\* The members without a reason get their values; all their elements must be there.
GroupEnds ==
    /\ frame = "spread"
    /\ \A m \in Group : ~CanSpread(m)
    /\ LET fine == {m \in Group : ~Supplied(m) /\ errors[m] = None} IN
       /\ values' = values \cup fine
       /\ frame' = IF \E m \in fine : \E k \in 1 .. Steps : slots[m][k] # "computed"
                   THEN "stuck" ELSE "run"
    /\ run' = Tail(run)
    /\ slots' = <<>> /\ problems' = <<>> /\ element' = 0
    /\ UNCHANGED <<graphVars, scheduleVars, policy, supplied, todo, errors, origins>>

\* A checkpoint finds the token cancelled.
Cancel ==
    /\ frame \in {"run", "group"}
    /\ frame' = "aborted"
    /\ UNCHANGED <<graphVars, scheduleVars, policy, supplied, todo, run, values, errors,
                   groupVars, origins>>

RunEnds ==
    /\ frame = "run" /\ run = <<>>
    /\ frame' = "done"
    /\ UNCHANGED <<graphVars, scheduleVars, policy, supplied, todo, run, values, errors,
                   groupVars, origins>>

-----------------------------------------------------------------------------
Init ==
    /\ ScheduleInit
    /\ frame = "idle" /\ policy = "contain"
    /\ supplied = {} /\ todo = {} /\ run = <<>> /\ values = {}
    /\ errors = [d \in Decls |-> None]
    /\ slots = <<>> /\ problems = <<>> /\ element = 0
    /\ origins = [d \in Decls |-> "none"]

FrameStep ==
    \/ Start \/ RunStep \/ RunEnds
    \/ EnterGroup \/ RunElement \/ ReportProblems \/ SpreadReason \/ GroupEnds

Next ==
    \/ ScheduleStep /\ UNCHANGED frameVars
    \/ FrameStep
    \/ Cancel

Spec == Init /\ [][Next]_vars
FairSpec == Spec /\ WF_vars(Next)

-----------------------------------------------------------------------------
(* Properties.                                                              *)

\* The evaluator never meets an element that was not evaluated, and never refuses the
\* checker's schedule: its internal errors are unreachable, whatever is supplied,
\* unfinished or fails.
NeverStuck == frame \notin {"stuck", "refused"}

\* What a declaration needs: what it reads, unless it is supplied, and the unfinished
\* members of its group; and what is behind it, at any distance.
Needs(d) == IF d \in supplied THEN {} ELSE reads[d] \cup (UnitOf(d) \cap todo)
Behind(d) ==
    {e \in Decls : \A T \in SUBSET Decls :
        d \in T /\ (\A n \in T : Needs(n) \subseteq T) => e \in T}

\* A frame that ends has a value or a reason for every declaration, and a reason for
\* exactly those that need, at any distance, something unfinished or failed.  A
\* failure is reported where it happened, and a reason blames only what is there.
OutcomesExact ==
    frame = "done" =>
        \A d \in Decls :
            LET failed == {e \in Behind(d) : origins[e] = "failed"}
                unfinished == {e \in Behind(d) : e \in todo \/ origins[e] = "incomplete"} IN
            /\ d \in values <=> errors[d] = None
            /\ errors[d] = None <=> failed \cup unfinished = {}
            /\ errors[d].kind = "failed" <=> origins[d] = "failed"
            /\ HasFailure(errors[d]) => failed # {}
            /\ errors[d].unfinished # {} => unfinished # {}

\* Checking and evaluating end: no search, placing or spreading goes on for ever.
EvaluationEnds ==
    <>(stage \in {"rejected", "cycle"} \/ frame \in {"done", "aborted", "stuck", "refused"})
=============================================================================
