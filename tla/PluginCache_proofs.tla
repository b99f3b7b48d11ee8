------------------------ MODULE PluginCache_proofs ------------------------
(***************************************************************************)
(* The plugin cache for any set of hashes, threads and cells, any sizes and   *)
(* any limits: single flight, and what its budgets allow.                    *)
(*                                                                         *)
(* Single flight: the cell a thread is compiling into is empty and is the    *)
(* one in flight for its hash.  Only complete takes a cell out of flight,    *)
(* and only a cell that is filled; a new cell goes in flight only where      *)
(* there is none.  So two threads compiling one hash are compiling into one  *)
(* cell, and get_or_init elects one thread per cell.                        *)
(*                                                                         *)
(* The budgets: the queue has every resident outcome once, so that evicting   *)
(* all of it would make room, and the shortest prefix that does exists.  The  *)
(* byte counter is the sum of the sizes; that it may be kept by additions and *)
(* subtractions is the lemma BytesSplit about the fold that defines the sum.  *)
(***************************************************************************)
EXTENDS PluginCache, FiniteSetTheorems, SequenceTheorems, TLAPS

\* The types the argument rests on.
ControlTypes ==
    /\ inFlight \in [Keys -> Cells \cup {NoCell}]
    /\ pc \in [Threads -> {"idle", "pending", "compiling", "completing"}]
    /\ key \in [Threads -> Keys \cup {NoKey}]
    /\ cell \in [Threads -> Cells \cup {NoCell}]

\* A thread inside load_cached has a hash and a cell.
InsideHasCell ==
    \A t \in Threads : pc[t] # "idle" => key[t] \in Keys /\ cell[t] \in Cells

\* The cell being compiled into is empty and in flight.
CompilingInFlight ==
    \A t \in Threads : pc[t] = "compiling" =>
        cell[t] \notin filled /\ inFlight[key[t]] = cell[t]

\* get_or_init elects one thread per cell.
OneInitializer ==
    \A s, t \in Threads :
        pc[s] = "compiling" /\ pc[t] = "compiling" /\ cell[s] = cell[t] => s = t

\* A thread that has its value took it from its cell.
CompletingFilled ==
    \A t \in Threads : pc[t] = "completing" => cell[t] \in filled

\* A waiter holds the cell in flight, or one that was completed before.
PendingHolds ==
    \A t \in Threads : pc[t] = "pending" =>
        cell[t] \in filled \/ inFlight[key[t]] = cell[t]

\* The inductive invariant behind single flight.
FlightInv ==
    /\ ControlTypes
    /\ InsideHasCell
    /\ CompilingInFlight
    /\ OneInitializer
    /\ CompletingFilled
    /\ PendingHolds

USE DEF Move, Leave

\* An empty cache without callers satisfies it.
LEMMA FlightInit == Init => FlightInv
  BY DEF Init, FlightInv, ControlTypes, InsideHasCell, CompilingInFlight,
         OneInitializer, CompletingFilled, PendingHolds

\* A probe keeps it: a new cell goes in flight only where there is none.
LEMMA FlightProbe ==
  ASSUME FlightInv, NEW t \in Threads, NEW k \in Keys, Probe(t, k)
  PROVE  FlightInv'
<1> USE DEF FlightInv, ControlTypes, InsideHasCell, CompilingInFlight,
            OneInitializer, CompletingFilled, PendingHolds
<1>1. CASE ProbeReady(t, k)
  BY <1>1 DEF ProbeReady
<1>2. CASE ProbeJoin(t, k)
  BY <1>2, CellsAssumption DEF ProbeJoin
<1>3. CASE ProbeMiss(t, k)
  <2>1. PICK c \in Cells :
           /\ Unreferenced(c)
           /\ cell' = [cell EXCEPT ![t] = c]
           /\ inFlight' = [inFlight EXCEPT ![k] = c]
           /\ filled' = filled \ {c}
    BY <1>3 DEF ProbeMiss
  <2>2. /\ pc' = [pc EXCEPT ![t] = "pending"]
        /\ key' = [key EXCEPT ![t] = k]
        /\ pc[t] = "idle" /\ inFlight[k] = NoCell
    BY <1>3 DEF ProbeMiss
  <2>3. /\ \A s \in Threads : cell[s] # c
        /\ \A j \in Keys : inFlight[j] # c
    BY <2>1 DEF Unreferenced
  <2>4. ControlTypes' /\ InsideHasCell'
    BY <2>1, <2>2
  <2>5. CompilingInFlight'
    BY <2>1, <2>2, <2>3, CellsAssumption
  <2>6. OneInitializer' /\ CompletingFilled'
    BY <2>1, <2>2, <2>3
  <2>7. PendingHolds'
    <3> SUFFICES ASSUME NEW s \in Threads, pc'[s] = "pending", cell'[s] \notin filled'
                 PROVE  inFlight'[key'[s]] = cell'[s]
      BY DEF PendingHolds
    <3>1. CASE s = t
      BY <3>1, <2>1, <2>2
    <3>2. CASE s # t
      <4>1. pc[s] = "pending" /\ cell[s] \notin filled /\ key[s] \in Keys /\ cell[s] \in Cells
        BY <3>2, <2>1, <2>2, <2>3
      <4>2. inFlight[key[s]] = cell[s]
        BY <4>1
      <4>3. key[s] # k
        BY <4>1, <4>2, <2>2, CellsAssumption
      <4> QED
        BY <3>2, <4>1, <4>2, <4>3, <2>1, <2>2
    <3> QED
      BY <3>1, <3>2
  <2> QED
    BY <2>4, <2>5, <2>6, <2>7
<1> QED
  BY <1>1, <1>2, <1>3 DEF Probe

\* get_or_init keeps it: it fills the cell in flight.
LEMMA FlightGetOrInit ==
  ASSUME FlightInv, NEW t \in Threads, GetOrInit(t) \/ Panic(t)
  PROVE  FlightInv'
<1> USE DEF FlightInv, ControlTypes, InsideHasCell, CompilingInFlight,
            OneInitializer, CompletingFilled, PendingHolds
<1>1. CASE ElectInitializer(t)
  BY <1>1 DEF ElectInitializer
<1>2. CASE FillCell(t)
  BY <1>2 DEF FillCell
<1>3. CASE TakeValue(t)
  BY <1>3 DEF TakeValue
<1>4. CASE Panic(t)
  BY <1>4 DEF Panic
<1> QED
  BY <1>1, <1>2, <1>3, <1>4 DEF GetOrInit

\* What complete does to the misses: it ends one only through its own cell.
LEMMA CompleteInFlight ==
  ASSUME NEW t \in Threads, Complete(t)
  PROVE  \/ inFlight' = inFlight
         \/ /\ inFlight[key[t]] = cell[t]
            /\ inFlight' = [inFlight EXCEPT ![key[t]] = NoCell]
  BY DEF Complete

\* complete keeps it: only a filled cell leaves flight.
LEMMA FlightComplete ==
  ASSUME FlightInv, NEW t \in Threads, Complete(t)
  PROVE  FlightInv'
<1> USE DEF FlightInv, ControlTypes, InsideHasCell, CompilingInFlight,
            OneInitializer, CompletingFilled, PendingHolds
<1>1. /\ pc[t] = "completing"
      /\ pc' = [pc EXCEPT ![t] = "idle"]
      /\ key' = [key EXCEPT ![t] = NoKey]
      /\ cell' = [cell EXCEPT ![t] = NoCell]
      /\ filled' = filled
  BY DEF Complete
<1>2. cell[t] \in filled /\ key[t] \in Keys /\ cell[t] \in Cells
  BY <1>1
<1>3. CASE inFlight' = inFlight
  BY <1>1, <1>2, <1>3
<1>4. CASE inFlight[key[t]] = cell[t] /\ inFlight' = [inFlight EXCEPT ![key[t]] = NoCell]
  <2>1. \A s \in Threads : pc[s] # "idle" /\ cell[s] \notin filled /\ inFlight[key[s]] = cell[s]
                             => inFlight'[key[s]] = cell[s]
    BY <1>2, <1>4
  <2> QED
    BY <1>1, <1>2, <1>4, <2>1
<1> QED
  BY <1>3, <1>4, CompleteInFlight

\* Every step of load_cached keeps it.
LEMMA FlightNext == FlightInv /\ [Next]_vars => FlightInv'
<1> SUFFICES ASSUME FlightInv, [Next]_vars PROVE FlightInv'
  OBVIOUS
<1>1. CASE UNCHANGED vars
  BY <1>1 DEF vars, FlightInv, ControlTypes, InsideHasCell, CompilingInFlight,
              OneInitializer, CompletingFilled, PendingHolds
<1>2. CASE Next
  BY <1>2, FlightProbe, FlightGetOrInit, FlightComplete DEF Next
<1> QED
  BY <1>1, <1>2

\* Every reachable state satisfies it.
LEMMA FlightInvariance == Spec => []FlightInv
  BY FlightInit, FlightNext, PTL DEF Spec

\* At any time at most one thread compiles a module, whatever completions,
\* evictions and new misses of its hash do (SingleFlightLruCache).
THEOREM SingleFlightTheorem == Spec => []SingleFlight
<1>1. FlightInv => SingleFlight
  BY DEF FlightInv, CompilingInFlight, OneInitializer, SingleFlight
<1> QED
  BY <1>1, FlightInvariance, PTL

-----------------------------------------------------------------------------
(* Misses are transient.                                                    *)

\* Some call works on the miss of k, or its compilation panicked.
Owned(k) ==
    \/ \E t \in Threads : pc[t] # "idle" /\ key[t] = k /\ cell[t] = inFlight[k]
    \/ \E i \in 1 .. Len(panicked) : panicked[i] = k

\* What is in flight is not resident and has somebody working on it.
TransientInv ==
    /\ panicked \in Seq(Keys)
    /\ \A k \in Keys : inFlight[k] # NoCell => k \notin ready /\ Owned(k)

\* Nothing is in flight at first.
LEMMA TransientInit == Init => TransientInv
  BY DEF Init, TransientInv

\* insert_ready makes nothing but its own key resident.
LEMMA InsertReadyAdds ==
  ASSUME NEW k, InsertReady(k)
  PROVE  ready' \subseteq ready \cup {k}
  BY DEF InsertReady

\* The caller of a probe that misses works on the new cell.
LEMMA TransientProbe ==
  ASSUME FlightInv, TransientInv, NEW t \in Threads, NEW k \in Keys, Probe(t, k)
  PROVE  TransientInv'
<1> USE DEF FlightInv, ControlTypes, InsideHasCell, TransientInv, Owned
<1>1. CASE ProbeReady(t, k)
  BY <1>1 DEF ProbeReady
<1>2. CASE ProbeJoin(t, k)
  BY <1>2, CellsAssumption DEF ProbeJoin
<1>3. CASE ProbeMiss(t, k)
  <2>1. PICK c \in Cells :
           /\ cell' = [cell EXCEPT ![t] = c]
           /\ inFlight' = [inFlight EXCEPT ![k] = c]
    BY <1>3 DEF ProbeMiss
  <2>2. /\ pc' = [pc EXCEPT ![t] = "pending"]
        /\ key' = [key EXCEPT ![t] = k]
        /\ pc[t] = "idle" /\ k \notin ready
        /\ UNCHANGED <<ready, panicked>>
    BY <1>3 DEF ProbeMiss
  <2> QED
    <3> SUFFICES ASSUME NEW j \in Keys, inFlight'[j] # NoCell
                 PROVE  j \notin ready' /\ Owned(j)'
      BY <2>2
    <3>1. CASE j = k
      BY <3>1, <2>1, <2>2
    <3>2. CASE j # k
      BY <3>2, <2>1, <2>2
    <3> QED
      BY <3>1, <3>2
<1> QED
  BY <1>1, <1>2, <1>3 DEF Probe

\* get_or_init leaves its caller at work.
LEMMA TransientGetOrInit ==
  ASSUME FlightInv, TransientInv, NEW t \in Threads, GetOrInit(t)
  PROVE  TransientInv'
<1> USE DEF FlightInv, ControlTypes, TransientInv, Owned
<1>1. CASE ElectInitializer(t)
  BY <1>1 DEF ElectInitializer
<1>2. CASE FillCell(t)
  BY <1>2 DEF FillCell
<1>3. CASE TakeValue(t)
  BY <1>3 DEF TakeValue
<1> QED
  BY <1>1, <1>2, <1>3 DEF GetOrInit

\* A panic takes its caller away and is recorded.
LEMMA TransientPanic ==
  ASSUME FlightInv, TransientInv, NEW t \in Threads, Panic(t)
  PROVE  TransientInv'
<1> USE DEF FlightInv, ControlTypes, InsideHasCell, TransientInv, Owned
<1>1. /\ pc[t] = "compiling"
      /\ panicked' = Append(panicked, key[t])
      /\ pc' = [pc EXCEPT ![t] = "idle"]
      /\ key' = [key EXCEPT ![t] = NoKey]
      /\ cell' = [cell EXCEPT ![t] = NoCell]
      /\ UNCHANGED <<ready, inFlight>>
  BY DEF Panic
<1>2. key[t] \in Keys
  BY <1>1
<1>3. /\ panicked' \in Seq(Keys)
      /\ Len(panicked') = Len(panicked) + 1
      /\ \A i \in 1 .. Len(panicked) : panicked'[i] = panicked[i]
      /\ panicked'[Len(panicked) + 1] = key[t]
      /\ Len(panicked) \in Nat
  BY <1>1, <1>2
<1>4. ASSUME NEW k \in Keys, inFlight[k] # NoCell PROVE Owned(k)'
  <2>1. CASE k = key[t]
    BY <2>1, <1>3
  <2>2. CASE \E i \in 1 .. Len(panicked) : panicked[i] = k
    BY <2>2, <1>3
  <2>3. CASE k # key[t] /\ \E s \in Threads : pc[s] # "idle" /\ key[s] = k /\ cell[s] = inFlight[k]
    BY <2>3, <1>1
  <2> QED
    BY <1>4, <2>1, <2>2, <2>3
<1> QED
  BY <1>1, <1>3, <1>4

\* complete takes the cell out of flight before its caller leaves.
LEMMA TransientComplete ==
  ASSUME FlightInv, TransientInv, NEW t \in Threads, Complete(t)
  PROVE  TransientInv'
<1> USE DEF FlightInv, ControlTypes, InsideHasCell, TransientInv, Owned
<1>1. /\ pc[t] = "completing"
      /\ pc' = [pc EXCEPT ![t] = "idle"]
      /\ key' = [key EXCEPT ![t] = NoKey]
      /\ cell' = [cell EXCEPT ![t] = NoCell]
      /\ panicked' = panicked
  BY DEF Complete
<1>2. key[t] \in Keys
  BY <1>1
\* The miss of another cell keeps the calls that work on it.
<1>3. ASSUME NEW k \in Keys, Owned(k), inFlight'[k] = inFlight[k],
             k # key[t] \/ inFlight[k] # cell[t]
      PROVE  Owned(k)'
  BY <1>1, <1>3
<1>4. CASE key[t] \in ready /\ UNCHANGED <<ready, inFlight>>
  BY <1>1, <1>2, <1>3, <1>4
<1>5. CASE inFlight[key[t]] # cell[t] /\ UNCHANGED <<ready, inFlight>>
  BY <1>1, <1>3, <1>5
<1>6. CASE /\ inFlight' = [inFlight EXCEPT ![key[t]] = NoCell]
           /\ ready' \subseteq ready \cup {key[t]}
  <2> SUFFICES ASSUME NEW k \in Keys, inFlight'[k] # NoCell
               PROVE  k \notin ready' /\ Owned(k)'
    BY <1>1
  <2>1. k # key[t] /\ inFlight'[k] = inFlight[k]
    BY <1>2, <1>6
  <2> QED
    BY <1>3, <1>6, <2>1
<1> QED
  BY <1>4, <1>5, <1>6, InsertReadyAdds DEF Complete

\* Every step of load_cached keeps it.
LEMMA TransientNext == FlightInv /\ TransientInv /\ [Next]_vars => TransientInv'
<1> SUFFICES ASSUME FlightInv, TransientInv, [Next]_vars PROVE TransientInv'
  OBVIOUS
<1>1. CASE UNCHANGED vars
  BY <1>1 DEF vars, TransientInv, Owned
<1>2. CASE Next
  BY <1>2, TransientProbe, TransientGetOrInit, TransientPanic, TransientComplete DEF Next
<1> QED
  BY <1>1, <1>2

\* A miss that is in flight is not resident, and some call is working on it
\* unless its compilation panicked: the in_flight map cannot grow without calls.
THEOREM InFlightTransientTheorem == Spec => []InFlightTransient
<1>1. TransientInv => InFlightTransient
  BY DEF TransientInv, Owned, InFlightTransient
<1>2. Spec => []TransientInv
  BY TransientInit, TransientNext, FlightInvariance, PTL DEF Spec
<1> QED
  BY <1>1, <1>2, PTL
-----------------------------------------------------------------------------
(* The charge of a set of modules: Bytes is a fold, which takes the elements in *)
(* an order of its own, and the charge does not depend on it.                    *)

AnyOf(s) == CHOOSE x \in s : TRUE

\* What the fold over S computes for the subsets of S, one after the other.
FoldsTo(S, f) ==
    f = [s \in SUBSET S |-> IF s = {} THEN 0 ELSE Size[AnyOf(s)] + f[s \ {AnyOf(s)}]]

LEMMA BytesIsFold ==
  ASSUME NEW S
  PROVE  Bytes(S) = (CHOOSE f : FoldsTo(S, f))[S]
BY DEF Bytes, MapThenSumSet, MapThenFoldSet, FoldsTo, AnyOf

LEMMA AnyOfIn ==
  ASSUME NEW s, s # {}
  PROVE  AnyOf(s) \in s /\ s \ {AnyOf(s)} # s
BY DEF AnyOf

\* Induction on finite sets, for a set of them: a smallest one outside has no reason.
LEMMA FiniteInduction ==
  ASSUME NEW U, IsFiniteSet(U), NEW P,
         \A S \in SUBSET U : (\A T \in SUBSET S : T # S => T \in P) => S \in P
  PROVE  \A S \in SUBSET U : S \in P
<1> SUFFICES ASSUME NEW S \in SUBSET U, S \notin P PROVE FALSE
  OBVIOUS
<1> DEFINE Smaller == StrictSubsetOrdering(U)
           bad == {T \in SUBSET U : T \notin P}
<1>1. IsWellFoundedOn(Smaller, SUBSET U)
  <2>1. FiniteSubsetsOf(U) = SUBSET U
    BY FS_FiniteSubsetsOfFinite
  <2>2. IsWellFoundedOn(Smaller, FiniteSubsetsOf(U))
    BY FS_StrictSubsetOrderingWellFounded
  <2> QED
    BY <2>1, <2>2
<1>2. bad \subseteq SUBSET U /\ bad # {}
  OBVIOUS
<1> HIDE DEF Smaller, bad
<1>3. PICK T \in bad : \A V \in bad : ~(<<V, T>> \in Smaller)
  BY <1>1, <1>2, WFMin
<1>4. T \in SUBSET U /\ T \notin P
  BY <1>3 DEF bad
<1>5. ASSUME NEW V \in SUBSET T, V # T PROVE V \in P
  <2>1. V \in SUBSET U /\ <<V, T>> \in Smaller
    BY <1>4, <1>5 DEF Smaller, StrictSubsetOrdering
  <2> QED
    BY <1>3, <2>1 DEF bad
<1> QED
  BY <1>4, <1>5

\* Two folds agree on what both compute.
LEMMA FoldsAgree ==
  ASSUME NEW S, NEW T, IsFiniteSet(S), S \subseteq T,
         NEW f, FoldsTo(S, f), NEW g, FoldsTo(T, g)
  PROVE  \A s \in SUBSET S : f[s] = g[s]
<1> DEFINE P == {s \in SUBSET S : f[s] = g[s]}
<1>1. ASSUME NEW s \in SUBSET S, \A t \in SUBSET s : t # s => t \in P
      PROVE  s \in P
  <2>1. CASE s = {}
    BY <2>1 DEF FoldsTo
  <2>2. CASE s # {}
    <3>1. PICK rest : rest = s \ {AnyOf(s)}
      OBVIOUS
    <3>2. rest \in SUBSET s /\ rest # s
      BY <2>2, <3>1, AnyOfIn
    <3>3. f[rest] = g[rest]
      BY <1>1, <3>2
    <3>4. f[s] = Size[AnyOf(s)] + f[rest]
      BY <2>2, <3>1 DEF FoldsTo
    <3>5. g[s] = Size[AnyOf(s)] + g[rest]
      <4>1. s \in SUBSET T
        OBVIOUS
      <4> QED
        BY <2>2, <3>1, <4>1 DEF FoldsTo
    <3> QED
      BY <3>3, <3>4, <3>5
  <2> QED
    BY <2>1, <2>2
<1> HIDE DEF P
<1>2. \A s \in SUBSET S : s \in P
  BY <1>1, FiniteInduction
<1> QED
  BY <1>2 DEF P

\* There is a fold over every finite set: its smaller sets have theirs.
LEMMA FoldExists ==
  ASSUME NEW U, IsFiniteSet(U)
  PROVE  \A S \in SUBSET U : \E f : FoldsTo(S, f)
<1> DEFINE P == {S \in SUBSET U : \E f : FoldsTo(S, f)}
<1>1. ASSUME NEW S \in SUBSET U, \A T \in SUBSET S : T # S => T \in P
      PROVE  \E f : FoldsTo(S, f)
  <2> DEFINE fold(T) == CHOOSE f : FoldsTo(T, f)
             sum(T) == IF T = {} THEN 0
                       ELSE Size[AnyOf(T)] + fold(T \ {AnyOf(T)})[T \ {AnyOf(T)}]
  <2>1. ASSUME NEW T \in SUBSET S, T # S PROVE FoldsTo(T, fold(T))
    <3>1. \E f : FoldsTo(T, f)
      BY <1>1, <2>1
    <3> QED
      BY <3>1
  <2>2. PICK f : f = [T \in SUBSET S |-> sum(T)]
    OBVIOUS
  <2>3. ASSUME NEW T \in SUBSET S, T # S PROVE fold(T)[T] = sum(T)
    <3>1. FoldsTo(T, fold(T))
      BY <2>1, <2>3
    <3>2. CASE T = {}
      BY <3>1, <3>2 DEF FoldsTo
    <3>3. CASE T # {}
      <4>1. PICK rest : rest = T \ {AnyOf(T)}
        OBVIOUS
      <4>2. rest \in SUBSET T /\ rest # T /\ rest \in SUBSET S /\ rest # S
        BY <3>3, <4>1, <2>3, AnyOfIn
      <4>3. FoldsTo(rest, fold(rest))
        BY <2>1, <4>2
      <4>4. IsFiniteSet(rest)
        BY <4>2, FS_Subset
      <4>5. PICK g : g = fold(T)
        OBVIOUS
      <4>6. PICK h : h = fold(rest)
        OBVIOUS
      <4>7. FoldsTo(T, g) /\ FoldsTo(rest, h)
        BY <3>1, <4>3, <4>5, <4>6
      <4> HIDE DEF fold
      <4>8. h[rest] = g[rest]
        BY <4>2, <4>4, <4>7, FoldsAgree
      <4>9. g[T] = Size[AnyOf(T)] + g[rest]
        BY <3>3, <4>1, <4>7 DEF FoldsTo
      <4> QED
        BY <3>3, <4>1, <4>5, <4>6, <4>8, <4>9
    <3> QED
      BY <3>2, <3>3
  <2> HIDE DEF fold
  <2>4. FoldsTo(S, f)
    <3>1. ASSUME NEW T \in SUBSET S
          PROVE  sum(T) = IF T = {} THEN 0 ELSE Size[AnyOf(T)] + f[T \ {AnyOf(T)}]
      <4>1. CASE T = {}
        BY <4>1
      <4>2. CASE T # {}
        <5>1. PICK rest : rest = T \ {AnyOf(T)}
          OBVIOUS
        <5>2. rest \in SUBSET S /\ rest # S
          BY <4>2, <5>1, AnyOfIn
        <5>3. f[rest] = sum(rest)
          BY <2>2, <5>2
        <5>4. f[rest] = fold(rest)[rest]
          BY <2>3, <5>2, <5>3
        <5> QED
          BY <4>2, <5>1, <5>4
      <4> QED
        BY <4>1, <4>2
    <3> HIDE DEF sum
    <3>2. [T \in SUBSET S |-> sum(T)] =
             [T \in SUBSET S |-> IF T = {} THEN 0 ELSE Size[AnyOf(T)] + f[T \ {AnyOf(T)}]]
      BY <3>1
    <3> QED
      BY <2>2, <3>2 DEF FoldsTo
  <2> QED
    BY <2>4
<1>2. ASSUME NEW S \in SUBSET U, \A T \in SUBSET S : T # S => T \in P
      PROVE  S \in P
  BY <1>1, <1>2
<1> HIDE DEF P
<1>3. \A S \in SUBSET U : S \in P
  BY <1>2, FiniteInduction
<1> QED
  BY <1>3 DEF P

\* The charge of a set is that of one element and of the rest.
LEMMA BytesStep ==
  ASSUME NEW S, IsFiniteSet(S)
  PROVE  Bytes(S) = IF S = {} THEN 0 ELSE Size[AnyOf(S)] + Bytes(S \ {AnyOf(S)})
<1>1. PICK f : f = CHOOSE g : FoldsTo(S, g)
  OBVIOUS
<1>2. \E g : FoldsTo(S, g)
  BY FoldExists
<1>3. FoldsTo(S, f) /\ Bytes(S) = f[S]
  BY <1>1, <1>2, BytesIsFold
<1>4. CASE S = {}
  BY <1>3, <1>4 DEF FoldsTo
<1>5. CASE S # {}
  <2>1. PICK rest : rest = S \ {AnyOf(S)}
    OBVIOUS
  <2>2. rest \in SUBSET S /\ rest # S
    BY <1>5, <2>1, AnyOfIn
  <2>3. IsFiniteSet(rest)
    BY <2>2, FS_Subset
  <2>4. PICK h : h = CHOOSE g : FoldsTo(rest, g)
    OBVIOUS
  <2>5. \E g : FoldsTo(rest, g)
    BY <2>3, FoldExists
  <2>6. FoldsTo(rest, h) /\ Bytes(rest) = h[rest]
    BY <2>4, <2>5, BytesIsFold
  <2>7. h[rest] = f[rest]
    BY <1>3, <2>2, <2>3, <2>6, FoldsAgree
  <2>8. f[S] = Size[AnyOf(S)] + f[rest]
    BY <1>3, <1>5, <2>1 DEF FoldsTo
  <2> QED
    BY <1>3, <1>5, <2>1, <2>6, <2>7, <2>8
<1> QED
  BY <1>4, <1>5

\* It is a number.
LEMMA BytesType ==
  ASSUME NEW S \in SUBSET Keys
  PROVE  IsFiniteSet(S) /\ Bytes(S) \in Nat
<1> DEFINE P == {T \in SUBSET Keys : Bytes(T) \in Nat}
<1>1. ASSUME NEW T \in SUBSET Keys, \A V \in SUBSET T : V # T => V \in P
      PROVE  T \in P
  <2>1. IsFiniteSet(T)
    BY KeysAssumption, FS_Subset
  <2>2. CASE T = {}
    <3>1. Bytes(T) = 0
      BY <2>1, <2>2, BytesStep
    <3> QED
      BY <3>1
  <2>3. CASE T # {}
    <3>1. PICK x : x = AnyOf(T)
      OBVIOUS
    <3>2. x \in T /\ T \ {x} # T /\ T \ {x} \in SUBSET T
      BY <2>3, <3>1, AnyOfIn
    <3>3. Bytes(T \ {x}) \in Nat
      BY <1>1, <3>2
    <3>4. Size[x] \in Nat
      BY <3>2, SizeAssumption
    <3>5. Bytes(T) = Size[x] + Bytes(T \ {x})
      BY <2>1, <2>3, <3>1, BytesStep
    <3>6. Bytes(T) \in Nat
      BY <3>3, <3>4, <3>5
    <3> QED
      BY <3>6
  <2> QED
    BY <2>2, <2>3
<1> HIDE DEF P
<1>2. \A T \in SUBSET Keys : T \in P
  BY <1>1, KeysAssumption, FiniteInduction
<1>3. IsFiniteSet(S)
  BY KeysAssumption, FS_Subset
<1> QED
  BY <1>2, <1>3 DEF P

\* Any element may be taken out first.
LEMMA BytesElement ==
  ASSUME NEW S \in SUBSET Keys, NEW k \in S
  PROVE  Bytes(S) = Size[k] + Bytes(S \ {k})
<1> DEFINE P == {T \in SUBSET Keys : \A j \in T : Bytes(T) = Size[j] + Bytes(T \ {j})}
<1>1. ASSUME NEW T \in SUBSET Keys, \A V \in SUBSET T : V # T => V \in P, NEW j \in T
      PROVE  Bytes(T) = Size[j] + Bytes(T \ {j})
  <2>1. PICK x : x = AnyOf(T)
    OBVIOUS
  <2>2. x \in T /\ T \ {x} # T /\ T \ {j} # T
    BY <2>1, AnyOfIn
  <2>3. Bytes(T) = Size[x] + Bytes(T \ {x})
    BY <2>1, BytesStep, BytesType
  <2>4. CASE x = j
    BY <2>3, <2>4
  <2>5. CASE x # j
    <3>1. T \ {x} \in P /\ T \ {j} \in P
      BY <1>1, <2>2
    <3>2. j \in T \ {x} /\ x \in T \ {j}
      BY <2>2, <2>5
    <3>3. Bytes(T \ {x}) = Size[j] + Bytes((T \ {x}) \ {j})
      BY <3>1, <3>2
    <3>4. Bytes(T \ {j}) = Size[x] + Bytes((T \ {j}) \ {x})
      BY <3>1, <3>2
    <3>5. PICK rest \in SUBSET Keys : rest = (T \ {x}) \ {j} /\ rest = (T \ {j}) \ {x}
      OBVIOUS
    <3>6. Size[x] \in Nat /\ Size[j] \in Nat /\ Bytes(rest) \in Nat
      BY <2>2, BytesType, SizeAssumption
    <3>7. Bytes(T \ {x}) = Size[j] + Bytes(rest) /\ Bytes(T \ {j}) = Size[x] + Bytes(rest)
      BY <3>3, <3>4, <3>5
    <3>8. PICK n \in Nat, nx \in Nat, nj \in Nat :
             n = Bytes(rest) /\ nx = Size[x] /\ nj = Size[j]
      BY <3>6
    <3>9. Bytes(T) = nx + (nj + n) /\ Bytes(T \ {j}) = nx + n
      BY <2>3, <3>7, <3>8
    <3>10. nx + (nj + n) = nj + (nx + n)
      BY <3>8
    <3> QED
      BY <3>8, <3>9, <3>10
  <2> QED
    BY <2>4, <2>5
<1>2. ASSUME NEW T \in SUBSET Keys, \A V \in SUBSET T : V # T => V \in P
      PROVE  T \in P
  BY <1>1, <1>2
<1> HIDE DEF P
<1>3. \A T \in SUBSET Keys : T \in P
  BY <1>2, KeysAssumption, FiniteInduction
<1> QED
  BY <1>3 DEF P

\* A set split in two is charged as its parts.
LEMMA BytesSplit ==
  ASSUME NEW S \in SUBSET Keys, NEW C
  PROVE  Bytes(S) = Bytes(S \cap C) + Bytes(S \ C)
<1> DEFINE P == {T \in SUBSET Keys : Bytes(T) = Bytes(T \cap C) + Bytes(T \ C)}
<1>1. ASSUME NEW T \in SUBSET Keys, \A V \in SUBSET T : V # T => V \in P
      PROVE  Bytes(T) = Bytes(T \cap C) + Bytes(T \ C)
  <2>1. CASE T = {}
    <3>1. T \cap C = {} /\ T \ C = {}
      BY <2>1
    <3>2. Bytes({}) = 0
      BY BytesStep, FS_EmptySet
    <3> QED
      BY <2>1, <3>1, <3>2
  <2>2. CASE T # {}
    <3>1. PICK x \in T : TRUE
      BY <2>2
    <3>2. PICK rest : rest = T \ {x} /\ rest \in SUBSET T /\ rest # T
      <4>1. T \ {x} \in SUBSET T /\ T \ {x} # T
        BY <3>1
      <4> QED
        BY <4>1
    <3>3. Bytes(T) = Size[x] + Bytes(rest)
      BY <3>2, BytesElement
    <3>4. Bytes(rest) = Bytes(rest \cap C) + Bytes(rest \ C)
      BY <1>1, <3>2
    <3>5. Size[x] \in Nat /\ Bytes(rest \cap C) \in Nat /\ Bytes(rest \ C) \in Nat
      <4>1. rest \cap C \in SUBSET Keys /\ rest \ C \in SUBSET Keys /\ x \in Keys
        BY <3>2
      <4> QED
        BY <4>1, BytesType, SizeAssumption
    <3>6. PICK nx \in Nat, nin \in Nat, nout \in Nat :
             nx = Size[x] /\ nin = Bytes(rest \cap C) /\ nout = Bytes(rest \ C)
      BY <3>5
    <3>7. /\ Bytes(T) = nx + (nin + nout)
          /\ nx + (nin + nout) = (nx + nin) + nout
          /\ nx + (nin + nout) = nin + (nx + nout)
      BY <3>3, <3>4, <3>6
    <3>8. CASE x \in C
      <4>1. rest \ C = T \ C /\ rest \cap C = (T \cap C) \ {x}
        BY <3>2, <3>8
      <4>2. x \in T \cap C /\ T \cap C \in SUBSET Keys
        BY <3>8
      <4>3. Bytes(T \cap C) = Size[x] + Bytes(rest \cap C)
        BY <4>1, <4>2, BytesElement
      <4> QED
        BY <3>6, <3>7, <4>1, <4>3
    <3>9. CASE x \notin C
      <4>1. rest \cap C = T \cap C /\ rest \ C = (T \ C) \ {x}
        BY <3>2, <3>9
      <4>2. x \in T \ C /\ T \ C \in SUBSET Keys
        BY <3>9
      <4>3. Bytes(T \ C) = Size[x] + Bytes(rest \ C)
        BY <4>1, <4>2, BytesElement
      <4> QED
        BY <3>6, <3>7, <4>1, <4>3
    <3> QED
      BY <3>8, <3>9
  <2> QED
    BY <2>1, <2>2
<1>2. ASSUME NEW T \in SUBSET Keys, \A V \in SUBSET T : V # T => V \in P
      PROVE  T \in P
  BY <1>1, <1>2
<1> HIDE DEF P
<1>3. \A T \in SUBSET Keys : T \in P
  BY <1>2, KeysAssumption, FiniteInduction
<1> QED
  BY <1>3 DEF P

-----------------------------------------------------------------------------
(* The budgets.                                                             *)

\* q has every element of S once and nothing else.
Lists(q, S) ==
    /\ q \in Seq(S)
    /\ \A i, j \in 1 .. Len(q) : q[i] = q[j] => i = j
    /\ \A k \in S : \E i \in 1 .. Len(q) : q[i] = k

\* The queue has the resident outcomes, the counter their charge, and both budgets are
\* kept: what CacheBounded says, of every key.
CacheInv ==
    /\ ready \subseteq Keys
    /\ Lists(recency, ready)
    /\ resident = Bytes(ready)
    /\ resident <= MaxBytes
    /\ Cardinality(ready) <= MaxEntries

LEMMA ListsLength ==
  ASSUME NEW q, NEW S, Lists(q, S)
  PROVE  IsFiniteSet(S) /\ Len(q) = Cardinality(S)
<1>1. Len(q) \in Nat /\ q \in [1 .. Len(q) -> S]
  BY DEF Lists
<1>2. q \in Bijection(1 .. Len(q), S)
  <2>1. \A i, j \in 1 .. Len(q) : q[i] = q[j] => i = j
    BY DEF Lists
  <2>2. \A k \in S : \E i \in 1 .. Len(q) : q[i] = k
    BY DEF Lists
  <2>3. q \in Injection(1 .. Len(q), S)
    BY <1>1, <2>1 DEF Injection, IsInjective
  <2>4. q \in Surjection(1 .. Len(q), S)
    BY <1>1, <2>2 DEF Surjection
  <2> QED
    BY <2>3, <2>4 DEF Bijection
<1>3. IsFiniteSet(1 .. Len(q)) /\ Cardinality(1 .. Len(q)) = Len(q)
  BY <1>1, FS_Interval
<1>4. ExistsBijection(1 .. Len(q), S)
  BY <1>2 DEF ExistsBijection
<1> QED
  BY <1>3, <1>4, FS_Bijection

\* A new key at the end.
LEMMA ListsAppend ==
  ASSUME NEW q, NEW S, Lists(q, S), NEW k, k \notin S
  PROVE  Lists(Append(q, k), S \cup {k})
<1>1. PICK t : t = Append(q, k)
  OBVIOUS
<1>2. q \in Seq(S \cup {k}) /\ Len(q) \in Nat
  BY DEF Lists
<1>3. /\ t \in Seq(S \cup {k}) /\ Len(t) = Len(q) + 1 /\ t[Len(q) + 1] = k
      /\ \A i \in 1 .. Len(q) : t[i] = q[i] /\ q[i] \in S
  BY <1>1, <1>2 DEF Lists
<1>4. \A i, j \in 1 .. Len(t) : t[i] = t[j] => i = j
  <2> SUFFICES ASSUME NEW i \in 1 .. Len(t), NEW j \in 1 .. Len(t), t[i] = t[j], i # j
               PROVE  FALSE
    OBVIOUS
  <2>1. \A l \in 1 .. Len(q) : t[l] # k
    BY <1>3
  <2>2. i # Len(q) + 1 /\ j # Len(q) + 1
    BY <1>2, <1>3, <2>1
  <2>3. i \in 1 .. Len(q) /\ j \in 1 .. Len(q)
    BY <1>2, <1>3, <2>2
  <2>4. q[i] = q[j]
    BY <1>3, <2>3
  <2> QED
    BY <2>3, <2>4 DEF Lists
<1>5. ASSUME NEW j \in S \cup {k} PROVE \E i \in 1 .. Len(t) : t[i] = j
  <2>1. CASE j = k
    BY <1>2, <1>3, <2>1
  <2>2. CASE j \in S
    <3>1. PICK i \in 1 .. Len(q) : q[i] = j
      BY <2>2 DEF Lists
    <3>2. i \in 1 .. Len(t) /\ t[i] = j
      BY <1>2, <1>3, <3>1
    <3> QED
      BY <3>2
  <2> QED
    BY <2>1, <2>2
<1> QED
  BY <1>1, <1>3, <1>4, <1>5 DEF Lists

\* The queue without its first n keys.
LEMMA ListsRest ==
  ASSUME NEW q, NEW S, Lists(q, S), NEW n \in 0 .. Len(q)
  PROVE  Lists(SubSeq(q, n + 1, Len(q)), S \ {q[i] : i \in 1 .. n})
<1>1. PICK t : t = SubSeq(q, n + 1, Len(q))
  OBVIOUS
<1>2. PICK T : T = S \ {q[i] : i \in 1 .. n}
  OBVIOUS
<1>3. Len(q) \in Nat /\ n \in Nat /\ n <= Len(q) /\ \A i \in 1 .. Len(q) : q[i] \in S
  BY DEF Lists
<1>4. /\ Len(t) = Len(q) - n /\ Len(t) \in Nat
      /\ \A i \in 1 .. Len(t) : t[i] = q[n + i]
      /\ t \in Seq(S)
  BY <1>1, <1>3 DEF Lists
<1>5. \A i \in 1 .. Len(t) : n + i \in 1 .. Len(q) /\ n + i \notin 1 .. n
  BY <1>3, <1>4
<1>6. \A i \in 1 .. Len(t) : t[i] \in T
  <2> SUFFICES ASSUME NEW i \in 1 .. Len(t) PROVE t[i] \in T
    OBVIOUS
  <2>1. n + i \in 1 .. Len(q) /\ n + i \notin 1 .. n /\ t[i] = q[n + i]
    BY <1>4, <1>5
  <2>2. \A j \in 1 .. n : j \in 1 .. Len(q) /\ j # n + i
    BY <1>3, <2>1
  <2>3. \A j \in 1 .. n : q[j] # q[n + i]
    BY <2>1, <2>2 DEF Lists
  <2> QED
    BY <1>2, <1>3, <2>1, <2>3
<1>7. t \in Seq(T)
  BY <1>4, <1>6
<1>8. \A i, j \in 1 .. Len(t) : t[i] = t[j] => i = j
  <2> SUFFICES ASSUME NEW i \in 1 .. Len(t), NEW j \in 1 .. Len(t), t[i] = t[j] PROVE i = j
    OBVIOUS
  <2>1. /\ n + i \in 1 .. Len(q) /\ t[i] = q[n + i]
        /\ n + j \in 1 .. Len(q) /\ t[j] = q[n + j]
    BY <1>4, <1>5
  <2>2. n + i = n + j
    BY <2>1 DEF Lists
  <2> QED
    BY <1>3, <2>2
<1>9. ASSUME NEW k \in T PROVE \E i \in 1 .. Len(t) : t[i] = k
  <2>1. PICK i \in 1 .. Len(q) : q[i] = k
    BY <1>2, <1>9 DEF Lists
  <2>2. i \notin 1 .. n
    BY <1>2, <1>9, <2>1
  <2>3. i - n \in 1 .. Len(t) /\ n + (i - n) = i
    BY <1>3, <1>4, <2>2
  <2> QED
    BY <1>4, <2>1, <2>3
<1> QED
  BY <1>1, <1>2, <1>7, <1>8, <1>9 DEF Lists

\* touch moves a key to the end of the queue.
LEMMA TouchedLists ==
  ASSUME CacheInv, NEW k \in ready
  PROVE  Lists(Touched(k), ready)
<1>1. PICK at \in 1 .. Len(recency) : recency[at] = k
  BY DEF CacheInv, Lists
<1>2. /\ recency \in Seq(ready) /\ Len(recency) \in Nat /\ at \in Nat
      /\ \A i \in 1 .. Len(recency) : recency[i] = k => i = at
      /\ \A i, j \in 1 .. Len(recency) : recency[i] = recency[j] => i = j
      /\ \A i \in 1 .. Len(recency) : recency[i] \in ready
  <2>1. /\ recency \in Seq(ready)
        /\ \A i, j \in 1 .. Len(recency) : recency[i] = recency[j] => i = j
    BY DEF CacheInv, Lists
  <2>2. Len(recency) \in Nat /\ \A i \in 1 .. Len(recency) : recency[i] \in ready
    BY <2>1
  <2> QED
    BY <1>1, <2>1, <2>2
<1>3. {i \in 1 .. Len(recency) : recency[i] = k} = {at}
  BY <1>1, <1>2
<1>4. Min({at}) = at
  BY <1>2 DEF Min
<1>5. PICK first : first = SubSeq(recency, 1, at - 1)
  OBVIOUS
<1>6. PICK second : second = SubSeq(recency, at + 1, Len(recency))
  OBVIOUS
<1>7. /\ first \in Seq(ready) /\ Len(first) = at - 1
      /\ \A i \in 1 .. at - 1 : first[i] = recency[i]
  BY <1>1, <1>2, <1>5
<1>8. /\ second \in Seq(ready) /\ Len(second) = Len(recency) - at
      /\ \A i \in 1 .. Len(recency) - at : second[i] = recency[at + i]
  BY <1>1, <1>2, <1>6
<1>9. PICK others : others = first \o second
  OBVIOUS
<1>10. /\ others \in Seq(ready) /\ Len(others) = Len(recency) - 1
       /\ \A i \in 1 .. Len(others) :
             others[i] = IF i < at THEN recency[i] ELSE recency[i + 1]
  <2>1. others \in Seq(ready) /\ Len(others) = Len(first) + Len(second)
    BY <1>7, <1>8, <1>9, ConcatProperties
  <2>2. Len(others) = Len(recency) - 1
    BY <1>1, <1>2, <1>7, <1>8, <2>1
  <2>3. \A i \in 1 .. Len(others) :
           others[i] = IF i <= Len(first) THEN first[i] ELSE second[i - Len(first)]
    BY <1>7, <1>8, <1>9, <2>1
  <2>4. ASSUME NEW i \in 1 .. Len(others), i < at PROVE others[i] = recency[i]
    BY <1>1, <1>2, <1>7, <2>2, <2>3, <2>4
  <2>5. ASSUME NEW i \in 1 .. Len(others), ~(i < at) PROVE others[i] = recency[i + 1]
    <3>1. /\ i - Len(first) \in 1 .. Len(recency) - at
          /\ ~(i <= Len(first)) /\ at + (i - Len(first)) = i + 1
      BY <1>1, <1>2, <1>7, <2>2, <2>5
    <3> QED
      BY <1>8, <2>3, <3>1
  <2> QED
    BY <2>1, <2>2, <2>4, <2>5
<1>11. Touched(k) = Append(others, k)
  BY <1>3, <1>4, <1>5, <1>6, <1>9 DEF Touched
<1>12. Lists(others, ready \ {k})
  <2>1. \A i \in 1 .. Len(others) : others[i] \in ready \ {k}
    <3> SUFFICES ASSUME NEW i \in 1 .. Len(others) PROVE others[i] \in ready \ {k}
      OBVIOUS
    <3>1. CASE i < at
      BY <1>1, <1>2, <1>10, <3>1
    <3>2. CASE ~(i < at)
      BY <1>1, <1>2, <1>10, <3>2
    <3> QED
      BY <3>1, <3>2
  <2>2. others \in Seq(ready \ {k})
    BY <1>10, <2>1
  <2>3. \A i, j \in 1 .. Len(others) : others[i] = others[j] => i = j
    <3> DEFINE from(i) == IF i < at THEN i ELSE i + 1
    <3>1. \A i \in 1 .. Len(others) :
             from(i) \in 1 .. Len(recency) /\ others[i] = recency[from(i)]
      BY <1>1, <1>2, <1>10
    <3>2. \A i, j \in 1 .. Len(others) : from(i) = from(j) => i = j
      BY <1>1, <1>2, <1>10
    <3> HIDE DEF from
    <3> QED
      BY <1>2, <3>1, <3>2
  <2>4. ASSUME NEW j \in ready \ {k} PROVE \E i \in 1 .. Len(others) : others[i] = j
    <3>1. PICK i \in 1 .. Len(recency) : recency[i] = j
      BY DEF CacheInv, Lists
    <3>2. CASE i < at
      <4>1. i \in 1 .. Len(others) /\ others[i] = j
        BY <1>1, <1>2, <1>10, <3>1, <3>2
      <4> QED
        BY <4>1
    <3>3. CASE at < i
      <4>1. i - 1 \in 1 .. Len(others) /\ others[i - 1] = j
        BY <1>1, <1>2, <1>10, <3>1, <3>3
      <4> QED
        BY <4>1
    <3>4. i # at
      BY <1>1, <2>4, <3>1
    <3> QED
      BY <1>2, <3>2, <3>3, <3>4
  <2> QED
    BY <2>2, <2>3, <2>4 DEF Lists
<1>13. (ready \ {k}) \cup {k} = ready
  OBVIOUS
<1> QED
  BY <1>11, <1>12, <1>13, ListsAppend

\* A set of natural numbers that is bounded has a least element, which Min is.
LEMMA MinOf ==
  ASSUME NEW n \in Nat, NEW S \in SUBSET (0 .. n), S # {}
  PROVE  Min(S) \in S
<1>1. \E m \in S : \A i \in S : m <= i
  <2> DEFINE R == OpToRel(<, Nat)
  <2>1. IsWellFoundedOn(R, Nat) /\ S \subseteq Nat
    BY NatLessThanWellFounded DEF OpToRel
  <2> HIDE DEF R
  <2>2. PICK m \in S : \A i \in S : ~(<<i, m>> \in R)
    BY <2>1, WFMin
  <2>3. \A i \in S : ~(i < m)
    BY <2>1, <2>2 DEF R, OpToRel
  <2> QED
    BY <2>3
<1> QED
  BY <1>1 DEF Min

\* insert_ready finds room for an outcome that fits on its own, and no more is evicted
\* than is charged for.
LEMMA InsertReadyKeeps ==
  ASSUME CacheInv, NEW k \in Keys, k \notin ready, Admissible(k), InsertReady(k)
  PROVE  CacheInv' /\ k \in ready'
<1>1. /\ recency \in Seq(ready) /\ Len(recency) \in Nat
      /\ ready \in SUBSET Keys /\ IsFiniteSet(ready)
  BY ListsLength DEF CacheInv, Lists
<1>2. PICK rounds : rounds = {n \in 0 .. Len(recency) : ~OverBudget(k, n)}
  OBVIOUS
<1>3. Len(recency) \in rounds
  <2>1. Popped(Len(recency)) = ready
    BY DEF CacheInv, Lists, Popped
  <2>2. ready \ ready = {} /\ ready \cap ready = ready
    OBVIOUS
  <2>3. Cardinality({}) = 0
    BY FS_EmptySet
  <2>4. ~(0 >= MaxEntries) /\ Size[k] <= MaxBytes /\ Size[k] \in Nat
    BY LimitsAssumption, SizeAssumption DEF Admissible
  <2>5. resident - Bytes(ready) + Size[k] = Size[k]
    <3>1. PICK a \in Nat, c \in Nat : a = Bytes(ready) /\ c = Size[k]
      BY <1>1, <2>4, BytesType
    <3>2. resident = a
      BY <3>1 DEF CacheInv
    <3>3. (a - a) + c = c
      BY <3>1
    <3> QED
      BY <3>1, <3>2, <3>3
  <2>6. ~OverBudget(k, Len(recency))
    <3>1. /\ Cardinality(ready \ Popped(Len(recency))) = 0
          /\ resident - Bytes(ready \cap Popped(Len(recency))) + Size[k] = Size[k]
      BY <2>1, <2>2, <2>3, <2>5
    <3>2. ~(Size[k] > MaxBytes)
      BY <2>4, LimitsAssumption
    <3> QED
      BY <2>4, <3>1, <3>2 DEF OverBudget
  <2> QED
    BY <1>1, <1>2, <2>6
<1>4. PICK n : n = Min(rounds)
  OBVIOUS
<1>5. n \in 0 .. Len(recency) /\ ~OverBudget(k, n)
  <2>1. rounds \in SUBSET (0 .. Len(recency)) /\ rounds # {}
    BY <1>2, <1>3
  <2>2. n \in rounds
    BY <1>1, <1>4, <2>1, MinOf
  <2> QED
    BY <1>2, <2>2
<1>6. PICK gone : gone = Popped(n)
  OBVIOUS
<1>7. PICK kept \in SUBSET ready : kept = ready \ gone
  OBVIOUS
<1>8. PICK queue : queue = SubSeq(recency, n + 1, Len(recency))
  OBVIOUS
<1>9. /\ ready' = kept \cup {k}
      /\ recency' = Append(queue, k)
      /\ resident' = (resident - Bytes(ready \cap gone)) + Size[k]
  <2>1. rounds # {}
    BY <1>3
  <2> QED
    BY <1>2, <1>4, <1>6, <1>7, <1>8, <2>1 DEF InsertReady
<1>10. Lists(queue, kept)
  BY <1>5, <1>6, <1>7, <1>8, ListsRest DEF CacheInv, Popped
<1>11. Lists(recency', ready')
  <2>1. k \notin kept
    OBVIOUS
  <2> QED
    BY <1>9, <1>10, <2>1, ListsAppend
<1>12. /\ Cardinality(kept) < MaxEntries
       /\ resident - Bytes(ready \cap gone) + Size[k] <= MaxBytes
  <2>1. IsFiniteSet(kept) /\ Cardinality(kept) \in Nat
    BY <1>10, ListsLength, FS_CardinalityType
  <2>2. ~(Cardinality(kept) >= MaxEntries)
    BY <1>5, <1>6, <1>7 DEF OverBudget
  <2>3. ~(resident - Bytes(ready \cap gone) + Size[k] > MaxBytes)
    BY <1>5, <1>6 DEF OverBudget
  <2>4. /\ resident \in Nat /\ Bytes(ready \cap gone) \in Nat /\ Size[k] \in Nat
        /\ MaxBytes \in Nat /\ MaxEntries \in Nat
    <3>1. ready \cap gone \in SUBSET Keys
      BY <1>1
    <3> QED
      BY <1>1, <3>1, BytesType, SizeAssumption, LimitsAssumption DEF CacheInv
  <2>5. PICK charge \in Int : charge = resident - Bytes(ready \cap gone) + Size[k]
    BY <2>4
  <2> QED
    BY <2>1, <2>2, <2>3, <2>4, <2>5
<1>13. Cardinality(kept \cup {k}) <= MaxEntries
  <2>1. IsFiniteSet(kept) /\ Cardinality(kept) \in Nat
    BY <1>10, ListsLength, FS_CardinalityType
  <2>2. Cardinality(kept \cup {k}) = Cardinality(kept) + 1
    BY <2>1, FS_AddElement
  <2> QED
    BY <1>12, <2>1, <2>2, LimitsAssumption
<1>14. resident' = Bytes(ready')
  <2>1. PICK now : now = kept \cup {k}
    OBVIOUS
  <2>2. now \in SUBSET Keys /\ k \in now /\ now \ {k} = kept /\ kept \in SUBSET Keys
    BY <1>1, <2>1
  <2>3. Bytes(now) = Size[k] + Bytes(kept)
    BY <2>2, BytesElement
  <2>4. Bytes(ready) = Bytes(ready \cap gone) + Bytes(kept)
    BY <1>1, <1>7, BytesSplit
  <2>5. PICK a \in Nat, b \in Nat, c \in Nat :
           a = Bytes(ready \cap gone) /\ b = Bytes(kept) /\ c = Size[k]
    <3>1. ready \cap gone \in SUBSET Keys
      BY <1>1
    <3> QED
      BY <2>2, <3>1, BytesType, SizeAssumption
  <2>6. resident = a + b
    BY <2>4, <2>5 DEF CacheInv
  <2>7. (a + b - a) + c = c + b
    BY <2>5
  <2> QED
    <3>1. resident' = (a + b - a) + c
      BY <1>9, <2>5, <2>6
    <3>2. Bytes(ready') = c + b
      BY <1>9, <2>1, <2>3, <2>5
    <3> QED
      BY <2>7, <3>1, <3>2
<1>15. resident' <= MaxBytes
  BY <1>9, <1>12
<1>16. ready' \subseteq Keys /\ Cardinality(ready') <= MaxEntries /\ k \in ready'
  BY <1>1, <1>9, <1>13
<1> QED
  BY <1>11, <1>14, <1>15, <1>16 DEF CacheInv

LEMMA CacheTouched ==
  ASSUME CacheInv, NEW k \in ready, recency' = Touched(k), UNCHANGED <<ready, resident>>
  PROVE  CacheInv'
<1>1. Lists(recency', ready')
  BY TouchedLists
<1> QED
  BY <1>1 DEF CacheInv

LEMMA CacheInit == Init => CacheInv
<1> SUFFICES ASSUME Init PROVE CacheInv
  OBVIOUS
<1>1. Lists(<<>>, {})
  BY DEF Lists
<1>2. Bytes({}) = 0 /\ Cardinality({}) = 0
  BY BytesStep, FS_EmptySet
<1> QED
  BY <1>1, <1>2, LimitsAssumption DEF Init, CacheInv

LEMMA CacheNext == FlightInv /\ CacheInv /\ [Next]_vars => CacheInv'
<1> SUFFICES ASSUME FlightInv, CacheInv, [Next]_vars PROVE CacheInv'
  OBVIOUS
<1>1. CASE UNCHANGED <<ready, recency, resident>>
  BY <1>1 DEF CacheInv
<1>2. CASE UNCHANGED vars
  BY <1>1, <1>2 DEF vars
<1>3. ASSUME NEW t \in Threads, NEW k \in Keys, Probe(t, k) PROVE CacheInv'
  <2>1. CASE ProbeReady(t, k)
    BY <2>1, CacheTouched DEF ProbeReady
  <2>2. CASE ProbeJoin(t, k) \/ ProbeMiss(t, k)
    BY <1>1, <2>2 DEF ProbeJoin, ProbeMiss
  <2> QED
    BY <1>3, <2>1, <2>2 DEF Probe
<1>4. ASSUME NEW t \in Threads, GetOrInit(t) \/ Panic(t) PROVE CacheInv'
  BY <1>1, <1>4 DEF GetOrInit, Panic, ElectInitializer, FillCell, TakeValue
<1>5. ASSUME NEW t \in Threads, Complete(t) PROVE CacheInv'
  <2>1. key[t] \in Keys
    BY <1>5 DEF Complete, FlightInv, InsideHasCell
  <2>2. CASE key[t] \in ready /\ recency' = Touched(key[t]) /\ UNCHANGED <<ready, resident>>
    BY <2>2, CacheTouched
  <2>3. CASE key[t] \notin ready /\ Admissible(key[t]) /\ InsertReady(key[t])
    BY <2>1, <2>3, InsertReadyKeeps
  <2> QED
    BY <1>1, <1>5, <2>2, <2>3 DEF Complete
<1> QED
  BY <1>2, <1>3, <1>4, <1>5 DEF Next

LEMMA CacheInvariance == Spec => []CacheInv
  BY CacheInit, CacheNext, FlightInvariance, PTL DEF Spec

\* Whatever is probed, promoted and evicted, the queue has every resident outcome once, the
\* byte counter is the sum of their sizes, and neither budget of PluginCacheLimits is exceeded
\* (insert_ready, touch).
THEOREM CacheBoundedTheorem == Spec => []CacheBounded
<1>1. CacheInv => CacheBounded
  <2> SUFFICES ASSUME CacheInv PROVE CacheBounded
    OBVIOUS
  <2>1. Len(recency) = Cardinality(ready)
    BY ListsLength DEF CacheInv
  <2>2. {recency[i] : i \in 1 .. Len(recency)} = ready
    BY DEF CacheInv, Lists
  <2> QED
    BY <2>1, <2>2 DEF CacheInv, CacheBounded
<1> QED
  BY <1>1, CacheInvariance, PTL

\* complete, which ends the miss of a module that fits the limits on its own, leaves its outcome
\* resident: insert_ready never runs out of entries to evict.
THEOREM PromotedIsResidentTheorem == Spec => PromotedIsResident
<1>1. ASSUME FlightInv, CacheInv, [Next]_vars, NEW k \in Keys,
             inFlight[k] # NoCell, inFlight'[k] = NoCell, Admissible(k)
      PROVE  k \in ready'
  <2>1. CASE UNCHANGED inFlight
    BY <1>1, <2>1
  <2>2. CASE UNCHANGED vars
    BY <2>1, <2>2 DEF vars
  <2>3. ASSUME NEW t \in Threads, NEW j \in Keys, Probe(t, j) PROVE k \in ready'
    <3>1. CASE ProbeReady(t, j) \/ ProbeJoin(t, j)
      BY <2>1, <3>1 DEF ProbeReady, ProbeJoin
    <3>2. CASE ProbeMiss(t, j)
      <4>1. PICK c \in Cells : inFlight' = [inFlight EXCEPT ![j] = c]
        BY <3>2 DEF ProbeMiss
      <4>2. inFlight'[k] = IF k = j THEN c ELSE inFlight[k]
        BY <1>1, <4>1 DEF FlightInv, ControlTypes
      <4> QED
        BY <1>1, <4>2, CellsAssumption
    <3> QED
      BY <2>3, <3>1, <3>2 DEF Probe
  <2>4. ASSUME NEW t \in Threads, GetOrInit(t) \/ Panic(t) PROVE k \in ready'
    BY <2>1, <2>4 DEF GetOrInit, Panic, ElectInitializer, FillCell, TakeValue
  <2>5. ASSUME NEW t \in Threads, Complete(t) PROVE k \in ready'
    <3>1. CASE /\ key[t] \notin ready
               /\ inFlight' = [inFlight EXCEPT ![key[t]] = NoCell]
               /\ IF Admissible(key[t]) THEN InsertReady(key[t])
                  ELSE UNCHANGED <<ready, recency, resident>>
      <4>1. k = key[t]
        BY <1>1, <3>1 DEF FlightInv, ControlTypes
      <4> QED
        BY <1>1, <3>1, <4>1, InsertReadyKeeps
    <3> QED
      BY <2>1, <2>5, <3>1 DEF Complete
  <2> QED
    BY <1>1, <2>2, <2>3, <2>4, <2>5 DEF Next
<1>2. FlightInv /\ CacheInv /\ [Next]_vars =>
         [\A k \in Keys : (inFlight[k] # NoCell /\ inFlight'[k] = NoCell /\ Admissible(k))
                            => k \in ready']_vars
  BY <1>1
<1> QED
  BY <1>2, FlightInvariance, CacheInvariance, PTL DEF Spec, PromotedIsResident
=============================================================================
