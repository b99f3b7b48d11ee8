---------------------------- MODULE PluginCache ----------------------------
(***************************************************************************)
(* PluginHost::load_cached and the SingleFlightLruCache behind it           *)
(* (crates/graphcal-plugin-host): threads that load plugin modules by the   *)
(* hash of their bytes share one compilation per hash, and completed        *)
(* outcomes stay resident within an entry and a byte budget.                *)
(*                                                                         *)
(* probe and complete run under the cache mutex and are atomic; the         *)
(* compilation runs outside it, in OnceLock::get_or_init.                   *)
(***************************************************************************)
EXTENDS Naturals, Sequences, FiniteSets, FiniteSetsExt

CONSTANTS
    Keys,        \* module hashes
    Threads,     \* callers of load_cached
    Cells,       \* OnceLock allocations
    NoCell,      \* not a cell
    NoKey,       \* not a key
    Size,        \* encoded bytes of a module
    MaxEntries,  \* PluginCacheLimits::max_entries
    MaxBytes,    \* PluginCacheLimits::max_encoded_bytes
    MaxPanics    \* bound on compilations that panic

ASSUME KeysAssumption == IsFiniteSet(Keys) /\ NoKey \notin Keys
ASSUME CellsAssumption == NoCell \notin Cells
ASSUME SizeAssumption == Size \in [Keys -> Nat]
ASSUME LimitsAssumption == MaxEntries \in Nat /\ MaxBytes \in Nat /\ MaxPanics \in Nat

VARIABLES
    ready,     \* keys with a resident outcome
    recency,   \* recency: least recently used first
    resident,  \* resident_encoded_bytes
    inFlight,  \* in_flight: the cell of a miss, NoCell when there is none
    filled,    \* the cells that hold a value
    pc,        \* where a thread is in load_cached
    key,       \* the hash it loads
    cell,      \* the cell it was handed
    panicked   \* the keys whose compilation panicked, one per panic

vars == <<ready, recency, resident, inFlight, filled, pc, key, cell, panicked>>

Init ==
    /\ ready = {}
    /\ recency = <<>>
    /\ resident = 0
    /\ inFlight = [k \in Keys |-> NoCell]
    /\ filled = {}
    /\ pc = [t \in Threads |-> "idle"]
    /\ key = [t \in Threads |-> NoKey]
    /\ cell = [t \in Threads |-> NoCell]
    /\ panicked = <<>>

-----------------------------------------------------------------------------
(* The bounded LRU.                                                         *)

Bytes(S) == MapThenSumSet(LAMBDA k : Size[k], S)

\* Mutant: a key in use is not moved, only added once more.
TouchedWithoutRemoval(k) == Append(recency, k)

\* touch removes the first position of the key and adds it at the end.
Touched(k) ==
    LET at == {i \in 1 .. Len(recency) : recency[i] = k}
        others == IF at = {} THEN recency
                  ELSE SubSeq(recency, 1, Min(at) - 1)
                       \o SubSeq(recency, Min(at) + 1, Len(recency))
    IN  Append(others, k)

\* The keys the first n rounds of the eviction loop pop.
Popped(n) == {recency[i] : i \in 1 .. n}

\* The condition of the eviction loop after n rounds, for an insertion of k.
OverBudget(k, n) ==
    \/ Cardinality(ready \ Popped(n)) >= MaxEntries
    \/ resident - Bytes(ready \cap Popped(n)) + Size[k] > MaxBytes

\* Mutant: evicted bytes are not given back.
InsertReadyLeaking(k) ==
    LET rounds == {n \in 0 .. Len(recency) : ~OverBudget(k, n)}
        n == IF rounds = {} THEN Len(recency) ELSE Min(rounds)
        kept == ready \ Popped(n)
        queue == SubSeq(recency, n + 1, Len(recency))
    IN  IF rounds = {}
        THEN ready' = kept /\ recency' = queue /\ resident' = resident
        ELSE /\ ready' = kept \cup {k}
             /\ recency' = Append(queue, k)
             /\ resident' = resident + Size[k]

\* insert_ready: pop until the outcome fits; if the queue runs out, it is lost.
InsertReady(k) ==
    LET rounds == {n \in 0 .. Len(recency) : ~OverBudget(k, n)}
        n == IF rounds = {} THEN Len(recency) ELSE Min(rounds)
        kept == ready \ Popped(n)
        queue == SubSeq(recency, n + 1, Len(recency))
        left == resident - Bytes(ready \cap Popped(n))
    IN  IF rounds = {}
        THEN ready' = kept /\ recency' = queue /\ resident' = left
        ELSE /\ ready' = kept \cup {k}
             /\ recency' = Append(queue, k)
             /\ resident' = left + Size[k]

\* Outcomes that insert_ready refuses outright.
Admissible(k) == MaxEntries # 0 /\ Size[k] <= MaxBytes

-----------------------------------------------------------------------------
(* load_cached.                                                             *)

Move(t, to) == pc' = [pc EXCEPT ![t] = to]

\* load_cached is over for t, and its Arc is dropped.
Leave(t) ==
    /\ Move(t, "idle")
    /\ key' = [key EXCEPT ![t] = NoKey]
    /\ cell' = [cell EXCEPT ![t] = NoCell]

\* A cell nobody holds an Arc of: its allocation may be used again.
Unreferenced(c) ==
    /\ \A k \in Keys : inFlight[k] # c
    /\ \A t \in Threads : cell[t] # c

\* probe finds a resident outcome, and load_cached returns it.
ProbeReady(t, k) ==
    /\ pc[t] = "idle"
    /\ k \in ready
    /\ recency' = Touched(k)
    /\ UNCHANGED <<ready, resident, inFlight, filled, pc, key, cell, panicked>>

\* probe joins the miss that is in flight.
ProbeJoin(t, k) ==
    /\ pc[t] = "idle"
    /\ k \notin ready
    /\ inFlight[k] # NoCell
    /\ Move(t, "pending")
    /\ key' = [key EXCEPT ![t] = k]
    /\ cell' = [cell EXCEPT ![t] = inFlight[k]]
    /\ UNCHANGED <<ready, recency, resident, inFlight, filled, panicked>>

\* probe starts a miss.
ProbeMiss(t, k) ==
    /\ pc[t] = "idle"
    /\ k \notin ready
    /\ inFlight[k] = NoCell
    /\ Move(t, "pending")
    /\ key' = [key EXCEPT ![t] = k]
    /\ \E c \in Cells :
          /\ Unreferenced(c)
          /\ cell' = [cell EXCEPT ![t] = c]
          /\ inFlight' = [inFlight EXCEPT ![k] = c]
          /\ filled' = filled \ {c}
    /\ UNCHANGED <<ready, recency, resident, panicked>>

\* get_or_init elects this thread.
ElectInitializer(t) ==
    /\ pc[t] = "pending"
    /\ cell[t] \notin filled
    /\ \A s \in Threads : ~(pc[s] = "compiling" /\ cell[s] = cell[t])
    /\ Move(t, "compiling")
    /\ UNCHANGED <<ready, recency, resident, inFlight, filled, key, cell, panicked>>

\* The compilation succeeds or fails; either outcome fills the cell.
FillCell(t) ==
    /\ pc[t] = "compiling"
    /\ filled' = filled \cup {cell[t]}
    /\ Move(t, "completing")
    /\ UNCHANGED <<ready, recency, resident, inFlight, key, cell, panicked>>

\* The compilation panics: the cell stays empty, the miss stays in flight, and
\* the thread unwinds out of load_cached.
Panic(t) ==
    /\ pc[t] = "compiling"
    /\ Len(panicked) < MaxPanics
    /\ panicked' = Append(panicked, key[t])
    /\ Leave(t)
    /\ UNCHANGED <<ready, recency, resident, inFlight, filled>>

\* Mutant: a waiter looks its cell up again instead of keeping the Arc.
TakeValueInFlight(t) ==
    /\ pc[t] = "pending"
    /\ cell[t] \in filled
    /\ inFlight[key[t]] = cell[t]
    /\ Move(t, "completing")
    /\ UNCHANGED <<ready, recency, resident, inFlight, filled, key, cell, panicked>>

\* get_or_init finds the value another thread computed.
TakeValue(t) ==
    /\ pc[t] = "pending"
    /\ cell[t] \in filled
    /\ Move(t, "completing")
    /\ UNCHANGED <<ready, recency, resident, inFlight, filled, key, cell, panicked>>

\* Mutant: any waiter completes whatever miss is in flight for its key.
CompleteAnyCell(t) ==
    /\ pc[t] = "completing"
    /\ Leave(t)
    /\ \/ /\ key[t] \in ready
          /\ recency' = Touched(key[t])
          /\ UNCHANGED <<ready, resident, inFlight>>
       \/ /\ key[t] \notin ready
          /\ inFlight' = [inFlight EXCEPT ![key[t]] = NoCell]
          /\ IF Admissible(key[t]) THEN InsertReady(key[t])
             ELSE UNCHANGED <<ready, recency, resident>>
    /\ UNCHANGED <<filled, panicked>>

\* complete: the first of the waiters of a cell promotes it; a waiter of a cell
\* that was promoted and evicted since then finds nothing, or another cell.
Complete(t) ==
    /\ pc[t] = "completing"
    /\ Leave(t)
    /\ \/ /\ key[t] \in ready
          /\ recency' = Touched(key[t])
          /\ UNCHANGED <<ready, resident, inFlight>>
       \/ /\ key[t] \notin ready
          /\ inFlight[key[t]] # cell[t]
          /\ UNCHANGED <<ready, recency, resident, inFlight>>
       \/ /\ key[t] \notin ready
          /\ inFlight[key[t]] = cell[t]
          /\ inFlight' = [inFlight EXCEPT ![key[t]] = NoCell]
          /\ IF Admissible(key[t]) THEN InsertReady(key[t])
             ELSE UNCHANGED <<ready, recency, resident>>
    /\ UNCHANGED <<filled, panicked>>

-----------------------------------------------------------------------------
Probe(t, k) == ProbeReady(t, k) \/ ProbeJoin(t, k) \/ ProbeMiss(t, k)

GetOrInit(t) == ElectInitializer(t) \/ FillCell(t) \/ TakeValue(t)

Next ==
    \/ \E t \in Threads, k \in Keys : Probe(t, k)
    \/ \E t \in Threads : GetOrInit(t) \/ Panic(t) \/ Complete(t)

Spec == Init /\ [][Next]_vars

\* A thread inside load_cached keeps running.
FairSpec == Spec /\ \A t \in Threads : WF_vars(GetOrInit(t) \/ Complete(t))

-----------------------------------------------------------------------------
(* Properties.                                                              *)

\* No two threads ever compile the same module at the same time, however
\* completions, evictions and new misses of its hash interleave
\* (SingleFlightLruCache: "evicting one could let the same key compile twice
\* concurrently").
SingleFlight ==
    \A s, t \in Threads :
        pc[s] = "compiling" /\ pc[t] = "compiling" /\ key[s] = key[t] => s = t

\* The queue lists every resident outcome exactly once, the byte counter is
\* their charge, so that it never falls below zero, and both budgets are kept.
CacheBounded ==
    /\ Len(recency) = Cardinality(ready)
    /\ {recency[i] : i \in 1 .. Len(recency)} = ready
    /\ resident = Bytes(ready)
    /\ resident <= MaxBytes
    /\ Cardinality(ready) <= MaxEntries

\* A hash is never resident and in flight at once, and a miss stays in flight
\* only while a call is working on it, unless its compilation panicked.
InFlightTransient ==
    \A k \in Keys : inFlight[k] # NoCell =>
        /\ k \notin ready
        /\ \/ \E t \in Threads : pc[t] # "idle" /\ key[t] = k /\ cell[t] = inFlight[k]
           \/ \E i \in 1 .. Len(panicked) : panicked[i] = k

\* A promotion of an outcome that fits the budgets on its own leaves it
\* resident: eviction always makes room for it.
PromotedIsResident ==
    [][\A k \in Keys :
          (inFlight[k] # NoCell /\ inFlight'[k] = NoCell /\ Admissible(k)) => k \in ready']_vars

\* Every load returns, also when the thread that was compiling for it panics.
LoadReturns == \A t \in Threads : pc[t] # "idle" ~> pc[t] = "idle"
=============================================================================
