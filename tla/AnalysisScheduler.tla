------------------------- MODULE AnalysisScheduler -------------------------
(***************************************************************************)
(* Admission of background analyses in the graphcal language server        *)
(* (crates/graphcal-lsp): change generations, the per-document cancellation *)
(* registry, the per-document and the global worker gates, the blocking     *)
(* worker closure that may outlive its timed-out waiter, and the record of  *)
(* which generation has settled.                                            *)
(*                                                                         *)
(* Every generation of a document is created by exactly one bump and owned  *)
(* by the analysis pass, or by the didClose, that made the bump.  pc[u][g]  *)
(* is the control point of that owner; closure[u][g] is the spawn_blocking  *)
(* closure, which runs on its own.  A step is the code between two points   *)
(* at which another task can observe the shared state.                      *)
(***************************************************************************)
EXTENDS Naturals, FiniteSets

CONSTANTS
    Docs,                  \* document URIs
    MaxGeneration,         \* bound on the bumps of one document
    MaxConcurrentAnalyses  \* MAX_CONCURRENT_ANALYSES, 2 in the server

ASSUME DocsAssumption == IsFiniteSet(Docs)
ASSUME MaxGenerationAssumption == MaxGeneration \in Nat \ {0}
ASSUME MaxConcurrentAssumption == MaxConcurrentAnalyses \in Nat \ {0}

Gens == 1 .. MaxGeneration

VARIABLES
    generation,  \* change_generations: the current generation, 0 before the first
    opened,      \* the documents whose entry in AnalysisScheduler.states is_open
    live,        \* the generations registered in the entry (its cancellations map)
    entryGate,   \* the entry's document_gate; 0 when there is no entry
    gates,       \* how many document gates (semaphores) were made for a document
    pc,          \* control point of the owner of a generation
    gate,        \* the document gate the owner was handed by register
    cancelled,   \* the generations whose CancellationSource is cancelled
    closure,     \* the owner's blocking closure
    settled      \* AnalysisSettlement.settled: the highest settled generation

entries == <<opened, live, entryGate>>

vars == <<generation, opened, live, entryGate, gates, pc, gate, cancelled, closure, settled>>

-----------------------------------------------------------------------------
(* The scheduling entry of a document.  Gates are numbered as they are made, *)
(* so that a semaphore is told from one made after the entry was removed.     *)

Present(u) == entryGate[u] # 0

\* AnalysisScheduler::finish, with the shell's removal of a closed and
\* quiescent entry.
Finish(u, g) ==
    /\ live' = [live EXCEPT ![u] = @ \ {g}]
    /\ entryGate' = [entryGate EXCEPT ![u] =
                         IF u \notin opened /\ live[u] \subseteq {g} THEN 0 ELSE @]
    /\ UNCHANGED opened

\* AnalysisScheduleState::cancel_all: cancel every registered generation of u.
CancelLive(u) == cancelled' = [cancelled EXCEPT ![u] = @ \cup live[u]]

\* is_generation_current
IsGenerationCurrent(u, g) == generation[u] = g

\* "cancellation.is_cancelled() || !is_generation_current": both only ever
\* rise, so reading them one after the other is as good as reading them at once.
Superseded(u, g) == g \in cancelled[u] \/ ~IsGenerationCurrent(u, g)

\* AnalysisSettlement::settle keeps the maximum.
Settle(u, g) ==
    settled' = [settled EXCEPT ![u] = IF @ < g THEN g ELSE @]

-----------------------------------------------------------------------------
(* Control points.                                                          *)

BumpedPc == {"bumpedDebounced", "bumpedInline", "closing"}

\* Between register and finish, while the waiter itself will call finish.
RegisteredPc == {"registered", "waitDocument", "gotDocument", "waitGlobal",
                 "gotGlobal", "snapshot", "running"}

\* The asynchronous task itself still owns the permits (before the closure
\* takes them over, and between an early finish and the return that drops them).
DocumentPermitPc == {"gotDocument", "waitGlobal", "gotGlobal", "snapshot",
                     "dropDocument", "dropBoth"}
GlobalPermitPc == {"gotGlobal", "snapshot", "dropBoth"}

PC == {"none", "debouncing", "ready", "dropDocument", "dropBoth", "computed",
       "timedOut", "finished", "done", "closeCancelled", "closeSettled"}
      \cup BumpedPc \cup RegisteredPc

HoldsDocumentPermit(u, g) ==
    pc[u][g] \in DocumentPermitPc \/ closure[u][g] = "running"

HoldsGlobalPermit(u, g) ==
    pc[u][g] \in GlobalPermitPc \/ closure[u][g] = "running"

GlobalHolders == {p \in Docs \X Gens : HoldsGlobalPermit(p[1], p[2])}

DocumentGateFree(u, n) ==
    \A g \in Gens : ~(gate[u][g] = n /\ HoldsDocumentPermit(u, g))

-----------------------------------------------------------------------------
Init ==
    /\ generation = [u \in Docs |-> 0]
    /\ opened = {}
    /\ live = [u \in Docs |-> {}]
    /\ entryGate = [u \in Docs |-> 0]
    /\ gates = [u \in Docs |-> 0]
    /\ pc = [u \in Docs |-> [g \in Gens |-> "none"]]
    /\ gate = [u \in Docs |-> [g \in Gens |-> 0]]
    /\ cancelled = [u \in Docs |-> {}]
    /\ closure = [u \in Docs |-> [g \in Gens |-> "none"]]
    /\ settled = [u \in Docs |-> 0]

\* didOpen, didChange and didSave announce the document to the scheduler
\* before anything else.
OpenDocument(u) ==
    /\ u \notin opened
    /\ opened' = opened \cup {u}
    /\ IF Present(u)
       THEN UNCHANGED <<entryGate, gates>>
       ELSE /\ entryGate' = [entryGate EXCEPT ![u] = gates[u] + 1]
            /\ gates' = [gates EXCEPT ![u] = @ + 1]
    /\ UNCHANGED <<generation, live, pc, gate, cancelled, closure, settled>>

\* bump_generation_value: the owner of the new generation starts at `at`.
\* Only a document that was opened at some time is ever bumped.
Bump(u, at) ==
    /\ gates[u] > 0
    /\ generation[u] < MaxGeneration
    /\ generation' = [generation EXCEPT ![u] = @ + 1]
    /\ pc' = [pc EXCEPT ![u][generation[u] + 1] = at]
    /\ UNCHANGED <<entries, gates, gate, cancelled, closure, settled>>

\* didChange and the importers of a changed document debounce; didOpen and
\* didSave analyse within the handler.
BumpDebounced(u) == Bump(u, "bumpedDebounced")
BumpInline(u) == Bump(u, "bumpedInline")

\* didClose bumps too: its generation has no pass.
BumpClose(u) == Bump(u, "closing")

AfterCancel(at) ==
    CASE at = "bumpedDebounced" -> "debouncing"
      [] at = "bumpedInline" -> "ready"
      [] OTHER -> "closeCancelled"

\* The second half of bump_generation: cancel_document.
CancelDocument(u, g) ==
    /\ pc[u][g] \in BumpedPc
    /\ CancelLive(u)
    /\ pc' = [pc EXCEPT ![u][g] = AfterCancel(@)]
    /\ UNCHANGED <<generation, entries, gates, gate, closure, settled>>

\* The debounce delay ends: a superseded pass gives up, unregistered and
\* without settling.
Debounced(u, g) ==
    /\ pc[u][g] = "debouncing"
    /\ pc' = [pc EXCEPT ![u][g] =
                  IF IsGenerationCurrent(u, g) THEN "ready" ELSE "done"]
    /\ UNCHANGED <<generation, entries, gates, gate, cancelled, closure, settled>>

\* AnalysisScheduler::register; a missing entry is created closed.
Register(u, g) ==
    /\ pc[u][g] = "ready"
    /\ LET n == IF Present(u) THEN entryGate[u] ELSE gates[u] + 1
       IN  /\ entryGate' = [entryGate EXCEPT ![u] = n]
           /\ gate' = [gate EXCEPT ![u][g] = n]
    /\ gates' = [gates EXCEPT ![u] = IF Present(u) THEN @ ELSE @ + 1]
    /\ live' = [live EXCEPT ![u] = @ \cup {g}]
    /\ pc' = [pc EXCEPT ![u][g] = "registered"]
    /\ UNCHANGED <<generation, opened, cancelled, closure, settled>>

\* A waiter that stops early calls finish and then returns through `next`,
\* which drops whatever permits it owns.
FinishEarly(u, g, next) ==
    /\ Finish(u, g)
    /\ pc' = [pc EXCEPT ![u][g] = next]

\* Mutant: a superseded pass is queued without looking.
CheckRegisteredBlindly(u, g) ==
    /\ pc[u][g] = "registered"
    /\ pc' = [pc EXCEPT ![u][g] = "waitDocument"]
    /\ UNCHANGED <<generation, entries, gates, gate, cancelled, closure, settled>>

CheckRegistered(u, g) ==
    /\ pc[u][g] = "registered"
    /\ IF IsGenerationCurrent(u, g)
       THEN /\ pc' = [pc EXCEPT ![u][g] = "waitDocument"]
            /\ UNCHANGED <<entries, cancelled>>
       ELSE /\ cancelled' = [cancelled EXCEPT ![u] = @ \cup {g}]
            /\ FinishEarly(u, g, "finished")
    /\ UNCHANGED <<generation, gates, gate, closure, settled>>

\* acquire_analysis_permit on the document gate.  The token is polled before
\* every attempt, so an attempt may still succeed after a cancellation.
AcquireDocument(u, g) ==
    /\ pc[u][g] = "waitDocument"
    /\ DocumentGateFree(u, gate[u][g])
    /\ pc' = [pc EXCEPT ![u][g] = "gotDocument"]
    /\ UNCHANGED <<generation, entries, gates, gate, cancelled, closure, settled>>

AbandonDocument(u, g) ==
    /\ pc[u][g] = "waitDocument"
    /\ g \in cancelled[u]
    /\ FinishEarly(u, g, "finished")
    /\ UNCHANGED <<generation, gates, gate, cancelled, closure, settled>>

CheckDocument(u, g) ==
    /\ pc[u][g] = "gotDocument"
    /\ IF Superseded(u, g)
       THEN FinishEarly(u, g, "dropDocument")
       ELSE /\ pc' = [pc EXCEPT ![u][g] = "waitGlobal"]
            /\ UNCHANGED entries
    /\ UNCHANGED <<generation, gates, gate, cancelled, closure, settled>>

AcquireGlobal(u, g) ==
    /\ pc[u][g] = "waitGlobal"
    /\ Cardinality(GlobalHolders) < MaxConcurrentAnalyses
    /\ pc' = [pc EXCEPT ![u][g] = "gotGlobal"]
    /\ UNCHANGED <<generation, entries, gates, gate, cancelled, closure, settled>>

AbandonGlobal(u, g) ==
    /\ pc[u][g] = "waitGlobal"
    /\ g \in cancelled[u]
    /\ FinishEarly(u, g, "dropDocument")
    /\ UNCHANGED <<generation, gates, gate, cancelled, closure, settled>>

\* The check before the input snapshot is taken, and the check after it; the
\* second one hands both permits to the blocking closure.
CheckGlobal(u, g) ==
    /\ pc[u][g] = "gotGlobal"
    /\ IF Superseded(u, g)
       THEN FinishEarly(u, g, "dropBoth")
       ELSE /\ pc' = [pc EXCEPT ![u][g] = "snapshot"]
            /\ UNCHANGED entries
    /\ UNCHANGED <<generation, gates, gate, cancelled, closure, settled>>

SpawnBlocking(u, g) ==
    /\ pc[u][g] = "snapshot"
    /\ IF Superseded(u, g)
       THEN /\ FinishEarly(u, g, "dropBoth")
            /\ UNCHANGED closure
       ELSE /\ pc' = [pc EXCEPT ![u][g] = "running"]
            /\ closure' = [closure EXCEPT ![u][g] = "running"]
            /\ UNCHANGED entries
    /\ UNCHANGED <<generation, gates, gate, cancelled, settled>>

\* An early return drops the permits after it has called finish.
DropPermits(u, g) ==
    /\ pc[u][g] \in {"dropDocument", "dropBoth"}
    /\ pc' = [pc EXCEPT ![u][g] = "finished"]
    /\ UNCHANGED <<generation, entries, gates, gate, cancelled, closure, settled>>

\* The blocking closure returns (with a result, Cancelled or a panic) and its
\* permits drop with it.
ClosureReturns(u, g) ==
    /\ closure[u][g] = "running"
    /\ closure' = [closure EXCEPT ![u][g] = "returned"]
    /\ UNCHANGED <<generation, entries, gates, pc, gate, cancelled, settled>>

\* The waiter joins the closure: a result goes on to be stored, Cancelled and
\* a panic end the pass.
JoinClosure(u, g) ==
    /\ pc[u][g] = "running"
    /\ closure[u][g] = "returned"
    /\ \E next \in {"computed", "finished"} : FinishEarly(u, g, next)
    /\ closure' = [closure EXCEPT ![u][g] = "joined"]
    /\ UNCHANGED <<generation, gates, gate, cancelled, settled>>

\* ANALYSIS_TIMEOUT elapses first: the closure is cancelled and left to a
\* cleanup task, permits and registration included.
Timeout(u, g) ==
    /\ pc[u][g] = "running"
    /\ cancelled' = [cancelled EXCEPT ![u] = @ \cup {g}]
    /\ pc' = [pc EXCEPT ![u][g] = "timedOut"]
    /\ UNCHANGED <<generation, entries, gates, gate, closure, settled>>

\* Mutant: the cleanup task forgets to finish the generation.
CleanupWithoutFinish(u, g) ==
    /\ pc[u][g] \in {"timedOut", "done"}
    /\ closure[u][g] = "returned"
    /\ closure' = [closure EXCEPT ![u][g] = "joined"]
    /\ UNCHANGED <<generation, entries, gates, pc, gate, cancelled, settled>>

\* The cleanup task joins the detached closure.
Cleanup(u, g) ==
    /\ pc[u][g] \in {"timedOut", "done"}
    /\ closure[u][g] = "returned"
    /\ Finish(u, g)
    /\ closure' = [closure EXCEPT ![u][g] = "joined"]
    /\ UNCHANGED <<generation, gates, pc, gate, cancelled, settled>>

\* A computed result was stored, or found stale without being worth a retry.
Conclude(u, g) ==
    /\ pc[u][g] = "computed"
    /\ pc' = [pc EXCEPT ![u][g] = "finished"]
    /\ UNCHANGED <<generation, entries, gates, gate, cancelled, closure, settled>>

\* AnalysisCompletion::Retry: the loop goes round under a new generation and
\* leaves the old one unsettled.
Retry(u, g) ==
    /\ pc[u][g] = "computed"
    /\ generation[u] < MaxGeneration
    /\ generation' = [generation EXCEPT ![u] = @ + 1]
    /\ pc' = [pc EXCEPT ![u][g] = "done", ![u][generation[u] + 1] = "bumpedInline"]
    /\ UNCHANGED <<entries, gates, gate, cancelled, closure, settled>>

\* Mutant: a pass that timed out never settles.
SettlePassUnlessTimedOut(u, g) ==
    /\ pc[u][g] = "finished"
    /\ Settle(u, g)
    /\ pc' = [pc EXCEPT ![u][g] = "done"]
    /\ UNCHANGED <<generation, entries, gates, gate, cancelled, closure>>

\* AnalysisCompletion::Done
SettlePass(u, g) ==
    /\ pc[u][g] \in {"finished", "timedOut"}
    /\ Settle(u, g)
    /\ pc' = [pc EXCEPT ![u][g] = "done"]
    /\ UNCHANGED <<generation, entries, gates, gate, cancelled, closure>>

\* Mutant: close_document removes the entry although work is unwinding.
CloseDocumentEagerly(u, g) ==
    /\ pc[u][g] = "closeSettled"
    /\ CancelLive(u)
    /\ opened' = opened \ {u}
    /\ entryGate' = [entryGate EXCEPT ![u] = 0]
    /\ pc' = [pc EXCEPT ![u][g] = "done"]
    /\ UNCHANGED <<generation, live, gates, gate, closure, settled>>

\* didClose settles its own generation, then closes the entry.
SettleClose(u, g) ==
    /\ pc[u][g] = "closeCancelled"
    /\ Settle(u, g)
    /\ pc' = [pc EXCEPT ![u][g] = "closeSettled"]
    /\ UNCHANGED <<generation, entries, gates, gate, cancelled, closure>>

CloseDocument(u, g) ==
    /\ pc[u][g] = "closeSettled"
    /\ CancelLive(u)
    /\ opened' = opened \ {u}
    /\ entryGate' = [entryGate EXCEPT ![u] = IF live[u] = {} THEN 0 ELSE @]
    /\ pc' = [pc EXCEPT ![u][g] = "done"]
    /\ UNCHANGED <<generation, live, gates, gate, closure, settled>>

\* shutdown: AnalysisScheduler::cancel_all
Shutdown ==
    /\ cancelled' = [u \in Docs |-> cancelled[u] \cup live[u]]
    /\ UNCHANGED <<generation, entries, gates, pc, gate, closure, settled>>

-----------------------------------------------------------------------------
\* What the client sends.
ClientStep(u) ==
    OpenDocument(u) \/ BumpDebounced(u) \/ BumpInline(u) \/ BumpClose(u)

\* What the task that owns a generation does next.
TaskStep(u, g) ==
    \/ CancelDocument(u, g)
    \/ Debounced(u, g)
    \/ Register(u, g)
    \/ CheckRegistered(u, g)
    \/ AcquireDocument(u, g)
    \/ AbandonDocument(u, g)
    \/ CheckDocument(u, g)
    \/ AcquireGlobal(u, g)
    \/ AbandonGlobal(u, g)
    \/ CheckGlobal(u, g)
    \/ SpawnBlocking(u, g)
    \/ DropPermits(u, g)
    \/ JoinClosure(u, g)
    \/ Conclude(u, g)
    \/ Retry(u, g)
    \/ SettlePass(u, g)
    \/ SettleClose(u, g)
    \/ CloseDocument(u, g)

Next ==
    \/ \E u \in Docs : ClientStep(u)
    \/ \E u \in Docs, g \in Gens :
          \/ TaskStep(u, g)
          \/ ClosureReturns(u, g)
          \/ Timeout(u, g)
          \/ Cleanup(u, g)
    \/ Shutdown

Spec == Init /\ [][Next]_vars

\* The runtime keeps polling every task, and a closure polls its token and
\* ends.  Nothing makes the client act or a timeout fire.
Fairness ==
    \A u \in Docs, g \in Gens :
        /\ WF_vars(TaskStep(u, g))
        /\ WF_vars(ClosureReturns(u, g))
        /\ WF_vars(Cleanup(u, g))

FairSpec == Spec /\ Fairness

-----------------------------------------------------------------------------
(* Properties.                                                              *)

\* The registry, the generations and the control points keep their types; a
\* settled generation never exceeds the bumps bump_generation_value can make.
TypeOK ==
    /\ generation \in [Docs -> 0 .. MaxGeneration]
    /\ opened \subseteq Docs
    /\ live \in [Docs -> SUBSET Gens]
    /\ entryGate \in [Docs -> Nat]
    /\ gates \in [Docs -> Nat]
    /\ pc \in [Docs -> [Gens -> PC]]
    /\ gate \in [Docs -> [Gens -> Nat]]
    /\ cancelled \in [Docs -> SUBSET Gens]
    /\ closure \in [Docs -> [Gens -> {"none", "running", "returned", "joined"}]]
    /\ settled \in [Docs -> 0 .. MaxGeneration]

\* At most one blocking closure of a document runs at a time, through
\* timeouts, closes, quick reopens and late registrations (the single-flight
\* promise of AnalysisScheduler).
SingleFlight ==
    \A u \in Docs : \A g, h \in Gens :
        closure[u][g] = "running" /\ closure[u][h] = "running" => g = h

\* No more closures than permits run, the ones whose waiter timed out
\* included ("Permits are owned by the blocking closures, not their async
\* waiters").
WorkerBound ==
    Cardinality({p \in Docs \X Gens : closure[p[1]][p[2]] = "running"})
        <= MaxConcurrentAnalyses

\* Work past its first generation check that is no longer current has been
\* cancelled, or the task that superseded it is just about to call
\* cancel_document: no queued or running analysis escapes a later edit.
StaleWorkCancelled ==
    \A u \in Docs : \A g \in Gens :
        /\ g \in live[u]
        /\ pc[u][g] # "registered"
        /\ ~IsGenerationCurrent(u, g)
        => \/ g \in cancelled[u]
           \/ \E h \in Gens : h > g /\ pc[u][h] \in BumpedPc

\* A closed entry exists only while old work is unwinding, and every
\* generation it still lists has a task left that will call finish for it:
\* quiescent closed entries do not leak.
ClosedEntriesUnwind ==
    \A u \in Docs :
        /\ Present(u) /\ u \notin opened => live[u] # {}
        /\ \A g \in live[u] :
              \/ pc[u][g] \in RegisteredPc
              \/ pc[u][g] \in {"timedOut", "done"}
                    /\ closure[u][g] \in {"running", "returned"}

\* The current generation is settled or somebody is still going to settle it:
\* neither a debounce that gives up nor a retry that leaves its generation
\* unsettled can strand a request waiting in wait_for_current.
SettlementNotStranded ==
    \A u \in Docs :
        generation[u] > 0 /\ settled[u] < generation[u]
            => pc[u][generation[u]] \notin {"none", "done", "closeSettled"}

\* While a document has work registered its entry keeps its gate: a quick
\* reopen reuses the semaphore of the work still unwinding.
GateKept ==
    [][\A u \in Docs :
          live[u] # {} /\ live'[u] # {} => entryGate'[u] = entryGate[u]]_vars

\* A request waiting for the current generation is answered: the settled
\* generation catches up with the current one, again and again.
SettlementCatchesUp ==
    \A u \in Docs : []<>(settled[u] >= generation[u])

\* A closed entry disappears unless the document is reopened.
ClosedEntriesReclaimed ==
    \A u \in Docs :
        (Present(u) /\ u \notin opened) ~> (~Present(u) \/ u \in opened)
=============================================================================
