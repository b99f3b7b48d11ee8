------------------------ MODULE FormattingScheduler ------------------------
(***************************************************************************)
(* The bounded shell around the synchronous formatter                       *)
(* (crates/graphcal-lsp/src/formatting_scheduler.rs): requests queue for a  *)
(* permit, a blocking worker owns the permit until it exits, and the        *)
(* request that waits for it may time out or be dropped by the client.       *)
(***************************************************************************)
EXTENDS Naturals, Sequences, SequencesExt, FiniteSets

CONSTANTS
    Requests,      \* formatting requests
    Oversized,     \* the requests whose source exceeds the byte limit
    MaxConcurrent  \* FormattingPolicy::max_concurrent, 1 in the server

ASSUME RequestsAssumption == IsFiniteSet(Requests) /\ Oversized \subseteq Requests
ASSUME GateAssumption == MaxConcurrent \in Nat \ {0}

VARIABLES
    waiter,    \* the asynchronous side of a request
    queue,     \* the fair semaphore's waiting requests
    worker,    \* the blocking side
    cancelled  \* the requests whose token is cancelled

vars == <<waiter, queue, worker, cancelled>>

Outcomes == {"edits", "error", "cancelled", "panicked"}
Answers == {"edits", "error", "cancelled", "panicked", "tooLarge", "timeout", "dropped"}

Init ==
    /\ waiter = [r \in Requests |-> "unsent"]
    /\ queue = <<>>
    /\ worker = [r \in Requests |-> "none"]
    /\ cancelled = {}

\* Mutant: a permit belongs to the request, not to its worker.
PermitsOfWaiters == {r \in Requests : waiter[r] = "joining"}

\* The permits in use: a worker owns one until it exits.
PermitsInUse == {r \in Requests : worker[r] = "running"}

\* A document above the limit is refused before anything else.
Format(r) ==
    /\ waiter[r] = "unsent"
    /\ IF r \in Oversized
       THEN /\ waiter' = [waiter EXCEPT ![r] = "tooLarge"]
            /\ UNCHANGED queue
       ELSE /\ waiter' = [waiter EXCEPT ![r] = "queued"]
            /\ queue' = Append(queue, r)
    /\ UNCHANGED <<worker, cancelled>>

\* The first request in the queue gets a permit and spawns its worker with it.
Acquire ==
    /\ queue # <<>>
    /\ Cardinality(PermitsInUse) < MaxConcurrent
    /\ queue' = Tail(queue)
    /\ waiter' = [waiter EXCEPT ![Head(queue)] = "joining"]
    /\ worker' = [worker EXCEPT ![Head(queue)] = "running"]
    /\ UNCHANGED cancelled

\* The worker ends; it reports Cancelled only if it saw its token.
WorkerExits(r) ==
    /\ worker[r] = "running"
    /\ \E o \in Outcomes :
          /\ o = "cancelled" => r \in cancelled
          /\ worker' = [worker EXCEPT ![r] = o]
    /\ UNCHANGED <<waiter, queue, cancelled>>

\* task.await: the answer is the worker's outcome, and the cancel-on-drop
\* guard cancels a token nobody polls any more.
Join(r) ==
    /\ waiter[r] = "joining"
    /\ worker[r] \in Outcomes
    /\ waiter' = [waiter EXCEPT ![r] = worker[r]]
    /\ cancelled' = cancelled \cup {r}
    /\ UNCHANGED <<queue, worker>>

\* The queue after request r has left it.
Without(r) ==
    IF r \in ToSet(queue)
    THEN RemoveAt(queue, CHOOSE i \in DOMAIN queue : queue[i] = r)
    ELSE queue

\* Mutant: a timeout answers without cancelling the worker.
LeaveWithoutCancelling(r, answer) ==
    /\ waiter[r] \in {"queued", "joining"}
    /\ waiter' = [waiter EXCEPT ![r] = answer]
    /\ queue' = Without(r)
    /\ UNCHANGED <<worker, cancelled>>

\* The request gives up: its place in the queue is dropped with its future,
\* its worker is told and left alone.
Leave(r, answer) ==
    /\ waiter[r] \in {"queued", "joining"}
    /\ waiter' = [waiter EXCEPT ![r] = answer]
    /\ queue' = Without(r)
    /\ cancelled' = cancelled \cup {r}
    /\ UNCHANGED worker

\* Mutant: the timeout starts with the worker.
TimeoutOfWorker(r) == waiter[r] = "joining" /\ Leave(r, "timeout")

\* FORMATTING_TIMEOUT covers the wait for a permit as well.
Timeout(r) == Leave(r, "timeout")

\* The client cancels the request: its future is dropped (CancelOnDrop).
Dropped(r) == Leave(r, "dropped")

Next ==
    \/ Acquire
    \/ \E r \in Requests :
          Format(r) \/ WorkerExits(r) \/ Join(r) \/ Timeout(r) \/ Dropped(r)

Spec == Init /\ [][Next]_vars

\* Timers fire and futures are polled; no worker is assumed to exit.
TimerFairness ==
    /\ WF_vars(Acquire)
    /\ \A r \in Requests : WF_vars(Join(r)) /\ WF_vars(Timeout(r))

\* A worker whose token is cancelled polls it and exits.
CooperationFairness == \A r \in Requests : WF_vars(r \in cancelled /\ WorkerExits(r))

FairSpec == Spec /\ TimerFairness

-----------------------------------------------------------------------------
(* Properties.                                                              *)

\* The waiters, the queue, the workers and the tokens of run_job keep their types.
TypeOK ==
    /\ waiter \in [Requests -> Answers \cup {"unsent", "queued", "joining"}]
    /\ queue \in Seq(Requests)
    /\ worker \in [Requests -> Outcomes \cup {"none", "running"}]
    /\ cancelled \subseteq Requests

\* No more formatters run than the gate allows, the ones whose request is gone
\* included ("cannot admit replacement work until this synchronous worker has
\* actually exited").
FormatterBound == Cardinality({r \in Requests : worker[r] = "running"}) <= MaxConcurrent

\* The semaphore of run_job queues exactly the requests that still wait for a
\* permit: one that timed out or was dropped never takes a permit later and
\* formats for nobody.
QueueHoldsWaiting ==
    /\ ToSet(queue) = {r \in Requests : waiter[r] = "queued"}
    /\ \A i, j \in DOMAIN queue : queue[i] = queue[j] => i = j

\* A formatter whose request timed out or was dropped has had its token
\* cancelled (run_job's timeout branch and CancelOnDrop).
AbandonedCancelled ==
    \A r \in Requests : worker[r] = "running" /\ waiter[r] # "joining" => r \in cancelled

\* Every request that run_job queues is answered, even if a formatter before it never exits.
RequestAnswered == \A r \in Requests : waiter[r] = "queued" ~> waiter[r] \in Answers

\* The gate of run_job never stays taken by abandoned work: if a formatter
\* whose token is cancelled exits, every formatter that runs exits in the end,
\* because a request that goes away cancels its own.
GateRecovers ==
    CooperationFairness =>
        \A r \in Requests : worker[r] = "running" ~> worker[r] \in Outcomes
=============================================================================
