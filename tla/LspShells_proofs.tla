-------------------------- MODULE LspShells_proofs --------------------------
(***************************************************************************)
(* Two bounded shells of the language server, for any number of requests,     *)
(* permits, documents and files.                                             *)
(*                                                                         *)
(* The formatter's gate: the queue lists exactly the requests that wait, each *)
(* once.  A request that gives up leaves it in the step in which it stops      *)
(* waiting, so that a permit only goes to a request that still waits for one,   *)
(* and the worker it starts keeps the permit until it exits.                   *)
(*                                                                         *)
(* The publication of diagnostics: an update sends every URI whose diagnostics  *)
(* it can change, so that the newest message for a URI, waiting or sent, holds  *)
(* what is stored, however many passes and closes send at the same time.        *)
(***************************************************************************)
EXTENDS FormattingScheduler, DiagnosticsPublication, FiniteSetTheorems, SequenceTheorems, TLAPS

-----------------------------------------------------------------------------
(* The formatter's gate: FormattingScheduler.                                *)

\* A worker runs for a request only after it left the queue, and a request that
\* waits for its worker's outcome has one.
WorkersStarted ==
    \A r \in Requests : waiter[r] \in {"unsent", "queued"} => worker[r] = "none"

\* The inductive invariant.
IInv ==
    /\ TypeOK
    /\ QueueHoldsWaiting
    /\ WorkersStarted
    /\ FormatterBound
    /\ AbandonedCancelled

\* Without takes a request out of the queue and keeps the others, each once.
LEMMA WithoutQueue ==
    ASSUME NEW r \in Requests, queue \in Seq(Requests),
           \A i, j \in DOMAIN queue : queue[i] = queue[j] => i = j
    PROVE  /\ Without(r) \in Seq(Requests)
           /\ ToSet(Without(r)) = ToSet(queue) \ {r}
           /\ \A i, j \in DOMAIN Without(r) : Without(r)[i] = Without(r)[j] => i = j
<1>1. CASE r \notin ToSet(queue)
  BY <1>1 DEF Without
<1>2. CASE r \in ToSet(queue)
  <2> DEFINE k == CHOOSE i \in DOMAIN queue : queue[i] = r
             W == RemoveAt(queue, k)
  <2>1. k \in 1 .. Len(queue) /\ queue[k] = r
    BY <1>2 DEF ToSet
  <2>2. W = SubSeq(queue, 1, k - 1) \o SubSeq(queue, k + 1, Len(queue))
    BY DEF RemoveAt
  <2>3. /\ W \in Seq(Requests) /\ Len(W) = Len(queue) - 1
        /\ \A i \in 1 .. Len(queue) - 1 : W[i] = IF i < k THEN queue[i] ELSE queue[i + 1]
    <3> DEFINE A == SubSeq(queue, 1, k - 1)
               B == SubSeq(queue, k + 1, Len(queue))
    <3> HIDE DEF k, W
    <3>1. /\ A \in Seq(Requests) /\ Len(A) = k - 1
          /\ \A i \in 1 .. k - 1 : A[i] = queue[i]
      BY <2>1
    <3>2. /\ B \in Seq(Requests) /\ Len(B) = Len(queue) - k
          /\ \A i \in 1 .. Len(queue) - k : B[i] = queue[k + i]
      BY <2>1
    <3>3. W = A \o B
      BY <2>2
    <3> HIDE DEF A, B
    <3>4. /\ W \in Seq(Requests) /\ Len(W) = Len(A) + Len(B)
          /\ \A i \in 1 .. Len(A) + Len(B) :
               W[i] = IF i <= Len(A) THEN A[i] ELSE B[i - Len(A)]
      BY <3>1, <3>2, <3>3, ConcatProperties, ZenonT(30)
    <3>5. ASSUME NEW i \in 1 .. Len(queue) - 1
          PROVE  W[i] = IF i < k THEN queue[i] ELSE queue[i + 1]
      <4>1. CASE i < k
        BY <2>1, <3>1, <3>4, <4>1
      <4>2. CASE ~(i < k)
        <5>1. /\ i \in 1 .. Len(A) + Len(B) /\ ~(i <= Len(A))
              /\ i - (k - 1) \in 1 .. Len(queue) - k
          BY <2>1, <3>1, <3>2, <4>2
        <5>3. W[i] = B[i - (k - 1)]
          BY <3>1, <3>4, <5>1
        <5>2. k + (i - (k - 1)) = i + 1
          BY <2>1
        <5> QED BY <3>2, <4>2, <5>1, <5>2, <5>3
      <4> QED BY <4>1, <4>2
    <3>6. Len(W) = Len(queue) - 1
      BY <2>1, <3>1, <3>2, <3>4
    <3> QED BY <3>4, <3>5, <3>6
  <2>4. Without(r) = W
    BY <1>2 DEF Without
  <2> HIDE DEF k, W
  <2>5. ASSUME NEW i \in 1 .. Len(W), NEW j \in 1 .. Len(W), W[i] = W[j]
        PROVE  i = j
    <3> DEFINE at(n) == IF n < k THEN n ELSE n + 1
    <3>1. at(i) \in DOMAIN queue /\ at(j) \in DOMAIN queue
      BY <2>1, <2>3
    <3>2. queue[at(i)] = queue[at(j)]
      BY <2>1, <2>3, <2>5
    <3>3. at(i) = at(j)
      BY <3>1, <3>2
    <3> QED BY <2>1, <2>3, <3>3
  <2>6. ToSet(W) = ToSet(queue) \ {r}
    <3>1. ASSUME NEW x \in ToSet(W) PROVE x \in ToSet(queue) /\ x # r
      BY <2>1, <2>3 DEF ToSet
    <3>2. ASSUME NEW x \in ToSet(queue), x # r PROVE x \in ToSet(W)
      <4>1. PICK i \in 1 .. Len(queue) : queue[i] = x
        BY DEF ToSet
      <4>2. CASE i < k
        BY <2>1, <2>3, <3>2, <4>1, <4>2 DEF ToSet
      <4>3. CASE i > k
        <5>1. i - 1 \in 1 .. Len(W) /\ W[i - 1] = x
          BY <2>1, <2>3, <4>1, <4>3
        <5> QED BY <5>1, <2>3 DEF ToSet
      <4> QED BY <2>1, <3>2, <4>1, <4>2, <4>3
    <3> QED BY <3>1, <3>2
  <2> QED BY <2>3, <2>4, <2>5, <2>6
<1> QED BY <1>1, <1>2

\* A request that joins the queue's end.
LEMMA AppendQueue ==
    ASSUME NEW r \in Requests, queue \in Seq(Requests), r \notin ToSet(queue),
           \A i, j \in DOMAIN queue : queue[i] = queue[j] => i = j
    PROVE  /\ Append(queue, r) \in Seq(Requests)
           /\ ToSet(Append(queue, r)) = ToSet(queue) \cup {r}
           /\ \A i, j \in DOMAIN Append(queue, r) :
                Append(queue, r)[i] = Append(queue, r)[j] => i = j
<1> DEFINE A == Append(queue, r)
<1>1. /\ A \in Seq(Requests) /\ Len(A) = Len(queue) + 1
      /\ \A i \in 1 .. Len(queue) : A[i] = queue[i]
      /\ A[Len(queue) + 1] = r
  OBVIOUS
<1> HIDE DEF A
<1>2. \A i \in 1 .. Len(queue) : queue[i] # r
  BY DEF ToSet
<1>3. \A i, j \in 1 .. Len(A) : A[i] = A[j] => i = j
  BY <1>1, <1>2
<1>4. ToSet(A) = ToSet(queue) \cup {r}
  <2>1. ASSUME NEW x \in ToSet(A) PROVE x \in ToSet(queue) \cup {r}
    BY <1>1 DEF ToSet
  <2>2. ASSUME NEW x \in ToSet(queue) PROVE x \in ToSet(A)
    BY <1>1 DEF ToSet
  <2>3. r \in ToSet(A)
    BY <1>1 DEF ToSet
  <2> QED BY <2>1, <2>2, <2>3
<1> QED BY <1>1, <1>3, <1>4 DEF A

\* The first of the queue is taken.
LEMMA TailQueue ==
    ASSUME queue \in Seq(Requests), queue # <<>>,
           \A i, j \in DOMAIN queue : queue[i] = queue[j] => i = j
    PROVE  /\ Head(queue) \in ToSet(queue) /\ Head(queue) \in Requests
           /\ Tail(queue) \in Seq(Requests)
           /\ ToSet(Tail(queue)) = ToSet(queue) \ {Head(queue)}
           /\ \A i, j \in DOMAIN Tail(queue) : Tail(queue)[i] = Tail(queue)[j] => i = j
<1> DEFINE T == Tail(queue)
<1>1. /\ Head(queue) = queue[1] /\ Len(queue) >= 1
      /\ T \in Seq(Requests) /\ Len(T) = Len(queue) - 1
      /\ \A i \in 1 .. Len(queue) - 1 : T[i] = queue[i + 1]
  OBVIOUS
<1> HIDE DEF T
<1>2. Head(queue) \in ToSet(queue) /\ Head(queue) \in Requests
  BY <1>1 DEF ToSet
<1>3. \A i, j \in 1 .. Len(T) : T[i] = T[j] => i = j
  BY <1>1, SMTT(30)
<1>4. ToSet(T) = ToSet(queue) \ {Head(queue)}
  <2>1. ASSUME NEW x \in ToSet(T) PROVE x \in ToSet(queue) /\ x # Head(queue)
    BY <1>1 DEF ToSet
  <2>2. ASSUME NEW x \in ToSet(queue), x # Head(queue) PROVE x \in ToSet(T)
    <3>1. PICK i \in 1 .. Len(queue) : queue[i] = x
      BY DEF ToSet
    <3>2. i - 1 \in 1 .. Len(T) /\ T[i - 1] = x
      BY <1>1, <2>2, <3>1
    <3> QED BY <3>2, <1>1 DEF ToSet
  <2> QED BY <2>1, <2>2
<1> QED BY <1>1, <1>2, <1>3, <1>4 DEF T

-----------------------------------------------------------------------------
(* The inductive invariant.                                                 *)

LEMMA InitIInv == Init => IInv
<1> SUFFICES ASSUME Init PROVE IInv
  OBVIOUS
<1>1. TypeOK
  BY DEF Init, TypeOK
<1>2. QueueHoldsWaiting
  BY DEF Init, QueueHoldsWaiting, ToSet
<1>3. FormatterBound
  <2>1. {r \in Requests : worker[r] = "running"} = {}
    BY DEF Init
  <2> QED BY <2>1, FS_EmptySet, GateAssumption DEF FormatterBound
<1>4. WorkersStarted /\ AbandonedCancelled
  BY DEF Init, WorkersStarted, AbandonedCancelled
<1> QED BY <1>1, <1>2, <1>3, <1>4 DEF IInv

LEMMA FormatStep ==
    ASSUME IInv, NEW r \in Requests, Format(r) PROVE IInv'
<1> USE DEF IInv
<1>1. TypeOK /\ QueueHoldsWaiting /\ waiter[r] = "unsent" /\ r \notin ToSet(queue)
  BY DEF Format, QueueHoldsWaiting
<1>2. CASE r \in Oversized
  <2>1. waiter' = [waiter EXCEPT ![r] = "tooLarge"] /\ UNCHANGED <<queue, worker, cancelled>>
    BY <1>2 DEF Format
  <2>2. TypeOK'
    BY <2>1 DEF TypeOK, Answers
  <2>3. QueueHoldsWaiting'
    BY <1>1, <2>1 DEF TypeOK, QueueHoldsWaiting
  <2>4. WorkersStarted' /\ FormatterBound' /\ AbandonedCancelled'
    BY <1>1, <2>1 DEF TypeOK, WorkersStarted, FormatterBound, AbandonedCancelled
  <2> QED BY <2>2, <2>3, <2>4
<1>3. CASE r \notin Oversized
  <2>1. /\ waiter' = [waiter EXCEPT ![r] = "queued"] /\ queue' = Append(queue, r)
        /\ UNCHANGED <<worker, cancelled>>
    BY <1>3 DEF Format
  <2>2. /\ queue' \in Seq(Requests)
        /\ ToSet(queue') = ToSet(queue) \cup {r}
        /\ \A i, j \in DOMAIN queue' : queue'[i] = queue'[j] => i = j
    BY <1>1, <2>1, AppendQueue DEF TypeOK, QueueHoldsWaiting
  <2>3. TypeOK'
    BY <2>1, <2>2 DEF TypeOK
  <2>4. QueueHoldsWaiting'
    <3>1. {q \in Requests : waiter'[q] = "queued"}
            = {q \in Requests : waiter[q] = "queued"} \cup {r}
      BY <2>1 DEF TypeOK
    <3>2. ToSet(queue)' = ToSet(queue')
      BY DEF ToSet
    <3> QED BY <1>1, <2>2, <3>1, <3>2 DEF QueueHoldsWaiting
  <2>5. WorkersStarted' /\ FormatterBound' /\ AbandonedCancelled'
    BY <1>1, <2>1 DEF TypeOK, WorkersStarted, FormatterBound, AbandonedCancelled
  <2> QED BY <2>3, <2>4, <2>5
<1> QED BY <1>2, <1>3

\* The permit goes to a request that waits: the bound survives because the worker
\* is one more than the workers the guard counted.
LEMMA AcquireStep ==
    ASSUME IInv, Acquire PROVE IInv'
<1> USE DEF IInv
<1> DEFINE h == Head(queue)
           running == {r \in Requests : worker[r] = "running"}
<1>1. /\ h \in ToSet(queue) /\ h \in Requests
      /\ Tail(queue) \in Seq(Requests)
      /\ ToSet(Tail(queue)) = ToSet(queue) \ {h}
      /\ \A i, j \in DOMAIN Tail(queue) : Tail(queue)[i] = Tail(queue)[j] => i = j
  BY TailQueue DEF Acquire, TypeOK, QueueHoldsWaiting
<1>2. /\ queue' = Tail(queue) /\ waiter' = [waiter EXCEPT ![h] = "joining"]
      /\ worker' = [worker EXCEPT ![h] = "running"] /\ cancelled' = cancelled
      /\ Cardinality(running) < MaxConcurrent
  BY DEF Acquire, PermitsInUse
<1>3. waiter[h] = "queued" /\ worker[h] = "none"
  BY <1>1 DEF QueueHoldsWaiting, WorkersStarted
<1> HIDE DEF h
<1>4. TypeOK'
  BY <1>1, <1>2 DEF TypeOK
<1>5. QueueHoldsWaiting'
  <2>1. {q \in Requests : waiter'[q] = "queued"}
          = {q \in Requests : waiter[q] = "queued"} \ {h}
    BY <1>1, <1>2 DEF TypeOK
  <2>2. ToSet(queue)' = ToSet(Tail(queue))
    BY <1>2 DEF ToSet
  <2> QED BY <1>1, <1>2, <2>1, <2>2 DEF QueueHoldsWaiting
<1>6. WorkersStarted' /\ AbandonedCancelled'
  BY <1>1, <1>2 DEF TypeOK, WorkersStarted, AbandonedCancelled
<1>7. FormatterBound'
  <2>1. {r \in Requests : worker'[r] = "running"} = running \cup {h}
    BY <1>1, <1>2 DEF TypeOK
  <2>2. IsFiniteSet(running) /\ h \notin running
    BY <1>3, RequestsAssumption, FS_Subset
  <2>3. Cardinality(running \cup {h}) = Cardinality(running) + 1
    BY <2>2, FS_AddElement
  <2>4. Cardinality(running) \in Nat
    BY <2>2, FS_CardinalityType
  <2>5. Cardinality(running \cup {h}) <= MaxConcurrent
    <3> HIDE DEF running
    <3> QED BY <1>2, <2>3, <2>4, GateAssumption
  <2> QED BY <2>1, <2>5 DEF FormatterBound
<1> QED BY <1>4, <1>5, <1>6, <1>7

LEMMA WorkerExitsStep ==
    ASSUME IInv, NEW r \in Requests, WorkerExits(r) PROVE IInv'
<1> USE DEF IInv
<1> DEFINE running == {q \in Requests : worker[q] = "running"}
<1>1. PICK o \in Outcomes : worker' = [worker EXCEPT ![r] = o]
  BY DEF WorkerExits
<1>2. worker[r] = "running" /\ UNCHANGED <<waiter, queue, cancelled>>
  BY DEF WorkerExits
<1>3. o # "running" /\ o # "none"
  BY DEF Outcomes
<1>4. TypeOK'
  BY <1>1, <1>2 DEF TypeOK
<1>5. QueueHoldsWaiting'
  BY <1>2 DEF QueueHoldsWaiting, ToSet
<1>6. WorkersStarted' /\ AbandonedCancelled'
  BY <1>1, <1>2, <1>3 DEF TypeOK, WorkersStarted, AbandonedCancelled
<1>7. FormatterBound'
  <2>1. {q \in Requests : worker'[q] = "running"} \subseteq running
    BY <1>1, <1>3 DEF TypeOK
  <2>2. IsFiniteSet(running)
    BY RequestsAssumption, FS_Subset
  <2>3. /\ Cardinality({q \in Requests : worker'[q] = "running"}) <= Cardinality(running)
        /\ Cardinality({q \in Requests : worker'[q] = "running"}) \in Nat
        /\ Cardinality(running) \in Nat
    BY <2>1, <2>2, FS_Subset, FS_CardinalityType
  <2> QED BY <2>3, GateAssumption DEF FormatterBound
<1> QED BY <1>4, <1>5, <1>6, <1>7

LEMMA JoinStep ==
    ASSUME IInv, NEW r \in Requests, Join(r) PROVE IInv'
<1> USE DEF IInv
<1>1. /\ waiter[r] = "joining" /\ worker[r] \in Outcomes
      /\ waiter' = [waiter EXCEPT ![r] = worker[r]]
      /\ cancelled' = cancelled \cup {r} /\ UNCHANGED <<queue, worker>>
  BY DEF Join
<1>2. worker[r] \in Answers /\ worker[r] \notin {"unsent", "queued", "joining"}
  BY <1>1 DEF Outcomes, Answers
<1>3. TypeOK'
  BY <1>1, <1>2 DEF TypeOK
<1>4. QueueHoldsWaiting'
  BY <1>1, <1>2 DEF TypeOK, QueueHoldsWaiting, ToSet
<1>5. WorkersStarted' /\ FormatterBound' /\ AbandonedCancelled'
  BY <1>1, <1>2 DEF TypeOK, WorkersStarted, FormatterBound, AbandonedCancelled
<1> QED BY <1>3, <1>4, <1>5

\* A request that gives up leaves the queue and cancels its token in one step.
LEMMA LeaveStep ==
    ASSUME IInv, NEW r \in Requests, NEW answer \in {"timeout", "dropped"},
           Leave(r, answer)
    PROVE  IInv'
<1> USE DEF IInv
<1>1. /\ waiter' = [waiter EXCEPT ![r] = answer] /\ queue' = Without(r)
      /\ cancelled' = cancelled \cup {r} /\ worker' = worker
  BY DEF Leave
<1>2. /\ queue' \in Seq(Requests)
      /\ ToSet(Without(r)) = ToSet(queue) \ {r}
      /\ \A i, j \in DOMAIN queue' : queue'[i] = queue'[j] => i = j
  BY <1>1, WithoutQueue DEF TypeOK, QueueHoldsWaiting
<1>3. TypeOK'
  BY <1>1, <1>2 DEF TypeOK, Answers
<1>4. QueueHoldsWaiting'
  <2>1. {q \in Requests : waiter'[q] = "queued"}
          = {q \in Requests : waiter[q] = "queued"} \ {r}
    BY <1>1 DEF TypeOK
  <2>2. ToSet(queue)' = ToSet(Without(r))
    BY <1>1 DEF ToSet
  <2> QED BY <1>2, <2>1, <2>2 DEF QueueHoldsWaiting
<1>5. WorkersStarted' /\ FormatterBound' /\ AbandonedCancelled'
  BY <1>1 DEF TypeOK, WorkersStarted, FormatterBound, AbandonedCancelled
<1> QED BY <1>3, <1>4, <1>5

LEMMA NextIInv == IInv /\ [Next]_vars => IInv'
<1> SUFFICES ASSUME IInv, [Next]_vars PROVE IInv'
  OBVIOUS
<1>1. CASE Acquire
  BY <1>1, AcquireStep
<1>2. ASSUME NEW r \in Requests,
             Format(r) \/ WorkerExits(r) \/ Join(r) \/ Timeout(r) \/ Dropped(r)
      PROVE  IInv'
  BY <1>2, FormatStep, WorkerExitsStep, JoinStep, LeaveStep DEF Timeout, Dropped
<1>3. CASE UNCHANGED vars
  BY <1>3 DEF vars, IInv, TypeOK, QueueHoldsWaiting, WorkersStarted, FormatterBound,
              AbandonedCancelled, ToSet
<1> QED BY <1>1, <1>2, <1>3 DEF Next

LEMMA Invariance == Spec => []IInv
BY InitIInv, NextIInv, PTL DEF Spec

-----------------------------------------------------------------------------
(* Theorems.                                                                *)

\* The state of the formatting shell (run_job) keeps its types.
THEOREM TypeCorrect == Spec => []TypeOK
BY Invariance, PTL DEF IInv

\* However many requests come, time out or are dropped, no more formatters run than
\* the semaphore of run_job has permits.
THEOREM FormatterBoundTheorem == Spec => []FormatterBound
BY Invariance, PTL DEF IInv

\* run_job's semaphore queues exactly the requests that still wait, each once.
THEOREM QueueHoldsWaitingTheorem == Spec => []QueueHoldsWaiting
BY Invariance, PTL DEF IInv

\* A formatter whose request is gone has had its token cancelled (run_job's timeout
\* branch and CancelOnDrop).
THEOREM AbandonedCancelledTheorem == Spec => []AbandonedCancelled
BY Invariance, PTL DEF IInv

-----------------------------------------------------------------------------
(* From the stored analyses to the client: DiagnosticsPublication.           *)

PublicationTypes ==
    /\ open \subseteq Docs
    /\ reports \in [Docs -> [Uris -> SUBSET Diagnostics]]
    /\ outbox \in [Workers -> SUBSET Message]
    /\ shown \in [Uris -> Message \cup {Unsent}]
    /\ newest \in [Uris -> Nat]
    /\ updates \in Nat

\* No message is newer than the latest update.
NumberInv ==
    /\ \A w \in Workers : \A m \in outbox[w] : m.number <= updates
    /\ \A t \in Uris : newest[t] <= updates

\* The newest message for t is still to be sent and holds what is stored.
NewestWaits(t) ==
    \E w \in Workers : \E m \in outbox[w] :
        /\ m.uri = t /\ m.diagnostics = Merged(open, reports, t) /\ m.number > newest[t]
        /\ \A v \in Workers : \A n \in outbox[v] :
               n.uri = t => (v = w /\ n = m) \/ n.number < m.number

\* The newest message for t was sent and held what is stored.
NewestSent(t) ==
    /\ \A w \in Workers : \A m \in outbox[w] : m.uri = t => m.number < newest[t]
    /\ shown[t].number = newest[t] => shown[t].diagnostics = Merged(open, reports, t)

PublicationInv ==
    /\ PublicationTypes
    /\ NumberInv
    /\ \A t \in Uris : NewestWaits(t) \/ NewestSent(t)

\* The diagnostics of a URI depend on the analyses that report on it, and for an open
\* document on its own.
LEMMA MergedUnchanged ==
  ASSUME NEW docs \in SUBSET Docs, NEW docs2 \in SUBSET Docs, NEW rs, NEW rs2, NEW t,
         NEW u \in Docs, t # u,
         \A v \in Docs \ {u} : (v \in docs <=> v \in docs2) /\ rs2[v][t] = rs[v][t],
         u \in docs => rs[u][t] = {}, u \in docs2 => rs2[u][t] = {}
  PROVE  Merged(docs2, rs2, t) = Merged(docs, rs, t)
<1>1. CASE t \in docs
  <2>1. t \in docs2 /\ rs2[t][t] = rs[t][t]
    BY <1>1
  <2> QED
    BY <1>1, <2>1 DEF Merged
<1>2. CASE t \notin docs
  <2>1. t \notin docs2
    BY <1>2
  <2>2. UNION {rs2[v][t] : v \in docs2} = UNION {rs[v][t] : v \in docs}
    <3>1. ASSUME NEW d, NEW v \in docs2, d \in rs2[v][t]
          PROVE  \E w \in docs : d \in rs[w][t]
      BY <3>1
    <3>2. ASSUME NEW d, NEW v \in docs, d \in rs[v][t]
          PROVE  \E w \in docs2 : d \in rs2[w][t]
      BY <3>2
    <3> QED
      BY <3>1, <3>2
  <2> QED
    BY <1>2, <2>1, <2>2 DEF Merged
<1> QED
  BY <1>1, <1>2

\* merged_diagnostics_for a URI reports diagnostics.
LEMMA MergedTyped ==
  ASSUME NEW docs \in SUBSET Docs,
         NEW rs \in [Docs -> [Uris -> SUBSET Diagnostics]],
         NEW t \in Uris
  PROVE  Merged(docs, rs, t) \in SUBSET Diagnostics
<1>1. \A v \in Docs : rs[v][t] \subseteq Diagnostics
  OBVIOUS
<1>2. UNION {rs[v][t] : v \in docs} \subseteq Diagnostics
  BY <1>1
<1> QED
  BY <1>1, <1>2 DEF Merged

LEMMA PublicationStart == PublicationInit => PublicationInv
<1> SUFFICES ASSUME PublicationInit PROVE PublicationInv
  OBVIOUS
<1>1. PublicationTypes
  BY DEF PublicationInit, PublicationTypes, NoReports
<1>2. NumberInv
  BY DEF PublicationInit, NumberInv
<1>3. ASSUME NEW t \in Uris PROVE NewestSent(t)
  <2>1. Merged({}, reports, t) = {}
    BY DEF Merged
  <2> QED
    BY <2>1 DEF PublicationInit, NewestSent, Unsent
<1> QED
  BY <1>1, <1>2, <1>3 DEF PublicationInv

\* An update publishes every URI whose diagnostics it can change.
LEMMA UnpublishedUnchanged ==
  ASSUME PublicationTypes, NEW u \in Docs,
         NEW r \in [Uris -> SUBSET Diagnostics], NEW docs \in SUBSET Docs,
         \A v \in Docs \ {u} : v \in docs <=> v \in open,
         u \notin docs => r = NoReports,
         NEW t \in Uris, t \notin Affected(u, r)
  PROVE  Merged(docs, [reports EXCEPT ![u] = r], t) = Merged(open, reports, t)
<1> DEFINE rs == [reports EXCEPT ![u] = r]
<1>1. t # u /\ r[t] = {} /\ (u \in open => reports[u][t] = {})
  BY DEF Affected, ReportedOn
<1>2. rs[u][t] = {} /\ \A v \in Docs \ {u} : rs[v][t] = reports[v][t]
  BY <1>1 DEF PublicationTypes
<1>3. open \in SUBSET Docs
  BY DEF PublicationTypes
<1> HIDE DEF rs
<1>4. /\ \A v \in Docs \ {u} : (v \in open <=> v \in docs) /\ rs[v][t] = reports[v][t]
      /\ u \in open => reports[u][t] = {}
      /\ u \in docs => rs[u][t] = {}
      /\ docs \in SUBSET Docs /\ t # u
  BY <1>1, <1>2, <1>3
<1>5. Merged(docs, rs, t) = Merged(open, reports, t)
  BY ONLY <1>3, <1>4, MergedUnchanged, u \in Docs
<1> QED
  BY <1>5 DEF rs

\* What an update publishes is newer than all that waits or was sent.
LEMMA PublicationUpdated ==
  ASSUME PublicationInv, NEW w \in Workers, NEW u \in Docs,
         NEW r \in [Uris -> SUBSET Diagnostics], NEW docs \in SUBSET Docs,
         \A v \in Docs \ {u} : v \in docs <=> v \in open,
         u \notin docs => r = NoReports,
         Update(w, u, docs, [reports EXCEPT ![u] = r], Affected(u, r))
  PROVE  PublicationInv'
<1>0. PublicationTypes /\ NumberInv
  BY DEF PublicationInv
<1>1. PICK rs : rs = [reports EXCEPT ![u] = r]
  OBVIOUS
<1>2. PICK targets : targets = Affected(u, r)
  OBVIOUS
<1> DEFINE new(t) == [uri |-> t, diagnostics |-> Merged(docs, rs, t), by |-> u,
                      number |-> updates + 1]
<1>3. /\ outbox[w] = {} /\ open' = docs /\ reports' = rs /\ shown' = shown
      /\ newest' = newest /\ updates' = updates + 1
      /\ outbox' = [outbox EXCEPT ![w] = {new(t) : t \in targets}]
  BY <1>1, <1>2 DEF Update
<1>4. rs \in [Docs -> [Uris -> SUBSET Diagnostics]]
  BY <1>0, <1>1 DEF PublicationTypes
<1>5. targets \subseteq Uris
  BY <1>2 DEF Affected, ReportedOn, Uris
<1>6. \A t \in targets : Merged(docs, rs, t) \in SUBSET Diagnostics
  BY <1>4, <1>5, MergedTyped
<1>7. \A t \in Uris : t \notin targets => Merged(docs, rs, t) = Merged(open, reports, t)
  <2>1. ASSUME NEW t \in Uris, t \notin Affected(u, r)
        PROVE  Merged(docs, [reports EXCEPT ![u] = r], t) = Merged(open, reports, t)
    <3>1. /\ \A v \in Docs \ {u} : v \in docs <=> v \in open
          /\ u \notin docs => r = NoReports
      OBVIOUS
    <3> QED
      BY ONLY <3>1, <2>1, <1>0, UnpublishedUnchanged, u \in Docs, docs \in SUBSET Docs,
              r \in [Uris -> SUBSET Diagnostics]
  <2> QED
    BY ONLY <2>1, <1>1, <1>2
<1>8. updates \in Nat /\ updates + 1 \in Nat
  BY <1>0 DEF PublicationTypes
<1>9. {new(t) : t \in targets} \subseteq Message
  BY <1>5, <1>6, <1>8 DEF Message
<1>10. \A v \in Workers : outbox'[v] = IF v = w THEN {new(t) : t \in targets} ELSE outbox[v]
  BY <1>0, <1>3 DEF PublicationTypes
<1>11. PublicationTypes'
  BY <1>0, <1>3, <1>4, <1>8, <1>9 DEF PublicationTypes
<1>12. \A v \in Workers : \A m \in outbox'[v] :
         \/ v = w /\ m.number = updates + 1 /\ m.uri \in targets /\ m = new(m.uri)
         \/ v # w /\ m \in outbox[v] /\ m.number \in Nat /\ m.number <= updates
  <2>1. ASSUME NEW m \in outbox'[w]
        PROVE  m.number = updates + 1 /\ m.uri \in targets /\ m = new(m.uri)
    <3>1. PICK t \in targets : m = new(t)
      BY <1>10
    <3>2. m.uri = t /\ m.number = updates + 1
      BY <3>1
    <3> QED
      BY <3>1, <3>2
  <2>2. ASSUME NEW v \in Workers, v # w, NEW m \in outbox'[v]
        PROVE  m \in outbox[v] /\ m.number \in Nat /\ m.number <= updates
    <3>1. m \in outbox[v] /\ m \in Message
      BY <2>2, <1>0, <1>10 DEF PublicationTypes
    <3> QED
      BY <3>1, <1>0 DEF NumberInv, Message
  <2> QED
    BY <2>1, <2>2
<1>13. \A t \in targets : new(t) \in outbox'[w] /\ new(t).uri = t
                         /\ new(t).diagnostics = Merged(docs, rs, t)
                         /\ new(t).number = updates + 1
  BY <1>10
<1> HIDE DEF new
<1>14. \A t \in Uris : newest[t] \in Nat /\ newest[t] <= updates
  BY <1>0 DEF PublicationTypes, NumberInv
<1>15. NumberInv'
  <2>1. ASSUME NEW v \in Workers, NEW m \in outbox'[v] PROVE m.number <= updates'
    BY <1>3, <1>8, <1>12
  <2>2. ASSUME NEW t \in Uris PROVE newest'[t] <= updates'
    BY <1>3, <1>8, <1>14
  <2> QED
    BY <2>1, <2>2 DEF NumberInv
<1>16. ASSUME NEW t \in Uris, t \in targets PROVE NewestWaits(t)'
  <2>1. new(t) \in outbox'[w] /\ new(t).uri = t /\ new(t).number = updates + 1
        /\ new(t).diagnostics = Merged(docs, rs, t)
    BY <1>13, <1>16
  <2>2. new(t).number > newest'[t]
    BY <2>1, <1>3, <1>8, <1>14
  <2>3. ASSUME NEW v \in Workers, NEW n \in outbox'[v], n.uri = t
        PROVE  (v = w /\ n = new(t)) \/ n.number < new(t).number
    BY <2>1, <2>3, <1>8, <1>12
  <2> QED
    BY <2>1, <2>2, <2>3, <1>3 DEF NewestWaits
<1>17. ASSUME NEW t \in Uris, t \notin targets, NewestWaits(t) PROVE NewestWaits(t)'
  <2>0. PICK v \in Workers : \E m \in outbox[v] :
           /\ m.uri = t /\ m.diagnostics = Merged(open, reports, t) /\ m.number > newest[t]
           /\ \A x \in Workers : \A n \in outbox[x] :
                 n.uri = t => (x = v /\ n = m) \/ n.number < m.number
    BY <1>17 DEF NewestWaits
  <2>1. PICK m \in outbox[v] :
           /\ m.uri = t /\ m.diagnostics = Merged(open, reports, t) /\ m.number > newest[t]
           /\ \A x \in Workers : \A n \in outbox[x] :
                 n.uri = t => (x = v /\ n = m) \/ n.number < m.number
    BY <2>0
  <2>2. m \in outbox'[v]
    BY <2>1, <1>3, <1>10
  <2>3. \A x \in Workers : \A n \in outbox'[x] : n.uri = t => n \in outbox[x]
    BY <1>12, <1>17
  <2> QED
    BY <2>1, <2>2, <2>3, <1>3, <1>7, <1>17 DEF NewestWaits
<1>18. ASSUME NEW t \in Uris, t \notin targets, NewestSent(t) PROVE NewestSent(t)'
  <2>1. \A x \in Workers : \A n \in outbox'[x] : n.uri = t => n \in outbox[x]
    BY <1>12, <1>18
  <2> QED
    BY <2>1, <1>3, <1>7, <1>18 DEF NewestSent
<1>19. \A t \in Uris : NewestWaits(t)' \/ NewestSent(t)'
  BY <1>16, <1>17, <1>18 DEF PublicationInv
<1> QED
  BY <1>11, <1>15, <1>19 DEF PublicationInv

LEMMA MessageSent ==
  ASSUME PublicationInv, NEW w \in Workers, Publish(w)
  PROVE  PublicationInv'
<1>0. PublicationTypes /\ NumberInv
  BY DEF PublicationInv
<1>1. PICK m \in outbox[w] :
         /\ shown' = [shown EXCEPT ![m.uri] = m]
         /\ newest' = [newest EXCEPT ![m.uri] = IF m.number > @ THEN m.number ELSE @]
         /\ outbox' = [outbox EXCEPT ![w] = @ \ {m}]
         /\ UNCHANGED <<open, reports, updates>>
  BY DEF Publish
<1>2. m \in Message /\ m.uri \in Uris /\ m.number \in Nat /\ m.number <= updates
  BY <1>0, <1>1 DEF PublicationTypes, NumberInv, Message
<1>3. \A v \in Workers : outbox'[v] = IF v = w THEN outbox[w] \ {m} ELSE outbox[v]
  BY <1>0, <1>1 DEF PublicationTypes
<1>4. \A t \in Uris : /\ shown'[t] = IF t = m.uri THEN m ELSE shown[t]
                      /\ newest'[t] = IF t = m.uri /\ m.number > newest[t]
                                       THEN m.number ELSE newest[t]
  BY <1>0, <1>1, <1>2 DEF PublicationTypes
<1>5. PublicationTypes'
  <2>1. \A v \in Workers : outbox'[v] \subseteq Message
    BY <1>0, <1>3 DEF PublicationTypes
  <2>2. \A t \in Uris : newest'[t] \in Nat /\ shown'[t] \in Message \cup {Unsent}
    BY <1>0, <1>2, <1>4 DEF PublicationTypes
  <2> QED
    BY <2>1, <2>2, <1>0, <1>1 DEF PublicationTypes
<1>6. NumberInv'
  BY <1>0, <1>1, <1>2, <1>3, <1>4 DEF NumberInv
<1>7. \A v \in Workers : \A n \in outbox[v] : n.number \in Nat
  BY <1>0 DEF PublicationTypes, Message
<1>8. \A t \in Uris : newest[t] \in Nat
  BY <1>0 DEF PublicationTypes
<1>9. ASSUME NEW t \in Uris, NewestWaits(t) PROVE NewestWaits(t)' \/ NewestSent(t)'
  <2>0. PICK v \in Workers : \E n \in outbox[v] :
           /\ n.uri = t /\ n.diagnostics = Merged(open, reports, t) /\ n.number > newest[t]
           /\ \A x \in Workers : \A k \in outbox[x] :
                 k.uri = t => (x = v /\ k = n) \/ k.number < n.number
    BY <1>9 DEF NewestWaits
  <2>1. PICK n \in outbox[v] :
           /\ n.uri = t /\ n.diagnostics = Merged(open, reports, t) /\ n.number > newest[t]
           /\ \A x \in Workers : \A k \in outbox[x] :
                 k.uri = t => (x = v /\ k = n) \/ k.number < n.number
    BY <2>0
  <2>2. CASE v = w /\ n = m
    <3>1. newest'[t] = m.number /\ shown'[t] = m
      BY <2>1, <2>2, <1>4
    <3>2. \A x \in Workers : \A k \in outbox'[x] : k.uri = t => k.number < m.number
      BY <2>1, <2>2, <1>3
    <3> QED
      BY <3>1, <3>2, <2>1, <2>2, <1>1 DEF NewestSent
  <2>3. CASE ~(v = w /\ n = m)
    <3>1. n \in outbox'[v]
      BY <2>1, <2>3, <1>3
    <3>2. n.number > newest'[t]
      BY <2>1, <2>3, <1>1, <1>2, <1>4, <1>7, <1>8
    <3>3. \A x \in Workers : \A k \in outbox'[x] : k \in outbox[x]
      BY <1>3
    <3> QED
      BY <3>1, <3>2, <3>3, <2>1, <1>1 DEF NewestWaits
  <2> QED
    BY <2>2, <2>3
<1>10. ASSUME NEW t \in Uris, NewestSent(t) PROVE NewestSent(t)'
  <2>1. \A x \in Workers : \A k \in outbox[x] : k.uri = t => k.number < newest[t]
    BY <1>10 DEF NewestSent
  <2>2. t = m.uri => m.number < newest[t]
    BY <2>1, <1>1
  <2>3. newest'[t] = newest[t]
    BY <2>2, <1>2, <1>4, <1>8
  <2>4. shown'[t].number = newest[t] => shown'[t] = shown[t]
    BY <2>2, <1>2, <1>4, <1>8
  <2>5. \A x \in Workers : \A k \in outbox'[x] : k \in outbox[x]
    BY <1>3
  <2> QED
    BY <2>1, <2>3, <2>4, <2>5, <1>1, <1>10 DEF NewestSent
<1> QED
  BY <1>5, <1>6, <1>9, <1>10 DEF PublicationInv

LEMMA PublicationStep == PublicationInv /\ [PublicationNext]_publicationVars => PublicationInv'
<1> SUFFICES ASSUME PublicationInv, [PublicationNext]_publicationVars PROVE PublicationInv'
  OBVIOUS
<1>1. CASE UNCHANGED publicationVars
  BY <1>1 DEF publicationVars, PublicationInv, PublicationTypes, NumberInv, NewestWaits,
              NewestSent
<1>2. ASSUME NEW w \in Workers, NEW u \in Docs, StoreAnalysis(w, u)
      PROVE  PublicationInv'
  <2>1. PICK r \in [Uris -> SUBSET Diagnostics] :
           Update(w, u, open \cup {u}, [reports EXCEPT ![u] = r], Affected(u, r))
    BY <1>2 DEF StoreAnalysis
  <2>2. open \cup {u} \in SUBSET Docs
    BY DEF PublicationInv, PublicationTypes
  <2> QED
    BY <2>1, <2>2, PublicationUpdated
<1>3. ASSUME NEW w \in Workers, NEW u \in Docs, DidClose(w, u)
      PROVE  PublicationInv'
  <2>1. Update(w, u, open \ {u}, [reports EXCEPT ![u] = NoReports], Affected(u, NoReports))
    BY <1>3 DEF DidClose
  <2>2. open \ {u} \in SUBSET Docs
    BY DEF PublicationInv, PublicationTypes
  <2>3. NoReports \in [Uris -> SUBSET Diagnostics]
    BY DEF NoReports
  <2> QED
    BY <2>1, <2>2, <2>3, PublicationUpdated
<1> QED
  BY <1>1, <1>2, <1>3, MessageSent DEF PublicationNext

\* However many passes and closes send at the same time, once everything is sent the client
\* shows, for every URI whose newest message was sent last, what the stored analyses report
\* on it: the URIs that analyze_store_publish_once and did_close publish are all that an
\* update can change, and no message that was never sent is missed.
THEOREM ClientShowsMergedTheorem == PublicationSpec => []ClientShowsMerged
<1>1. PublicationInv => ClientShowsMerged
  <2> SUFFICES ASSUME PublicationInv, AllSent, NEW t \in Uris,
                      shown[t].number = newest[t]
               PROVE  shown[t].diagnostics = Merged(open, reports, t)
    BY DEF ClientShowsMerged
  <2>1. ~NewestWaits(t)
    BY DEF AllSent, NewestWaits
  <2> QED
    BY <2>1 DEF PublicationInv, NewestSent
<1> QED
  BY <1>1, PublicationStart, PublicationStep, PTL DEF PublicationSpec
=============================================================================
