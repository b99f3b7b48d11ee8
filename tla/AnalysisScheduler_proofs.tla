---------------------- MODULE AnalysisScheduler_proofs ----------------------
(***************************************************************************)
(* Theorems about AnalysisScheduler for every set of documents, every bound *)
(* on generations and every number of worker permits; at the end, about the *)
(* requests of SettlementWait that run beside it.                           *)
(***************************************************************************)
EXTENDS SettlementWait, FiniteSetTheorems, TLAPS

-----------------------------------------------------------------------------
(* The inductive invariant.                                                 *)

\* A generation that was not bumped yet has no owner.
FreshGenerations ==
    \A u \in Docs : \A g \in Gens : g > generation[u] => pc[u][g] = "none"

\* An entry without a gate is absent, a closed quiescent one too, and gate
\* numbers are handed out in order.
EntryShape ==
    \A u \in Docs :
        /\ entryGate[u] = 0 => u \notin opened /\ live[u] = {}
        /\ u \notin opened /\ live[u] = {} => entryGate[u] = 0
        /\ entryGate[u] <= gates[u]

\* Where a blocking closure can be, given the control point of its waiter.
ClosureOwned ==
    \A u \in Docs : \A g \in Gens :
        /\ closure[u][g] \in {"running", "returned"}
              => pc[u][g] \in {"running", "timedOut", "done"}
        /\ pc[u][g] = "running" => closure[u][g] \in {"running", "returned"}

\* Somebody is left to call finish(u, g).
WillFinish(u, g) ==
    \/ pc[u][g] \in RegisteredPc
    \/ pc[u][g] \in {"timedOut", "done"} /\ closure[u][g] \in {"running", "returned"}

\* The registry lists exactly the generations somebody will finish.
LiveExact ==
    \A u \in Docs : \A g \in Gens : g \in live[u] <=> WillFinish(u, g)

\* Registered work was handed the gate its entry has now; no gate number is
\* ahead of the counter.
LiveGate ==
    \A u \in Docs : \A g \in Gens :
        /\ g \in live[u] => gate[u][g] = entryGate[u]
        /\ gate[u][g] <= gates[u]

\* One permit per document gate.
DocumentPermitUnique ==
    \A u \in Docs : \A g, h \in Gens :
        /\ HoldsDocumentPermit(u, g)
        /\ HoldsDocumentPermit(u, h)
        /\ gate[u][g] = gate[u][h]
        => g = h

\* The inductive invariant of the scheduler.
IInv ==
    /\ TypeOK
    /\ FreshGenerations
    /\ EntryShape
    /\ ClosureOwned
    /\ LiveExact
    /\ LiveGate
    /\ DocumentPermitUnique
    /\ StaleWorkCancelled
    /\ SettlementNotStranded

\* What an update of one cell of a two-level table leaves behind.
LEMMA CellUpdate ==
    ASSUME NEW D, NEW G, NEW S, NEW f \in [D -> [G -> S]],
           NEW u \in D, NEW g \in G, NEW x \in S,
           NEW f2, f2 = [f EXCEPT ![u][g] = x]
    PROVE  /\ f2 \in [D -> [G -> S]]
           /\ f2[u][g] = x
           /\ \A v \in D : \A h \in G : (v # u \/ h # g) => f2[v][h] = f[v][h]
  OBVIOUS

\* The owner of generation g of u moves to x and no other owner moves.
PcMoves(u, g, x) ==
    /\ pc' \in [Docs -> [Gens -> PC]]
    /\ pc'[u][g] = x
    /\ \A v \in Docs : \A h \in Gens : (v # u \/ h # g) => pc'[v][h] = pc[v][h]

\* A bump below the bound names a generation that exists.
LEMMA NextGeneration ==
    ASSUME TypeOK, NEW u \in Docs, generation[u] < MaxGeneration
    PROVE  generation[u] + 1 \in Gens /\ generation[u] + 1 > generation[u]
  BY MaxGenerationAssumption DEF TypeOK, Gens

\* An EXCEPT on one cell of pc is a move of one owner.
LEMMA PcMovesByUpdate ==
    ASSUME TypeOK, NEW u \in Docs, NEW g \in Gens, NEW x \in PC,
           pc' = [pc EXCEPT ![u][g] = x]
    PROVE  PcMoves(u, g, x)
  BY CellUpdate DEF TypeOK, PcMoves

\* StaleWorkCancelled survives a step that creates no stale work and takes no
\* owner out of BumpedPc while its document has work that is not cancelled.
LEMMA StaleKept ==
    ASSUME StaleWorkCancelled,
           \A v \in Docs : \A h \in Gens :
               /\ h \in live'[v] /\ pc'[v][h] # "registered"
               /\ generation'[v] # h /\ h \notin cancelled'[v]
               => /\ h \in live[v] /\ pc[v][h] # "registered"
                  /\ generation[v] # h /\ h \notin cancelled[v]
                  /\ \A k \in Gens :
                        pc[v][k] \in BumpedPc => pc'[v][k] \in BumpedPc
    PROVE  StaleWorkCancelled'
  BY DEF StaleWorkCancelled, IsGenerationCurrent

\* A move of one owner that neither registers nor finishes it.
LEMMA QuietMove ==
    ASSUME IInv, NEW u \in Docs, NEW g \in Gens, NEW x \in PC, PcMoves(u, g, x),
           UNCHANGED <<generation, entries, gates, gate, cancelled, closure, settled>>,
           pc[u][g] \notin BumpedPc \cup {"none", "running", "timedOut", "done"},
           x \notin {"none", "running", "registered", "closeSettled"},
           x = "done" => generation[u] # g,
           x \in RegisteredPc <=> pc[u][g] \in RegisteredPc,
           pc[u][g] # "registered",
           x \in DocumentPermitPc =>
               pc[u][g] \in DocumentPermitPc \/ DocumentGateFree(u, gate[u][g])
    PROVE  IInv'
<1>1. TypeOK'
  BY DEF IInv, PcMoves, entries, TypeOK
<1>2. FreshGenerations'
  BY DEF IInv, PcMoves, entries, FreshGenerations, RegisteredPc
<1>3. EntryShape'
  BY DEF IInv, PcMoves, entries, EntryShape
<1>4. ClosureOwned'
  BY DEF IInv, PcMoves, entries, ClosureOwned, BumpedPc
<1>5. LiveExact'
  BY DEF IInv, PcMoves, entries, LiveExact, WillFinish, RegisteredPc, ClosureOwned
<1>6. LiveGate'
  BY DEF IInv, PcMoves, entries, LiveGate
<1>7. DocumentPermitUnique'
  BY DEF IInv, PcMoves, entries, DocumentPermitUnique, HoldsDocumentPermit, DocumentPermitPc,
         DocumentGateFree
<1>8. StaleWorkCancelled'
  BY DEF IInv, PcMoves, entries, StaleWorkCancelled, IsGenerationCurrent, BumpedPc
<1>9. SettlementNotStranded'
  BY DEF IInv, PcMoves, entries, SettlementNotStranded, TypeOK, Gens
<1> QED
  BY <1>1, <1>2, <1>3, <1>4, <1>5, <1>6, <1>7, <1>8, <1>9 DEF IInv

\* A pass calls finish for its generation and leaves.
LEMMA FinishMove ==
    ASSUME IInv, NEW u \in Docs, NEW g \in Gens, NEW x \in PC,
           FinishEarly(u, g, x),
           UNCHANGED <<generation, gates, gate, settled>>,
           pc[u][g] \in RegisteredPc,
           x \in {"dropDocument", "dropBoth", "computed", "finished"},
           x \in {"dropDocument", "dropBoth"} => pc[u][g] \in DocumentPermitPc,
           cancelled \in [Docs -> SUBSET Gens], cancelled' \in [Docs -> SUBSET Gens],
           \A v \in Docs : cancelled[v] \subseteq cancelled'[v],
           closure' \in [Docs -> [Gens -> {"none", "running", "returned", "joined"}]],
           \A v \in Docs : \A h \in Gens :
               (v # u \/ h # g) => closure'[v][h] = closure[v][h],
           closure'[u][g] \notin {"running", "returned"}
    PROVE  IInv'
<1>1. PcMoves(u, g, x)
  BY PcMovesByUpdate DEF IInv, FinishEarly
<1>2. \A v \in Docs : live'[v] = IF v = u THEN live[v] \ {g} ELSE live[v]
  BY DEF IInv, TypeOK, FinishEarly, Finish
<1>3. TypeOK'
  BY <1>1, <1>2 DEF IInv, PcMoves, FinishEarly, Finish, TypeOK
<1>4. FreshGenerations'
  BY <1>1, <1>2 DEF IInv, PcMoves, FinishEarly, Finish, FreshGenerations, RegisteredPc
<1>5. EntryShape'
  BY <1>1, <1>2 DEF IInv, PcMoves, FinishEarly, Finish, EntryShape, TypeOK
<1>6. ClosureOwned'
  BY <1>1, <1>2 DEF IInv, PcMoves, FinishEarly, Finish, ClosureOwned
<1>7. LiveExact'
  <2> SUFFICES ASSUME NEW v \in Docs, NEW h \in Gens
               PROVE  h \in live'[v] <=> WillFinish(v, h)'
    BY DEF LiveExact
  <2>1. CASE v = u /\ h = g
    BY <1>1, <1>2, <2>1 DEF PcMoves, WillFinish, RegisteredPc
  <2>2. CASE v # u \/ h # g
    <3>1. h \in live'[v] <=> h \in live[v]
      BY <1>2, <2>2
    <3>2. WillFinish(v, h)' <=> WillFinish(v, h)
      BY <1>1, <2>2 DEF PcMoves, WillFinish
    <3> QED
      BY <3>1, <3>2 DEF IInv, LiveExact
  <2> QED
    BY <2>1, <2>2
<1>8. LiveGate'
  BY <1>1, <1>2 DEF IInv, PcMoves, FinishEarly, Finish, LiveGate, TypeOK, EntryShape
<1>9. DocumentPermitUnique'
  BY <1>1, <1>2
  DEF IInv, PcMoves, FinishEarly, Finish, DocumentPermitUnique, HoldsDocumentPermit,
      DocumentPermitPc
<1>10. StaleWorkCancelled'
  <2> SUFFICES ASSUME NEW v \in Docs, NEW h \in Gens, h \in live'[v],
                      pc'[v][h] # "registered", generation'[v] # h, h \notin cancelled'[v]
               PROVE  \E k \in Gens : k > h /\ pc'[v][k] \in BumpedPc
    BY DEF StaleWorkCancelled, IsGenerationCurrent
  <2>1. v # u \/ h # g
    BY <1>2
  <2>2. h \in live[v] /\ pc[v][h] # "registered" /\ generation[v] # h /\ h \notin cancelled[v]
    BY <1>1, <1>2, <2>1 DEF PcMoves
  <2>3. PICK k \in Gens : k > h /\ pc[v][k] \in BumpedPc
    BY <2>2 DEF IInv, StaleWorkCancelled, IsGenerationCurrent
  <2>4. pc'[v][k] = pc[v][k]
    BY <1>1, <2>3 DEF PcMoves, BumpedPc, RegisteredPc
  <2> QED
    BY <2>3, <2>4
<1>11. SettlementNotStranded'
  BY <1>1, <1>2 DEF IInv, PcMoves, FinishEarly, Finish, SettlementNotStranded, TypeOK, Gens
<1> QED
  BY <1>3, <1>4, <1>5, <1>6, <1>7, <1>8, <1>9, <1>10, <1>11 DEF IInv

\* An EXCEPT on one cell of closure changes one closure.
LEMMA ClosureUpdate ==
    ASSUME TypeOK, NEW u \in Docs, NEW g \in Gens, NEW x \in {"running", "returned", "joined"},
           closure' = [closure EXCEPT ![u][g] = x]
    PROVE  /\ closure' \in [Docs -> [Gens -> {"none", "running", "returned", "joined"}]]
           /\ closure'[u][g] = x
           /\ \A v \in Docs : \A h \in Gens :
                 (v # u \/ h # g) => closure'[v][h] = closure[v][h]
  BY CellUpdate DEF TypeOK

\* open_document marks or creates the entry and disturbs no registered work.
LEMMA OpenDocumentStep ==
    ASSUME IInv, NEW u \in Docs, OpenDocument(u)
    PROVE  IInv'
<1>1. UNCHANGED <<generation, live, pc, gate, cancelled, closure, settled>>
  BY DEF OpenDocument
<1>2. /\ entryGate' \in [Docs -> Nat] /\ gates' \in [Docs -> Nat]
      /\ \A v \in Docs : gates[v] <= gates'[v] /\ entryGate'[v] <= gates'[v]
      /\ \A v \in Docs : v # u => entryGate'[v] = entryGate[v]
      /\ entryGate'[u] # 0
      /\ entryGate[u] # 0 => entryGate'[u] = entryGate[u]
  <2>1. CASE Present(u)
    BY <2>1 DEF IInv, TypeOK, EntryShape, OpenDocument, Present
  <2>2. CASE ~Present(u)
    BY <2>2, SMTT(30) DEF IInv, TypeOK, EntryShape, OpenDocument, Present
  <2> QED
    BY <2>1, <2>2
<1>3. opened' = opened \cup {u}
  BY DEF OpenDocument
<1>4. TypeOK'
  BY <1>1, <1>2, <1>3 DEF IInv, TypeOK
<1>5. FreshGenerations'
  BY <1>1 DEF IInv, FreshGenerations
<1>6. EntryShape'
  BY <1>1, <1>2, <1>3 DEF IInv, EntryShape
<1>7. ClosureOwned'
  BY <1>1 DEF IInv, ClosureOwned
<1>8. LiveExact'
  BY <1>1 DEF IInv, LiveExact, WillFinish
<1>9. LiveGate'
  <2> SUFFICES ASSUME NEW v \in Docs, NEW h \in Gens
               PROVE  /\ h \in live[v] => gate[v][h] = entryGate'[v]
                      /\ gate[v][h] <= gates'[v]
    BY <1>1 DEF LiveGate
  <2>1. gate[v][h] \in Nat /\ gates[v] \in Nat /\ gates'[v] \in Nat
    BY <1>2 DEF IInv, TypeOK
  <2>2. gate[v][h] <= gates'[v]
    BY <1>2, <2>1 DEF IInv, LiveGate
  <2>3. h \in live[v] => entryGate[v] # 0
    BY DEF IInv, EntryShape
  <2> QED
    BY <1>2, <2>2, <2>3 DEF IInv, LiveGate
<1>10. DocumentPermitUnique'
  BY <1>1 DEF IInv, DocumentPermitUnique, HoldsDocumentPermit
<1>11. StaleWorkCancelled'
  BY <1>1 DEF IInv, StaleWorkCancelled, IsGenerationCurrent
<1>12. SettlementNotStranded'
  BY <1>1 DEF IInv, SettlementNotStranded
<1> QED
  BY <1>4, <1>5, <1>6, <1>7, <1>8, <1>9, <1>10, <1>11, <1>12 DEF IInv

\* bump_generation_value creates an owner for a fresh generation; what it
\* makes stale is covered by that owner until it calls cancel_document.
LEMMA BumpStep ==
    ASSUME IInv, NEW u \in Docs, NEW at \in BumpedPc, Bump(u, at)
    PROVE  IInv'
<1>1. /\ generation[u] + 1 \in Gens
      /\ generation'[u] = generation[u] + 1
      /\ \A v \in Docs : v # u => generation'[v] = generation[v]
  BY MaxGenerationAssumption DEF IInv, TypeOK, Bump, Gens
<1>2. PcMoves(u, generation[u] + 1, at) /\ pc[u][generation[u] + 1] = "none"
  <2>1. at \in PC
    BY DEF PC
  <2>2. PcMoves(u, generation[u] + 1, at)
    BY <1>1, <2>1, PcMovesByUpdate DEF IInv, Bump
  <2>3. generation[u] + 1 > generation[u]
    BY DEF IInv, TypeOK
  <2> QED
    BY <1>1, <2>2, <2>3 DEF IInv, FreshGenerations
<1>3. TypeOK'
  BY <1>1, <1>2
  DEF IInv, Bump, entries, PcMoves, TypeOK, Gens
<1>4. FreshGenerations'
  BY <1>1, <1>2
  DEF IInv, Bump, entries, PcMoves, FreshGenerations, TypeOK, Gens
<1>5. EntryShape'
  BY <1>1, <1>2
  DEF IInv, Bump, entries, PcMoves, EntryShape
<1>6. ClosureOwned'
  BY <1>1, <1>2
  DEF IInv, Bump, entries, PcMoves, ClosureOwned, BumpedPc
<1>7. LiveExact'
  BY <1>1, <1>2
  DEF IInv, Bump, entries, PcMoves, LiveExact, WillFinish, RegisteredPc,
         BumpedPc
<1>8. LiveGate'
  BY <1>1, <1>2
  DEF IInv, Bump, entries, PcMoves, LiveGate
<1>9. DocumentPermitUnique'
  BY <1>1, <1>2
  DEF IInv, Bump, entries, PcMoves, DocumentPermitUnique,
         HoldsDocumentPermit, DocumentPermitPc, BumpedPc
<1>10. StaleWorkCancelled'
  BY <1>1, <1>2
 , SMTT(30) DEF IInv, Bump, entries, PcMoves, StaleWorkCancelled,
         IsGenerationCurrent, BumpedPc, TypeOK, Gens, LiveExact,
         WillFinish, RegisteredPc, FreshGenerations
<1>11. SettlementNotStranded'
  BY <1>1, <1>2
  DEF IInv, Bump, entries, PcMoves, SettlementNotStranded, BumpedPc,
         TypeOK, Gens
<1> QED
  BY <1>3, <1>4, <1>5, <1>6, <1>7, <1>8, <1>9, <1>10, <1>11 DEF IInv

\* cancel_document cancels all that is registered, so nothing stale is left.
LEMMA CancelDocumentStep ==
    ASSUME IInv, NEW u \in Docs, NEW g \in Gens, CancelDocument(u, g)
    PROVE  IInv'
<1>1. AfterCancel(pc[u][g]) \in {"debouncing", "ready", "closeCancelled"}
  BY DEF CancelDocument, AfterCancel
<1>2. PcMoves(u, g, AfterCancel(pc[u][g]))
  BY <1>1, PcMovesByUpdate DEF IInv, CancelDocument, PC
<1>3. \A v \in Docs : cancelled'[v] = IF v = u THEN cancelled[v] \cup live[v] ELSE cancelled[v]
  BY DEF IInv, TypeOK, CancelDocument, CancelLive
<1>4. TypeOK'
  BY <1>1, <1>2, <1>3
  DEF IInv, CancelDocument, entries, PcMoves, TypeOK, CancelLive
<1>5. FreshGenerations'
  BY <1>1, <1>2, <1>3
  DEF IInv, CancelDocument, entries, PcMoves, FreshGenerations, BumpedPc
<1>6. EntryShape'
  BY <1>1, <1>2, <1>3
  DEF IInv, CancelDocument, entries, PcMoves, EntryShape
<1>7. ClosureOwned'
  BY <1>1, <1>2, <1>3
  DEF IInv, CancelDocument, entries, PcMoves, ClosureOwned, BumpedPc
<1>8. LiveExact'
  BY <1>1, <1>2, <1>3
  DEF IInv, CancelDocument, entries, PcMoves, LiveExact, WillFinish,
         RegisteredPc, BumpedPc
<1>9. LiveGate'
  BY <1>1, <1>2, <1>3
  DEF IInv, CancelDocument, entries, PcMoves, LiveGate
<1>10. DocumentPermitUnique'
  BY <1>1, <1>2, <1>3
  DEF IInv, CancelDocument, entries, PcMoves, DocumentPermitUnique,
         HoldsDocumentPermit, DocumentPermitPc, BumpedPc
<1>11. StaleWorkCancelled'
  <2>1. ASSUME NEW v \in Docs, NEW h \in Gens,
               h \in live'[v], pc'[v][h] # "registered",
               generation'[v] # h, h \notin cancelled'[v]
        PROVE  /\ h \in live[v] /\ pc[v][h] # "registered"
               /\ generation[v] # h /\ h \notin cancelled[v]
               /\ \A k \in Gens : pc[v][k] \in BumpedPc => pc'[v][k] \in BumpedPc
    BY <1>1, <1>2, <1>3, <2>1, ZenonT(30) DEF CancelDocument, entries, PcMoves
  <2> QED
    BY <2>1, StaleKept DEF IInv
<1>12. SettlementNotStranded'
  BY <1>1, <1>2, <1>3
  DEF IInv, CancelDocument, entries, PcMoves, SettlementNotStranded,
         TypeOK, Gens
<1> QED
  BY <1>4, <1>5, <1>6, <1>7, <1>8, <1>9, <1>10, <1>11, <1>12 DEF IInv

\* register hands out the gate of the entry, or a gate nobody owns yet.
LEMMA RegisterStep ==
    ASSUME IInv, NEW u \in Docs, NEW g \in Gens, Register(u, g)
    PROVE  IInv'
<1> DEFINE n == IF Present(u) THEN entryGate[u] ELSE gates[u] + 1
<1>1. PcMoves(u, g, "registered")
  BY PcMovesByUpdate DEF IInv, Register, PC, RegisteredPc
<1>2. n \in Nat /\ n # 0 /\ (live[u] # {} => n = entryGate[u])
  BY DEF IInv, TypeOK, EntryShape, Present
<1>3. /\ gate' \in [Docs -> [Gens -> Nat]]
      /\ gate'[u][g] = n
      /\ \A v \in Docs : \A h \in Gens : (v # u \/ h # g) => gate'[v][h] = gate[v][h]
  <2>1. gate' = [gate EXCEPT ![u][g] = n]
    BY DEF Register
  <2> HIDE DEF n
  <2> QED
    BY <1>2, <2>1, CellUpdate DEF IInv, TypeOK
<1>4. /\ entryGate' \in [Docs -> Nat] /\ entryGate'[u] = n
      /\ \A v \in Docs : v # u => entryGate'[v] = entryGate[v]
  BY <1>2 DEF IInv, TypeOK, Register
<1>5. /\ gates' \in [Docs -> Nat] /\ gates[u] <= gates'[u] /\ n <= gates'[u]
      /\ \A v \in Docs : v # u => gates'[v] = gates[v]
  <2>1. CASE Present(u)
    BY <2>1 DEF IInv, TypeOK, EntryShape, Register
  <2>2. CASE ~Present(u)
    BY <2>2 DEF IInv, TypeOK, EntryShape, Register
  <2> QED
    BY <2>1, <2>2
<1>6. /\ live' \in [Docs -> SUBSET Gens] /\ live'[u] = live[u] \cup {g}
      /\ \A v \in Docs : v # u => live'[v] = live[v]
  BY DEF IInv, TypeOK, Register
<1>7. /\ pc[u][g] = "ready"
      /\ UNCHANGED <<generation, opened, cancelled, closure, settled>>
  BY DEF Register
<1> HIDE DEF n
<1>8. TypeOK'
  BY <1>1, <1>3, <1>4, <1>5, <1>6, <1>7 DEF IInv, TypeOK, PcMoves
<1>9. FreshGenerations'
  BY <1>1, <1>7 DEF IInv, FreshGenerations, PcMoves
<1>10. EntryShape'
  BY <1>2, <1>4, <1>5, <1>6, <1>7 DEF IInv, EntryShape
<1>11. ClosureOwned'
  BY <1>1, <1>7 DEF IInv, ClosureOwned, PcMoves
<1>12. LiveExact'
  <2> SUFFICES ASSUME NEW v \in Docs, NEW h \in Gens
               PROVE  h \in live'[v] <=> WillFinish(v, h)'
    BY DEF LiveExact
  <2>1. CASE v = u /\ h = g
    BY <1>1, <1>6, <2>1 DEF PcMoves, WillFinish, RegisteredPc
  <2>2. CASE v # u \/ h # g
    BY <1>1, <1>6, <1>7, <2>2 DEF PcMoves, WillFinish, IInv, LiveExact
  <2> QED
    BY <2>1, <2>2
<1>13. LiveGate'
  <2> SUFFICES ASSUME NEW v \in Docs, NEW h \in Gens
               PROVE  /\ h \in live'[v] => gate'[v][h] = entryGate'[v]
                      /\ gate'[v][h] <= gates'[v]
    BY DEF LiveGate
  <2>1. CASE v = u /\ h = g
    BY <1>3, <1>4, <1>5, <2>1
  <2>2. CASE v # u \/ h # g
    <3>1. gate'[v][h] = gate[v][h] /\ (h \in live'[v] => h \in live[v])
      BY <1>3, <1>6, <2>2
    <3>2. h \in live[v] => entryGate'[v] = entryGate[v]
      BY <1>2, <1>4
    <3>3. gate[v][h] \in Nat /\ gates[v] \in Nat /\ gates'[v] \in Nat
      BY <1>5 DEF IInv, TypeOK
    <3>4. gates[v] <= gates'[v]
      BY <1>5, <3>3
    <3> QED
      BY <3>1, <3>2, <3>3, <3>4 DEF IInv, LiveGate
  <2> QED
    BY <2>1, <2>2
<1>14. DocumentPermitUnique'
  <2>1. \A v \in Docs : \A h \in Gens :
            HoldsDocumentPermit(v, h)' =>
                HoldsDocumentPermit(v, h) /\ gate'[v][h] = gate[v][h]
    BY <1>1, <1>3, <1>7
    DEF IInv, HoldsDocumentPermit, DocumentPermitPc, PcMoves, ClosureOwned
  <2> QED
    BY <2>1 DEF IInv, DocumentPermitUnique
<1>15. StaleWorkCancelled'
  <2>1. ASSUME NEW v \in Docs, NEW h \in Gens,
               h \in live'[v], pc'[v][h] # "registered",
               generation'[v] # h, h \notin cancelled'[v]
        PROVE  /\ h \in live[v] /\ pc[v][h] # "registered"
               /\ generation[v] # h /\ h \notin cancelled[v]
               /\ \A k \in Gens : pc[v][k] \in BumpedPc => pc'[v][k] \in BumpedPc
    BY <1>1, <1>6, <1>7, <2>1 DEF PcMoves, BumpedPc
  <2> QED
    BY <2>1, StaleKept DEF IInv
<1>16. SettlementNotStranded'
  <2> SUFFICES ASSUME NEW v \in Docs, generation[v] > 0, settled[v] < generation[v]
               PROVE  pc'[v][generation[v]] \notin {"none", "done", "closeSettled"}
    BY <1>7 DEF SettlementNotStranded
  <2>1. generation[v] \in Gens
    BY DEF IInv, TypeOK, Gens
  <2> QED
    BY <1>1, <2>1 DEF IInv, SettlementNotStranded, PcMoves
<1> QED
  BY <1>8, <1>9, <1>10, <1>11, <1>12, <1>13, <1>14, <1>15, <1>16 DEF IInv

\* A registered pass that is current starts to wait for its document gate.
LEMMA CheckRegisteredPass ==
    ASSUME IInv, NEW u \in Docs, NEW g \in Gens, pc[u][g] = "registered", generation[u] = g,
           PcMoves(u, g, "waitDocument"),
           UNCHANGED <<generation, entries, gates, gate, cancelled, closure, settled>>
    PROVE  IInv'
<1>1. TypeOK'
  BY DEF IInv, PcMoves, entries, TypeOK
<1>2. FreshGenerations'
  BY DEF IInv, PcMoves, entries, FreshGenerations
<1>3. EntryShape'
  BY DEF IInv, PcMoves, entries, EntryShape
<1>4. ClosureOwned'
  BY DEF IInv, PcMoves, entries, ClosureOwned
<1>5. LiveExact'
  BY DEF IInv, PcMoves, entries, LiveExact, WillFinish, RegisteredPc
<1>6. LiveGate'
  BY DEF IInv, PcMoves, entries, LiveGate
<1>7. DocumentPermitUnique'
  BY DEF IInv, PcMoves, entries, DocumentPermitUnique, HoldsDocumentPermit,
         DocumentPermitPc
<1>8. StaleWorkCancelled'
  BY DEF IInv, PcMoves, entries, StaleWorkCancelled, IsGenerationCurrent,
         BumpedPc
<1>9. SettlementNotStranded'
  <2> SUFFICES ASSUME NEW v \in Docs, generation[v] > 0, settled[v] < generation[v]
               PROVE  pc'[v][generation[v]] \notin {"none", "done", "closeSettled"}
    BY DEF SettlementNotStranded
  <2>1. generation[v] \in Gens
    BY DEF IInv, TypeOK, Gens
  <2> QED
    BY <2>1 DEF IInv, SettlementNotStranded, PcMoves
<1> QED
  BY <1>1, <1>2, <1>3, <1>4, <1>5, <1>6, <1>7, <1>8, <1>9 DEF IInv

\* The closure takes over both permits of its waiter.
LEMMA SpawnStep ==
    ASSUME IInv, NEW u \in Docs, NEW g \in Gens, pc[u][g] = "snapshot",
           PcMoves(u, g, "running"), closure' = [closure EXCEPT ![u][g] = "running"],
           UNCHANGED <<generation, entries, gates, gate, cancelled, settled>>
    PROVE  IInv'
<1>1. /\ closure' \in [Docs -> [Gens -> {"none", "running", "returned", "joined"}]]
      /\ closure'[u][g] = "running"
      /\ \A v \in Docs : \A h \in Gens : (v # u \/ h # g) => closure'[v][h] = closure[v][h]
  <2>1. TypeOK /\ "running" \in {"running", "returned", "joined"}
    BY DEF IInv
  <2> QED
    BY <2>1, ClosureUpdate
<1>2. TypeOK'
  BY <1>1
  DEF IInv, PcMoves, entries, TypeOK
<1>3. FreshGenerations'
  BY <1>1
  DEF IInv, PcMoves, entries, FreshGenerations
<1>4. EntryShape'
  BY <1>1
  DEF IInv, PcMoves, entries, EntryShape
<1>5. ClosureOwned'
  BY <1>1
  DEF IInv, PcMoves, entries, ClosureOwned
<1>6. LiveExact'
  BY <1>1
  DEF IInv, PcMoves, entries, LiveExact, WillFinish, RegisteredPc
<1>7. LiveGate'
  BY <1>1
  DEF IInv, PcMoves, entries, LiveGate
<1>8. DocumentPermitUnique'
  <2>1. \A v \in Docs : \A h \in Gens :
            HoldsDocumentPermit(v, h)' => HoldsDocumentPermit(v, h)
    BY <1>1 DEF HoldsDocumentPermit, DocumentPermitPc, PcMoves
  <2> QED
    BY <2>1 DEF IInv, DocumentPermitUnique
<1>9. StaleWorkCancelled'
  <2>1. ASSUME NEW v \in Docs, NEW h \in Gens,
               h \in live'[v], pc'[v][h] # "registered",
               generation'[v] # h, h \notin cancelled'[v]
        PROVE  /\ h \in live[v] /\ pc[v][h] # "registered"
               /\ generation[v] # h /\ h \notin cancelled[v]
               /\ \A k \in Gens : pc[v][k] \in BumpedPc => pc'[v][k] \in BumpedPc
    BY <1>1, <2>1 DEF PcMoves, entries, BumpedPc
  <2> QED
    BY <2>1, StaleKept DEF IInv
<1>10. SettlementNotStranded'
  BY <1>1
  DEF IInv, PcMoves, entries, SettlementNotStranded, TypeOK, Gens
<1> QED
  BY <1>2, <1>3, <1>4, <1>5, <1>6, <1>7, <1>8, <1>9, <1>10 DEF IInv

\* A closure that returns drops its permits and stays registered.
LEMMA ClosureReturnsStep ==
    ASSUME IInv, NEW u \in Docs, NEW g \in Gens, ClosureReturns(u, g)
    PROVE  IInv'
<1>1. /\ closure' \in [Docs -> [Gens -> {"none", "running", "returned", "joined"}]]
      /\ closure'[u][g] = "returned"
      /\ \A v \in Docs : \A h \in Gens : (v # u \/ h # g) => closure'[v][h] = closure[v][h]
  BY ClosureUpdate DEF IInv, ClosureReturns
<1>2. TypeOK'
  BY <1>1
  DEF IInv, ClosureReturns, entries, TypeOK
<1>3. FreshGenerations'
  BY <1>1
  DEF IInv, ClosureReturns, entries, FreshGenerations
<1>4. EntryShape'
  BY <1>1
  DEF IInv, ClosureReturns, entries, EntryShape
<1>5. ClosureOwned'
  BY <1>1
  DEF IInv, ClosureReturns, entries, ClosureOwned
<1>6. LiveExact'
  BY <1>1
  DEF IInv, ClosureReturns, entries, LiveExact, WillFinish, RegisteredPc
<1>7. LiveGate'
  BY <1>1
  DEF IInv, ClosureReturns, entries, LiveGate
<1>8. DocumentPermitUnique'
  BY <1>1
  DEF IInv, ClosureReturns, entries, DocumentPermitUnique,
         HoldsDocumentPermit, DocumentPermitPc
<1>9. StaleWorkCancelled'
  BY <1>1
  DEF IInv, ClosureReturns, entries, StaleWorkCancelled,
         IsGenerationCurrent, BumpedPc
<1>10. SettlementNotStranded'
  BY <1>1
  DEF IInv, ClosureReturns, entries, SettlementNotStranded
<1> QED
  BY <1>2, <1>3, <1>4, <1>5, <1>6, <1>7, <1>8, <1>9, <1>10 DEF IInv

\* A timed-out waiter leaves registration and permits to its closure.
LEMMA TimeoutStep ==
    ASSUME IInv, NEW u \in Docs, NEW g \in Gens, Timeout(u, g)
    PROVE  IInv'
<1>1. PcMoves(u, g, "timedOut")
  BY PcMovesByUpdate DEF IInv, Timeout, PC, RegisteredPc, BumpedPc
<1>2. cancelled' \in [Docs -> SUBSET Gens] /\ \A v \in Docs : cancelled[v] \subseteq cancelled'[v]
  BY DEF IInv, TypeOK, Timeout
<1>3. TypeOK'
  BY <1>1, <1>2
  DEF IInv, Timeout, entries, PcMoves, TypeOK
<1>4. FreshGenerations'
  BY <1>1, <1>2
  DEF IInv, Timeout, entries, PcMoves, FreshGenerations
<1>5. EntryShape'
  BY <1>1, <1>2
  DEF IInv, Timeout, entries, PcMoves, EntryShape
<1>6. ClosureOwned'
  BY <1>1, <1>2
  DEF IInv, Timeout, entries, PcMoves, ClosureOwned
<1>7. LiveExact'
  BY <1>1, <1>2
  DEF IInv, Timeout, entries, PcMoves, LiveExact, WillFinish,
         RegisteredPc, ClosureOwned
<1>8. LiveGate'
  BY <1>1, <1>2
  DEF IInv, Timeout, entries, PcMoves, LiveGate
<1>9. DocumentPermitUnique'
  BY <1>1, <1>2
  DEF IInv, Timeout, entries, PcMoves, DocumentPermitUnique,
         HoldsDocumentPermit, DocumentPermitPc
<1>10. StaleWorkCancelled'
  BY <1>1, <1>2
  DEF IInv, Timeout, entries, PcMoves, StaleWorkCancelled,
         IsGenerationCurrent, BumpedPc
<1>11. SettlementNotStranded'
  BY <1>1, <1>2
  DEF IInv, Timeout, entries, PcMoves, SettlementNotStranded, TypeOK,
         Gens
<1> QED
  BY <1>3, <1>4, <1>5, <1>6, <1>7, <1>8, <1>9, <1>10, <1>11 DEF IInv

\* The cleanup task finishes a detached closure.
LEMMA CleanupStep ==
    ASSUME IInv, NEW u \in Docs, NEW g \in Gens, Cleanup(u, g)
    PROVE  IInv'
<1>1. /\ closure' \in [Docs -> [Gens -> {"none", "running", "returned", "joined"}]]
      /\ closure'[u][g] = "joined"
      /\ \A v \in Docs : \A h \in Gens : (v # u \/ h # g) => closure'[v][h] = closure[v][h]
  BY ClosureUpdate DEF IInv, Cleanup
<1>2. \A v \in Docs : live'[v] = IF v = u THEN live[v] \ {g} ELSE live[v]
  BY DEF IInv, TypeOK, Cleanup, Finish
<1>3. TypeOK'
  BY <1>1, <1>2
  DEF IInv, Cleanup, TypeOK, Finish
<1>4. FreshGenerations'
  BY <1>1, <1>2
  DEF IInv, Cleanup, FreshGenerations
<1>5. EntryShape'
  BY <1>1, <1>2
  DEF IInv, Cleanup, EntryShape, Finish, TypeOK
<1>6. ClosureOwned'
  BY <1>1, <1>2
  DEF IInv, Cleanup, ClosureOwned
<1>7. LiveExact'
  <2> SUFFICES ASSUME NEW v \in Docs, NEW h \in Gens
               PROVE  h \in live'[v] <=> WillFinish(v, h)'
    BY DEF LiveExact
  <2>1. CASE v = u /\ h = g
    BY <1>1, <1>2, <2>1 DEF Cleanup, WillFinish, RegisteredPc
  <2>2. CASE v # u \/ h # g
    <3>1. h \in live'[v] <=> h \in live[v]
      BY <1>2, <2>2
    <3>2. WillFinish(v, h)' <=> WillFinish(v, h)
      BY <1>1, <2>2 DEF Cleanup, WillFinish
    <3> QED
      BY <3>1, <3>2 DEF IInv, LiveExact
  <2> QED
    BY <2>1, <2>2
<1>8. LiveGate'
  BY <1>1, <1>2
  DEF IInv, Cleanup, LiveGate, Finish, TypeOK, EntryShape
<1>9. DocumentPermitUnique'
  BY <1>1, <1>2
  DEF IInv, Cleanup, DocumentPermitUnique, HoldsDocumentPermit,
         DocumentPermitPc
<1>10. StaleWorkCancelled'
  <2>1. ASSUME NEW v \in Docs, NEW h \in Gens,
               h \in live'[v], pc'[v][h] # "registered",
               generation'[v] # h, h \notin cancelled'[v]
        PROVE  /\ h \in live[v] /\ pc[v][h] # "registered"
               /\ generation[v] # h /\ h \notin cancelled[v]
               /\ \A k \in Gens : pc[v][k] \in BumpedPc => pc'[v][k] \in BumpedPc
    BY <1>1, <1>2, <2>1 DEF Cleanup
  <2> QED
    BY <2>1, StaleKept DEF IInv
<1>11. SettlementNotStranded'
  BY <1>1, <1>2
  DEF IInv, Cleanup, SettlementNotStranded
<1> QED
  BY <1>3, <1>4, <1>5, <1>6, <1>7, <1>8, <1>9, <1>10, <1>11 DEF IInv

\* A retry leaves its generation and owns the next one.
LEMMA RetryStep ==
    ASSUME IInv, NEW u \in Docs, NEW g \in Gens, Retry(u, g)
    PROVE  IInv'
<1> DEFINE n == generation[u] + 1
<1>1. /\ n \in Gens /\ n > generation[u] /\ generation'[u] = n
      /\ \A v \in Docs : v # u => generation'[v] = generation[v]
      /\ generation' \in [Docs -> 0 .. MaxGeneration]
  BY MaxGenerationAssumption DEF IInv, TypeOK, Retry, Gens
<1>2. pc[u][g] = "computed" /\ pc[u][n] = "none" /\ g # n
  BY <1>1 DEF IInv, Retry, FreshGenerations
<1>3. /\ pc' \in [Docs -> [Gens -> PC]]
      /\ pc'[u][g] = "done" /\ pc'[u][n] = "bumpedInline"
      /\ \A v \in Docs : \A h \in Gens :
            (v # u \/ (h # g /\ h # n)) => pc'[v][h] = pc[v][h]
  BY <1>1, <1>2 DEF IInv, TypeOK, Retry, PC, BumpedPc
<1>4. UNCHANGED <<opened, live, entryGate, gates, gate, cancelled, closure, settled>>
  BY DEF Retry, entries
<1>5. g <= generation[u] /\ \A v \in Docs : generation[v] \in Nat
  <2>1. \A v \in Docs : generation[v] \in Nat
    BY DEF IInv, TypeOK
  <2>2. g \in Nat
    BY DEF Gens
  <2>3. ~(g > generation[u])
    BY <1>2 DEF IInv, FreshGenerations
  <2> QED
    BY <2>1, <2>2, <2>3
<1> HIDE DEF n
<1>6. TypeOK'
  BY <1>1, <1>3, <1>4 DEF IInv, TypeOK
<1>7. FreshGenerations'
  <2> SUFFICES ASSUME NEW v \in Docs, NEW h \in Gens, h > generation'[v]
               PROVE  pc'[v][h] = "none"
    BY DEF FreshGenerations
  <2>1. h > generation[v] /\ (v # u \/ (h # g /\ h # n))
    BY <1>1, <1>5 DEF n, Gens
  <2> QED
    BY <1>3, <2>1 DEF IInv, FreshGenerations
<1>8. EntryShape'
  BY <1>4 DEF IInv, EntryShape
<1>9. ClosureOwned'
  BY <1>2, <1>3, <1>4 DEF IInv, ClosureOwned
<1>10. LiveExact'
  BY <1>2, <1>3, <1>4 DEF IInv, LiveExact, WillFinish, RegisteredPc, ClosureOwned
<1>11. LiveGate'
  BY <1>4 DEF IInv, LiveGate
<1>12. DocumentPermitUnique'
  BY <1>2, <1>3, <1>4
  DEF IInv, DocumentPermitUnique, HoldsDocumentPermit, DocumentPermitPc
<1>13. StaleWorkCancelled'
  <2> SUFFICES ASSUME NEW v \in Docs, NEW h \in Gens, h \in live[v],
                      pc'[v][h] # "registered", generation'[v] # h,
                      h \notin cancelled[v]
               PROVE  \E k \in Gens : k > h /\ pc'[v][k] \in BumpedPc
    BY <1>4 DEF StaleWorkCancelled, IsGenerationCurrent
  <2>1. CASE v = u
    <3>1. pc[v][h] # "none"
      BY DEF IInv, LiveExact, WillFinish, RegisteredPc
    <3>2. n > h
      BY <1>1, <1>5, <2>1, <3>1 DEF IInv, FreshGenerations, n, Gens
    <3> QED
      BY <1>1, <1>3, <2>1, <3>2 DEF BumpedPc
  <2>2. CASE v # u
    BY <1>1, <1>3, <2>2 DEF IInv, StaleWorkCancelled, IsGenerationCurrent
  <2> QED
    BY <2>1, <2>2
<1>14. SettlementNotStranded'
  <2> SUFFICES ASSUME NEW v \in Docs, generation'[v] > 0, settled[v] < generation'[v]
               PROVE  pc'[v][generation'[v]] \notin {"none", "done", "closeSettled"}
    BY <1>4 DEF SettlementNotStranded
  <2>1. CASE v = u
    BY <1>1, <1>3, <2>1
  <2>2. CASE v # u
    <3>1. generation[v] \in Gens
      BY <1>1, <2>2 DEF IInv, TypeOK, Gens
    <3> QED
      BY <1>1, <1>3, <2>2, <3>1 DEF IInv, SettlementNotStranded
  <2> QED
    BY <2>1, <2>2
<1> QED
  BY <1>6, <1>7, <1>8, <1>9, <1>10, <1>11, <1>12, <1>13, <1>14 DEF IInv

\* A pass settles its generation when it is done.
LEMMA SettlePassStep ==
    ASSUME IInv, NEW u \in Docs, NEW g \in Gens, SettlePass(u, g)
    PROVE  IInv'
<1>1. PcMoves(u, g, "done")
  BY PcMovesByUpdate DEF IInv, SettlePass, PC, RegisteredPc, BumpedPc
<1>2. /\ settled' \in [Docs -> 0 .. MaxGeneration]
      /\ settled'[u] >= g
      /\ \A v \in Docs : settled'[v] >= settled[v]
  BY DEF IInv, TypeOK, SettlePass, Settle, Gens
<1>3. TypeOK'
  BY <1>1, <1>2
  DEF IInv, SettlePass, entries, PcMoves, TypeOK
<1>4. FreshGenerations'
  BY <1>1, <1>2
  DEF IInv, SettlePass, entries, PcMoves, FreshGenerations
<1>5. EntryShape'
  BY <1>1, <1>2
  DEF IInv, SettlePass, entries, PcMoves, EntryShape
<1>6. ClosureOwned'
  BY <1>1, <1>2
  DEF IInv, SettlePass, entries, PcMoves, ClosureOwned
<1>7. LiveExact'
  BY <1>1, <1>2
  DEF IInv, SettlePass, entries, PcMoves, LiveExact, WillFinish,
         RegisteredPc, ClosureOwned
<1>8. LiveGate'
  BY <1>1, <1>2
  DEF IInv, SettlePass, entries, PcMoves, LiveGate
<1>9. DocumentPermitUnique'
  BY <1>1, <1>2
  DEF IInv, SettlePass, entries, PcMoves, DocumentPermitUnique,
         HoldsDocumentPermit, DocumentPermitPc
<1>10. StaleWorkCancelled'
  BY <1>1, <1>2
  DEF IInv, SettlePass, entries, PcMoves, StaleWorkCancelled,
         IsGenerationCurrent, BumpedPc
<1>11. SettlementNotStranded'
  BY <1>1, <1>2
  DEF IInv, SettlePass, entries, PcMoves, SettlementNotStranded, TypeOK,
         Gens
<1> QED
  BY <1>3, <1>4, <1>5, <1>6, <1>7, <1>8, <1>9, <1>10, <1>11 DEF IInv

\* didClose settles the generation it bumped.
LEMMA SettleCloseStep ==
    ASSUME IInv, NEW u \in Docs, NEW g \in Gens, SettleClose(u, g)
    PROVE  IInv'
<1>1. PcMoves(u, g, "closeSettled")
  BY PcMovesByUpdate DEF IInv, SettleClose, PC, RegisteredPc, BumpedPc
<1>2. /\ settled' \in [Docs -> 0 .. MaxGeneration]
      /\ settled'[u] >= g
      /\ \A v \in Docs : settled'[v] >= settled[v]
  BY DEF IInv, TypeOK, SettleClose, Settle, Gens
<1>3. TypeOK'
  BY <1>1, <1>2
  DEF IInv, SettleClose, entries, PcMoves, TypeOK
<1>4. FreshGenerations'
  BY <1>1, <1>2
  DEF IInv, SettleClose, entries, PcMoves, FreshGenerations
<1>5. EntryShape'
  BY <1>1, <1>2
  DEF IInv, SettleClose, entries, PcMoves, EntryShape
<1>6. ClosureOwned'
  BY <1>1, <1>2
  DEF IInv, SettleClose, entries, PcMoves, ClosureOwned
<1>7. LiveExact'
  BY <1>1, <1>2
  DEF IInv, SettleClose, entries, PcMoves, LiveExact, WillFinish,
         RegisteredPc, ClosureOwned
<1>8. LiveGate'
  BY <1>1, <1>2
  DEF IInv, SettleClose, entries, PcMoves, LiveGate
<1>9. DocumentPermitUnique'
  BY <1>1, <1>2
  DEF IInv, SettleClose, entries, PcMoves, DocumentPermitUnique,
         HoldsDocumentPermit, DocumentPermitPc
<1>10. StaleWorkCancelled'
  BY <1>1, <1>2
  DEF IInv, SettleClose, entries, PcMoves, StaleWorkCancelled,
         IsGenerationCurrent, BumpedPc
<1>11. SettlementNotStranded'
  BY <1>1, <1>2
  DEF IInv, SettleClose, entries, PcMoves, SettlementNotStranded,
         TypeOK, Gens
<1> QED
  BY <1>3, <1>4, <1>5, <1>6, <1>7, <1>8, <1>9, <1>10, <1>11 DEF IInv

\* close_document cancels, marks closed, and removes a quiescent entry.
LEMMA CloseDocumentStep ==
    ASSUME IInv, NEW u \in Docs, NEW g \in Gens, CloseDocument(u, g)
    PROVE  IInv'
<1>1. PcMoves(u, g, "done")
  BY PcMovesByUpdate DEF IInv, CloseDocument, PC, RegisteredPc, BumpedPc
<1>2. cancelled' \in [Docs -> SUBSET Gens] /\ \A v \in Docs : cancelled[v] \subseteq cancelled'[v]
  BY DEF IInv, TypeOK, CloseDocument, CancelLive
<1>3. /\ entryGate' \in [Docs -> Nat] /\ entryGate'[u] = (IF live[u] = {} THEN 0 ELSE entryGate[u])
      /\ \A v \in Docs : v # u => entryGate'[v] = entryGate[v]
  BY DEF IInv, TypeOK, CloseDocument
<1>4. /\ opened' = opened \ {u} /\ pc[u][g] = "closeSettled"
      /\ UNCHANGED <<generation, live, gates, gate, closure, settled>>
  BY DEF CloseDocument
<1>5. TypeOK'
  BY <1>1, <1>2, <1>3, <1>4
  DEF IInv, PcMoves, TypeOK
<1>6. FreshGenerations'
  BY <1>1, <1>2, <1>3, <1>4
  DEF IInv, PcMoves, FreshGenerations
<1>7. EntryShape'
  BY <1>1, <1>2, <1>3, <1>4
  DEF IInv, PcMoves, EntryShape, TypeOK
<1>8. ClosureOwned'
  BY <1>1, <1>2, <1>3, <1>4
  DEF IInv, PcMoves, ClosureOwned
<1>9. LiveExact'
  BY <1>1, <1>2, <1>3, <1>4
  DEF IInv, PcMoves, LiveExact, WillFinish, RegisteredPc, ClosureOwned
<1>10. LiveGate'
  BY <1>1, <1>2, <1>3, <1>4
  DEF IInv, PcMoves, LiveGate
<1>11. DocumentPermitUnique'
  BY <1>1, <1>2, <1>3, <1>4
  DEF IInv, PcMoves, DocumentPermitUnique, HoldsDocumentPermit,
         DocumentPermitPc
<1>12. StaleWorkCancelled'
  <2>1. ASSUME NEW v \in Docs, NEW h \in Gens,
               h \in live'[v], pc'[v][h] # "registered",
               generation'[v] # h, h \notin cancelled'[v]
        PROVE  /\ h \in live[v] /\ pc[v][h] # "registered"
               /\ generation[v] # h /\ h \notin cancelled[v]
               /\ \A k \in Gens : pc[v][k] \in BumpedPc => pc'[v][k] \in BumpedPc
    BY <1>1, <1>2, <1>3, <1>4, <2>1 DEF PcMoves, BumpedPc
  <2> QED
    BY <2>1, StaleKept DEF IInv
<1>13. SettlementNotStranded'
  BY <1>1, <1>2, <1>3, <1>4
  DEF IInv, PcMoves, SettlementNotStranded, TypeOK, Gens
<1> QED
  BY <1>5, <1>6, <1>7, <1>8, <1>9, <1>10, <1>11, <1>12, <1>13 DEF IInv

\* shutdown only cancels.
LEMMA ShutdownStep ==
    ASSUME IInv, Shutdown
    PROVE  IInv'
<1>1. cancelled' \in [Docs -> SUBSET Gens] /\ \A v \in Docs : cancelled[v] \subseteq cancelled'[v]
  BY DEF IInv, TypeOK, Shutdown
<1>2. TypeOK'
  BY <1>1
  DEF IInv, Shutdown, entries, TypeOK
<1>3. FreshGenerations'
  BY <1>1
  DEF IInv, Shutdown, entries, FreshGenerations
<1>4. EntryShape'
  BY <1>1
  DEF IInv, Shutdown, entries, EntryShape
<1>5. ClosureOwned'
  BY <1>1
  DEF IInv, Shutdown, entries, ClosureOwned
<1>6. LiveExact'
  BY <1>1
  DEF IInv, Shutdown, entries, LiveExact, WillFinish, RegisteredPc
<1>7. LiveGate'
  BY <1>1
  DEF IInv, Shutdown, entries, LiveGate
<1>8. DocumentPermitUnique'
  BY <1>1
  DEF IInv, Shutdown, entries, DocumentPermitUnique,
         HoldsDocumentPermit, DocumentPermitPc
<1>9. StaleWorkCancelled'
  BY <1>1
  DEF IInv, Shutdown, entries, StaleWorkCancelled, IsGenerationCurrent,
         BumpedPc
<1>10. SettlementNotStranded'
  BY <1>1
  DEF IInv, Shutdown, entries, SettlementNotStranded
<1> QED
  BY <1>2, <1>3, <1>4, <1>5, <1>6, <1>7, <1>8, <1>9, <1>10 DEF IInv

\* A debounced pass goes on, or gives up because it is not current.
LEMMA DebouncedStep ==
    ASSUME IInv, NEW u \in Docs, NEW g \in Gens, Debounced(u, g)
    PROVE  IInv'
<1>1. CASE IsGenerationCurrent(u, g)
  <2>1. PcMoves(u, g, "ready")
    BY <1>1, PcMovesByUpdate DEF IInv, Debounced, PC
  <2> QED
    BY <2>1, QuietMove DEF Debounced, PC, BumpedPc, RegisteredPc, DocumentPermitPc
<1>2. CASE ~IsGenerationCurrent(u, g)
  <2>1. PcMoves(u, g, "done")
    BY <1>2, PcMovesByUpdate DEF IInv, Debounced, PC
  <2> QED
    BY <1>2, <2>1, QuietMove
    DEF Debounced, IsGenerationCurrent, PC, BumpedPc, RegisteredPc, DocumentPermitPc
<1> QED
  BY <1>1, <1>2

\* The document permit is taken only when the gate is free.
LEMMA AcquireDocumentStep ==
    ASSUME IInv, NEW u \in Docs, NEW g \in Gens, AcquireDocument(u, g)
    PROVE  IInv'
<1>1. PcMoves(u, g, "gotDocument")
  BY PcMovesByUpdate DEF IInv, AcquireDocument, PC, RegisteredPc
<1> QED
  BY <1>1, QuietMove DEF AcquireDocument, PC, BumpedPc, RegisteredPc, DocumentPermitPc

\* Taking a global permit changes nothing per document.
LEMMA AcquireGlobalStep ==
    ASSUME IInv, NEW u \in Docs, NEW g \in Gens, AcquireGlobal(u, g)
    PROVE  IInv'
<1>1. PcMoves(u, g, "gotGlobal")
  BY PcMovesByUpdate DEF IInv, AcquireGlobal, PC, RegisteredPc
<1> QED
  BY <1>1, QuietMove DEF AcquireGlobal, PC, BumpedPc, RegisteredPc, DocumentPermitPc

\* An early return drops permits.
LEMMA DropPermitsStep ==
    ASSUME IInv, NEW u \in Docs, NEW g \in Gens, DropPermits(u, g)
    PROVE  IInv'
<1>1. PcMoves(u, g, "finished")
  BY PcMovesByUpdate DEF IInv, DropPermits, PC
<1> QED
  BY <1>1, QuietMove DEF DropPermits, PC, BumpedPc, RegisteredPc, DocumentPermitPc

\* A computed pass goes on to settle.
LEMMA ConcludeStep ==
    ASSUME IInv, NEW u \in Docs, NEW g \in Gens, Conclude(u, g)
    PROVE  IInv'
<1>1. PcMoves(u, g, "finished")
  BY PcMovesByUpdate DEF IInv, Conclude, PC
<1> QED
  BY <1>1, QuietMove DEF Conclude, PC, BumpedPc, RegisteredPc, DocumentPermitPc

\* A pass that finishes without touching tokens or closures.
LEMMA PlainFinish ==
    ASSUME IInv, NEW u \in Docs, NEW g \in Gens,
           NEW x \in {"dropDocument", "dropBoth", "finished"},
           FinishEarly(u, g, x), pc[u][g] \in RegisteredPc \ {"running"},
           x # "finished" => pc[u][g] \in DocumentPermitPc,
           UNCHANGED <<generation, gates, gate, cancelled, closure, settled>>
    PROVE  IInv'
<1>1. x \in PC
  BY DEF PC
<1>2. closure[u][g] \notin {"running", "returned"}
  BY DEF IInv, ClosureOwned, RegisteredPc
<1>3. /\ cancelled \in [Docs -> SUBSET Gens]
      /\ closure \in [Docs -> [Gens -> {"none", "running", "returned", "joined"}]]
  BY DEF IInv, TypeOK
<1> QED
  BY <1>1, <1>2, <1>3, FinishMove

\* The generation check right after register.
LEMMA CheckRegisteredStep ==
    ASSUME IInv, NEW u \in Docs, NEW g \in Gens, CheckRegistered(u, g)
    PROVE  IInv'
<1>1. CASE IsGenerationCurrent(u, g)
  <2>1. PcMoves(u, g, "waitDocument")
    BY <1>1, PcMovesByUpdate DEF IInv, CheckRegistered, PC, RegisteredPc
  <2> QED
    BY <1>1, <2>1, CheckRegisteredPass DEF CheckRegistered, IsGenerationCurrent
<1>2. CASE ~IsGenerationCurrent(u, g)
  <2>1. closure[u][g] \notin {"running", "returned"}
    BY DEF IInv, ClosureOwned, CheckRegistered
  <2>2. /\ cancelled \in [Docs -> SUBSET Gens]
        /\ cancelled' \in [Docs -> SUBSET Gens]
        /\ \A v \in Docs : cancelled[v] \subseteq cancelled'[v]
        /\ closure \in [Docs -> [Gens -> {"none", "running", "returned", "joined"}]]
    <3>1. cancelled' = [cancelled EXCEPT ![u] = @ \cup {g}]
      BY <1>2 DEF CheckRegistered
    <3> QED
      BY <3>1 DEF IInv, TypeOK
  <2>3. /\ FinishEarly(u, g, "finished") /\ "finished" \in PC
        /\ pc[u][g] \in RegisteredPc
        /\ UNCHANGED <<generation, gates, gate, closure, settled>>
    BY <1>2 DEF CheckRegistered, PC, RegisteredPc
  <2> QED
    BY <2>1, <2>2, <2>3, FinishMove
<1> QED
  BY <1>1, <1>2

\* A cancelled waiter leaves the document gate.
LEMMA AbandonDocumentStep ==
    ASSUME IInv, NEW u \in Docs, NEW g \in Gens, AbandonDocument(u, g)
    PROVE  IInv'
  BY PlainFinish DEF AbandonDocument, RegisteredPc

\* A cancelled waiter leaves the global gate and drops its document permit.
LEMMA AbandonGlobalStep ==
    ASSUME IInv, NEW u \in Docs, NEW g \in Gens, AbandonGlobal(u, g)
    PROVE  IInv'
  BY PlainFinish DEF AbandonGlobal, RegisteredPc, DocumentPermitPc

\* The check after the document permit.
LEMMA CheckDocumentStep ==
    ASSUME IInv, NEW u \in Docs, NEW g \in Gens, CheckDocument(u, g)
    PROVE  IInv'
<1>1. CASE Superseded(u, g)
  BY <1>1, PlainFinish DEF CheckDocument, RegisteredPc, DocumentPermitPc
<1>2. CASE ~Superseded(u, g)
  <2>1. PcMoves(u, g, "waitGlobal")
    BY <1>2, PcMovesByUpdate DEF IInv, CheckDocument, PC, RegisteredPc
  <2> QED
    BY <1>2, <2>1, QuietMove
    DEF CheckDocument, PC, BumpedPc, RegisteredPc, DocumentPermitPc
<1> QED
  BY <1>1, <1>2

\* The check after the global permit.
LEMMA CheckGlobalStep ==
    ASSUME IInv, NEW u \in Docs, NEW g \in Gens, CheckGlobal(u, g)
    PROVE  IInv'
<1>1. CASE Superseded(u, g)
  BY <1>1, PlainFinish DEF CheckGlobal, RegisteredPc, DocumentPermitPc
<1>2. CASE ~Superseded(u, g)
  <2>1. PcMoves(u, g, "snapshot")
    BY <1>2, PcMovesByUpdate DEF IInv, CheckGlobal, PC, RegisteredPc
  <2> QED
    BY <1>2, <2>1, QuietMove
    DEF CheckGlobal, PC, BumpedPc, RegisteredPc, DocumentPermitPc
<1> QED
  BY <1>1, <1>2

\* The check after the input snapshot, and the spawn.
LEMMA SpawnBlockingStep ==
    ASSUME IInv, NEW u \in Docs, NEW g \in Gens, SpawnBlocking(u, g)
    PROVE  IInv'
<1>1. CASE Superseded(u, g)
  BY <1>1, PlainFinish DEF SpawnBlocking, RegisteredPc, DocumentPermitPc
<1>2. CASE ~Superseded(u, g)
  <2>1. PcMoves(u, g, "running")
    BY <1>2, PcMovesByUpdate DEF IInv, SpawnBlocking, PC, RegisteredPc
  <2> QED
    BY <1>2, <2>1, SpawnStep DEF SpawnBlocking
<1> QED
  BY <1>1, <1>2

\* The waiter joins its closure and calls finish.
LEMMA JoinClosureStep ==
    ASSUME IInv, NEW u \in Docs, NEW g \in Gens, JoinClosure(u, g)
    PROVE  IInv'
<1>1. PICK x \in {"computed", "finished"} : FinishEarly(u, g, x)
  BY DEF JoinClosure
<1>2. /\ closure' \in [Docs -> [Gens -> {"none", "running", "returned", "joined"}]]
      /\ closure'[u][g] = "joined"
      /\ \A v \in Docs : \A h \in Gens :
            (v # u \/ h # g) => closure'[v][h] = closure[v][h]
  BY ClosureUpdate DEF IInv, JoinClosure
<1>3. /\ cancelled \in [Docs -> SUBSET Gens]
      /\ x \in PC /\ pc[u][g] \in RegisteredPc
      /\ UNCHANGED <<generation, gates, gate, cancelled, settled>>
  BY DEF IInv, TypeOK, PC, RegisteredPc, JoinClosure
<1> QED
  BY <1>1, <1>2, <1>3, FinishMove

-----------------------------------------------------------------------------
\* The server starts in a state that satisfies the invariant.
LEMMA InitInv == Init => IInv
<1> SUFFICES ASSUME Init PROVE IInv
  OBVIOUS
<1>1. TypeOK
  BY MaxGenerationAssumption DEF Init, TypeOK, PC
<1>2. FreshGenerations /\ EntryShape /\ ClosureOwned /\ LiveGate
  BY DEF Init, FreshGenerations, EntryShape, ClosureOwned, LiveGate
<1>3. LiveExact
  BY DEF Init, LiveExact, WillFinish, RegisteredPc
<1>4. DocumentPermitUnique
  BY DEF Init, DocumentPermitUnique, HoldsDocumentPermit, DocumentPermitPc
<1>5. StaleWorkCancelled /\ SettlementNotStranded
  BY DEF Init, StaleWorkCancelled, SettlementNotStranded
<1> QED
  BY <1>1, <1>2, <1>3, <1>4, <1>5 DEF IInv

\* The invariant speaks of the variables only.
LEMMA StutterInv ==
    ASSUME IInv, UNCHANGED vars
    PROVE  IInv'
  BY DEF vars, IInv, TypeOK, FreshGenerations, EntryShape, ClosureOwned, LiveExact,
         WillFinish, LiveGate, DocumentPermitUnique, HoldsDocumentPermit,
         StaleWorkCancelled, IsGenerationCurrent, SettlementNotStranded

\* Every step of the scheduler preserves the invariant.
LEMMA NextInv == IInv /\ [Next]_vars => IInv'
<1> SUFFICES ASSUME IInv, [Next]_vars PROVE IInv'
  OBVIOUS
<1>1. ASSUME NEW u \in Docs, ClientStep(u) PROVE IInv'
  <2>1. CASE OpenDocument(u)
    BY <2>1, OpenDocumentStep
  <2>2. CASE BumpDebounced(u) \/ BumpInline(u) \/ BumpClose(u)
    BY <2>2, BumpStep DEF BumpDebounced, BumpInline, BumpClose, BumpedPc
  <2> QED
    BY <1>1, <2>1, <2>2 DEF ClientStep
<1>2. ASSUME NEW u \in Docs, NEW g \in Gens, TaskStep(u, g) PROVE IInv'
  BY <1>2, CancelDocumentStep, DebouncedStep, RegisterStep, CheckRegisteredStep,
     AcquireDocumentStep, AbandonDocumentStep, CheckDocumentStep, AcquireGlobalStep,
     AbandonGlobalStep, CheckGlobalStep, SpawnBlockingStep, DropPermitsStep,
     JoinClosureStep, ConcludeStep, RetryStep, SettlePassStep, SettleCloseStep,
     CloseDocumentStep
  DEF TaskStep
<1>3. ASSUME NEW u \in Docs, NEW g \in Gens,
             ClosureReturns(u, g) \/ Timeout(u, g) \/ Cleanup(u, g)
      PROVE  IInv'
  BY <1>3, ClosureReturnsStep, TimeoutStep, CleanupStep
<1>4. CASE Shutdown
  BY <1>4, ShutdownStep
<1>5. CASE UNCHANGED vars
  BY <1>5, StutterInv
<1> QED
  BY <1>1, <1>2, <1>3, <1>4, <1>5 DEF Next

\* Every reachable state satisfies the inductive invariant.
THEOREM Invariance == Spec => []IInv
  BY InitInv, NextInv, PTL DEF Spec

\* Every variable keeps its type: no generation outruns its bound, no control
\* point is left undefined.
THEOREM TypeCorrect == Spec => []TypeOK
<1>1. IInv => TypeOK
  BY DEF IInv
<1> QED
  BY <1>1, Invariance, PTL

\* AnalysisScheduler never runs two blocking analyses of one document, for any
\* number of edits, closes, reopens, timeouts and retries.
THEOREM SingleFlightTheorem == Spec => []SingleFlight
<1>1. IInv => SingleFlight
  <2> SUFFICES ASSUME IInv, NEW u \in Docs, NEW g \in Gens, NEW h \in Gens,
                      closure[u][g] = "running", closure[u][h] = "running"
               PROVE  g = h
    BY DEF SingleFlight
  <2>1. g \in live[u] /\ h \in live[u]
    BY DEF IInv, ClosureOwned, LiveExact, WillFinish, RegisteredPc
  <2>2. gate[u][g] = gate[u][h]
    BY <2>1 DEF IInv, LiveGate
  <2> QED
    BY <2>2 DEF IInv, DocumentPermitUnique, HoldsDocumentPermit
<1> QED
  BY <1>1, Invariance, PTL

\* No queued or running analysis that a newer generation has superseded keeps
\* an uncancelled token once the superseding task has called cancel_document.
THEOREM StaleWorkCancelledTheorem == Spec => []StaleWorkCancelled
<1>1. IInv => StaleWorkCancelled
  BY DEF IInv
<1> QED
  BY <1>1, Invariance, PTL

\* A closed scheduling entry is present only while registered work unwinds.
THEOREM ClosedEntriesUnwindTheorem == Spec => []ClosedEntriesUnwind
<1>1. IInv => ClosedEntriesUnwind
  <2> SUFFICES ASSUME IInv, NEW u \in Docs
               PROVE  /\ Present(u) /\ u \notin opened => live[u] # {}
                      /\ \A g \in live[u] : WillFinish(u, g)
    BY DEF ClosedEntriesUnwind, WillFinish
  <2>1. live[u] \subseteq Gens
    BY DEF IInv, TypeOK
  <2> QED
    BY <2>1 DEF IInv, EntryShape, LiveExact, Present
<1> QED
  BY <1>1, Invariance, PTL

\* The current generation of a document is settled or has an owner that will
\* settle it, so wait_for_current never waits for nobody.
THEOREM SettlementNotStrandedTheorem == Spec => []SettlementNotStranded
<1>1. IInv => SettlementNotStranded
  BY DEF IInv
<1> QED
  BY <1>1, Invariance, PTL

-----------------------------------------------------------------------------
\* A finish that empties the registry may remove the entry; any other finish
\* leaves the gate alone.
LEMMA FinishKeepsGate ==
    ASSUME TypeOK, NEW u \in Docs, NEW g \in Gens, Finish(u, g), NEW v \in Docs,
           live'[v] # {}
    PROVE  entryGate'[v] = entryGate[v]
<1>1. CASE u \notin opened /\ live[u] \subseteq {g}
  <2>1. live'[u] = {} /\ (v # u => entryGate'[v] = entryGate[v])
    BY <1>1 DEF TypeOK, Finish
  <2> QED
    BY <2>1
<1>2. CASE ~(u \notin opened /\ live[u] \subseteq {g})
  BY <1>2 DEF TypeOK, Finish
<1> QED
  BY <1>1, <1>2

\* No step replaces the gate of an entry that keeps registered work.
LEMMA GateStep ==
    ASSUME IInv, [Next]_vars, NEW v \in Docs, live[v] # {}, live'[v] # {}
    PROVE  entryGate'[v] = entryGate[v]
<1>1. TypeOK /\ EntryShape
  BY DEF IInv
<1>2. entryGate[v] # 0
  BY <1>1 DEF EntryShape
<1>3. ASSUME NEW u \in Docs, ClientStep(u) PROVE entryGate'[v] = entryGate[v]
  <2>1. CASE OpenDocument(u)
    <3>1. CASE Present(u)
      BY <2>1, <3>1 DEF OpenDocument
    <3>2. CASE ~Present(u)
      BY <1>1, <1>2, <2>1, <3>2 DEF OpenDocument, Present, TypeOK
    <3> QED
      BY <3>1, <3>2
  <2>2. CASE BumpDebounced(u) \/ BumpInline(u) \/ BumpClose(u)
    BY <2>2 DEF BumpDebounced, BumpInline, BumpClose, Bump, entries
  <2> QED
    BY <1>3, <2>1, <2>2 DEF ClientStep
<1>4. ASSUME NEW u \in Docs, NEW g \in Gens, TaskStep(u, g)
      PROVE  entryGate'[v] = entryGate[v]
  <2>1. CASE Register(u, g)
    BY <1>1, <1>2, <2>1 DEF Register, Present, TypeOK
  <2>2. CASE CloseDocument(u, g)
    <3>1. live' = live
      BY <2>2 DEF CloseDocument
    <3>2. entryGate' = [entryGate EXCEPT ![u] = IF live[u] = {} THEN 0 ELSE @]
      BY <2>2 DEF CloseDocument
    <3> QED
      BY <1>1, <3>1, <3>2 DEF TypeOK
  <2>3. CASE Finish(u, g)
    BY <1>1, <2>3, FinishKeepsGate
  <2>4. CASE entryGate' = entryGate
    BY <2>4
  <2>5. Register(u, g) \/ CloseDocument(u, g) \/ Finish(u, g) \/ entryGate' = entryGate
    BY <1>4
    DEF TaskStep, CancelDocument, Debounced, CheckRegistered, AcquireDocument,
        AbandonDocument, CheckDocument, AcquireGlobal, AbandonGlobal, CheckGlobal,
        SpawnBlocking, DropPermits, JoinClosure, Conclude, Retry, SettlePass,
        SettleClose, FinishEarly, entries
  <2> QED
    BY <2>1, <2>2, <2>3, <2>4, <2>5
<1>5. ASSUME NEW u \in Docs, NEW g \in Gens,
             ClosureReturns(u, g) \/ Timeout(u, g) \/ Cleanup(u, g)
      PROVE  entryGate'[v] = entryGate[v]
  <2>1. Finish(u, g) \/ entryGate' = entryGate
    BY <1>5 DEF ClosureReturns, Timeout, Cleanup, entries
  <2> QED
    BY <1>1, <2>1, FinishKeepsGate
<1>6. CASE Shutdown \/ UNCHANGED vars
  BY <1>6 DEF Shutdown, vars, entries
<1> QED
  BY <1>3, <1>4, <1>5, <1>6 DEF Next

\* The gate of an entry with registered work is never replaced: a reopen or a
\* late registration reuses the semaphore old work still waits on.
THEOREM GateKeptTheorem == Spec => GateKept
<1>1. IInv /\ [Next]_vars =>
        [\A u \in Docs :
            live[u] # {} /\ live'[u] # {} => entryGate'[u] = entryGate[u]]_vars
  BY GateStep
<1> QED
  BY <1>1, Invariance, PTL DEF Spec, GateKept

-----------------------------------------------------------------------------
\* Only AcquireGlobal makes a new owner of a global permit: the closure takes
\* over the permit of its waiter.
LEMMA HoldersStep ==
    ASSUME IInv, [Next]_vars, NEW v \in Docs, NEW h \in Gens,
           HoldsGlobalPermit(v, h)', ~AcquireGlobal(v, h)
    PROVE  HoldsGlobalPermit(v, h)
<1>1. TypeOK /\ ClosureOwned
  BY DEF IInv
<1> USE DEF HoldsGlobalPermit, GlobalPermitPc
<1>2. ASSUME NEW u \in Docs, ClientStep(u) PROVE HoldsGlobalPermit(v, h)
  <2>1. CASE OpenDocument(u)
    BY <2>1 DEF OpenDocument
  <2>2. ASSUME NEW at \in BumpedPc, Bump(u, at) PROVE HoldsGlobalPermit(v, h)
    <3>1. generation[u] + 1 \in Gens
      BY <1>1, <2>2, NextGeneration DEF Bump
    <3>2. at \in PC /\ at \notin GlobalPermitPc
      BY DEF PC, BumpedPc
    <3>3. PcMoves(u, generation[u] + 1, at) /\ closure' = closure
      BY <1>1, <2>2, <3>1, <3>2, PcMovesByUpdate DEF Bump
    <3> QED
      BY <3>2, <3>3 DEF PcMoves
  <2> QED
    BY <1>2, <2>1, <2>2
    DEF ClientStep, BumpDebounced, BumpInline, BumpClose, BumpedPc
<1>3. ASSUME NEW u \in Docs, NEW g \in Gens, NEW x \in PC,
             pc' = [pc EXCEPT ![u][g] = x], closure' = closure,
             x \in GlobalPermitPc => pc[u][g] \in GlobalPermitPc
      PROVE  HoldsGlobalPermit(v, h)
  BY <1>1, <1>3, PcMovesByUpdate DEF PcMoves
<1>4. ASSUME NEW u \in Docs, NEW g \in Gens, TaskStep(u, g)
      PROVE  HoldsGlobalPermit(v, h)
  <2>1. CASE CancelDocument(u, g)
    <3>1. AfterCancel(pc[u][g]) \in PC \ GlobalPermitPc
      BY DEF AfterCancel, PC
    <3> QED
      BY <1>3, <2>1, <3>1 DEF CancelDocument
  <2>2. CASE Debounced(u, g)
    BY <1>3, <2>2 DEF Debounced, PC
  <2>3. CASE Register(u, g)
    BY <1>3, <2>3 DEF Register, PC, RegisteredPc
  <2>4. CASE CheckRegistered(u, g)
    BY <1>3, <2>4 DEF CheckRegistered, FinishEarly, PC, RegisteredPc
  <2>5. CASE AcquireDocument(u, g) \/ AbandonDocument(u, g) \/ CheckDocument(u, g)
    BY <1>3, <2>5
    DEF AcquireDocument, AbandonDocument, CheckDocument, FinishEarly, PC, RegisteredPc
  <2>6. CASE AcquireGlobal(u, g)
    <3>1. PcMoves(u, g, "gotGlobal") /\ closure' = closure
      BY <1>1, <2>6, PcMovesByUpdate DEF AcquireGlobal, PC, RegisteredPc
    <3> QED
      BY <2>6, <3>1 DEF PcMoves
  <2>7. CASE AbandonGlobal(u, g) \/ CheckGlobal(u, g)
    BY <1>3, <2>7 DEF AbandonGlobal, CheckGlobal, FinishEarly, PC, RegisteredPc
  <2>8. CASE SpawnBlocking(u, g)
    <3>1. CASE Superseded(u, g)
      BY <1>3, <2>8, <3>1 DEF SpawnBlocking, FinishEarly, PC
    <3>2. CASE ~Superseded(u, g)
      <4>1. PcMoves(u, g, "running")
        BY <1>1, <2>8, <3>2, PcMovesByUpdate DEF SpawnBlocking, PC, RegisteredPc
      <4>2. \A w \in Docs : \A k \in Gens :
                (w # u \/ k # g) => closure'[w][k] = closure[w][k]
        BY <1>1, <2>8, <3>2, ClosureUpdate DEF SpawnBlocking
      <4> QED
        BY <2>8, <4>1, <4>2 DEF PcMoves, SpawnBlocking
    <3> QED
      BY <3>1, <3>2
  <2>9. CASE DropPermits(u, g) \/ Conclude(u, g) \/ SettlePass(u, g)
             \/ SettleClose(u, g) \/ CloseDocument(u, g)
    BY <1>3, <2>9
    DEF DropPermits, Conclude, SettlePass, SettleClose, CloseDocument, PC
  <2>10. CASE JoinClosure(u, g)
    <3>1. PICK x \in {"computed", "finished"} : pc' = [pc EXCEPT ![u][g] = x]
      BY <2>10 DEF JoinClosure, FinishEarly
    <3>2. x \in PC
      BY DEF PC
    <3>3. PcMoves(u, g, x)
      BY <1>1, <3>1, <3>2, PcMovesByUpdate
    <3>4. /\ closure'[u][g] = "joined"
          /\ \A w \in Docs : \A k \in Gens :
                (w # u \/ k # g) => closure'[w][k] = closure[w][k]
      BY <1>1, <2>10, ClosureUpdate DEF JoinClosure
    <3> QED
      BY <3>1, <3>3, <3>4 DEF PcMoves
  <2>11. CASE Retry(u, g)
    <3>1. generation[u] + 1 \in Gens /\ generation[u] + 1 > generation[u]
      BY <1>1, <2>11, NextGeneration DEF Retry
    <3>2. pc[u][generation[u] + 1] = "none" /\ pc[u][g] = "computed"
      BY <2>11, <3>1 DEF IInv, FreshGenerations, Retry
    <3>3. /\ pc'[u][g] = "done" /\ pc'[u][generation[u] + 1] = "bumpedInline"
          /\ \A w \in Docs : \A k \in Gens :
                (w # u \/ (k # g /\ k # generation[u] + 1)) => pc'[w][k] = pc[w][k]
      BY <1>1, <2>11, <3>1, <3>2 DEF TypeOK, Retry
    <3>4. closure' = closure
      BY <2>11 DEF Retry
    <3> QED
      BY <3>3, <3>4
  <2> QED
    BY <1>4, <2>1, <2>2, <2>3, <2>4, <2>5, <2>6, <2>7, <2>8, <2>9, <2>10, <2>11
    DEF TaskStep
<1>5. ASSUME NEW u \in Docs, NEW g \in Gens,
             ClosureReturns(u, g) \/ Timeout(u, g) \/ Cleanup(u, g)
      PROVE  HoldsGlobalPermit(v, h)
  <2>1. CASE Timeout(u, g)
    BY <1>3, <2>1 DEF Timeout, PC
  <2>2. CASE ClosureReturns(u, g) \/ Cleanup(u, g)
    <3>1. /\ pc' = pc
          /\ \E x \in {"returned", "joined"} : closure' = [closure EXCEPT ![u][g] = x]
      BY <2>2 DEF ClosureReturns, Cleanup
    <3> QED
      BY <1>1, <3>1, ClosureUpdate
  <2> QED
    BY <1>5, <2>1, <2>2
<1>6. CASE Shutdown \/ UNCHANGED vars
  BY <1>6 DEF Shutdown, vars
<1> QED
  BY <1>2, <1>4, <1>5, <1>6 DEF Next

\* Only finitely many owners exist.
LEMMA HoldersFinite == IsFiniteSet(GlobalHolders)
<1>1. IsFiniteSet(Gens)
  BY FS_Interval, MaxGenerationAssumption DEF Gens
<1>2. IsFiniteSet(Docs \X Gens)
  BY <1>1, FS_Product, DocsAssumption
<1> QED
  BY <1>2, FS_Subset DEF GlobalHolders

\* Permits of the global gate in use.
PermitBound == Cardinality(GlobalHolders) <= MaxConcurrentAnalyses

\* The number of analyses that hold a global permit, closures whose waiter has
\* timed out included, never exceeds MAX_CONCURRENT_ANALYSES.
THEOREM PermitBoundTheorem == Spec => []PermitBound
<1>1. Init => PermitBound
  <2> SUFFICES ASSUME Init PROVE PermitBound
    OBVIOUS
  <2>1. GlobalHolders = {}
    BY DEF Init, GlobalHolders, HoldsGlobalPermit, GlobalPermitPc
  <2> QED
    BY <2>1, FS_EmptySet, MaxConcurrentAssumption DEF PermitBound
<1>2. IInv /\ PermitBound /\ [Next]_vars => PermitBound'
  <2> SUFFICES ASSUME IInv, PermitBound, [Next]_vars PROVE PermitBound'
    OBVIOUS
  <2>1. IsFiniteSet(GlobalHolders) /\ Cardinality(GlobalHolders) \in Nat
    BY HoldersFinite, FS_CardinalityType
  <2>2. CASE \E u \in Docs, g \in Gens : AcquireGlobal(u, g)
    <3>1. PICK u \in Docs, g \in Gens : AcquireGlobal(u, g)
      BY <2>2
    <3>2. \A v \in Docs, h \in Gens :
              HoldsGlobalPermit(v, h)' /\ <<v, h>> # <<u, g>> => HoldsGlobalPermit(v, h)
      <4>1. PcMoves(u, g, "gotGlobal") /\ closure' = closure
        BY <3>1, PcMovesByUpdate DEF IInv, AcquireGlobal, PC, RegisteredPc
      <4> QED
        BY <4>1 DEF PcMoves, HoldsGlobalPermit
    <3>3. GlobalHolders' \subseteq GlobalHolders \cup {<<u, g>>}
      BY <3>2 DEF GlobalHolders
    <3>4. /\ IsFiniteSet(GlobalHolders \cup {<<u, g>>})
          /\ Cardinality(GlobalHolders \cup {<<u, g>>}) <= Cardinality(GlobalHolders) + 1
      <4>1. /\ IsFiniteSet(GlobalHolders \cup {<<u, g>>})
            /\ Cardinality(GlobalHolders \cup {<<u, g>>}) =
                  IF <<u, g>> \in GlobalHolders THEN Cardinality(GlobalHolders)
                                               ELSE Cardinality(GlobalHolders) + 1
        BY <2>1, FS_AddElement, Zenon
      <4> QED
        BY <2>1, <4>1
    <3>5. Cardinality(GlobalHolders') <= Cardinality(GlobalHolders \cup {<<u, g>>})
      BY <3>3, <3>4, FS_Subset
    <3>6. Cardinality(GlobalHolders) < MaxConcurrentAnalyses
      BY <3>1 DEF AcquireGlobal
    <3>7. /\ Cardinality(GlobalHolders') \in Nat
          /\ Cardinality(GlobalHolders \cup {<<u, g>>}) \in Nat
      BY <3>3, <3>4, FS_Subset, FS_CardinalityType
    <3> QED
      BY <2>1, <3>4, <3>5, <3>6, <3>7, MaxConcurrentAssumption DEF PermitBound
  <2>3. CASE ~ \E u \in Docs, g \in Gens : AcquireGlobal(u, g)
    <3>1. \A v \in Docs, h \in Gens : HoldsGlobalPermit(v, h)' => HoldsGlobalPermit(v, h)
      BY <2>3, HoldersStep
    <3>2. GlobalHolders' \subseteq GlobalHolders
      BY <3>1 DEF GlobalHolders
    <3>3. /\ IsFiniteSet(GlobalHolders')
          /\ Cardinality(GlobalHolders') <= Cardinality(GlobalHolders)
      BY <2>1, <3>2, FS_Subset
    <3>4. Cardinality(GlobalHolders') \in Nat
      BY <3>3, FS_CardinalityType
    <3> QED
      BY <2>1, <3>3, <3>4, MaxConcurrentAssumption DEF PermitBound
  <2> QED
    BY <2>2, <2>3
<1> QED
  BY <1>1, <1>2, Invariance, PTL DEF Spec

\* Never more than MAX_CONCURRENT_ANALYSES blocking closures run, the ones a
\* timed-out waiter has left behind included.
THEOREM WorkerBoundTheorem == Spec => []WorkerBound
<1>1. PermitBound => WorkerBound
  <2> DEFINE R == {p \in Docs \X Gens : closure[p[1]][p[2]] = "running"}
  <2> SUFFICES ASSUME PermitBound PROVE Cardinality(R) <= MaxConcurrentAnalyses
    BY DEF WorkerBound
  <2>1. R \subseteq GlobalHolders
    BY DEF GlobalHolders, HoldsGlobalPermit
  <2>2. IsFiniteSet(R) /\ Cardinality(R) <= Cardinality(GlobalHolders)
    BY <2>1, HoldersFinite, FS_Subset
  <2>3. Cardinality(R) \in Nat /\ Cardinality(GlobalHolders) \in Nat
    BY <2>2, HoldersFinite, FS_CardinalityType
  <2> HIDE DEF R
  <2> QED
    BY <2>2, <2>3, MaxConcurrentAssumption DEF PermitBound
<1> QED
  BY <1>1, PermitBoundTheorem, PTL

-----------------------------------------------------------------------------
(* No wake-up is lost.  NoLostWakeup speaks of a request that sleeps; between *)
(* its check and its sleep the same must hold, which is what WakeupInv adds.  *)
(* The rest is that the settled generation moves only in a step that owes a   *)
(* notify_waiters, and that notify_waiters reaches everyone who has           *)
(* registered.                                                                *)

\* The types the argument rests on.
RequestTypes ==
    /\ waiting \in [Waiters -> {"idle", "round", "enabled", "read", "unsettled",
                                "asleep", "answer"}]
    /\ asked \in [Waiters -> Docs]
    /\ current \in [Waiters -> Nat]
    /\ generation \in [Docs -> Nat]

\* From its check on, a request whose generation has settled is or will be woken.
WakeupInv ==
    /\ RequestTypes
    /\ \A w \in Waiters :
          /\ waiting[w] \in {"unsettled", "asleep"}
          /\ settled[asked[w]] >= current[w]
          => w \in woken \/ due # {}

\* Everything but the two settling actions leaves the settled generations alone.
LEMMA OnlySettlingSettles ==
  ASSUME Next, ~ \E u \in Docs, g \in Gens : SettlePass(u, g) \/ SettleClose(u, g)
  PROVE  settled' = settled
<1>1. CASE \E u \in Docs : ClientStep(u)
  BY <1>1 DEF ClientStep, OpenDocument, BumpDebounced, BumpInline, BumpClose, Bump
<1>2. CASE \E u \in Docs, g \in Gens : TaskStep(u, g)
  <2>1. PICK u \in Docs, g \in Gens : TaskStep(u, g)
    BY <1>2
  <2>2. ~SettlePass(u, g) /\ ~SettleClose(u, g)
    OBVIOUS
  <2> QED
    BY <2>1, <2>2
       DEF TaskStep, CancelDocument, Debounced, Register, CheckRegistered,
           AcquireDocument, AbandonDocument, CheckDocument, AcquireGlobal, AbandonGlobal,
           CheckGlobal, SpawnBlocking, DropPermits, JoinClosure, Conclude, Retry,
           CloseDocument
<1>3. CASE \E u \in Docs, g \in Gens : ClosureReturns(u, g) \/ Timeout(u, g) \/ Cleanup(u, g)
  BY <1>3 DEF ClosureReturns, Timeout, Cleanup
<1>4. CASE Shutdown
  BY <1>4 DEF Shutdown
<1> QED
  BY <1>1, <1>2, <1>3, <1>4 DEF Next

\* Generations stay numbers.
LEMMA GenerationsStayNatural ==
  ASSUME generation \in [Docs -> Nat], Next
  PROVE  generation' \in [Docs -> Nat]
<1>1. CASE \E u \in Docs : ClientStep(u)
  BY <1>1 DEF ClientStep, OpenDocument, BumpDebounced, BumpInline, BumpClose, Bump
<1>2. CASE \E u \in Docs, g \in Gens : TaskStep(u, g)
  <2>1. PICK u \in Docs, g \in Gens : TaskStep(u, g)
    BY <1>2
  <2>2. CASE Retry(u, g)
    BY <2>2 DEF Retry
  <2>3. CASE ~Retry(u, g)
    BY <2>1, <2>3
       DEF TaskStep, CancelDocument, Debounced, Register, CheckRegistered,
           AcquireDocument, AbandonDocument, CheckDocument, AcquireGlobal, AbandonGlobal,
           CheckGlobal, SpawnBlocking, DropPermits, JoinClosure, Conclude, SettlePass,
           SettleClose, CloseDocument
  <2> QED
    BY <2>2, <2>3
<1>3. CASE \E u \in Docs, g \in Gens : ClosureReturns(u, g) \/ Timeout(u, g) \/ Cleanup(u, g)
  BY <1>3 DEF ClosureReturns, Timeout, Cleanup
<1>4. CASE Shutdown
  BY <1>4 DEF Shutdown
<1> QED
  BY <1>1, <1>2, <1>3, <1>4 DEF Next

\* No request waits at first.
LEMMA WakeupInit == Init /\ InitRequests => WakeupInv
  BY DEF Init, InitRequests, WakeupInv, RequestTypes

\* A step of the scheduler that settles owes a notification.
LEMMA WakeupScheduler ==
  ASSUME WakeupInv,
         (\E u \in Docs, g \in Gens : SettleStep(u, g)) \/ OtherStep
  PROVE  WakeupInv'
<1>1. CASE \E u \in Docs, g \in Gens : SettleStep(u, g)
  <2>1. PICK u \in Docs, g \in Gens : SettleStep(u, g)
    BY <1>1
  <2>2. due' # {} /\ UNCHANGED requests
    BY <2>1 DEF SettleStep
  <2>3. generation' = generation
    BY <2>1 DEF SettleStep, SettlePass, SettleClose
  <2> QED
    BY <2>2, <2>3 DEF WakeupInv, RequestTypes, requests
<1>2. CASE OtherStep
  <2>1. settled' = settled /\ UNCHANGED <<requests, due>>
    BY <1>2, OnlySettlingSettles DEF OtherStep
  <2>2. generation' \in [Docs -> Nat]
    BY <1>2, GenerationsStayNatural DEF OtherStep, WakeupInv, RequestTypes
  <2> QED
    BY <2>1, <2>2 DEF WakeupInv, RequestTypes, requests
<1> QED
  BY <1>1, <1>2

\* notify_waiters wakes everyone who has registered.
LEMMA WakeupNotify ==
  ASSUME WakeupInv, NotifyWaiters, UNCHANGED vars
  PROVE  WakeupInv'
<1>1. woken' = woken \cup Listening /\ UNCHANGED <<waiting, asked, current>>
  BY DEF NotifyWaiters
<1>2. \A w \in Waiters : waiting[w] \in {"unsettled", "asleep"} => w \in Listening
  BY DEF Listening
<1> QED
  BY <1>1, <1>2 DEF WakeupInv, RequestTypes, vars

\* A request registers before it reads, and reads before it checks.
LEMMA WakeupRequest ==
  ASSUME WakeupInv, NEW w \in Waiters, Request(w) \/ RequestStep(w) \/ Elapse(w), UNCHANGED vars
  PROVE  WakeupInv'
<1> USE DEF WakeupInv, RequestTypes, GoTo, vars
<1>1. CASE Request(w)
  BY <1>1 DEF Request
<1>2. CASE Enable(w)
  BY <1>2 DEF Enable
<1>3. CASE ReadGeneration(w)
  BY <1>3 DEF ReadGeneration
<1>4. CASE CheckSettled(w)
  BY <1>4 DEF CheckSettled
<1>5. CASE Sleep(w)
  BY <1>5 DEF Sleep
<1>6. CASE Wake(w)
  BY <1>6 DEF Wake
<1>7. CASE Elapse(w)
  BY <1>7 DEF Elapse
<1>8. CASE Answer(w)
  BY <1>8 DEF Answer
<1> QED
  BY <1>1, <1>2, <1>3, <1>4, <1>5, <1>6, <1>7, <1>8 DEF RequestStep

\* Every step of wait_for_current, settle and the scheduler keeps it.
LEMMA WakeupNext == WakeupInv /\ [WaitNext]_allVars => WakeupInv'
<1> SUFFICES ASSUME WakeupInv, [WaitNext]_allVars PROVE WakeupInv'
  OBVIOUS
<1>1. CASE UNCHANGED allVars
  BY <1>1 DEF allVars, vars, requests, WakeupInv, RequestTypes
<1>2. CASE WaitNext
  BY <1>2, WakeupScheduler, WakeupNotify, WakeupRequest DEF WaitNext
<1> QED
  BY <1>1, <1>2

\* However edits, passes and closes interleave with its loop, a request of
\* wait_for_current never sleeps through the settlement it waits for.
THEOREM NoLostWakeupTheorem == WaitSpec => []NoLostWakeup
<1>1. WakeupInv => NoLostWakeup
  BY DEF WakeupInv, NoLostWakeup
<1> QED
  BY <1>1, WakeupInit, WakeupNext, PTL DEF WaitSpec
=============================================================================
