------------------------ MODULE LspWorkspace_proofs ------------------------
(***************************************************************************)
(* Theorems about LspWorkspace for every set of documents, what they import *)
(* and every bound on revisions, generations and timeouts.                   *)
(*                                                                         *)
(* In layers, each resting on the ones before: types, where the revisions    *)
(* are, the order texts are recorded in, and what the documents settle on     *)
(* that are opened and left alone.  Any number of handlers run at a time.      *)
(***************************************************************************)
EXTENDS LspWorkspace, TLAPS

-----------------------------------------------------------------------------
(* What an update of one handler or of one pass leaves.                     *)

LEMMA SetHandlerAt ==
  ASSUME TypeOK, NEW h \in Handlers, NEW r, SetHandler(h, r)
  PROVE  \A k \in Handlers : handler'[k] = IF k = h THEN r ELSE handler[k]
BY DEF TypeOK, SetHandler

LEMMA SetPassAt ==
  ASSUME TypeOK, NEW u \in Docs, NEW g \in Gens, NEW p, SetPass(u, g, p)
  PROVE  \A v \in Docs, k \in Gens :
            pass'[v][k] = IF v = u /\ k = g THEN p ELSE pass[v][k]
BY DEF TypeOK, SetPass

\* A bump adds a generation, and its pass.
LEMMA BumpAt ==
  ASSUME TypeOK, NEW u \in Docs, NEW p, BumpFor(u, p)
  PROVE  /\ generation[u] + 1 \in Gens
         /\ \A v \in Docs : generation'[v] = IF v = u THEN generation[u] + 1
                                                       ELSE generation[v]
         /\ \A v \in Docs, k \in Gens :
               pass'[v][k] = IF v = u /\ k = generation[u] + 1 THEN p ELSE pass[v][k]
BY WorkspaceAssumption DEF TypeOK, BumpFor, Gens

\* The updated functions keep their types.
LEMMA HandlerTyped ==
  ASSUME TypeOK, NEW h \in Handlers, NEW r \in HandlerStates, SetHandler(h, r)
  PROVE  handler' \in [Handlers -> HandlerStates]
BY DEF TypeOK, SetHandler

LEMMA PassTyped ==
  ASSUME TypeOK, NEW u \in Docs, NEW g \in Gens, NEW p \in PassStates, SetPass(u, g, p)
  PROVE  pass' \in [Docs -> [Gens -> PassStates]]
BY DEF TypeOK, SetPass

LEMMA BumpTyped ==
  ASSUME TypeOK, NEW u \in Docs, NEW p \in PassStates, BumpFor(u, p)
  PROVE  /\ generation' \in [Docs -> 0 .. MaxGeneration]
         /\ pass' \in [Docs -> [Gens -> PassStates]]
<1>1. generation[u] + 1 \in 0 .. MaxGeneration
  BY WorkspaceAssumption DEF TypeOK, BumpFor
<1> QED
  BY <1>1 DEF TypeOK, BumpFor

-----------------------------------------------------------------------------
(* The shapes of the tasks, by their control point.                         *)

LEMMA HandlerShape ==
  ASSUME TypeOK, NEW h \in Handlers
  PROVE  /\ handler[h].pc \in {"record", "recordDisk", "importers"} =>
               handler[h] \in [pc : {"record", "recordDisk", "importers"}, doc : Docs,
                               rev : Revisions, mode : Modes]
         /\ handler[h].pc = "capture" =>
               handler[h] \in [pc : {"capture"}, doc : Docs, rev : Revisions, mode : Modes,
                               todo : SUBSET Docs]
         /\ handler[h].pc = "schedule" =>
               handler[h] \in [pc : {"schedule"}, doc : Docs, rev : Revisions, mode : Modes,
                               todo : SUBSET (Docs \X Recorded)]
         /\ handler[h].pc \in {"closeBump", "closeDocuments", "closeText", "closeEdges"} =>
               handler[h] \in [pc : {"closeBump", "closeDocuments", "closeText", "closeEdges"},
                               doc : Docs]
         /\ handler[h].pc \in {"idle", "record", "recordDisk", "importers", "capture",
                               "schedule", "closeBump", "closeDocuments", "closeText",
                               "closeEdges"}
<1>1. handler[h] \in HandlerStates
  BY DEF TypeOK
<1> QED
  BY <1>1 DEF HandlerStates, Idle

LEMMA PassShape ==
  ASSUME TypeOK, NEW u \in Docs, NEW g \in Gens
  PROVE  /\ pass[u][g].pc \in {"debouncing", "ready", "retry"} =>
               pass[u][g] \in [pc : {"debouncing", "ready", "retry"}, rev : Recorded]
         /\ pass[u][g].pc = "running" =>
               pass[u][g] \in [pc : {"running"}, rev : Recorded, observed : [Docs -> Revisions]]
         /\ pass[u][g].pc \in {"computed", "edges"} =>
               pass[u][g] \in [pc : {"computed", "edges"}, parsed : BOOLEAN, in : Inputs]
         /\ pass[u][g].pc = "none" => pass[u][g] = NoPass
         /\ pass[u][g].pc = "done" => pass[u][g] = Ended
         /\ pass[u][g].pc \in {"none", "done", "debouncing", "ready", "retry", "running",
                               "computed", "edges"}
<1>1. pass[u][g] \in PassStates
  BY DEF TypeOK
<1> QED
  BY <1>1 DEF PassStates, NoPass, Ended

-----------------------------------------------------------------------------
(* Types.                                                                   *)

\* How a pass of a text may start; a close and a file event start none.
TextModes == {"ready", "debouncing"}

\* The handler works for a text: it records it, looks up what it affects, or
\* has still to start its pass.
HasText(h) ==
    /\ handler[h].pc \in {"record", "importers", "capture", "schedule"}
    /\ handler[h].mode \in TextModes

\* A text that a handler works for has a revision of the clock.
ModesFit ==
    \A h \in Handlers :
        /\ handler[h].pc = "record" => handler[h].mode \in TextModes
        /\ handler[h].pc = "recordDisk" => handler[h].mode = "file"
        /\ handler[h].pc \in {"record", "recordDisk"} \/ HasText(h) =>
               handler[h].rev \in Recorded

Typed == TypeOK /\ ModesFit

LEMMA TextsTyped ==
  ASSUME NEW u \in Docs, NEW t \in Texts(u)
  PROVE  /\ t \in [parsed : BOOLEAN, imports : SUBSET Docs]
         /\ t.imports \subseteq Imports[u]
         /\ ~t.parsed => t.imports \subseteq Manifests
<1>1. Imports[u] \subseteq Docs
  BY WorkspaceAssumption
<1>2. CASE \E D \in SUBSET (Imports[u] \cap Manifests) : t = [parsed |-> FALSE, imports |-> D]
  BY <1>1, <1>2
<1>3. CASE \E D \in SUBSET Imports[u] : t = [parsed |-> TRUE, imports |-> D]
  BY <1>1, <1>3
<1> QED
  BY <1>2, <1>3 DEF Texts

LEMMA TypedInit == Init => Typed
<1> SUFFICES ASSUME Init PROVE Typed
  OBVIOUS
<1>1. NoInputs \in Inputs
  BY WorkspaceAssumption DEF NoInputs, Inputs, Revisions
<1>2. NoPass \in PassStates /\ Idle \in HandlerStates
  BY DEF PassStates, HandlerStates
<1>3. TypeOK
  BY <1>1, <1>2, WorkspaceAssumption DEF Init, TypeOK, Revisions, NoText
<1>4. ModesFit
  BY DEF Init, ModesFit, HasText, Idle
<1> QED
  BY <1>3, <1>4 DEF Typed

\* A notification takes a revision, and its handler starts.
LEMMA TypedClient ==
  ASSUME Typed, NEW h \in Handlers, NEW u \in Docs, ClientStep(h, u)
  PROVE  Typed'
<1> USE DEF Typed
<1>1. ASSUME NEW mode \in TextModes, Arrive(h, u, mode), editor' \subseteq Docs
      PROVE  Typed'
  <2> DEFINE r == [pc |-> "record", doc |-> u, rev |-> clock + 1, mode |-> mode]
  <2>1. clock + 1 \in Recorded /\ clock' = clock + 1 /\ clock' \in Revisions
    BY <1>1, WorkspaceAssumption DEF Arrive, TypeOK, Recorded, Revisions
  <2>2. r \in HandlerStates
    BY <2>1 DEF HandlerStates, Revisions, Recorded, Modes, TextModes
  <2>3. SetHandler(h, r)
    BY <1>1 DEF Arrive
  <2>4. handler' \in [Handlers -> HandlerStates]
    BY <2>2, <2>3, HandlerTyped
  <2>5. text' \in [1 .. MaxRevision -> [parsed : BOOLEAN, imports : SUBSET Docs]]
    BY <1>1, TextsTyped DEF Arrive, TypeOK
  <2>6. TypeOK'
    BY <1>1, <2>1, <2>4, <2>5 DEF Arrive, TypeOK
  <2>7. ModesFit'
    BY <2>1, <2>3, SetHandlerAt DEF ModesFit, HasText
  <2> QED
    BY <2>6, <2>7
<1>2. CASE DidOpen(h, u)
  BY <1>1, <1>2 DEF DidOpen, TypeOK, TextModes
<1>3. CASE DidChange(h, u)
  BY <1>1, <1>3 DEF DidChange, TypeOK, TextModes
<1>4. CASE DidSave(h, u)
  BY <1>1, <1>4 DEF DidSave, TypeOK, TextModes
<1>5. CASE DidClose(h, u)
  <2> DEFINE r == [pc |-> "closeBump", doc |-> u]
  <2>1. r \in HandlerStates
    BY DEF HandlerStates
  <2>2. SetHandler(h, r)
    BY <1>5 DEF DidClose
  <2>3. handler' \in [Handlers -> HandlerStates]
    BY <2>1, <2>2, HandlerTyped
  <2>4. TypeOK'
    BY <1>5, <2>3 DEF DidClose, TypeOK
  <2>5. ModesFit'
    BY <2>2, SetHandlerAt DEF ModesFit, HasText
  <2> QED
    BY <2>4, <2>5
<1>6. CASE DidChangeWatchedFile(h, u)
  <2> DEFINE r == [pc |-> "recordDisk", doc |-> u, rev |-> clock + 1, mode |-> "file"]
  <2>1. clock + 1 \in Recorded /\ clock' = clock + 1 /\ clock' \in Revisions
    BY <1>6, WorkspaceAssumption DEF DidChangeWatchedFile, TypeOK, Recorded, Revisions
  <2>2. r \in HandlerStates
    BY <2>1 DEF HandlerStates, Revisions, Recorded, Modes
  <2>3. SetHandler(h, r)
    BY <1>6 DEF DidChangeWatchedFile
  <2>4. handler' \in [Handlers -> HandlerStates]
    BY <2>2, <2>3, HandlerTyped
  <2>5. TypeOK'
    BY <1>6, <2>1, <2>4 DEF DidChangeWatchedFile, TypeOK
  <2>6. ModesFit'
    BY <2>1, <2>3, SetHandlerAt DEF ModesFit, HasText
  <2> QED
    BY <2>5, <2>6
<1> QED
  BY <1>2, <1>3, <1>4, <1>5, <1>6 DEF ClientStep

\* A handler moves on.
LEMMA TypedHandler ==
  ASSUME Typed, NEW h \in Handlers, HandlerStep(h)
  PROVE  Typed'
<1> USE DEF Typed
<1>1. ASSUME NEW r \in HandlerStates, SetHandler(h, r),
             r.pc = "record" => r.mode \in TextModes,
             r.pc = "recordDisk" => r.mode = "file",
             \/ r.pc \in {"record", "recordDisk"}
             \/ r.pc \in {"importers", "capture", "schedule"} /\ r.mode \in TextModes
             => r.rev \in Recorded
      PROVE  handler' \in [Handlers -> HandlerStates] /\ ModesFit'
  <2>1. handler' \in [Handlers -> HandlerStates]
    BY <1>1, HandlerTyped
  <2>2. \A k \in Handlers : handler'[k] = IF k = h THEN r ELSE handler[k]
    BY <1>1, SetHandlerAt
  <2> QED
    BY <1>1, <2>1, <2>2 DEF ModesFit, HasText
<1>2. CASE Record(h)
  <2> DEFINE r == [handler[h] EXCEPT !.pc = "importers"]
  <2>1. r \in HandlerStates /\ r.pc = "importers" /\ r.rev \in Recorded
    BY <1>2, HandlerShape DEF Record, HandlerStates, ModesFit
  <2>2. SetHandler(h, r)
    BY <1>2 DEF Record
  <2>3. latest' \in [Docs -> Revisions]
    BY <1>2, HandlerShape DEF Record, TypeOK
  <2>4. handler' \in [Handlers -> HandlerStates] /\ ModesFit'
    BY <1>1, <2>1, <2>2
  <2> QED
    BY <1>2, <2>3, <2>4 DEF Record, TypeOK
<1>3. CASE RecordDisk(h)
  <2> DEFINE r == [handler[h] EXCEPT !.pc = "importers"]
  <2>1. r \in HandlerStates /\ r.pc = "importers" /\ r.rev \in Recorded
    BY <1>3, HandlerShape DEF RecordDisk, HandlerStates, ModesFit
  <2>2. SetHandler(h, r)
    BY <1>3 DEF RecordDisk
  <2>3. disk' \in [Docs -> Revisions]
    BY <1>3, HandlerShape DEF RecordDisk, TypeOK
  <2>4. handler' \in [Handlers -> HandlerStates] /\ ModesFit'
    BY <1>1, <2>1, <2>2
  <2> QED
    BY <1>3, <2>3, <2>4 DEF RecordDisk, TypeOK
<1>4. CASE FindImporters(h)
  <2> DEFINE r == [pc |-> "capture", doc |-> handler[h].doc, rev |-> handler[h].rev,
                   mode |-> handler[h].mode,
                   todo |-> Affected(handler[h].doc, handler[h].mode)]
  <2>1. handler[h].doc \in Docs /\ handler[h].rev \in Revisions /\ handler[h].mode \in Modes
    BY <1>4, HandlerShape DEF FindImporters
  <2>2. Affected(handler[h].doc, handler[h].mode) \subseteq Docs
    BY <2>1 DEF Affected, TransitiveImporters, Modes
  <2>3. r \in HandlerStates
    BY <2>1, <2>2 DEF HandlerStates
  <2>4. r.mode \in TextModes => r.rev \in Recorded
    BY <1>4 DEF FindImporters, ModesFit, HasText
  <2>5. SetHandler(h, r)
    BY <1>4 DEF FindImporters
  <2>6. handler' \in [Handlers -> HandlerStates] /\ ModesFit'
    BY <1>1, <2>3, <2>4, <2>5
  <2> QED
    BY <1>4, <2>6 DEF FindImporters, TypeOK
<1>5. CASE CaptureRoots(h)
  <2> DEFINE todo == {<<v, latest[v]>> : v \in {w \in handler[h].todo : latest[w] # 0}}
             r == [handler[h] EXCEPT !.pc = "schedule", !.todo = todo]
  <2>1. handler[h] \in [pc : {"capture"}, doc : Docs, rev : Revisions, mode : Modes,
                        todo : SUBSET Docs]
    BY <1>5, HandlerShape DEF CaptureRoots
  <2>2. todo \subseteq Docs \X Recorded
    BY <2>1 DEF TypeOK, Revisions, Recorded
  <2>3. r \in HandlerStates /\ r.pc = "schedule" /\ r.mode = handler[h].mode
                            /\ r.rev = handler[h].rev
    BY <2>1, <2>2 DEF HandlerStates
  <2>4. r.mode \in TextModes => r.rev \in Recorded
    BY <1>5, <2>3 DEF CaptureRoots, ModesFit, HasText
  <2>5. SetHandler(h, r)
    BY <1>5 DEF CaptureRoots
  <2>6. handler' \in [Handlers -> HandlerStates] /\ ModesFit'
    BY <1>1, <2>3, <2>4, <2>5
  <2> QED
    BY <1>5, <2>6 DEF CaptureRoots, TypeOK
<1>6. CASE ScheduleRoot(h)
  <2>1. handler[h] \in [pc : {"schedule"}, doc : Docs, rev : Revisions, mode : Modes,
                        todo : SUBSET (Docs \X Recorded)]
    BY <1>6, HandlerShape DEF ScheduleRoot
  <2>2. PICK p \in handler[h].todo : /\ BumpFor(p[1], NewPass("debouncing", p[2]))
                                     /\ SetHandler(h, [handler[h] EXCEPT !.todo = @ \ {p}])
    BY <1>6 DEF ScheduleRoot
  <2> DEFINE r == [handler[h] EXCEPT !.todo = @ \ {p}]
  <2>3. p[1] \in Docs /\ NewPass("debouncing", p[2]) \in PassStates
    BY <2>1, <2>2 DEF NewPass, PassStates
  <2>4. r \in HandlerStates /\ r.pc = "schedule" /\ r.mode = handler[h].mode
                            /\ r.rev = handler[h].rev
    BY <2>1 DEF HandlerStates
  <2>5. r.mode \in TextModes => r.rev \in Recorded
    BY <1>6, <2>4 DEF ScheduleRoot, ModesFit, HasText
  <2>6. handler' \in [Handlers -> HandlerStates] /\ ModesFit'
    BY <1>1, <2>2, <2>4, <2>5
  <2>7. generation' \in [Docs -> 0 .. MaxGeneration] /\ pass' \in [Docs -> [Gens -> PassStates]]
    BY <2>2, <2>3, BumpTyped
  <2> QED
    BY <1>6, <2>6, <2>7 DEF ScheduleRoot, TypeOK
<1>7. CASE ScheduleSelf(h)
  <2>1. handler[h] \in [pc : {"schedule"}, doc : Docs, rev : Revisions, mode : Modes,
                        todo : SUBSET (Docs \X Recorded)]
    BY <1>7, HandlerShape DEF ScheduleSelf
  <2>2. handler' \in [Handlers -> HandlerStates] /\ ModesFit'
    BY <1>1, <1>7 DEF ScheduleSelf, HandlerStates, Idle
  <2>3. generation' \in [Docs -> 0 .. MaxGeneration] /\ pass' \in [Docs -> [Gens -> PassStates]]
    <3>1. CASE handler[h].mode \in {"close", "file"}
      BY <1>7, <3>1 DEF ScheduleSelf, TypeOK
    <3>2. CASE handler[h].mode \in TextModes
      <4>1. handler[h].rev \in Recorded
        BY <1>7, <3>2 DEF ScheduleSelf, ModesFit, HasText
      <4>2. NewPass(handler[h].mode, handler[h].rev) \in PassStates
        BY <3>2, <4>1 DEF NewPass, PassStates, TextModes
      <4>3. BumpFor(handler[h].doc, NewPass(handler[h].mode, handler[h].rev))
        BY <1>7, <3>2 DEF ScheduleSelf, TextModes
      <4> QED
        BY <2>1, <4>2, <4>3, BumpTyped
    <3> QED
      BY <2>1, <3>1, <3>2 DEF Modes, TextModes
  <2> QED
    BY <1>7, <2>2, <2>3 DEF ScheduleSelf, TypeOK
<1>8. CASE CloseBump(h)
  <2>1. handler[h].doc \in Docs /\ [handler[h] EXCEPT !.pc = "closeDocuments"] \in HandlerStates
    BY <1>8, HandlerShape DEF CloseBump, HandlerStates
  <2>2. handler' \in [Handlers -> HandlerStates] /\ ModesFit'
    BY <1>1, <1>8, <2>1, HandlerShape DEF CloseBump
  <2>3. generation' \in [Docs -> 0 .. MaxGeneration] /\ pass' \in [Docs -> [Gens -> PassStates]]
    BY <1>8, <2>1, BumpTyped DEF CloseBump, PassStates
  <2> QED
    BY <1>8, <2>2, <2>3 DEF CloseBump, TypeOK
<1>9. CASE CloseDocuments(h)
  <2>1. handler[h].doc \in Docs /\ [handler[h] EXCEPT !.pc = "closeText"] \in HandlerStates
    BY <1>9, HandlerShape DEF CloseDocuments, HandlerStates
  <2>2. handler' \in [Handlers -> HandlerStates] /\ ModesFit'
    BY <1>1, <1>9, <2>1, HandlerShape DEF CloseDocuments
  <2>3. NoInputs \in Inputs
    BY WorkspaceAssumption DEF NoInputs, Inputs, Revisions
  <2> QED
    BY <1>9, <2>1, <2>2, <2>3 DEF CloseDocuments, TypeOK
<1>10. CASE CloseText(h)
  <2>1. handler[h].doc \in Docs /\ [handler[h] EXCEPT !.pc = "closeEdges"] \in HandlerStates
    BY <1>10, HandlerShape DEF CloseText, HandlerStates
  <2>2. handler' \in [Handlers -> HandlerStates] /\ ModesFit'
    BY <1>1, <1>10, <2>1, HandlerShape DEF CloseText
  <2> QED
    BY <1>10, <2>1, <2>2, WorkspaceAssumption DEF CloseText, TypeOK, Revisions
<1>11. CASE CloseEdges(h)
  <2> DEFINE r == [pc |-> "importers", doc |-> handler[h].doc, rev |-> 0, mode |-> "close"]
  <2>1. handler[h].doc \in Docs /\ r \in HandlerStates
    BY <1>11, HandlerShape, WorkspaceAssumption DEF CloseEdges, HandlerStates, Revisions, Modes
  <2>2. handler' \in [Handlers -> HandlerStates] /\ ModesFit'
    BY <1>1, <1>11, <2>1 DEF CloseEdges, TextModes
  <2> QED
    BY <1>11, <2>1, <2>2 DEF CloseEdges, TypeOK
<1> QED
  BY <1>2, <1>3, <1>4, <1>5, <1>6, <1>7, <1>8, <1>9, <1>10, <1>11 DEF HandlerStep

\* A pass goes on.
LEMMA TypedPass ==
  ASSUME Typed, NEW u \in Docs, NEW g \in Gens, PassStep(u, g) \/ Timeout(u, g)
  PROVE  Typed'
<1> USE DEF Typed
<1>1. ASSUME NEW p \in PassStates, SetPass(u, g, p),
             UNCHANGED <<editor, clock, text, latest, disk, generation, handler>>,
             documents' \in [Docs -> Inputs], diagnosed' \in [Docs -> Inputs],
             graph' \in [Docs -> SUBSET Docs], timeouts' \in 0 .. MaxTimeouts
      PROVE  Typed'
  <2>1. pass' \in [Docs -> [Gens -> PassStates]]
    BY <1>1, PassTyped
  <2>2. TypeOK'
    BY <1>1, <2>1 DEF TypeOK
  <2>3. ModesFit'
    BY <1>1 DEF ModesFit, HasText
  <2> QED
    BY <2>2, <2>3
<1>2. Ended \in PassStates
  BY DEF PassStates
<1>3. CASE Debounce(u, g)
  <2>1. [pass[u][g] EXCEPT !.pc = "ready"] \in PassStates
    BY <1>3, PassShape DEF Debounce, PassStates
  <2> QED
    BY <1>1, <1>2, <1>3, <2>1 DEF Debounce, TypeOK
<1>4. CASE Begin(u, g)
  <2>1. [d \in Docs |-> Current(d)] \in [Docs -> Revisions]
    BY DEF Current, TypeOK
  <2>2. [pc |-> "running", rev |-> pass[u][g].rev, observed |-> [d \in Docs |-> Current(d)]]
          \in PassStates
    BY <1>4, <2>1, PassShape DEF Begin, PassStates
  <2> QED
    BY <1>1, <1>2, <1>4, <2>2 DEF Begin, TypeOK
<1>5. CASE Compute(u, g)
  <2> DEFINE p == pass[u][g]
             t == text[p.rev]
             in == FinishInputs(p.rev, t.imports, p.observed)
  <2>1. p.rev \in Recorded /\ p.observed \in [Docs -> Revisions]
    BY <1>5, PassShape DEF Compute
  <2>2. t.parsed \in BOOLEAN /\ t.imports \subseteq Docs
    BY <2>1 DEF TypeOK, Recorded
  <2>3. in \in Inputs
    BY <2>1, <2>2, WorkspaceAssumption DEF FinishInputs, Inputs, Revisions, Recorded
  <2>4. [pc |-> "computed", parsed |-> t.parsed, in |-> in] \in PassStates
    BY <2>2, <2>3 DEF PassStates
  <2> QED
    BY <1>1, <1>5, <2>4 DEF Compute, TypeOK
<1>6. CASE Cancelled(u, g)
  BY <1>1, <1>2, <1>6 DEF Cancelled, TypeOK
<1>7. CASE FoundStale(u, g)
  <2>1. graph' \in [Docs -> SUBSET Docs]
    BY <1>7, PassShape DEF FoundStale, TypeOK, Inputs
  <2>2. latest[u] # 0 => NewPass("retry", latest[u]) \in PassStates
    BY DEF TypeOK, Revisions, Recorded, NewPass, PassStates
  <2> QED
    BY <1>1, <1>2, <1>7, <2>1, <2>2 DEF FoundStale, TypeOK
<1>8. CASE Retry(u, g)
  <2>1. generation' \in [Docs -> 0 .. MaxGeneration]
    BY <1>8, WorkspaceAssumption DEF Retry, TypeOK
  <2>2. NewPass("ready", pass[u][g].rev) \in PassStates
    BY <1>8, PassShape DEF Retry, NewPass, PassStates
  <2>3. pass' \in [Docs -> [Gens -> PassStates]]
    BY <1>2, <1>8, <2>2 DEF Retry, TypeOK
  <2>4. TypeOK'
    BY <1>8, <2>1, <2>3 DEF Retry, TypeOK
  <2>5. ModesFit'
    BY <1>8 DEF Retry, ModesFit, HasText
  <2> QED
    BY <2>4, <2>5
<1>9. CASE Store(u, g)
  <2>1. pass[u][g].in \in Inputs /\ [pass[u][g] EXCEPT !.pc = "edges"] \in PassStates
    BY <1>9, PassShape DEF Store, PassStates
  <2>2. documents' \in [Docs -> Inputs] /\ diagnosed' \in [Docs -> Inputs]
    BY <1>9, <2>1 DEF Store, TypeOK
  <2> QED
    BY <1>1, <1>2, <1>9, <2>1, <2>2 DEF Store, TypeOK
<1>10. CASE PublishEdges(u, g)
  <2>1. graph' \in [Docs -> SUBSET Docs]
    BY <1>10, PassShape DEF PublishEdges, TypeOK, Inputs
  <2> QED
    BY <1>1, <1>2, <1>10, <2>1 DEF PublishEdges, TypeOK
<1>11. CASE Timeout(u, g)
  <2>1. timeouts' \in 0 .. MaxTimeouts
    BY <1>11, WorkspaceAssumption DEF Timeout, TypeOK
  <2> QED
    BY <1>1, <1>2, <1>11, <2>1 DEF Timeout, TypeOK
<1> QED
  BY <1>3, <1>4, <1>5, <1>6, <1>7, <1>8, <1>9, <1>10, <1>11 DEF PassStep

LEMMA TypedNext == Typed /\ [Next]_vars => Typed'
<1> SUFFICES ASSUME Typed, [Next]_vars PROVE Typed'
  OBVIOUS
<1>1. CASE UNCHANGED vars
  BY <1>1 DEF vars, Typed, TypeOK, ModesFit, HasText
<1>2. CASE Next
  BY <1>2, TypedClient, TypedHandler, TypedPass DEF Next
<1> QED
  BY <1>1, <1>2

LEMMA TypedInvariance == Spec => []Typed
BY TypedInit, TypedNext, PTL DEF Spec

\* Whatever handlers and passes overlap, a pass only ever analyses a text that was
\* recorded: the revision 0 of a close or a file event is never handed to one.
THEOREM WorkspaceTypeCorrect == Spec => []TypeOK
<1>1. Typed => TypeOK
  BY DEF Typed
<1> QED
  BY <1>1, TypedInvariance, PTL

-----------------------------------------------------------------------------
(* What the steps with a record update leave, field by field.               *)

LEMMA HandlerGoesOn ==
  ASSUME TypeOK, NEW h \in Handlers, NEW q,
         handler[h].pc # "idle", SetHandler(h, [handler[h] EXCEPT !.pc = q])
  PROVE  /\ \A k \in Handlers \ {h} : handler'[k] = handler[k]
         /\ handler[h].doc \in Docs
         /\ handler'[h].pc = q /\ handler'[h].doc = handler[h].doc
         /\ handler[h].pc \in {"record", "recordDisk"} =>
               /\ handler'[h].rev = handler[h].rev /\ handler[h].rev \in Revisions
               /\ handler'[h].mode = handler[h].mode
BY SetHandlerAt, HandlerShape

LEMMA CaptureRootsEffect ==
  ASSUME TypeOK, NEW h \in Handlers, CaptureRoots(h)
  PROVE  /\ \A k \in Handlers \ {h} : handler'[k] = handler[k]
         /\ handler'[h].pc = "schedule"
         /\ handler'[h].doc = handler[h].doc /\ handler[h].doc \in Docs
         /\ handler'[h].rev = handler[h].rev /\ handler'[h].mode = handler[h].mode
         /\ handler'[h].todo = {<<v, latest[v]>> : v \in {w \in handler[h].todo : latest[w] # 0}}
<1> DEFINE todo == {<<v, latest[v]>> : v \in {w \in handler[h].todo : latest[w] # 0}}
<1>1. handler[h] \in [pc : {"capture"}, doc : Docs, rev : Revisions, mode : Modes,
                      todo : SUBSET Docs]
  BY HandlerShape DEF CaptureRoots
<1>2. SetHandler(h, [handler[h] EXCEPT !.pc = "schedule", !.todo = todo])
  BY DEF CaptureRoots
<1> HIDE DEF todo
<1>3. /\ \A k \in Handlers \ {h} : handler'[k] = handler[k]
      /\ handler'[h] = [handler[h] EXCEPT !.pc = "schedule", !.todo = todo]
  BY <1>2, SetHandlerAt
<1>4. /\ handler'[h].pc = "schedule" /\ handler'[h].doc = handler[h].doc
      /\ handler'[h].rev = handler[h].rev /\ handler'[h].mode = handler[h].mode
      /\ handler'[h].todo = todo
  BY <1>1, <1>3
<1> QED
  BY <1>1, <1>3, <1>4 DEF todo

LEMMA ScheduleRootEffect ==
  ASSUME TypeOK, NEW h \in Handlers, ScheduleRoot(h)
  PROVE  \E v \in Docs, r \in Recorded :
            /\ <<v, r>> \in handler[h].todo
            /\ BumpFor(v, NewPass("debouncing", r))
            /\ \A k \in Handlers \ {h} : handler'[k] = handler[k]
            /\ handler'[h].pc = "schedule"
            /\ handler'[h].doc = handler[h].doc /\ handler[h].doc \in Docs
            /\ handler'[h].rev = handler[h].rev /\ handler'[h].mode = handler[h].mode
            /\ handler'[h].todo = handler[h].todo \ {<<v, r>>}
<1>1. handler[h] \in [pc : {"schedule"}, doc : Docs, rev : Revisions, mode : Modes,
                      todo : SUBSET (Docs \X Recorded)]
  BY HandlerShape DEF ScheduleRoot
<1>2. PICK p \in handler[h].todo : /\ BumpFor(p[1], NewPass("debouncing", p[2]))
                                   /\ SetHandler(h, [handler[h] EXCEPT !.todo = @ \ {p}])
  BY DEF ScheduleRoot
<1>3. p[1] \in Docs /\ p[2] \in Recorded /\ p = <<p[1], p[2]>>
  BY <1>1, <1>2
<1>4. /\ \A k \in Handlers \ {h} : handler'[k] = handler[k]
      /\ handler'[h] = [handler[h] EXCEPT !.todo = @ \ {p}]
  BY <1>2, SetHandlerAt
<1>5. /\ handler'[h].pc = "schedule" /\ handler'[h].doc = handler[h].doc
      /\ handler'[h].rev = handler[h].rev /\ handler'[h].mode = handler[h].mode
      /\ handler'[h].todo = handler[h].todo \ {p}
  BY <1>1, <1>4
<1> QED
  BY <1>1, <1>2, <1>3, <1>4, <1>5

LEMMA DebounceEffect ==
  ASSUME TypeOK, NEW u \in Docs, NEW g \in Gens, Debounce(u, g)
  PROVE  /\ \A v \in Docs, k \in Gens : ~(v = u /\ k = g) => pass'[v][k] = pass[v][k]
         /\ pass'[u][g] = IF generation[u] = g THEN NewPass("ready", pass[u][g].rev) ELSE Ended
<1>1. [pass[u][g] EXCEPT !.pc = "ready"] = NewPass("ready", pass[u][g].rev)
  BY PassShape DEF Debounce, NewPass
<1> QED
  BY <1>1, SetPassAt DEF Debounce

\* What a pass that stores becomes: the same analysis, at its edges.
LEMMA StoreEffect ==
  ASSUME TypeOK, NEW u \in Docs, NEW g \in Gens, Store(u, g)
  PROVE  /\ \A v \in Docs, k \in Gens : ~(v = u /\ k = g) => pass'[v][k] = pass[v][k]
         /\ pass'[u][g] = IF generation[u] = g
                          THEN [pc |-> "edges", parsed |-> pass[u][g].parsed,
                                in |-> pass[u][g].in]
                          ELSE Ended
<1>1. [pass[u][g] EXCEPT !.pc = "edges"]
         = [pc |-> "edges", parsed |-> pass[u][g].parsed, in |-> pass[u][g].in]
  BY PassShape DEF Store
<1> QED
  BY <1>1, SetPassAt DEF Store

\* What a retry leaves: the old pass is over, a new generation is about to start.
LEMMA RetryEffect ==
  ASSUME TypeOK, NEW u \in Docs, NEW g \in Gens, Retry(u, g)
  PROVE  /\ generation[u] + 1 \in Gens
         /\ \A v \in Docs : generation'[v] = IF v = u THEN generation[u] + 1 ELSE generation[v]
         /\ \A v \in Docs, k \in Gens :
               pass'[v][k] = IF v = u /\ k = generation[u] + 1
                             THEN NewPass("ready", pass[u][g].rev)
                             ELSE IF v = u /\ k = g THEN Ended ELSE pass[v][k]
<1>1. generation[u] + 1 \in Gens
  BY WorkspaceAssumption DEF Retry, TypeOK, Gens
<1> QED
  BY <1>1 DEF Retry, TypeOK

-----------------------------------------------------------------------------
(* Where the texts are.  A revision the clock handed out belongs to a text of  *)
(* one document or to a file on disk, and stays with it: in the open buffer,    *)
(* in the handler of the notification, in what a handler captured, in a pass.   *)

Active(p) == p.pc \notin {"none", "done"}

\* The revision of the text a pass analyses.
RootOf(p) == IF p.pc \in {"computed", "edges"} THEN p.in.root ELSE p.rev

Carries(u, r) ==
    \/ latest[u] = r
    \/ \E h \in Handlers : HasText(h) /\ handler[h].doc = u /\ handler[h].rev = r
    \/ \E h \in Handlers : handler[h].pc = "schedule" /\ <<u, r>> \in handler[h].todo
    \/ \E g \in Gens : Active(pass[u][g]) /\ RootOf(pass[u][g]) = r

OnDisk(r) ==
    \/ \E u \in Docs : disk[u] = r
    \/ \E h \in Handlers : handler[h].pc = "recordDisk" /\ handler[h].rev = r

\* No revision is both; each was handed out, and the text is one of its document.
CarriedInv ==
    /\ \A u \in Docs, r \in Recorded : Carries(u, r) => r <= clock /\ text[r] \in Texts(u)
    /\ \A r \in Recorded : OnDisk(r) => r <= clock
    /\ \A u \in Docs, r \in Recorded : ~(Carries(u, r) /\ OnDisk(r))

\* What a pass computed is the analysis of its text.
ComputedInv ==
    \A u \in Docs, g \in Gens : pass[u][g].pc \in {"computed", "edges"} =>
        /\ pass[u][g].in.root \in Recorded
        /\ pass[u][g].in.deps = text[pass[u][g].in.root].imports
        /\ pass[u][g].parsed = text[pass[u][g].in.root].parsed

\* Nothing but a notification brings a revision in.
CarriesKept ==
    /\ \A u \in Docs, r \in Recorded : Carries(u, r)' => Carries(u, r)
    /\ \A r \in Recorded : OnDisk(r)' => OnDisk(r)

\* A document of which a text arrives takes the next revision.
LEMMA ArriveCarries ==
  ASSUME Typed, NEW h \in Handlers, NEW u \in Docs, NEW mode \in TextModes, Arrive(h, u, mode)
  PROVE  /\ clock' = clock + 1 /\ clock' \in Recorded
         /\ \A r \in Recorded : r <= clock => text'[r] = text[r]
         /\ text'[clock'] \in Texts(u)
         /\ \A v \in Docs, r \in Recorded :
               Carries(v, r)' => Carries(v, r) \/ (v = u /\ r = clock')
         /\ \A r \in Recorded : OnDisk(r)' => OnDisk(r)
<1>1. clock' = clock + 1 /\ clock' \in Recorded
  BY WorkspaceAssumption DEF Typed, TypeOK, Arrive, Recorded, Revisions
<1>2. /\ \A r \in Recorded : r <= clock => text'[r] = text[r]
      /\ text'[clock'] \in Texts(u)
  BY <1>1 DEF Typed, TypeOK, Arrive, Recorded, Revisions
<1>3. \A k \in Handlers : handler'[k] = IF k = h
         THEN [pc |-> "record", doc |-> u, rev |-> clock + 1, mode |-> mode] ELSE handler[k]
  BY SetHandlerAt DEF Arrive, Typed
<1>4. UNCHANGED <<latest, disk, pass>>
  BY DEF Arrive
<1>5. ASSUME NEW v \in Docs, NEW r \in Recorded, Carries(v, r)'
      PROVE  Carries(v, r) \/ (v = u /\ r = clock')
  BY <1>1, <1>3, <1>4, <1>5 DEF Carries, HasText, Active
<1>6. ASSUME NEW r \in Recorded, OnDisk(r)' PROVE OnDisk(r)
  BY <1>3, <1>4, <1>6 DEF OnDisk
<1> QED
  BY <1>1, <1>2, <1>5, <1>6

\* A step that brings no revision in keeps the invariant.
LEMMA CarriedKept ==
  ASSUME Typed, CarriedInv, CarriesKept, UNCHANGED <<clock, text>>
  PROVE  CarriedInv'
BY DEF CarriedInv, CarriesKept, Typed, TypeOK, Recorded

LEMMA CarriedClient ==
  ASSUME Typed, CarriedInv, ComputedInv, NEW h \in Handlers, NEW u \in Docs, ClientStep(h, u)
  PROVE  CarriedInv' /\ ComputedInv'
<1>1. clock \in Nat
  BY DEF Typed, TypeOK, Revisions
<1>2. ASSUME NEW mode \in TextModes, Arrive(h, u, mode) PROVE CarriedInv' /\ ComputedInv'
  <2>1. CarriedInv'
    BY <1>1, <1>2, ArriveCarries DEF CarriedInv, Recorded
  <2>2. ASSUME NEW v \in Docs, NEW g \in Gens, pass[v][g].pc \in {"computed", "edges"}
        PROVE  text'[pass[v][g].in.root] = text[pass[v][g].in.root]
    <3>1. Carries(v, pass[v][g].in.root) /\ pass[v][g].in.root \in Recorded
      BY <2>2 DEF Carries, Active, RootOf, ComputedInv
    <3> QED
      BY <1>2, <3>1, ArriveCarries DEF CarriedInv
  <2> QED
    BY <1>2, <2>1, <2>2 DEF ComputedInv, Arrive
<1>3. CASE DidOpen(h, u) \/ DidChange(h, u) \/ DidSave(h, u)
  BY <1>2, <1>3 DEF DidOpen, DidChange, DidSave, TextModes
<1>4. CASE DidClose(h, u)
  <2>1. \A k \in Handlers : handler'[k] = IF k = h THEN [pc |-> "closeBump", doc |-> u]
                                                   ELSE handler[k]
    BY <1>4, SetHandlerAt DEF DidClose, Typed
  <2>2. CarriesKept
    BY <1>4, <2>1 DEF DidClose, CarriesKept, Carries, OnDisk, HasText, Active
  <2>3. UNCHANGED <<clock, text, pass>>
    BY <1>4 DEF DidClose
  <2> QED
    BY <2>2, <2>3, CarriedKept DEF ComputedInv
<1>5. CASE DidChangeWatchedFile(h, u)
  <2>1. \A k \in Handlers : handler'[k] = IF k = h
           THEN [pc |-> "recordDisk", doc |-> u, rev |-> clock + 1, mode |-> "file"]
           ELSE handler[k]
    BY <1>5, SetHandlerAt DEF DidChangeWatchedFile, Typed
  <2>2. UNCHANGED <<text, latest, disk, pass>> /\ clock' = clock + 1
    BY <1>5 DEF DidChangeWatchedFile
  <2>3. ASSUME NEW v \in Docs, NEW r \in Recorded, Carries(v, r)' PROVE Carries(v, r)
    BY <2>1, <2>2, <2>3 DEF Carries, HasText, Active
  <2>4. ASSUME NEW r \in Recorded, OnDisk(r)' PROVE OnDisk(r) \/ r = clock + 1
    BY <2>1, <2>2, <2>4 DEF OnDisk
  <2>5. CarriedInv'
    BY <1>1, <2>2, <2>3, <2>4 DEF CarriedInv, Recorded
  <2> QED
    BY <2>2, <2>5 DEF ComputedInv
<1> QED
  BY <1>3, <1>4, <1>5 DEF ClientStep

LEMMA CarriedHandler ==
  ASSUME Typed, CarriedInv, ComputedInv, NEW h \in Handlers, HandlerStep(h)
  PROVE  CarriedInv' /\ ComputedInv'
<1> USE DEF Typed
<1>1. ASSUME CarriesKept, UNCHANGED <<clock, text>>,
             \A v \in Docs, g \in Gens :
                pass'[v][g].pc \in {"computed", "edges"} => pass'[v][g] = pass[v][g]
      PROVE  CarriedInv' /\ ComputedInv'
  BY <1>1, CarriedKept DEF ComputedInv
<1>2. CASE Record(h)
  <2>1. handler[h].pc = "record"
    BY <1>2 DEF Record
  <2>2. /\ \A k \in Handlers \ {h} : handler'[k] = handler[k]
        /\ handler'[h].pc = "importers" /\ handler'[h].doc = handler[h].doc
        /\ handler'[h].rev = handler[h].rev /\ handler'[h].mode = handler[h].mode
    BY <1>2, <2>1, HandlerGoesOn DEF Record
  <2>3. HasText(h) /\ handler[h].doc \in Docs
    BY <2>1, HandlerShape DEF HasText, ModesFit
  <2>4. \A v \in Docs : latest'[v] = IF v = handler[h].doc THEN handler[h].rev ELSE latest[v]
    BY <1>2, <2>3 DEF Record, TypeOK
  <2>5. CarriesKept
    BY <1>2, <2>1, <2>2, <2>3, <2>4 DEF Record, CarriesKept, Carries, OnDisk, HasText, Active
  <2> QED
    BY <1>1, <1>2, <2>5 DEF Record
<1>3. CASE RecordDisk(h)
  <2>1. handler[h].pc = "recordDisk"
    BY <1>3 DEF RecordDisk
  <2>2. /\ \A k \in Handlers \ {h} : handler'[k] = handler[k]
        /\ handler'[h].pc = "importers" /\ handler'[h].mode = "file"
    BY <1>3, <2>1, HandlerGoesOn DEF RecordDisk, ModesFit
  <2>3. handler[h].doc \in Docs
    BY <2>1, HandlerShape
  <2>4. \A v \in Docs : disk'[v] = IF v = handler[h].doc THEN handler[h].rev ELSE disk[v]
    BY <1>3, <2>3 DEF RecordDisk, TypeOK
  <2>5. CarriesKept
    BY <1>3, <2>1, <2>2, <2>3, <2>4
       DEF RecordDisk, CarriesKept, Carries, OnDisk, HasText, Active, TextModes
  <2> QED
    BY <1>1, <1>3, <2>5 DEF RecordDisk
<1>4. CASE FindImporters(h)
  <2>1. \A k \in Handlers : handler'[k] =
           IF k = h THEN [pc |-> "capture", doc |-> handler[h].doc, rev |-> handler[h].rev,
                          mode |-> handler[h].mode,
                          todo |-> Affected(handler[h].doc, handler[h].mode)]
                    ELSE handler[k]
    BY <1>4, SetHandlerAt DEF FindImporters
  <2>2. /\ handler'[h].pc = "capture" /\ handler'[h].doc = handler[h].doc
        /\ handler'[h].rev = handler[h].rev /\ handler'[h].mode = handler[h].mode
        /\ \A k \in Handlers \ {h} : handler'[k] = handler[k]
    BY <2>1
  <2>3. CarriesKept
    BY <1>4, <2>2 DEF FindImporters, CarriesKept, Carries, OnDisk, HasText, Active
  <2> QED
    BY <1>1, <1>4, <2>3 DEF FindImporters
<1>5. CASE CaptureRoots(h)
  <2>1. \A v, r : <<v, r>> \in handler'[h].todo => latest[v] = r
    BY <1>5, CaptureRootsEffect
  <2>2. /\ handler[h].pc = "capture" /\ handler'[h].pc = "schedule"
        /\ handler'[h].doc = handler[h].doc
        /\ handler'[h].rev = handler[h].rev /\ handler'[h].mode = handler[h].mode
        /\ \A k \in Handlers \ {h} : handler'[k] = handler[k]
    BY <1>5, CaptureRootsEffect DEF CaptureRoots
  <2>3. UNCHANGED <<latest, disk, pass>>
    BY <1>5 DEF CaptureRoots
  <2>4. CarriesKept
    BY <2>1, <2>2, <2>3 DEF CarriesKept, Carries, OnDisk, HasText, Active
  <2> QED
    BY <1>1, <1>5, <2>4 DEF CaptureRoots
<1>6. CASE ScheduleRoot(h)
  <2>1. PICK v \in Docs, r \in Recorded :
            /\ <<v, r>> \in handler[h].todo
            /\ BumpFor(v, NewPass("debouncing", r))
            /\ \A k \in Handlers \ {h} : handler'[k] = handler[k]
            /\ handler'[h].pc = "schedule" /\ handler'[h].doc = handler[h].doc
            /\ handler'[h].rev = handler[h].rev /\ handler'[h].mode = handler[h].mode
            /\ handler'[h].todo = handler[h].todo \ {<<v, r>>}
    BY <1>6, ScheduleRootEffect
  <2>2. handler[h].pc = "schedule"
    BY <1>6 DEF ScheduleRoot
  <2>3. \A w \in Docs, k \in Gens :
           pass'[w][k] = IF w = v /\ k = generation[v] + 1 THEN NewPass("debouncing", r)
                                                            ELSE pass[w][k]
    BY <2>1, BumpAt
  <2>4. RootOf(NewPass("debouncing", r)) = r /\ NewPass("debouncing", r).pc = "debouncing"
    BY DEF RootOf, NewPass
  <2>5. CarriesKept
    BY <1>6, <2>1, <2>2, <2>3, <2>4
       DEF ScheduleRoot, CarriesKept, Carries, OnDisk, HasText, Active
  <2> QED
    BY <1>1, <1>6, <2>3, <2>4, <2>5 DEF ScheduleRoot
<1>7. CASE ScheduleSelf(h)
  <2>1. \A k \in Handlers : handler'[k] = IF k = h THEN Idle ELSE handler[k]
    BY <1>7, SetHandlerAt DEF ScheduleSelf
  <2>2. handler'[h].pc = "idle" /\ \A k \in Handlers \ {h} : handler'[k] = handler[k]
    BY <2>1 DEF Idle
  <2>3. handler[h].doc \in Docs /\ handler[h].mode \in Modes
    BY <1>7, HandlerShape DEF ScheduleSelf
  <2>4. CASE handler[h].mode \in {"close", "file"}
    <3>1. CarriesKept
      BY <1>7, <2>2, <2>4 DEF ScheduleSelf, CarriesKept, Carries, OnDisk, HasText, Active
    <3> QED
      BY <1>1, <1>7, <2>4, <3>1 DEF ScheduleSelf
  <2>5. CASE handler[h].mode \in TextModes
    <3> DEFINE p == NewPass(handler[h].mode, handler[h].rev)
    <3>1. BumpFor(handler[h].doc, p)
      BY <1>7, <2>5 DEF ScheduleSelf, TextModes
    <3>2. \A w \in Docs, k \in Gens :
             pass'[w][k] = IF w = handler[h].doc /\ k = generation[handler[h].doc] + 1
                           THEN p ELSE pass[w][k]
      BY <2>3, <3>1, BumpAt
    <3>3. RootOf(p) = handler[h].rev /\ p.pc \in TextModes
      BY <2>5 DEF RootOf, NewPass, TextModes
    <3>4. HasText(h)
      BY <1>7, <2>5 DEF ScheduleSelf, HasText
    <3> HIDE DEF p
    <3>5. CarriesKept
      BY <1>7, <2>2, <3>2, <3>3, <3>4
         DEF ScheduleSelf, CarriesKept, Carries, OnDisk, HasText, Active
    <3> QED
      BY <1>1, <1>7, <3>2, <3>3, <3>5 DEF ScheduleSelf, TextModes
  <2> QED
    BY <2>3, <2>4, <2>5 DEF Modes, TextModes
<1>8. CASE CloseBump(h)
  <2>1. handler[h].pc = "closeBump"
    BY <1>8 DEF CloseBump
  <2>2. /\ handler'[h].pc = "closeDocuments" /\ handler[h].doc \in Docs
        /\ \A k \in Handlers \ {h} : handler'[k] = handler[k]
    BY <1>8, <2>1, HandlerGoesOn DEF CloseBump
  <2>3. \A w \in Docs, k \in Gens :
           pass'[w][k] = IF w = handler[h].doc /\ k = generation[handler[h].doc] + 1
                         THEN Ended ELSE pass[w][k]
    BY <1>8, <2>2, BumpAt DEF CloseBump
  <2>4. CarriesKept
    BY <1>8, <2>1, <2>2, <2>3
       DEF CloseBump, CarriesKept, Carries, OnDisk, HasText, Active, Ended
  <2> QED
    BY <1>1, <1>8, <2>3, <2>4 DEF CloseBump, Ended
<1>9. CASE CloseDocuments(h)
  <2>1. /\ handler'[h].pc = "closeText"
        /\ \A k \in Handlers \ {h} : handler'[k] = handler[k]
    BY <1>9, HandlerGoesOn DEF CloseDocuments
  <2>2. CarriesKept
    BY <1>9, <2>1 DEF CloseDocuments, CarriesKept, Carries, OnDisk, HasText, Active
  <2> QED
    BY <1>1, <1>9, <2>2 DEF CloseDocuments
<1>10. CASE CloseText(h)
  <2>1. /\ handler'[h].pc = "closeEdges" /\ handler[h].doc \in Docs
        /\ \A k \in Handlers \ {h} : handler'[k] = handler[k]
    BY <1>10, HandlerGoesOn DEF CloseText
  <2>2. \A v \in Docs : latest'[v] = IF v = handler[h].doc THEN 0 ELSE latest[v]
    BY <1>10, <2>1 DEF CloseText, TypeOK
  <2>3. CarriesKept
    BY <1>10, <2>1, <2>2
       DEF CloseText, CarriesKept, Carries, OnDisk, HasText, Active, Recorded
  <2> QED
    BY <1>1, <1>10, <2>3 DEF CloseText
<1>11. CASE CloseEdges(h)
  <2>1. \A k \in Handlers : handler'[k] =
           IF k = h THEN [pc |-> "importers", doc |-> handler[h].doc, rev |-> 0,
                          mode |-> "close"]
                    ELSE handler[k]
    BY <1>11, SetHandlerAt DEF CloseEdges
  <2>2. CarriesKept
    BY <1>11, <2>1 DEF CloseEdges, CarriesKept, Carries, OnDisk, HasText, Active, TextModes
  <2> QED
    BY <1>1, <1>11, <2>2 DEF CloseEdges
<1> QED
  BY <1>2, <1>3, <1>4, <1>5, <1>6, <1>7, <1>8, <1>9, <1>10, <1>11 DEF HandlerStep

LEMMA CarriedPass ==
  ASSUME Typed, CarriedInv, ComputedInv, NEW u \in Docs, NEW g \in Gens,
         PassStep(u, g) \/ Timeout(u, g)
  PROVE  CarriedInv' /\ ComputedInv'
<1> USE DEF Typed
<1> DEFINE p == pass[u][g]
           q == pass'[u][g]
           OnlyThisPass == /\ \A v \in Docs, k \in Gens : ~(v = u /\ k = g) =>
                                  pass'[v][k] = pass[v][k]
                           /\ UNCHANGED <<clock, text, latest, disk, handler>>
<1>1. ASSUME OnlyThisPass,
             Active(q) => \/ RootOf(q) = latest[u]
                          \/ Active(p) /\ RootOf(q) = RootOf(p)
      PROVE  CarriedInv'
  <2>1. CarriesKept
    BY <1>1 DEF CarriesKept, Carries, OnDisk, HasText
  <2> QED
    BY <1>1, <2>1, CarriedKept
<1>2. ASSUME OnlyThisPass, q.pc \notin {"computed", "edges"}
      PROVE  ComputedInv'
  BY <1>2 DEF ComputedInv
<1>3. ASSUME OnlyThisPass, q = Ended
      PROVE  CarriedInv' /\ ComputedInv'
  <2>1. ~Active(q) /\ q.pc = "done"
    BY <1>3 DEF Active, Ended
  <2> QED
    BY <1>1, <1>2, <1>3, <2>1
<1>4. CASE Debounce(u, g)
  <2>1. OnlyThisPass /\ q = IF generation[u] = g THEN NewPass("ready", p.rev) ELSE Ended
    BY <1>4, DebounceEffect DEF Debounce
  <2>2. Active(p) /\ RootOf(p) = p.rev
    BY <1>4 DEF Debounce, Active, RootOf
  <2>3. CASE q = NewPass("ready", p.rev)
    <3>1. RootOf(q) = p.rev /\ q.pc = "ready"
      BY <2>3 DEF RootOf, NewPass
    <3> QED
      BY <1>1, <1>2, <2>1, <2>2, <3>1
  <2> QED
    BY <1>3, <2>1, <2>3
<1>5. CASE Begin(u, g)
  <2>1. OnlyThisPass
    BY <1>5, SetPassAt DEF Begin
  <2>2. CASE generation[u] # g
    BY <1>3, <1>5, <2>1, <2>2, SetPassAt DEF Begin
  <2>3. CASE generation[u] = g
    <3>1. q = [pc |-> "running", rev |-> p.rev, observed |-> [d \in Docs |-> Current(d)]]
      BY <1>5, <2>3, SetPassAt DEF Begin
    <3>2. q.pc = "running" /\ RootOf(q) = p.rev
      BY <3>1 DEF RootOf
    <3>3. Active(p) /\ RootOf(p) = p.rev
      BY <1>5 DEF Begin, Active, RootOf
    <3> QED
      BY <1>1, <1>2, <2>1, <3>2, <3>3
  <2> QED
    BY <2>2, <2>3
<1>6. CASE Compute(u, g)
  <2>1. OnlyThisPass
    BY <1>6, SetPassAt DEF Compute
  <2>2. /\ q.pc = "computed" /\ q.parsed = text[p.rev].parsed
        /\ q.in = FinishInputs(p.rev, text[p.rev].imports, p.observed)
    BY <1>6, SetPassAt DEF Compute
  <2>3. q.in.root = p.rev /\ q.in.deps = text[p.rev].imports
    BY <2>2 DEF FinishInputs
  <2>4. Active(p) /\ RootOf(p) = p.rev /\ p.rev \in Recorded
    BY <1>6, PassShape DEF Compute, Active, RootOf
  <2>5. CarriedInv'
    BY <1>1, <2>1, <2>2, <2>3, <2>4 DEF RootOf
  <2>6. ComputedInv'
    BY <2>1, <2>2, <2>3, <2>4 DEF ComputedInv
  <2> QED
    BY <2>5, <2>6
<1>7. CASE Cancelled(u, g)
  BY <1>3, <1>7, SetPassAt DEF Cancelled
<1>8. CASE FoundStale(u, g)
  <2>1. OnlyThisPass /\ (q = Ended \/ q = NewPass("retry", latest[u]))
    BY <1>8, SetPassAt DEF FoundStale
  <2>2. CASE q = NewPass("retry", latest[u])
    <3>1. q.pc = "retry" /\ RootOf(q) = latest[u]
      BY <2>2 DEF RootOf, NewPass
    <3> QED
      BY <1>1, <1>2, <2>1, <3>1
  <2> QED
    BY <1>3, <2>1, <2>2
<1>9. CASE Retry(u, g)
  <2> DEFINE new == NewPass("ready", p.rev)
  <2>1. \A v \in Docs, k \in Gens :
            pass'[v][k] = IF v = u /\ k = generation[u] + 1 THEN new
                          ELSE IF v = u /\ k = g THEN Ended ELSE pass[v][k]
    BY <1>9, RetryEffect
  <2>2. UNCHANGED <<clock, text, latest, disk, handler>>
    BY <1>9 DEF Retry
  <2>3. Active(p) /\ RootOf(p) = p.rev
    BY <1>9 DEF Retry, Active, RootOf
  <2>4. new.pc = "ready" /\ RootOf(new) = p.rev
    BY DEF RootOf, NewPass
  <2>5. Ended.pc = "done" /\ ~Active(Ended)
    BY DEF Ended, Active
  <2> HIDE DEF new
  <2>6. CarriesKept
    BY <2>1, <2>2, <2>3, <2>4, <2>5 DEF CarriesKept, Carries, OnDisk, HasText
  <2>7. CarriedInv'
    BY <2>2, <2>6, CarriedKept
  <2>8. ComputedInv'
    BY <2>1, <2>2, <2>4, <2>5 DEF ComputedInv
  <2> QED
    BY <2>7, <2>8
<1>10. CASE Store(u, g)
  <2>4. \A v \in Docs, k \in Gens : ~(v = u /\ k = g) => pass'[v][k] = pass[v][k]
    BY <1>10, StoreEffect, ZenonT(40)
  <2>5. UNCHANGED <<clock, text, latest, disk, handler>>
    BY <1>10, SMTT(20) DEF Store
  <2>1. OnlyThisPass
    BY <2>4, <2>5
  <2>2. CASE generation[u] # g
    BY <1>3, <1>10, <2>1, <2>2, StoreEffect
  <2>3. CASE generation[u] = g
    <3>5. q = [pc |-> "edges", parsed |-> p.parsed, in |-> p.in]
      BY <1>10, <2>3, StoreEffect
    <3>6. p.pc = "computed"
      BY <1>10 DEF Store
    <3>1. q.pc = "edges" /\ q.parsed = p.parsed /\ q.in = p.in /\ p.pc = "computed"
      BY <3>5, <3>6
    <3>2. RootOf(q) = p.in.root /\ RootOf(p) = p.in.root /\ Active(p)
      BY <3>1 DEF RootOf, Active
    <3>3. CarriedInv'
      BY <1>1, <2>1, <3>2
    <3>4. ComputedInv'
      BY <2>1, <3>1 DEF ComputedInv
    <3> QED
      BY <3>3, <3>4
  <2> QED
    BY <2>2, <2>3
<1>11. CASE PublishEdges(u, g)
  BY <1>3, <1>11, SetPassAt DEF PublishEdges
<1>12. CASE Timeout(u, g)
  BY <1>3, <1>12, SetPassAt DEF Timeout
<1> QED
  BY <1>4, <1>5, <1>6, <1>7, <1>8, <1>9, <1>10, <1>11, <1>12 DEF PassStep

LEMMA CarriedInit == Init => CarriedInv /\ ComputedInv
<1> SUFFICES ASSUME Init PROVE CarriedInv /\ ComputedInv
  OBVIOUS
<1>1. \A u \in Docs, r \in Recorded : ~Carries(u, r)
  BY DEF Init, Carries, HasText, Idle, Active, NoPass, Recorded
<1>2. \A r \in Recorded : ~OnDisk(r)
  BY DEF Init, OnDisk, Idle, Recorded
<1>3. ComputedInv
  BY DEF Init, ComputedInv, NoPass
<1> QED
  BY <1>1, <1>2, <1>3 DEF CarriedInv

LEMMA CarriedStutter ==
  ASSUME CarriedInv, ComputedInv, UNCHANGED vars
  PROVE  CarriedInv' /\ ComputedInv'
BY DEF vars, CarriedInv, ComputedInv, Carries, OnDisk, HasText

-----------------------------------------------------------------------------
(* Stored analyses are replaced by newer ones.  Texts are recorded in the order *)
(* of their revisions, so that every text that still waits for latest_text is   *)
(* newer than what is stored of any document.                                   *)

NotNewer(r) ==
    \A v \in Docs : latest[v] <= r /\ documents[v].root <= r /\ diagnosed[v].root <= r

OrderInv ==
    /\ NotNewer(clock)
    /\ \A u \in Docs : latest[u] # 0 =>
          documents[u].root <= latest[u] /\ diagnosed[u].root <= latest[u]
    /\ \A h \in Handlers : handler[h].pc = "record" =>
          /\ handler[h].rev <= clock
          /\ NotNewer(handler[h].rev - 1)
          /\ \A k \in Handlers \ {h} :
                handler[k].pc = "record" => handler[k].rev # handler[h].rev

\* What is stored is the analysis of the open buffer: the root of a pass is a text's
\* revision, which no file on disk has.
LEMMA StoredRoot ==
  ASSUME Typed, CarriedInv, ComputedInv, NEW u \in Docs, NEW g \in Gens,
         pass[u][g].pc = "computed", RootIsCurrent(u, pass[u][g].in)
  PROVE  latest[u] # 0 /\ pass[u][g].in.root = latest[u]
<1>1. pass[u][g].in.root \in Recorded
  BY DEF ComputedInv
<1>2. Carries(u, pass[u][g].in.root)
  BY DEF Carries, Active, RootOf
<1>3. ~OnDisk(pass[u][g].in.root)
  BY <1>1, <1>2 DEF CarriedInv
<1> QED
  BY <1>1, <1>3 DEF RootIsCurrent, Current, OnDisk, Recorded, Typed, TypeOK

LEMMA OrderTypes ==
  ASSUME Typed
  PROVE  /\ clock \in Nat
         /\ \A v \in Docs : latest[v] \in Nat /\ documents[v].root \in Nat
                                              /\ diagnosed[v].root \in Nat
         /\ \A h \in Handlers : handler[h].pc = "record" =>
               handler[h].rev \in Nat /\ handler[h].rev # 0 /\ handler[h].doc \in Docs
<1>1. \A h \in Handlers : handler[h].pc = "record" =>
               handler[h].rev \in Recorded /\ handler[h].doc \in Docs
  BY HandlerShape DEF Typed, ModesFit
<1>2. \A v \in Docs : documents[v].root \in Revisions /\ diagnosed[v].root \in Revisions
  BY DEF Typed, TypeOK, Inputs
<1> QED
  BY <1>1, <1>2 DEF Typed, TypeOK, Recorded, Revisions

LEMMA OrderKept ==
  ASSUME OrderInv, UNCHANGED <<clock, latest, documents, diagnosed>>,
         \A k \in Handlers : handler'[k].pc = "record" => handler'[k] = handler[k]
  PROVE  OrderInv'
BY DEF OrderInv, NotNewer

LEMMA OrderClient ==
  ASSUME Typed, OrderInv, NEW h \in Handlers, NEW u \in Docs, ClientStep(h, u)
  PROVE  OrderInv'
<1>1. ASSUME NEW mode, Arrive(h, u, mode) PROVE OrderInv'
  <2>1. /\ \A k \in Handlers \ {h} : handler'[k] = handler[k]
        /\ handler'[h].pc = "record" /\ handler'[h].rev = clock + 1
    BY <1>1, SetHandlerAt DEF Arrive, Typed
  <2>2. UNCHANGED <<latest, documents, diagnosed>> /\ clock' = clock + 1
    BY <1>1 DEF Arrive
  <2>3. NotNewer(clock') /\ NotNewer(clock' - 1)
    BY <2>2, OrderTypes DEF OrderInv, NotNewer
  <2>4. ASSUME NEW k \in Handlers, handler'[k].pc = "record"
        PROVE  /\ handler'[k].rev <= clock'
               /\ NotNewer(handler'[k].rev - 1)
               /\ \A j \in Handlers \ {k} :
                     handler'[j].pc = "record" => handler'[j].rev # handler'[k].rev
    <3>1. \A j \in Handlers \ {h} : handler[j].pc = "record" => handler[j].rev < clock + 1
      BY OrderTypes DEF OrderInv
    <3> QED
      BY <2>1, <2>2, <2>3, <2>4, <3>1, OrderTypes DEF OrderInv
  <2> QED
    BY <2>2, <2>3, <2>4 DEF OrderInv, NotNewer
<1>2. CASE DidOpen(h, u) \/ DidChange(h, u) \/ DidSave(h, u)
  BY <1>1, <1>2 DEF DidOpen, DidChange, DidSave
<1>3. CASE DidClose(h, u)
  <2>1. \A k \in Handlers : handler'[k].pc = "record" => handler'[k] = handler[k]
    BY <1>3, SetHandlerAt DEF DidClose, Typed
  <2> QED
    BY <1>3, <2>1, OrderKept DEF DidClose
<1>4. CASE DidChangeWatchedFile(h, u)
  <2>1. \A k \in Handlers : handler'[k].pc = "record" => handler'[k] = handler[k]
    BY <1>4, SetHandlerAt DEF DidChangeWatchedFile, Typed
  <2>2. UNCHANGED <<latest, documents, diagnosed>> /\ clock' = clock + 1
    BY <1>4 DEF DidChangeWatchedFile
  <2> QED
    BY <2>1, <2>2, OrderTypes DEF OrderInv, NotNewer
<1> QED
  BY <1>2, <1>3, <1>4 DEF ClientStep

LEMMA OrderHandler ==
  ASSUME Typed, OrderInv, NEW h \in Handlers, HandlerStep(h)
  PROVE  OrderInv'
<1> USE DEF Typed
<1>1. CASE Record(h)
  <2> DEFINE u == handler[h].doc
             r == handler[h].rev
  <2>1. handler[h].pc = "record" /\ u \in Docs /\ r \in Nat
    BY <1>1, OrderTypes DEF Record
  <2>2. /\ \A k \in Handlers \ {h} : handler'[k] = handler[k]
        /\ handler'[h].pc = "importers"
    BY <1>1, <2>1, HandlerGoesOn DEF Record
  <2>3. \A v \in Docs : latest'[v] = IF v = u THEN r ELSE latest[v]
    BY <1>1, <2>1 DEF Record, TypeOK
  <2>4. UNCHANGED <<clock, documents, diagnosed>>
    BY <1>1 DEF Record
  <2>5. NotNewer(r - 1) /\ r <= clock
    BY <2>1 DEF OrderInv
  <2>6. \A k \in Handlers \ {h} : handler[k].pc = "record" => r <= handler[k].rev - 1
    BY <1>1, <2>1, OrderTypes DEF Record, OrderInv
  <2>7. NotNewer(clock)'
    BY <2>1, <2>3, <2>4, <2>5, OrderTypes DEF OrderInv, NotNewer
  <2>8. \A v \in Docs : latest'[v] # 0 =>
           documents'[v].root <= latest'[v] /\ diagnosed'[v].root <= latest'[v]
    BY <2>1, <2>3, <2>4, <2>5, OrderTypes DEF OrderInv, NotNewer
  <2>9. ASSUME NEW k \in Handlers, handler'[k].pc = "record" PROVE NotNewer(handler[k].rev - 1)'
    <3>1. k # h /\ handler'[k] = handler[k]
      BY <2>2, <2>9
    <3>2. NotNewer(handler[k].rev - 1) /\ r <= handler[k].rev - 1
      BY <2>6, <2>9, <3>1 DEF OrderInv
    <3> QED
      BY <2>3, <2>4, <3>1, <3>2 DEF NotNewer
  <2>10. ASSUME NEW k \in Handlers, handler'[k].pc = "record"
         PROVE  /\ handler'[k].rev <= clock'
                /\ \A j \in Handlers \ {k} :
                     handler'[j].pc = "record" => handler'[j].rev # handler'[k].rev
    BY <2>2, <2>4, <2>10 DEF OrderInv
  <2> QED
    BY <2>7, <2>8, <2>9, <2>10 DEF OrderInv
<1>2. CASE RecordDisk(h)
  <2>1. \A k \in Handlers : handler'[k].pc = "record" => handler'[k] = handler[k]
    BY <1>2, HandlerGoesOn DEF RecordDisk
  <2> QED
    BY <1>2, <2>1, OrderKept DEF RecordDisk
<1>3. CASE FindImporters(h)
  <2>1. \A k \in Handlers : handler'[k].pc = "record" => handler'[k] = handler[k]
    BY <1>3, SetHandlerAt DEF FindImporters
  <2> QED
    BY <1>3, <2>1, OrderKept DEF FindImporters
<1>4. CASE CaptureRoots(h)
  <2>1. \A k \in Handlers : handler'[k].pc = "record" => handler'[k] = handler[k]
    BY <1>4, CaptureRootsEffect
  <2> QED
    BY <1>4, <2>1, OrderKept DEF CaptureRoots
<1>5. CASE ScheduleRoot(h)
  <2>1. \A k \in Handlers : handler'[k].pc = "record" => handler'[k] = handler[k]
    BY <1>5, ScheduleRootEffect
  <2> QED
    BY <1>5, <2>1, OrderKept DEF ScheduleRoot
<1>6. CASE ScheduleSelf(h)
  <2>1. \A k \in Handlers : handler'[k].pc = "record" => handler'[k] = handler[k]
    BY <1>6, SetHandlerAt DEF ScheduleSelf, Idle
  <2> QED
    BY <1>6, <2>1, OrderKept DEF ScheduleSelf
<1>7. CASE CloseBump(h)
  <2>1. \A k \in Handlers : handler'[k].pc = "record" => handler'[k] = handler[k]
    BY <1>7, HandlerGoesOn DEF CloseBump
  <2> QED
    BY <1>7, <2>1, OrderKept DEF CloseBump
<1>8. CASE CloseDocuments(h)
  <2>1. \A k \in Handlers : handler'[k].pc = "record" => handler'[k] = handler[k]
    BY <1>8, HandlerGoesOn DEF CloseDocuments
  <2>2. \A v \in Docs : /\ documents'[v].root \in {0, documents[v].root}
                        /\ diagnosed'[v].root \in {0, diagnosed[v].root}
    BY <1>8 DEF CloseDocuments, TypeOK, NoInputs
  <2>3. UNCHANGED <<clock, latest>>
    BY <1>8 DEF CloseDocuments
  <2>4. ASSUME NEW r \in Nat, NotNewer(r) PROVE NotNewer(r)'
    BY <2>2, <2>3, <2>4 DEF NotNewer
  <2>5. \A k \in Handlers : handler[k].pc = "record" => handler[k].rev - 1 \in Nat
    BY OrderTypes
  <2>6. NotNewer(clock)'
    BY <2>3, <2>4, OrderTypes DEF OrderInv
  <2>7. \A k \in Handlers : handler'[k].pc = "record" => NotNewer(handler[k].rev - 1)'
    BY <2>1, <2>4, <2>5 DEF OrderInv
  <2>8. \A v \in Docs : latest'[v] # 0 =>
           documents'[v].root <= latest'[v] /\ diagnosed'[v].root <= latest'[v]
    BY <2>2, <2>3, OrderTypes DEF OrderInv
  <2>9. \A k \in Handlers : handler'[k].pc = "record" =>
           /\ handler'[k].rev <= clock'
           /\ \A j \in Handlers \ {k} : handler'[j].pc = "record" =>
                handler'[j].rev # handler'[k].rev
    BY <2>1, <2>3 DEF OrderInv
  <2> QED
    BY <2>6, <2>7, <2>8, <2>9 DEF OrderInv
<1>9. CASE CloseText(h)
  <2>1. \A k \in Handlers : handler'[k].pc = "record" => handler'[k] = handler[k]
    BY <1>9, HandlerGoesOn DEF CloseText
  <2>2. \A v \in Docs : latest'[v] \in {0, latest[v]}
    BY <1>9, HandlerGoesOn DEF CloseText, TypeOK
  <2>3. UNCHANGED <<clock, documents, diagnosed>>
    BY <1>9 DEF CloseText
  <2>4. ASSUME NEW r \in Nat, NotNewer(r) PROVE NotNewer(r)'
    BY <2>2, <2>3, <2>4 DEF NotNewer
  <2>5. \A k \in Handlers : handler[k].pc = "record" => handler[k].rev - 1 \in Nat
    BY OrderTypes
  <2>6. NotNewer(clock)'
    BY <2>3, <2>4, OrderTypes DEF OrderInv
  <2>7. \A k \in Handlers : handler'[k].pc = "record" => NotNewer(handler[k].rev - 1)'
    BY <2>1, <2>4, <2>5 DEF OrderInv
  <2>8. \A v \in Docs : latest'[v] # 0 =>
           documents'[v].root <= latest'[v] /\ diagnosed'[v].root <= latest'[v]
    BY <2>2, <2>3 DEF OrderInv
  <2>9. \A k \in Handlers : handler'[k].pc = "record" =>
           /\ handler'[k].rev <= clock'
           /\ \A j \in Handlers \ {k} : handler'[j].pc = "record" =>
                handler'[j].rev # handler'[k].rev
    BY <2>1, <2>3 DEF OrderInv
  <2> QED
    BY <2>6, <2>7, <2>8, <2>9 DEF OrderInv
<1>10. CASE CloseEdges(h)
  <2>1. \A k \in Handlers : handler'[k].pc = "record" => handler'[k] = handler[k]
    BY <1>10, SetHandlerAt DEF CloseEdges
  <2> QED
    BY <1>10, <2>1, OrderKept DEF CloseEdges
<1> QED
  BY <1>1, <1>2, <1>3, <1>4, <1>5, <1>6, <1>7, <1>8, <1>9, <1>10 DEF HandlerStep

LEMMA OrderPass ==
  ASSUME Typed, CarriedInv, ComputedInv, OrderInv, NEW u \in Docs, NEW g \in Gens,
         PassStep(u, g) \/ Timeout(u, g)
  PROVE  OrderInv'
<1>1. CASE Store(u, g)
  <2> DEFINE in == pass[u][g].in
  <2>1. latest[u] # 0 /\ in.root = latest[u]
    BY <1>1, StoredRoot DEF Store, IsCurrent
  <2>2. \A v \in Docs : /\ documents'[v].root \in {documents[v].root, latest[v]}
                        /\ diagnosed'[v].root \in {diagnosed[v].root, latest[v]}
    BY <1>1, <2>1 DEF Store, Typed, TypeOK
  <2>3. UNCHANGED <<clock, latest, handler>>
    BY <1>1 DEF Store
  <2>4. ASSUME NEW r \in Nat, NotNewer(r) PROVE NotNewer(r)'
    BY <2>2, <2>3, <2>4 DEF NotNewer
  <2>5. \A k \in Handlers : handler[k].pc = "record" => handler[k].rev - 1 \in Nat
    BY OrderTypes
  <2>6. NotNewer(clock)'
    BY <2>3, <2>4, OrderTypes DEF OrderInv
  <2>7. \A k \in Handlers : handler'[k].pc = "record" => NotNewer(handler[k].rev - 1)'
    BY <2>3, <2>4, <2>5 DEF OrderInv
  <2>8. \A v \in Docs : latest'[v] # 0 =>
           documents'[v].root <= latest'[v] /\ diagnosed'[v].root <= latest'[v]
    BY <2>2, <2>3, OrderTypes DEF OrderInv
  <2> QED
    BY <2>3, <2>6, <2>7, <2>8 DEF OrderInv
<1>2. CASE Debounce(u, g)
  BY <1>2, OrderKept DEF Debounce
<1>3. CASE Begin(u, g)
  BY <1>3, OrderKept DEF Begin
<1>4. CASE Compute(u, g)
  BY <1>4, OrderKept DEF Compute
<1>5. CASE Cancelled(u, g)
  BY <1>5, OrderKept DEF Cancelled
<1>6. CASE FoundStale(u, g)
  BY <1>6, OrderKept DEF FoundStale
<1>7. CASE Retry(u, g)
  BY <1>7, OrderKept DEF Retry
<1>8. CASE PublishEdges(u, g)
  BY <1>8, OrderKept DEF PublishEdges
<1>9. CASE Timeout(u, g)
  BY <1>9, OrderKept DEF Timeout
<1> QED
  BY <1>1, <1>2, <1>3, <1>4, <1>5, <1>6, <1>7, <1>8, <1>9 DEF PassStep

\* What holds whatever number of handlers runs at the same time.
WorkspaceInv == Typed /\ CarriedInv /\ ComputedInv /\ OrderInv

LEMMA WorkspaceInit == Init => WorkspaceInv
<1> SUFFICES ASSUME Init PROVE WorkspaceInv
  OBVIOUS
<1>1. OrderInv
  BY WorkspaceAssumption DEF Init, OrderInv, NotNewer, NoInputs, Idle
<1> QED
  BY <1>1, TypedInit, CarriedInit DEF WorkspaceInv

LEMMA WorkspaceNext == WorkspaceInv /\ [Next]_vars => WorkspaceInv'
<1> SUFFICES ASSUME WorkspaceInv, [Next]_vars PROVE WorkspaceInv'
  OBVIOUS
<1> USE DEF WorkspaceInv
<1>1. Typed'
  BY TypedNext
<1>2. CASE UNCHANGED vars
  <2>1. OrderInv'
    BY <1>2, OrderKept DEF vars
  <2> QED
    BY <1>1, <1>2, <2>1, CarriedStutter
<1>3. ASSUME NEW h \in Handlers, NEW u \in Docs, ClientStep(h, u) PROVE WorkspaceInv'
  BY <1>1, <1>3, CarriedClient, OrderClient
<1>4. ASSUME NEW h \in Handlers, HandlerStep(h) PROVE WorkspaceInv'
  BY <1>1, <1>4, CarriedHandler, OrderHandler
<1>5. ASSUME NEW u \in Docs, NEW g \in Gens, PassStep(u, g) \/ Timeout(u, g)
      PROVE  WorkspaceInv'
  BY <1>1, <1>5, CarriedPass, OrderPass
<1> QED
  BY <1>2, <1>3, <1>4, <1>5 DEF Next

LEMMA WorkspaceInvariance == Spec => []WorkspaceInv
BY WorkspaceInit, WorkspaceNext, PTL DEF Spec

\* Only a pass that stores and did_close touch the stored analyses.
LEMMA NeverRegressesStep ==
  ASSUME WorkspaceInv, [Next]_vars, NEW u \in Docs,
         documents[u] # NoInputs, documents'[u] # NoInputs
  PROVE  /\ documents'[u].root >= documents[u].root
         /\ diagnosed'[u].root >= diagnosed[u].root
<1> USE DEF WorkspaceInv
<1>1. CASE documents'[u] = documents[u] /\ diagnosed'[u] = diagnosed[u]
  BY <1>1, OrderTypes
<1>2. ASSUME NEW v \in Docs, NEW g \in Gens, Store(v, g)
      PROVE  /\ documents'[u].root >= documents[u].root
             /\ diagnosed'[u].root >= diagnosed[u].root
  <2>1. latest[v] # 0 /\ pass[v][g].in.root = latest[v]
    BY <1>2, StoredRoot DEF Store, IsCurrent
  <2>2. /\ documents'[u].root \in {documents[u].root, latest[u]}
        /\ diagnosed'[u].root \in {diagnosed[u].root, latest[u]}
        /\ u # v => documents'[u] = documents[u] /\ diagnosed'[u] = diagnosed[u]
    BY <1>2, <2>1 DEF Store, Typed, TypeOK
  <2> QED
    BY <2>1, <2>2, OrderTypes DEF OrderInv
<1>3. ASSUME NEW h \in Handlers, CloseDocuments(h)
      PROVE  documents'[u] = documents[u] /\ diagnosed'[u] = diagnosed[u]
  BY <1>3 DEF CloseDocuments, Typed, TypeOK
<1>4. ASSUME NEW h \in Handlers, NEW v \in Docs, ClientStep(h, v)
      PROVE  UNCHANGED <<documents, diagnosed>>
  BY <1>4 DEF ClientStep, DidOpen, DidChange, DidSave, Arrive, DidClose, DidChangeWatchedFile
<1>5. ASSUME NEW h \in Handlers, HandlerStep(h), ~CloseDocuments(h)
      PROVE  UNCHANGED <<documents, diagnosed>>
  BY <1>5 DEF HandlerStep, Record, RecordDisk, FindImporters, CaptureRoots, ScheduleRoot,
              ScheduleSelf, CloseBump, CloseText, CloseEdges
<1>6. ASSUME NEW v \in Docs, NEW g \in Gens, PassStep(v, g) \/ Timeout(v, g), ~Store(v, g)
      PROVE  UNCHANGED <<documents, diagnosed>>
  BY <1>6 DEF PassStep, Debounce, Begin, Compute, Cancelled, FoundStale, Retry,
              PublishEdges, Timeout
<1>7. CASE UNCHANGED vars
  BY <1>1, <1>7 DEF vars
<1> QED
  BY <1>1, <1>2, <1>3, <1>4, <1>5, <1>6, <1>7 DEF Next

\* Whatever number of handlers and passes overlap, and however closes and file events
\* fall between them, an analysis that is stored for a document is of a text at least
\* as new as the one it replaces.
THEOREM StoredNeverRegressesTheorem == Spec => StoredNeverRegresses
<1>1. WorkspaceInv /\ [Next]_vars =>
         [\A u \in Docs :
             documents[u] # NoInputs /\ documents'[u] # NoInputs =>
                 /\ documents'[u].root >= documents[u].root
                 /\ diagnosed'[u].root >= diagnosed[u].root]_vars
  BY NeverRegressesStep
<1> QED
  BY <1>1, WorkspaceInvariance, PTL DEF Spec, StoredNeverRegresses

-----------------------------------------------------------------------------
(* Documents that the client opens and then leaves alone, while it edits, saves  *)
(* and closes others: whatever they import, and however many handlers run at the *)
(* same time.  (A retried pass of an edited document may analyse an older text,   *)
(* and a close that overlaps a reopening forgets the reopened text.)              *)

Unedited == Docs \ Editable

CloseSteps == {"closeBump", "closeDocuments", "closeText", "closeEdges"}

\* A handler works for a close.
Closes(h) ==
    \/ handler[h].pc \in CloseSteps
    \/ handler[h].pc \in {"importers", "capture", "schedule"} /\ handler[h].mode = "close"

\* What a handler works for: manifests are not opened, only edited documents are
\* closed, and the text of one that is left alone is recorded once.
Fit(h) ==
    /\ HasText(h) => handler[h].doc \in (editor \cup Editable) \ Manifests
    /\ Closes(h) => handler[h].doc \in Editable \ Manifests
    /\ handler[h].pc = "record" /\ handler[h].doc \notin Editable => latest[handler[h].doc] = 0
    /\ HasText(h) /\ handler[h].pc # "record" /\ handler[h].doc \notin Editable =>
          handler[h].rev = latest[handler[h].doc]
    /\ handler[h].pc = "schedule" =>
          \A v \in Unedited, r \in Recorded : <<v, r>> \in handler[h].todo => r = latest[v]

HandlersFit ==
    /\ editor \cap Manifests = {}
    /\ \A h \in Handlers : Fit(h)
    /\ \A h, k \in Handlers :
          HasText(h) /\ HasText(k) /\ handler[h].doc = handler[k].doc
          /\ handler[h].doc \notin Editable => h = k

\* A handler has a text of u to record or a pass of it to start.
Arriving(u) == \E h \in Handlers : HasText(h) /\ handler[h].doc = u

\* The pass of u's generation is under way.
PassPending(u) == \E g \in Gens : g = generation[u] /\ Active(pass[u][g])

\* A handler will start a pass of u, or will find u among the importers of what changed.
Owes(h, u) ==
    \/ HasText(h) /\ handler[h].doc = u
    \/ handler[h].pc = "capture" /\ u \in handler[h].todo
    \/ handler[h].pc = "schedule" /\ \E r \in Recorded : <<u, r>> \in handler[h].todo
    \/ handler[h].pc = "closeEdges" /\ handler[h].doc \in graph[u]
    \/ handler[h].pc = "importers" /\ handler[h].doc \in graph[u] \cup Manifests

Pending(u) == PassPending(u) \/ \E h \in Handlers : Owes(h, u)

\* A step leaves the passes of v alone, or bumps v with a pass of its text.
PassesKept(v) == generation'[v] = generation[v] /\ \A g \in Gens : pass'[v][g] = pass[v][g]

Started(v) ==
    /\ generation'[v] \in Gens
    /\ pass'[v][generation'[v]].pc \in TextModes
    /\ pass'[v][generation'[v]].rev = latest[v]
    /\ \A g \in Gens \ {generation'[v]} : pass'[v][g] = pass[v][g]

\* Passes analyse the text that was opened, and the edges are those of that text.
RootInv ==
    \A u \in Unedited :
        /\ u \notin editor => latest[u] = 0
        /\ u \in editor /\ ~Arriving(u) => latest[u] # 0
        /\ \A g \in Gens : Active(pass[u][g]) => RootOf(pass[u][g]) = latest[u]
        /\ graph[u] # {} => /\ latest[u] # 0 /\ text[latest[u]].parsed
                            /\ graph[u] = text[latest[u]].imports

\* From its store to its edges a pass holds the revision guards: what it stored is
\* current all the while.
EdgesInv ==
    \A u \in editor \ Editable, g \in Gens : pass[u][g].pc = "edges" /\ g = generation[u] =>
        diagnosed[u] = pass[u][g].in /\ IsCurrent(u, diagnosed[u])

\* A document nothing is pending for is up to date, and whoever changes one of its
\* dependencies will find it: by its edges, or below its manifest.
SettledInv ==
    timeouts = 0 => \A u \in editor \ Editable : ~Pending(u) =>
        /\ IsCurrent(u, diagnosed[u])
        /\ diagnosed[u].deps = text[latest[u]].imports
        /\ diagnosed[u].deps \subseteq graph[u] \cup Manifests

AloneInv == HandlersFit /\ RootInv /\ EdgesInv /\ SettledInv

\* Any step of a pass but AnalysisCompletion::Retry.
LEMMA PassMoves ==
  ASSUME TypeOK, NEW u \in Docs, NEW g \in Gens, PassStep(u, g) \/ Timeout(u, g), ~Retry(u, g)
  PROVE  /\ \A v \in Docs, k \in Gens : ~(v = u /\ k = g) => pass'[v][k] = pass[v][k]
         /\ UNCHANGED <<editor, clock, text, latest, disk, generation, handler>>
         /\ Active(pass[u][g])
         /\ pass'[u][g].pc = "retry" =>
               FoundStale(u, g) /\ pass'[u][g] = NewPass("retry", latest[u])
         /\ Active(pass'[u][g]) /\ pass'[u][g].pc # "retry" =>
               RootOf(pass'[u][g]) = RootOf(pass[u][g])
         /\ pass'[u][g].pc = "edges" \/ documents' # documents \/ diagnosed' # diagnosed =>
               Store(u, g) /\ generation[u] = g
<1> DEFINE p == pass[u][g]
           q == pass'[u][g]
           OnlyThisPass == /\ \A v \in Docs, k \in Gens : ~(v = u /\ k = g) =>
                                  pass'[v][k] = pass[v][k]
                           /\ UNCHANGED <<editor, clock, text, latest, disk, generation, handler>>
<1>1. Ended.pc = "done"
  BY DEF Ended
<1>2. CASE Debounce(u, g)
  <2>1. OnlyThisPass /\ q = IF generation[u] = g THEN NewPass("ready", p.rev) ELSE Ended
    BY <1>2, DebounceEffect DEF Debounce
  <2>2. NewPass("ready", p.rev).pc = "ready" /\ NewPass("ready", p.rev).rev = p.rev
    BY DEF NewPass
  <2>3. p.pc = "debouncing" /\ UNCHANGED <<documents, diagnosed>>
    BY <1>2 DEF Debounce
  <2> QED
    BY <1>1, <2>1, <2>2, <2>3 DEF Active, RootOf
<1>3. CASE Begin(u, g)
  <2>1. OnlyThisPass
    BY <1>3, SetPassAt DEF Begin
  <2>2. q = Ended \/ (q.pc = "running" /\ q.rev = p.rev)
    BY <1>3, SetPassAt DEF Begin
  <2>3. p.pc = "ready" /\ UNCHANGED <<documents, diagnosed>>
    BY <1>3 DEF Begin
  <2> QED
    BY <1>1, <2>1, <2>2, <2>3 DEF Active, RootOf
<1>4. CASE Compute(u, g)
  <2>1. OnlyThisPass
    BY <1>4, SetPassAt DEF Compute
  <2>2. q.pc = "computed" /\ q.in = FinishInputs(p.rev, text[p.rev].imports, p.observed)
    BY <1>4, SetPassAt DEF Compute
  <2>3. q.in.root = p.rev
    BY <2>2 DEF FinishInputs
  <2>4. p.pc = "running" /\ UNCHANGED <<documents, diagnosed>>
    BY <1>4 DEF Compute
  <2> QED
    BY <2>1, <2>2, <2>3, <2>4 DEF Active, RootOf
<1>5. CASE Cancelled(u, g) \/ PublishEdges(u, g) \/ Timeout(u, g)
  <2>1. OnlyThisPass /\ q = Ended
    BY <1>5, SetPassAt DEF Cancelled, PublishEdges, Timeout
  <2>2. p.pc \in {"running", "edges"} /\ UNCHANGED <<documents, diagnosed>>
    BY <1>5 DEF Cancelled, PublishEdges, Timeout
  <2> QED
    BY <1>1, <2>1, <2>2 DEF Active
<1>6. CASE FoundStale(u, g)
  <2>1. OnlyThisPass /\ (q = Ended \/ q = NewPass("retry", latest[u]))
    BY <1>6, SetPassAt DEF FoundStale
  <2>2. NewPass("retry", latest[u]).pc = "retry"
    BY DEF NewPass
  <2>3. p.pc = "computed" /\ UNCHANGED <<documents, diagnosed>>
    BY <1>6 DEF FoundStale
  <2> QED
    BY <1>1, <1>6, <2>1, <2>2, <2>3 DEF Active
<1>7. CASE Store(u, g)
  <2>1. OnlyThisPass
    BY <1>7, StoreEffect DEF Store
  <2>2. p.pc = "computed"
    BY <1>7 DEF Store
  <2>3. CASE generation[u] = g
    <3>1. q = [pc |-> "edges", parsed |-> p.parsed, in |-> p.in]
      BY <1>7, <2>3, StoreEffect
    <3>2. q.pc = "edges" /\ q.in = p.in
      BY <3>1
    <3> QED
      BY <1>7, <2>1, <2>2, <2>3, <3>2 DEF Active, RootOf
  <2>4. CASE generation[u] # g
    <3>1. q = Ended
      BY <1>7, <2>4, StoreEffect
    <3>2. UNCHANGED <<documents, diagnosed>>
      BY <1>7, <2>4 DEF Store
    <3> QED
      BY <1>1, <2>1, <2>2, <3>1, <3>2 DEF Active
  <2> QED
    BY <2>3, <2>4
<1> QED
  BY <1>2, <1>3, <1>4, <1>5, <1>6, <1>7 DEF PassStep

\* What a pass computed is an analysis of its text.
LEMMA ComputedInputs ==
  ASSUME WorkspaceInv, NEW u \in Docs, NEW g \in Gens, pass[u][g].pc \in {"computed", "edges"}
  PROVE  /\ pass[u][g].in.root \in Recorded
         /\ pass[u][g].in.deps = text[pass[u][g].in.root].imports
         /\ pass[u][g].parsed = text[pass[u][g].in.root].parsed
         /\ ~pass[u][g].parsed => pass[u][g].in.deps \subseteq Manifests
<1> DEFINE r == pass[u][g].in.root
<1>1. r \in Recorded
  BY DEF WorkspaceInv, ComputedInv
<1>2. Carries(u, r)
  BY DEF Carries, Active, RootOf
<1>3. text[r] \in Texts(u)
  BY <1>1, <1>2 DEF WorkspaceInv, CarriedInv
<1>4. pass[u][g].in.deps = text[r].imports /\ pass[u][g].parsed = text[r].parsed
  BY DEF WorkspaceInv, ComputedInv
<1>5. ~text[r].parsed => text[r].imports \subseteq Manifests
  BY <1>3, TextsTyped
<1> QED
  BY <1>1, <1>4, <1>5

LEMMA StaysCurrent ==
  ASSUME NEW u \in Docs, diagnosed'[u] = diagnosed[u],
         \A d \in diagnosed[u].deps \cup {u} : Current(d)' = Current(d)
  PROVE  IsCurrent(u, diagnosed[u])' <=> IsCurrent(u, diagnosed[u])
BY DEF IsCurrent, DependencyChanged, RootIsCurrent

LEMMA ActiveRoot ==
  ASSUME WorkspaceInv, NEW u \in Docs, NEW g \in Gens, Active(pass[u][g])
  PROVE  RootOf(pass[u][g]) \in Recorded /\ RootOf(pass[u][g]) # 0
<1>1. TypeOK
  BY DEF WorkspaceInv, Typed
<1>2. pass[u][g].pc \in {"computed", "edges"} => pass[u][g].in.root \in Recorded
  BY DEF WorkspaceInv, ComputedInv
<1>3. pass[u][g].pc \in {"debouncing", "ready", "retry", "running"} => pass[u][g].rev \in Recorded
  BY <1>1, PassShape
<1> QED
  BY <1>1, <1>2, <1>3, PassShape DEF Active, RootOf, Recorded

LEMMA LatestHandedOut ==
  ASSUME WorkspaceInv, NEW u \in Docs, latest[u] # 0
  PROVE  latest[u] \in Recorded /\ latest[u] <= clock /\ Carries(u, latest[u])
<1>1. latest[u] \in Recorded
  BY DEF WorkspaceInv, Typed, TypeOK, Revisions, Recorded
<1>2. Carries(u, latest[u])
  BY DEF Carries
<1> QED
  BY <1>1, <1>2 DEF WorkspaceInv, CarriedInv

LEMMA AloneInit == Init => AloneInv
<1> SUFFICES ASSUME Init PROVE AloneInv
  OBVIOUS
<1>1. HandlersFit
  BY DEF Init, HandlersFit, Fit, HasText, Closes, CloseSteps, Idle
<1>2. RootInv
  BY DEF Init, RootInv, Unedited, Active, NoPass
<1>3. EdgesInv /\ SettledInv
  BY DEF Init, EdgesInv, SettledInv
<1> QED
  BY <1>1, <1>2, <1>3 DEF AloneInv


-----------------------------------------------------------------------------
(* What a step of one handler keeps.                                        *)

LEMMA HandlerAlone ==
  ASSUME TypeOK, NEW h \in Handlers, HandlerStep(h)
  PROVE  /\ UNCHANGED <<editor, text, timeouts>>
         /\ \A k \in Handlers \ {h} : handler'[k] = handler[k]
<1>1. CASE Record(h) \/ RecordDisk(h)
  BY <1>1 DEF Record, RecordDisk, SetHandler, TypeOK
<1>2. CASE FindImporters(h)
  BY <1>2 DEF FindImporters, SetHandler, TypeOK
<1>3. CASE CaptureRoots(h)
  BY <1>3 DEF CaptureRoots, SetHandler, TypeOK
<1>4. CASE ScheduleRoot(h)
  BY <1>4 DEF ScheduleRoot, SetHandler, TypeOK
<1>5. CASE ScheduleSelf(h)
  BY <1>5 DEF ScheduleSelf, SetHandler, TypeOK
<1>6. CASE CloseBump(h) \/ CloseDocuments(h) \/ CloseText(h) \/ CloseEdges(h)
  BY <1>6 DEF CloseBump, CloseDocuments, CloseText, CloseEdges, SetHandler, TypeOK
<1> QED
  BY <1>1, <1>2, <1>3, <1>4, <1>5, <1>6 DEF HandlerStep

\* A bump with a pass of the open text, and the documents it is not about.
LEMMA BumpStarts ==
  ASSUME TypeOK, NEW u \in Docs, NEW m \in TextModes, NEW r, BumpFor(u, NewPass(m, r))
  PROVE  /\ r = latest[u] => Started(u)
         /\ \A v \in Docs \ {u} : PassesKept(v)
<1> DEFINE new == NewPass(m, r)
<1>1. new.pc = m /\ new.rev = r
  BY DEF NewPass
<1>2. BumpFor(u, new)
  OBVIOUS
<1> HIDE DEF new
<1>3. /\ generation[u] + 1 \in Gens
      /\ \A v \in Docs : generation'[v] = IF v = u THEN generation[u] + 1 ELSE generation[v]
      /\ \A v \in Docs, k \in Gens :
            pass'[v][k] = IF v = u /\ k = generation[u] + 1 THEN new ELSE pass[v][k]
  BY <1>2, BumpAt
<1>4. pass'[u][generation'[u]] = new /\ generation'[u] \in Gens
  BY <1>3
<1>5. \A g \in Gens \ {generation'[u]} : pass'[u][g] = pass[u][g]
  BY <1>3
<1> QED
  BY <1>1, <1>3, <1>4, <1>5 DEF Started, PassesKept

\* The other handlers keep what they work for.
LEMMA FitKept ==
  ASSUME WorkspaceInv, HandlersFit, NEW h \in Handlers, Fit(h)',
         \A k \in Handlers \ {h} : handler'[k] = handler[k],
         editor' \cap Manifests = {}, editor \subseteq editor' \cup Editable,
         \A v \in Unedited : \/ latest'[v] = latest[v]
                             \/ /\ handler[h].pc = "record" /\ handler[h].doc = v
                                /\ latest[v] = 0,
         HasText(h)' => \/ HasText(h) /\ handler'[h].doc = handler[h].doc
                        \/ handler'[h].doc \in Editable \/ handler'[h].doc \notin editor
  PROVE  HandlersFit'
<1>1. TypeOK /\ ModesFit
  BY DEF WorkspaceInv, Typed
<1>2. ASSUME NEW k \in Handlers \ {h} PROVE Fit(k)'
  <2>1. Fit(k) /\ handler'[k] = handler[k]
    BY <1>2 DEF HandlersFit
  <2>2. HasText(k) => handler[k].doc \in Docs
    BY <1>1, HandlerShape DEF HasText
  <2>3. handler[k].pc = "record" => HasText(k)
    BY <1>1 DEF ModesFit, HasText
  <2>4. HasText(k) /\ handler[k].doc \notin Editable =>
           latest'[handler[k].doc] = latest[handler[k].doc]
    <3> SUFFICES ASSUME HasText(k), handler[k].doc \notin Editable
                 PROVE  latest'[handler[k].doc] = latest[handler[k].doc]
      OBVIOUS
    <3>1. handler[k].doc \in Unedited
      BY <2>2 DEF Unedited
    <3>2. ~(handler[h].pc = "record" /\ handler[h].doc = handler[k].doc)
      <4> SUFFICES ASSUME handler[h].pc = "record", handler[h].doc = handler[k].doc PROVE FALSE
        OBVIOUS
      <4>1. HasText(h)
        BY <1>1 DEF ModesFit, HasText
      <4> QED
        BY <1>2, <4>1 DEF HandlersFit
    <3> QED
      BY <3>1, <3>2
  <2>5. (HasText(k)' <=> HasText(k)) /\ (Closes(k)' <=> Closes(k))
    BY <2>1 DEF HasText, Closes
  <2>6. handler[k].pc = "schedule" =>
           \A v \in Unedited, r \in Recorded : <<v, r>> \in handler[k].todo => r = latest'[v]
    <3> SUFFICES ASSUME handler[k].pc = "schedule", NEW v \in Unedited, NEW r \in Recorded,
                        <<v, r>> \in handler[k].todo
                 PROVE  r = latest'[v]
      OBVIOUS
    <3>1. r = latest[v] /\ r # 0
      BY <2>1 DEF Fit, Recorded
    <3> QED
      BY <3>1
  <2> QED
    BY <2>1, <2>3, <2>4, <2>5, <2>6 DEF Fit
<1>3. ASSUME NEW k \in Handlers \ {h}, HasText(h)', HasText(k)',
             handler'[h].doc = handler'[k].doc, handler'[h].doc \notin Editable
      PROVE  FALSE
  <2>1. handler'[k] = handler[k] /\ HasText(k)
    BY <1>3 DEF HasText
  <2>2. handler[k].doc \in editor
    BY <1>3, <2>1 DEF HandlersFit, Fit
  <2>3. HasText(h) /\ handler[h].doc = handler[k].doc
    BY <1>3, <2>1, <2>2
  <2> QED
    BY <1>3, <2>1, <2>3 DEF HandlersFit
<1>4. ASSUME NEW j \in Handlers, NEW k \in Handlers, HasText(j)', HasText(k)',
             handler'[j].doc = handler'[k].doc, handler'[j].doc \notin Editable
      PROVE  j = k
  <2>1. CASE j = h \/ k = h
    BY <1>3, <1>4, <2>1
  <2>2. CASE j # h /\ k # h
    <3>1. handler'[j] = handler[j] /\ handler'[k] = handler[k] /\ HasText(j) /\ HasText(k)
      BY <1>4, <2>2 DEF HasText
    <3> QED
      BY <1>4, <3>1 DEF HandlersFit
  <2> QED
    BY <2>1, <2>2
<1>5. \A k \in Handlers : Fit(k)'
  BY <1>2
<1> QED
  BY <1>4, <1>5 DEF HandlersFit

\* Open documents that nothing is pending for afterwards had nothing pending before, and
\* what they depend on did not change; no pass was between its store and its edges
\* unless nothing changed at all.
LEMMA AloneKept ==
  ASSUME WorkspaceInv, AloneInv, NEW h \in Handlers,
         \A k \in Handlers \ {h} : handler'[k] = handler[k],
         UNCHANGED <<editor, text, timeouts>>,
         \A v \in Unedited : diagnosed'[v] = diagnosed[v] /\ graph'[v] = graph[v],
         \A v \in Unedited : PassesKept(v) \/ Started(v),
         \A v \in editor \ Editable :
            Owes(h, v) => Owes(h, v)' \/ Arriving(v)' \/ Started(v),
         \A v \in editor \ Editable : timeouts = 0 /\ ~Pending(v) /\ ~Owes(h, v)' =>
            /\ latest'[v] = latest[v]
            /\ \A d \in diagnosed[v].deps \cup {v} : Current(d)' = Current(d),
         RevisionsLocked => UNCHANGED <<latest, disk>>
  PROVE  EdgesInv' /\ SettledInv'
<1>1. /\ TypeOK /\ editor \subseteq Docs /\ EdgesInv /\ SettledInv
      /\ \A v \in Docs : diagnosed[v].deps \subseteq Docs
  BY DEF WorkspaceInv, Typed, TypeOK, Inputs, AloneInv
<1>2. editor \ Editable \subseteq Unedited
  BY <1>1 DEF Unedited
<1>3. EdgesInv'
  <2> SUFFICES ASSUME NEW v \in editor \ Editable, NEW g \in Gens, pass'[v][g].pc = "edges",
                      g = generation'[v]
               PROVE  diagnosed'[v] = pass'[v][g].in /\ IsCurrent(v, diagnosed[v])'
    BY DEF EdgesInv
  <2>1. v \in Unedited /\ v \in Docs /\ ~Started(v)
    BY <1>1, <1>2 DEF Started, TextModes
  <2>2. pass[v][g].pc = "edges" /\ g = generation[v] /\ pass'[v][g] = pass[v][g]
    BY <2>1 DEF PassesKept
  <2>3. RevisionsLocked
    BY <2>1, <2>2 DEF RevisionsLocked
  <2>4. \A d : Current(d)' = Current(d)
    BY <2>3 DEF Current
  <2> QED
    BY <1>1, <2>1, <2>2, <2>4, StaysCurrent DEF EdgesInv
<1>4. SettledInv'
  <2> SUFFICES ASSUME timeouts = 0, NEW v \in editor \ Editable, ~Pending(v)'
               PROVE  /\ IsCurrent(v, diagnosed[v])'
                      /\ diagnosed'[v].deps = text[latest'[v]].imports
                      /\ diagnosed'[v].deps \subseteq graph'[v] \cup Manifests
    BY DEF SettledInv
  <2>1. v \in Unedited /\ v \in Docs
    BY <1>1, <1>2
  <2>2. ~Started(v)
    BY DEF Started, Pending, PassPending, Active, TextModes
  <2>3. PassesKept(v) /\ ~Owes(h, v)' /\ ~Owes(h, v)
    <3>1. ~Arriving(v)'
      BY DEF Pending, Owes, Arriving
    <3> QED
      BY <2>1, <2>2, <3>1 DEF Pending
  <2>4. ~PassPending(v)
    BY <2>3 DEF PassesKept, Pending, PassPending, Active
  <2>5. ASSUME NEW k \in Handlers \ {h} PROVE ~Owes(k, v)
    <3>1. handler'[k] = handler[k] /\ graph'[v] = graph[v] /\ ~Owes(k, v)'
      BY <2>1, <2>5 DEF Pending
    <3> QED
      BY <3>1 DEF Owes, HasText
  <2>6. ~Pending(v)
    BY <2>3, <2>4, <2>5 DEF Pending
  <2>7. /\ latest'[v] = latest[v]
        /\ \A d \in diagnosed[v].deps \cup {v} : Current(d)' = Current(d)
    BY <2>3, <2>6
  <2> QED
    BY <1>1, <2>1, <2>6, <2>7, StaysCurrent DEF SettledInv
<1> QED
  BY <1>3, <1>4

\* What the passes of a document left alone analyse, and its edges.
LEMMA RootKept ==
  ASSUME TypeOK, RootInv, UNCHANGED <<editor, text>>,
         \A v \in Unedited : latest'[v] = latest[v] /\ graph'[v] = graph[v],
         \A v \in Unedited : ~Arriving(v)' => ~Arriving(v) \/ latest[v] # 0,
         \A v \in Unedited : PassesKept(v) \/ Started(v)
  PROVE  RootInv'
<1> SUFFICES ASSUME NEW v \in Unedited
             PROVE  /\ v \notin editor => latest'[v] = 0
                    /\ v \in editor /\ ~Arriving(v)' => latest'[v] # 0
                    /\ \A g \in Gens : Active(pass'[v][g]) => RootOf(pass'[v][g]) = latest'[v]
                    /\ graph'[v] # {} => /\ latest'[v] # 0 /\ text[latest'[v]].parsed
                                         /\ graph'[v] = text[latest'[v]].imports
  BY DEF RootInv
<1>1. ASSUME NEW g \in Gens, Active(pass'[v][g]) PROVE RootOf(pass'[v][g]) = latest'[v]
  <2>1. CASE pass'[v][g] = pass[v][g]
    BY <1>1, <2>1 DEF RootInv
  <2>2. CASE pass'[v][g] # pass[v][g]
    <3>1. pass'[v][g].pc \in TextModes /\ pass'[v][g].rev = latest[v]
      BY <2>2 DEF PassesKept, Started
    <3> QED
      BY <3>1 DEF RootOf, TextModes
  <2> QED
    BY <2>1, <2>2
<1> QED
  BY <1>1 DEF RootInv

\* Every step of a handler but Record leaves the texts of the documents left alone.
LEMMA AloneQuiet ==
  ASSUME WorkspaceInv, AloneInv, NEW h \in Handlers, HandlerStep(h), handler[h].pc # "record",
         Fit(h)', HasText(h)' => HasText(h) /\ handler'[h].doc = handler[h].doc,
         \A v \in Unedited : /\ latest'[v] = latest[v] /\ graph'[v] = graph[v]
                             /\ diagnosed'[v] = diagnosed[v],
         \A v \in Unedited : PassesKept(v) \/ Started(v),
         \A v \in editor \ Editable :
            Owes(h, v) => Owes(h, v)' \/ Arriving(v)' \/ Started(v),
         \A v \in editor \ Editable : timeouts = 0 /\ ~Pending(v) /\ ~Owes(h, v)' =>
            \A d \in diagnosed[v].deps \cup {v} : Current(d)' = Current(d),
         RevisionsLocked => UNCHANGED <<latest, disk>>
  PROVE  AloneInv'
<1>1. /\ TypeOK /\ ModesFit /\ editor \subseteq Docs /\ HandlersFit /\ RootInv
      /\ UNCHANGED <<editor, text, timeouts>>
      /\ \A k \in Handlers \ {h} : handler'[k] = handler[k]
  BY HandlerAlone DEF WorkspaceInv, Typed, TypeOK, AloneInv
<1>2. HandlersFit'
  BY <1>1, FitKept DEF HandlersFit
<1>3. ASSUME NEW v \in Unedited, ~Arriving(v)' PROVE ~Arriving(v) \/ latest[v] # 0
  <2> SUFFICES ASSUME NEW k \in Handlers, HasText(k), handler[k].doc = v PROVE latest[v] # 0
    BY DEF Arriving
  <2>1. k = h
    BY <1>1, <1>3 DEF Arriving, HasText
  <2>2. handler[h].rev = latest[v] /\ handler[h].rev \in Recorded
    BY <1>1, <2>1 DEF HandlersFit, Fit, ModesFit, Unedited
  <2> QED
    BY <2>2 DEF Recorded
<1>4. RootInv'
  BY <1>1, <1>3, RootKept
<1>5. \A v \in editor \ Editable : v \in Unedited
  BY <1>1 DEF Unedited
<1>6. EdgesInv' /\ SettledInv'
  BY <1>1, <1>5, AloneKept
<1> QED
  BY <1>2, <1>4, <1>6 DEF AloneInv

\* A handler goes on.
LEMMA AloneHandler ==
  ASSUME WorkspaceInv, AloneInv, NEW h \in Handlers, HandlerStep(h)
  PROVE  AloneInv'
<1>1. /\ TypeOK /\ ModesFit /\ editor \subseteq Docs /\ HandlersFit /\ RootInv /\ Fit(h)
      /\ UNCHANGED <<editor, text, timeouts>>
      /\ \A k \in Handlers \ {h} : handler'[k] = handler[k]
      /\ editor \cap Manifests = {}
  BY HandlerAlone DEF WorkspaceInv, Typed, TypeOK, AloneInv, HandlersFit
<1>2. \A v \in editor \ Editable : v \in Docs /\ v \in Unedited
  BY <1>1 DEF Unedited
<1>3. \A v \in Unedited : v \in Docs /\ v \notin Editable
  BY DEF Unedited
<1> DEFINE doc == handler[h].doc
\* What an open document with nothing pending depends on can be looked up.
<1>4. \A v \in editor \ Editable : timeouts = 0 /\ ~Pending(v) =>
         diagnosed[v].deps \subseteq (graph[v] \cup Manifests) \cap Docs
  BY <1>1, <1>2 DEF AloneInv, SettledInv, TypeOK, Inputs
\* One that nothing is pending for has a text.
<1>5. \A v \in editor \ Editable : ~Pending(v) => latest[v] # 0
  BY <1>2 DEF AloneInv, RootInv, Pending, Owes, Arriving
<1>6. ASSUME UNCHANGED <<generation, pass>> PROVE \A v : PassesKept(v)
  BY <1>6 DEF PassesKept
<1>7. ASSUME UNCHANGED <<latest, disk>> PROVE \A d : Current(d)' = Current(d)
  BY <1>7 DEF Current
<1>8. CASE Record(h)
  <2>1. handler[h].pc = "record" /\ HasText(h) /\ doc \in (editor \cup Editable) \ Manifests
    BY <1>1, <1>8 DEF Record, HasText, ModesFit, Fit
  <2>2. /\ handler'[h].pc = "importers" /\ handler'[h].doc = doc /\ doc \in Docs
        /\ handler'[h].rev = handler[h].rev /\ handler'[h].mode = handler[h].mode
    BY <1>1, <1>8, <2>1, HandlerGoesOn DEF Record
  <2>3. \A v \in Docs : latest'[v] = IF v = doc THEN handler[h].rev ELSE latest[v]
    BY <1>1, <1>8, <2>2 DEF Record, TypeOK
  <2>4. /\ UNCHANGED <<disk, generation, diagnosed, graph, pass>>
        /\ ~RevisionsLocked
    BY <1>8 DEF Record
  <2>5. HasText(h)' /\ handler[h].mode \in TextModes /\ handler[h].rev \in Recorded
    BY <1>1, <2>1, <2>2 DEF HasText, ModesFit
  <2>6. Fit(h)'
    BY <1>1, <2>1, <2>2, <2>3, <2>5 DEF Fit, Closes, CloseSteps, TextModes
  <2>7. doc \notin Editable => doc \in editor /\ latest[doc] = 0
    BY <1>1, <2>1 DEF Fit
  <2>8. HandlersFit'
    BY <1>1, <1>3, <2>1, <2>2, <2>3, <2>6, <2>7, FitKept
  <2>9. \A v \in Unedited : v # doc => (Arriving(v)' <=> Arriving(v))
    BY <1>1, <2>2 DEF Arriving, HasText
  <2>10. \A v : v = doc => Arriving(v)'
    BY <2>2, <2>5 DEF Arriving
  <2>11. doc \notin Editable => graph[doc] = {} /\ \A g \in Gens : ~Active(pass[doc][g])
    BY <1>1, <2>2, <2>7, ActiveRoot DEF RootInv, Unedited
  <2>12. RootInv'
    <3> SUFFICES ASSUME NEW v \in Unedited
                 PROVE  /\ v \notin editor => latest'[v] = 0
                        /\ v \in editor /\ ~Arriving(v)' => latest'[v] # 0
                        /\ \A g \in Gens : Active(pass[v][g]) => RootOf(pass[v][g]) = latest'[v]
                        /\ graph[v] # {} => /\ latest'[v] # 0 /\ text[latest'[v]].parsed
                                            /\ graph[v] = text[latest'[v]].imports
      BY <1>1, <2>4 DEF RootInv, Active, RootOf
    <3>1. CASE v = doc
      BY <1>3, <2>7, <2>10, <2>11, <3>1
    <3>2. CASE v # doc
      BY <1>1, <1>3, <2>3, <2>9, <3>2 DEF RootInv
    <3> QED
      BY <3>1, <3>2
  <2>13. ASSUME NEW v \in editor \ Editable, Owes(h, v) PROVE Owes(h, v)'
    BY <2>1, <2>2, <2>5, <2>13 DEF Owes
  <2>14. ASSUME NEW v \in editor \ Editable, timeouts = 0, ~Pending(v), ~Owes(h, v)'
         PROVE  /\ latest'[v] = latest[v]
                /\ \A d \in diagnosed[v].deps \cup {v} : Current(d)' = Current(d)
    <3>1. v # doc /\ doc \notin graph[v] \cup Manifests
      BY <2>1, <2>2, <2>4, <2>5, <2>14 DEF Owes
    <3>2. \A d \in diagnosed[v].deps \cup {v} : d # doc /\ d \in Docs
      BY <1>2, <1>4, <2>14, <3>1
    <3> QED
      BY <1>2, <2>3, <2>4, <3>1, <3>2 DEF Current
  <2>15. EdgesInv' /\ SettledInv'
    BY <1>1, <1>6, <2>4, <2>13, <2>14, AloneKept
  <2> QED
    BY <2>8, <2>12, <2>15 DEF AloneInv
<1>9. CASE RecordDisk(h)
  <2>1. handler[h].pc = "recordDisk" /\ handler[h].mode = "file"
    BY <1>1, <1>9 DEF RecordDisk, ModesFit
  <2>2. /\ handler'[h].pc = "importers" /\ handler'[h].doc = doc /\ doc \in Docs
        /\ handler'[h].mode = "file"
    BY <1>1, <1>9, <2>1, HandlerGoesOn DEF RecordDisk
  <2>3. \A v \in Docs : disk'[v] = IF v = doc THEN handler[h].rev ELSE disk[v]
    BY <1>1, <1>9, <2>2 DEF RecordDisk, TypeOK
  <2>4. /\ UNCHANGED <<latest, generation, diagnosed, graph, pass>>
        /\ ~RevisionsLocked
    BY <1>9 DEF RecordDisk
  <2>5. Fit(h)' /\ ~HasText(h)'
    BY <2>2 DEF Fit, HasText, Closes, CloseSteps, TextModes
  <2>6. ASSUME NEW v \in editor \ Editable PROVE ~Owes(h, v)
    BY <2>1 DEF Owes, HasText
  <2>7. ASSUME NEW v \in editor \ Editable, timeouts = 0, ~Pending(v), ~Owes(h, v)',
               NEW d \in diagnosed[v].deps \cup {v}
        PROVE  Current(d)' = Current(d)
    <3>1. doc \notin graph[v] \cup Manifests
      BY <2>2, <2>4, <2>7 DEF Owes
    <3>2. d \in Docs /\ (d # doc \/ latest[d] # 0)
      BY <1>2, <1>4, <1>5, <2>7, <3>1
    <3> QED
      BY <2>3, <2>4, <3>2 DEF Current
  <2> QED
    BY <1>6, <2>1, <2>4, <2>5, <2>6, <2>7, AloneQuiet
<1>10. CASE FindImporters(h)
  <2>1. handler'[h] = [pc |-> "capture", doc |-> doc, rev |-> handler[h].rev,
                       mode |-> handler[h].mode, todo |-> Affected(doc, handler[h].mode)]
    BY <1>1, <1>10, SetHandlerAt DEF FindImporters
  <2>2. /\ handler'[h].pc = "capture" /\ handler'[h].doc = doc
        /\ handler'[h].rev = handler[h].rev /\ handler'[h].mode = handler[h].mode
        /\ handler'[h].todo = Affected(doc, handler[h].mode)
    BY <2>1
  <2>3. /\ handler[h].pc = "importers" /\ doc \in Docs /\ handler[h].mode \in Modes
        /\ UNCHANGED <<latest, disk, generation, diagnosed, graph, pass>>
    BY <1>1, <1>10, HandlerShape DEF FindImporters
  <2>4. (HasText(h)' <=> HasText(h)) /\ (Closes(h)' <=> Closes(h))
    BY <2>2, <2>3 DEF HasText, Closes, CloseSteps
  <2>5. Fit(h)'
    BY <1>1, <2>2, <2>3, <2>4 DEF Fit
  <2>6. ASSUME NEW v \in editor \ Editable, Owes(h, v), ~Owes(h, v)', ~Arriving(v)'
        PROVE  FALSE
    <3> ~Arriving(v)
      BY <1>1, <2>2, <2>4, <2>6 DEF Arriving, HasText
    <3>1. ~HasText(h) \/ doc # v
      BY <2>2, <2>4, <2>6 DEF Owes
    <3>2. doc \in graph[v] \cup Manifests
      BY <2>3, <2>6, <3>1 DEF Owes
    <3>3. v \notin Affected(doc, handler[h].mode)
      BY <2>2, <2>6 DEF Owes
    <3>4. CASE handler[h].mode # "file"
      <4>1. HasText(h) \/ Closes(h)
        BY <2>3, <3>4 DEF HasText, Closes, Modes, TextModes
      <4>2. doc \notin Manifests /\ v # doc
        BY <1>1, <2>6, <3>1, <4>1 DEF Fit
      <4>3. v \in TransitiveImporters(doc)
        BY <1>2, <2>6, <3>2, <4>2 DEF TransitiveImporters
      <4> QED
        BY <3>3, <3>4, <4>2, <4>3 DEF Affected
    <3>5. CASE handler[h].mode = "file" /\ doc \notin Manifests
      <4>1. v \in TransitiveImporters(doc)
        BY <1>2, <2>6, <3>2, <3>5 DEF TransitiveImporters
      <4> QED
        BY <3>3, <3>5, <4>1 DEF Affected
\* A document whose text is still to come will be analysed with it.
    <3>6. CASE handler[h].mode = "file" /\ doc \in Manifests
      <4>1. latest[v] # 0
        BY <1>1, <1>2, <2>6 DEF RootInv
      <4> QED
        BY <1>2, <3>3, <3>6, <4>1 DEF Affected
    <3> QED
      BY <3>4, <3>5, <3>6
  <2> QED
    BY <1>6, <1>7, <2>2, <2>3, <2>4, <2>5, <2>6, AloneQuiet
<1>11. CASE CaptureRoots(h)
  <2>1. /\ handler'[h].pc = "schedule" /\ handler'[h].doc = doc
        /\ handler'[h].rev = handler[h].rev /\ handler'[h].mode = handler[h].mode
        /\ handler'[h].todo = {<<v, latest[v]>> : v \in {w \in handler[h].todo : latest[w] # 0}}
    BY <1>1, <1>11, CaptureRootsEffect
  <2>2. /\ handler[h].pc = "capture"
        /\ UNCHANGED <<latest, disk, generation, diagnosed, graph, pass>>
    BY <1>11 DEF CaptureRoots
  <2>3. (HasText(h)' <=> HasText(h)) /\ (Closes(h)' <=> Closes(h))
    BY <2>1, <2>2 DEF HasText, Closes, CloseSteps
  <2>4. \A v, r : <<v, r>> \in handler'[h].todo => r = latest[v]
    BY <2>1
  <2>5. Fit(h)'
    BY <1>1, <2>1, <2>2, <2>3, <2>4 DEF Fit
  <2>6. ASSUME NEW v \in editor \ Editable, Owes(h, v), ~Owes(h, v)', ~Arriving(v)'
        PROVE  FALSE
    <3>1. ~Arriving(v)
      BY <1>1, <2>1, <2>3, <2>6 DEF Arriving, HasText
    <3>2. v \in handler[h].todo
      BY <2>2, <2>6, <3>1 DEF Owes, Arriving
    <3>3. latest[v] # 0 /\ latest[v] \in Recorded
      BY <1>1, <1>2, <2>6, <3>1, LatestHandedOut DEF RootInv
    <3>4. <<v, latest[v]>> \in handler'[h].todo
      BY <2>1, <3>2, <3>3
    <3> QED
      BY <2>1, <2>6, <3>3, <3>4 DEF Owes
  <2> QED
    BY <1>6, <1>7, <2>1, <2>2, <2>3, <2>5, <2>6, AloneQuiet
<1>12. CASE ScheduleRoot(h)
  <2>1. PICK v \in Docs, r \in Recorded :
            /\ <<v, r>> \in handler[h].todo
            /\ BumpFor(v, NewPass("debouncing", r))
            /\ handler'[h].pc = "schedule" /\ handler'[h].doc = doc
            /\ handler'[h].rev = handler[h].rev /\ handler'[h].mode = handler[h].mode
            /\ handler'[h].todo = handler[h].todo \ {<<v, r>>}
    BY <1>1, <1>12, ScheduleRootEffect
  <2>2. handler[h].pc = "schedule" /\ UNCHANGED <<latest, disk, diagnosed, graph>>
    BY <1>12 DEF ScheduleRoot
  <2>3. v \in Unedited => r = latest[v]
    BY <1>1, <2>1, <2>2 DEF Fit
  <2>4. (v \in Unedited => Started(v)) /\ \A w \in Docs \ {v} : PassesKept(w)
    BY <1>1, <2>1, <2>3, BumpStarts DEF TextModes
  <2>5. \A w \in Unedited : PassesKept(w) \/ Started(w)
    BY <1>3, <2>4
  <2>6. (HasText(h)' <=> HasText(h)) /\ (Closes(h)' <=> Closes(h))
    BY <2>1, <2>2 DEF HasText, Closes, CloseSteps
  <2>7. Fit(h)'
    BY <1>1, <2>1, <2>2, <2>6 DEF Fit
  <2>8. ASSUME NEW w \in editor \ Editable, Owes(h, w), ~Started(w) PROVE Owes(h, w)'
    <3>1. w # v
      BY <1>2, <2>4, <2>8
    <3>2. \A s : <<w, s>> # <<v, r>>
      BY <3>1
    <3> QED
      BY <2>1, <2>2, <2>6, <2>8, <3>2 DEF Owes
  <2> QED
    BY <1>7, <2>1, <2>2, <2>5, <2>6, <2>7, <2>8, AloneQuiet
<1>13. CASE ScheduleSelf(h)
  <2>1. handler'[h] = Idle /\ handler'[h].pc = "idle"
    BY <1>1, <1>13, SetHandlerAt DEF ScheduleSelf, Idle
  <2>2. /\ handler[h].pc = "schedule" /\ handler[h].todo = {}
        /\ UNCHANGED <<latest, disk, diagnosed, graph>>
        /\ doc \in Docs /\ handler[h].mode \in Modes
    BY <1>1, <1>13, HandlerShape DEF ScheduleSelf
  <2>3. Fit(h)' /\ ~HasText(h)'
    BY <2>1 DEF Fit, HasText, Closes, CloseSteps
  <2>4. \A v : Owes(h, v) => HasText(h) /\ v = doc
    BY <2>2 DEF Owes
  <2>5. CASE handler[h].mode \in {"close", "file"}
    <3>1. UNCHANGED <<generation, pass>> /\ ~HasText(h)
      BY <1>13, <2>5 DEF ScheduleSelf, HasText, TextModes
    <3> QED
      BY <1>6, <1>7, <2>2, <2>3, <2>4, <3>1, AloneQuiet
  <2>6. CASE handler[h].mode \in TextModes
    <3>1. BumpFor(doc, NewPass(handler[h].mode, handler[h].rev))
      BY <1>13, <2>6 DEF ScheduleSelf, TextModes
    <3>2. doc \notin Editable => handler[h].rev = latest[doc]
      BY <1>1, <2>2, <2>6 DEF Fit, HasText
    <3>3. (doc \notin Editable => Started(doc)) /\ \A v \in Docs \ {doc} : PassesKept(v)
      BY <1>1, <2>2, <2>6, <3>1, <3>2, BumpStarts
    <3>4. \A v \in Unedited : PassesKept(v) \/ Started(v)
      BY <1>3, <3>3
    <3>5. \A v \in editor \ Editable : Owes(h, v) => Started(v)
      BY <2>4, <3>3
    <3> QED
      BY <1>7, <2>2, <2>3, <3>4, <3>5, AloneQuiet
  <2> QED
    BY <2>2, <2>5, <2>6 DEF Modes, TextModes
\* A close touches a document that the client may edit.
<1>14. ASSUME handler[h].pc \in CloseSteps
       PROVE  /\ doc \in Editable \ Manifests /\ doc \in Docs /\ ~HasText(h)
              /\ \A v \in Unedited : v # doc
              /\ handler[h].pc # "closeEdges" => \A v : ~Owes(h, v)
  BY <1>1, <1>3, <1>14, HandlerShape DEF Fit, Closes, CloseSteps, HasText, Owes
<1>15. CASE CloseBump(h)
  <2>1. handler[h].pc = "closeBump" /\ UNCHANGED <<latest, disk, diagnosed, graph>>
    BY <1>15 DEF CloseBump
  <2>2. /\ doc \in Editable \ Manifests /\ doc \in Docs /\ \A v : ~Owes(h, v)
        /\ \A v \in Unedited : v # doc
    BY <1>14, <2>1 DEF CloseSteps
  <2>3. handler'[h].pc = "closeDocuments" /\ handler'[h].doc = doc
    BY <1>1, <1>15, <2>1, HandlerGoesOn DEF CloseBump
  <2>4. \A v \in Unedited : PassesKept(v)
    BY <1>1, <1>3, <1>15, <2>2, BumpAt DEF CloseBump, PassesKept
  <2>5. Fit(h)' /\ ~HasText(h)'
    BY <2>2, <2>3 DEF Fit, HasText, Closes, CloseSteps
  <2> QED
    BY <1>7, <2>1, <2>2, <2>4, <2>5, AloneQuiet
<1>16. CASE CloseDocuments(h)
  <2>1. handler[h].pc = "closeDocuments" /\ UNCHANGED <<latest, disk, generation, graph, pass>>
    BY <1>16 DEF CloseDocuments
  <2>2. /\ doc \in Editable \ Manifests /\ doc \in Docs /\ \A v : ~Owes(h, v)
        /\ \A v \in Unedited : v # doc
    BY <1>14, <2>1 DEF CloseSteps
  <2>3. handler'[h].pc = "closeText" /\ handler'[h].doc = doc
    BY <1>1, <1>16, <2>1, HandlerGoesOn DEF CloseDocuments
  <2>4. \A v \in Unedited : diagnosed'[v] = diagnosed[v]
    BY <1>1, <1>3, <1>16, <2>2 DEF CloseDocuments, TypeOK
  <2>5. Fit(h)' /\ ~HasText(h)'
    BY <2>2, <2>3 DEF Fit, HasText, Closes, CloseSteps
  <2> QED
    BY <1>6, <1>7, <2>1, <2>2, <2>4, <2>5, AloneQuiet
<1>17. CASE CloseText(h)
  <2>1. /\ handler[h].pc = "closeText" /\ ~RevisionsLocked
        /\ UNCHANGED <<disk, generation, diagnosed, graph, pass>>
    BY <1>17 DEF CloseText
  <2>2. /\ doc \in Editable \ Manifests /\ doc \in Docs /\ \A v : ~Owes(h, v)
        /\ \A v \in Unedited : v # doc
    BY <1>14, <2>1 DEF CloseSteps
  <2>3. handler'[h].pc = "closeEdges" /\ handler'[h].doc = doc
    BY <1>1, <1>17, <2>1, HandlerGoesOn DEF CloseText
  <2>4. \A w \in Docs : latest'[w] = IF w = doc THEN 0 ELSE latest[w]
    BY <1>1, <1>17, <2>2 DEF CloseText, TypeOK
  <2>5. Fit(h)' /\ ~HasText(h)'
    BY <2>2, <2>3 DEF Fit, HasText, Closes, CloseSteps
  <2>6. ASSUME NEW v \in editor \ Editable, timeouts = 0, ~Pending(v), ~Owes(h, v)',
               NEW d \in diagnosed[v].deps \cup {v}
        PROVE  Current(d)' = Current(d)
    <3>1. doc \notin graph[v]
      BY <2>1, <2>3, <2>6 DEF Owes
    <3>2. d # doc /\ d \in Docs
      BY <1>2, <1>4, <2>2, <2>6, <3>1
    <3> QED
      BY <2>1, <2>4, <3>2 DEF Current
  <2>7. \A v \in Unedited : latest'[v] = latest[v]
    BY <1>3, <2>2, <2>4
  <2> QED
    BY <1>6, <2>1, <2>2, <2>5, <2>6, <2>7, AloneQuiet
<1>18. CASE CloseEdges(h)
  <2>1. handler[h].pc = "closeEdges" /\ UNCHANGED <<latest, disk, generation, diagnosed, pass>>
    BY <1>18 DEF CloseEdges
  <2>2. /\ doc \in Editable \ Manifests /\ doc \in Docs /\ ~HasText(h)
        /\ \A v \in Unedited : v # doc
    BY <1>14, <2>1 DEF CloseSteps
  <2>3. handler'[h] = [pc |-> "importers", doc |-> doc, rev |-> 0, mode |-> "close"]
    BY <1>1, <1>18, SetHandlerAt DEF CloseEdges
  <2>4. handler'[h].pc = "importers" /\ handler'[h].doc = doc /\ handler'[h].mode = "close"
    BY <2>3
  <2>5. \A v \in Unedited : graph'[v] = graph[v]
    BY <1>1, <1>3, <1>18, <2>2 DEF CloseEdges, TypeOK
  <2>6. Fit(h)' /\ ~HasText(h)'
    BY <2>2, <2>4 DEF Fit, HasText, Closes, CloseSteps, TextModes
  <2>7. ASSUME NEW v \in editor \ Editable, Owes(h, v) PROVE Owes(h, v)'
    BY <1>2, <2>1, <2>2, <2>4, <2>5, <2>7 DEF Owes
  <2> QED
    BY <1>6, <1>7, <2>1, <2>2, <2>5, <2>6, <2>7, AloneQuiet
<1> QED
  BY <1>8, <1>9, <1>10, <1>11, <1>12, <1>13, <1>15, <1>16, <1>17, <1>18 DEF HandlerStep

-----------------------------------------------------------------------------
(* A notification, and the passes.                                          *)

\* A notification arrives at an idle handler: only an edited document is touched, or one
\* that is opened now.
LEMMA AloneClient ==
  ASSUME WorkspaceInv, AloneInv, NEW h \in Handlers, NEW u \in Docs, ClientStep(h, u)
  PROVE  AloneInv'
<1>1. /\ TypeOK /\ editor \subseteq Docs /\ HandlersFit /\ RootInv /\ EdgesInv /\ SettledInv
      /\ editor \cap Manifests = {}
  BY DEF WorkspaceInv, Typed, TypeOK, AloneInv, HandlersFit
<1>2. handler[h].pc = "idle"
  BY DEF ClientStep, DidOpen, DidChange, DidSave, Arrive, DidClose, DidChangeWatchedFile, Idle
<1>3. ~HasText(h) /\ \A v : ~Owes(h, v)
  BY <1>2 DEF Owes, HasText
<1>4. UNCHANGED <<latest, disk, diagnosed, generation, graph, pass, timeouts>>
  BY DEF ClientStep, DidOpen, DidChange, DidSave, Arrive, DidClose, DidChangeWatchedFile
<1>5. \A v : Current(v)' = Current(v)
  BY <1>4 DEF Current
<1>6. \A v \in Docs : latest[v] # 0 => text'[latest[v]] = text[latest[v]]
  <2>1. ASSUME NEW mode \in TextModes, Arrive(h, u, mode)
        PROVE  \A r \in Recorded : r <= clock => text'[r] = text[r]
    BY <2>1, ArriveCarries DEF WorkspaceInv
  <2>2. \/ \E mode \in TextModes : Arrive(h, u, mode)
        \/ text' = text
    BY DEF ClientStep, DidOpen, DidChange, DidSave, DidClose, DidChangeWatchedFile, TextModes
  <2> QED
    BY <2>1, <2>2, LatestHandedOut
<1>7. \A k \in Handlers \ {h} : handler'[k] = handler[k]
  BY <1>1 DEF ClientStep, DidOpen, DidChange, DidSave, Arrive, DidClose, DidChangeWatchedFile,
              SetHandler, TypeOK
\* The one document the step can touch.
<1>8. /\ Fit(h)' /\ editor' \cap Manifests = {} /\ editor \subseteq editor' \cup Editable
      /\ HasText(h)' => handler'[h].doc \in Editable \/ handler'[h].doc \notin editor
      /\ \A v \in editor' \ Editable : v \in editor \/ (HasText(h)' /\ handler'[h].doc = v)
  <2>1. ASSUME NEW mode \in TextModes, Arrive(h, u, mode), u \in editor' \ Manifests,
               u \notin Editable => latest[u] = 0
        PROVE  Fit(h)' /\ HasText(h)' /\ handler'[h].doc = u
    <3>1. handler'[h] = [pc |-> "record", doc |-> u, rev |-> clock + 1, mode |-> mode]
      BY <1>1, <2>1, SetHandlerAt DEF Arrive
    <3>2. handler'[h].pc = "record" /\ handler'[h].doc = u /\ handler'[h].mode = mode
      BY <3>1
    <3> QED
      BY <1>4, <2>1, <3>2 DEF Fit, HasText, Closes, CloseSteps
  <2>2. CASE DidOpen(h, u)
    <3>1. u \notin editor \cup Manifests /\ editor' = editor \cup {u} /\ Arrive(h, u, "ready")
      BY <2>2 DEF DidOpen
    <3>2. u \notin Editable => latest[u] = 0
      BY <1>1, <3>1 DEF RootInv, Unedited
    <3>3. Fit(h)' /\ HasText(h)' /\ handler'[h].doc = u
      BY <2>1, <3>1, <3>2 DEF TextModes
    <3> QED
      BY <1>1, <3>1, <3>3
  <2>3. CASE DidChange(h, u) \/ DidSave(h, u)
    <3>1. /\ u \in editor /\ u \in Editable /\ editor' = editor
          /\ \E mode \in TextModes : Arrive(h, u, mode)
      BY <2>3 DEF DidChange, DidSave, TextModes
    <3>2. Fit(h)' /\ HasText(h)' /\ handler'[h].doc = u
      BY <1>1, <2>1, <3>1
    <3> QED
      BY <1>1, <3>1, <3>2
  <2>4. CASE DidClose(h, u)
    <3>1. handler'[h] = [pc |-> "closeBump", doc |-> u] /\ editor' = editor \ {u}
          /\ u \in editor /\ u \in Editable
      BY <1>1, <2>4, SetHandlerAt DEF DidClose
    <3>2. handler'[h].pc = "closeBump" /\ handler'[h].doc = u
      BY <3>1
    <3>3. Fit(h)' /\ ~HasText(h)'
      BY <1>1, <3>1, <3>2 DEF Fit, HasText, Closes, CloseSteps
    <3> QED
      BY <1>1, <3>1, <3>3
  <2>5. CASE DidChangeWatchedFile(h, u)
    <3>1. handler'[h] = [pc |-> "recordDisk", doc |-> u, rev |-> clock + 1, mode |-> "file"]
      BY <1>1, <2>5, SetHandlerAt DEF DidChangeWatchedFile
    <3>2. handler'[h].pc = "recordDisk" /\ editor' = editor
      BY <2>5, <3>1 DEF DidChangeWatchedFile
    <3>3. Fit(h)' /\ ~HasText(h)'
      BY <3>2 DEF Fit, HasText, Closes, CloseSteps
    <3> QED
      BY <1>1, <3>2, <3>3
  <2> QED
    BY <2>2, <2>3, <2>4, <2>5 DEF ClientStep
<1>9. HandlersFit'
  BY <1>1, <1>4, <1>7, <1>8, FitKept
<1>10. \A v \in editor' \ Editable : v \in editor \/ Arriving(v)'
  BY <1>8 DEF Arriving
<1>11. \A v : Arriving(v) => Arriving(v)'
  BY <1>3, <1>7 DEF Arriving, HasText
<1>12. RootInv'
  <2> SUFFICES ASSUME NEW v \in Unedited
               PROVE  /\ v \notin editor' => latest[v] = 0
                      /\ v \in editor' /\ ~Arriving(v)' => latest[v] # 0
                      /\ \A g \in Gens : Active(pass[v][g]) => RootOf(pass[v][g]) = latest[v]
                      /\ graph[v] # {} => /\ latest[v] # 0 /\ text'[latest[v]].parsed
                                          /\ graph[v] = text'[latest[v]].imports
    BY <1>4 DEF RootInv, Active, RootOf
  <2>1. v \in Docs /\ v \notin Editable
    BY DEF Unedited
  <2> QED
    BY <1>1, <1>6, <1>8, <1>10, <1>11, <2>1 DEF RootInv
<1>13. EdgesInv'
  <2> SUFFICES ASSUME NEW v \in editor' \ Editable, NEW g \in Gens, pass[v][g].pc = "edges",
                      g = generation[v]
               PROVE  diagnosed[v] = pass[v][g].in /\ IsCurrent(v, diagnosed[v])'
    BY <1>4 DEF EdgesInv
  <2>1. v \in Docs /\ v \in Unedited
    BY TypedClient DEF WorkspaceInv, Typed, TypeOK, Unedited
  <2>2. v \in editor
    <3>1. Active(pass[v][g])
      BY DEF Active
    <3> QED
      BY <1>1, <2>1, <3>1, ActiveRoot DEF RootInv
  <2>3. diagnosed[v].deps \subseteq Docs
    BY <1>1, <2>1 DEF TypeOK, Inputs
  <2> QED
    BY <1>1, <1>4, <1>5, <2>1, <2>2, <2>3, StaysCurrent DEF EdgesInv
<1>14. SettledInv'
  <2> SUFFICES ASSUME timeouts = 0, NEW v \in editor' \ Editable, ~Pending(v)'
               PROVE  /\ IsCurrent(v, diagnosed[v])'
                      /\ diagnosed[v].deps = text'[latest[v]].imports
                      /\ diagnosed[v].deps \subseteq graph[v] \cup Manifests
    BY <1>4 DEF SettledInv
  <2>1. ~Arriving(v)'
    BY DEF Pending, Owes, Arriving
  <2>2. v \in editor /\ v \in Docs /\ v \in Unedited /\ ~Arriving(v)
    BY <1>1, <1>10, <1>11, <2>1 DEF Unedited
  <2>3. ASSUME NEW k \in Handlers PROVE ~Owes(k, v)
    <3>1. CASE k = h
      BY <1>3, <3>1
    <3>2. CASE k # h
      <4>1. handler'[k] = handler[k] /\ ~Owes(k, v)'
        BY <1>7, <3>2 DEF Pending
      <4> QED
        BY <1>4, <4>1 DEF Owes, HasText
    <3> QED
      BY <3>1, <3>2
  <2>4. ~Pending(v)
    BY <1>4, <2>3 DEF Pending, PassPending, Active
  <2>5. latest[v] # 0
    BY <1>1, <2>2 DEF RootInv
  <2>6. diagnosed[v].deps \subseteq Docs
    BY <1>1, <2>2 DEF TypeOK, Inputs
  <2> QED
    BY <1>1, <1>4, <1>5, <1>6, <2>2, <2>4, <2>5, <2>6, StaysCurrent DEF SettledInv
<1> QED
  BY <1>9, <1>12, <1>13, <1>14 DEF AloneInv

\* The edges a pass publishes are those of the text that was opened: nothing is lost.
LEMMA EdgesGrow ==
  ASSUME WorkspaceInv, RootInv, NEW u \in Unedited, NEW g \in Gens,
         pass[u][g].pc \in {"computed", "edges"}, pass[u][g].parsed,
         graph' = [graph EXCEPT ![u] = pass[u][g].in.deps], UNCHANGED <<latest, text>>
  PROVE  /\ graph[u] \subseteq graph'[u]
         /\ graph'[u] # {} => /\ latest[u] # 0 /\ text[latest[u]].parsed
                              /\ graph'[u] = text[latest[u]].imports
<1> DEFINE in == pass[u][g].in
<1>1. u \in Docs /\ graph'[u] = in.deps
  BY DEF WorkspaceInv, Typed, TypeOK, Unedited
<1>2. in.root \in Recorded /\ in.deps = text[in.root].imports /\ text[in.root].parsed
  BY <1>1, ComputedInputs
<1>3. in.root = latest[u]
  BY DEF RootInv, Active, RootOf
<1> QED
  BY <1>1, <1>2, <1>3 DEF RootInv, Recorded

\* A pass moves on.
LEMMA AlonePass ==
  ASSUME WorkspaceInv, AloneInv, NEW u \in Docs, NEW g \in Gens, PassStep(u, g)
  PROVE  AloneInv'
<1>1. /\ TypeOK /\ editor \subseteq Docs /\ HandlersFit /\ RootInv /\ EdgesInv /\ SettledInv
      /\ \A v \in Docs : diagnosed[v].deps \subseteq Docs
  BY DEF WorkspaceInv, Typed, TypeOK, AloneInv, Inputs
<1>2. UNCHANGED <<editor, text, latest, disk, handler, timeouts>>
  BY DEF PassStep, Debounce, Begin, Compute, Cancelled, FoundStale, Retry, Store, PublishEdges
<1>3. HandlersFit' /\ \A v : Arriving(v)' <=> Arriving(v)
  BY <1>1, <1>2 DEF HandlersFit, Fit, HasText, Closes, Arriving
<1>4. \A d : Current(d)' = Current(d)
  BY <1>2 DEF Current
<1>5. \A v \in editor \ Editable : v \in Docs /\ v \in Unedited
  BY <1>1 DEF Unedited
<1>6. \A v \in Unedited : v \in Docs
  BY DEF Unedited
<1> DEFINE p == pass[u][g]
           q == pass'[u][g]
\* Only a computed pass and one at its edges touch the graph, and they add to it.
<1>7. /\ \A v \in Unedited : graph[v] \subseteq graph'[v]
      /\ \A v \in Unedited : graph'[v] # {} =>
            /\ latest[v] # 0
            /\ text[latest[v]].parsed /\ graph'[v] = text[latest[v]].imports
  <2>1. CASE graph' = graph
    BY <1>1, <2>1 DEF RootInv
  <2>2. CASE graph' # graph
    <3>1. /\ p.pc \in {"computed", "edges"} /\ p.parsed
          /\ graph' = [graph EXCEPT ![u] = p.in.deps]
      BY <2>2 DEF PassStep, Debounce, Begin, Compute, Cancelled, FoundStale, Retry, Store,
                  PublishEdges
    <3>2. \A v \in Docs \ {u} : graph'[v] = graph[v]
      BY <1>1, <3>1 DEF TypeOK
    <3>3. u \in Unedited =>
             /\ graph[u] \subseteq graph'[u]
             /\ graph'[u] # {} => /\ latest[u] # 0 /\ text[latest[u]].parsed
                                  /\ graph'[u] = text[latest[u]].imports
      BY <1>1, <1>2, <3>1, EdgesGrow
    <3> QED
      BY <1>1, <1>6, <3>2, <3>3 DEF RootInv
  <2> QED
    BY <2>1, <2>2
\* More edges only let a handler find more importers.
<1>8. ASSUME NEW v \in editor \ Editable, ~Pending(v)'
      PROVE  /\ \A h \in Handlers : ~Owes(h, v)
             /\ ~Arriving(v)
  <2>1. ASSUME NEW h \in Handlers PROVE ~Owes(h, v)
    <3>1. ~Owes(h, v)'
      BY <1>8 DEF Pending
    <3> QED
      BY <1>2, <1>5, <1>7, <3>1 DEF Owes, HasText
  <2> QED
    BY <2>1 DEF Owes, Arriving
<1>9. CASE Retry(u, g)
  <2> DEFINE new == NewPass("ready", p.rev)
  <2>1. /\ generation[u] + 1 \in Gens
        /\ \A v \in Docs : generation'[v] = IF v = u THEN generation[u] + 1 ELSE generation[v]
        /\ \A v \in Docs, k \in Gens :
              pass'[v][k] = IF v = u /\ k = generation[u] + 1 THEN new
                            ELSE IF v = u /\ k = g THEN Ended ELSE pass[v][k]
    BY <1>1, <1>9, RetryEffect
  <2>2. p.pc = "retry" /\ UNCHANGED <<diagnosed, graph>>
    BY <1>9 DEF Retry
  <2>3. u \in Unedited => p.rev = latest[u]
    BY <1>1, <2>2 DEF RootInv, Active, RootOf
  <2>4. /\ new.pc = "ready" /\ Active(new) /\ RootOf(new) = p.rev
        /\ Ended.pc = "done" /\ ~Active(Ended)
    BY DEF NewPass, Active, RootOf, Ended
  <2> HIDE DEF new
  <2>5. RootInv'
    BY <1>1, <1>2, <1>3, <1>6, <2>1, <2>2, <2>3, <2>4 DEF RootInv
  <2>6. \A v : v = u => PassPending(v)'
    BY <2>1, <2>4 DEF PassPending
  <2>7. EdgesInv'
    <3> SUFFICES ASSUME NEW v \in editor \ Editable, NEW k \in Gens, pass'[v][k].pc = "edges",
                        k = generation'[v]
                 PROVE  diagnosed[v] = pass'[v][k].in /\ IsCurrent(v, diagnosed[v])'
      BY <1>2, <2>2 DEF EdgesInv
    <3>1. v # u /\ v \in Docs
      BY <1>5, <2>1, <2>4
    <3>2. pass'[v][k] = pass[v][k] /\ generation'[v] = generation[v]
      BY <2>1, <3>1
    <3> QED
      BY <1>1, <1>4, <2>2, <3>1, <3>2, StaysCurrent DEF EdgesInv
  <2>8. SettledInv'
    <3> SUFFICES ASSUME timeouts = 0, NEW v \in editor \ Editable, ~Pending(v)'
                 PROVE  /\ IsCurrent(v, diagnosed[v])'
                        /\ diagnosed[v].deps = text[latest[v]].imports
                        /\ diagnosed[v].deps \subseteq graph[v] \cup Manifests
      BY <1>2, <2>2 DEF SettledInv
    <3>1. v # u /\ v \in Docs
      BY <1>5, <2>6 DEF Pending
    <3>2. ~PassPending(v)
      BY <2>1, <3>1 DEF Pending, PassPending
    <3>3. ~Pending(v)
      BY <1>8, <3>2 DEF Pending
    <3> QED
      BY <1>1, <1>4, <2>2, <3>1, <3>3, StaysCurrent DEF SettledInv
  <2> QED
    BY <1>3, <2>5, <2>7, <2>8 DEF AloneInv
<1>10. CASE ~Retry(u, g)
  <2>1. /\ \A v \in Docs, k \in Gens : ~(v = u /\ k = g) => pass'[v][k] = pass[v][k]
        /\ generation' = generation
        /\ Active(p)
        /\ q.pc = "retry" => FoundStale(u, g) /\ q = NewPass("retry", latest[u])
        /\ Active(q) /\ q.pc # "retry" => RootOf(q) = RootOf(p)
        /\ q.pc = "edges" \/ documents' # documents \/ diagnosed' # diagnosed =>
              Store(u, g) /\ generation[u] = g
    BY <1>1, <1>10, PassMoves
  <2>2. q.pc = "retry" => RootOf(q) = latest[u]
    BY <2>1 DEF NewPass, RootOf
  <2>3. RootInv'
    BY <1>1, <1>2, <1>3, <1>6, <1>7, <2>1, <2>2 DEF RootInv
  <2>4. \A v \in Docs : v # u => diagnosed'[v] = diagnosed[v]
    <3>1. CASE diagnosed' = diagnosed
      BY <3>1
    <3>2. CASE diagnosed' # diagnosed
      BY <1>1, <2>1, <3>2 DEF Store, TypeOK
    <3> QED
      BY <3>1, <3>2
\* A pass that stores is current, and holds the revision guards.
  <2>5. EdgesInv'
    <3> SUFFICES ASSUME NEW v \in editor \ Editable, NEW k \in Gens, pass'[v][k].pc = "edges",
                        k = generation[v]
                 PROVE  diagnosed'[v] = pass'[v][k].in /\ IsCurrent(v, diagnosed[v])'
      BY <1>2, <2>1 DEF EdgesInv
    <3>1. CASE v = u /\ k = g
      <4>1. Store(u, g) /\ generation[u] = g
        BY <2>1, <3>1
      <4>2. q.in = p.in /\ diagnosed'[u] = p.in
        <5>1. q = [pc |-> "edges", parsed |-> p.parsed, in |-> p.in]
          BY <1>1, <4>1, StoreEffect
        <5>2. diagnosed'[u] = p.in
          BY <1>1, <4>1 DEF Store, TypeOK
        <5> QED
          BY <5>1, <5>2
      <4>3. IsCurrent(u, p.in)
        BY <4>1 DEF Store
      <4> QED
        BY <1>4, <3>1, <4>2, <4>3 DEF IsCurrent, DependencyChanged, RootIsCurrent
    <3>2. CASE ~(v = u /\ k = g)
      <4>1. pass'[v][k] = pass[v][k] /\ v \in Docs
        BY <1>5, <2>1, <3>2
      <4>2. diagnosed'[v] = diagnosed[v]
        <5>1. CASE diagnosed' = diagnosed
          BY <5>1
        <5>2. CASE diagnosed' # diagnosed
          BY <2>1, <2>4, <3>2, <4>1, <5>2
        <5> QED
          BY <5>1, <5>2
      <4> QED
        BY <1>1, <1>4, <4>1, <4>2, StaysCurrent DEF EdgesInv
    <3> QED
      BY <3>1, <3>2
  <2>6. SettledInv'
    <3> SUFFICES ASSUME timeouts = 0, NEW v \in editor \ Editable, ~Pending(v)'
                 PROVE  /\ IsCurrent(v, diagnosed[v])'
                        /\ diagnosed'[v].deps = text[latest[v]].imports
                        /\ diagnosed'[v].deps \subseteq graph'[v] \cup Manifests
      BY <1>2 DEF SettledInv
    <3>1. v \in Docs /\ v \in Unedited /\ ~Arriving(v) /\ \A h \in Handlers : ~Owes(h, v)
      BY <1>5, <1>8
    <3>2. CASE ~PassPending(v)
      <4>1. ~Pending(v)
        BY <3>1, <3>2 DEF Pending
      <4>2. diagnosed'[v] = diagnosed[v]
        <5>1. CASE diagnosed' = diagnosed
          BY <5>1
        <5>2. CASE diagnosed' # diagnosed
          BY <2>1, <2>4, <3>1, <3>2, <5>2 DEF PassPending
        <5> QED
          BY <5>1, <5>2
      <4> QED
        BY <1>1, <1>4, <1>7, <3>1, <4>1, <4>2, StaysCurrent DEF SettledInv
\* The pass of v's generation ends in this step.
    <3>3. CASE PassPending(v)
      <4>1. v = u /\ g = generation[u] /\ ~Active(q)
        BY <2>1, <3>1, <3>3 DEF Pending, PassPending, Active
      <4>2. RootOf(p) = latest[u] /\ latest[u] # 0
        BY <1>1, <2>1, <3>1, <4>1 DEF RootInv
      <4>3. CASE PublishEdges(u, g)
        <5>1. p.pc = "edges" /\ diagnosed' = diagnosed
          BY <4>3 DEF PublishEdges
        <5>2. diagnosed[u] = p.in /\ IsCurrent(u, diagnosed[u])
          BY <1>1, <4>1, <5>1 DEF EdgesInv
        <5>3. p.in.root = latest[u]
          BY <4>2, <5>1 DEF RootOf
        <5>4. p.in.deps = text[latest[u]].imports /\ (~p.parsed => p.in.deps \subseteq Manifests)
          BY <5>1, <5>3, ComputedInputs
        <5>5. p.parsed => graph'[u] = p.in.deps
          BY <1>1, <4>3 DEF PublishEdges, TypeOK
        <5>6. IsCurrent(u, diagnosed[u])'
          BY <1>4, <5>1, <5>2, StaysCurrent
        <5> QED
          BY <4>1, <5>1, <5>2, <5>4, <5>5, <5>6
      <4>4. CASE FoundStale(u, g)
        <5>1. p.pc = "computed" /\ q = IF RootIsCurrent(u, p.in) /\ latest[u] # 0
                                       THEN NewPass("retry", latest[u]) ELSE Ended
          BY <1>1, <4>4, SetPassAt DEF FoundStale
        <5>2. RootIsCurrent(u, p.in)
          BY <4>2, <5>1 DEF RootIsCurrent, Current, RootOf
        <5>3. q.pc = "retry"
          BY <4>2, <5>1, <5>2 DEF NewPass
        <5> QED
          BY <4>1, <5>3 DEF Active
      <4>5. CASE Cancelled(u, g)
        BY <4>1, <4>5 DEF Cancelled
      <4>6. CASE Debounce(u, g)
        <5>1. q = NewPass("ready", p.rev)
          BY <1>1, <4>1, <4>6, DebounceEffect
        <5> QED
          BY <4>1, <5>1 DEF Active, NewPass
      <4>7. CASE Begin(u, g)
        <5>1. q.pc = "running"
          BY <1>1, <4>1, <4>7, SetPassAt DEF Begin
        <5> QED
          BY <4>1, <5>1 DEF Active
      <4>8. CASE Compute(u, g)
        <5>1. q.pc = "computed"
          BY <1>1, <4>8, SetPassAt DEF Compute
        <5> QED
          BY <4>1, <5>1 DEF Active
      <4>9. CASE Store(u, g)
        <5>1. q = [pc |-> "edges", parsed |-> p.parsed, in |-> p.in]
          BY <1>1, <4>1, <4>9, StoreEffect
        <5> QED
          BY <4>1, <5>1 DEF Active
      <4> QED
        BY <1>10, <4>3, <4>4, <4>5, <4>6, <4>7, <4>8, <4>9 DEF PassStep
    <3> QED
      BY <3>2, <3>3
  <2> QED
    BY <1>3, <2>3, <2>5, <2>6 DEF AloneInv
<1> QED
  BY <1>9, <1>10

\* A pass that is given up leaves the rest to the next change.
LEMMA AloneTimeout ==
  ASSUME WorkspaceInv, AloneInv, NEW u \in Docs, NEW g \in Gens, Timeout(u, g)
  PROVE  AloneInv'
<1>1. TypeOK /\ editor \subseteq Docs /\ HandlersFit /\ RootInv /\ EdgesInv
  BY DEF WorkspaceInv, Typed, TypeOK, AloneInv
<1>2. /\ UNCHANGED <<editor, text, latest, disk, generation, diagnosed, graph, handler>>
      /\ timeouts' # 0
  BY <1>1 DEF Timeout, TypeOK
<1>3. \A v \in Docs, k \in Gens :
         pass'[v][k] = IF v = u /\ k = g THEN Ended ELSE pass[v][k]
  BY <1>1, SetPassAt DEF Timeout
<1>4. Ended.pc = "done" /\ ~Active(Ended)
  BY DEF Ended, Active
<1>5. HandlersFit' /\ \A v : Arriving(v)' <=> Arriving(v)
  BY <1>1, <1>2 DEF HandlersFit, Fit, HasText, Closes, Arriving
<1>6. RootInv'
  BY <1>1, <1>2, <1>3, <1>4, <1>5 DEF RootInv, Unedited
<1>7. EdgesInv'
  <2> SUFFICES ASSUME NEW v \in editor \ Editable, NEW k \in Gens, pass'[v][k].pc = "edges",
                      k = generation[v]
               PROVE  diagnosed'[v] = pass'[v][k].in /\ IsCurrent(v, diagnosed[v])'
    BY <1>2 DEF EdgesInv
  <2>1. v \in Docs /\ pass'[v][k] = pass[v][k]
    BY <1>1, <1>3, <1>4
  <2>2. \A d : Current(d)' = Current(d)
    BY <1>2 DEF Current
  <2> QED
    BY <1>1, <1>2, <2>1, <2>2, StaysCurrent DEF EdgesInv
<1>8. SettledInv'
  BY <1>2 DEF SettledInv
<1> QED
  BY <1>5, <1>6, <1>7, <1>8 DEF AloneInv

LEMMA AloneNext == WorkspaceInv /\ AloneInv /\ [Next]_vars => AloneInv'
<1> SUFFICES ASSUME WorkspaceInv, AloneInv, [Next]_vars PROVE AloneInv'
  OBVIOUS
<1>1. CASE UNCHANGED vars
  <2>1. HandlersFit' /\ RootInv'
    BY <1>1 DEF vars, AloneInv, HandlersFit, Fit, Closes, RootInv, Arriving, HasText
  <2>2. EdgesInv' /\ SettledInv'
    BY <1>1 DEF vars, AloneInv, EdgesInv, SettledInv, Pending, PassPending, Owes, HasText,
                IsCurrent, DependencyChanged, RootIsCurrent, Current
  <2> QED
    BY <2>1, <2>2 DEF AloneInv
<1>2. CASE Next
  BY <1>2, AloneClient, AloneHandler, AlonePass, AloneTimeout DEF Next
<1> QED
  BY <1>1, <1>2

\* However the edits, closes and file events of other documents fall among the steps of the
\* passes, and however their handlers overlap, once nothing is under way every document that
\* was opened and left alone has been analysed with its text and with the current revision
\* of everything it consumed: a change is found either by the edges a pass published before
\* it dropped the revision guards, or by the pass that is under way.
THEOREM LeftAloneIsCurrentTheorem == Spec => []LeftAloneIsCurrent
<1>1. WorkspaceInv /\ AloneInv => LeftAloneIsCurrent
  <2> SUFFICES ASSUME WorkspaceInv, AloneInv, Quiescent, timeouts = 0,
                      NEW u \in editor \ Editable
               PROVE  IsCurrent(u, diagnosed[u])
    BY DEF LeftAloneIsCurrent
  <2>1. u \in Docs
    BY DEF WorkspaceInv, Typed, TypeOK
  <2>2. ~PassPending(u)
    <3>1. \A g \in Gens : pass[u][g].pc \in {"none", "done"}
      BY <2>1 DEF Quiescent, NoPass, Ended
    <3> QED
      BY <3>1 DEF PassPending, Active
  <2>3. \A h \in Handlers : ~Owes(h, u)
    BY DEF Quiescent, Owes, HasText, Idle
  <2> QED
    BY <2>2, <2>3 DEF AloneInv, SettledInv, Pending
<1> QED
  BY <1>1, AloneInit, AloneNext, WorkspaceInvariance, PTL DEF Spec
=============================================================================
