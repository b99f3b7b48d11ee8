---------------------------- MODULE LspWorkspace ----------------------------
(***************************************************************************)
(* The shared workspace of the graphcal language server: revisions of the   *)
(* open buffers and of closed files, the stored analyses, the reverse       *)
(* dependency graph, and the two kinds of task that work on them: handlers  *)
(* of client notifications, and analysis passes.                            *)
(*                                                                         *)
(* Admission of passes (gates, tokens, permits) is AnalysisScheduler's      *)
(* subject; here a pass only needs what it leaves visible: a superseded     *)
(* pass does not start, and a document has one running pass.                *)
(* Documents and their identities coincide.                                 *)
(***************************************************************************)
EXTENDS Naturals, FiniteSets

CONSTANTS
    Docs,            \* documents and files, open or not
    Manifests,       \* the files among them that are package manifests
    Imports,         \* what the texts of a document may make the loader consume
    Handlers,        \* notification handlers the server runs at the same time
    Editable,        \* documents the client may edit, save and close
    Watched,         \* documents whose closed file may change on disk
    MaxRevision,     \* bound on the revision clock
    MaxGeneration,   \* bound on the bumps of one document
    MaxTimeouts      \* bound on passes that time out or panic

ASSUME WorkspaceAssumption ==
    /\ IsFiniteSet(Docs)
    /\ Imports \in [Docs -> SUBSET Docs]
    /\ Editable \subseteq Docs /\ Watched \subseteq Docs /\ Manifests \subseteq Docs
    /\ MaxRevision \in Nat /\ MaxGeneration \in Nat /\ MaxTimeouts \in Nat

Revisions == 0 .. MaxRevision
Recorded == 1 .. MaxRevision    \* the revisions the clock hands out
Gens == 1 .. MaxGeneration

VARIABLES
    editor,      \* the documents the client has open
    clock,       \* revision_clock
    text,        \* the text the client sent with a revision
    latest,      \* latest_text: revision of the open buffer, 0 when closed
    disk,        \* filesystem_revisions: last reported revision, 0 when none
    generation,  \* change_generations
    documents,   \* documents: the inputs of the stored analysis
    diagnosed,   \* documents: the inputs of the diagnostics stored with it
    graph,       \* dependency_graph: {} also when there is no entry
    handler,     \* the handler a notification runs in
    pass,        \* the analysis pass of a generation
    timeouts     \* how many passes timed out

vars == <<editor, clock, text, latest, disk, generation, documents, diagnosed,
          graph, handler, pass, timeouts>>

-----------------------------------------------------------------------------
(* What an analysis makes of a text: of a buffer that does not parse the      *)
(* loader has consumed no more than its manifest.                             *)

Texts(u) ==
    {[parsed |-> FALSE, imports |-> D] : D \in SUBSET (Imports[u] \cap Manifests)}
    \cup {[parsed |-> TRUE, imports |-> D] : D \in SUBSET Imports[u]}

NoText == [parsed |-> FALSE, imports |-> {}]

-----------------------------------------------------------------------------
(* Analysis inputs: workspace_revision.rs.                                  *)

Inputs == [root : Revisions, deps : SUBSET Docs, seen : [Docs -> Revisions]]

\* No analysis is stored.
NoInputs == [root |-> 0, deps |-> {}, seen |-> [d \in Docs |-> 0]]

\* current_revisions: an open buffer overrides the revision of its file.
Current(d) == IF latest[d] # 0 THEN latest[d] ELSE disk[d]

\* AnalysisInputSnapshot::finish keeps the observed revisions of what the
\* loader consumed.
FinishInputs(rev, deps, observed) ==
    [root |-> rev, deps |-> deps,
     seen |-> [d \in Docs |-> IF d \in deps THEN observed[d] ELSE 0]]

\* AnalysisInputs::root_is_current
RootIsCurrent(u, in) == Current(u) = in.root

\* AnalysisFreshness::DependencyChanged
DependencyChanged(in) == \E d \in in.deps : in.seen[d] # Current(d)

\* AnalysisInputs::is_current
IsCurrent(u, in) == ~DependencyChanged(in) /\ RootIsCurrent(u, in)

\* DependencyGraph::transitive_importers, the worklist's least fixed point.
TransitiveImporters(changed) ==
    LET Closed(S) == \A r \in Docs :
                        graph[r] \cap (S \cup {changed}) # {} => r \in S
    IN  {r \in Docs : \A S \in SUBSET Docs : Closed(S) => r \in S}

-----------------------------------------------------------------------------
(* Tasks.                                                                   *)

Idle == [pc |-> "idle"]

\* A pass that ended, and a generation without a pass.
NoPass == [pc |-> "none"]
Ended == [pc |-> "done"]

NewPass(at, rev) == [pc |-> at, rev |-> rev]

\* A pass that stores its result keeps the read guards of latest_text and
\* filesystem_revisions until its edges are in the graph.
RevisionsLocked == \E u \in Docs, g \in Gens : pass[u][g].pc = "edges"

\* bump_generation, with a pass that starts at `p`.
BumpFor(u, p) ==
    /\ generation[u] < MaxGeneration
    /\ generation' = [generation EXCEPT ![u] = @ + 1]
    /\ pass' = [pass EXCEPT ![u][generation[u] + 1] = p]

SetPass(u, g, p) == pass' = [pass EXCEPT ![u][g] = p]

SetHandler(h, r) == handler' = [handler EXCEPT ![h] = r]

Init ==
    /\ editor = {}
    /\ clock = 0
    /\ text = [r \in 1 .. MaxRevision |-> NoText]
    /\ latest = [u \in Docs |-> 0]
    /\ disk = [u \in Docs |-> 0]
    /\ generation = [u \in Docs |-> 0]
    /\ documents = [u \in Docs |-> NoInputs]
    /\ diagnosed = [u \in Docs |-> NoInputs]
    /\ graph = [u \in Docs |-> {}]
    /\ handler = [h \in Handlers |-> Idle]
    /\ pass = [u \in Docs |-> [g \in Gens |-> NoPass]]
    /\ timeouts = 0

-----------------------------------------------------------------------------
(* Notifications.                                                           *)

\* A text arrives: the handler takes a revision before it waits for
\* latest_text.  mode is where the pass of this text starts.
Arrive(h, u, mode) ==
    /\ handler[h] = Idle
    /\ clock < MaxRevision
    /\ clock' = clock + 1
    /\ \E t \in Texts(u) : text' = [text EXCEPT ![clock + 1] = t]
    /\ SetHandler(h, [pc |-> "record", doc |-> u, rev |-> clock + 1, mode |-> mode])
    /\ UNCHANGED <<latest, disk, generation, documents, diagnosed, graph, pass, timeouts>>

DidOpen(h, u) ==
    /\ u \notin editor \cup Manifests
    /\ editor' = editor \cup {u}
    /\ Arrive(h, u, "ready")

DidChange(h, u) ==
    /\ u \in editor \cap Editable
    /\ Arrive(h, u, "debouncing")
    /\ UNCHANGED editor

DidSave(h, u) ==
    /\ u \in editor \cap Editable
    /\ Arrive(h, u, "ready")
    /\ UNCHANGED editor

\* Mutant: the text becomes visible while a result is being accepted.
RecordUnlocked(h) ==
    /\ handler[h].pc = "record"
    /\ \A k \in Handlers : handler[k].pc = "record" => handler[k].rev >= handler[h].rev
    /\ latest' = [latest EXCEPT ![handler[h].doc] = handler[h].rev]
    /\ SetHandler(h, [handler[h] EXCEPT !.pc = "importers"])
    /\ UNCHANGED <<editor, clock, text, disk, generation, documents, diagnosed, graph,
                   pass, timeouts>>

\* record_latest_text: handlers share one task and the lock is fair, so texts are
\* recorded in the order of their revisions.
Record(h) ==
    /\ handler[h].pc = "record"
    /\ ~RevisionsLocked
    /\ \A k \in Handlers : handler[k].pc = "record" => handler[k].rev >= handler[h].rev
    /\ latest' = [latest EXCEPT ![handler[h].doc] = handler[h].rev]
    /\ SetHandler(h, [handler[h] EXCEPT !.pc = "importers"])
    /\ UNCHANGED <<editor, clock, text, disk, generation, documents, diagnosed, graph,
                   pass, timeouts>>

\* What a change of `doc` affects: for a file event the document itself is not
\* taken out, and a manifest affects everything open below it.
Affected(doc, mode) ==
    CASE mode # "file" -> TransitiveImporters(doc) \ {doc}
      [] mode = "file" /\ doc \notin Manifests -> TransitiveImporters(doc)
      [] mode = "file" /\ doc \in Manifests ->
             TransitiveImporters(doc) \cup {v \in Docs : latest[v] # 0}

\* schedule_transitive_importers reads the graph ...
FindImporters(h) ==
    /\ handler[h].pc = "importers"
    /\ SetHandler(h, [pc |-> "capture", doc |-> handler[h].doc, rev |-> handler[h].rev,
                      mode |-> handler[h].mode,
                      todo |-> Affected(handler[h].doc, handler[h].mode)])
    /\ UNCHANGED <<editor, clock, text, latest, disk, generation, documents, diagnosed, graph,
                   pass, timeouts>>

\* ... and schedule_open_roots captures the text of the importers that are open ...
CaptureRoots(h) ==
    /\ handler[h].pc = "capture"
    /\ SetHandler(h, [handler[h] EXCEPT
                        !.pc = "schedule",
                        !.todo = {<<v, latest[v]>> : v \in {w \in @ : latest[w] # 0}}])
    /\ UNCHANGED <<editor, clock, text, latest, disk, generation, documents, diagnosed, graph,
                   pass, timeouts>>

\* ... and then bumps them one after the other.
ScheduleRoot(h) ==
    /\ handler[h].pc = "schedule"
    /\ \E p \in handler[h].todo :
          /\ BumpFor(p[1], NewPass("debouncing", p[2]))
          /\ SetHandler(h, [handler[h] EXCEPT !.todo = @ \ {p}])
    /\ UNCHANGED <<editor, clock, text, latest, disk, documents, diagnosed, graph, timeouts>>

\* Mutant: a close or a file event also analyses the document itself.
ScheduleSelfAlways(h) ==
    /\ handler[h].pc = "schedule"
    /\ handler[h].todo = {}
    /\ SetHandler(h, Idle)
    /\ BumpFor(handler[h].doc, NewPass(handler[h].mode, handler[h].rev))
    /\ UNCHANGED <<editor, clock, text, latest, disk, documents, diagnosed, graph, timeouts>>

\* An edit finally bumps its own document; a close or a file event is over.
ScheduleSelf(h) ==
    /\ handler[h].pc = "schedule"
    /\ handler[h].todo = {}
    /\ SetHandler(h, Idle)
    /\ IF handler[h].mode \in {"close", "file"}
       THEN UNCHANGED <<generation, pass>>
       ELSE BumpFor(handler[h].doc, NewPass(handler[h].mode, handler[h].rev))
    /\ UNCHANGED <<editor, clock, text, latest, disk, documents, diagnosed, graph, timeouts>>

\* didClose: bump, then forget the analysis, the text and the edges, one lock
\* at a time.
DidClose(h, u) ==
    /\ handler[h] = Idle
    /\ u \in editor \cap Editable
    /\ editor' = editor \ {u}
    /\ SetHandler(h, [pc |-> "closeBump", doc |-> u])
    /\ UNCHANGED <<clock, text, latest, disk, generation, documents, diagnosed, graph,
                   pass, timeouts>>

\* Mutant: passes under way are not invalidated.
CloseWithoutBump(h) ==
    /\ handler[h].pc = "closeBump"
    /\ SetHandler(h, [handler[h] EXCEPT !.pc = "closeDocuments"])
    /\ UNCHANGED <<editor, clock, text, latest, disk, generation, documents, diagnosed,
                   graph, pass, timeouts>>

CloseBump(h) ==
    /\ handler[h].pc = "closeBump"
    /\ BumpFor(handler[h].doc, Ended)
    /\ SetHandler(h, [handler[h] EXCEPT !.pc = "closeDocuments"])
    /\ UNCHANGED <<editor, clock, text, latest, disk, documents, diagnosed, graph, timeouts>>

CloseDocuments(h) ==
    /\ handler[h].pc = "closeDocuments"
    /\ documents' = [documents EXCEPT ![handler[h].doc] = NoInputs]
    /\ diagnosed' = [diagnosed EXCEPT ![handler[h].doc] = NoInputs]
    /\ SetHandler(h, [handler[h] EXCEPT !.pc = "closeText"])
    /\ UNCHANGED <<editor, clock, text, latest, disk, generation, graph, pass, timeouts>>

CloseText(h) ==
    /\ handler[h].pc = "closeText"
    /\ ~RevisionsLocked
    /\ latest' = [latest EXCEPT ![handler[h].doc] = 0]
    /\ SetHandler(h, [handler[h] EXCEPT !.pc = "closeEdges"])
    /\ UNCHANGED <<editor, clock, text, disk, generation, documents, diagnosed, graph,
                   pass, timeouts>>

CloseEdges(h) ==
    /\ handler[h].pc = "closeEdges"
    /\ graph' = [graph EXCEPT ![handler[h].doc] = {}]
    /\ SetHandler(h, [pc |-> "importers", doc |-> handler[h].doc, rev |-> 0, mode |-> "close"])
    /\ UNCHANGED <<editor, clock, text, latest, disk, generation, documents, diagnosed,
                   pass, timeouts>>

\* handle_filesystem_change: a file whose buffer is open is ignored.
DidChangeWatchedFile(h, u) ==
    /\ handler[h] = Idle
    /\ u \in Watched
    /\ latest[u] = 0
    /\ clock < MaxRevision
    /\ clock' = clock + 1
    /\ SetHandler(h, [pc |-> "recordDisk", doc |-> u, rev |-> clock + 1, mode |-> "file"])
    /\ UNCHANGED <<editor, text, latest, disk, generation, documents, diagnosed, graph,
                   pass, timeouts>>

RecordDisk(h) ==
    /\ handler[h].pc = "recordDisk"
    /\ ~RevisionsLocked
    /\ disk' = [disk EXCEPT ![handler[h].doc] = handler[h].rev]
    /\ SetHandler(h, [handler[h] EXCEPT !.pc = "importers"])
    /\ UNCHANGED <<editor, clock, text, latest, generation, documents, diagnosed, graph,
                   pass, timeouts>>

-----------------------------------------------------------------------------
(* Analysis passes.                                                         *)

\* The debounce delay ends.
Debounce(u, g) ==
    /\ pass[u][g].pc = "debouncing"
    /\ SetPass(u, g, IF generation[u] = g THEN [pass[u][g] EXCEPT !.pc = "ready"] ELSE Ended)
    /\ UNCHANGED <<editor, clock, text, latest, disk, generation, documents, diagnosed, graph,
                   handler, timeouts>>

\* Admission: a superseded pass ends, a current one takes its input snapshot.
Begin(u, g) ==
    /\ pass[u][g].pc = "ready"
    /\ IF generation[u] # g
       THEN SetPass(u, g, Ended)
       ELSE /\ \A k \in Gens : pass[u][k].pc # "running"
            /\ SetPass(u, g, [pc |-> "running", rev |-> pass[u][g].rev,
                              observed |-> [d \in Docs |-> Current(d)]])
    /\ UNCHANGED <<editor, clock, text, latest, disk, generation, documents, diagnosed, graph,
                   handler, timeouts>>

\* The closure returns an analysis of the pass's text.
Compute(u, g) ==
    /\ pass[u][g].pc = "running"
    /\ LET t == text[pass[u][g].rev]
       IN  SetPass(u, g, [pc |-> "computed", parsed |-> t.parsed,
                          in |-> FinishInputs(pass[u][g].rev, t.imports, pass[u][g].observed)])
    /\ UNCHANGED <<editor, clock, text, latest, disk, generation, documents, diagnosed, graph,
                   handler, timeouts>>

\* A superseded closure observes its token.
Cancelled(u, g) ==
    /\ pass[u][g].pc = "running"
    /\ generation[u] # g
    /\ SetPass(u, g, Ended)
    /\ UNCHANGED <<editor, clock, text, latest, disk, generation, documents, diagnosed, graph,
                   handler, timeouts>>

\* A pass times out or panics and is given up.
Timeout(u, g) ==
    /\ pass[u][g].pc = "running"
    /\ timeouts < MaxTimeouts
    /\ timeouts' = timeouts + 1
    /\ SetPass(u, g, Ended)
    /\ UNCHANGED <<editor, clock, text, latest, disk, generation, documents, diagnosed,
                   graph, handler>>

\* The inputs changed while the pass ran.  Its edges are kept, and it goes
\* round again with the text it captures here if only dependencies changed.
FoundStale(u, g) ==
    LET p == pass[u][g]
    IN  /\ p.pc = "computed"
        /\ ~IsCurrent(u, p.in)
        /\ graph' = IF p.parsed THEN [graph EXCEPT ![u] = p.in.deps] ELSE graph
        /\ SetPass(u, g, IF RootIsCurrent(u, p.in) /\ latest[u] # 0
                         THEN NewPass("retry", latest[u]) ELSE Ended)
        /\ UNCHANGED <<editor, clock, text, latest, disk, generation, documents, diagnosed,
                       handler, timeouts>>

\* AnalysisCompletion::Retry
Retry(u, g) ==
    /\ pass[u][g].pc = "retry"
    /\ generation[u] < MaxGeneration
    /\ generation' = [generation EXCEPT ![u] = @ + 1]
    /\ pass' = [pass EXCEPT ![u][g] = Ended,
                            ![u][generation[u] + 1] = NewPass("ready", pass[u][g].rev)]
    /\ UNCHANGED <<editor, clock, text, latest, disk, documents, diagnosed, graph, handler,
                   timeouts>>

\* Mutant: what a pass computed is stored whatever happened meanwhile.
StoreUnchecked(u, g) ==
    LET p == pass[u][g]
    IN  /\ p.pc = "computed"
        /\ SetPass(u, g, [p EXCEPT !.pc = "edges"])
        /\ documents' = IF p.parsed \/ documents[u] = NoInputs
                        THEN [documents EXCEPT ![u] = p.in] ELSE documents
        /\ diagnosed' = [diagnosed EXCEPT ![u] = p.in]
        /\ UNCHANGED <<editor, clock, text, latest, disk, generation, graph, handler, timeouts>>

\* The inputs are current: under the documents lock a superseded pass still
\* ends, another one stores.  store_analysis keeps the previous inputs when
\* the buffer did not parse.
Store(u, g) ==
    LET p == pass[u][g]
    IN  /\ p.pc = "computed"
        /\ IsCurrent(u, p.in)
        /\ IF generation[u] # g
           THEN /\ SetPass(u, g, Ended)
                /\ UNCHANGED <<documents, diagnosed>>
           ELSE /\ SetPass(u, g, [p EXCEPT !.pc = "edges"])
                /\ documents' = IF p.parsed \/ documents[u] = NoInputs
                                THEN [documents EXCEPT ![u] = p.in] ELSE documents
                /\ diagnosed' = [diagnosed EXCEPT ![u] = p.in]
        /\ UNCHANGED <<editor, clock, text, latest, disk, generation, graph, handler, timeouts>>

\* The edges are published and the revision guards dropped.
PublishEdges(u, g) ==
    LET p == pass[u][g]
    IN  /\ p.pc = "edges"
        /\ graph' = IF p.parsed THEN [graph EXCEPT ![u] = p.in.deps] ELSE graph
        /\ SetPass(u, g, Ended)
        /\ UNCHANGED <<editor, clock, text, latest, disk, generation, documents, diagnosed,
                       handler, timeouts>>

-----------------------------------------------------------------------------
ClientStep(h, u) ==
    \/ DidOpen(h, u) \/ DidChange(h, u) \/ DidSave(h, u) \/ DidClose(h, u)
    \/ DidChangeWatchedFile(h, u)

HandlerStep(h) ==
    \/ Record(h) \/ RecordDisk(h) \/ FindImporters(h) \/ CaptureRoots(h)
    \/ ScheduleRoot(h) \/ ScheduleSelf(h)
    \/ CloseBump(h) \/ CloseDocuments(h) \/ CloseText(h) \/ CloseEdges(h)

PassStep(u, g) ==
    \/ Debounce(u, g) \/ Begin(u, g) \/ Compute(u, g) \/ Cancelled(u, g)
    \/ FoundStale(u, g) \/ Retry(u, g) \/ Store(u, g) \/ PublishEdges(u, g)

Next ==
    \/ \E h \in Handlers, u \in Docs : ClientStep(h, u)
    \/ \E h \in Handlers : HandlerStep(h)
    \/ \E u \in Docs, g \in Gens : PassStep(u, g) \/ Timeout(u, g)

Spec == Init /\ [][Next]_vars

-----------------------------------------------------------------------------
(* Properties.                                                              *)

Modes == {"ready", "debouncing", "close", "file"}

HandlerStates ==
    {Idle}
    \cup [pc : {"record", "recordDisk", "importers"}, doc : Docs, rev : Revisions,
          mode : Modes]
    \cup [pc : {"capture"}, doc : Docs, rev : Revisions,
          mode : Modes, todo : SUBSET Docs]
    \cup [pc : {"schedule"}, doc : Docs, rev : Revisions,
          mode : Modes, todo : SUBSET (Docs \X Recorded)]
    \cup [pc : {"closeBump", "closeDocuments", "closeText", "closeEdges"}, doc : Docs]

PassStates ==
    {NoPass, Ended}
    \cup [pc : {"debouncing", "ready", "retry"}, rev : Recorded]
    \cup [pc : {"running"}, rev : Recorded, observed : [Docs -> Revisions]]
    \cup [pc : {"computed", "edges"}, parsed : BOOLEAN, in : Inputs]

\* The workspace keeps its types: a pass never analyses without a recorded text
\* (the revision 0 a did_close or a file event would hand on is none).
TypeOK ==
    /\ editor \subseteq Docs
    /\ clock \in Revisions
    /\ text \in [1 .. MaxRevision -> [parsed : BOOLEAN, imports : SUBSET Docs]]
    /\ latest \in [Docs -> Revisions]
    /\ disk \in [Docs -> Revisions]
    /\ generation \in [Docs -> 0 .. MaxGeneration]
    /\ documents \in [Docs -> Inputs]
    /\ diagnosed \in [Docs -> Inputs]
    /\ graph \in [Docs -> SUBSET Docs]
    /\ handler \in [Handlers -> HandlerStates]
    /\ pass \in [Docs -> [Gens -> PassStates]]
    /\ timeouts \in 0 .. MaxTimeouts

\* Nothing is under way.
Quiescent ==
    /\ \A h \in Handlers : handler[h] = Idle
    /\ \A u \in Docs, g \in Gens : pass[u][g] \in {NoPass, Ended}

\* A stored analysis is only ever replaced by one of the same or a newer text,
\* whatever passes overlap (the re-check of analyze_store_publish_once under
\* the documents lock: "used to be clobbered by this older one").
StoredNeverRegresses ==
    [][\A u \in Docs :
          documents[u] # NoInputs /\ documents'[u] # NoInputs =>
              /\ documents'[u].root >= documents[u].root
              /\ diagnosed'[u].root >= diagnosed[u].root]_vars

\* Once everything has settled, every open document has been analysed with its
\* latest text and with the current revision of everything it consumed: no
\* change of a dependency slips between a pass that accepts its result and the
\* edges schedule_transitive_importers looks it up by.  A pass that timed out is
\* given up, and leaves its document as it was.
SettledIsCurrent ==
    Quiescent /\ timeouts = 0 => \A u \in editor : IsCurrent(u, diagnosed[u])

\* The same for documents that the client opened and then leaves alone while it edits,
\* saves and closes others: whatever any of them imports, and however the handlers of
\* the notifications overlap.  (An edited document may settle on an older text, see
\* LatestTextAnalysed, and a close that overlaps a reopening forgets the reopened text.)
LeftAloneIsCurrent ==
    Quiescent /\ timeouts = 0 => \A u \in editor \ Editable : IsCurrent(u, diagnosed[u])

\* Once everything has settled, nothing is left of a closed document's analysis and
\* text, whatever passes were under way when it was closed: did_close invalidates them
\* before it clears anything.  A document with imports is left out: a pass that was
\* about to be retried bumps the generation again and may store after the close.
ClosedForgotten ==
    Quiescent => \A u \in Docs \ editor :
        Imports[u] = {} => documents[u] = NoInputs /\ latest[u] = 0

\* Once everything has settled, every open document has been analysed with its
\* latest text: analyze_store_publish "either stores a revision-coherent result
\* or reaches a terminal cancellation/error".
LatestTextAnalysed ==
    Quiescent => \A u \in editor : diagnosed[u].root = latest[u]
=============================================================================
