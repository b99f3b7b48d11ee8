----------------------- MODULE DiagnosticsPublication -----------------------
(***************************************************************************)
(* From stored analyses to the diagnostics the client shows.  A pass or a    *)
(* didClose updates the stored analyses and computes what to publish under   *)
(* the documents lock, and sends it, one URI after the other, after the lock *)
(* is dropped.                                                               *)
(***************************************************************************)
EXTENDS Naturals, FiniteSets

CONSTANTS
    Docs,        \* documents the client opens
    Files,       \* imported files that are never open
    Diagnostics, \* diagnostics an analysis may report
    Workers,     \* passes and didClose handlers at work at the same time
    MaxUpdates   \* bound on stores and closes

ASSUME PublicationAssumption ==
    IsFiniteSet(Docs) /\ Docs \cap Files = {} /\ MaxUpdates \in Nat

Uris == Docs \cup Files

VARIABLES
    open,      \* the documents that have a stored analysis
    reports,   \* what the stored analysis of a document reports on each URI
    outbox,    \* what a worker has still to send
    shown,     \* what the client was last sent for a URI
    newest,    \* the latest update whose diagnostics of a URI were sent
    updates    \* stores and closes so far

publicationVars == <<open, reports, outbox, shown, newest, updates>>

\* A textDocument/publishDiagnostics.  by and number say, for the properties, whose
\* analysis or close computed it, and in which update.
Message == [uri : Uris, diagnostics : SUBSET Diagnostics, by : Docs, number : Nat]

NoReports == [t \in Uris |-> {}]
Unsent == [diagnostics |-> {}, number |-> 0]

PublicationInit ==
    /\ open = {}
    /\ reports = [u \in Docs |-> NoReports]
    /\ outbox = [w \in Workers |-> {}]
    /\ shown = [t \in Uris |-> Unsent]
    /\ newest = [t \in Uris |-> 0]
    /\ updates = 0

\* The keys of a diagnostics map: an analysis always has one for its own URI.
ReportedOn(u, r) == {u} \cup {t \in Uris : r[t] # {}}

\* merged_diagnostics_for one target: an open document owns its diagnostics.
Merged(docs, rs, t) ==
    IF t \in docs THEN rs[t][t] ELSE UNION {rs[u][t] : u \in docs}

\* Mutant: what was reported before is not looked at.
NewlyReportedOnly(u, r) == ReportedOn(u, r)

\* The URIs an analysis touches: newly and previously reported ones.
Affected(u, r) ==
    ReportedOn(u, r) \cup (IF u \in open THEN ReportedOn(u, reports[u]) ELSE {})

\* The documents lock is held: swap the analysis, compute what to publish.
Update(w, u, docs, rs, targets) ==
    /\ outbox[w] = {}
    /\ updates < MaxUpdates
    /\ updates' = updates + 1
    /\ open' = docs
    /\ reports' = rs
    /\ outbox' = [outbox EXCEPT ![w] =
                    {[uri |-> t, diagnostics |-> Merged(docs, rs, t), by |-> u,
                      number |-> updates + 1] : t \in targets}]
    /\ UNCHANGED <<shown, newest>>

\* A pass stores an analysis of u.
StoreAnalysis(w, u) ==
    \E r \in [Uris -> SUBSET Diagnostics] :
        Update(w, u, open \cup {u}, [reports EXCEPT ![u] = r], Affected(u, r))

\* didClose removes it, and always publishes the closed URI, also of a document
\* that was never analysed.
DidClose(w, u) ==
    Update(w, u, open \ {u}, [reports EXCEPT ![u] = NoReports], Affected(u, NoReports))

\* client.publish_diagnostics, in the order of a hash map's keys.
Publish(w) ==
    \E m \in outbox[w] :
        /\ shown' = [shown EXCEPT ![m.uri] = m]
        /\ newest' = [newest EXCEPT ![m.uri] = IF m.number > @ THEN m.number ELSE @]
        /\ outbox' = [outbox EXCEPT ![w] = @ \ {m}]
        /\ UNCHANGED <<open, reports, updates>>

PublicationNext == \E w \in Workers :
    \/ \E u \in Docs : StoreAnalysis(w, u) \/ DidClose(w, u)
    \/ Publish(w)

PublicationSpec == PublicationInit /\ [][PublicationNext]_publicationVars

-----------------------------------------------------------------------------
(* Properties.                                                              *)

AllSent == \A w \in Workers : outbox[w] = {}

\* Once everything is sent, the client shows for every URI what the stored
\* analyses report on it, unless an older message for it was sent after a newer
\* one: nothing stale is left on files that are no longer reported on, were
\* closed, or are reported on by several documents, however passes and closes
\* overlap (the affected URIs of analyze_store_publish_once and did_close suffice).
ClientShowsMerged ==
    AllSent => \A t \in Uris :
        shown[t].number = newest[t] => shown[t].diagnostics = Merged(open, reports, t)

\* Once everything is sent, an open document shows its own diagnostics even if the
\* last message for it came from another document's analysis or close: the merged
\* view is what keeps "one document's analysis" from clobbering "diagnostics another
\* open document owns" (analyze_store_publish_once).
OthersDoNotClobber ==
    AllSent => \A t \in open :
        shown[t].number # 0 /\ shown[t].by # t => shown[t].diagnostics = reports[t][t]
=============================================================================
