# TLA+ models of graphcal

graphcal is a language for dimension-checked calculation graphs, written in Rust:
a compiler and evaluator, a command line tool, a language server, a package
manager, a host for WebAssembly plugins and a batch model server. Most of it is a
sequential, pure pipeline that the repository covers with property tests and, in
`formal/`, with Lean models. This directory models, in TLA+, what those reach
least: the parts in which several tasks, threads, processes or crashes meet, and
the graph algorithms whose result depends on the order of their steps. TLC checks
the models, TLAPS proves the central results. Paths below are relative to the
repository; `lsp/` stands for `crates/graphcal-lsp/src/`.

## 1. Inventory

### Components that are modelled

| Component | Code | State | Operations | What makes it hard |
|---|---|---|---|---|
| Analysis scheduler of the language server | `lsp/server.rs`, `lsp/analysis_schedule_state.rs`, `lsp/analysis_settlement.rs` | change generations; per document: open flag, cancellation registry, worker gate; a global worker gate; settled generations | `open_document`, `close_document`, `register`, `finish`, `cancel_document`, `cancel_all`, `bump_generation`, `analyze_store_publish_once`, `settle` | blocking closures outlive their timed-out waiter; edits, closes and reopens race with work that unwinds |
| Settlement waits | `lsp/analysis_settlement.rs`, `inlay_hint` | settled generations, a `Notify` | `wait_for_current`, `settle` | check-then-sleep against a notification that is not remembered |
| Workspace of the language server | `lsp/server.rs`, `lsp/workspace_revision.rs` | revision clock, latest texts, file revisions, stored analyses, reverse dependency graph | `did_open`, `did_change`, `did_save`, `did_close`, `did_change_watched_files`, `schedule_transitive_importers`, `analyze_store_publish` | each field has its own lock; a result is judged against state that changes while it is computed |
| Diagnostics publication | `lsp/server.rs` | per-document reports, what the client shows | store and publish, `did_close` | computed under a lock, sent after it |
| Formatting scheduler | `lsp/formatting_scheduler.rs` | a gate, requests, blocking workers, tokens | `format`, `run_job` | timeouts and dropped requests while the worker runs on |
| Plugin module cache | `crates/graphcal-plugin-host/src/{cache,host}.rs` | resident outcomes, LRU queue, byte count, misses in flight | `probe`, `get_or_init`, `complete` | eviction against waiters of an older cell; panics |
| Atomic file replacement | `crates/graphcal-io/src/atomic_write.rs` and its callers | the destination, a temporary file, the disk | validate, write, synchronize, rename, synchronize the directory | crashes, other writers, check-then-act |
| Package cache | `crates/graphcal-cli/src/deps.rs`, `crates/graphcal-project/src/{loader,package_cache}.rs`, `crates/graphcal-io/src/{source_tree,real_fs}.rs` | checkouts, writer locks, temporary directories and backups, `graphcal.lock` | `read_prior_lock`, `materialize_with`, `inspect_existing_checkout`, `publish_checkout`, writing the lock; a loader's open, capture and verification | two renames, rollback, crashes, readers without a lock, a remote that serves another tree |
| Batch model session | `crates/graphcal-model-client/src/session.rs`, `crates/graphcal-model-server/src/lib.rs`, `crates/graphcal-cli/src/model.rs` | a child process, two pipes, two framed streams, the described interface | spawn, open, `evaluate`, `shutdown`, `drop`; `serve` | bounded pipes, messages that break off, death of either side |
| Dependency graph | `crates/graphcal-compiler/src/dependency_graph.rs` | edges in insertion order; the explicit stacks of the searches | `add_dependency`, `into_topo_order`, `cyclic_components` | iterative depth-first search, cycle reports, Tarjan's low links, Kahn's counters |
| Runtime schedule | `crates/graphcal-compiler/src/tir/{schedule,recurrence_group,recurrence_plan}.rs` | components, plans, units | `order_units`, `check_group`, `greedy_order` | cyclic components are accepted or rejected one by one and contracted |
| Execution frame | `crates/graphcal-eval/src/{execution_plan,execution_frame,exec_plan,recurrence_slots}.rs`, `crates/graphcal-compiler/src/node_unavailable.rs` | values, reasons for having none, the elements of the running group | `CallablePlan::new`, `run_step`, the recurrence group, spreading of reasons | a group runs on past elements that fail; every internal error must be unreachable |

### How they interact

The LSP handlers record a text (workspace), find the importers of the document
(workspace), bump generations (scheduler) and start passes. A pass is admitted by
the scheduler, computes in a blocking closure, is judged against the current
revisions (workspace), stored, turned into diagnostics (publication) and settled;
settlements wake requests. Formatting requests have a gate of their own. The
plugin cache is shared by every thread that evaluates.

`graphcal deps lock` fills the package cache and writes the lockfile through the
atomic replacement; loaders, in any other process, read lockfile and cache without
a lock. A batch client spawns `graphcal model serve` and talks to it over its
standard streams, which share no memory with it and close when it dies.

The compiler builds dependency graphs, contracts the accepted recurrence groups
into units and orders them; the evaluator plans a callable from these units, checks
the order again, and runs it. The order the graph code emits is what the evaluator
takes for granted, hence the composition of the three modules.

### What is not modelled, and why

`PROJECT.json` lists every component with its status. The implementation has about
214 000 lines, most of them a sequential transformation of syntax trees: parser,
name resolution, type and dimension checking, IR construction, instance expansion,
formatter, reports, and the read-only editor queries over a stored analysis. These
keep no state between two calls. A TLA+ model of them would be a transliteration
that TLC could run only on toy trees, where the repository's own property tests are
stronger. The models here therefore stand for a small share of the lines, about
2 %. Left out as well:

- encodings (Arrow batches, the plugin ABI, schemas and fingerprints), manifest and
  lockfile parsing and printing, path authorization: pure or plain I/O;
- rational arithmetic: it is computed in 128 bits, and its interesting cases lie
  beyond TLC's 32-bit integers;
- the third-party WebAssembly interpreter, Git, Arrow, tokio and the operating system:
  they appear only as what the code takes from them;
- which packages a manifest asks for: a lock run of `PackageCache` needs all sources;
- in `ExecutionFrame`: constants, calls between callables (an unfinished callee is an
  outcome of the evaluation), assertions, and which failure a reason names when it
  comes from a callee;
- `ForeignSession` of the batch server, which changes no state of its own.

## 2. Modules

| Module | Models | Proofs |
|---|---|---|
| `AnalysisScheduler` | admission of analyses: generations, tokens, gates, closures, settlement | `AnalysisScheduler_proofs` |
| `SettlementWait` | requests waiting, on top of `AnalysisScheduler` (composition) | `AnalysisScheduler_proofs` |
| `LspWorkspace` | texts, revisions, stored analyses, reverse dependencies | `LspWorkspace_proofs` |
| `DiagnosticsPublication` | merged diagnostics and what the client shows | `LspShells_proofs` |
| `FormattingScheduler` | the bounded shell of the formatter | `LspShells_proofs` |
| `PluginCache` | `load_cached` and the single-flight LRU cache | `PluginCache_proofs` |
| `AtomicWrite` | read, validate, write, synchronize, rename, under crashes | `DepsLock_proofs` |
| `PackageCache` | lock runs, publication of checkouts, loaders | `DepsLock_proofs` |
| `RemoteCalls` | abstract: calls that return their own answer or break the session | |
| `ModelSession` | client, server and pipes; implements `RemoteCalls` | `ModelSession_proofs` |
| `DependencyGraph` | the graph searches, step by step | `DependencyGraph_proofs` |
| `RuntimeSchedule` | `order_units`, on top of `DependencyGraph` (composition) | `Evaluation_proofs` |
| `ExecutionFrame` | the evaluator's frame, on top of `RuntimeSchedule` (composition) | `Evaluation_proofs` |
| `MC...` | instances for TLC: symmetry sets and constant functions | |

Definitions named in a comment that starts with `Mutant:` are plausible bugs of
the definition that follows. They are used by no specification; substituting one
for its original makes TLC violate the property `PROJECT.json` pairs it with.

### AnalysisScheduler

Every generation of a document is made by one bump and owned by the task that made
it, so `pc[u][g]` is that task's control point in `analyze_store_publish` and
`analyze_store_publish_once`, and `closure[u][g]` its `spawn_blocking` closure. A step is the
code between two points at which another task can look: `register`, each
generation check, each permit, `spawn_blocking`, the join, `finish`, `settle`.
`entryGate` numbers the semaphores so that a gate made after an entry was removed
is told from the one before. Permits are not counters: who holds one follows from
the control points (`HoldsDocumentPermit`, `HoldsGlobalPermit`), because in the
code the permit is moved into the closure. `OpenDocument` may happen at any time,
so a schedule may contain more client behaviours than an editor shows, never
fewer. A timeout leaves the closure running, with its permits and its
registration; `Cleanup` is the spawned task that joins it.

### SettlementWait

Extends `AnalysisScheduler`: its settling steps are split into raising the settled
generation and calling `notify_waiters`, as `settle` does after dropping its mutex.
A request registers its `Notified`, reads the generation, checks, sleeps. `Elapse`
is the deadline; no fairness is put on it.

### LspWorkspace

A text is a revision and what an analysis will make of it: whether it parses and
which documents the loader consumes. A handler is a record with a control point
for every lock it takes; a pass is `debouncing`, `ready`, `running`, `computed` and
then stores, retries or ends. What admission guarantees (one running pass, a
superseded one does not start) is taken from `AnalysisScheduler`. A pass that
stores keeps the read guards of `latest_text` and `filesystem_revisions` until its
edges are in the graph; this is `RevisionsLocked`. Two abstractions: documents and
their canonical identities coincide, and `FindImporters` reads the graph and, for
a manifest, the open texts in one step.

### DiagnosticsPublication

`reports[u]` is what the stored analysis of `u` reports on every URI. `Update` is
the section under the documents lock; `Publish` sends one URI. A message carries, for
the properties, the document whose pass or close made it (`by`) and the number of that
update. `newest[t]` is the highest number sent for a URI: `shown[t].number < newest[t]`
says that an older message overtook a newer one.

### FormattingScheduler

`Acquire` hands the permit to the worker, `WorkerExits` releases it, `Leave` is
what a timeout and a dropped request have in common.

### PluginCache

`Probe` and `Complete` hold the cache mutex; `GetOrInit` and `Panic` are the
`OnceLock` outside it. Eviction removes the shortest prefix of the LRU queue that
makes room. Cells are allocations: one may be reused when nobody refers to it.

### AtomicWrite

`entry` and `data` are what programs see, `diskEntry` and `diskData` what survives
a crash. `WriteBack` lets either reach the disk early and in any order, so only the
calls of `sync_all` give an order. A writer is also the file it writes. `raced`
remembers the writers that were past their second validation when somebody else
wrote; it is a history variable.

### PackageCache

A tree is its manifest and the rest of its files, and stands for its own digest.
Directories have an identity that a rename does not change, because a loader keeps
the directory it opened. All lock runs are of one project and share its lockfile.
`pc[p]` is a lock run's control point in `materialize_with` and `publish_checkout`; a
step ends where the file system or another process can be seen: the writer lock, an
inspection, the fetch, each rename, the deletion of the backup, the validation and the
writing of the lockfile. The guards (temporary directory, backup, writer lock) are
dropped in the step that returns (`Materialized`, `Failed`, `DeleteBackup`); a crash
drops only the lock. A deletion by a guard is taken to succeed, although `TempDir`
ignores its errors: what it fails to delete is a directory nobody looks at.

`InspectExisting` is `inspect_existing_checkout`. A read error, even on a good
checkout, counts as no checkout there (`deps.rs:942`), so that the run fetches again
and moves the checkout it could not read aside; `misread` remembers the runs to which
this has happened. An ingestion limit, or metadata that cannot be read, ends the run.

A loader reads the lockfile, opens the checkout, reads the manifest, captures the
manifest and then the rest, and verifies; each of its reads may fail (`ReadFails`).
`Alter` and `Remove` are other programs. `untrusted` and the loaders' `sound` are
history: which paths others, or a run that misread them, have disturbed since a run
checked or filled them, and whether a loader's directory was good and undisturbed.

### ModelSession and RemoteCalls

Both processes are one control point each. A pipe is a sequence of chunks with a
bounded length; a message takes `Size` chunks, so a process can block, or die, in
the middle of one. `written` and `output` count the chunks of the message under way.
A request carries its number of rows, all the client can compare a result with.
`RemoteCalls` is the promise to the caller; `Calls` maps the client's control points
to its phases, and a call's request to `request`. `ImplementsRemoteCalls` is
`Calls!Spec`.

### DependencyGraph, RuntimeSchedule, ExecutionFrame

`DependencyGraph` runs one search at a time: `task` names it, `path` is its explicit
stack with a cursor per frame. `IntoTopoOrder` and `CyclicComponents` are the calls
that start one; `GraphSpec` describes any sequence of them, one at a time, and is what
the theorems about the graph assume. `RuntimeSchedule` chooses the shape of a
declaration and the form of a read when a cyclic component is examined, since
nothing else looks at them. `ExecutionFrame` adds the plan of the callable and its
run: `supplied` params, `todo` declarations, and evaluations whose outcome is a
value, a failure or "incomplete". `origins` is history: where something went wrong.

### External parts, taken from how the code uses them

tower-lsp may start the handler of a notification before the one before it has
ended, but polls handlers in one task; tokio's semaphore and `RwLock` are fair, and
a dropped acquire leaves the queue; `notify_waiters` wakes those registered at that
moment; `OnceLock` lets one thread initialize and a panic leaves it empty; a rename
within a directory is atomic; the Unix build synchronizes the directory; the system
frees a file lock when its holder dies; a write to a pipe that nobody reads fails, a
read from an empty pipe that nobody writes ends; Arrow's reader takes the end of a
pipe between two messages for the end of the stream; Git fetches some tree or fails.

## 3. Runs

| Run | Instance | Shows |
|---|---|---|
| `scheduler` | 1 document, 3 generations, 2 permits | single flight, cancellation of stale work, settlement catches up, closed entries disappear |
| `settlement` | 1 document, 2 generations, 1 permit, 1 request | no lost wake-up; requests answered without their deadline |
| `workspace_dependents` | a document, an import and a manifest, 3 revisions, 3 generations, 1 timeout | an open document ends up analysed against current inputs; stored analyses never regress; nothing is left of a closed document that imports nothing (section 5) |
| `workspace_latest_text` | a document and an import, both edited | violation, see section 5 |
| `publication` | 2 documents, 1 file, 2 workers that send at once, 3 updates | the affected URIs of stores and closes suffice |
| `publication_overlap` | 2 documents, 1 file, 2 workers, 2 updates | violation, see section 5 |
| `formatting` | 4 requests, one too large, 1 permit | the worker bound, answers, recovery of the gate |
| `plugin_cache` | 2 threads, 4 modules, 3 cells, 2 entries, 3 bytes, 1 panic | single flight, exact accounting, no lost promotion, returns |
| `atomic_write` | 2 writers, 2 foreign edits, crashes | complete, durable, no seen edit lost |
| `package_cache` | 1 source, 2 lock runs, 1 loader, 2 trees, 1 foreign change | what is locked is stored, loaders get exactly the locked tree; a good checkout is taken away only by other programs or a run that could not read it; backups outlive the swap; lock runs go on for ever only if a fetch does |
| `model_session` | 3 requests of equal size, 2 interfaces, messages of 3 chunks, pipes of 2, 2 edits | a call returns its own answer or breaks the session; no deadlock; clean shutdown; no orphan server |
| `evaluation` | every graph of 3 declarations and up to 4 reads, 2 steps, 1 supplied or unfinished and 1 troubled declaration | exact components, orders, acceptance and rejections; exact outcomes; internal errors unreachable; termination |

### Bounds, and why they are enough

- `MaxGeneration = 3`: an open, a close and a reopen, or an edit, a retry and a
  close, are in flight together. At the bound no bump and no retry is possible, as
  if edits had stopped; that is the case the liveness properties are about.
- The scheduler's run has one document: what documents share is the global gate,
  and its bound is proved for any number of them (section 6).
- `MaxRevision = 3`: a first text, a change and a change while the first change is
  being analysed. The manifest and the import change on disk and in a buffer.
- The root of `workspace_dependents` is opened and not edited: with edits of the
  root itself the property fails, which is what `workspace_latest_text` shows.
  `SettledIsCurrent` speaks of behaviours without a timeout, since a pass that timed
  out leaves a document unanalysed by design; `StoredNeverRegresses` and
  `ClosedForgotten` cover the timeout too.
- `workspace_dependents` handles one notification at a time, though tower-lsp overlaps
  handlers. With two, a close can remove the text of an overlapping reopening, so that
  `SettledIsCurrent` and `ClosedForgotten` are false of the code. What holds with any
  number of handlers is proved: `StoredNeverRegresses`, the types, and
  `LeftAloneIsCurrent`, the part of `SettledIsCurrent` about documents that are opened
  and left alone. The latter was also model-checked with two handlers: a root and its
  import with three revisions (9.8 million states), the same with the import watched on
  disk (10.8 million), and with a manifest and two generations (5.4 million). Those
  instances take minutes each and add nothing to the proof, so they are not runs of
  the project.
- Publication: three updates are a store, a store that no longer reports on a URI or a
  close, and a store by another document between; two workers send in every order.
- The module sizes 1, 2, 3 and 4 against 3 bytes and 2 entries give a pair that
  fits, a module that evicts both, an eviction by count, and a refusal. Two cells
  can be held by threads while a panic has left a third in flight.
- Two writers and two edits: an edit before and one after the last validation, a
  second graphcal process between the two, and a deletion.
- Sources do not interact except through the lockfile, which is written as a whole;
  two runs of one source meet at its lock, its checkouts and the lockfile. Two trees
  differ in manifest and body, and another program can write the mixed ones. One
  foreign change is enough to make a checkout bad between two looks at it; the proofs
  need no bound.
- Messages longer than the pipe make both processes block inside one. Three
  requests: one answered, one under way, one that must not get the other's answer.
- Three declarations contain every case of the graph code: a self-read, two
  components of which one is a single node, a component of three, an edge into a
  closed component, a group beside or before a plain declaration; four reads close a
  component of three with one chord. Two steps distinguish the first from a later
  element.

Runs in which the client, the requests, the runs or the callers may simply stop, or
come to their end, say `CHECK_DEADLOCK FALSE`; the plugin cache and the file
replacement never block.

## 4. Fairness

- Scheduler: weak fairness of every task step, of the closure's return and of the
  cleanup task. tokio polls every woken task; closures poll their token and the
  analysis terminates. There is no fairness for client steps, timeouts or shutdown.
- Settlement: a request is polled and a `settle` call runs on to `notify_waiters`.
  The deadline is not needed, so an answer never depends on it.
- Formatting: the timer and the polled future only (`TimerFairness`).
  `RequestAnswered` therefore holds even if no worker ever exits. `GateRecovers`
  has the cooperation of cancelled workers as its hypothesis, in the property.
- Plugin cache: a thread inside `load_cached` keeps running. A thread that waits
  in `get_or_init` can only wait for a thread that compiles.
- Package cache: each lock run goes on (`Advance(p)`), and gets the writer lock when it
  is free. Git has no fairness: `materialize_git_revision` (`deps.rs:685`) sets no
  timeout and its `should_interrupt` is constantly false, while the writer lock is held
  (`:837`) and the next run waits in `lock_exclusive` (`:922`) without a deadline. So
  the runs need not end, and `RunsEnd` says only that if they go on for ever, then
  because a fetch does: no failure, crash or rollback leaves the lock behind. A refused
  resolution (`ResolutionFails`) is not forced either, so that no run escapes a wait by
  failing. Crashes, loaders and other programs have no fairness.
- Model session: the client's own steps and the server's. The caller may stop
  between two calls, and nobody has to crash.
- Evaluation: one thread, `WF_vars(Next)`.

## 5. Where the code and its documentation disagree

- `workspace_latest_text`: `analyze_store_publish` retries with the text it
  captured before (`lsp/server.rs:629`) and then bumps; `schedule_open_roots`
  (`:435`) bumps with texts captured before its first bump. An edit that is
  recorded and bumped in between is superseded: its own pass gives up, the older
  one finds the root changed and ends. The latest text is not analysed until the
  next edit or save, although "Run analysis until it either stores a
  revision-coherent result or reaches a terminal cancellation/error" is promised.
  The window is short (a few lock acquisitions), and a save closes it.
- `publication_overlap`: passes and closes compute under the lock and send after it, in
  either order. An importer is analysed and reports on a file; the file is opened,
  analysed and its own message sent; then the importer's older message is sent, and the
  open document is left with the importer's diagnostics, although "one document's
  analysis cannot clobber diagnostics another open document owns"
  (`lsp/server.rs:838`). It takes a client channel slow enough to overlap two sends.
  `OthersDoNotClobber` looks only at messages that another document's analysis or
  close has made; two passes of one document can overtake each other as well, but the
  comment does not speak of that.

Smaller observations, made while modelling and kept without a run of their own:

- `docs/en/language/multi-file.md:815` says that `deps lock` "reuses a cached checkout
  without fetching when its source hash matches the validated lock", and
  `docs/en/cli-reference.md:62` that verified checkouts "are reused without network
  access". After a transient read error (too many open files, a permission) it fetches
  instead and moves the good checkout away, for a moment or, if it fails or dies before
  the second rename, until the next lock run; the loaders that have it open are
  disturbed. `GoodCheckoutsKept` and `SoundReadsSucceed` name this exception.
- The rename of a creation replaces a file that appeared after the second validation,
  though `atomic_write.rs:13` says "if the destination remains absent". `raced`
  in `AtomicWrite` is this window, one `sync_all` long.
- A pass that retries after `did_close` can store the analysis of a closed importer,
  though `lsp/server.rs:1238` says that no pass follows a close.
- A stale pass writes its edges without looking at its generation (`FoundStale`,
  `lsp/server.rs:809`), also after `did_close`: the graph can hold the edges of an
  older text and lack those of the present one. Edges too many only schedule analyses
  too many; edges that are missing leave an importer unscheduled. This can happen only
  to documents that are edited and import something. No property covers it: such a
  document may settle on an older text for another reason (`workspace_latest_text`).
- The reason of a group member that reads a troubled member lists the troubled
  members, not another of its reads that has failed as well, although `blocked_by`
  (`node_unavailable.rs:100`) speaks of preserving every failed input.
- A server that ends right after it has closed its output may not yet be found
  exited by `try_wait`; its diagnostic is then missing from the client's error.

## 6. Proofs

All theorems hold for every value of the constants, under the named assumptions of
the modules: finite sets of documents and keys, natural bounds, distinct model
values. TLC evaluates the assumptions on every run that uses the module.

**AnalysisScheduler.** None of the safety properties is inductive. The invariant
`IInv` adds to the types:

- `FreshGenerations`: what has not been bumped has no state;
- `EntryShape`: an entry exists where something is open or live, with a gate that
  has been made;
- `ClosureOwned`: which closure states go with which control points;
- `LiveExact`: a generation is live exactly between `register` and the `finish` of
  whoever is left to call it;
- `LiveGate`: live work holds the gate of the present entry, which is why a reopen
  cannot get a second one;
- `DocumentPermitUnique`: one holder of a document permit.

Each action has a lemma; three lemmas carry the common cases (`QuietMove` for a
step that only moves a control point, `FinishMove` for a step with a `finish`,
`CellUpdate` for two-level updates). `SingleFlight`, `StaleWorkCancelled`,
`ClosedEntriesUnwind` and `SettlementNotStranded` follow from `IInv`, and the
action property `GateKept` from a step analysis. `PermitBoundTheorem` is an
induction of its own on the cardinality of the holders: only `AcquireGlobal` adds
one (`HoldersStep`). `WorkerBound` follows because the running closures are among
the holders.

**SettlementWait.** `WakeupInv`: a request that is listening and whose generation
is settled has been woken or a notification is due. It holds from the moment the
request registers, before it reads anything; that is why `NoLostWakeup` holds.

**LspWorkspace.** The invariants come in layers. `Typed` adds to the types which modes
a handler has at which control point. `CarriedInv` and `ComputedInv` say where a
revision can come from: a handler, a pass and a stored analysis carry only revisions
the clock has issued, with the text that was recorded for them. With `OrderInv`, that
nothing stored is newer than the latest text and a handler about to record one has a
newer revision than all of these, a stored analysis is only replaced by one of a later
or the same text: `StoredNeverRegresses` holds for any number of handlers.

`LeftAloneIsCurrentTheorem` is about documents that a client opens and leaves alone
while it edits, saves, closes and reopens others: any number of handlers overlap, and
every document may import any others. An edited document is left out because it can
lose its last edit (section 5, `workspace_latest_text`), and a reopened one because a
close that overlaps the reopening removes the reopened text. The invariant `AloneInv`
has four parts:

- `HandlersFit`: for such a document at most one handler carries its text, and the
  passes that handlers have yet to start are of its latest text;
- `RootInv`: its passes analyse the text that was opened, and its edges are those of
  that text;
- `EdgesInv`: between its store and its edges a pass holds the revision guards, so what
  it stored stays current;
- `SettledInv`: a document that nobody has to do anything for, neither a pass of its
  present generation nor a handler that has yet to bump it (`Pending`), is up to date,
  and its dependencies lead to it, by an edge or as its manifest, so that the handler of
  a change finds it.

`SettledIsCurrent` (with an edited import, a manifest and one handler) and
`ClosedForgotten` are model-checked only: they are false of overlapping handlers.

**DiagnosticsPublication.** `ClientShowsMergedTheorem` holds for any number of passes
and closes that send at the same time. `PublicationInv`: no
message has a number above that of the last update, and for every URI either the newest message made for it waits in one outbox and says what is
merged now (`NewestWaits`), or it was sent, and what is shown is merged if it is that
message (`NewestSent`). An update keeps this for URIs it does not touch because the
affected URIs are all whose merged view it can change. That the newest message is also
the last one sent is not promised by the code (section 5, `publication_overlap`).

**FormattingScheduler.** `IInv` joins the types, the queue's contents (exactly the
waiting requests, each once), the workers that were started, and the cancellation
of abandoned ones. `FormatterBound` needs that a permit is counted from the workers
and that only the head of the queue acquires one.

**PluginCache.** `FlightInv` says that who compiles does so in the cell that is in
flight for its key, that a cell is initialized by one thread, and what a waiting
thread holds. Single flight follows. `TransientInv` adds that what is in flight is
not resident and has a caller. `CacheInv` is what `CacheBounded` says, of every key:
the queue lists the resident keys, each once, and the byte counter is the sum of their
charges. The sum is a fold over a set, whose definition chooses a recursive function.
`FoldExists` and `FoldsAgree` show that it exists and does not depend on the order, by
`FiniteInduction`, induction on the subsets of a finite set by the library's
well-founded ordering; `BytesSplit`, that charges add up over disjoint sets, is all
that the cache needs of it. Evicting everything makes room for whatever is admissible,
so a shortest sufficient prefix exists (`MinOf`), and `PromotedIsResident` follows
because eviction precedes the insertion.

**AtomicWrite.** `ReplaceIInv` says that a temporary file is private until the rename,
written after `WriteTemporary`, on disk after `SyncTemporary`, and that a writer
past its last validation still sees what it expects or was raced.

**PackageCache.** The invariant says who holds which lock (`Locks`), what a run has
on disk at each point (`Holdings`), that a directory is in one place: a checkout, a
temporary directory or a backup (`Places`), that what a run is about to replace was
bad when it looked and still is, unless the run could not read it (`Suspects`), that a
run materializes what its lockfile names (`Trust`), and that a loader whose directory is
sound has it open at its path and has read from it (`LoadersSound`). The central lemma,
`RunsKept`, is about a step, not a state: no step of a lock run changes a checkout that
is good and trusted (`GoodKept`), but for one: the first rename of a run that misread
the checkout at its target (`TakenAside`), which makes that path untrusted, as another
program's change would. Everything a run has reported and everything a loader has open
are checkouts of this kind, so `LockfileIsMaterialized`, `SoundReadsSucceed`,
`GoodCheckoutsKept` and `BackupOutlivesSwap` follow. Every inspection and every read of
a loader may fail in the model; nothing is assumed of them.

**ModelSession.** `IInv` describes the pipes: whole messages in order with at most
the last one incomplete (`PipesOrdered`), the order of opening (`Opening`), which
message may be where (`RequestStream`, `ResultStream`), that a request is in one
place (`OnePlace`) and that the only one under way belongs to the call that waits
(`OneCall`). From it each step of the session maps to a step or a stutter of
`RemoteCalls`: `RefinesRemoteCalls` is the same refinement as the run checks.

**DependencyGraph.** Three searches, three invariants. The theorems hold for every graph
and any sequence of calls, one at a time (`GraphSpec`).

While the depth-first search runs, the path is a chain of edges (`Linked`), a node on
it remembers its place (`OnPath`), the edges tried before lead to done nodes (`Tried`),
and what is done was emitted after everything it depends on (`Emitted`). So the slice
of the path from the remembered place of a node entered again is a cycle of different
nodes (`CycleIsRealTheorem`), and the post-order is topological at every moment
(`SearchIsTopologicalTheorem`).

The order the caller gets is not that post-order but one that `kahn_ranks` emits.
`pending[n]` is the number of dependencies of `n` not yet emitted (`Counted`; the code
counts edges, and each is recorded once), the queue has exactly the nodes that wait for none
and were not emitted (`Queued`, `Listed`), and the post-order the search left behind
ranks the nodes below what depends on them (`Ranked`). A lowest node that is not
emitted therefore waits for nothing and is in the queue, so the queue cannot run out
early: the order is complete, without repetition and topological
(`OrderIsTopologicalTheorem`).

The components are Tarjan's algorithm, with explicit frames. Indices grow along the
stack and along the path (`Numbered`); a frame's tried edges lead to numbered nodes
(`Explored`); the path reaches what is above it on the stack, and what is on the stack
reaches the node of the path below it (`Connected`); a low link is the index of
something the node reaches (`LowReached`), and no edge a frame has left behind leads
to the stack below it (`LowBounds`); what has been closed is a list of classes of
mutually reachable nodes that depend on closed nodes only (`Classes`). Reachability is
defined by closed sets: `m` is reachable from `n` if every set that contains `n` and is
closed under edges contains `m`. This needs no recursion, so the claim about a whole
class is an argument about one set: what is above the root of a class on the stack,
with what was closed before, is closed under edges (`ComponentClosed`), hence contains
everything the root reaches. `ComponentsExactTheorem`: the classes listed are exactly
those of the nodes on a cycle, in the order of their first nodes. `SetInduction`, that
a set with 0 that is closed under successor has every natural number, is proved by a
pigeonhole argument on finite sets and takes the place of the library's induction
theorems, whose operator parameters the provers cannot instantiate.

**RuntimeSchedule.** The checker is proved about together with the graph functions it
calls. `ScheduleInv` says at each stage what the graph is: the reads (`GraphOfReads`),
the reads outside accepted groups (`Contracted`), or the edges between units
(`UnitGraph`). What a search returned is then known from the theorems about the graph:
the components are the classes of declarations that read each other at a distance
(`ClassesFound`), every one is planned, rejected or still to be checked (`Checked`), a
cycle is real and an order topological. `CheckingInvariance` proves this invariant
together with `GraphSpec`: the theorems about the graph need that the checker hands it
graphs that `add_dependency` can make, and that it does follows from the invariant one
step earlier.

- `RejectionExplainedTheorem`: a cycle of the contracted graph stays in one class
  (`CycleReads`), whose reads would be gone had it been accepted, so it was rejected;
  conversely the reads of a rejected class are still there, so an order cannot be
  found (`OrderedRejectsNone`). A cycle of units would make its units one class, and
  so one unit (`UnitsCyclicStep`).
- `AcceptanceExactTheorem`: the greedy order stops early exactly when some members
  each wait for another of them (`GreedyFull`), and so do their elements of a step
  (`AcceptedExactly`). `GreedyIs` goes over the number of members left, with
  `SetInduction`.

**ExecutionFrame.** On top of it, `FrameInv`. A frame starts with a partition of the
declarations into units in topological order (`Scheduled`), from which the list of the
frame is made: `FlattenIs` and `RunUnitsAre` say what `RunUnits` lists, and
`StepsAreOrdered` that `CallablePlan::new` accepts it whatever is unfinished. Then:

- `RunInv`: what has neither value nor reason is still listed, after what it reads;
- `OutcomeInv`: a reason blames only what is behind its declaration (`Blames`), its
  kind says how the evaluation went (`Agrees`), and what a value needs has values
  (`Complete`);
- `GroupInv`, while a group runs: an element is pending exactly while its turn has not
  come; a missing one has a member with a problem, or another missing element that it
  reads (`ElementInv`); a member without a problem has values outside the group
  (`MemberInv`).

Elements are numbered step by step; `CellIs` relates numbers and elements, and
`ReadElementsAre` shows that an element reads earlier ones only, from the order of the
plan that `check_group` accepted. So nothing pending is read. When reasons spread no
further, every member without one has all its elements: the first missing one among
them (`FirstElement`) would read a member with a reason. Both internal errors are
therefore unreachable (`NeverStuckTheorem`), and since at the end nothing is listed,
`OutcomesExactTheorem` follows: the set of all values is closed under what they need,
hence contains what is behind each.

Properties that are proved and not part of a run: the type invariants (but that of
`LspWorkspace`, which is), `ClosedEntriesUnwind`, `SettlementNotStranded`, `GateKept`,
`PermitBound`, `WorkerBound`, `InFlightTransient`, `QueueHoldsWaiting`,
`AbandonedCancelled`, `LeftAloneIsCurrent`, `MaterializedIsStored`, `TrustedDigestsKept`,
`NothingLeftBehind`, `ServesDescribedInterface`, `ServerReaped` and the topological
search.

Every safety and action property of a passing run is proved, but for
`SettledIsCurrent` and `ClosedForgotten`, and so is the refinement. Only model-checked
as well is liveness, which with fairness is outside the prover:
`SettlementCatchesUp`, `ClosedEntriesReclaimed`, `RequestsAnswered`, `RequestAnswered`,
`GateRecovers`, `LoadReturns`, `RunsEnd`, `CallsReturn`, `ServerEndsWithClient` and
`EvaluationEnds`. The two runs that end in a violation have nothing to prove. The
proofs are about the models: that a definition says what the code does is for the
reader, with the lines `PROJECT.json` names.

## 7. Plan

The order so far: the language server's scheduler and its waits, the workspace,
the bounded shells, the caches and files, the package cache, the model session, the
schedule and its evaluation. What would come next:

1. An abstract document store, with `LspWorkspace` shown to implement what it does of
   it, and the admission assumptions of `LspWorkspace` discharged by
   `AnalysisScheduler`.
2. Calls between callables and constants in `ExecutionFrame`.
3. Package graph construction: which sources a lock run needs.
4. Formatting edits against a text that changes while the request waits: the edits
   are computed for a captured text, and the client is trusted to drop stale ones.
