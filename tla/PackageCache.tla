---------------------------- MODULE PackageCache ----------------------------
(***************************************************************************)
(* The package cache that `graphcal deps lock` writes and the project loader *)
(* reads.  A checkout of a Git source lies in a directory named after the     *)
(* digest of its tree.  Lock processes materialize one source at a time under *)
(* that source's writer lock; loaders take no lock and check the digest of    *)
(* what they captured.                                                       *)
(*                                                                         *)
(* A tree is its manifest and the rest of its files, and stands for its own   *)
(* digest (SHA-256 without collisions).  Directories have an identity of      *)
(* their own: a loader keeps the directory it opened when it is renamed.       *)
(* Renames and reads may fail, a process may crash at any step (the system     *)
(* then frees its lock), and other programs may alter or remove checkouts.     *)
(* A read that fails while a checkout is inspected counts as no checkout.      *)
(***************************************************************************)
EXTENDS Naturals, FiniteSets

CONSTANTS
    Sources,     \* Git sources (URL and commit) that every lock run needs
    Procs,       \* runs of `graphcal deps lock` of one project
    Readers,     \* runs of the loader
    Manifests,   \* contents of graphcal.toml
    Bodies,      \* contents of the rest of a package
    Remote,      \* the trees a fetch may bring
    MaxAlter,    \* bound: how often other programs touch the cache
    Broken,      \* a directory that holds no readable package
    Oversized,   \* one beyond the ingestion limits
    Gone,        \* a deleted one
    NoTree, NoDir, NoProc, NoSource

Tree == [manifest : Manifests, body : Bodies]

ASSUME CacheAssumption ==
    /\ Remote \subseteq Tree
    /\ MaxAlter \in Nat
    /\ {Broken, Oversized, Gone, NoTree} \cap Tree = {}
    /\ Cardinality({Broken, Oversized, Gone, NoTree}) = 4
    /\ NoTree \notin Manifests /\ NoProc \notin Procs /\ NoSource \notin Sources

\* Directories are named by who made them: a lock run for one of its sources,
\* or an earlier run for a source.
Dirs == (Procs \X Sources) \cup ({"earlier"} \X Sources \X Remote)

ASSUME DirAssumption == NoDir \notin Dirs

VARIABLES
    lockfile,   \* the digests in graphcal.lock, NoTree for a source not in it
    checkout,   \* the directory at the path of a source and a digest
    content,    \* what a directory holds
    untrusted,  \* paths altered by others, or emptied by a run that could not read
                \* them, since a lock run checked or filled them
    altered,    \* how often other programs touched the cache
    locked,     \* the holder of a source's writer lock
    pc,         \* where a lock run is
    prior,      \* the lockfile it read: its trusted digests
    source,     \* the source it materializes
    session,    \* the digests it materialized
    temporary,  \* its temporary directory
    backup,     \* the checkout it moved aside
    preserved,  \* backups it kept and reported
    misread,    \* the runs whose inspection could not read a checkout that is there
    reader      \* a loader: where it is and what it has read

disk == <<checkout, content>>
writers == <<locked, pc, prior, source, session, temporary, backup, preserved, misread>>
vars == <<lockfile, disk, untrusted, altered, writers, reader>>

Digests == [Sources -> Remote \cup {NoTree}]
Paths == Sources \X Remote
Stored(path) == IF checkout[path] = NoDir THEN NoTree ELSE content[checkout[path]]

\* The path holds the tree it is named after.
Good(path) == Stored(path) = path[2]

Running(p) == pc[p] \notin {"start", "done", "failed", "crashed"}

TypeOK ==
    /\ lockfile \in Digests
    /\ checkout \in [Paths -> Dirs \cup {NoDir}]
    /\ content \in [Dirs -> Tree \cup {Broken, Oversized, Gone}]
    /\ untrusted \subseteq Paths
    /\ altered \in 0 .. MaxAlter
    /\ locked \in [Sources -> Procs \cup {NoProc}]
    /\ pc \in [Procs -> {"start", "resolve", "locked", "fetch", "fetched", "publish",
                         "swap", "swapped", "rollback", "validated", "done", "failed",
                         "crashed"}]
    /\ prior \in [Procs -> Digests]
    /\ source \in [Procs -> Sources \cup {NoSource}]
    /\ session \in [Procs -> Digests]
    /\ temporary \in [Procs -> Dirs \cup {NoDir}]
    /\ backup \in [Procs -> Dirs \cup {NoDir}]
    /\ preserved \subseteq Dirs
    /\ misread \subseteq Procs
    /\ reader \in [Readers ->
         [at : {"idle", "open", "manifest", "captureManifest", "captureBody", "verify",
                "accepted", "rejected"},
          path : Paths \cup {NoTree}, dir : Dirs \cup {NoDir},
          manifest : Manifests \cup {NoTree}, captured : Tree \cup {NoTree},
          sound : BOOLEAN]]

Nothing == [s \in Sources |-> NoTree]
Idle == [at |-> "idle", path |-> NoTree, dir |-> NoDir, manifest |-> NoTree,
         captured |-> NoTree, sound |-> FALSE]

\* The lockfile may come from another machine: its checkouts may be missing,
\* good, or altered.
Init ==
    /\ lockfile \in Digests
    /\ checkout \in [Paths -> Dirs \cup {NoDir}]
    /\ \A path \in Paths : checkout[path] \in {NoDir, <<"earlier", path[1], path[2]>>}
    /\ content \in [Dirs -> Remote \cup {Gone}]
    /\ \A d \in Dirs :
         IF \E path \in Paths : checkout[path] = d
         THEN content[d] \in Remote ELSE content[d] = Gone
    /\ untrusted = {path \in Paths : ~Good(path)}
    /\ altered = 0
    /\ locked = [s \in Sources |-> NoProc]
    /\ pc = [p \in Procs |-> "start"]
    /\ prior = [p \in Procs |-> Nothing]
    /\ source = [p \in Procs |-> NoSource]
    /\ session = [p \in Procs |-> Nothing]
    /\ temporary = [p \in Procs |-> NoDir]
    /\ backup = [p \in Procs |-> NoDir]
    /\ preserved = {}
    /\ misread = {}
    /\ reader = [r \in Readers |-> Idle]

-----------------------------------------------------------------------------
(* A lock run.                                                              *)

Expected(p) == prior[p][source[p]]
Fetched(p) == content[temporary[p]]
Target(p) == <<source[p], Fetched(p)>>

Go(p, to) == pc' = [pc EXCEPT ![p] = to]

\* Mutant: the lock is a file that is left behind.
LockLeft(p) == UNCHANGED locked

\* Dropping the CacheWriterLock frees it, as the end of its process does.
Unlock(p) == locked' = [s \in Sources |-> IF locked[s] = p THEN NoProc ELSE locked[s]]

\* materialize_with returns digest d: the session remembers it, the temporary
\* directory is deleted if it is still there, and the writer lock is freed.
Materialized(p, d) ==
    /\ session' = [session EXCEPT ![p][source[p]] = d]
    /\ untrusted' = untrusted \ {<<source[p], d>>}
    /\ temporary' = [temporary EXCEPT ![p] = NoDir]
    /\ source' = [source EXCEPT ![p] = NoSource]
    /\ misread' = misread \ {p}
    /\ Unlock(p)
    /\ Go(p, "resolve")

\* materialize_with fails, and the run with it; the guards are dropped in turn.
Failed(p) ==
    /\ temporary' = [temporary EXCEPT ![p] = NoDir]
    /\ source' = [source EXCEPT ![p] = NoSource]
    /\ misread' = misread \ {p}
    /\ Unlock(p)
    /\ Go(p, "failed")
    /\ UNCHANGED <<session, untrusted>>

\* The temporary directory's guard deletes it.
Deleted(p) ==
    IF temporary[p] = NoDir THEN content ELSE [content EXCEPT ![temporary[p]] = Gone]

\* For the properties: what is at the path is no longer as a lock run left it, and
\* loaders that have it open may notice.
Touched(path) ==
    /\ untrusted' = untrusted \cup {path}
    /\ reader' = [r \in Readers |->
         IF reader[r].dir = checkout[path] THEN [reader[r] EXCEPT !.sound = FALSE]
         ELSE reader[r]]

\* read_prior_lock: the digests to trust.
ReadPriorLock(p) ==
    /\ pc[p] = "start"
    /\ prior' = [prior EXCEPT ![p] = lockfile]
    /\ Go(p, "resolve")
    /\ UNCHANGED <<lockfile, disk, untrusted, altered, locked, source, session, temporary,
                   backup, preserved, misread, reader>>

\* Mutant: the writer lock is not waited for.
WriterLockIgnored(p, s) ==
    /\ pc[p] = "resolve" /\ session[p][s] = NoTree
    /\ locked' = [locked EXCEPT ![s] = p]
    /\ source' = [source EXCEPT ![p] = s]
    /\ Go(p, "locked")
    /\ UNCHANGED <<lockfile, disk, untrusted, altered, prior, session, temporary, backup,
                   preserved, misread, reader>>

\* A source of the session is returned as it is; for another one its writer
\* lock is awaited.
AcquireWriterLock(p, s) ==
    /\ pc[p] = "resolve" /\ session[p][s] = NoTree
    /\ locked[s] = NoProc
    /\ locked' = [locked EXCEPT ![s] = p]
    /\ source' = [source EXCEPT ![p] = s]
    /\ Go(p, "locked")
    /\ UNCHANGED <<lockfile, disk, untrusted, altered, prior, session, temporary, backup,
                   preserved, misread, reader>>

\* inspect_existing_checkout, and what follows: a match is used; a limit, or metadata
\* that cannot be read, ends the run; another tree, none, and one that could not be
\* read all count as no checkout.
InspectExisting(p, path, otherwise) ==
    \/ Good(path) /\ Materialized(p, path[2]) /\ content' = Deleted(p)
    \/ Failed(p) /\ content' = Deleted(p)
    \/ /\ \/ Stored(path) \notin {path[2], Oversized} /\ UNCHANGED misread
          \/ Stored(path) # NoTree /\ misread' = misread \cup {p}
       /\ Go(p, otherwise)
       /\ UNCHANGED <<untrusted, locked, source, session, temporary, content>>

\* The checkout of the trusted digest, if there is one.
InspectTrusted(p) ==
    /\ pc[p] = "locked"
    /\ \/ /\ Expected(p) = NoTree
          /\ Go(p, "fetch")
          /\ UNCHANGED <<untrusted, locked, source, session, temporary, misread, content>>
       \/ /\ Expected(p) # NoTree
          /\ InspectExisting(p, <<source[p], Expected(p)>>, "fetch")
    /\ UNCHANGED <<lockfile, checkout, altered, prior, backup, preserved, reader>>

\* The source directory's temporary directory and what Git puts there.
Fetch(p, t) ==
    /\ pc[p] = "fetch"
    /\ LET d == <<p, source[p]>> IN
       /\ temporary' = [temporary EXCEPT ![p] = d]
       /\ content' = [content EXCEPT ![d] = t]
    /\ Go(p, "fetched")
    /\ UNCHANGED <<lockfile, checkout, untrusted, altered, locked, prior, source, session,
                   backup, preserved, misread, reader>>

\* No directory, no network, no commit, or a package beyond the limits.
FetchFails(p) ==
    /\ pc[p] = "fetch"
    /\ Failed(p)
    /\ UNCHANGED <<lockfile, disk, altered, prior, backup, preserved, reader>>

\* CacheIntegrity when the trusted digest is another one; when it is the fetched one,
\* what its inspection found before the fetch stands; otherwise a checkout that is
\* already there and good is used instead of the fetched one.
InspectFetched(p) ==
    /\ pc[p] = "fetched"
    /\ \/ /\ Expected(p) \notin {NoTree, Fetched(p)}
          /\ Failed(p) /\ content' = Deleted(p)
       \/ /\ Expected(p) = Fetched(p)
          /\ Go(p, "publish")
          /\ UNCHANGED <<untrusted, locked, source, session, temporary, misread, content>>
       \/ /\ Expected(p) = NoTree
          /\ InspectExisting(p, Target(p), "publish")
    /\ UNCHANGED <<lockfile, checkout, altered, prior, backup, preserved, reader>>

\* publish_checkout: the path is free, or what is there is moved aside first, be it
\* a good checkout that could not be read.
PublishCheckout(p) ==
    /\ pc[p] = "publish"
    /\ \/ /\ checkout[Target(p)] = NoDir
          /\ checkout' = [checkout EXCEPT ![Target(p)] = temporary[p]]
          /\ Materialized(p, Fetched(p))
          /\ UNCHANGED <<backup, reader>>
       \/ /\ checkout[Target(p)] # NoDir
          /\ backup' = [backup EXCEPT ![p] = checkout[Target(p)]]
          /\ checkout' = [checkout EXCEPT ![Target(p)] = NoDir]
          /\ Go(p, "swap")
          /\ IF p \in misread
             THEN Touched(Target(p)) ELSE UNCHANGED <<untrusted, reader>>
          /\ UNCHANGED <<locked, source, session, temporary, misread>>
    /\ UNCHANGED <<lockfile, content, altered, prior, preserved>>

\* The first rename fails, or the backup's directory cannot be made.
PublishFails(p) ==
    /\ pc[p] = "publish"
    /\ Failed(p) /\ content' = Deleted(p)
    /\ UNCHANGED <<lockfile, checkout, altered, prior, backup, preserved, reader>>

\* The replacement's rename.  (The session's entry follows the backup's deletion;
\* nobody but this run reads it.)
Swap(p) ==
    /\ pc[p] = "swap"
    /\ checkout' = [checkout EXCEPT ![Target(p)] = temporary[p]]
    /\ temporary' = [temporary EXCEPT ![p] = NoDir]
    /\ session' = [session EXCEPT ![p][source[p]] = Fetched(p)]
    /\ untrusted' = untrusted \ {Target(p)}
    /\ Go(p, "swapped")
    /\ UNCHANGED <<lockfile, content, altered, locked, prior, source, backup, preserved,
                   misread, reader>>

\* The guard of the backup's directory deletes it, and the writer lock is freed.
DeleteBackup(p) ==
    /\ pc[p] = "swapped"
    /\ content' = [content EXCEPT ![backup[p]] = Gone]
    /\ backup' = [backup EXCEPT ![p] = NoDir]
    /\ source' = [source EXCEPT ![p] = NoSource]
    /\ misread' = misread \ {p}
    /\ Unlock(p)
    /\ Go(p, "resolve")
    /\ UNCHANGED <<lockfile, checkout, untrusted, altered, prior, session, temporary,
                   preserved, reader>>

SwapFails(p) ==
    /\ pc[p] = "swap"
    /\ Go(p, "rollback")
    /\ UNCHANGED <<lockfile, disk, untrusted, altered, locked, prior, source, session,
                   temporary, backup, preserved, misread, reader>>

\* Mutant: the backup is deleted when it cannot be put back.
BackupLost(p) ==
    /\ pc[p] = "rollback"
    /\ content' = [Deleted(p) EXCEPT ![backup[p]] = Gone]
    /\ backup' = [backup EXCEPT ![p] = NoDir]
    /\ Failed(p)
    /\ UNCHANGED <<lockfile, checkout, altered, prior, preserved, reader>>

\* The checkout is put back, or kept where it is and reported (CacheRollback).
Rollback(p) ==
    /\ pc[p] = "rollback"
    /\ \/ /\ checkout' = [checkout EXCEPT ![Target(p)] = backup[p]]
          /\ UNCHANGED preserved
       \/ /\ preserved' = preserved \cup {backup[p]}
          /\ UNCHANGED checkout
    /\ backup' = [backup EXCEPT ![p] = NoDir]
    /\ content' = Deleted(p)
    /\ Failed(p)
    /\ UNCHANGED <<lockfile, altered, prior, reader>>

\* Mutant: the lock is written before every source is materialized.
LockWrittenEarly(p) ==
    /\ pc[p] = "resolve"
    /\ Go(p, IF lockfile \in {prior[p], session[p]} THEN "validated" ELSE "failed")
    /\ UNCHANGED <<lockfile, disk, untrusted, altered, locked, prior, source, session,
                   temporary, backup, preserved, misread, reader>>

\* Every source is materialized.  A lockfile that would not change is left alone;
\* otherwise it must still be the one that was read.
ValidateLock(p) ==
    /\ pc[p] = "resolve"
    /\ \A s \in Sources : session[p][s] # NoTree
    /\ Go(p, IF session[p] = prior[p] THEN "done"
             ELSE IF lockfile = prior[p] THEN "validated" ELSE "failed")
    /\ UNCHANGED <<lockfile, disk, untrusted, altered, locked, prior, source, session,
                   temporary, backup, preserved, misread, reader>>

\* A manifest, a plugin pin or the package graph is refused.
ResolutionFails(p) ==
    /\ pc[p] = "resolve"
    /\ Go(p, "failed")
    /\ UNCHANGED <<lockfile, disk, untrusted, altered, locked, prior, source, session,
                   temporary, backup, preserved, misread, reader>>

\* create_file_atomically or replace_file_atomically_if_unchanged: the rename does
\* not look again (AtomicWrite has its steps).
WriteLock(p) ==
    /\ pc[p] = "validated"
    /\ lockfile' = session[p]
    /\ Go(p, "done")
    /\ UNCHANGED <<disk, untrusted, altered, locked, prior, source, session, temporary,
                   backup, preserved, misread, reader>>

\* The process dies; the system releases its writer lock and nothing else.
Crash(p) ==
    /\ Running(p)
    /\ Unlock(p)
    /\ Go(p, "crashed")
    /\ UNCHANGED <<lockfile, disk, untrusted, altered, prior, source, session, temporary,
                   backup, preserved, misread, reader>>

-----------------------------------------------------------------------------
(* A loader.                                                                *)

\* The loader gives up, and forgets what it has read.
Reject(r) ==
    reader' = [reader EXCEPT ![r] =
                 [Idle EXCEPT !.at = "rejected", !.sound = reader[r].sound]]

\* The lockfile names the digest of a source.
ReadLock(r, s) ==
    /\ reader[r].at = "idle" /\ lockfile[s] # NoTree
    /\ reader' = [reader EXCEPT ![r].at = "open", ![r].path = <<s, lockfile[s]>>]
    /\ UNCHANGED <<lockfile, disk, untrusted, altered, writers>>

\* RealFileSystem::rooted keeps the directory open.  sound records, for the
\* properties, that it held the locked tree and nobody else changed it since.
OpenCheckout(r) ==
    /\ reader[r].at = "open"
    /\ LET path == reader[r].path IN
       IF checkout[path] = NoDir THEN Reject(r)
       ELSE reader' = [reader EXCEPT ![r].at = "manifest", ![r].dir = checkout[path],
                                     ![r].sound = Good(path) /\ path \notin untrusted]
    /\ UNCHANGED <<lockfile, disk, untrusted, altered, writers>>

\* What a read of the open directory finds.
Held(r) == content[reader[r].dir]

ReadManifest(r) ==
    /\ reader[r].at = "manifest"
    /\ IF Held(r) \in Tree
       THEN reader' = [reader EXCEPT ![r].at = "captureManifest",
                                     ![r].manifest = Held(r).manifest]
       ELSE Reject(r)
    /\ UNCHANGED <<lockfile, disk, untrusted, altered, writers>>

\* capture_source_tree reads graphcal.toml first, then the other files.
CaptureManifest(r) ==
    /\ reader[r].at = "captureManifest"
    /\ IF Held(r) \in Tree
       THEN reader' = [reader EXCEPT ![r].at = "captureBody", ![r].captured = Held(r)]
       ELSE Reject(r)
    /\ UNCHANGED <<lockfile, disk, untrusted, altered, writers>>

CaptureBody(r) ==
    /\ reader[r].at = "captureBody"
    /\ IF Held(r) \in Tree
       THEN reader' = [reader EXCEPT ![r].at = "verify", ![r].captured.body = Held(r).body]
       ELSE Reject(r)
    /\ UNCHANGED <<lockfile, disk, untrusted, altered, writers>>

\* Mutant: the manifest that chose the files is not the captured one's.
ManifestUnchecked(r) ==
    /\ reader[r].at = "verify"
    /\ IF reader[r].captured = reader[r].path[2]
       THEN reader' = [reader EXCEPT ![r].at = "accepted", ![r].dir = NoDir]
       ELSE Reject(r)
    /\ UNCHANGED <<lockfile, disk, untrusted, altered, writers>>

\* verify_locked_source, then the captured manifest against the one read before.
Verify(r) ==
    /\ reader[r].at = "verify"
    /\ IF /\ reader[r].captured = reader[r].path[2]
          /\ reader[r].captured.manifest = reader[r].manifest
       THEN reader' = [reader EXCEPT ![r].at = "accepted", ![r].dir = NoDir]
       ELSE Reject(r)
    /\ UNCHANGED <<lockfile, disk, untrusted, altered, writers>>

\* The loader's own read of the directory fails.
ReadFails(r) ==
    /\ reader[r].at \in {"open", "manifest", "captureManifest", "captureBody"}
    /\ reader' = [reader EXCEPT ![r] = [Idle EXCEPT !.at = "rejected"]]
    /\ UNCHANGED <<lockfile, disk, untrusted, altered, writers>>

-----------------------------------------------------------------------------
(* Other programs.                                                          *)

\* A file of a checkout changes, or the checkout as a whole does.
Alter(path, c) ==
    /\ altered < MaxAlter /\ altered' = altered + 1
    /\ checkout[path] # NoDir
    /\ content' = [content EXCEPT ![checkout[path]] = c]
    /\ Touched(path)
    /\ UNCHANGED <<lockfile, checkout, writers>>

Remove(path) ==
    /\ altered < MaxAlter /\ altered' = altered + 1
    /\ checkout[path] # NoDir
    /\ checkout' = [checkout EXCEPT ![path] = NoDir]
    /\ content' = [content EXCEPT ![checkout[path]] = Gone]
    /\ Touched(path)
    /\ UNCHANGED <<lockfile, writers>>

-----------------------------------------------------------------------------
\* What Git brings, or does not.
Fetching(p) == FetchFails(p) \/ \E t \in Remote : Fetch(p, t)

\* What a run that is not refused goes on with by itself.
Advance(p) ==
    \/ ReadPriorLock(p)
    \/ \E s \in Sources : AcquireWriterLock(p, s)
    \/ InspectTrusted(p) \/ InspectFetched(p)
    \/ PublishCheckout(p) \/ PublishFails(p)
    \/ Swap(p) \/ SwapFails(p) \/ Rollback(p) \/ DeleteBackup(p)
    \/ ValidateLock(p) \/ WriteLock(p)

LockRun(p) == Advance(p) \/ Fetching(p) \/ ResolutionFails(p)

Loader(r) ==
    \/ \E s \in Sources : ReadLock(r, s)
    \/ OpenCheckout(r) \/ ReadManifest(r)
    \/ CaptureManifest(r) \/ CaptureBody(r) \/ Verify(r) \/ ReadFails(r)

Others ==
    \E path \in Paths :
        \/ \E c \in Tree \cup {Broken, Oversized} : Alter(path, c)
        \/ Remove(path)

Next ==
    \/ \E p \in Procs : LockRun(p) \/ Crash(p)
    \/ \E r \in Readers : Loader(r)
    \/ Others

Spec == Init /\ [][Next]_vars

\* A lock run goes on by itself, and a waiter for a writer lock gets it when it is
\* free: nothing else ends its wait.  Git is not sure to end: materialize_git_revision
\* sets no timeout and never interrupts it, and the writer lock is held meanwhile.
FairSpec == Spec /\ \A p \in Procs : WF_vars(Advance(p))

-----------------------------------------------------------------------------
(* Properties.                                                              *)

\* What a lock run reports as materialized lies in the cache, whatever other runs
\* do, crash or fail to publish, unless another program has touched it since, or a
\* run that could not read it has moved it aside (inspect_existing_checkout).
MaterializedIsStored ==
    \A p \in Procs, s \in Sources :
        LET path == <<s, session[p][s]>> IN
        session[p][s] # NoTree => Good(path) \/ path \in untrusted

\* The digests of a lockfile that a run wrote can be loaded: they are all there and
\* stored, unless another program has touched them since or a run that could not
\* read one has moved it aside.
LockfileIsMaterialized ==
    (\E p \in Procs : pc[p] = "done" /\ lockfile = session[p]) =>
        \A s \in Sources :
            /\ lockfile[s] # NoTree
            /\ Good(<<s, lockfile[s]>>) \/ <<s, lockfile[s]>> \in untrusted

\* A run never materializes another tree than the lockfile it trusts names for a
\* source, even when the remote serves another one.
TrustedDigestsKept ==
    \A p \in Procs, s \in Sources :
        prior[p][s] # NoTree => session[p][s] \in {NoTree, prior[p][s]}

\* A loader uses exactly the locked tree, with that tree's own manifest, whatever is
\* swapped or edited between its reads.
LoaderUsesLockedTree ==
    \A r \in Readers : reader[r].at = "accepted" =>
        /\ reader[r].captured = reader[r].path[2]
        /\ reader[r].manifest = reader[r].path[2].manifest

\* A loader that opened a good checkout, and can read it, is not disturbed by lock
\* runs, except by one that could not read that checkout and moved it aside.
SoundReadsSucceed ==
    \A r \in Readers : reader[r].at = "rejected" => ~reader[r].sound

\* Nothing stays behind a run that did not crash: a directory that still exists is a
\* checkout, belongs to a run under way or crashed, or was reported as preserved.
NothingLeftBehind ==
    \A d \in Dirs : content[d] # Gone =>
        \/ \E path \in Paths : checkout[path] = d
        \/ \E p \in Procs : /\ d \in {temporary[p], backup[p]}
                            /\ Running(p) \/ pc[p] = "crashed"
        \/ d \in preserved

\* A lock run takes a good checkout away only when its own inspection could not read
\* it and the package was fetched again; otherwise only other programs do, or a run
\* that found the checkout bad before one of them mended it.
GoodCheckoutsKept ==
    [][\A path \in Paths \ untrusted :
         Good(path) => \/ Good(path)' \/ altered' # altered
                       \/ \E p \in misread : pc[p] = "publish" /\ Target(p) = path]_vars

\* A checkout that was moved aside is deleted only while its replacement is in place
\* and as it was fetched, unless another program has touched that since.
BackupOutlivesSwap ==
    [][\A p \in Procs :
         backup[p] # NoDir /\ content[backup[p]] # Gone /\ content'[backup[p]] = Gone
         => LET path == <<source[p], session[p][source[p]]>> IN
            session[p][source[p]] # NoTree /\ (Good(path) \/ path \in untrusted)]_vars

\* If lock runs go on for ever, a fetch does: the writer lock of a run that failed or
\* crashed does not keep another one waiting.
RunsEnd ==
    <>[](\E p \in Procs : Running(p)) => <>[](\E p \in Procs : pc[p] = "fetch")
=============================================================================
