---------------------------- MODULE AtomicWrite ----------------------------
(***************************************************************************)
(* graphcal-io's durable same-directory replacement of a file, as `graphcal *)
(* format` and `graphcal deps lock` use it: read the destination, compute,   *)
(* then create it if it was missing or replace it if it is unchanged.        *)
(*                                                                         *)
(* The file system is external: a rename is atomic, but directory entries    *)
(* and file contents reach the disk when they are synchronized, or earlier   *)
(* in any order, and a crash leaves what the disk holds.  Other programs      *)
(* edit, create and delete the destination, durably and in one step.         *)
(* Unix only: elsewhere the directory is not synchronized.                   *)
(***************************************************************************)
CONSTANTS
    Writers,  \* graphcal processes; each one stands for its replacement too
    Edits,    \* what other programs may write, each once
    Orig,     \* the contents the destination has at first
    Partial,  \* contents that are not all there
    NoFile,   \* no directory entry
    Unread    \* a writer has not read the destination yet

\* A file is named by who made it.
Files == Writers \cup Edits \cup {Orig}

ASSUME DistinctAssumption ==
    /\ Writers \cap Edits = {}
    /\ Orig \notin Writers \cup Edits
    /\ Partial \notin Files
    /\ NoFile \notin Files \cup {Partial}
    /\ Unread \notin Files \cup {Partial, NoFile}

VARIABLES
    entry,      \* the file the destination names, NoFile when there is none
    data,       \* the contents of a file
    diskEntry,  \* what the disk holds of entry
    diskData,   \* and of data
    phase,      \* where a writer is
    expected,   \* the contents it read, NoFile when there was none
    raced,      \* writers past their last validation when somebody else wrote
    edits       \* edits not made yet

replaceVars == <<entry, data, diskEntry, diskData, phase, expected, raced, edits>>
onDisk == <<diskEntry, diskData>>

Contents == IF entry = NoFile THEN NoFile ELSE data[entry]

ReplaceInit ==
    /\ entry \in {Orig, NoFile}
    /\ diskEntry = entry
    /\ data = [f \in Files |-> IF f = Orig THEN Orig ELSE Partial]
    /\ diskData = data
    /\ phase = [w \in Writers |-> "start"]
    /\ expected = [w \in Writers |-> Unread]
    /\ raced = {}
    /\ edits = Edits

Reach(w, to) == phase' = [phase EXCEPT ![w] = to]

\* Writers whose last validation is behind them and whose rename is not.
Committed == {w \in Writers : phase[w] \in {"validated", "synced"}}

-----------------------------------------------------------------------------
(* write_file_atomically_with.                                              *)

\* The caller reads the destination; its absence asks for a creation.
ReadSource(w) ==
    /\ phase[w] = "start"
    /\ expected' = [expected EXCEPT ![w] = Contents]
    /\ Reach(w, "read")
    /\ UNCHANGED <<entry, data, onDisk, raced, edits>>

\* validate_destination_expectation: DestinationExists, DestinationMissing and
\* DestinationChanged.
AsExpected(w) == Contents = expected[w]

FirstValidation(w) ==
    /\ phase[w] = "read"
    /\ Reach(w, IF AsExpected(w) THEN "create" ELSE "failed")
    /\ UNCHANGED <<entry, data, onDisk, expected, raced, edits>>

\* The temporary file is written; without a crash only the cache holds it.
WriteTemporary(w) ==
    /\ phase[w] = "create"
    /\ data' = [data EXCEPT ![w] = w]
    /\ Reach(w, "written")
    /\ UNCHANGED <<entry, onDisk, expected, raced, edits>>

\* Mutant: the destination is validated once.
SecondValidationSkipped(w) ==
    /\ phase[w] = "written"
    /\ Reach(w, "validated")
    /\ UNCHANGED <<entry, data, onDisk, expected, raced, edits>>

SecondValidation(w) ==
    /\ phase[w] = "written"
    /\ Reach(w, IF AsExpected(w) THEN "validated" ELSE "failed")
    /\ UNCHANGED <<entry, data, onDisk, expected, raced, edits>>

\* Mutant: the temporary file is not synchronized.
SyncTemporarySkipped(w) ==
    /\ phase[w] = "validated"
    /\ Reach(w, "synced")
    /\ UNCHANGED <<entry, data, onDisk, expected, raced, edits>>

SyncTemporary(w) ==
    /\ phase[w] = "validated"
    /\ diskData' = [diskData EXCEPT ![w] = data[w]]
    /\ Reach(w, "synced")
    /\ UNCHANGED <<entry, data, diskEntry, expected, raced, edits>>

\* tempfile's persist: a rename that replaces whatever is there.
Persist(w) ==
    /\ phase[w] = "synced"
    /\ entry' = w
    /\ Reach(w, "renamed")
    /\ raced' = raced \cup (Committed \ {w})
    /\ UNCHANGED <<data, onDisk, expected, edits>>

\* Mutant: the directory is not synchronized.
SyncDirectorySkipped(w) ==
    /\ phase[w] = "renamed"
    /\ Reach(w, "ok")
    /\ UNCHANGED <<entry, data, onDisk, expected, raced, edits>>

SyncDirectory(w) ==
    /\ phase[w] = "renamed"
    /\ diskEntry' = entry
    /\ Reach(w, "ok")
    /\ UNCHANGED <<entry, data, diskData, expected, raced, edits>>

\* Creating, writing, adjusting, synchronizing or renaming the temporary file
\* fails; it is deleted.
Fail(w) ==
    /\ phase[w] \in {"create", "written", "validated", "synced"}
    /\ Reach(w, "failed")
    /\ UNCHANGED <<entry, data, onDisk, expected, raced, edits>>

\* The directory cannot be synchronized after the rename.
FailSync(w) ==
    /\ phase[w] = "renamed"
    /\ Reach(w, "unsynced")
    /\ UNCHANGED <<entry, data, onDisk, expected, raced, edits>>

-----------------------------------------------------------------------------
(* The file system and the other programs.                                  *)

WriteBack ==
    /\ \/ diskEntry' = entry /\ UNCHANGED diskData
       \/ \E f \in Files : diskData' = [diskData EXCEPT ![f] = data[f]] /\ UNCHANGED diskEntry
    /\ UNCHANGED <<entry, data, phase, expected, raced, edits>>

\* Another program writes the destination in place, or creates it.
Edit(e) ==
    /\ e \in edits
    /\ edits' = edits \ {e}
    /\ LET f == IF entry = NoFile THEN e ELSE entry
       IN  /\ entry' = f /\ diskEntry' = f
           /\ data' = [data EXCEPT ![f] = e]
           /\ diskData' = [diskData EXCEPT ![f] = e]
    /\ raced' = raced \cup Committed
    /\ UNCHANGED <<phase, expected>>

\* Another program deletes the destination.
Delete(e) ==
    /\ e \in edits
    /\ entry # NoFile
    /\ edits' = edits \ {e}
    /\ entry' = NoFile /\ diskEntry' = NoFile
    /\ raced' = raced \cup Committed
    /\ UNCHANGED <<data, diskData, phase, expected>>

\* The machine crashes: every process ends and the disk is what is left.  A
\* writer that has not started runs after the restart.
PowerLoss ==
    /\ entry' = diskEntry
    /\ data' = diskData
    /\ phase' = [w \in Writers |-> IF phase[w] \in {"start", "ok", "failed", "unsynced"}
                                THEN phase[w] ELSE "crashed"]
    /\ UNCHANGED <<onDisk, expected, raced, edits>>

ReplaceNext ==
    \/ \E w \in Writers :
          \/ ReadSource(w) \/ FirstValidation(w) \/ WriteTemporary(w)
          \/ SecondValidation(w) \/ SyncTemporary(w) \/ Persist(w) \/ SyncDirectory(w)
          \/ Fail(w) \/ FailSync(w)
    \/ \E e \in Edits : Edit(e) \/ Delete(e)
    \/ WriteBack
    \/ PowerLoss

ReplaceSpec == ReplaceInit /\ [][ReplaceNext]_replaceVars

-----------------------------------------------------------------------------
(* Properties.                                                              *)

\* The views of the directory and the writers keep their types, which includes
\* that what read_prior_lock returns is never a partly written file.
ReplaceTypeOK ==
    /\ entry \in Files \cup {NoFile}
    /\ data \in [Files -> Files \cup {Partial}]
    /\ diskEntry \in Files \cup {NoFile}
    /\ diskData \in [Files -> Files \cup {Partial}]
    /\ phase \in [Writers -> {"start", "read", "create", "written", "validated", "synced",
                              "renamed", "ok", "failed", "unsynced", "crashed"}]
    /\ expected \in [Writers -> Files \cup {NoFile, Unread}]
    /\ raced \subseteq Writers
    /\ edits \subseteq Edits

\* Neither now nor after a crash at any point does the destination name a file
\* that is not completely written ("synchronizes them, and only then replaces
\* the destination").
DestinationComplete ==
    /\ entry # NoFile => data[entry] # Partial
    /\ diskEntry # NoFile => diskData[diskEntry] # Partial

\* Once a writer has reported success, its replacement is on disk for as long
\* as it is the destination ("so the rename is durable").
SuccessIsDurable ==
    \A w \in Writers : phase[w] = "ok" /\ entry = w => diskEntry = w /\ diskData[w] # Partial

\* A rename replaces contents other than the expected ones only if somebody
\* wrote them after the last validation: no edit made before it is lost.
SeenEditsKept ==
    [][\A w \in Writers :
          phase[w] = "synced" /\ phase'[w] = "renamed"
          => AsExpected(w) \/ w \in raced]_replaceVars
=============================================================================
